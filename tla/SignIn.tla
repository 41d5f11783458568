-------------------------------- MODULE SignIn --------------------------------
(***************************************************************************)
(* Signing in with a wallet: the login page, the endpoints under api/auth, *)
(* the tables auth_challenges and sessions, the cookie, the hook that      *)
(* reads it on every page, the edge cache in front of it, and the          *)
(* WalletConnect pairings the signing pages reuse.                         *)
(*                                                                         *)
(* A login attempt runs in a page and, from its first request on, in the   *)
(* server up to its next await in one step.  Answers reach the browser in  *)
(* any order.  Addresses have AddressBits bits of either family; a session *)
(* id and a nonce is the number of its row, for they are random.           *)
(*                                                                         *)
(* Simplifications.  last_used_at is read by nothing but its own refresh.  *)
(* A client has one login page open; its attempts go on in it whatever the *)
(* page shows.  An input that is no address only costs a hit.              *)
(***************************************************************************)
EXTENDS Integers, Sequences, FiniteSets

CONSTANTS
  Wallet,        \* addresses
  Client,        \* browsers
  Attempt,       \* login attempts in progress at a time
  Via,           \* the ways a request may reach the server: [peer, cf, xff, origin, referer]
  ProxyEnv,      \* TRUST_PROXY_HEADERS and TRUSTED_PROXY_CIDRS: [trust, any, cidrs]
  AddressBits,
  ChallengeTtl, SessionTtl, Grace, Window, MaxPerWindow, EdgeTtl,
  MaxNonce,      \* bound on challenges
  MaxTime,       \* bound on the clock
  MaxFaults      \* bound on failed statements, lost and repeated messages, restarts

VARIABLES
  now,
  challenges,    \* auth_challenges, by nonce
  sessions,      \* the committed rows of sessions
  attempts,      \* attempt -> where it is
  ids,           \* session ids drawn
  page,          \* client -> the stage its login page shows, and for which attempt
  cookie,        \* client -> the session id it sends, 0 for none
  mail,          \* answers on their way to a browser
  pairings,      \* client -> WalletConnect sessions its browser keeps
  hits,          \* challengeRateLimiter's buckets
  edge,          \* what the edge keeps, by URL
  starts,        \* times the server has been started again
  faults,
  born,          \* every session committed
  ended,         \* ids of sessions logged out
  lent           \* <<signed in as, wallet the page was given to sign with>>

vars == <<now, challenges, sessions, attempts, ids, page, cookie, mail, pairings, hits, edge,
          starts, faults, born, ended, lent>>
tables == <<challenges, sessions>>
browser == <<page, cookie, mail, pairings>>
history == <<born, ended, lent>>

(* A key that is none of the wallets that sign in here.  A signature is    *)
(* the key recovered from it.                                              *)
Stranger == 0

Unknown == [v6 |-> FALSE, n |-> -2]
Idle == [pc |-> "idle", client |-> 0, manual |-> FALSE, wallet |-> 0, nonce |-> 0,
         signer |-> 0, ip |-> Unknown, id |-> 0, expires |-> 0, swept |-> {}]

----------------------------------------------------------------------------
(* Whose address a request counts for.  An address is [v6, n].             *)

Address == [v6 : BOOLEAN, n : 0..(2 ^ AddressBits - 1)]
Cidr == [v6 : BOOLEAN, n : 0..(2 ^ AddressBits - 1), prefix : Nat]

IpInCidr(ip, cidr) ==
  /\ cidr.v6 = ip.v6
  /\ cidr.prefix <= AddressBits
  /\ LET shift == 2 ^ (AddressBits - cidr.prefix)
     IN ip.n \div shift = cidr.n \div shift

(* Malformed entries stop the server at load; a star trusts every peer.    *)
TrustedCidrs == IF ProxyEnv.trust /\ ~ProxyEnv.any THEN ProxyEnv.cidrs ELSE {}

IsTrustedPeer(peer) ==
  /\ ProxyEnv.trust
  /\ TrustedCidrs = {} \/ \E cidr \in TrustedCidrs : IpInCidr(peer, cidr)

(* NoAddress is a header that is missing, and a socket without a peer.     *)
NoAddress == [v6 |-> FALSE, n |-> -1]

ClientIp(via) ==
  LET trusted == via.peer # NoAddress /\ IsTrustedPeer(via.peer)
      claimed == IF via.cf # NoAddress THEN via.cf ELSE via.xff
  IN IF trusted /\ claimed # NoAddress THEN claimed
     ELSE IF via.peer # NoAddress THEN via.peer ELSE Unknown

ASSUME TtlAssumption ==
  {ChallengeTtl, SessionTtl, Grace, Window, MaxPerWindow, EdgeTtl} \subseteq Nat /\ ChallengeTtl > 0

ASSUME ViaAssumption ==
  /\ \A via \in Via : {via.peer, via.cf, via.xff} \subseteq Address \cup {NoAddress}
  /\ ProxyEnv.cidrs \subseteq Cidr

(* State changes are asked for by the site's own pages: the Origin header  *)
(* says so, or, where a client omits it, the Referer.                      *)
OwnOrigins == {"self", "allowed"}
IsSameSiteOrAllowed(via) ==
  via.origin \in OwnOrigins \/ (via.origin = "none" /\ via.referer \in OwnOrigins)

(* Each address's hits, oldest first, less those at the front that have    *)
(* aged out; every unknown address shares one bucket.                      *)
AgedOut(ip) ==
  CHOOSE d \in 0..Len(hits[ip]) :
    /\ \A k \in 1..d : hits[ip][k] < now - Window
    /\ d < Len(hits[ip]) => hits[ip][d + 1] >= now - Window
Recent(ip) == SubSeq(hits[ip], AgedOut(ip) + 1, Len(hits[ip]))
(* Mutant: the bucket holds one more than the limit.                       *)
AllowedOneMore(ip) == Len(Recent(ip)) <= MaxPerWindow

Allowed(ip) == Len(Recent(ip)) < MaxPerWindow
Ips == {ClientIp(via) : via \in Via}

Nobody ==
  /\ challenges = <<>> /\ sessions = {} /\ ids = 0 /\ born = {}
  /\ cookie = [c \in Client |-> 0] /\ pairings = [c \in Client |-> {}]

(* One wallet signed in before the clock starts, and its session may have  *)
(* been rotated away or come to its end since.  Other browsers were never  *)
(* signed in.                                                              *)
SignedIn ==
  \E c \in Client, w \in Wallet, ip \in Ips, live \in BOOLEAN :
  \E expires \in IF live THEN {0, SessionTtl} ELSE {SessionTtl} :
    LET s == [id |-> 1, wallet |-> w, expires |-> expires, nonce |-> 1, signer |-> w, ip |-> ip]
    IN /\ challenges = <<[wallet |-> w, ip |-> ip, expires |-> 0, consumed |-> TRUE, start |-> 0]>>
       /\ sessions = (IF live THEN {s} ELSE {}) /\ born = {s} /\ ids = 1
       /\ cookie = [d \in Client |-> IF d = c THEN 1 ELSE 0]
       /\ pairings = [d \in Client |-> {}]

SignInInit ==
  /\ Nobody \/ SignedIn
  /\ now = 0
  /\ attempts = [a \in Attempt |-> Idle]
  /\ page = [c \in Client |-> [stage |-> "idle", attempt |-> 0]]
  /\ mail = {}
  /\ hits = [ip \in Ips |-> <<>>]
  /\ edge = {} /\ starts = 0 /\ faults = 0
  /\ ended = {i \in 1..ids : \A s \in sessions : s.id # i} /\ lent = {}

----------------------------------------------------------------------------
(* The login page.                                                         *)

Stage(c, stage, a) == page' = [page EXCEPT ![c] = [stage |-> stage, attempt |-> a]]
Go(a, pc) == attempts' = [attempts EXCEPT ![a].pc = pc]
Begin(a, c, w, manual, pc) ==
  attempts' = [attempts EXCEPT ![a] = [Idle EXCEPT !.pc = pc, !.client = c, !.wallet = w, !.manual = manual]]

(* The buttons of the first stage.                                         *)
Offered(c) == page[c].stage = "idle"

(* An error ends the attempt and is shown whatever the page shows by then. *)
Fails(a) ==
  /\ attempts' = [attempts EXCEPT ![a] = Idle]
  /\ Stage(attempts[a].client, "error", 0)

ConnectWallet(a, c, w) ==
  /\ attempts[a].pc = "idle" /\ Offered(c)
  /\ Begin(a, c, w, FALSE, "approving")
  /\ Stage(c, "awaiting", 0)
  /\ UNCHANGED <<now, tables, ids, cookie, mail, pairings, hits, edge, starts, faults, history>>

(* The owner approves in the wallet, or refuses; Cancel on the page does   *)
(* not reach it.                                                           *)
Approve(a) ==
  LET c == attempts[a].client
  IN /\ attempts[a].pc = "approving"
     /\ \/ /\ Go(a, "asking")
           /\ pairings' = [pairings EXCEPT ![c] = @ \cup {[wallet |-> attempts[a].wallet, live |-> TRUE]}]
           /\ UNCHANGED page
        \/ Fails(a) /\ UNCHANGED pairings
     /\ UNCHANGED <<now, tables, ids, cookie, mail, hits, edge, starts, faults, history>>

StartManual(c) ==
  /\ Offered(c)
  /\ Stage(c, "enter-address", 0)
  /\ UNCHANGED <<now, tables, attempts, ids, cookie, mail, pairings, hits, edge, starts, faults, history>>

RequestChallengeManual(a, c, w) ==
  /\ attempts[a].pc = "idle" /\ page[c].stage = "enter-address"
  /\ Begin(a, c, w, TRUE, "asking")
  /\ UNCHANGED <<now, tables, ids, browser, hits, edge, starts, faults, history>>

(* The buttons that start over are shown at these stages.                  *)
Resettable == {"awaiting", "enter-address", "sign", "error"}

Reset(c) ==
  /\ page[c].stage \in Resettable
  /\ Stage(c, "idle", 0)
  /\ attempts' = IF page[c].stage = "sign" THEN [attempts EXCEPT ![page[c].attempt] = Idle] ELSE attempts
  /\ UNCHANGED <<now, tables, ids, cookie, mail, pairings, hits, edge, starts, faults, history>>

(* The wallet asked may sign with another key than the address it gave.    *)
Sign(a, signer) ==
  LET c == attempts[a].client
  IN /\ attempts[a].pc = "signing"
     /\ attempts[a].manual => page[c] = [stage |-> "sign", attempt |-> a]
     /\ \/ /\ attempts' = [attempts EXCEPT ![a].pc = "verify", ![a].signer = signer]
           /\ Stage(c, "verifying", 0)
        \/ ~attempts[a].manual /\ Fails(a)
     /\ UNCHANGED <<now, tables, ids, cookie, mail, pairings, hits, edge, starts, faults, history>>

----------------------------------------------------------------------------
(* The endpoints.                                                          *)

NewChallenge(w, ip) == [wallet |-> w, ip |-> ip, expires |-> now + ChallengeTtl,
                        consumed |-> FALSE, start |-> starts]
PersistChallenge(w, ip) == challenges' = Append(challenges, NewChallenge(w, ip))

IssueChallenge(a, via) ==
  LET ip == ClientIp(via) c == attempts[a].client
  IN /\ attempts[a].pc = "asking"
     /\ IF IsSameSiteOrAllowed(via)
        THEN hits' = [hits EXCEPT ![ip] = IF Allowed(ip) THEN Append(Recent(ip), now) ELSE Recent(ip)]
        ELSE UNCHANGED hits
     /\ IF IsSameSiteOrAllowed(via) /\ Allowed(ip)
        THEN /\ Len(challenges) < MaxNonce
             /\ PersistChallenge(attempts[a].wallet, ip)
             /\ attempts' = [attempts EXCEPT ![a].pc = "signing", ![a].nonce = Len(challenges) + 1]
             /\ Stage(c, IF attempts[a].manual THEN "sign" ELSE "signing", IF attempts[a].manual THEN a ELSE 0)
        ELSE Fails(a) /\ UNCHANGED challenges
     /\ UNCHANGED <<now, sessions, ids, cookie, mail, pairings, edge, starts, faults, history>>

(* The rows a lookup finds: auth-cleanup takes only expired ones.          *)
Open(nonce) == ~challenges[nonce].consumed /\ challenges[nonce].expires > now

VerifySignedMessage(nonce, signer) == signer = challenges[nonce].wallet

(* findOpenChallenge, then the address it was issued to, then the signer.  *)
VerifyChallenge(a, via) ==
  LET nonce == attempts[a].nonce ip == ClientIp(via)
  IN /\ attempts[a].pc = "verify"
     /\ IF /\ IsSameSiteOrAllowed(via)
           /\ Open(nonce)
           /\ Unknown \in {challenges[nonce].ip, ip} \/ challenges[nonce].ip = ip
           /\ VerifySignedMessage(nonce, attempts[a].signer)
        THEN attempts' = [attempts EXCEPT ![a].pc = "consume", ![a].ip = ip] /\ UNCHANGED page
        ELSE Fails(a)
     /\ UNCHANGED <<now, tables, ids, cookie, mail, pairings, hits, edge, starts, faults, history>>

(* Mutant: the update does not ask whether the nonce was used.             *)
ConsumableTwice(nonce) == challenges[nonce].expires > now

Consumable(nonce) == Open(nonce)

ConsumeChallenge(a) ==
  LET nonce == attempts[a].nonce
  IN /\ attempts[a].pc = "consume"
     /\ IF Consumable(nonce)
        THEN /\ challenges' = [challenges EXCEPT ![nonce].consumed = TRUE]
             /\ Go(a, "rotate") /\ UNCHANGED page
        ELSE Fails(a) /\ UNCHANGED challenges
     /\ UNCHANGED <<now, sessions, ids, cookie, mail, pairings, hits, edge, starts, faults, history>>

(* The users row is upserted first, for the session's foreign key; nothing *)
(* deletes it.  rotateSession is one transaction under the wallet's        *)
(* advisory lock.                                                          *)
Holding == {"sweep", "commit"}
(* Mutant: no advisory lock.                                               *)
UnlockedAlways(w) == TRUE

Unlocked(w) == \A b \in Attempt : ~(attempts[b].pc \in Holding /\ attempts[b].wallet = w)

RotateInsert(a) ==
  /\ attempts[a].pc = "rotate" /\ Unlocked(attempts[a].wallet)
  /\ ids' = ids + 1
  /\ attempts' = [attempts EXCEPT ![a].pc = "sweep", ![a].id = ids + 1, ![a].expires = now + SessionTtl]
  /\ UNCHANGED <<now, tables, browser, hits, edge, starts, faults, history>>

(* The delete sees what is committed, and is itself seen at the commit.    *)
RotateSweep(a) ==
  /\ attempts[a].pc = "sweep"
  /\ attempts' = [attempts EXCEPT ![a].pc = "commit",
                                  ![a].swept = {s \in sessions : s.wallet = attempts[a].wallet}]
  /\ UNCHANGED <<now, tables, ids, browser, hits, edge, starts, faults, history>>

RotateCommit(a) ==
  LET at == attempts[a]
      s == [id |-> at.id, wallet |-> at.wallet, expires |-> at.expires, nonce |-> at.nonce,
            signer |-> at.signer, ip |-> at.ip]
  IN /\ at.pc = "commit"
     /\ sessions' = (sessions \ at.swept) \cup {s}
     /\ born' = born \cup {s}
     /\ mail' = mail \cup {[client |-> at.client, cookie |-> at.id]}
     /\ attempts' = [attempts EXCEPT ![a] = Idle]
     /\ Stage(at.client, "idle", 0)
     /\ UNCHANGED <<now, challenges, ids, cookie, pairings, hits, edge, starts, faults, ended, lent>>

Logout(c, via) ==
  /\ cookie[c] # 0 /\ IsSameSiteOrAllowed(via)
  /\ sessions' = {s \in sessions : s.id # cookie[c]}
  /\ ended' = ended \cup {cookie[c]}
  /\ mail' = mail \cup {[client |-> c, cookie |-> 0]}
  /\ UNCHANGED <<now, challenges, attempts, ids, page, cookie, pairings, hits, edge, starts, faults, born, lent>>

(* A browser takes an answer's Set-Cookie.                                 *)
Arrive(answer) ==
  /\ cookie' = [cookie EXCEPT ![answer.client] = answer.cookie]
  /\ mail' = mail \ {answer}
  /\ UNCHANGED <<now, tables, attempts, ids, page, pairings, hits, edge, starts, faults, history>>

----------------------------------------------------------------------------
(* Pages.  A URL is a locale prefix and a path.                            *)

Prefixes == {"", "es"}
Paths == {"public", "tool", "data"}
DeLocalized(url) == [url EXCEPT !.prefix = ""]

(* The paths under NO_STORE_PREFIXES; "data" answers with a policy of its  *)
(* own, which the hook keeps.                                              *)
IsNoStoreRoute(url) == url = [prefix |-> "", path |-> "tool"]

FindActiveSession(id) == {s \in sessions : s.id = id /\ s.expires > now}

(* Mutant: the path keeps its locale prefix.                               *)
ApplyEdgeCacheHeadersLocalized(url, user, clears) ==
  CASE url.path = "data" -> "own"
    [] IsNoStoreRoute(url) -> "no-store"
    [] OTHER -> IF user # {} \/ clears THEN "none" ELSE "public"

(* The header the hook leaves: the response is one for user, or for        *)
(* nobody, and may clear a cookie.                                         *)
ApplyEdgeCacheHeaders(url, user, clears) ==
  CASE url.path = "data" -> "own"
    [] IsNoStoreRoute(DeLocalized(url)) -> "no-store"
    [] OTHER -> IF user # {} \/ clears THEN "none" ELSE "public"

Fresh(url) == {e \in edge : e.url = url /\ now < e.since + EdgeTtl}

(* The edge answers, and keeps what it is not forbidden to keep, for       *)
(* requests without the cookie.  A lookup that fails serves the page as to *)
(* nobody.                                                                 *)
LoadPage(c, url) ==
  \E hiccup \in BOOLEAN :
    LET user == IF hiccup THEN {} ELSE FindActiveSession(cookie[c])
        clears == cookie[c] # 0 /\ ~hiccup /\ user = {}
        header == ApplyEdgeCacheHeaders(url, user, clears)
    IN /\ cookie[c] # 0 \/ Fresh(url) = {}
       /\ hiccup => cookie[c] # 0 /\ faults < MaxFaults
       /\ faults' = IF hiccup THEN faults + 1 ELSE faults
       /\ mail' = IF clears THEN mail \cup {[client |-> c, cookie |-> 0]} ELSE mail
       /\ edge' = IF cookie[c] = 0 /\ header \in {"public", "none"}
                  THEN {e \in edge : e.url # url} \cup {[url |-> url, user |-> user, since |-> now]}
                  ELSE edge
       /\ UNCHANGED <<now, tables, attempts, ids, page, cookie, pairings, hits, starts, history>>

----------------------------------------------------------------------------
(* Signing a transaction: connectWallet and signTransaction of             *)
(* lib/client/wc-client.ts, from a page of the wallet that is signed in.   *)

(* Mutant: any pairing the browser still has will do.                      *)
ReusableAny(c, w) == pairings[c]

Reusable(c, w) == {p \in pairings[c] : p.wallet = w}

Pair(c, w) ==
  \E s \in FindActiveSession(cookie[c]) :
    /\ IF Reusable(c, s.wallet) # {}
       THEN /\ \E p \in Reusable(c, s.wallet) : lent' = lent \cup {<<s.wallet, p.wallet>>}
            /\ UNCHANGED pairings
       ELSE /\ pairings' = [pairings EXCEPT ![c] = @ \cup {[wallet |-> w, live |-> TRUE]}]
            /\ lent' = IF w = s.wallet THEN lent \cup {<<s.wallet, w>>} ELSE lent
    /\ UNCHANGED <<now, tables, attempts, ids, page, cookie, mail, hits, edge, starts, faults, born, ended>>

(* The wallet forgets a pairing; the browser finds out when a request      *)
(* times out, and drops it.                                                *)
WalletForgets(c, p) ==
  /\ p.live /\ faults < MaxFaults /\ faults' = faults + 1
  /\ pairings' = [pairings EXCEPT ![c] = (@ \ {p}) \cup {[p EXCEPT !.live = FALSE]}]
  /\ UNCHANGED <<now, tables, attempts, ids, page, cookie, mail, hits, edge, starts, history>>

SignTimesOut(c, p) ==
  /\ ~p.live
  /\ pairings' = [pairings EXCEPT ![c] = @ \ {p}]
  /\ UNCHANGED <<now, tables, attempts, ids, page, cookie, mail, hits, edge, starts, faults, history>>

----------------------------------------------------------------------------
(* Faults and time.                                                        *)

AtServer == {"asking", "verify", "consume", "rotate", "sweep", "commit"}
MayFail == faults < MaxFaults /\ faults' = faults + 1

(* A statement fails: what was committed stays, a transaction is rolled    *)
(* back, and the page shows the error.                                     *)
StatementFails(a) ==
  /\ attempts[a].pc \in AtServer /\ MayFail /\ Fails(a)
  /\ UNCHANGED <<now, tables, ids, cookie, mail, pairings, hits, edge, starts, history>>

(* The browser sends the same verify again on another connection.          *)
Resend(a, b) ==
  /\ attempts[a].pc \in AtServer \ {"asking"} /\ attempts[b].pc = "idle" /\ MayFail
  /\ attempts' = [attempts EXCEPT ![b] = [Idle EXCEPT !.pc = "verify", !.client = attempts[a].client,
                    !.wallet = attempts[a].wallet, !.nonce = attempts[a].nonce, !.signer = attempts[a].signer]]
  /\ UNCHANGED <<now, tables, ids, browser, hits, edge, starts, history>>

LoseAnswer(answer) ==
  /\ MayFail /\ mail' = mail \ {answer}
  /\ UNCHANGED <<now, tables, attempts, ids, page, cookie, pairings, hits, edge, starts, history>>

Restart ==
  /\ MayFail /\ starts' = starts + 1
  /\ hits' = [ip \in Ips |-> <<>>]
  /\ attempts' = [a \in Attempt |-> IF attempts[a].pc \in AtServer THEN Idle ELSE attempts[a]]
  /\ page' = [c \in Client |-> IF \E a \in Attempt : attempts[a].client = c /\ attempts[a].pc \in AtServer
                               THEN [stage |-> "error", attempt |-> 0] ELSE page[c]]
  /\ UNCHANGED <<now, tables, ids, cookie, mail, pairings, edge, history>>

(* bin/auth-cleanup.rs deletes rows a day after they expire.  Challenges   *)
(* are left in the model: no lookup finds an expired one.                  *)
Cleanup ==
  /\ sessions' = {s \in sessions : s.expires >= now - Grace}
  /\ sessions' # sessions
  /\ UNCHANGED <<now, challenges, attempts, ids, browser, hits, edge, starts, faults, history>>

Tick ==
  /\ now < MaxTime /\ now' = now + 1
  /\ UNCHANGED <<tables, attempts, ids, browser, hits, edge, starts, faults, history>>

(* Bound: no attempt begins when every challenge of the run is drawn.      *)
MayBegin == Len(challenges) < MaxNonce

LoginPage ==
  \/ \E c \in Client : Reset(c) \/ (MayBegin /\ StartManual(c))
  \/ \E a \in Attempt, c \in Client, w \in Wallet :
       MayBegin /\ (ConnectWallet(a, c, w) \/ RequestChallengeManual(a, c, w))
  \/ \E a \in Attempt : Approve(a) \/ \E w \in Wallet \cup {Stranger} : Sign(a, w)

Endpoints ==
  \/ \E a \in Attempt, via \in Via : IssueChallenge(a, via) \/ VerifyChallenge(a, via)
  \/ \E a \in Attempt : ConsumeChallenge(a) \/ RotateInsert(a) \/ RotateSweep(a) \/ RotateCommit(a)
  \/ \E c \in Client, via \in Via : Logout(c, via)

Visits ==
  \/ \E c \in Client, url \in [prefix : Prefixes, path : Paths] : LoadPage(c, url)
  \/ \E c \in Client : \E w \in Wallet \cup {Stranger} : Pair(c, w)
  \/ \E c \in Client : \E p \in pairings[c] : WalletForgets(c, p) \/ SignTimesOut(c, p)

(* Bound: pages are visited and transactions signed over the start where   *)
(* somebody has signed in, attempts made over the one where nobody has.    *)
Visiting == challenges # <<>> /\ Head(challenges).expires = 0

SignInNext ==
  \/ ~Visiting /\ LoginPage
  \/ Endpoints
  \/ \E a, b \in Attempt : StatementFails(a) \/ Resend(a, b)
  \/ \E answer \in mail : Arrive(answer) \/ LoseAnswer(answer)
  \/ Visiting /\ Visits
  \/ Restart \/ Cleanup \/ Tick

SignInSpec == SignInInit /\ [][SignInNext]_vars

----------------------------------------------------------------------------
(* A nonce signs its wallet in once, from the address it was given to: no  *)
(* repeated, late or concurrent verify makes a second session of it.       *)
SessionsEarned ==
  /\ \A s \in born : /\ challenges[s.nonce].wallet = s.wallet /\ s.signer = s.wallet
                     /\ Unknown \in {s.ip, challenges[s.nonce].ip} \/ s.ip = challenges[s.nonce].ip
  /\ \A s, t \in born : s.nonce = t.nonce => s = t

(* Concurrent logins of one wallet leave the last of them signed in, and   *)
(* no other.                                                               *)
LastLoginLives ==
  \A w \in Wallet :
    LET of == {s \in born : s.wallet = w}
        last == {s \in of : \A t \in of : t.id <= s.id}
    IN {s \in sessions : s.wallet = w} \subseteq last
       /\ \A s \in last : s \in sessions \/ s.id \in ended \/ s.expires <= now

(* One address is given no more challenges in a window than the limit.     *)
LimitHolds ==
  \A ip \in Ips, t \in 0..MaxTime, run \in 0..starts :
    Cardinality({n \in DOMAIN challenges :
      challenges[n].ip = ip /\ challenges[n].start = run
      /\ challenges[n].expires - ChallengeTtl \in t..(t + Window)}) <= MaxPerWindow

(* The edge never keeps a page made for somebody, nor a wizard's page.     *)
EdgeAnonymous == \A e \in edge : e.user = {} /\ e.url.path = "public"

(* A page is only lent the wallet that is signed in to sign with.          *)
SignerMatches == \A pair \in lent : pair[1] = pair[2]

=============================================================================
