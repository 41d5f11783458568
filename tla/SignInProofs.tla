------------------------------ MODULE SignInProofs ------------------------------
(***************************************************************************)
(* Theorems about signing in, for any number of wallets, browsers,         *)
(* attempts, challenges and faults: a challenge signs its wallet in once,  *)
(* the last of a wallet's logins is the one that lives, the edge keeps no  *)
(* page made for somebody, an address is given no more challenges in any   *)
(* window than the limit, and a page is lent the wallet signed in only.    *)
(*                                                                         *)
(* Why a nonce makes one session: an attempt that has consumed it is the   *)
(* only one that has, until its session is committed, and from then on no  *)
(* attempt can.  Why the last login lives: the attempts under the advisory *)
(* lock of a wallet are at most one, it drew its id after every session of *)
(* the wallet was committed, and no session of the wallet is committed     *)
(* between its delete and its own commit.  Why the limit holds: what is    *)
(* dropped from a bucket is too old for any window that is still open.     *)
(***************************************************************************)
EXTENDS SignIn, Counting, FiniteSetTheorems, TLAPS

(* Where an attempt has a nonce, has been verified, has consumed it.       *)
Given == {"signing", "verify", "consume", "rotate", "sweep", "commit"}
Verified == {"consume", "rotate", "sweep", "commit"}
Consumed == {"rotate", "sweep", "commit"}

Key == Wallet \cup {Stranger}
Ip == Ips \cup {Unknown}
Row == [id : Nat, wallet : Key, expires : Nat, nonce : Nat, signer : Key, ip : Ip]
AttemptRow == [pc : {"idle", "approving", "asking"} \cup Given, client : Client \cup {0}, manual : BOOLEAN,
               wallet : Key, nonce : Nat, signer : Key, ip : Ip, id : Nat, expires : Nat, swept : SUBSET Row]
Challenge == [wallet : Key, ip : Ip, expires : Nat, consumed : BOOLEAN, start : Nat]

Typed ==
  /\ now \in Nat /\ ids \in Nat /\ starts \in Nat
  /\ challenges \in Seq(Challenge)
  /\ sessions \subseteq Row /\ born \subseteq Row
  /\ attempts \in [Attempt -> AttemptRow]

(* An address may use a nonce given to an address.                         *)
Matches(ip, given) == Unknown \in {ip, given} \/ ip = given

HasNonce(at) == at.nonce \in 1..Len(challenges) /\ challenges[at.nonce].wallet = at.wallet

AttemptInv ==
  \A a \in Attempt :
    /\ attempts[a].pc \in Given => HasNonce(attempts[a])
    /\ attempts[a].pc \in Verified =>
         attempts[a].signer = attempts[a].wallet /\ Matches(attempts[a].ip, challenges[attempts[a].nonce].ip)
    /\ attempts[a].pc \in Consumed => challenges[attempts[a].nonce].consumed

OneConsumer ==
  /\ \A a, b \in Attempt :
       attempts[a].pc \in Consumed /\ attempts[b].pc \in Consumed /\ attempts[a].nonce = attempts[b].nonce => a = b
  /\ \A a \in Attempt, s \in born : attempts[a].pc \in Consumed => attempts[a].nonce # s.nonce

BornInv ==
  /\ \A s \in born : /\ HasNonce(s) /\ challenges[s.nonce].consumed /\ s.signer = s.wallet
                     /\ Matches(s.ip, challenges[s.nonce].ip)
  /\ \A s, t \in born : s.nonce = t.nonce => s = t

Earned == AttemptInv /\ OneConsumer /\ BornInv

(* One attempt of a wallet is in its transaction, with the greatest id.    *)
LockInv ==
  /\ \A a \in Attempt : attempts[a].pc \in Holding =>
       /\ attempts[a].id \in 1..ids
       /\ \A t \in born : t.wallet = attempts[a].wallet => t.id < attempts[a].id
  /\ \A a, b \in Attempt :
       attempts[a].pc \in Holding /\ attempts[b].pc \in Holding /\ attempts[a].wallet = attempts[b].wallet => a = b

SweptInv ==
  \A a \in Attempt : attempts[a].pc = "commit" =>
    /\ \A s \in attempts[a].swept : s.wallet = attempts[a].wallet
    /\ \A s \in sessions : s.wallet = attempts[a].wallet => s \in attempts[a].swept

IsLast(s) == \A t \in born : t.wallet = s.wallet => t.id <= s.id

LastInv ==
  /\ sessions \subseteq born
  /\ \A t \in born : t.id \in 1..ids
  /\ \A s \in sessions : IsLast(s)
  /\ \A s \in born : IsLast(s) => s \in sessions \/ s.id \in ended \/ s.expires <= now

Rotation == LockInv /\ SweptInv /\ LastInv

SignInInv == Typed /\ Earned /\ Rotation /\ EdgeAnonymous

----------------------------------------------------------------------------
(* What the helpers return.                                                *)

LEMMA IpType == ASSUME NEW via \in Via PROVE ClientIp(via) \in Ip
BY DEF Ip, Ips

LEMMA DeLocalizedIs ==
  ASSUME NEW url \in [prefix : Prefixes, path : Paths], NEW bare, bare = DeLocalized(url)
  PROVE  bare = [prefix |-> "", path |-> url.path]
BY DEF DeLocalized

LEMMA IdleType == Idle \in AttemptRow /\ Idle.pc \notin Given
BY DEF Idle, AttemptRow, Key, Stranger, Ip, Given, Row

LEMMA GivenParts == Verified \subseteq Given /\ Consumed \subseteq Verified /\ Holding \subseteq Consumed
BY DEF Verified, Given, Consumed, Holding

(* A step that leaves the tables alone and only drops attempts, or starts  *)
(* them before they are verified, keeps the invariant.                     *)
Drops ==
  /\ UNCHANGED <<now, challenges, sessions, ids, born, ended, edge>> /\ starts' \in Nat
  /\ attempts' \in [Attempt -> AttemptRow]
  /\ \A a \in Attempt : \/ attempts'[a] = attempts[a]
                        \/ attempts'[a].pc \notin Given
                        \/ attempts'[a].pc \notin Verified /\ HasNonce(attempts'[a])

LEMMA DropsKeep == ASSUME SignInInv, Drops PROVE SignInInv'
<1> USE GivenParts
<1>1. Typed'
  BY DEF SignInInv, Typed, Drops
<1>2. AttemptInv'
  BY DEF SignInInv, Earned, AttemptInv, Drops, HasNonce
<1>3. OneConsumer'
  BY DEF SignInInv, Earned, OneConsumer, Drops
<1>4. BornInv'
  BY DEF SignInInv, Earned, BornInv, Drops, HasNonce
<1>5. LockInv'
  BY DEF SignInInv, Rotation, LockInv, Drops
<1>6. SweptInv'
  <2>1. "commit" \in Verified
    BY DEF Verified
  <2> QED BY <2>1 DEF SignInInv, Rotation, SweptInv, Drops
<1>7. LastInv'
  BY DEF SignInInv, Rotation, LastInv, IsLast, Drops
<1>8. EdgeAnonymous'
  BY DEF SignInInv, EdgeAnonymous, Drops
<1> QED BY <1>1, <1>2, <1>3, <1>4, <1>5, <1>6, <1>7, <1>8 DEF SignInInv, Earned, Rotation

(* A step of one attempt that commits no session keeps the invariant when  *)
(* the attempt is where it may be.                                         *)
Others(a) == \A b \in Attempt \ {a} : attempts'[b] = attempts[b]

Kept ==
  /\ Len(challenges') >= Len(challenges)
  /\ \A n \in 1..Len(challenges) :
       /\ challenges'[n].wallet = challenges[n].wallet /\ challenges'[n].ip = challenges[n].ip
       /\ challenges[n].consumed => challenges'[n].consumed

EarnedBy(a) ==
  LET at == attempts[a]
  IN /\ at.pc \in Given => HasNonce(at)
     /\ at.pc \in Verified => at.signer = at.wallet /\ Matches(at.ip, challenges[at.nonce].ip)
     /\ at.pc \in Consumed =>
          /\ challenges[at.nonce].consumed
          /\ \A b \in Attempt \ {a} : attempts[b].pc \in Consumed => attempts[b].nonce # at.nonce
          /\ \A s \in born : s.nonce # at.nonce

RotatedBy(a) ==
  LET at == attempts[a]
  IN /\ at.pc \in Holding =>
          /\ at.id \in 1..ids
          /\ \A t \in born : t.wallet = at.wallet => t.id < at.id
          /\ \A b \in Attempt \ {a} : attempts[b].pc \in Holding => attempts[b].wallet # at.wallet
     /\ at.pc = "commit" =>
          /\ \A s \in at.swept : s.wallet = at.wallet
          /\ \A s \in sessions : s.wallet = at.wallet => s \in at.swept

LEMMA EarnedStep ==
  ASSUME SignInInv, NEW a \in Attempt, Others(a), Kept, born' = born, EarnedBy(a)', Typed'
  PROVE  Earned'
<1> USE GivenParts
<1>1. ASSUME NEW q, HasNonce(q) PROVE /\ HasNonce(q)' /\ challenges'[q.nonce].ip = challenges[q.nonce].ip
                                      /\ challenges[q.nonce].consumed => challenges'[q.nonce].consumed
  <2>1. Len(challenges) \in Nat /\ Len(challenges') \in Nat
    BY DEF SignInInv, Typed
  <2> QED BY <1>1, <2>1 DEF HasNonce, Kept
<1>2. AttemptInv'
  <2> SUFFICES ASSUME NEW b \in Attempt, b # a
               PROVE /\ attempts'[b].pc \in Given => HasNonce(attempts[b])'
                     /\ attempts'[b].pc \in Verified =>
                          attempts'[b].signer = attempts'[b].wallet
                          /\ Matches(attempts'[b].ip, challenges'[attempts'[b].nonce].ip)
                     /\ attempts'[b].pc \in Consumed => challenges'[attempts'[b].nonce].consumed
    BY DEF AttemptInv, EarnedBy
  <2>1. attempts'[b] = attempts[b]
    BY DEF Others
  <2> QED BY <2>1, <1>1 DEF SignInInv, Earned, AttemptInv, HasNonce
<1>3. OneConsumer'
  BY DEF SignInInv, Earned, OneConsumer, Others, EarnedBy
<1>4. BornInv'
  BY <1>1 DEF SignInInv, Earned, BornInv, HasNonce
<1> QED BY <1>2, <1>3, <1>4 DEF Earned

LEMMA RotationStep ==
  ASSUME SignInInv, NEW a \in Attempt, Others(a), UNCHANGED <<now, sessions, born, ended>>,
         ids' \in Nat, ids' >= ids, RotatedBy(a)'
  PROVE  Rotation'
<1>0. ids \in Nat
  BY DEF SignInInv, Typed
<1>1. LockInv'
  BY <1>0 DEF SignInInv, Rotation, LockInv, Others, RotatedBy
<1>2. SweptInv'
  BY DEF SignInInv, Rotation, SweptInv, Others, RotatedBy
<1>3. LastInv'
  BY <1>0 DEF SignInInv, Rotation, LastInv, IsLast
<1> QED BY <1>1, <1>2, <1>3 DEF Rotation

LEMMA OneAttempt ==
  ASSUME SignInInv, NEW a \in Attempt, Others(a), Kept, UNCHANGED <<now, sessions, born, ended, edge>>,
         ids' >= ids, Typed', EarnedBy(a)', RotatedBy(a)'
  PROVE  SignInInv'
<1>1. Earned'
  BY EarnedStep
<1>2. Rotation'
  BY RotationStep DEF Typed
<1>3. EdgeAnonymous'
  BY DEF SignInInv, EdgeAnonymous
<1> QED BY <1>1, <1>2, <1>3 DEF SignInInv

LEMMA Unmoved == ASSUME SignInInv, challenges' = challenges PROVE Kept
BY DEF SignInInv, Typed, Kept

----------------------------------------------------------------------------
(* The steps that leave the tables alone.                                  *)

LEMMA FailsDrops ==
  ASSUME SignInInv, NEW a \in Attempt, Fails(a), starts' \in Nat,
         UNCHANGED <<now, challenges, sessions, ids, born, ended, edge>>
  PROVE  SignInInv'
BY DropsKeep, IdleType DEF SignInInv, Typed, Fails, Drops

LEMMA BeginDrops ==
  ASSUME SignInInv, NEW a \in Attempt, NEW c \in Client, NEW w \in Wallet, NEW m \in BOOLEAN,
         NEW pc \in {"approving", "asking"}, Begin(a, c, w, m, pc), starts' = starts,
         UNCHANGED <<now, challenges, sessions, ids, born, ended, edge>>
  PROVE  SignInInv'
<1> DEFINE q == [Idle EXCEPT !.pc = pc, !.client = c, !.wallet = w, !.manual = m]
<1>1. q \in AttemptRow /\ q.pc = pc
  BY DEF Idle, AttemptRow, Key, Stranger, Ip, Row, Given
<1>2. pc \notin Given
  BY DEF Given
<1> QED BY <1>1, <1>2, DropsKeep DEF SignInInv, Typed, Begin, Drops

LEMMA LoginPageKeeps == ASSUME SignInInv, LoginPage PROVE SignInInv'
<1>1. CASE \E c \in Client : StartManual(c)
  <2>1. Drops
    BY <1>1 DEF StartManual, SignInInv, Typed, Drops, history, tables
  <2> QED BY <2>1, DropsKeep
<1>2. CASE \E c \in Client : Reset(c)
  <2>1. Drops
    BY <1>2, IdleType DEF Reset, SignInInv, Typed, Drops, history, tables
  <2> QED BY <2>1, DropsKeep
<1>3. ASSUME NEW a \in Attempt, NEW c \in Client, NEW w \in Wallet, ConnectWallet(a, c, w) PROVE SignInInv'
  BY <1>3, BeginDrops DEF ConnectWallet, history, tables
<1>4. ASSUME NEW a \in Attempt, NEW c \in Client, NEW w \in Wallet, RequestChallengeManual(a, c, w)
      PROVE  SignInInv'
  BY <1>4, BeginDrops DEF RequestChallengeManual, history, tables
<1>5. ASSUME NEW a \in Attempt, Approve(a) PROVE SignInInv'
  <2>1. CASE Go(a, "asking")
    <3> DEFINE q == [attempts[a] EXCEPT !.pc = "asking"]
    <3>1. attempts[a] \in AttemptRow
      BY DEF SignInInv, Typed
    <3>2. q \in AttemptRow /\ q.pc \notin Given
      BY <3>1 DEF AttemptRow, Given
    <3>3. Drops
      BY <1>5, <2>1, <3>2 DEF Approve, Go, SignInInv, Typed, Drops, history, tables
    <3> QED BY <3>3, DropsKeep
  <2>2. CASE Fails(a)
    BY <1>5, <2>2, FailsDrops DEF Approve, history, tables, SignInInv, Typed
  <2> QED BY <1>5, <2>1, <2>2 DEF Approve
<1>6. ASSUME NEW a \in Attempt, NEW w \in Wallet \cup {Stranger}, Sign(a, w) PROVE SignInInv'
  <2>1. CASE attempts' = [attempts EXCEPT ![a].pc = "verify", ![a].signer = w]
    <3> DEFINE q == [attempts[a] EXCEPT !.pc = "verify", !.signer = w]
    <3>1. attempts[a] \in AttemptRow /\ attempts[a].pc = "signing" /\ HasNonce(attempts[a])
      BY <1>6 DEF Sign, SignInInv, Typed, Earned, AttemptInv, Given
    <3>2. attempts' = [attempts EXCEPT ![a] = q]
      BY <2>1, <3>1 DEF SignInInv, Typed, AttemptRow
    <3>3. q \in AttemptRow /\ q.pc = "verify" /\ HasNonce(q)
      BY <3>1 DEF AttemptRow, Key, Given, HasNonce
    <3>4. "verify" \notin Verified
      BY DEF Verified
    <3>5. Drops
      BY <1>6, <3>2, <3>3, <3>4 DEF Sign, SignInInv, Typed, Drops, history, tables
    <3> QED BY <3>5, DropsKeep
  <2>2. CASE Fails(a)
    BY <1>6, <2>2, FailsDrops DEF Sign, history, tables, SignInInv, Typed
  <2> QED BY <1>6, <2>1, <2>2 DEF Sign
<1> QED BY <1>1, <1>2, <1>3, <1>4, <1>5, <1>6 DEF LoginPage

LEMMA VisitsKeep == ASSUME SignInInv, Visits PROVE SignInInv'
<1>1. ASSUME NEW c \in Client, NEW url \in [prefix : Prefixes, path : Paths], LoadPage(c, url) PROVE SignInInv'
  <2>1. PICK hiccup \in BOOLEAN :
          LET user == IF hiccup THEN {} ELSE FindActiveSession(cookie[c])
              clears == cookie[c] # 0 /\ ~hiccup /\ user = {}
              header == ApplyEdgeCacheHeaders(url, user, clears)
          IN /\ hiccup => cookie[c] # 0
             /\ edge' = IF cookie[c] = 0 /\ header \in {"public", "none"}
                        THEN {e \in edge : e.url # url} \cup {[url |-> url, user |-> user, since |-> now]}
                        ELSE edge
    BY <1>1 DEF LoadPage
  <2>2. FindActiveSession(0) = {}
    BY DEF FindActiveSession, SignInInv, Typed, Rotation, LastInv
  <2>3. ASSUME NEW user, NEW clears, ApplyEdgeCacheHeaders(url, user, clears) \in {"public", "none"}
        PROVE  url.path = "public"
    <3>2. url.path # "data"
      BY <2>3 DEF ApplyEdgeCacheHeaders
    <3>3. url.path # "tool"
      <4>1. DeLocalized(url) = [prefix |-> "", path |-> url.path]
        BY DeLocalizedIs
      <4> QED BY <2>3, <4>1 DEF ApplyEdgeCacheHeaders, IsNoStoreRoute
    <3> QED BY <3>2, <3>3 DEF Paths
  <2>4. EdgeAnonymous'
    BY <2>1, <2>2, <2>3 DEF SignInInv, EdgeAnonymous
  <2>5. UNCHANGED <<now, challenges, sessions, ids, born, ended, starts, attempts>>
    BY <1>1 DEF LoadPage, history, tables
  <2> QED
    BY <2>4, <2>5 DEF SignInInv, Typed, Earned, AttemptInv, HasNonce, OneConsumer, BornInv, Rotation, LockInv,
                      SweptInv, LastInv, IsLast
<1>2. ASSUME NEW c \in Client, NEW w \in Wallet \cup {Stranger}, Pair(c, w) PROVE SignInInv'
  <2>1. UNCHANGED <<now, challenges, sessions, ids, born, ended, starts, attempts, edge>>
    BY <1>2 DEF Pair, tables
  <2> QED
    BY <2>1 DEF SignInInv, Typed, Earned, AttemptInv, HasNonce, OneConsumer, BornInv, Rotation, LockInv,
                SweptInv, LastInv, IsLast, EdgeAnonymous
<1>3. ASSUME NEW c \in Client, NEW p \in pairings[c], WalletForgets(c, p) \/ SignTimesOut(c, p) PROVE SignInInv'
  <2>1. Drops
    BY <1>3 DEF WalletForgets, SignTimesOut, SignInInv, Typed, Drops, history, tables
  <2> QED BY <2>1, DropsKeep
<1> QED BY <1>1, <1>2, <1>3 DEF Visits

LEMMA FaultsKeep ==
  ASSUME SignInInv,
         Restart \/ (\E a, b \in Attempt : StatementFails(a) \/ Resend(a, b))
         \/ (\E answer \in mail : Arrive(answer) \/ LoseAnswer(answer))
  PROVE  SignInInv'
<1>1. CASE Restart
  <2>1. Drops
    BY <1>1, IdleType DEF Restart, MayFail, SignInInv, Typed, Drops, history, tables
  <2> QED BY <2>1, DropsKeep
<1>2. ASSUME NEW a \in Attempt, StatementFails(a) PROVE SignInInv'
  BY <1>2, FailsDrops DEF StatementFails, history, tables, SignInInv, Typed
<1>3. ASSUME NEW a \in Attempt, NEW b \in Attempt, Resend(a, b) PROVE SignInInv'
  <2> DEFINE q == [Idle EXCEPT !.pc = "verify", !.client = attempts[a].client, !.wallet = attempts[a].wallet,
                               !.nonce = attempts[a].nonce, !.signer = attempts[a].signer]
  <2>1. attempts[a] \in AttemptRow /\ HasNonce(attempts[a])
    BY <1>3 DEF Resend, AtServer, SignInInv, Typed, Earned, AttemptInv, Given
  <2>2. q \in AttemptRow /\ q.pc = "verify" /\ HasNonce(q)
    BY <2>1 DEF AttemptRow, Given, HasNonce, Idle, Ip, Key
  <2>3. "verify" \notin Verified
    BY DEF Verified
  <2>4. Drops
    BY <1>3, <2>2, <2>3 DEF Resend, SignInInv, Typed, Drops, history, tables
  <2> QED BY <2>4, DropsKeep
<1>4. ASSUME NEW answer \in mail, Arrive(answer) \/ LoseAnswer(answer) PROVE SignInInv'
  <2>1. Drops
    BY <1>4 DEF Arrive, LoseAnswer, SignInInv, Typed, Drops, history, tables
  <2> QED BY <2>1, DropsKeep
<1> QED BY <1>1, <1>2, <1>3, <1>4

----------------------------------------------------------------------------
(* The steps of the endpoints.                                             *)

LEMMA IssueChallengeKeeps ==
  ASSUME SignInInv, NEW a \in Attempt, NEW via \in Via, IssueChallenge(a, via) PROVE SignInInv'
<1>1. CASE Fails(a) /\ UNCHANGED challenges
  BY <1>1, FailsDrops DEF IssueChallenge, history, SignInInv, Typed
<1>2. CASE /\ PersistChallenge(attempts[a].wallet, ClientIp(via))
           /\ attempts' = [attempts EXCEPT ![a].pc = "signing", ![a].nonce = Len(challenges) + 1]
  <2> DEFINE q == [attempts[a] EXCEPT !.pc = "signing", !.nonce = Len(challenges) + 1]
  <2> DEFINE row == NewChallenge(attempts[a].wallet, ClientIp(via))
  <2>1. attempts[a] \in AttemptRow /\ challenges \in Seq(Challenge) /\ now \in Nat /\ starts \in Nat
    BY DEF SignInInv, Typed
  <2>2. row \in Challenge /\ row.wallet = attempts[a].wallet
    BY <2>1, IpType, TtlAssumption DEF NewChallenge, Challenge, AttemptRow
  <2>3. challenges' = Append(challenges, row)
    BY <1>2 DEF PersistChallenge
  <2>4. q \in AttemptRow /\ q.pc = "signing" /\ q.nonce = Len(challenges) + 1 /\ q.wallet = attempts[a].wallet
    <3> DEFINE n == Len(challenges) + 1
    <3>1. n \in Nat
      BY <2>1
    <3> HIDE DEF n
    <3>2. [attempts[a] EXCEPT !.pc = "signing", !.nonce = n] \in AttemptRow
      BY <2>1, <3>1 DEF AttemptRow, Given
    <3>3. [attempts[a] EXCEPT !.pc = "signing", !.nonce = n].pc = "signing"
          /\ [attempts[a] EXCEPT !.pc = "signing", !.nonce = n].nonce = n
          /\ [attempts[a] EXCEPT !.pc = "signing", !.nonce = n].wallet = attempts[a].wallet
      BY <2>1 DEF AttemptRow
    <3> QED BY <3>2, <3>3 DEF n
  <2>5. attempts' = [attempts EXCEPT ![a] = q]
    BY <1>2, <2>1 DEF SignInInv, Typed, AttemptRow
  <2> HIDE DEF q, row
  <2>6. Typed'
    <3>1. challenges' \in Seq(Challenge)
      BY <2>1, <2>2, <2>3
    <3>2. UNCHANGED <<now, sessions, ids, born, starts>>
      BY DEF IssueChallenge, history
    <3>3. attempts' \in [Attempt -> AttemptRow]
      BY <2>4, <2>5 DEF SignInInv, Typed
    <3> QED BY <3>1, <3>2, <3>3 DEF SignInInv, Typed
  <2>7. Kept /\ challenges'[Len(challenges) + 1] = row /\ Len(challenges') = Len(challenges) + 1
    <3>1. /\ Len(challenges') = Len(challenges) + 1 /\ Len(challenges) \in Nat
          /\ challenges'[Len(challenges) + 1] = row
          /\ \A n \in 1..Len(challenges) : challenges'[n] = challenges[n]
      BY <2>1, <2>2, <2>3
    <3> QED BY <3>1 DEF Kept
  <2>8. Others(a) /\ attempts'[a] = q
    BY <2>5 DEF Others, SignInInv, Typed
  <2>9. EarnedBy(a)'
    BY <2>1, <2>2, <2>4, <2>7, <2>8 DEF EarnedBy, HasNonce, Verified, Consumed
  <2>10. RotatedBy(a)'
    BY <2>4, <2>8 DEF RotatedBy, Holding
  <2>11. UNCHANGED <<now, sessions, ids, born, ended, edge>>
    BY DEF IssueChallenge, history
  <2>12. ids' >= ids
    BY <2>11 DEF SignInInv, Typed
  <2> QED BY <2>6, <2>7, <2>8, <2>9, <2>10, <2>11, <2>12, OneAttempt
<1> QED BY <1>1, <1>2 DEF IssueChallenge

LEMMA VerifyChallengeKeeps ==
  ASSUME SignInInv, NEW a \in Attempt, NEW via \in Via, VerifyChallenge(a, via) PROVE SignInInv'
<1>1. CASE Fails(a)
  BY <1>1, FailsDrops DEF VerifyChallenge, history, tables, SignInInv, Typed
<1>2. CASE /\ attempts' = [attempts EXCEPT ![a].pc = "consume", ![a].ip = ClientIp(via)]
           /\ Unknown \in {challenges[attempts[a].nonce].ip, ClientIp(via)}
              \/ challenges[attempts[a].nonce].ip = ClientIp(via)
           /\ VerifySignedMessage(attempts[a].nonce, attempts[a].signer)
  <2> DEFINE q == [attempts[a] EXCEPT !.pc = "consume", !.ip = ClientIp(via)]
  <2>1. attempts[a] \in AttemptRow /\ HasNonce(attempts[a]) /\ ClientIp(via) \in Ip
    BY IpType DEF VerifyChallenge, SignInInv, Typed, Earned, AttemptInv, Given
  <2>2. /\ q \in AttemptRow /\ q.pc = "consume" /\ q.ip = ClientIp(via)
        /\ q.nonce = attempts[a].nonce /\ q.wallet = attempts[a].wallet /\ q.signer = attempts[a].signer
    BY <2>1 DEF AttemptRow, Given
  <2>3. attempts' = [attempts EXCEPT ![a] = q]
    BY <1>2, <2>1 DEF SignInInv, Typed, AttemptRow
  <2> HIDE DEF q
  <2>4. challenges' = challenges /\ UNCHANGED <<now, sessions, ids, born, ended, edge, starts>>
    BY DEF VerifyChallenge, tables, history
  <2>5. Typed'
    BY <2>2, <2>3, <2>4 DEF SignInInv, Typed
  <2>6. Others(a) /\ attempts'[a] = q
    BY <2>3 DEF Others, SignInInv, Typed
  <2>7. EarnedBy(a)'
    BY <1>2, <2>1, <2>2, <2>4, <2>6 DEF EarnedBy, HasNonce, VerifySignedMessage, Matches, Consumed
  <2>8. RotatedBy(a)'
    BY <2>2, <2>6 DEF RotatedBy, Holding
  <2> QED BY <2>4, <2>5, <2>6, <2>7, <2>8, Unmoved, OneAttempt DEF SignInInv, Typed
<1> QED BY <1>1, <1>2 DEF VerifyChallenge

LEMMA ConsumeChallengeKeeps ==
  ASSUME SignInInv, NEW a \in Attempt, ConsumeChallenge(a) PROVE SignInInv'
<1>1. CASE Fails(a) /\ UNCHANGED challenges
  BY <1>1, FailsDrops DEF ConsumeChallenge, history, SignInInv, Typed
<1>2. CASE /\ Consumable(attempts[a].nonce) /\ Go(a, "rotate")
           /\ challenges' = [challenges EXCEPT ![attempts[a].nonce].consumed = TRUE]
  <2> DEFINE q == [attempts[a] EXCEPT !.pc = "rotate"]
             nonce == attempts[a].nonce
  <2>1. attempts[a] \in AttemptRow /\ nonce \in 1..Len(challenges) /\ challenges \in Seq(Challenge)
    BY DEF ConsumeChallenge, SignInInv, Typed, Earned, AttemptInv, Given, HasNonce
  <2>2. /\ q \in AttemptRow /\ q.pc = "rotate" /\ q.ip = attempts[a].ip /\ q.nonce = nonce
        /\ q.wallet = attempts[a].wallet /\ q.signer = attempts[a].signer
    BY <2>1 DEF AttemptRow, Given
  <2>3. attempts' = [attempts EXCEPT ![a] = q]
    BY <1>2 DEF Go
  <2>4. UNCHANGED <<now, sessions, ids, born, ended, edge, starts>>
    BY DEF ConsumeChallenge, history
  <2>5. /\ challenges' \in Seq(Challenge) /\ Len(challenges') = Len(challenges)
        /\ challenges'[nonce].consumed /\ Kept
    <3>1. challenges[nonce] \in Challenge
      BY <2>1
    <3>2. [challenges[nonce] EXCEPT !.consumed = TRUE] \in Challenge
      BY <3>1 DEF Challenge
    <3>0. PICK row : row = [challenges[nonce] EXCEPT !.consumed = TRUE]
      OBVIOUS
    <3>3. challenges' = [challenges EXCEPT ![nonce] = row] /\ row \in Challenge
      BY <1>2, <3>0, <3>2
    <3>4. /\ challenges' \in Seq(Challenge) /\ Len(challenges') = Len(challenges)
          /\ \A n \in 1..Len(challenges) : n # nonce => challenges'[n] = challenges[n]
          /\ challenges'[nonce] = row
      BY <2>1, <3>3
    <3>7. row.wallet = challenges[nonce].wallet /\ row.ip = challenges[nonce].ip /\ row.consumed
      BY <3>0, <3>1 DEF Challenge
    <3>5. \A n \in 1..Len(challenges) :
            /\ challenges'[n].wallet = challenges[n].wallet /\ challenges'[n].ip = challenges[n].ip
            /\ challenges[n].consumed => challenges'[n].consumed
      BY <3>4, <3>7
    <3>6. Len(challenges) \in Nat /\ challenges'[nonce].consumed
      BY <2>1, <3>4, <3>7
    <3> QED BY <3>4, <3>5, <3>6 DEF Kept
  <2>6. ~challenges[nonce].consumed
    BY <1>2 DEF Consumable, Open
  <2>7. (\A b \in Attempt : attempts[b].pc \in Consumed => attempts[b].nonce # nonce)
        /\ (\A s \in born : s.nonce # nonce)
    BY <2>6 DEF SignInInv, Earned, AttemptInv, BornInv
  <2>8. attempts[a].signer = attempts[a].wallet /\ Matches(attempts[a].ip, challenges[nonce].ip)
        /\ HasNonce(attempts[a])
    BY DEF ConsumeChallenge, SignInInv, Earned, AttemptInv, Verified, Given
  <2> HIDE DEF q, nonce
  <2>9. Typed'
    BY <2>2, <2>3, <2>4, <2>5 DEF SignInInv, Typed
  <2>10. Others(a) /\ attempts'[a] = q
    BY <2>3 DEF Others, SignInInv, Typed
  <2>11. challenges'[nonce].wallet = challenges[nonce].wallet /\ challenges'[nonce].ip = challenges[nonce].ip
    BY <2>1, <2>5 DEF Kept
  <2>12. EarnedBy(a)'
    BY <2>2, <2>4, <2>5, <2>7, <2>8, <2>10, <2>11 DEF EarnedBy, HasNonce, Others, nonce
  <2>13. RotatedBy(a)'
    BY <2>2, <2>10 DEF RotatedBy, Holding
  <2> QED BY <2>4, <2>5, <2>9, <2>10, <2>12, <2>13, OneAttempt DEF SignInInv, Typed
<1> QED BY <1>1, <1>2 DEF ConsumeChallenge

LEMMA RotateInsertKeeps ==
  ASSUME SignInInv, NEW a \in Attempt, RotateInsert(a) PROVE SignInInv'
<1> DEFINE n == ids + 1
           until == now + SessionTtl
           q == [attempts[a] EXCEPT !.pc = "sweep", !.id = n, !.expires = until]
<1>1. /\ attempts[a] \in AttemptRow /\ n \in Nat /\ n > ids /\ until \in Nat /\ ids' = n
      /\ attempts' = [attempts EXCEPT ![a].pc = "sweep", ![a].id = n, ![a].expires = until]
  BY TtlAssumption DEF RotateInsert, SignInInv, Typed
<1> HIDE DEF n, until
<1>2. /\ q \in AttemptRow /\ q.pc = "sweep" /\ q.id = n /\ q.ip = attempts[a].ip
      /\ q.nonce = attempts[a].nonce /\ q.wallet = attempts[a].wallet /\ q.signer = attempts[a].signer
  BY <1>1 DEF AttemptRow, Given
<1>3. attempts' = [attempts EXCEPT ![a] = q]
  BY <1>1 DEF SignInInv, Typed, AttemptRow
<1> HIDE DEF q
<1>4. UNCHANGED <<now, challenges, sessions, born, ended, edge, starts>>
  BY DEF RotateInsert, tables, history
<1>5. Typed'
  <2>1. attempts' \in [Attempt -> AttemptRow]
    BY <1>2, <1>3 DEF SignInInv, Typed
  <2> QED BY <1>1, <1>4, <2>1 DEF SignInInv, Typed
<1>6. Others(a) /\ attempts'[a] = q
  BY <1>3 DEF Others, SignInInv, Typed
<1>7. attempts[a].pc = "rotate" /\ attempts[a].pc \in Consumed
  BY DEF RotateInsert, Consumed
<1>8. EarnedBy(a)'
  <2>1. HasNonce(attempts[a]) /\ EarnedBy(a)
    BY <1>7, GivenParts DEF SignInInv, Earned, AttemptInv, OneConsumer, EarnedBy
  <2>2. "sweep" \in Consumed /\ "sweep" \in Verified /\ "sweep" \in Given
    BY DEF Consumed, Verified, Given
  <2> QED BY <1>2, <1>4, <1>6, <1>7, <2>1, <2>2, GivenParts DEF EarnedBy, HasNonce, Others
<1>9. RotatedBy(a)'
  <2>1. \A b \in Attempt \ {a} : attempts[b].pc \in Holding => attempts[b].wallet # attempts[a].wallet
    BY DEF RotateInsert, Unlocked
  <2>2. \A t \in born : t.id < n
    BY <1>1 DEF SignInInv, Typed, Rotation, LastInv
  <2>3. n \in 1..ids'
    BY <1>1 DEF SignInInv, Typed
  <2> QED BY <1>2, <1>4, <1>6, <2>1, <2>2, <2>3 DEF RotatedBy, Others
<1>10. Kept
  BY <1>4, Unmoved
<1>11. ids' >= ids
  BY <1>1 DEF SignInInv, Typed
<1> QED BY <1>4, <1>5, <1>6, <1>8, <1>9, <1>10, <1>11, OneAttempt

LEMMA RotateSweepKeeps ==
  ASSUME SignInInv, NEW a \in Attempt, RotateSweep(a) PROVE SignInInv'
<1> DEFINE old == {s \in sessions : s.wallet = attempts[a].wallet}
           q == [attempts[a] EXCEPT !.pc = "commit", !.swept = old]
<1>1. /\ attempts[a] \in AttemptRow /\ old \subseteq Row
      /\ attempts' = [attempts EXCEPT ![a].pc = "commit", ![a].swept = old]
  BY DEF RotateSweep, SignInInv, Typed
<1>2. /\ \A s \in old : s.wallet = attempts[a].wallet
      /\ \A s \in sessions : s.wallet = attempts[a].wallet => s \in old
  OBVIOUS
<1> HIDE DEF old
<1>3. /\ q \in AttemptRow /\ q.pc = "commit" /\ q.swept = old /\ q.id = attempts[a].id /\ q.ip = attempts[a].ip
      /\ q.nonce = attempts[a].nonce /\ q.wallet = attempts[a].wallet /\ q.signer = attempts[a].signer
  BY <1>1 DEF AttemptRow, Given
<1>4. attempts' = [attempts EXCEPT ![a] = q]
  BY <1>1 DEF SignInInv, Typed, AttemptRow
<1> HIDE DEF q
<1>5. UNCHANGED <<now, challenges, sessions, ids, born, ended, edge, starts>>
  BY DEF RotateSweep, tables, history
<1>6. Typed'
  BY <1>3, <1>4, <1>5 DEF SignInInv, Typed
<1>7. Others(a) /\ attempts'[a] = q
  BY <1>4 DEF Others, SignInInv, Typed
<1>8. attempts[a].pc = "sweep" /\ attempts[a].pc \in Consumed /\ attempts[a].pc \in Holding
  BY DEF RotateSweep, Consumed, Holding
<1>9. EarnedBy(a)'
  <2>1. HasNonce(attempts[a]) /\ EarnedBy(a)
    BY <1>8, GivenParts DEF SignInInv, Earned, AttemptInv, OneConsumer, EarnedBy
  <2> QED BY <1>3, <1>5, <1>7, <1>8, <2>1, GivenParts DEF EarnedBy, HasNonce, Others
<1>10. RotatedBy(a)'
  <2>1. /\ attempts[a].id \in 1..ids
        /\ \A t \in born : t.wallet = attempts[a].wallet => t.id < attempts[a].id
        /\ \A b \in Attempt \ {a} : attempts[b].pc \in Holding => attempts[b].wallet # attempts[a].wallet
    BY <1>8 DEF SignInInv, Rotation, LockInv
  <2> QED BY <1>2, <1>3, <1>5, <1>7, <2>1 DEF RotatedBy, Others
<1>11. Kept /\ ids' >= ids
  BY <1>5, Unmoved DEF SignInInv, Typed
<1> QED BY <1>5, <1>6, <1>7, <1>9, <1>10, <1>11, OneAttempt

LEMMA RotateCommitKeeps ==
  ASSUME SignInInv, NEW a \in Attempt, RotateCommit(a) PROVE SignInInv'
<1> DEFINE at == attempts[a]
           s == [id |-> at.id, wallet |-> at.wallet, expires |-> at.expires, nonce |-> at.nonce,
                 signer |-> at.signer, ip |-> at.ip]
<1>1. at \in AttemptRow /\ at.pc = "commit" /\ at.pc \in Holding /\ at.pc \in Consumed
  BY DEF RotateCommit, SignInInv, Typed, Holding, Consumed
<1>2. /\ s \in Row /\ s.id = at.id /\ s.wallet = at.wallet /\ s.nonce = at.nonce
      /\ s.signer = at.signer /\ s.ip = at.ip
  BY <1>1 DEF AttemptRow, Row
<1>3. /\ sessions' = (sessions \ at.swept) \cup {s} /\ born' = born \cup {s}
      /\ attempts' = [attempts EXCEPT ![a] = Idle]
      /\ UNCHANGED <<now, challenges, ids, ended, edge, starts>>
  BY DEF RotateCommit
<1> HIDE DEF s
<1>4. Others(a) /\ attempts'[a] = Idle
  BY <1>3 DEF Others, SignInInv, Typed
<1>5. Idle.pc \notin Given /\ Idle.pc \notin Verified /\ Idle.pc \notin Consumed /\ Idle.pc \notin Holding
  BY IdleType, GivenParts
<1>6. Typed'
  BY <1>1, <1>2, <1>3, IdleType DEF SignInInv, Typed
<1>7. HasNonce(at) /\ EarnedBy(a)
  BY <1>1, GivenParts DEF SignInInv, Earned, AttemptInv, OneConsumer, EarnedBy
<1>8. Earned'
  <2>1. AttemptInv'
    BY <1>3, <1>4, <1>5 DEF SignInInv, Earned, AttemptInv, Others, HasNonce
  <2>2. OneConsumer'
    BY <1>1, <1>2, <1>3, <1>4, <1>5, <1>7 DEF SignInInv, Earned, OneConsumer, Others, EarnedBy
  <2>3. BornInv'
    BY <1>1, <1>2, <1>3, <1>7, GivenParts DEF SignInInv, Earned, BornInv, EarnedBy, HasNonce
  <2> QED BY <2>1, <2>2, <2>3 DEF Earned
<1>9. /\ at.id \in 1..ids
      /\ \A t \in born : t.wallet = at.wallet => t.id < at.id
      /\ \A b \in Attempt \ {a} : attempts[b].pc \in Holding => attempts[b].wallet # at.wallet
      /\ \A t \in at.swept : t.wallet = at.wallet
      /\ \A t \in sessions : t.wallet = at.wallet => t \in at.swept
  BY <1>1 DEF SignInInv, Rotation, LockInv, SweptInv
<1>10. LockInv'
  BY <1>2, <1>3, <1>4, <1>5, <1>9 DEF SignInInv, Rotation, LockInv, Others
<1>11. SweptInv'
  <2>1. Idle.pc # "commit"
    BY DEF Idle
  <2>2. ASSUME NEW b \in Attempt, b # a, attempts[b].pc = "commit" PROVE attempts[b].wallet # at.wallet
    BY <1>9, <2>2 DEF Holding
  <2> QED BY <1>2, <1>3, <1>4, <2>1, <2>2 DEF SignInInv, Rotation, SweptInv, Others
<1>12. LastInv'
  <2>1. born' \subseteq Row /\ ids \in Nat /\ (\A t \in born' : t.id \in Nat)
    BY <1>6, <1>3 DEF Typed, Row, SignInInv
  <2>2. sessions' \subseteq born' /\ (\A t \in born' : t.id \in 1..ids')
    BY <1>2, <1>3, <1>9 DEF SignInInv, Rotation, LastInv
  <2>3. \A t \in born' : t.wallet = at.wallet => t.id <= s.id
    BY <1>2, <1>3, <1>9, <2>1
  <2>4. ASSUME NEW t \in sessions' PROVE IsLast(t)'
    BY <1>2, <1>3, <1>9, <2>3 DEF SignInInv, Rotation, LastInv, IsLast
  <2>5. ASSUME NEW t \in born', IsLast(t)' PROVE t \in sessions' \/ t.id \in ended' \/ t.expires <= now'
    <3>1. CASE t = s
      BY <1>3, <3>1
    <3>2. CASE t # s /\ t.wallet = at.wallet
      BY <1>2, <1>3, <1>9, <2>1, <2>5, <3>2 DEF IsLast
    <3>3. CASE t # s /\ t.wallet # at.wallet
      BY <1>3, <1>9, <2>5, <3>3 DEF IsLast, SignInInv, Rotation, LastInv
    <3> QED BY <3>1, <3>2, <3>3
  <2> QED BY <2>2, <2>4, <2>5 DEF LastInv
<1>13. EdgeAnonymous'
  BY <1>3 DEF SignInInv, EdgeAnonymous
<1> QED BY <1>6, <1>8, <1>10, <1>11, <1>12, <1>13 DEF SignInInv, Rotation

(* Rows go once they are logged out or have expired, and time passes.      *)
LEMMA RowsGo ==
  ASSUME SignInInv, UNCHANGED <<challenges, ids, born, edge, starts, attempts>>,
         now' \in Nat, now' >= now, sessions' \subseteq sessions, ended \subseteq ended',
         \A s \in sessions \ sessions' : s.id \in ended' \/ s.expires <= now'
  PROVE  SignInInv'
<1>1. now \in Nat /\ (\A s \in born : s.expires \in Nat)
  BY DEF SignInInv, Typed, Row
<1>2. LastInv'
  BY <1>1 DEF SignInInv, Rotation, LastInv, IsLast
<1>3. SweptInv' /\ LockInv'
  BY DEF SignInInv, Rotation, SweptInv, LockInv
<1>4. Earned' /\ Typed'
  BY DEF SignInInv, Typed, Earned, AttemptInv, HasNonce, OneConsumer, BornInv
<1>5. EdgeAnonymous'
  BY DEF SignInInv, EdgeAnonymous
<1> QED BY <1>2, <1>3, <1>4, <1>5 DEF SignInInv, Rotation

LEMMA LogoutKeeps ==
  ASSUME SignInInv, NEW c \in Client, NEW via \in Via, Logout(c, via) PROVE SignInInv'
BY RowsGo DEF Logout, SignInInv, Typed

LEMMA CleanupKeeps == ASSUME SignInInv, Cleanup PROVE SignInInv'
<1>1. now \in Nat /\ Grace \in Nat /\ (\A s \in sessions : s.expires \in Nat)
  BY TtlAssumption DEF SignInInv, Typed, Row
<1>2. \A s \in sessions \ sessions' : s.expires <= now
  BY <1>1 DEF Cleanup
<1> QED BY <1>1, <1>2, RowsGo DEF Cleanup, history

LEMMA TickKeeps == ASSUME SignInInv, Tick PROVE SignInInv'
BY RowsGo DEF Tick, history, tables, SignInInv, Typed

LEMMA StepKeeps == ASSUME SignInInv, [SignInNext]_vars PROVE SignInInv'
<1>1. CASE SignInNext
  <2>1. CASE Endpoints
    BY <2>1, IssueChallengeKeeps, VerifyChallengeKeeps, ConsumeChallengeKeeps, RotateInsertKeeps,
       RotateSweepKeeps, RotateCommitKeeps, LogoutKeeps DEF Endpoints
  <2>2. CASE LoginPage \/ Visits
    BY <2>2, LoginPageKeeps, VisitsKeep
  <2>3. CASE \/ Restart \/ \E a, b \in Attempt : StatementFails(a) \/ Resend(a, b)
             \/ \E answer \in mail : Arrive(answer) \/ LoseAnswer(answer)
    BY <2>3, FaultsKeep
  <2>4. CASE Cleanup \/ Tick
    BY <2>4, CleanupKeeps, TickKeeps
  <2> QED BY <1>1, <2>1, <2>2, <2>3, <2>4 DEF SignInNext
<1>2. CASE UNCHANGED vars
  BY <1>2, RowsGo DEF vars, tables, history, SignInInv, Typed
<1> QED BY <1>1, <1>2

LEMMA InitHolds == ASSUME SignInInit PROVE SignInInv
<1>1. now = 0 /\ starts = 0 /\ edge = {} /\ lent = {} /\ attempts = [a \in Attempt |-> Idle]
  BY DEF SignInInit
<1>2. CASE Nobody
  <2>1. challenges = <<>> /\ sessions = {} /\ ids = 0 /\ born = {}
    BY <1>2 DEF Nobody
  <2>2. Typed
    BY <1>1, <2>1, IdleType DEF Typed
  <2> QED
    BY <1>1, <2>1, <2>2, IdleType, GivenParts
    DEF SignInInv, Earned, AttemptInv, OneConsumer, BornInv, Rotation, LockInv, SweptInv, LastInv, IsLast,
        EdgeAnonymous, Idle
<1>3. CASE SignedIn
  <2>1. PICK w \in Wallet, ip \in Ips, live \in BOOLEAN, expires \in {0, SessionTtl} :
          LET s == [id |-> 1, wallet |-> w, expires |-> expires, nonce |-> 1, signer |-> w, ip |-> ip]
          IN /\ challenges = <<[wallet |-> w, ip |-> ip, expires |-> 0, consumed |-> TRUE, start |-> 0]>>
             /\ sessions = (IF live THEN {s} ELSE {}) /\ born = {s} /\ ids = 1
    BY <1>3, ZenonT(60) DEF SignedIn
  <2> DEFINE s == [id |-> 1, wallet |-> w, expires |-> expires, nonce |-> 1, signer |-> w, ip |-> ip]
             row == [wallet |-> w, ip |-> ip, expires |-> 0, consumed |-> TRUE, start |-> 0]
  <2>2. w \in Key /\ ip \in Ip /\ expires \in Nat
    BY TtlAssumption DEF Key, Ip
  <2>3. row \in Challenge /\ row.wallet = w /\ row.ip = ip /\ row.consumed
    BY <2>2 DEF Challenge
  <2>4. s \in Row /\ s.id = 1 /\ s.wallet = w /\ s.nonce = 1 /\ s.signer = w /\ s.ip = ip
    BY <2>2 DEF Row
  <2>5. challenges = <<row>> /\ born = {s} /\ ids = 1 /\ sessions = (IF live THEN {s} ELSE {})
    BY <2>1
  <2> HIDE DEF s, row
  <2>6. Typed
    BY <1>1, <2>3, <2>4, <2>5, IdleType DEF Typed
  <2>7. Earned
    BY <1>1, <2>3, <2>4, <2>5, IdleType, GivenParts
    DEF Earned, AttemptInv, OneConsumer, BornInv, HasNonce, Matches
  <2>8. Rotation
    <3>1. LockInv /\ SweptInv
      BY <1>1, IdleType, GivenParts DEF LockInv, SweptInv, Idle
    <3>2. ended = {i \in 1..ids : \A t \in sessions : t.id # i}
      BY DEF SignInInit
    <3>3. s \in sessions \/ s.id \in ended
      BY <2>4, <2>5, <3>2
    <3>4. LastInv
      BY <2>4, <2>5, <3>3 DEF LastInv, IsLast
    <3> QED BY <3>1, <3>4 DEF Rotation
  <2> QED BY <1>1, <2>6, <2>7, <2>8 DEF SignInInv, EdgeAnonymous
<1> QED BY <1>2, <1>3 DEF SignInInit

THEOREM Invariance == SignInSpec => []SignInInv
<1>1. SignInInit => SignInInv
  BY InitHolds
<1>2. SignInInv /\ [SignInNext]_vars => SignInInv'
  BY StepKeeps
<1> QED BY <1>1, <1>2, PTL DEF SignInSpec

----------------------------------------------------------------------------
(* api/auth/verify: a nonce signs its wallet in once, from the address it  *)
(* was given to, whatever verify requests are repeated, late or running at *)
(* once, and whichever of them fail or are cut off by a restart.           *)
THEOREM SessionsAreEarned == SignInSpec => []SessionsEarned
<1>1. SignInInv => SessionsEarned
  BY DEF SignInInv, Earned, BornInv, HasNonce, Matches, SessionsEarned
<1> QED BY <1>1, Invariance, PTL

(* rotateSession: of the logins of a wallet, in any number of requests at  *)
(* once, the last leaves its session and takes away every other.           *)
THEOREM TheLastLoginLives == SignInSpec => []LastLoginLives
<1>1. SignInInv => LastLoginLives
  BY DEF SignInInv, Rotation, LastInv, IsLast, LastLoginLives
<1> QED BY <1>1, Invariance, PTL

(* applyEdgeCacheHeaders: whatever logins, logouts, expired sessions and   *)
(* failed lookups a page met, the edge has kept it for nobody's session    *)
(* and keeps no page of a wizard.                                          *)
THEOREM TheEdgeIsAnonymous == SignInSpec => []EdgeAnonymous
<1>1. SignInInv => EdgeAnonymous
  BY DEF SignInInv
<1> QED BY <1>1, Invariance, PTL


----------------------------------------------------------------------------
(* The limit.  The challenges an address was given since t are no more     *)
(* than the hits its bucket holds since t, as long as t is in the window:  *)
(* what has aged out is older than that.                                   *)
IssuedAt(n) == challenges[n].expires - ChallengeTtl
IssuedSince(ip, t) ==
  {n \in DOMAIN challenges : challenges[n].ip = ip /\ challenges[n].start = starts /\ IssuedAt(n) >= t}

LimitInv ==
  /\ hits \in [Ips -> Seq(Nat)]
  /\ \A n \in DOMAIN challenges : challenges[n].start <= starts /\ IssuedAt(n) <= now
  /\ \A ip \in Ips, t \in Nat : t >= now - Window =>
       Cardinality(IssuedSince(ip, t)) <= Cardinality(HitsSince(hits[ip], t))

(* The hits at the front that have aged out.                               *)
LEMMA AgedOutIs ==
  ASSUME hits \in [Ips -> Seq(Nat)], now \in Nat, NEW ip \in Ips
  PROVE  /\ AgedOut(ip) \in 0..Len(hits[ip])
         /\ \A k \in 1..AgedOut(ip) : hits[ip][k] < now - Window
<1>1. hits[ip] \in Seq(Nat) /\ now - Window \in Int
  BY TtlAssumption
<1>2. \E d \in 0..Len(hits[ip]) :
        /\ \A k \in 1..d : hits[ip][k] < now - Window
        /\ d < Len(hits[ip]) => hits[ip][d + 1] >= now - Window
  BY <1>1, FrontEnds
<1> QED BY <1>2 DEF AgedOut

LEMMA RecentIs ==
  ASSUME hits \in [Ips -> Seq(Nat)], now \in Nat, NEW ip \in Ips, NEW t \in Nat, t >= now - Window
  PROVE  /\ Recent(ip) \in Seq(Nat) /\ IsFiniteSet(HitsSince(Recent(ip), t))
         /\ Cardinality(HitsSince(hits[ip], t)) <= Cardinality(HitsSince(Recent(ip), t))
         /\ Cardinality(HitsSince(Recent(ip), t)) <= Len(Recent(ip))
<1>1. hits[ip] \in Seq(Nat) /\ AgedOut(ip) \in 0..Len(hits[ip]) /\ Window \in Nat
  BY AgedOutIs, TtlAssumption
<1>2. \A k \in 1..AgedOut(ip) : hits[ip][k] < t
  <2> TAKE k \in 1..AgedOut(ip)
  <2>1. hits[ip][k] < now - Window /\ hits[ip][k] \in Nat
    BY <1>1, AgedOutIs
  <2> QED BY <1>1, <2>1
<1>3. PICK h, d : h = hits[ip] /\ d = AgedOut(ip)
  OBVIOUS
<1>4. h \in Seq(Nat) /\ d \in 0..Len(h) /\ t \in Int /\ \A k \in 1..d : h[k] < t
  BY <1>1, <1>2, <1>3
<1>5. Recent(ip) = SubSeq(h, d + 1, Len(h))
  BY <1>3 DEF Recent
<1> QED BY <1>3, <1>4, <1>5, OnlyOldDropped

(* The challenges an address was given in a window, in one run of the      *)
(* server.                                                                 *)
GivenIn(ip, t, run) ==
  {n \in DOMAIN challenges : challenges[n].ip = ip /\ challenges[n].start = run
                             /\ IssuedAt(n) \in t..(t + Window)}
AllWindows ==
  \A ip \in Ips, t \in Nat, run \in Nat : Cardinality(GivenIn(ip, t, run)) <= MaxPerWindow

Limited == LimitInv /\ AllWindows

LEMMA ChallengesFinite ==
  ASSUME Typed, NEW ip, NEW t, NEW run
  PROVE  /\ DOMAIN challenges = 1..Len(challenges) /\ Len(challenges) \in Nat
         /\ IsFiniteSet(IssuedSince(ip, t)) /\ IsFiniteSet(GivenIn(ip, t, run))
<1>1. DOMAIN challenges = 1..Len(challenges) /\ Len(challenges) \in Nat
  BY DEF Typed
<1>2. PICK n \in Nat : n = Len(challenges)
  BY <1>1
<1>3. 1 \in Int /\ n \in Int
  OBVIOUS
<1>4. IsFiniteSet(1..n)
  BY <1>3, FS_Interval
<1>5. IssuedSince(ip, t) \subseteq 1..n /\ GivenIn(ip, t, run) \subseteq 1..n
  BY <1>1, <1>2 DEF IssuedSince, GivenIn
<1> QED BY <1>1, <1>4, <1>5, FS_Subset

LEMMA LimitInit == ASSUME SignInInit PROVE Limited
<1>1. now = 0 /\ starts = 0 /\ hits = [ip \in Ips |-> <<>>]
  BY DEF SignInInit
<1>2. {ChallengeTtl, Window, MaxPerWindow} \subseteq Nat /\ ChallengeTtl > 0
  BY TtlAssumption
<1>3. \A n \in DOMAIN challenges : challenges[n].start = 0 /\ IssuedAt(n) \in Int /\ IssuedAt(n) < 0
  <2>1. CASE Nobody
    BY <2>1 DEF Nobody
  <2>2. CASE SignedIn
    <3>1. PICK w \in Wallet, ip \in Ips :
            challenges = <<[wallet |-> w, ip |-> ip, expires |-> 0, consumed |-> TRUE, start |-> 0]>>
      BY <2>2, ZenonT(60) DEF SignedIn
    <3>2. DOMAIN challenges = {1}
      BY <3>1
    <3>3. challenges[1].expires = 0 /\ challenges[1].start = 0
      BY <3>1
    <3> QED BY <1>2, <3>2, <3>3 DEF IssuedAt
  <2> QED BY <2>1, <2>2 DEF SignInInit
<1>4. \A ip \in Ips, t \in Nat : IssuedSince(ip, t) = {}
  BY <1>3 DEF IssuedSince
<1>5. \A ip \in Ips, t \in Nat, run \in Nat : GivenIn(ip, t, run) = {}
  BY <1>2, <1>3 DEF GivenIn
<1>6. \A ip \in Ips, t \in Nat : HitsSince(hits[ip], t) = {}
  BY <1>1 DEF HitsSince
<1>7. hits \in [Ips -> Seq(Nat)]
  BY <1>1
<1>8. Cardinality({}) = 0
  BY FS_EmptySet
<1>9. AllWindows
  BY <1>2, <1>5, <1>8 DEF AllWindows
<1>10. \A ip \in Ips, t \in Nat : Cardinality(IssuedSince(ip, t)) <= Cardinality(HitsSince(hits[ip], t))
  BY <1>4, <1>6, <1>8
<1>11. \A n \in DOMAIN challenges : challenges[n].start <= starts /\ IssuedAt(n) <= now
  BY <1>1, <1>3
<1>12. LimitInv
  BY <1>7, <1>10, <1>11 DEF LimitInv
<1> QED BY <1>9, <1>12 DEF Limited

(* A step that issues no challenge and empties no bucket.                  *)
NoneIssued ==
  /\ hits' = hits /\ starts' = starts /\ now' >= now
  /\ DOMAIN challenges' = DOMAIN challenges
  /\ \A n \in DOMAIN challenges :
       /\ challenges'[n].ip = challenges[n].ip
       /\ challenges'[n].start = challenges[n].start
       /\ challenges'[n].expires = challenges[n].expires

LEMMA NoneIssuedKeeps == ASSUME Typed, Typed', Limited, NoneIssued PROVE Limited'
<1>1. now \in Nat /\ now' \in Nat /\ now' >= now /\ Window \in Nat /\ ChallengeTtl \in Nat
  BY TtlAssumption DEF Typed, NoneIssued
<1>2. \A n \in DOMAIN challenges : challenges[n].expires \in Nat
  <2> TAKE n \in DOMAIN challenges
  <2>1. challenges[n] \in Challenge
    BY DEF Typed
  <2> QED BY <2>1 DEF Challenge
<1>3. \A ip, t : IssuedSince(ip, t)' = IssuedSince(ip, t)
  BY DEF NoneIssued, IssuedSince, IssuedAt
<1>4. \A ip, t, run : GivenIn(ip, t, run)' = GivenIn(ip, t, run)
  BY DEF NoneIssued, GivenIn, IssuedAt
<1>5. AllWindows'
  BY <1>4 DEF Limited, AllWindows
<1>6. \A n \in DOMAIN challenges' : challenges'[n].start <= starts' /\ IssuedAt(n)' <= now'
  <2> TAKE n \in DOMAIN challenges'
  <2>1. n \in DOMAIN challenges /\ challenges[n].expires \in Nat /\ IssuedAt(n) <= now
    BY <1>2 DEF NoneIssued, Limited, LimitInv
  <2>2. challenges'[n].start <= starts'
    BY <2>1 DEF NoneIssued, Limited, LimitInv
  <2> QED BY <1>1, <2>1, <2>2 DEF NoneIssued, IssuedAt
<1>7. \A ip \in Ips, t \in Nat : t >= now' - Window =>
        Cardinality(IssuedSince(ip, t)') <= Cardinality(HitsSince(hits'[ip], t))
  <2> TAKE ip \in Ips, t \in Nat
  <2>0. SUFFICES ASSUME t >= now' - Window
                 PROVE  Cardinality(IssuedSince(ip, t)') <= Cardinality(HitsSince(hits'[ip], t))
    OBVIOUS
  <2>1. t >= now - Window
    <3>1. ASSUME NEW m \in Nat, NEW n \in Nat, NEW w \in Nat, NEW u \in Nat, n >= m, u >= n - w PROVE u >= m - w
      BY <3>1
    <3> QED BY <1>1, <2>0, <3>1
  <2> QED BY <1>3, <2>1 DEF NoneIssued, Limited, LimitInv
<1>8. LimitInv'
  BY <1>6, <1>7 DEF NoneIssued, Limited, LimitInv, HitsSince
<1> QED BY <1>5, <1>8 DEF Limited

LEMMA IssueLimited ==
  ASSUME Typed, Typed', Limited, NEW a \in Attempt, NEW via \in Via, IssueChallenge(a, via)
  PROVE  Limited'
<1> DEFINE q == ClientIp(via)
<1>1. /\ now \in Nat /\ starts \in Nat /\ Window \in Nat /\ ChallengeTtl \in Nat /\ MaxPerWindow \in Nat
      /\ hits \in [Ips -> Seq(Nat)] /\ q \in Ips
  BY TtlAssumption DEF Typed, Limited, LimitInv, Ips
<1>2. /\ now' = now /\ starts' = starts
      /\ \/ hits' = hits /\ challenges' = challenges
         \/ hits' = [hits EXCEPT ![q] = Recent(q)] /\ challenges' = challenges
         \/ /\ hits' = [hits EXCEPT ![q] = Append(Recent(q), now)] /\ Len(Recent(q)) < MaxPerWindow
            /\ \E w : challenges' = Append(challenges, NewChallenge(w, q))
  BY DEF IssueChallenge, PersistChallenge, Allowed
<1> HIDE DEF q
<1>3. ASSUME NEW t \in Nat, t >= now - Window
      PROVE  /\ Recent(q) \in Seq(Nat) /\ IsFiniteSet(HitsSince(Recent(q), t))
             /\ Cardinality(HitsSince(hits[q], t)) <= Cardinality(HitsSince(Recent(q), t))
             /\ Cardinality(HitsSince(Recent(q), t)) <= Len(Recent(q))
  BY <1>1, <1>3, RecentIs
<1>4. Recent(q) \in Seq(Nat)
  <2>1. now \in Nat /\ now >= now - Window
    BY <1>1
  <2> QED BY <1>3, <2>1
<1>5. \A ip \in Ips, t \in Nat : t >= now - Window =>
        Cardinality(IssuedSince(ip, t)) <= Cardinality(HitsSince(hits[ip], t))
  BY DEF Limited, LimitInv
<1>6. CASE challenges' = challenges
  <2>1. CASE hits' = hits
    BY <1>1, <1>2, <1>6, <2>1, NoneIssuedKeeps DEF NoneIssued
  <2>2. CASE hits' = [hits EXCEPT ![q] = Recent(q)]
    <3>1. hits' \in [Ips -> Seq(Nat)] /\ hits'[q] = Recent(q) /\ \A ip \in Ips \ {q} : hits'[ip] = hits[ip]
      BY <1>1, <1>4, <2>2
    <3>2. \A ip, t, run : GivenIn(ip, t, run)' = GivenIn(ip, t, run) /\ IssuedSince(ip, t)' = IssuedSince(ip, t)
      BY <1>2, <1>6 DEF GivenIn, IssuedSince, IssuedAt
    <3>3. ASSUME NEW ip \in Ips, NEW t \in Nat, t >= now - Window
          PROVE  Cardinality(IssuedSince(ip, t)') <= Cardinality(HitsSince(hits'[ip], t))
      <4>1. CASE ip = q
        <5>1. IsFiniteSet(IssuedSince(q, t)) /\ IsFiniteSet(HitsSince(Recent(q), t))
          BY <1>3, <3>3, ChallengesFinite
        <5>2. Cardinality(IssuedSince(q, t)) \in Nat /\ Cardinality(HitsSince(Recent(q), t)) \in Nat
          BY <5>1, FS_CardinalityType
        <5>3. Cardinality(IssuedSince(q, t)) <= Cardinality(HitsSince(hits[q], t))
          BY <1>1, <1>5, <3>3
        <5>4. Cardinality(HitsSince(hits[q], t)) <= Cardinality(HitsSince(Recent(q), t))
          BY <1>3, <3>3
        <5>5. Cardinality(HitsSince(hits[q], t)) \in Nat
          <6>1. hits[q] \in Seq(Nat) /\ t \in Int
            BY <1>1, <3>3
          <6> QED BY <6>1, SinceType
        <5>6. hits'[ip] = Recent(q) /\ IssuedSince(ip, t)' = IssuedSince(q, t)
          BY <3>1, <3>2, <4>1
        <5> QED BY <5>2, <5>3, <5>4, <5>5, <5>6
      <4>2. CASE ip # q
        BY <1>5, <3>1, <3>2, <3>3, <4>2
      <4> QED BY <4>1, <4>2
    <3>4. LimitInv'
      BY <1>2, <1>6, <3>1, <3>3 DEF Limited, LimitInv, HitsSince, IssuedAt
    <3>5. AllWindows'
      BY <3>2 DEF Limited, AllWindows
    <3> QED BY <3>4, <3>5 DEF Limited
  <2> QED BY <1>2, <1>6, <2>1, <2>2
<1>7. CASE /\ hits' = [hits EXCEPT ![q] = Append(Recent(q), now)] /\ Len(Recent(q)) < MaxPerWindow
           /\ \E w : challenges' = Append(challenges, NewChallenge(w, q))
  <2>1. PICK c : challenges' = Append(challenges, c) /\ c.ip = q /\ c.start = starts /\ c.expires = now + ChallengeTtl
    BY <1>7 DEF NewChallenge
  <2>2. PICK n : n = Len(challenges) + 1
    OBVIOUS
  <2>3. /\ DOMAIN challenges = 1..Len(challenges) /\ Len(challenges) \in Nat
        /\ \A ip, t : IsFiniteSet(IssuedSince(ip, t))
        /\ \A ip, t, run : IsFiniteSet(GivenIn(ip, t, run))
    BY ChallengesFinite
  <2>4. /\ n \notin DOMAIN challenges /\ DOMAIN challenges' = DOMAIN challenges \cup {n}
        /\ challenges'[n] = c /\ \A k \in DOMAIN challenges : challenges'[k] = challenges[k]
    BY <2>1, <2>2, <2>3 DEF Typed
  <2>5. IssuedAt(n)' = now
    BY <1>1, <2>1, <2>4 DEF IssuedAt
  <2>6. \A k \in DOMAIN challenges : IssuedAt(k)' = IssuedAt(k)
    BY <2>4 DEF IssuedAt
  <2>7. hits' \in [Ips -> Seq(Nat)] /\ hits'[q] = Append(Recent(q), now)
        /\ \A ip \in Ips \ {q} : hits'[ip] = hits[ip]
    BY <1>1, <1>4, <1>7
  <2>8. \A ip, t, run :
          GivenIn(ip, t, run)' = GivenIn(ip, t, run) \cup
            (IF ip = q /\ run = starts /\ now \in t..(t + Window) THEN {n} ELSE {})
    BY <1>2, <2>1, <2>4, <2>5, <2>6 DEF GivenIn
  <2>9. \A ip, t :
          IssuedSince(ip, t)' = IssuedSince(ip, t) \cup (IF ip = q /\ now >= t THEN {n} ELSE {})
    BY <1>2, <2>1, <2>4, <2>5, <2>6 DEF IssuedSince
  <2>10. ASSUME NEW ip \in Ips, NEW t \in Nat, t >= now - Window
         PROVE  Cardinality(IssuedSince(ip, t)') <= Cardinality(HitsSince(hits'[ip], t))
    <3>1. CASE ip = q
      <4>1. /\ Cardinality(HitsSince(hits[q], t)) <= Cardinality(HitsSince(Recent(q), t))
            /\ Cardinality(IssuedSince(q, t)) <= Cardinality(HitsSince(hits[q], t))
            /\ IsFiniteSet(HitsSince(Recent(q), t))
        BY <1>1, <1>3, <1>5, <2>10
      <4>2. /\ Cardinality(IssuedSince(q, t)) \in Nat /\ Cardinality(HitsSince(Recent(q), t)) \in Nat
            /\ Cardinality(HitsSince(hits[q], t)) \in Nat
        <5>1. hits[q] \in Seq(Nat) /\ t \in Int
          BY <1>1 DEF Limited, LimitInv
        <5> QED BY <2>3, <4>1, <5>1, FS_CardinalityType, SinceType
      <4>3. Cardinality(HitsSince(hits'[q], t)) = Cardinality(HitsSince(Recent(q), t)) + (IF now >= t THEN 1 ELSE 0)
        BY <1>1, <1>4, <2>7, <4>1, OneMoreHit
      <4>4. Cardinality(IssuedSince(q, t)') = Cardinality(IssuedSince(q, t)) + (IF now >= t THEN 1 ELSE 0)
        <5>1. n \notin IssuedSince(q, t)
          BY <2>4 DEF IssuedSince
        <5>2. CASE now >= t
          <6>1. IssuedSince(q, t)' = IssuedSince(q, t) \cup {n}
            BY <2>9, <5>2
          <6> QED BY <2>3, <5>1, <5>2, <6>1, FS_AddElement
        <5>3. CASE ~(now >= t)
          <6>1. IssuedSince(q, t)' = IssuedSince(q, t)
            BY <2>9, <5>3
          <6> QED BY <4>2, <5>3, <6>1
        <5> QED BY <5>2, <5>3
      <4> QED BY <3>1, <4>1, <4>2, <4>3, <4>4
    <3>2. CASE ip # q
      <4>1. IssuedSince(ip, t)' = IssuedSince(ip, t) /\ hits'[ip] = hits[ip]
        BY <2>7, <2>9, <3>2
      <4> QED BY <1>5, <2>10, <4>1
    <3> QED BY <3>1, <3>2
  <2>11. \A k \in DOMAIN challenges' : challenges'[k].start <= starts' /\ IssuedAt(k)' <= now'
    <3> TAKE k \in DOMAIN challenges'
    <3>1. CASE k = n
      BY <1>1, <1>2, <2>1, <2>4, <2>5, <3>1
    <3>2. CASE k # n
      <4>1. k \in DOMAIN challenges /\ challenges'[k] = challenges[k] /\ IssuedAt(k)' = IssuedAt(k)
        BY <2>4, <2>6, <3>2
      <4> QED BY <1>2, <4>1 DEF Limited, LimitInv
    <3> QED BY <3>1, <3>2
  <2>12. LimitInv'
    BY <1>2, <2>7, <2>10, <2>11 DEF LimitInv, HitsSince
  <2>13. ASSUME NEW ip \in Ips, NEW t \in Nat, NEW run \in Nat
         PROVE  Cardinality(GivenIn(ip, t, run)') <= MaxPerWindow
    <3>1. CASE ip = q /\ run = starts /\ now \in t..(t + Window)
      <4>1. now >= t /\ t >= now - Window
        BY <1>1, <3>1
      <4>2. GivenIn(q, t, starts) \subseteq IssuedSince(q, t)
        BY DEF GivenIn, IssuedSince
      <4>3. /\ Cardinality(GivenIn(q, t, starts)) \in Nat /\ Cardinality(IssuedSince(q, t)) \in Nat
            /\ Cardinality(GivenIn(q, t, starts)) <= Cardinality(IssuedSince(q, t))
        BY <2>3, <4>2, FS_Subset, FS_CardinalityType
      <4>4. /\ Cardinality(IssuedSince(q, t)) <= Cardinality(HitsSince(hits[q], t))
            /\ Cardinality(HitsSince(hits[q], t)) <= Cardinality(HitsSince(Recent(q), t))
            /\ Cardinality(HitsSince(Recent(q), t)) <= Len(Recent(q))
        BY <1>1, <1>3, <1>5, <4>1
      <4>5. /\ Cardinality(HitsSince(hits[q], t)) \in Nat /\ Cardinality(HitsSince(Recent(q), t)) \in Nat
            /\ Len(Recent(q)) \in Nat /\ Len(Recent(q)) < MaxPerWindow
        <5>1. hits[q] \in Seq(Nat) /\ Len(Recent(q)) \in Nat /\ Len(Recent(q)) < MaxPerWindow
          BY <1>1, <1>4, <1>7
        <5>2. t \in Int
          BY <4>1
        <5>3. Cardinality(HitsSince(hits[q], t)) \in Nat /\ Cardinality(HitsSince(Recent(q), t)) \in Nat
          BY <1>4, <5>1, <5>2, SinceType
        <5> QED BY <5>1, <5>2, <5>3
      <4>6. Cardinality(GivenIn(q, t, starts)) + 1 <= MaxPerWindow
        BY <1>1, <4>3, <4>4, <4>5
      <4>7. n \notin GivenIn(q, t, starts)
        BY <2>4 DEF GivenIn
      <4>8. GivenIn(q, t, starts)' = GivenIn(q, t, starts) \cup {n}
        BY <2>8, <3>1, <1>2
      <4>9. Cardinality(GivenIn(q, t, starts) \cup {n}) = Cardinality(GivenIn(q, t, starts)) + 1
        BY <2>3, <4>7, FS_AddElement
      <4> QED BY <1>2, <2>8, <3>1, <4>6, <4>9
    <3>2. CASE ~(ip = q /\ run = starts /\ now \in t..(t + Window))
      <4>1. GivenIn(ip, t, run)' = GivenIn(ip, t, run)
        BY <2>8, <3>2
      <4> QED BY <4>1 DEF Limited, AllWindows
    <3> QED BY <3>1, <3>2
  <2>14. AllWindows'
    BY <2>13 DEF AllWindows
  <2> QED BY <2>12, <2>14 DEF Limited
<1> QED BY <1>2, <1>6, <1>7

(* A server that starts again has its buckets empty and has issued nothing *)
(* in its run yet.                                                         *)
LEMMA RestartLimited == ASSUME Typed, Typed', Limited, Restart PROVE Limited'
<1>1. /\ now' = now /\ challenges' = challenges /\ starts' = starts + 1 /\ hits' = [ip \in Ips |-> <<>>]
      /\ starts \in Nat /\ now \in Nat /\ MaxPerWindow \in Nat /\ Window \in Nat
  BY TtlAssumption DEF Restart, tables, Typed
<1>2. \A n \in DOMAIN challenges : challenges[n].start \in Nat /\ challenges[n].start <= starts
  <2> TAKE n \in DOMAIN challenges
  <2>1. challenges[n] \in Challenge
    BY DEF Typed
  <2> QED BY <2>1 DEF Challenge, Limited, LimitInv
<1>3. hits' \in [Ips -> Seq(Nat)] /\ \A ip \in Ips, t \in Nat : HitsSince(hits'[ip], t) = {}
  BY <1>1 DEF HitsSince
<1>4. \A ip, t : IssuedSince(ip, t)' = {}
  BY <1>1, <1>2 DEF IssuedSince
<1>5. \A ip, t, run : GivenIn(ip, t, run)' = GivenIn(ip, t, run)
  BY <1>1 DEF GivenIn, IssuedAt
<1>6. \A n \in DOMAIN challenges' : challenges'[n].start <= starts' /\ IssuedAt(n)' <= now'
  <2> TAKE n \in DOMAIN challenges'
  <2>1. n \in DOMAIN challenges /\ IssuedAt(n)' = IssuedAt(n) /\ IssuedAt(n) <= now
    BY <1>1 DEF IssuedAt, Limited, LimitInv
  <2>2. challenges'[n].start <= starts'
    BY <1>1, <1>2, <2>1
  <2> QED BY <1>1, <2>1, <2>2
<1>7. LimitInv'
  <2>1. Cardinality({}) = 0
    BY FS_EmptySet
  <2>2. \A ip \in Ips, t \in Nat : Cardinality(IssuedSince(ip, t)') <= Cardinality(HitsSince(hits'[ip], t))
    <3> TAKE ip \in Ips, t \in Nat
    <3>1. IssuedSince(ip, t)' = {} /\ HitsSince(hits'[ip], t) = {}
      BY <1>3, <1>4
    <3>2. Cardinality({}) <= Cardinality({})
      BY <2>1
    <3> QED BY <3>1, <3>2
  <2> QED BY <1>3, <1>6, <2>2 DEF LimitInv, HitsSince
<1> QED BY <1>5, <1>7 DEF Limited, AllWindows

LEMMA ConsumeLimited ==
  ASSUME Typed, Typed', Limited, NEW a \in Attempt, ConsumeChallenge(a) PROVE Limited'
<1>1. /\ now' = now /\ starts' = starts /\ hits' = hits /\ now \in Nat
      /\ \/ challenges' = challenges
         \/ \E n : challenges' = [challenges EXCEPT ![n].consumed = TRUE]
  BY DEF ConsumeChallenge, Typed
<1>2. CASE challenges' = challenges
  BY <1>1, <1>2, NoneIssuedKeeps DEF NoneIssued
<1>3. ASSUME NEW n, challenges' = [challenges EXCEPT ![n].consumed = TRUE] PROVE NoneIssued
  <2>1. DOMAIN challenges' = DOMAIN challenges
    BY <1>3
  <2>2. ASSUME NEW k \in DOMAIN challenges
        PROVE  /\ challenges'[k].ip = challenges[k].ip
               /\ challenges'[k].start = challenges[k].start
               /\ challenges'[k].expires = challenges[k].expires
    <3>1. challenges[k] \in Challenge
      BY DEF Typed
    <3>2. challenges'[k] = challenges[k] \/ challenges'[k] = [challenges[k] EXCEPT !.consumed = TRUE]
      BY <1>3
    <3> QED BY <3>1, <3>2 DEF Challenge
  <2> QED BY <1>1, <2>1, <2>2 DEF NoneIssued
<1> QED BY <1>1, <1>2, <1>3, NoneIssuedKeeps

LEMMA StepLimited == ASSUME SignInInv, SignInInv', Limited, [SignInNext]_vars PROVE Limited'
<1>0. Typed /\ Typed' /\ now \in Nat
  BY DEF SignInInv, Typed
<1>1. ASSUME UNCHANGED <<now, challenges, hits, starts>> PROVE Limited'
  BY <1>0, <1>1, NoneIssuedKeeps DEF NoneIssued
<1>2. CASE LoginPage
  <2>1. UNCHANGED <<now, challenges, hits, starts>>
    BY <1>2 DEF LoginPage, Reset, StartManual, ConnectWallet, RequestChallengeManual, Approve, Sign, tables
  <2> QED BY <1>1, <2>1
<1>3. CASE Endpoints
  <2>1. CASE \E a \in Attempt, via \in Via : IssueChallenge(a, via)
    BY <1>0, <2>1, IssueLimited
  <2>2. CASE \E a \in Attempt : ConsumeChallenge(a)
    BY <1>0, <2>2, ConsumeLimited
  <2>3. CASE \/ \E a \in Attempt, via \in Via : VerifyChallenge(a, via)
             \/ \E a \in Attempt : RotateInsert(a) \/ RotateSweep(a) \/ RotateCommit(a)
             \/ \E c \in Client, via \in Via : Logout(c, via)
    <3>1. UNCHANGED <<now, challenges, hits, starts>>
      BY <2>3 DEF VerifyChallenge, RotateInsert, RotateSweep, RotateCommit, Logout, tables
    <3> QED BY <1>1, <3>1
  <2> QED BY <1>3, <2>1, <2>2, <2>3 DEF Endpoints
<1>4. CASE Visits
  <2>1. UNCHANGED <<now, challenges, hits, starts>>
    BY <1>4 DEF Visits, LoadPage, Pair, WalletForgets, SignTimesOut, tables
  <2> QED BY <1>1, <2>1
<1>5. CASE \/ \E a, b \in Attempt : StatementFails(a) \/ Resend(a, b)
           \/ \E answer \in mail : Arrive(answer) \/ LoseAnswer(answer)
           \/ Cleanup
  <2>1. UNCHANGED <<now, challenges, hits, starts>>
    BY <1>5 DEF StatementFails, Resend, Arrive, LoseAnswer, Cleanup, tables
  <2> QED BY <1>1, <2>1
<1>6. CASE Tick
  <2>1. NoneIssued
    BY <1>0, <1>6 DEF Tick, tables, NoneIssued
  <2> QED BY <1>0, <2>1, NoneIssuedKeeps
<1>7. CASE Restart
  BY <1>0, <1>7, RestartLimited
<1>8. CASE UNCHANGED vars
  BY <1>1, <1>8 DEF vars, tables
<1> QED BY <1>2, <1>3, <1>4, <1>5, <1>6, <1>7, <1>8 DEF SignInNext

(* createRateLimiter: one address is given no more challenges than the     *)
(* limit in any window of one run of the server, whatever its requests are *)
(* interleaved with.                                                       *)
THEOREM TheLimitHolds == SignInSpec => []LimitHolds
<1>1. SignInInit => Limited
  BY LimitInit
<1>2. SignInInv /\ SignInInv' /\ Limited /\ [SignInNext]_vars => Limited'
  BY StepLimited
<1>3. SignInInv /\ Limited => LimitHolds
  <2> SUFFICES ASSUME SignInInv, Limited, NEW ip \in Ips, NEW t \in 0..MaxTime, NEW run \in 0..starts
               PROVE  Cardinality(GivenIn(ip, t, run)) <= MaxPerWindow
    BY DEF LimitHolds, GivenIn, IssuedAt
  <2>1. t \in Nat /\ run \in Nat
    BY DEF SignInInv, Typed
  <2> QED BY <2>1 DEF Limited, AllWindows
<1> QED BY <1>1, <1>2, <1>3, Invariance, PTL DEF SignInSpec

----------------------------------------------------------------------------
(* connectWallet: whatever pairings the browser keeps, and whichever       *)
(* wallet the pairing dialogue answers with, a signing page is only lent   *)
(* the wallet that is signed in.                                           *)
THEOREM OnlyOwnSigner == SignInSpec => []SignerMatches
<1>1. SignInInit => SignerMatches
  BY DEF SignInInit, SignerMatches
<1>2. SignerMatches /\ [SignInNext]_vars => SignerMatches'
  <2> SUFFICES ASSUME SignerMatches, [SignInNext]_vars PROVE SignerMatches'
    OBVIOUS
  <2>1. ASSUME NEW c \in Client, NEW w, Pair(c, w) PROVE SignerMatches'
    <3>1. PICK u : lent' = lent \/ lent' = lent \cup {<<u, u>>}
      BY <2>1 DEF Pair, Reusable
    <3> QED BY <3>1 DEF SignerMatches
  <2>2. CASE lent' = lent
    BY <2>2 DEF SignerMatches
  <2>3. CASE LoginPage
    <3>1. lent' = lent
      BY <2>3 DEF LoginPage, Reset, StartManual, ConnectWallet, RequestChallengeManual, Approve, Sign, history
    <3> QED BY <2>2, <3>1
  <2>4. CASE Endpoints
    <3>1. lent' = lent
      BY <2>4 DEF Endpoints, IssueChallenge, VerifyChallenge, ConsumeChallenge, RotateInsert, RotateSweep,
                  RotateCommit, Logout, history
    <3> QED BY <2>2, <3>1
  <2>5. CASE Visits
    <3>1. CASE \E c \in Client : \E w \in Wallet \cup {Stranger} : Pair(c, w)
      BY <2>1, <3>1
    <3>2. CASE \/ \E c \in Client, url \in [prefix : Prefixes, path : Paths] : LoadPage(c, url)
               \/ \E c \in Client : \E p \in pairings[c] : WalletForgets(c, p) \/ SignTimesOut(c, p)
      <4>1. lent' = lent
        BY <3>2 DEF LoadPage, WalletForgets, SignTimesOut, history
      <4> QED BY <2>2, <4>1
    <3> QED BY <2>5, <3>1, <3>2 DEF Visits
  <2>6. CASE \/ \E a, b \in Attempt : StatementFails(a) \/ Resend(a, b)
             \/ \E answer \in mail : Arrive(answer) \/ LoseAnswer(answer)
             \/ Restart \/ Cleanup \/ Tick
    <3>1. lent' = lent
      BY <2>6 DEF StatementFails, Resend, Arrive, LoseAnswer, Restart, Cleanup, Tick, history
    <3> QED BY <2>2, <3>1
  <2>7. CASE UNCHANGED vars
    BY <2>2, <2>7 DEF vars, history
  <2> QED BY <2>3, <2>4, <2>5, <2>6, <2>7 DEF SignInNext
<1> QED BY <1>1, <1>2, PTL DEF SignInSpec

=================================================================================
