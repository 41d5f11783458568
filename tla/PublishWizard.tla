----------------------------- MODULE PublishWizard ---------------------------
(***************************************************************************)
(* The wizard that publishes a token's metadata: the sessions table        *)
(* (lib/server/bcmrPublishSessions.ts), the endpoints under                *)
(* routes/api/bcmr/sessions, and the pages under routes/publish-bcmr that  *)
(* call them.  One wallet is signed in.                                    *)
(*                                                                         *)
(* A request runs up to its next await in one step, and requests           *)
(* interleave between steps.  Any of the wallet's tabs may send one at any *)
(* time: a page opened earlier shows an earlier step.  A document is a     *)
(* number: generateBcmr stamps the time, so no two calls write the same.   *)
(* A URI is the owner's web host, whose content the owner changes, or an   *)
(* IPFS address, which names its content.                                  *)
(*                                                                         *)
(* Simplifications.  The per-user cap on drafts is over all categories and *)
(* is not met by those of one.  The IP limiter and the syntax checks only  *)
(* refuse.  The wallet signs what it is shown, and its owner pastes a      *)
(* transaction into the session it was built for.  The DELETE endpoint has *)
(* no caller among the pages.                                              *)
(***************************************************************************)
EXTENDS Wallet

CONSTANTS
  Session,     \* publish session ids
  Request,     \* requests the server works on at a time
  MaxDoc,      \* bound on generated documents
  MaxHost,     \* bound on changes of the web host
  MaxFaults    \* bound on failed statements, lost answers and restarts

VARIABLES
  rows,        \* bcmr_publish_sessions
  cachedHead,  \* tokens.authchain_head_txid, 0 for NULL
  req,         \* the requests in progress
  cooling,     \* recentBroadcasts holds the wallet
  held,        \* session -> documents its pages have been given
  shown,       \* publications the wallet has been shown
  host,        \* what the owner's web host serves, 0 for nothing
  docs,        \* documents generated
  hosted,      \* documents a verification has found at their URI
  hosts,       \* bounds
  faults,
  disturbed,   \* sessions whose broadcast met a fault or another broadcast
  refused      \* the owner of the authority coin was told it is another's

publishVars == <<rows, cachedHead, req, cooling, held, shown, host, docs, hosted, hosts,
                 faults, disturbed, refused>>
server == <<rows, cachedHead, cooling>>
pages == <<held, shown>>
history == <<hosted, disturbed, refused>>
outside == <<host, hosts>>

Web == 0                     \* the owner's host; a document d > 0 is also its IPFS address
NoUri == -1

NoRow == [state |-> "absent", cat |-> 0, named |-> FALSE, doc |-> 0, uri |-> NoUri,
          verified |-> FALSE, built |-> NoTx, head |-> 0, signed |-> FALSE, txid |-> 0]

(* doc and fresh are the hash and whether a head was recorded, as read.    *)
Idle == [pc |-> "idle", s |-> 0, uri |-> NoUri, doc |-> 0, fresh |-> TRUE, head |-> 0, tx |-> NoTx]

PublishInit ==
  /\ rows = [s \in Session |-> NoRow]
  /\ cachedHead = 0
  /\ req = [r \in Request |-> Idle]
  /\ cooling = FALSE
  /\ held = [s \in Session |-> {}] /\ shown = {}
  /\ host = 0 /\ docs = 0 /\ hosted = {} /\ hosts = 0 /\ faults = 0
  /\ disturbed = {} /\ refused = FALSE

----------------------------------------------------------------------------
(* The table.  A patch is a record of the columns it sets.                 *)

(* The states a row may be in for a patch to set its state.                *)
Allowed(st) ==
  CASE st = "drafting"  -> {"drafting"}
    [] st = "signed"    -> {"drafting", "signed"}
    [] st = "broadcast" -> {"drafting", "signed"}
    [] st = "confirmed" -> {"broadcast", "confirmed"}
    [] st = "failed"    -> {"drafting", "signed", "broadcast", "failed"}
    [] st = "abandoned" -> {"drafting", "signed", "failed", "abandoned"}

Sets(patch, column) == column \in DOMAIN patch

(* Mutant: the content hash may be written again.                          *)
WritableHashAgain(row, patch) ==
  /\ row.state # "absent"
  /\ Sets(patch, "state") => row.state \in Allowed(patch.state)
  /\ Sets(patch, "txid") => row.txid = 0
  /\ Sets(patch, "head") => row.head = 0

(* Mutant: the state guard is left out.                                    *)
WritableAnyState(row, patch) ==
  /\ row.state # "absent"
  /\ Sets(patch, "txid") => row.txid = 0
  /\ Sets(patch, "doc") => row.doc = 0
  /\ Sets(patch, "head") => row.head = 0

(* The state guard and the append-only guards; a patch without a state has *)
(* no state guard.                                                         *)
Writable(row, patch) ==
  /\ row.state # "absent"
  /\ Sets(patch, "state") => row.state \in Allowed(patch.state)
  /\ Sets(patch, "txid") => row.txid = 0
  /\ Sets(patch, "doc") => row.doc = 0
  /\ Sets(patch, "head") => row.head = 0

Patched(row, patch) ==
  [c \in DOMAIN row |-> IF Sets(patch, c) THEN patch[c] ELSE row[c]]

UpdateSession(s, patch) ==
  rows' = IF Writable(rows[s], patch) THEN [rows EXCEPT ![s] = Patched(@, patch)] ELSE rows

Drafts(cat) == {s \in Session : rows[s].state = "drafting" /\ rows[s].cat = cat}

CreateSession(s, cat) ==
  /\ rows[s].state = "absent" /\ Drafts(cat) = {}
  /\ rows' = [rows EXCEPT ![s] = [NoRow EXCEPT !.state = "drafting", !.cat = cat]]

----------------------------------------------------------------------------
(* The pages.                                                              *)

(* How far the stepper lets the owner go.                                  *)
MaxStepForState(row) ==
  CASE row.txid # 0   -> 6
    [] row.signed -> 5
    [] row.verified   -> 5
    [] row.doc # 0    -> 4
    [] row.named      -> 3
    [] OTHER          -> 2

(* The landing page lists the categories whose head, or whose genesis when *)
(* no head is cached, is a token coin at output 0 of the wallet.           *)
Eligible(cat) ==
  /\ Genesis(cat) \cap 1..mined # {}
  /\ LET head == IF cachedHead = 0 THEN Genesis(cat) ELSE {cachedHead}
     IN \E u \in FetchWalletUtxos :
          u.coin[2] = 0 /\ ~IsPlain(u.token) /\ u.coin[1] \in head

StartWizard(s, cat) ==
  /\ Eligible(cat) /\ CreateSession(s, cat)
  /\ UNCHANGED <<walletVars, cachedHead, req, cooling, pages, outside, docs, history, faults>>

(* The first two steps save the name, ticker, decimals and icon.           *)
SaveIdentity(s) ==
  /\ rows[s].state # "absent" /\ ~rows[s].named
  /\ UpdateSession(s, [named |-> TRUE])
  /\ UNCHANGED <<walletVars, cachedHead, req, cooling, pages, outside, docs, history, faults>>

AbandonDraft(s) ==
  /\ rows[s].state = "drafting"
  /\ UpdateSession(s, [state |-> "abandoned"])
  /\ UNCHANGED <<walletVars, cachedHead, req, cooling, pages, outside, docs, history, faults>>

(* The page pins the document it holds and saves the address it got, which *)
(* is not verified by that.                                                *)
PinCanonicalJson(s) ==
  \E d \in held[s] :
    /\ rows[s].uri # d
    /\ UpdateSession(s, [uri |-> d])
    /\ UNCHANGED <<walletVars, cachedHead, req, cooling, pages, outside, docs, history, faults>>

(* The owner uploads a document to the web host, or takes it away.         *)
HostChanges ==
  /\ hosts < MaxHost /\ hosts' = hosts + 1
  /\ \E d \in (UNION {held[s] : s \in Session}) \cup {0} : d # host /\ host' = d
  /\ UNCHANGED <<walletVars, server, req, pages, docs, history, faults>>

Serves(uri) == IF uri = Web THEN host ELSE uri

----------------------------------------------------------------------------
(* Requests.                                                               *)

Finish(r) == req' = [req EXCEPT ![r] = Idle]

(* A request arrives: the row is read, and nothing more happens where the  *)
(* endpoint refuses it.                                                    *)
Read(r, s, pc, extra) ==
  /\ req[r] = Idle
  /\ req' = [req EXCEPT ![r] = Patched([Idle EXCEPT !.pc = pc, !.s = s, !.doc = rows[s].doc,
                                         !.fresh = rows[s].head = 0], extra)]

NoMore == [c \in {} |-> 0]

CanonicalizeRead(r, s) ==
  /\ rows[s].state = "drafting" /\ rows[s].named
  /\ Read(r, s, "canonical", NoMore)
  /\ UNCHANGED <<walletVars, server, pages, outside, docs, history, faults>>

(* A document is written; when the hash is already there the page is given *)
(* the one of the row read before, or this one when that had none.         *)
Canonicalize(r) ==
  LET q == req[r]
      new == docs + 1
      given == IF Writable(rows[q.s], [doc |-> new]) \/ q.doc = 0 THEN new ELSE q.doc
  IN /\ q.pc = "canonical" /\ docs < MaxDoc
     /\ docs' = new
     /\ UpdateSession(q.s, [doc |-> new])
     /\ held' = [held EXCEPT ![q.s] = @ \cup {given}]
     /\ Finish(r)
     /\ UNCHANGED <<walletVars, cachedHead, cooling, shown, outside, history, faults>>

(* The page posts the web address or, for an IPFS one, its gateway's.      *)
RunVerify(r, s, uri) ==
  /\ rows[s].state = "drafting" /\ rows[s].doc # 0
  /\ Read(r, s, "fetch", [uri |-> uri])
  /\ UNCHANGED <<walletVars, server, pages, outside, docs, history, faults>>

(* What the host serves now is compared with the hash read before.         *)
FetchAndHash(r) ==
  LET q == req[r]
      match == Serves(q.uri) = q.doc
  IN /\ q.pc = "fetch"
     /\ req' = [req EXCEPT ![r] = IF match THEN [q EXCEPT !.pc = "verified"] ELSE Idle]
     /\ hosted' = IF match THEN hosted \cup {q.doc} ELSE hosted
     /\ UNCHANGED <<walletVars, server, pages, outside, docs, disturbed, refused, faults>>

VerifyPersist(r) ==
  LET q == req[r] IN
  /\ q.pc = "verified"
  /\ UpdateSession(q.s, [uri |-> q.uri, verified |-> TRUE])
  /\ Finish(r)
  /\ UNCHANGED <<walletVars, cachedHead, cooling, pages, outside, docs, history, faults>>

(* Mutant: a draft is built before its host has been verified.             *)
BuildableUnverified(row) == row.state = "drafting" /\ row.doc # 0

Buildable(row) ==
  row.state = "drafting" /\ row.doc # 0 /\ row.verified /\ row.uri # NoUri

(* A transaction built before is shown again.                              *)
BuildRead(r, s) ==
  /\ Buildable(rows[s])
  /\ IF rows[s].built = NoTx THEN Read(r, s, "head", NoMore) /\ UNCHANGED shown
     ELSE shown' = shown \cup {rows[s].built} /\ UNCHANGED req
  /\ UNCHANGED <<walletVars, server, held, outside, docs, history, faults>>

(* The cold walk reports the script that holds the coin, where its callers *)
(* look for the wallet's address.                                          *)
HeadVout0Addresses == {"script"}
ColdOwner == "cashaddr" \in HeadVout0Addresses

(* The cached head is believed when its output 0 is unspent; otherwise the *)
(* chain is walked from the genesis over the edges the tail has recorded,  *)
(* and the walk must end at an unspent output.                             *)
AuthHead(cat) ==
  LET all == Len(accepted)
      genesis == CHOOSE t \in Genesis(cat) : TRUE
      cold == Walked(genesis, mined)
  IN IF cachedHead # 0 /\ Child(cachedHead, all) = {} THEN [head |-> cachedHead, says |-> "owner"]
     ELSE IF Child(cold, all) # {} THEN [head |-> 0, says |-> "gap"]
     ELSE [head |-> cold, says |-> IF ColdOwner THEN "owner" ELSE "other"]

BuildHead(r) ==
  LET q == req[r]
      known == Genesis(rows[q.s].cat) \cap 1..mined # {}
      found == AuthHead(rows[q.s].cat)
      owns == known /\ found.says = "owner"
  IN /\ q.pc = "head"
     /\ req' = [req EXCEPT ![r] = IF owns THEN [q EXCEPT !.pc = "coins", !.head = found.head]
                                  ELSE Idle]
     /\ refused' = (refused \/ (known /\ found.says = "other"))
     /\ UNCHANGED <<walletVars, server, pages, outside, docs, hosted, disturbed, faults>>

(* The wallet's coins, of which a transaction may not be readable for the  *)
(* check, and the transaction built from them.                             *)
BuildCoins(r) ==
  LET q == req[r]
      seen == FetchWalletUtxos
  IN /\ q.pc = "coins"
     /\ \E unread \in {{}} \cup (IF faults < MaxFaults THEN {{u.coin[1]} : u \in seen} ELSE {}) :
          LET view == VerifyUtxoTokenData(seen, unread)
              auth == {u \in view : u.coin = <<q.head, 0>> /\ ~IsPlain(u.token)}
              tx == IF auth = {} THEN NoTx
                    ELSE BuildBcmrPublishTx(q.s, CHOOSE u \in auth : TRUE, view \ auth, q.doc,
                                            unread = {})
          IN /\ faults' = IF unread = {} THEN faults ELSE faults + 1
             /\ req' = [req EXCEPT ![r] = IF tx = NoTx THEN Idle
                                          ELSE [q EXCEPT !.pc = "persist", !.tx = tx]]
     /\ UNCHANGED <<walletVars, server, pages, outside, docs, history>>

(* No state guard here: the draft may have ended since it was read.        *)
BuildPersist(r) ==
  LET q == req[r]
      patch == IF q.fresh THEN [built |-> q.tx, head |-> q.head] ELSE [built |-> q.tx]
  IN /\ q.pc = "persist"
     /\ UpdateSession(q.s, patch)
     /\ shown' = IF Writable(rows[q.s], patch) THEN shown \cup {q.tx} ELSE shown
     /\ Finish(r)
     /\ UNCHANGED <<walletVars, cachedHead, cooling, held, outside, docs, history, faults>>

Broadcasting(s) == {r \in Request : req[r].s = s /\ req[r].pc \in {"send", "sent", "dead", "nudge"}}

(* The owner has signed; the cooldown is looked at before the row is read. *)
RunBroadcast(r, s) ==
  /\ ~cooling
  /\ rows[s].txid = 0 /\ rows[s].state \in {"drafting", "signed"} /\ rows[s].built # NoTx
  /\ \E tx \in shown : tx.s = s /\ Read(r, s, "send", [tx |-> tx])
  /\ disturbed' = IF Broadcasting(s) = {} THEN disturbed ELSE disturbed \cup {s}
  /\ UNCHANGED <<walletVars, server, pages, outside, docs, hosted, refused, faults>>

(* The node answers, or it takes the transaction and the answer is lost.   *)
SendRawTransaction(r) ==
  LET q == req[r] IN
  /\ q.pc = "send"
  /\ \/ /\ Acceptable(q.tx) /\ Accept(q.tx)
        /\ req' = [req EXCEPT ![r] = [q EXCEPT !.pc = "sent", !.head = Len(accepted) + 1]]
        /\ UNCHANGED <<cooling, disturbed, faults>>
     \/ /\ Acceptable(q.tx) /\ Accept(q.tx)
        /\ faults < MaxFaults /\ faults' = faults + 1
        /\ req' = [req EXCEPT ![r] = [q EXCEPT !.pc = "dead"]]
        /\ cooling' = TRUE /\ disturbed' = disturbed \cup {q.s}
     \/ /\ ~Acceptable(q.tx) /\ UNCHANGED walletVars
        /\ req' = [req EXCEPT ![r] = [q EXCEPT !.pc = "dead"]]
        /\ cooling' = TRUE
        /\ UNCHANGED <<disturbed, faults>>
  /\ UNCHANGED <<rows, cachedHead, pages, outside, docs, hosted, refused>>

(* The build is taken for dead and discarded.                              *)
DiscardBuild(r) ==
  LET q == req[r] IN
  /\ q.pc = "dead"
  /\ UpdateSession(q.s, [built |-> NoTx])
  /\ Finish(r)
  /\ UNCHANGED <<walletVars, cachedHead, cooling, pages, outside, docs, history, faults>>

(* Mutant: the state is recorded and the transaction is not.               *)
SentUnnamed(q) == [signed |-> TRUE]

Sent(q) == [state |-> "broadcast", signed |-> TRUE, txid |-> q.head]

(* The guards make this a no-op for a row another request has recorded.    *)
BroadcastPersist(r) ==
  LET q == req[r] IN
  /\ q.pc = "sent"
  /\ UpdateSession(q.s, Sent(q))
  /\ cooling' = TRUE
  /\ req' = [req EXCEPT ![r] = [q EXCEPT !.pc = "nudge"]]
  /\ UNCHANGED <<walletVars, cachedHead, pages, outside, docs, history, faults>>

NudgeBcmrIndexer(r) ==
  LET q == req[r] IN
  /\ q.pc = "nudge"
  /\ cachedHead' = q.head
  /\ Finish(r)
  /\ UNCHANGED <<walletVars, rows, cooling, pages, outside, docs, history, faults>>

(* A statement fails, or the process is restarted under its requests and   *)
(* with it the cooldown.                                                   *)
StatementFails(r) ==
  LET q == req[r] IN
  /\ faults < MaxFaults /\ faults' = faults + 1
  /\ q.pc \in {"canonical", "verified", "persist", "dead", "sent", "nudge"}
  /\ disturbed' = IF q.pc = "sent" THEN disturbed \cup {q.s} ELSE disturbed
  /\ Finish(r)
  /\ UNCHANGED <<walletVars, server, pages, outside, docs, hosted, refused>>

Restart ==
  /\ faults < MaxFaults /\ faults' = faults + 1
  /\ req' = [r \in Request |-> Idle] /\ cooling' = FALSE
  /\ disturbed' = disturbed \cup {s \in Session : Broadcasting(s) # {}}
  /\ UNCHANGED <<walletVars, rows, cachedHead, pages, outside, docs, hosted, refused>>

(* A minute passes.                                                        *)
CooldownEnds ==
  /\ cooling /\ cooling' = FALSE
  /\ UNCHANGED <<walletVars, rows, cachedHead, req, pages, outside, docs, history, faults>>

(* The hourly walker stores the head it walks to; BcmrWatchdog is about it.*)
WalkerVisits(cat) ==
  /\ Genesis(cat) \cap 1..mined # {}
  /\ cachedHead' = Walked(CHOOSE t \in Genesis(cat) : TRUE, mined)
  /\ cachedHead' # cachedHead
  /\ UNCHANGED <<walletVars, rows, cooling, req, pages, outside, docs, history, faults>>

Handle(r) ==
  \/ Canonicalize(r) \/ FetchAndHash(r) \/ VerifyPersist(r)
  \/ BuildHead(r) \/ BuildCoins(r) \/ BuildPersist(r)
  \/ SendRawTransaction(r) \/ DiscardBuild(r)
  \/ BroadcastPersist(r) \/ NudgeBcmrIndexer(r) \/ StatementFails(r)

Arrives(r, s) ==
  \/ CanonicalizeRead(r, s) \/ BuildRead(r, s) \/ RunBroadcast(r, s)
  \/ \E uri \in {Web} \cup held[s] : RunVerify(r, s, uri)

PublishRequests ==
  \/ \E r \in Request : Handle(r)
  \/ \E r \in Request, s \in Session : Arrives(r, s)
  \/ Restart \/ CooldownEnds

PublishPages ==
  \/ \E s \in Session : SaveIdentity(s) \/ AbandonDraft(s) \/ PinCanonicalJson(s)
  \/ \E cat \in 1..MaxTx : WalkerVisits(cat) \/ (\E s \in Session : StartWizard(s, cat))
  \/ HostChanges

=============================================================================
