------------------------------- MODULE Airdrop ------------------------------
(***************************************************************************)
(* The airdrop flow of the web app, for one sender: the draft endpoint     *)
(* (routes/api/airdrops), the per-chunk broadcast endpoint                 *)
(* (routes/api/airdrops/[id]/broadcast), the tables behind them            *)
(* (lib/server/airdrops.ts), the wallet's coins as the server sees them    *)
(* (lib/server/walletUtxos.ts) and the wizard that drives it all.          *)
(*                                                                         *)
(* A request is a sequence of database statements and RPC calls; each is   *)
(* one step, and requests interleave.  The node, its blocks and the        *)
(* directory's token_holders and live_token_utxo tables move on their own. *)
(* The wizard is the page in the sender's browser: it holds the one chunk  *)
(* to sign, posts it, posts it again when it hears an error.               *)
(*                                                                         *)
(* Simplifications.  A transaction row stands for its airdrop_outputs too: *)
(* every statement that writes one writes the others in the same           *)
(* transaction.  A plain coin covers the sats of one chunk and leaves      *)
(* change.  Every chunk pays the same amount.  The recipient category      *)
(* always has holders.  A wallet's signature over the same inputs is the   *)
(* same transaction.  Moderation, eligibility and the rate limit gate a    *)
(* draft and nothing else: they are the drafts that do not happen.         *)
(***************************************************************************)
EXTENDS Integers, FiniteSets
LOCAL INSTANCE FiniteSetsExt

CONSTANTS
  Airdrop,      \* airdrop ids
  Count,        \* chunks of an airdrop (tx_count)
  Amount,       \* token units a chunk pays
  Request,      \* requests the server works on at a time
  Token,        \* token amounts of the coins the sender starts with
  Plain,        \* plain coins that reach the sender's wallet
  None,
  MaxSnapshot,  \* bound on token_holders versions
  MaxFaults,    \* bound on failed calls and lost answers
  MaxCrashes    \* bound on crashes of the server

Chunk == 0..(Count - 1)

ASSUME AirdropAssumption ==
  /\ Count \in Nat \ {0} /\ Amount \in Nat \ {0}
  /\ Token \subseteq Nat \ {0}
  /\ None \notin Airdrop \cup Request
  /\ MaxSnapshot \in Nat /\ MaxFaults \in Nat /\ MaxCrashes \in Nat

VARIABLES
  (* Postgres *)
  airdrops,     \* airdrops: id -> state ("absent": no row), snapshot, recipient list
  txs,          \* airdrop_txs: id -> chunk -> state, txid, fail_reason
  holders,      \* token_holders: its newest snapshot_at
  indexed,      \* live_token_utxo: the sender's confirmed token coins
  (* the server *)
  req,          \* the requests in progress
  cache,        \* walletUtxos' mempool scan, or None
  (* the browser *)
  tab,          \* the chunk the wizard of each airdrop holds, or NoTx
  (* the node *)
  accepted,     \* transactions it took
  mined,        \* those of them in a block
  arrived,      \* plain coins that reached the wallet
  settled,      \* those of them in a block
  (* bounds and history *)
  faults, crashes,
  broken,       \* airdrops a fault, a crash or an overlap has touched
  retried       \* airdrops that sent a chunk whose row said failed

database == <<airdrops, txs>>
chainview == <<holders, indexed>>
node == <<accepted, mined, arrived, settled>>
bounds == <<faults, crashes>>
history == <<broken, retried>>
vars == <<airdrops, txs, holders, indexed, req, cache, tab, accepted, mined, arrived,
          settled, faults, crashes, broken, retried>>

NoTx == [a |-> None, k |-> 0, ins |-> {}]

Idle == [pc |-> "idle", a |-> None, k |-> 0, tx |-> NoTx, heard |-> FALSE,
         list |-> 0, snap |-> 0, rolled |-> "none", then |-> "none"]

(* The request a wizard has just made.                                     *)
NewJob(pc, a, tx, list) ==
  [Idle EXCEPT !.pc = pc, !.a = a, !.heard = TRUE, !.tx = tx, !.k = tx.k, !.list = list]

DraftPcs == {"snapshot", "build", "insert"}
EarlyPcs == {"load", "check", "send"}
LatePcs == {"mark", "markFail", "roll", "rolled", "fresh", "halt", "next"}

(* Mutant: the index forgets airdrops whose signing has begun.             *)
OpenDrafting == {"drafting"}

(* airdrops_one_drafting_per_sender_idx covers these states.               *)
OpenStates == {"drafting", "signing"}
AirdropStates == {"drafting", "signing", "broadcasting", "complete", "partial", "failed"}

(* The tables and the requests hold values of their types.                 *)
TypeOK ==
  /\ \A a \in Airdrop : airdrops[a] \in
       [state : AirdropStates \cup {"absent"}, snap : 0..MaxSnapshot, list : 0..MaxSnapshot]
  /\ \A a \in Airdrop, k \in Chunk :
       /\ txs[a][k].state \in {"pending", "broadcast", "failed"}
       /\ txs[a][k].reason \in {"none", "rejected", "halted"}
       /\ txs[a][k].txid # NoTx => txs[a][k].txid.a = a /\ txs[a][k].txid.k = k
  /\ \A r \in Request :
       /\ req[r].pc \in {"idle"} \cup DraftPcs \cup EarlyPcs \cup LatePcs
       /\ req[r].pc # "idle" => req[r].a \in Airdrop /\ req[r].k \in Chunk
  /\ \A a \in Airdrop : tab[a] # NoTx => tab[a].a = a /\ tab[a].k \in Chunk
  /\ mined \subseteq accepted /\ settled \subseteq arrived /\ arrived \subseteq Plain
  /\ faults \in 0..MaxFaults /\ crashes \in 0..MaxCrashes /\ holders \in 0..MaxSnapshot

----------------------------------------------------------------------------
(* Coins.  One the sender starts with has no source; a transaction of a    *)
(* chunk has a token change if tokens are left, and a plain change.        *)

Coin(src, n, token) == [src |-> src, n |-> n, token |-> token]

StartCoins == {Coin(None, n, n) : n \in Token}

TokensIn(coins) == MapThenSumSet(LAMBDA c : c.token, coins)

ChangeOf(tx) ==
  {Coin(tx, n, 0) : n \in {2}}
    \cup {Coin(tx, 1, t) : t \in {TokensIn(tx.ins) - Amount} \ {0}}

Spent(sent) == UNION {tx.ins : tx \in sent}
TokenCoins(coins) == {c \in coins : c.token > 0}

(* fetchWalletUtxos: the rows of live_token_utxo (token coins only) plus   *)
(* every output of a mempool transaction.  Coins that another mempool      *)
(* transaction spends are not taken out.                                   *)
MempoolCoins == (UNION {ChangeOf(tx) : tx \in accepted \ mined}) \cup (arrived \ settled)

WalletUtxos(scan) == indexed \cup scan

(* A scan is shared by the requests of five seconds.                       *)
Scans == {MempoolCoins} \cup ({cache} \ {None})

(* pickTokenUtxos: the fewest, largest first.                              *)
LargestFirst(picked, pool) ==
  /\ TokensIn(picked) >= Amount
  /\ \A c \in picked, d \in pool \ picked : c.token >= d.token
  /\ \A c \in picked : (\A d \in picked : c.token <= d.token) =>
                         TokensIn(picked \ {c}) < Amount

(* buildAirdropChunk: the transactions it may build, none if the coins do  *)
(* not suffice.                                                            *)
InputSets(coins) ==
  {picked \cup {fee} :
     picked \in {P \in SUBSET TokenCoins(coins) : LargestFirst(P, TokenCoins(coins))},
     fee \in {c \in coins : c.token = 0}}

BuildChunk(a, k, coins) == [a : {a}, k : {k}, ins : InputSets(coins)]

----------------------------------------------------------------------------
Init ==
  /\ airdrops = [a \in Airdrop |-> [state |-> "absent", snap |-> 0, list |-> 0]]
  /\ txs = [a \in Airdrop |-> [k \in Chunk |-> [state |-> "pending", txid |-> NoTx,
                                                reason |-> "none"]]]
  /\ holders = 0 /\ indexed = StartCoins
  /\ req = [r \in Request |-> Idle] /\ cache = None
  /\ tab = [a \in Airdrop |-> NoTx]
  /\ accepted = {} /\ mined = {} /\ settled = {}
  /\ arrived = {}
  /\ faults = 0 /\ crashes = 0 /\ broken = {} /\ retried = {}

Goto(r, pc) == req' = [req EXCEPT ![r].pc = pc]

(* The answer of a request; the wizard may have stopped listening.         *)
Answer(r) == req' = [req EXCEPT ![r] = Idle]
Show(r, tx) == tab' = IF req[r].heard THEN [tab EXCEPT ![req[r].a] = tx] ELSE tab

Refuse(r) == Answer(r) /\ UNCHANGED <<database, cache, tab, history>>

Outside == UNCHANGED <<chainview, node, bounds>>

----------------------------------------------------------------------------
(* POST /api/airdrops.                                                     *)

DraftHolders(r, a) ==
  /\ req[r].pc = "idle" /\ airdrops[a].state = "absent"
  /\ \A q \in Request : req[q].a # a
  /\ req' = [req EXCEPT ![r] = NewJob("snapshot", a, NoTx, holders)]
  /\ UNCHANGED <<database, cache, tab, history>> /\ Outside

DraftSnapshot(r) ==
  /\ req[r].pc = "snapshot"
  /\ req' = [req EXCEPT ![r].snap = holders, ![r].pc = "build"]
  /\ UNCHANGED <<database, cache, tab, history>> /\ Outside

DraftBuild(r) ==
  /\ req[r].pc = "build"
  /\ \E scan \in Scans :
       /\ cache' = scan
       /\ LET built == BuildChunk(req[r].a, 0, WalletUtxos(scan))
          IN  \/ \E tx \in built : req' = [req EXCEPT ![r].tx = tx, ![r].pc = "insert"]
              \/ built = {} /\ Answer(r)
  /\ UNCHANGED <<database, tab, history>> /\ Outside

(* createDraft; the partial unique index refuses a second open airdrop.    *)
AnotherOpen(a) ==
  \E b \in Airdrop \ {a} : airdrops[b].state \in OpenStates

DraftInsert(r) ==
  /\ req[r].pc = "insert" /\ ~AnotherOpen(req[r].a)
  /\ airdrops' = [airdrops EXCEPT ![req[r].a] =
                    [state |-> "drafting", snap |-> req[r].snap, list |-> req[r].list]]
  /\ Show(r, req[r].tx) /\ Answer(r)
  /\ UNCHANGED <<txs, cache, history>> /\ Outside

DraftConflict(r) ==
  /\ req[r].pc = "insert" /\ AnotherOpen(req[r].a)
  /\ Refuse(r) /\ Outside

----------------------------------------------------------------------------
(* POST /api/airdrops/[id]/broadcast.                                      *)

(* The wizard posts the chunk it holds, unless it is waiting for an answer.*)
Post(r, a) ==
  /\ req[r].pc = "idle" /\ tab[a] # NoTx
  /\ \A q \in Request : ~(req[q].a = a /\ req[q].heard)
  /\ req' = [req EXCEPT ![r] = NewJob("load", a, tab[a], 0)]
  /\ broken' = IF \E q \in Request : req[q].a = a THEN broken \cup {a} ELSE broken
  /\ UNCHANGED <<database, cache, tab, retried>> /\ Outside

Load(r) ==
  /\ req[r].pc = "load"
  /\ IF airdrops[req[r].a].state \in {"complete", "failed"} THEN Answer(r)
     ELSE Goto(r, "check")
  /\ UNCHANGED <<database, cache, tab, history>> /\ Outside

Row(r) == txs[req[r].a][req[r].k]

Check(r) ==
  /\ req[r].pc = "check"
  /\ IF Row(r).state = "broadcast" THEN Answer(r) ELSE Goto(r, "send")
  /\ UNCHANGED <<database, cache, tab, history>> /\ Outside

(* A chunk sent although its row says failed: a retry.                     *)
NoteSend(r) ==
  /\ retried' = IF Row(r).state = "failed" THEN retried \cup {req[r].a} ELSE retried
  /\ UNCHANGED broken

Acceptable(tx) == tx \notin accepted /\ tx.ins \cap Spent(accepted) = {}

(* sendrawtransaction accepts the transaction, or rejects it.              *)
SendAccepted(r) ==
  /\ req[r].pc = "send" /\ Acceptable(req[r].tx)
  /\ accepted' = accepted \cup {req[r].tx} /\ Goto(r, "mark")
  /\ NoteSend(r)
  /\ UNCHANGED <<database, chainview, cache, tab, mined, arrived, settled, bounds>>

SendRejected(r) ==
  /\ req[r].pc = "send" /\ ~Acceptable(req[r].tx)
  /\ Goto(r, "markFail") /\ NoteSend(r)
  /\ UNCHANGED <<database, cache, tab>> /\ Outside

(* The node's policy turns a valid transaction away.                       *)
SendRefused(r) ==
  /\ req[r].pc = "send" /\ Acceptable(req[r].tx) /\ faults < MaxFaults
  /\ faults' = faults + 1
  /\ Goto(r, "markFail") /\ NoteSend(r)
  /\ UNCHANGED <<database, chainview, cache, tab, node, crashes>>

(* Or it accepts, and the call times out.                                  *)
SendTimesOut(r) ==
  /\ req[r].pc = "send" /\ Acceptable(req[r].tx) /\ faults < MaxFaults
  /\ faults' = faults + 1
  /\ accepted' = accepted \cup {req[r].tx} /\ Goto(r, "markFail")
  /\ broken' = broken \cup {req[r].a}
  /\ UNCHANGED <<database, chainview, cache, tab, mined, arrived, settled, crashes,
                 retried>>

----------------------------------------------------------------------------
(* markTxResult.                                                           *)

SetRow(a, k, row) == txs' = [txs EXCEPT ![a][k] = row]

(* Mutant: the gate forgets that no code writes 'signed'.                  *)
MarkableSigned(row) == row.state = "signed"

Markable(row) == row.state \in {"pending", "signed"}

MarkDone(r) ==
  /\ req[r].pc = "mark" /\ Markable(Row(r))
  /\ SetRow(req[r].a, req[r].k,
            [state |-> "broadcast", txid |-> req[r].tx, reason |-> "none"])
  /\ req' = [req EXCEPT ![r].then = "next", ![r].pc = "roll"]
  /\ UNCHANGED <<airdrops, cache, tab, history>> /\ Outside

(* It commits and the connection breaks: the next attempt finds the row    *)
(* its own first attempt wrote.                                            *)
MarkUnsure(r) ==
  /\ req[r].pc = "mark" /\ Markable(Row(r)) /\ faults < MaxFaults
  /\ faults' = faults + 1 /\ broken' = broken \cup {req[r].a}
  /\ SetRow(req[r].a, req[r].k,
            [state |-> "broadcast", txid |-> req[r].tx, reason |-> "none"])
  /\ UNCHANGED <<airdrops, chainview, req, cache, tab, node, crashes, retried>>

(* MarkTxStateConflictError: a 409, and the parent is not recomputed.      *)
MarkConflict(r) ==
  /\ req[r].pc = "mark" /\ ~Markable(Row(r))
  /\ Refuse(r) /\ Outside

(* Three attempts fail: the request goes on as if the row were written.    *)
MarkLost(r) ==
  /\ req[r].pc = "mark" /\ faults < MaxFaults
  /\ faults' = faults + 1 /\ broken' = broken \cup {req[r].a}
  /\ req' = [req EXCEPT ![r].then = "next", ![r].pc = "roll"]
  /\ UNCHANGED <<database, chainview, cache, tab, node, crashes, retried>>

(* The error path overwrites whatever the row says, its txid excepted.     *)
MarkFail(r) ==
  /\ req[r].pc = "markFail"
  /\ SetRow(req[r].a, req[r].k,
            [state |-> "failed", txid |-> Row(r).txid, reason |-> "rejected"])
  /\ req' = [req EXCEPT ![r].then = "fail", ![r].pc = "roll"]
  /\ UNCHANGED <<airdrops, cache, tab, history>> /\ Outside

----------------------------------------------------------------------------
(* recomputeAirdropState: an UPDATE whose sub-select sees the statement's  *)
(* snapshot, so another request may commit between its read and its write. *)

InState(rows, s) == {k \in Chunk : rows[k].state = s}

(* Mutant: complete as soon as nothing is pending.                         *)
RolledLoose(rows) ==
  LET sent == InState(rows, "broadcast")
      failed == InState(rows, "failed")
  IN  IF failed = Chunk THEN "failed"
      ELSE IF sent \cup failed = Chunk THEN "complete"
      ELSE IF sent # {} THEN "broadcasting"
      ELSE "signing"

Rolled(rows) ==
  LET sent == InState(rows, "broadcast")
      failed == InState(rows, "failed")
  IN  IF sent = Chunk THEN "complete"
      ELSE IF failed = Chunk THEN "failed"
      ELSE IF failed # {} /\ sent # {} THEN "partial"
      ELSE IF sent # {} THEN "broadcasting"
      ELSE "signing"

RollRead(r) ==
  /\ req[r].pc = "roll"
  /\ req' = [req EXCEPT ![r].rolled = Rolled(txs[req[r].a]), ![r].pc = "rolled"]
  /\ UNCHANGED <<database, cache, tab, history>> /\ Outside

HasNext(k) == k + 1 < Count

Unique(r) == req[r].rolled \in OpenStates => ~AnotherOpen(req[r].a)

RollWrite(r) ==
  /\ req[r].pc = "rolled" /\ Unique(r)
  /\ airdrops' = [airdrops EXCEPT ![req[r].a].state = req[r].rolled]
  /\ \/ /\ req[r].then = "fail" /\ Answer(r) /\ UNCHANGED tab
     \/ /\ req[r].then = "halted" /\ Show(r, NoTx) /\ Answer(r)
     \/ /\ req[r].then = "next"
        /\ IF HasNext(req[r].k) /\ req[r].rolled # "failed"
             THEN /\ req' = [req EXCEPT ![r].rolled = "none", ![r].pc = "fresh"]
                  /\ UNCHANGED tab
             ELSE Show(r, NoTx) /\ Answer(r)
  /\ UNCHANGED <<txs, cache, history>> /\ Outside

(* Re-opening the airdrop beside another open one violates the index: 500. *)
RollConflict(r) ==
  /\ req[r].pc = "rolled" /\ ~Unique(r)
  /\ broken' = broken \cup {req[r].a}
  /\ Answer(r)
  /\ UNCHANGED <<database, cache, tab, retried>> /\ Outside

----------------------------------------------------------------------------
(* The next chunk.                                                         *)

CheckFresh(r) ==
  /\ req[r].pc = "fresh"
  /\ Goto(r, IF holders > airdrops[req[r].a].snap THEN "halt" ELSE "next")
  /\ UNCHANGED <<database, cache, tab, history>> /\ Outside

(* Mutant: the chunk just sent is built again.                             *)
SameIdx(k) == k

NextIdx(k) == k + 1

(* Mutant: the chunk just sent is halted with the rest.                    *)
HaltedFromSent(rows, from) ==
  [k \in Chunk |-> IF k >= from - 1 /\ Markable(rows[k])
     THEN [rows[k] EXCEPT !.state = "failed", !.reason = "halted"] ELSE rows[k]]

(* markRemainingTxsSnapshotHalted.                                         *)
HaltedRows(rows, from) ==
  [k \in Chunk |-> IF k >= from /\ Markable(rows[k])
     THEN [rows[k] EXCEPT !.state = "failed", !.reason = "halted"] ELSE rows[k]]

Halt(r) ==
  /\ req[r].pc = "halt"
  /\ txs' = [txs EXCEPT ![req[r].a] = HaltedRows(@, NextIdx(req[r].k))]
  /\ req' = [req EXCEPT ![r].then = "halted", ![r].pc = "roll"]
  /\ UNCHANGED <<airdrops, cache, tab, history>> /\ Outside

(* Without a next chunk the wizard leaves for the receipt page.            *)
BuildNext(r) ==
  /\ req[r].pc = "next"
  /\ \E scan \in Scans :
       /\ cache' = scan
       /\ LET built == BuildChunk(req[r].a, NextIdx(req[r].k), WalletUtxos(scan))
          IN  \/ \E tx \in built : Show(r, tx)
              \/ built = {} /\ Show(r, NoTx)
  /\ Answer(r)
  /\ UNCHANGED <<database, history>> /\ Outside

----------------------------------------------------------------------------
(* Failures.                                                               *)

InFlight == {r \in Request : req[r].pc # "idle"}

(* Requests that may have sent without having recorded everything.         *)
Unfinished == {r \in Request : req[r].pc \in LatePcs}

(* Any other statement of a request fails: 500.                            *)
Fail(r) ==
  /\ req[r].pc \notin {"idle", "mark"} /\ faults < MaxFaults
  /\ faults' = faults + 1
  /\ broken' = IF r \in Unfinished THEN broken \cup {req[r].a} ELSE broken
  /\ Answer(r)
  /\ UNCHANGED <<database, chainview, cache, tab, node, crashes, retried>>

(* The next chunk's UTXO scan fails: the answer has no chunk.              *)
ScanFails(r) ==
  /\ req[r].pc = "next" /\ faults < MaxFaults
  /\ faults' = faults + 1
  /\ Show(r, NoTx) /\ Answer(r)
  /\ UNCHANGED <<database, chainview, cache, node, crashes, history>>

Crash ==
  /\ crashes < MaxCrashes /\ InFlight # {}
  /\ crashes' = crashes + 1
  /\ broken' = broken \cup {req[r].a : r \in Unfinished}
  /\ req' = [r \in Request |-> Idle] /\ cache' = None
  /\ UNCHANGED <<database, chainview, tab, node, faults, retried>>

(* The connection breaks: the wizard sees an error, the server works on.   *)
LoseAnswer(r) ==
  /\ req[r].heard /\ faults < MaxFaults
  /\ faults' = faults + 1
  /\ req' = [req EXCEPT ![r].heard = FALSE]
  /\ UNCHANGED <<database, chainview, cache, tab, node, crashes, history>>

(* The sender reloads or leaves the page; nothing rebuilds its chunk.      *)
Leave(a) ==
  /\ tab[a] # NoTx
  /\ tab' = [tab EXCEPT ![a] = NoTx]
  /\ req' = [r \in Request |-> IF req[r].a = a THEN [req[r] EXCEPT !.heard = FALSE]
                               ELSE req[r]]
  /\ UNCHANGED <<database, cache, history>> /\ Outside

----------------------------------------------------------------------------
(* The world.                                                              *)

Receive(c) ==
  /\ c \notin arrived
  /\ arrived' = arrived \cup {c}
  /\ UNCHANGED <<database, chainview, req, cache, tab, accepted, mined, settled, bounds,
                 history>>

Mine ==
  /\ mined # accepted \/ settled # arrived
  /\ mined' = accepted /\ settled' = arrived
  /\ UNCHANGED <<database, chainview, req, cache, tab, accepted, arrived, bounds, history>>

(* Another user's request scans the mempool into the shared cache.         *)
ScanForOthers ==
  /\ cache # MempoolCoins /\ cache' = MempoolCoins
  /\ UNCHANGED <<database, chainview, req, tab, node, bounds, history>>

(* sync-tail brings live_token_utxo up to the blocks.                      *)
ConfirmedTokens ==
  TokenCoins(StartCoins \cup UNION {ChangeOf(tx) : tx \in mined}) \ Spent(mined)

Index ==
  /\ indexed # ConfirmedTokens /\ indexed' = ConfirmedTokens
  /\ UNCHANGED <<database, holders, req, cache, tab, node, bounds, history>>

(* sync-tail or sync-enrich rewrites the recipient category's holders.     *)
HoldersMove ==
  /\ holders < MaxSnapshot /\ holders' = holders + 1
  /\ UNCHANGED <<database, indexed, req, cache, tab, node, bounds, history>>

----------------------------------------------------------------------------
Draft(r) ==
  (\E a \in Airdrop : DraftHolders(r, a)) \/ DraftSnapshot(r) \/ DraftBuild(r)
    \/ DraftInsert(r) \/ DraftConflict(r)

Broadcast(r) ==
  \/ Load(r) \/ Check(r) \/ SendAccepted(r) \/ SendRejected(r) \/ SendRefused(r)
  \/ SendTimesOut(r) \/ MarkDone(r) \/ MarkUnsure(r) \/ MarkConflict(r) \/ MarkLost(r)
  \/ MarkFail(r) \/ RollRead(r) \/ RollWrite(r) \/ RollConflict(r) \/ CheckFresh(r) \/ Halt(r)
  \/ BuildNext(r)

Sender == \E a \in Airdrop : Leave(a) \/ \E r \in Request : Post(r, a)

Trouble == Crash \/ \E r \in Request : Fail(r) \/ ScanFails(r) \/ LoseAnswer(r)

World == (\E c \in Plain : Receive(c)) \/ Mine \/ ScanForOthers \/ Index \/ HoldersMove

Next == (\E r \in Request : Draft(r) \/ Broadcast(r)) \/ Sender \/ Trouble \/ World

Spec == Init /\ [][Next]_vars

----------------------------------------------------------------------------
Paid(a) == {tx.k : tx \in {t \in accepted : t.a = a}}
Recorded(a) == InState(txs[a], "broadcast")

(* Through retries, duplicates, crashes and snapshot halts an airdrop pays *)
(* its chunks in order and none twice, and records no chunk as paid that   *)
(* the node has not accepted.                                              *)
Payouts ==
  INSTANCE PayoutLedger WITH
    payments <- [a \in Airdrop |-> [k \in Chunk |->
                   Cardinality({tx \in accepted : tx.a = a /\ tx.k = k})]],
    claimed <- [a \in Airdrop |-> Recorded(a)]

LedgerKept == Payouts!Spec

(* A receipt that says 'complete' means every chunk was accepted, even     *)
(* when the state was computed from rows read before another request's     *)
(* write (recomputeAirdropState).                                          *)
CompleteMeansPaid ==
  \A a \in Airdrop : airdrops[a].state = "complete" => Paid(a) = Chunk

(* Between requests, the rows of an airdrop and its state tell what was    *)
(* paid, unless a fault cut a request short, requests overlapped or a      *)
(* failed chunk was sent again.                                            *)
Quiet(a) == \A r \in Request : req[r].a # a

ShownMatchesChain ==
  \A a \in Airdrop \ (broken \cup retried) : Quiet(a) =>
    /\ Recorded(a) = Paid(a)
    /\ airdrops[a].state = "complete" <=> Paid(a) = Chunk
    /\ airdrops[a].state \in {"partial", "broadcasting"} <=> Paid(a) \notin {{}, Chunk}

(* Of one sender's airdrops at most one is being drafted or signed, also   *)
(* when a later recompute takes an airdrop that had begun to broadcast     *)
(* back to 'signing'.                                                      *)
OneOpen ==
  \A a, b \in Airdrop :
    /\ airdrops[a].state \in {"drafting", "signing"}
    /\ airdrops[b].state \in {"drafting", "signing"}
    => a = b

(* A chunk halted because the holders moved is never paid                  *)
(* (markRemainingTxsSnapshotHalted): not by a request already in flight,   *)
(* not by a later retry.                                                   *)
HaltedNeverPaid ==
  \A a \in Airdrop, k \in Chunk : txs[a][k].reason = "halted" => k \notin Paid(a)

----------------------------------------------------------------------------
(* What comments and documents of the repository say and the code does not *)
(* do: TLC refutes each when it is named in AirdropFaults.cfg (README 6).  *)

(* A failed chunk can be sent again: the receipt offers a retry, and once  *)
(* the retry is accepted and answered, the row says so.                    *)
RetryRecorded ==
  \A a \in Airdrop \ broken : Quiet(a) => Recorded(a) = Paid(a)

(* The chunk the wizard is handed spends coins that are there to spend.    *)
HandedOver(a) == tab'[a] # NoTx /\ tab'[a] # tab[a]

FreshCoins ==
  [][\A a \in Airdrop : HandedOver(a) => tab'[a].ins \cap Spent(accepted) = {}]_vars

(* No chunk goes to a recipient list that token_holders has moved past.    *)
SentFresh ==
  [][\A tx \in accepted' \ accepted : airdrops[tx.a].list = holders]_vars

=============================================================================
