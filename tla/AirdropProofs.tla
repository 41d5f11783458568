---------------------------- MODULE AirdropProofs ---------------------------
(***************************************************************************)
(* Proofs about the airdrop flow, for any number of airdrops, chunks,      *)
(* requests, faults and crashes.                                           *)
(*                                                                         *)
(* The argument.  A chunk's transaction is built once: chunk 0 by the      *)
(* draft, chunk k+1 by the one request that CARRIES the airdrop on, having *)
(* had chunk k accepted.  The node accepts a transaction once, so at most  *)
(* one request carries, and all the transactions there are belong to the   *)
(* chunks up to the one it carries.  Order says this and is inductive.     *)
(* From it follow that payments come in order and never twice, that what   *)
(* is recorded is paid, and that a halted airdrop, whose carrier gave up,  *)
(* has nothing left to send.  Last, an airdrop nothing went wrong with has *)
(* one request at a time, and rows and state that fit what was paid.       *)
(***************************************************************************)
EXTENDS Airdrop, FiniteSetTheorems, TLAPS

(* Requests and rows are records of their fields.                          *)
JobFields(j) ==
  j = [pc |-> j.pc, a |-> j.a, k |-> j.k, tx |-> j.tx, heard |-> j.heard,
       list |-> j.list, snap |-> j.snap, rolled |-> j.rolled, then |-> j.then]

RowFields(w) == w = [state |-> w.state, txid |-> w.txid, reason |-> w.reason]

DraftFields(d) == d = [state |-> d.state, snap |-> d.snap, list |-> d.list]

Shape ==
  /\ req = [r \in Request |-> req[r]]
  /\ \A r \in Request : JobFields(req[r])
  /\ tab = [a \in Airdrop |-> tab[a]]
  /\ airdrops = [a \in Airdrop |-> airdrops[a]]
  /\ \A a \in Airdrop : DraftFields(airdrops[a])
  /\ txs = [a \in Airdrop |-> [k \in Chunk |-> txs[a][k]]]
  /\ \A a \in Airdrop, k \in Chunk : RowFields(txs[a][k])

Posted == EarlyPcs \cup LatePcs

(* What a request knows at each of its statements; d is the table airdrops. *)
JobOk(j, d) ==
  /\ j.pc \in {"idle"} \cup DraftPcs \cup Posted
  /\ j.pc = "idle" => j = Idle
  /\ j.pc # "idle" => j.a \in Airdrop /\ j.k \in Chunk
  /\ j.pc \in DraftPcs => j.k = 0 /\ d[j.a].state = "absent"
  /\ j.pc \in {"snapshot", "build"} => j.tx = NoTx
  /\ j.pc = "insert" => j.tx # NoTx
  /\ j.pc \in Posted => d[j.a].state # "absent" /\ j.tx # NoTx /\ j.tx.k = j.k
  /\ j.pc \in {"fresh", "halt", "next"} => j.k + 1 < Count
  /\ j.pc = "rolled" => j.rolled \in AirdropStates

(* A draft has its airdrop to itself.                                      *)
Alone(r) == req[r].pc \in DraftPcs => \A q \in Request : req[q].a = req[r].a => q = r

JobInv == \A r \in Request : JobOk(req[r], airdrops) /\ Alone(r)

(* Before its draft is inserted, an airdrop has nothing.                   *)
DraftInv(a) ==
  airdrops[a].state = "absent" =>
    /\ tab[a] = NoTx
    /\ \A tx \in accepted : tx.a # a
    /\ \A k \in Chunk : txs[a][k].reason = "none"

(* The transactions of an airdrop that there are.                          *)
Held(a) ==
  ({tx \in accepted : tx.a = a} \cup {tab[a]}
     \cup {req[r].tx : r \in {q \in Request : req[q].a = a}}) \ {NoTx}

(* A request that has had its chunk accepted and may build the next.       *)
Carrying(j) ==
  \/ j.pc \in {"mark", "fresh", "halt", "next"}
  \/ j.pc \in {"roll", "rolled"} /\ j.then = "next"

Carries(r) == Carrying(req[r])

HeldInv(a) ==
  \A s \in Held(a) :
    /\ s.a = a /\ s.k \in Chunk
    /\ \A t \in Held(a) : s.k = t.k => s = t
    /\ \A j \in Chunk : j < s.k => \E u \in accepted : u.a = a /\ u.k = j

CarryInv(r) ==
  Carries(r) =>
    /\ req[r].tx \in accepted
    /\ \A t \in Held(req[r].a) : t.k <= req[r].k
    /\ \A q \in Request : Carries(q) /\ req[q].a = req[r].a => q = r

Order ==
  /\ NoTx \notin accepted
  /\ \A tx \in accepted : tx.a \in Airdrop
  /\ \A a \in Airdrop : HeldInv(a)
  /\ \A r \in Request : CarryInv(r)

(* What is recorded is paid.                                               *)
RowsInv == \A a \in Airdrop : Recorded(a) \subseteq Paid(a)

(* A halted airdrop has nothing left to send.                              *)
HaltInv ==
  \A a \in Airdrop, k \in Chunk : txs[a][k].reason = "halted" =>
    /\ k \notin Paid(a)
    /\ Held(a) \subseteq accepted
    /\ \A r \in Request : req[r].a = a => ~Carries(r)

(* A state read or written as 'complete' was paid in full.                 *)
CompleteInv ==
  /\ \A a \in Airdrop : airdrops[a].state = "complete" => Paid(a) = Chunk
  /\ \A r \in Request : req[r].pc # "idle" /\ req[r].rolled = "complete" =>
       Paid(req[r].a) = Chunk

IInv ==
  /\ Shape
  /\ JobInv
  /\ \A a \in Airdrop : DraftInv(a)
  /\ Order /\ RowsInv /\ HaltInv /\ CompleteInv

----------------------------------------------------------------------------
(* What is built belongs to its chunk.                                     *)
LEMMA BuiltTx ==
  ASSUME NEW a \in Airdrop, NEW k, NEW coins, NEW tx \in BuildChunk(a, k, coins)
  PROVE  tx.a = a /\ tx.k = k /\ tx # NoTx
<1>1. tx.a = a /\ tx.k = k
  BY DEF BuildChunk
<1> QED  BY <1>1, AirdropAssumption DEF NoTx

(* What one step of one request leaves alone.                              *)

LEMMA StepFields ==
  ASSUME Shape, NEW r \in Request, NEW j, JobFields(j), req' = [req EXCEPT ![r] = j]
  PROVE  /\ req'[r] = j
         /\ \A q \in Request : q # r => req'[q] = req[q]
         /\ req' = [q \in Request |-> req'[q]]
         /\ \A q \in Request : JobFields(req'[q])
BY DEF Shape

LEMMA StepJobs ==
  ASSUME Shape, JobInv, NEW r \in Request, NEW j, JobFields(j),
         req' = [req EXCEPT ![r] = j],
         \A a \in Airdrop : airdrops'[a].state = "absent" <=> airdrops[a].state = "absent",
         JobOk(j, airdrops),
         j.pc \in DraftPcs => \A q \in Request : q # r => req[q].a # j.a,
         j.pc # "idle" => \A q \in Request :
                            q # r /\ req[q].pc \in DraftPcs => req[q].a # j.a
  PROVE  JobInv'
<1>1. /\ req'[r] = j
      /\ \A q \in Request : q # r => req'[q] = req[q]
  BY StepFields
<1>2. ASSUME NEW q \in Request  PROVE JobOk(req'[q], airdrops')
  <2>1. JobOk(req'[q], airdrops)
    BY <1>1 DEF JobInv
  <2> QED  BY <2>1 DEF JobOk, DraftPcs, Posted, EarlyPcs, LatePcs
<1>3. ASSUME NEW q \in Request  PROVE Alone(q)'
  <2> SUFFICES ASSUME req'[q].pc \in DraftPcs, NEW p \in Request, req'[p].a = req'[q].a
               PROVE  p = q
    BY DEF Alone
  <2>1. CASE q = r /\ p # r  BY <2>1, <1>1
  <2>2. CASE q # r /\ p = r
    <3>1. req[q].a \in Airdrop
      BY <2>2, <1>1 DEF JobInv, JobOk, DraftPcs
    <3>2. j.pc = "idle" => j.a = None
      BY DEF JobOk, Idle
    <3> QED  BY <2>2, <1>1, <3>1, <3>2, AirdropAssumption
  <2>3. CASE q # r /\ p # r  BY <2>3, <1>1 DEF JobInv, Alone
  <2> QED  BY <2>1, <2>2, <2>3
<1> QED  BY <1>2, <1>3 DEF JobInv

(* The changes the statements make to a request.                           *)
Job(j, pc, tx, heard, snap, rolled, then) ==
  [pc |-> pc, a |-> j.a, k |-> j.k, tx |-> tx, heard |-> heard,
   list |-> j.list, snap |-> snap, rolled |-> rolled, then |-> then]

LEMMA JobIs ==
  ASSUME NEW i, NEW j, NEW pc, NEW tx, NEW heard, NEW snap, NEW rolled, NEW then,
         j = Job(i, pc, tx, heard, snap, rolled, then)
  PROVE  /\ JobFields(j)
         /\ j.pc = pc /\ j.a = i.a /\ j.k = i.k /\ j.tx = tx
         /\ j.rolled = rolled /\ j.then = then
BY DEF Job, JobFields

LEMMA AtPc ==
  ASSUME Shape, NEW r \in Request, NEW pc,
         req' = [req EXCEPT ![r].pc = pc]
  PROVE  req' = [req EXCEPT ![r] = Job(req[r], pc, req[r].tx, req[r].heard, req[r].snap, req[r].rolled, req[r].then)]
<1>1. req' = [req EXCEPT ![r] = [req[r] EXCEPT !.pc = pc]]
  BY DEF Shape, JobFields
<1>2. ASSUME NEW j, NEW q, JobFields(q), j = [q EXCEPT !.pc = pc]
      PROVE  j = Job(q, pc, q.tx, q.heard, q.snap, q.rolled, q.then)
  BY <1>2 DEF Job, JobFields
<1>3. [req[r] EXCEPT !.pc = pc] = Job(req[r], pc, req[r].tx, req[r].heard, req[r].snap, req[r].rolled, req[r].then)
  BY <1>2 DEF Shape
<1> QED  BY <1>1, <1>3

LEMMA AtTx ==
  ASSUME Shape, NEW r \in Request, NEW tx, NEW pc,
         req' = [req EXCEPT ![r].tx = tx, ![r].pc = pc]
  PROVE  req' = [req EXCEPT ![r] = Job(req[r], pc, tx, req[r].heard, req[r].snap, req[r].rolled, req[r].then)]
<1>1. req' = [req EXCEPT ![r] = [req[r] EXCEPT !.tx = tx, !.pc = pc]]
  BY DEF Shape, JobFields
<1>2. ASSUME NEW j, NEW q, JobFields(q), j = [q EXCEPT !.tx = tx, !.pc = pc]
      PROVE  j = Job(q, pc, tx, q.heard, q.snap, q.rolled, q.then)
  BY <1>2 DEF Job, JobFields
<1>3. [req[r] EXCEPT !.tx = tx, !.pc = pc] = Job(req[r], pc, tx, req[r].heard, req[r].snap, req[r].rolled, req[r].then)
  BY <1>2 DEF Shape
<1> QED  BY <1>1, <1>3

LEMMA AtSnap ==
  ASSUME Shape, NEW r \in Request, NEW snap, NEW pc,
         req' = [req EXCEPT ![r].snap = snap, ![r].pc = pc]
  PROVE  req' = [req EXCEPT ![r] = Job(req[r], pc, req[r].tx, req[r].heard, snap, req[r].rolled, req[r].then)]
<1>1. req' = [req EXCEPT ![r] = [req[r] EXCEPT !.snap = snap, !.pc = pc]]
  BY DEF Shape, JobFields
<1>2. ASSUME NEW j, NEW q, JobFields(q), j = [q EXCEPT !.snap = snap, !.pc = pc]
      PROVE  j = Job(q, pc, q.tx, q.heard, snap, q.rolled, q.then)
  BY <1>2 DEF Job, JobFields
<1>3. [req[r] EXCEPT !.snap = snap, !.pc = pc]
      = Job(req[r], pc, req[r].tx, req[r].heard, snap, req[r].rolled, req[r].then)
  BY <1>2 DEF Shape
<1> QED  BY <1>1, <1>3

LEMMA AtThen ==
  ASSUME Shape, NEW r \in Request, NEW goal, NEW pc,
         req' = [req EXCEPT ![r].then = goal, ![r].pc = pc]
  PROVE  req' = [req EXCEPT ![r] = Job(req[r], pc, req[r].tx, req[r].heard, req[r].snap, req[r].rolled, goal)]
<1>1. req' = [req EXCEPT ![r] = [req[r] EXCEPT !.then = goal, !.pc = pc]]
  BY DEF Shape, JobFields
<1>2. ASSUME NEW j, NEW q, JobFields(q), j = [q EXCEPT !.then = goal, !.pc = pc]
      PROVE  j = Job(q, pc, q.tx, q.heard, q.snap, q.rolled, goal)
  BY <1>2 DEF Job, JobFields
<1>3. [req[r] EXCEPT !.then = goal, !.pc = pc]
      = Job(req[r], pc, req[r].tx, req[r].heard, req[r].snap, req[r].rolled, goal)
  BY <1>2 DEF Shape
<1> QED  BY <1>1, <1>3

LEMMA AtRolled ==
  ASSUME Shape, NEW r \in Request, NEW rolled, NEW pc,
         req' = [req EXCEPT ![r].rolled = rolled, ![r].pc = pc]
  PROVE  req' = [req EXCEPT ![r] = Job(req[r], pc, req[r].tx, req[r].heard, req[r].snap, rolled, req[r].then)]
<1>1. req' = [req EXCEPT ![r] = [req[r] EXCEPT !.rolled = rolled, !.pc = pc]]
  BY DEF Shape, JobFields
<1>2. ASSUME NEW j, NEW q, JobFields(q), j = [q EXCEPT !.rolled = rolled, !.pc = pc]
      PROVE  j = Job(q, pc, q.tx, q.heard, q.snap, rolled, q.then)
  BY <1>2 DEF Job, JobFields
<1>3. [req[r] EXCEPT !.rolled = rolled, !.pc = pc]
      = Job(req[r], pc, req[r].tx, req[r].heard, req[r].snap, rolled, req[r].then)
  BY <1>2 DEF Shape
<1> QED  BY <1>1, <1>3

LEMMA NewJobIs ==
  ASSUME NEW j, NEW pc, NEW a, NEW tx, NEW list, j = NewJob(pc, a, tx, list)
  PROVE  /\ JobFields(j)
         /\ j.pc = pc /\ j.a = a /\ j.k = tx.k /\ j.tx = tx
         /\ j.rolled = "none" /\ j.then = "none"
<1>1. JobFields(Idle) /\ Idle.rolled = "none" /\ Idle.then = "none"
  BY DEF JobFields, Idle
<1>2. j = [pc |-> pc, a |-> a, k |-> tx.k, tx |-> tx, heard |-> TRUE,
           list |-> list, snap |-> Idle.snap, rolled |-> Idle.rolled, then |-> Idle.then]
  BY <1>1 DEF JobFields, NewJob
<1> QED  BY <1>1, <1>2 DEF JobFields

(* Nothing is built and nothing is sent: the order of payments stands.     *)
LEMMA CalmOrder ==
  ASSUME Order, accepted' = accepted,
         \A a \in Airdrop : Held(a)' \subseteq Held(a),
         \A r \in Request : Carries(r)' =>
           /\ Carries(r) /\ req[r].a \in Airdrop
           /\ req'[r].a = req[r].a /\ req'[r].k = req[r].k /\ req'[r].tx = req[r].tx
  PROVE  Order'
<1>1. ASSUME NEW a \in Airdrop  PROVE HeldInv(a)'
  BY DEF Order, HeldInv
<1>2. ASSUME NEW r \in Request  PROVE CarryInv(r)'
  BY DEF Order, CarryInv
<1> QED  BY <1>1, <1>2 DEF Order

LEMMA CalmHalt ==
  ASSUME HaltInv, accepted' = accepted,
         \A a \in Airdrop : Held(a)' \subseteq Held(a),
         \A a \in Airdrop, k \in Chunk :
           txs'[a][k].reason = "halted" => txs[a][k].reason = "halted",
         \A r \in Request : Carries(r)' => Carries(r) /\ req'[r].a = req[r].a
  PROVE  HaltInv'
BY DEF HaltInv, Paid

LEMMA HeldStep ==
  ASSUME Shape, NEW r \in Request, NEW j, JobFields(j), req' = [req EXCEPT ![r] = j],
         accepted' = accepted,
         \A a \in Airdrop : tab'[a] \in Held(a) \cup {NoTx},
         j.a \in Airdrop => j.tx \in Held(j.a) \cup {NoTx}
  PROVE  \A a \in Airdrop : Held(a)' \subseteq Held(a)
<1>1. /\ req'[r] = j
      /\ \A q \in Request : q # r => req'[q] = req[q]
  BY StepFields
<1>2. SUFFICES ASSUME NEW a \in Airdrop, NEW t \in Held(a)'
               PROVE  t \in Held(a)
  OBVIOUS
<1>3. CASE t \in accepted /\ t.a = a  BY <1>2, <1>3 DEF Held
<1>4. CASE t = tab'[a]  BY <1>2, <1>4 DEF Held
<1>5. CASE \E q \in Request : req'[q].a = a /\ t = req'[q].tx
  BY <1>1, <1>2, <1>5 DEF Held
<1> QED  BY <1>2, <1>3, <1>4, <1>5 DEF Held

(* One request moves on, without building or sending.                      *)
LEMMA Calm ==
  ASSUME IInv, NEW r \in Request, NEW j, JobFields(j), req' = [req EXCEPT ![r] = j],
         accepted' = accepted,
         \A a \in Airdrop : tab'[a] \in Held(a) \cup {NoTx},
         \A a \in Airdrop, k \in Chunk :
           txs'[a][k].reason = "halted" => txs[a][k].reason = "halted",
         j.a \in Airdrop => j.tx \in Held(j.a) \cup {NoTx},
         Carrying(j) => Carries(r) /\ j.a = req[r].a /\ j.k = req[r].k /\ j.tx = req[r].tx
  PROVE  Order' /\ HaltInv'
<1>1. /\ req'[r] = j
      /\ \A q \in Request : q # r => req'[q] = req[q]
  BY StepFields DEF IInv
<1>2. \A a \in Airdrop : Held(a)' \subseteq Held(a)
  BY HeldStep DEF IInv
<1>3. ASSUME NEW q \in Request, Carries(q)'
      PROVE  /\ Carries(q) /\ req[q].a \in Airdrop
             /\ req'[q].a = req[q].a /\ req'[q].k = req[q].k /\ req'[q].tx = req[q].tx
  <2>1. Carries(q) /\ req'[q].a = req[q].a /\ req'[q].k = req[q].k /\ req'[q].tx = req[q].tx
    BY <1>1, <1>3 DEF Carries
  <2>2. req[q].a \in Airdrop
    BY <2>1 DEF Carries, Carrying, IInv, JobInv, JobOk
  <2> QED  BY <2>1, <2>2
<1>4. Order'
  BY <1>2, <1>3, CalmOrder DEF IInv
<1>5. HaltInv'
  BY <1>2, <1>3, CalmHalt DEF IInv
<1> QED  BY <1>4, <1>5

(* A request moves on; tables, page and node stay.                         *)
LEMMA Onward ==
  ASSUME IInv, NEW r \in Request, NEW j, JobFields(j), req' = [req EXCEPT ![r] = j],
         airdrops' = airdrops, txs' = txs, tab' = tab, accepted' = accepted,
         JobOk(j, airdrops),
         j.pc \in DraftPcs => \A q \in Request : q # r => req[q].a # j.a,
         j.pc # "idle" => \A q \in Request :
                            q # r /\ req[q].pc \in DraftPcs => req[q].a # j.a,
         j.a \in Airdrop => j.tx \in Held(j.a) \cup {NoTx},
         Carrying(j) => Carries(r) /\ j.a = req[r].a /\ j.k = req[r].k /\ j.tx = req[r].tx,
         j.pc # "idle" /\ j.rolled = "complete" => Paid(j.a) = Chunk
  PROVE  IInv'
<1>1. /\ req'[r] = j
      /\ \A q \in Request : q # r => req'[q] = req[q]
      /\ req' = [q \in Request |-> req'[q]]
      /\ \A q \in Request : JobFields(req'[q])
  BY StepFields DEF IInv
<1>2. Shape'
  BY <1>1 DEF IInv, Shape
<1>3. JobInv'
  BY StepJobs DEF IInv
<1>4. Order' /\ HaltInv'
  <2>1. \A a \in Airdrop : tab'[a] \in Held(a) \cup {NoTx}  BY DEF Held
  <2> QED  BY <2>1, Calm
<1>8. \A a \in Airdrop : DraftInv(a)'
  BY DEF IInv, DraftInv
<1>9. RowsInv'
  BY DEF IInv, RowsInv, Recorded, InState, Paid
<1>10. CompleteInv'
  <2>1. Paid(j.a)' = Paid(j.a)  BY DEF Paid
  <2> QED  BY <1>1, <2>1 DEF IInv, CompleteInv, Paid
<1> QED  BY <1>2, <1>3, <1>4, <1>8, <1>9, <1>10 DEF IInv

(* A request ends.                                                         *)
LEMMA Ends ==
  ASSUME IInv, NEW r \in Request, Answer(r),
         airdrops' = airdrops, txs' = txs, tab' = tab, accepted' = accepted
  PROVE  IInv'
<1>1. JobFields(Idle)
  BY DEF JobFields, Idle
<1>2. Idle.pc = "idle" /\ Idle.a = None /\ None \notin Airdrop
  BY AirdropAssumption DEF Idle
<1>3. JobOk(Idle, airdrops)
  BY <1>2 DEF JobOk, DraftPcs, Posted, EarlyPcs, LatePcs
<1>4. ~Carrying(Idle) /\ Idle.pc \notin DraftPcs
  BY <1>2 DEF Carrying, DraftPcs
<1>5. req' = [req EXCEPT ![r] = Idle]
  BY DEF Answer
<1> QED  BY <1>1, <1>2, <1>3, <1>4, <1>5, Onward

(* A request goes on with its chunk.                                       *)
LEMMA Forward ==
  ASSUME IInv, NEW r \in Request, req[r].pc \in Posted,
         NEW j, JobFields(j), req' = [req EXCEPT ![r] = j],
         airdrops' = airdrops, txs' = txs, tab' = tab, accepted' = accepted,
         j.pc \in Posted, j.a = req[r].a, j.k = req[r].k, j.tx = req[r].tx,
         j.pc \in {"fresh", "halt", "next"} => j.k + 1 < Count,
         j.pc = "rolled" => j.rolled \in AirdropStates,
         Carrying(j) => Carries(r),
         j.rolled = "complete" => Paid(j.a) = Chunk
  PROVE  IInv'
<1>1. JobOk(req[r], airdrops)
  BY DEF IInv, JobInv
<1>2. JobOk(j, airdrops)
  BY <1>1 DEF JobOk, Posted, EarlyPcs, LatePcs, DraftPcs
<1>3. j.pc \notin DraftPcs /\ j.pc # "idle"
  BY DEF Posted, EarlyPcs, LatePcs, DraftPcs
<1>4. \A q \in Request : q # r /\ req[q].pc \in DraftPcs => req[q].a # j.a
  BY DEF IInv, JobInv, Alone
<1>5. j.a \in Airdrop => j.tx \in Held(j.a) \cup {NoTx}
  BY DEF Held
<1> QED  BY <1>2, <1>3, <1>4, <1>5, Onward

----------------------------------------------------------------------------
(* The draft.                                                              *)

LEMMA DraftHoldersStep ==
  ASSUME IInv, NEW r \in Request, NEW a \in Airdrop, DraftHolders(r, a)
  PROVE  IInv'
<1> DEFINE j == NewJob("snapshot", a, NoTx, holders)
<1>1. req' = [req EXCEPT ![r] = j] /\ airdrops[a].state = "absent" /\ \A q \in Request : req[q].a # a
  BY DEF DraftHolders
<1>2. JobFields(j) /\ j.pc = "snapshot" /\ j.a = a /\ j.k = 0 /\ j.tx = NoTx
      /\ j.rolled = "none" /\ j.then = "none"
  BY NewJobIs DEF NoTx
<1>3. 0 \in Chunk
  BY AirdropAssumption DEF Chunk
<1> HIDE DEF j
<1>4. JobOk(j, airdrops)
  BY <1>1, <1>2, <1>3 DEF JobOk, DraftPcs, Posted, EarlyPcs, LatePcs
<1>5. ~Carrying(j)
  BY <1>2 DEF Carrying
<1>6. UNCHANGED <<airdrops, txs, tab, accepted>>
  BY DEF DraftHolders, database, Outside, node
<1> QED  BY <1>1, <1>2, <1>4, <1>5, <1>6, Onward

LEMMA DraftSnapshotStep ==
  ASSUME IInv, NEW r \in Request, DraftSnapshot(r)
  PROVE  IInv'
<1> DEFINE j == Job(req[r], "build", req[r].tx, req[r].heard, holders, req[r].rolled, req[r].then)
<1>1. JobFields(req[r]) /\ JobOk(req[r], airdrops) /\ Alone(r) /\ req[r].pc = "snapshot"
  BY DEF DraftSnapshot, IInv, Shape, JobInv
<1>2. req' = [req EXCEPT ![r] = j]
  <2>1. Shape /\ req' = [req EXCEPT ![r].snap = holders, ![r].pc = "build"]
    BY DEF DraftSnapshot, IInv
  <2> QED  BY <2>1, AtSnap
<1>3. JobFields(j) /\ j.pc = "build" /\ j.a = req[r].a /\ j.k = req[r].k /\ j.tx = req[r].tx
      /\ j.rolled = req[r].rolled /\ j.then = req[r].then
  BY JobIs
<1> HIDE DEF j
<1>4. JobOk(j, airdrops)
  BY <1>1, <1>3 DEF JobOk, DraftPcs, Posted, EarlyPcs, LatePcs
<1>5. ~Carrying(j)
  BY <1>3 DEF Carrying
<1>6. UNCHANGED <<airdrops, txs, tab, accepted>>
  BY DEF DraftSnapshot, database, Outside, node
<1>7. \A q \in Request : q # r => req[q].a # j.a
  BY <1>1, <1>3 DEF Alone, DraftPcs
<1>8. j.tx = NoTx
  BY <1>1, <1>3 DEF JobOk
<1>9. j.rolled = "complete" => Paid(j.a) = Chunk
  BY <1>1, <1>3 DEF IInv, CompleteInv
<1> QED  BY <1>2, <1>3, <1>4, <1>5, <1>6, <1>7, <1>8, <1>9, Onward

LEMMA DraftConflictStep ==
  ASSUME IInv, NEW r \in Request, DraftConflict(r)
  PROVE  IInv'
BY Ends DEF DraftConflict, Refuse, Outside, database, node

(* The only request of an airdrop with nothing builds its chunk 0.         *)
LEMMA DraftBuildStep ==
  ASSUME IInv, NEW r \in Request, DraftBuild(r)
  PROVE  IInv'
<1>1. CASE Answer(r)
  BY <1>1, Ends DEF DraftBuild, Outside, database, node
<1>2. ASSUME NEW coins, NEW tx \in BuildChunk(req[r].a, 0, coins),
             req' = [req EXCEPT ![r].tx = tx, ![r].pc = "insert"]
      PROVE  IInv'
  <2> DEFINE j == Job(req[r], "insert", tx, req[r].heard, req[r].snap, req[r].rolled, req[r].then)
  <2>0. PICK a : a = req[r].a
    OBVIOUS
  <2>1. JobFields(req[r]) /\ JobOk(req[r], airdrops) /\ Alone(r) /\ req[r].pc = "build"
    BY DEF DraftBuild, IInv, Shape, JobInv
  <2>2. req' = [req EXCEPT ![r] = j]
    BY <1>2, AtTx DEF IInv
  <2>3. JobFields(j) /\ j.pc = "insert" /\ j.a = a /\ j.k = req[r].k /\ j.tx = tx
        /\ j.rolled = req[r].rolled /\ j.then = req[r].then
    BY <2>0, JobIs
  <2>5. a \in Airdrop /\ airdrops[a].state = "absent" /\ req[r].k = 0 /\ req[r].k \in Chunk
        /\ req[r].tx = NoTx
    BY <2>0, <2>1 DEF JobOk, DraftPcs
  <2>4. tx.a = a /\ tx.k = 0 /\ tx # NoTx
    BY <1>2, <2>0, <2>5, BuiltTx
  <2>6. \A q \in Request : q # r => req[q].a # a
    BY <2>0, <2>1 DEF Alone, DraftPcs
  <2>7. UNCHANGED <<airdrops, txs, tab, accepted>>
    BY DEF DraftBuild, database, Outside, node
  <2> HIDE DEF j
  <2>8. /\ req'[r] = j
        /\ \A q \in Request : q # r => req'[q] = req[q]
        /\ req' = [q \in Request |-> req'[q]]
        /\ \A q \in Request : JobFields(req'[q])
    BY <2>2, <2>3, StepFields DEF IInv
  <2>9. Shape'
    BY <2>7, <2>8 DEF IInv, Shape
  <2>10. JobInv'
    <3>1. JobOk(j, airdrops)
      BY <2>3, <2>4, <2>5 DEF JobOk, DraftPcs, Posted, EarlyPcs, LatePcs
    <3> QED  BY <2>2, <2>3, <2>6, <2>7, <3>1, StepJobs DEF IInv
  <2>11. Held(a)' = {tx}
    <3>1. DraftInv(a)  BY <2>5 DEF IInv
    <3>2. tab[a] = NoTx /\ \A u \in accepted : u.a # a  BY <2>5, <3>1 DEF DraftInv
    <3> QED  BY <2>3, <2>4, <2>6, <2>7, <2>8, <3>2 DEF Held
  <2>12. \A b \in Airdrop \ {a} : Held(b)' = Held(b)
    BY <2>0, <2>3, <2>7, <2>8 DEF Held
  <2>13. \A q \in Request : Carries(q)' =>
           q # r /\ Carries(q) /\ req'[q] = req[q] /\ req[q].a \in Airdrop \ {a}
    <3> SUFFICES ASSUME NEW q \in Request, Carries(q)'
                 PROVE  q # r /\ Carries(q) /\ req'[q] = req[q] /\ req[q].a \in Airdrop \ {a}
      OBVIOUS
    <3>1. q # r  BY <2>3, <2>8 DEF Carries, Carrying
    <3>2. Carries(q) /\ req'[q] = req[q]  BY <2>8, <3>1 DEF Carries
    <3>3. req[q].a \in Airdrop  BY <3>2 DEF Carries, Carrying, IInv, JobInv, JobOk
    <3> QED  BY <2>6, <3>1, <3>2, <3>3
  <2>14. Order'
    <3>1. ASSUME NEW b \in Airdrop  PROVE HeldInv(b)'
      <4>1. CASE b = a
        <5>1. \A i \in Chunk : ~(i < tx.k)
          BY <2>4, AirdropAssumption DEF Chunk
        <5>2. \A t \in Held(b)' : t = tx
          BY <2>11, <4>1
        <5>3. tx.k \in Chunk /\ tx.a = b
          BY <2>4, <2>5, <4>1
        <5> QED  BY <5>1, <5>2, <5>3 DEF HeldInv
      <4>2. CASE b # a
        BY <2>7, <2>12, <4>2 DEF IInv, Order, HeldInv
      <4> QED  BY <4>1, <4>2
    <3>2. ASSUME NEW q \in Request  PROVE CarryInv(q)'
      BY <2>7, <2>12, <2>13 DEF IInv, Order, CarryInv
    <3> QED  BY <2>7, <3>1, <3>2 DEF IInv, Order
  <2>15. HaltInv'
    <3>1. \A k \in Chunk : txs[a][k].reason = "none"
      BY <2>5 DEF IInv, DraftInv
    <3> QED  BY <2>7, <2>12, <2>13, <3>1 DEF IInv, HaltInv, Paid
  <2>16. \A b \in Airdrop : DraftInv(b)'
    BY <2>7 DEF IInv, DraftInv
  <2>17. RowsInv'
    BY <2>7 DEF IInv, RowsInv, Recorded, InState, Paid
  <2>18. CompleteInv'
    <3>1. \A b : Paid(b)' = Paid(b)  BY <2>7 DEF Paid
    <3> QED  BY <2>0, <2>1, <2>3, <2>7, <2>8, <3>1 DEF IInv, CompleteInv
  <2> QED  BY <2>9, <2>10, <2>14, <2>15, <2>16, <2>17, <2>18 DEF IInv
<1> QED  BY <1>1, <1>2 DEF DraftBuild

(* The draft is inserted: the first rows of its airdrop that count.        *)
LEMMA DraftInsertStep ==
  ASSUME IInv, NEW r \in Request, DraftInsert(r)
  PROVE  IInv'
<1>0. PICK a : a = req[r].a
  OBVIOUS
<1>1. /\ req[r].pc = "insert" /\ JobOk(req[r], airdrops) /\ Alone(r)
      /\ airdrops' = [airdrops EXCEPT ![a] =
                       [state |-> "drafting", snap |-> req[r].snap, list |-> req[r].list]]
      /\ tab' = tab \/ tab' = [tab EXCEPT ![a] = req[r].tx]
      /\ req' = [req EXCEPT ![r] = Idle]
      /\ txs' = txs /\ accepted' = accepted
  BY <1>0 DEF IInv, JobInv, DraftInsert, Show, Answer, Outside, node
<1>2. a \in Airdrop /\ req[r].tx # NoTx
  BY <1>0, <1>1 DEF JobOk
<1>3. \A q \in Request : q # r => req[q].a # a
  BY <1>0, <1>1 DEF Alone, DraftPcs
<1>4. /\ airdrops'[a].state = "drafting" /\ DraftFields(airdrops'[a])
      /\ \A b \in Airdrop \ {a} : airdrops'[b] = airdrops[b]
      /\ airdrops' = [b \in Airdrop |-> airdrops'[b]]
  BY <1>1, <1>2 DEF IInv, Shape, DraftFields
<1>5. /\ tab' = [b \in Airdrop |-> tab'[b]]
      /\ \A b \in Airdrop : tab'[b] = tab[b] \/ (b = a /\ tab'[b] = req[r].tx)
  <2>1. tab = [b \in Airdrop |-> tab[b]]
    BY DEF IInv, Shape
  <2>2. CASE tab' = tab  BY <2>1, <2>2
  <2>3. CASE tab' = [tab EXCEPT ![a] = req[r].tx]  BY <1>2, <2>1, <2>3
  <2> QED  BY <1>1, <2>2, <2>3
<1>6. JobFields(Idle) /\ Idle.pc = "idle" /\ Idle.a = None /\ None \notin Airdrop
      /\ ~Carrying(Idle)
  BY AirdropAssumption DEF JobFields, Idle, Carrying
<1>7. /\ req'[r] = Idle
      /\ \A q \in Request : q # r => req'[q] = req[q]
      /\ req' = [q \in Request |-> req'[q]]
      /\ \A q \in Request : JobFields(req'[q])
  BY <1>1, <1>6, StepFields DEF IInv
<1>8. Shape'
  BY <1>1, <1>4, <1>5, <1>7 DEF IInv, Shape
<1>9. JobInv'
  <2>1. ASSUME NEW q \in Request  PROVE JobOk(req'[q], airdrops')
    <3>1. CASE q = r
      <4>1. JobOk(Idle, airdrops')
        BY <1>6 DEF JobOk, DraftPcs, Posted, EarlyPcs, LatePcs
      <4>2. req'[q] = Idle
        BY <1>7, <3>1
      <4> QED  BY ONLY <4>1, <4>2
    <3>2. CASE q # r
      <4>1. JobOk(req[q], airdrops) /\ req[q].a # a  BY <1>3, <3>2 DEF IInv, JobInv
      <4> QED  BY <1>4, <1>7, <3>2, <4>1 DEF JobOk, DraftPcs, Posted, EarlyPcs, LatePcs
    <3> QED  BY <3>1, <3>2
  <2>2. ASSUME NEW q \in Request  PROVE Alone(q)'
    <3> SUFFICES ASSUME req'[q].pc \in DraftPcs, NEW p \in Request, req'[p].a = req'[q].a
                 PROVE  p = q
      BY DEF Alone
    <3>1. q # r  BY <1>6, <1>7 DEF DraftPcs
    <3>2. req[q].a \in Airdrop  BY <1>7, <3>1 DEF IInv, JobInv, JobOk, DraftPcs
    <3>3. p # r  BY <1>6, <1>7, <3>1, <3>2
    <3> QED  BY <1>7, <3>1, <3>3 DEF IInv, JobInv, Alone
  <2> QED  BY <2>1, <2>2 DEF JobInv
<1>10. Order' /\ HaltInv'
  <2>1. \A b \in Airdrop : tab'[b] \in Held(b) \cup {NoTx}
    BY <1>0, <1>2, <1>5 DEF Held
  <2> QED  BY <1>1, <1>6, <2>1, Calm
<1>11. \A b \in Airdrop : DraftInv(b)'
  BY <1>1, <1>4, <1>5 DEF IInv, DraftInv
<1>12. RowsInv'
  BY <1>1 DEF IInv, RowsInv, Recorded, InState, Paid
<1>13. CompleteInv'
  <2>1. \A b : Paid(b)' = Paid(b)  BY <1>1 DEF Paid
  <2> QED  BY <1>1, <1>2, <1>4, <1>6, <1>7, <2>1 DEF IInv, CompleteInv
<1> QED  BY <1>8, <1>9, <1>10, <1>11, <1>12, <1>13 DEF IInv

----------------------------------------------------------------------------
(* The broadcast, as far as it neither sends nor writes.                   *)

LEMMA PostStep ==
  ASSUME IInv, NEW r \in Request, NEW a \in Airdrop, Post(r, a)
  PROVE  IInv'
<1> DEFINE j == NewJob("load", a, tab[a], 0)
<1>1. req' = [req EXCEPT ![r] = j] /\ tab[a] # NoTx
  BY DEF Post
<1>2. JobFields(j) /\ j.pc = "load" /\ j.a = a /\ j.k = tab[a].k /\ j.tx = tab[a]
      /\ j.rolled = "none" /\ j.then = "none"
  BY NewJobIs
<1> HIDE DEF j
<1>3. tab[a] \in Held(a)
  BY <1>1 DEF Held
<1>4. tab[a].k \in Chunk /\ airdrops[a].state # "absent"
  BY <1>1, <1>3 DEF IInv, Order, HeldInv, DraftInv
<1>5. JobOk(j, airdrops)
  BY <1>1, <1>2, <1>4 DEF JobOk, DraftPcs, Posted, EarlyPcs, LatePcs
<1>6. ~Carrying(j) /\ j.pc \notin DraftPcs
  BY <1>2 DEF Carrying, DraftPcs
<1>7. UNCHANGED <<airdrops, txs, tab, accepted>>
  BY DEF Post, database, Outside, node
<1>8. \A q \in Request : q # r /\ req[q].pc \in DraftPcs => req[q].a # j.a
  BY <1>2, <1>4 DEF IInv, JobInv, JobOk
<1> QED  BY <1>1, <1>2, <1>3, <1>5, <1>6, <1>7, <1>8, Onward

(* A request of the broadcast goes to another statement.                   *)
LEMMA GotoStep ==
  ASSUME IInv, NEW r \in Request, req[r].pc \in Posted, NEW pc, Goto(r, pc),
         UNCHANGED <<airdrops, txs, tab, accepted>>,
         pc \in Posted \ {"rolled"},
         pc \in {"fresh", "halt", "next"} => req[r].k + 1 < Count,
         pc \in {"mark", "fresh", "halt", "next"} => Carries(r),
         pc = "roll" => req[r].pc = "rolled" \/ req[r].then # "next"
  PROVE  IInv'
<1> DEFINE j == Job(req[r], pc, req[r].tx, req[r].heard, req[r].snap, req[r].rolled,
                    req[r].then)
<1>1. req' = [req EXCEPT ![r] = j]
  BY AtPc DEF Goto, IInv
<1>2. JobFields(j) /\ j.pc = pc /\ j.a = req[r].a /\ j.k = req[r].k /\ j.tx = req[r].tx
      /\ j.rolled = req[r].rolled /\ j.then = req[r].then
  BY JobIs
<1> HIDE DEF j
<1>3. Carrying(j) => Carries(r)
  BY <1>2 DEF Carrying, Carries
<1>4. j.rolled = "complete" => Paid(j.a) = Chunk
  BY <1>2 DEF IInv, CompleteInv, Posted, EarlyPcs, LatePcs
<1> QED  BY <1>1, <1>2, <1>3, <1>4, Forward

LEMMA LoadStep ==
  ASSUME IInv, NEW r \in Request, Load(r)
  PROVE  IInv'
<1>1. UNCHANGED <<airdrops, txs, tab, accepted>> /\ req[r].pc = "load"
  BY DEF Load, database, Outside, node
<1>2. CASE Answer(r)  BY <1>1, <1>2, Ends
<1>3. CASE Goto(r, "check")
  BY <1>1, <1>3, GotoStep DEF Posted, EarlyPcs, LatePcs
<1> QED  BY <1>2, <1>3 DEF Load

LEMMA CheckStep ==
  ASSUME IInv, NEW r \in Request, Check(r)
  PROVE  IInv'
<1>1. UNCHANGED <<airdrops, txs, tab, accepted>> /\ req[r].pc = "check"
  BY DEF Check, database, Outside, node
<1>2. CASE Answer(r)  BY <1>1, <1>2, Ends
<1>3. CASE Goto(r, "send")
  BY <1>1, <1>3, GotoStep DEF Posted, EarlyPcs, LatePcs
<1> QED  BY <1>2, <1>3 DEF Check

LEMMA SendFailsStep ==
  ASSUME IInv, NEW r \in Request, SendRejected(r) \/ SendRefused(r)
  PROVE  IInv'
<1>1. /\ UNCHANGED <<airdrops, txs, tab, accepted>>
      /\ req[r].pc = "send" /\ Goto(r, "markFail")
  BY DEF SendRejected, SendRefused, database, Outside, node
<1> QED  BY <1>1, GotoStep DEF Posted, EarlyPcs, LatePcs

LEMMA MarkConflictStep ==
  ASSUME IInv, NEW r \in Request, MarkConflict(r)
  PROVE  IInv'
BY Ends DEF MarkConflict, Refuse, Outside, database, node

LEMMA MarkLostStep ==
  ASSUME IInv, NEW r \in Request, MarkLost(r)
  PROVE  IInv'
<1> DEFINE j == Job(req[r], "roll", req[r].tx, req[r].heard, req[r].snap, req[r].rolled, "next")
<1>1. req' = [req EXCEPT ![r] = j]
  <2>1. req' = [req EXCEPT ![r].then = "next", ![r].pc = "roll"] /\ Shape
    BY DEF MarkLost, IInv
  <2> HIDE DEF j
  <2>2. req' = [req EXCEPT ![r] = Job(req[r], "roll", req[r].tx, req[r].heard, req[r].snap,
                                      req[r].rolled, "next")]
    BY <2>1, AtThen
  <2> QED  BY <2>2 DEF j
<1>2. JobFields(j) /\ j.pc = "roll" /\ j.a = req[r].a /\ j.k = req[r].k /\ j.tx = req[r].tx
      /\ j.rolled = req[r].rolled /\ j.then = "next"
  BY JobIs
<1> HIDE DEF j
<1>3. UNCHANGED <<airdrops, txs, tab, accepted>> /\ req[r].pc = "mark"
  BY DEF MarkLost, database, node
<1>4. req[r].pc \in Posted /\ j.pc \in Posted /\ Carries(r)
  BY <1>2, <1>3 DEF Posted, EarlyPcs, LatePcs, Carries, Carrying
<1>5. j.rolled = "complete" => Paid(j.a) = Chunk
  BY <1>2, <1>3 DEF IInv, CompleteInv
<1> QED  BY <1>1, <1>2, <1>3, <1>4, <1>5, Forward

LEMMA RollConflictStep ==
  ASSUME IInv, NEW r \in Request, RollConflict(r)
  PROVE  IInv'
BY Ends DEF RollConflict, Outside, database, node

LEMMA CheckFreshStep ==
  ASSUME IInv, NEW r \in Request, CheckFresh(r)
  PROVE  IInv'
<1>1. PICK pc \in {"halt", "next"} : Goto(r, pc)
  BY DEF CheckFresh
<1>2. UNCHANGED <<airdrops, txs, tab, accepted>> /\ req[r].pc = "fresh"
  BY DEF CheckFresh, database, Outside, node
<1>3. req[r].k + 1 < Count
  BY <1>2 DEF IInv, JobInv, JobOk
<1>4. Carries(r) /\ req[r].pc \in Posted /\ pc \in Posted \ {"rolled"}
  BY <1>2 DEF Carries, Carrying, Posted, EarlyPcs, LatePcs
<1> QED  BY <1>1, <1>2, <1>3, <1>4, GotoStep

LEMMA FailStep ==
  ASSUME IInv, NEW r \in Request, Fail(r)
  PROVE  IInv'
BY Ends DEF Fail, database, node

(* The state a recompute writes was complete when its rows were read.      *)
LEMMA RollReadStep ==
  ASSUME IInv, NEW r \in Request, RollRead(r)
  PROVE  IInv'
<1>0. PICK state : state = Rolled(txs[req[r].a])
  OBVIOUS
<1> DEFINE j == Job(req[r], "rolled", req[r].tx, req[r].heard, req[r].snap, state, req[r].then)
<1>1. req' = [req EXCEPT ![r] = j]
  <2>1. req' = [req EXCEPT ![r].rolled = state, ![r].pc = "rolled"]
    BY <1>0 DEF RollRead
  <2> QED  BY <2>1, AtRolled DEF IInv
<1>2. JobFields(j) /\ j.pc = "rolled" /\ j.a = req[r].a /\ j.k = req[r].k /\ j.tx = req[r].tx
      /\ j.rolled = state /\ j.then = req[r].then
  BY JobIs
<1> HIDE DEF j
<1>3. UNCHANGED <<airdrops, txs, tab, accepted>> /\ req[r].pc = "roll"
  BY DEF RollRead, database, Outside, node
<1>4. req[r].pc \in Posted /\ j.pc \in Posted /\ (Carrying(j) => Carries(r))
  BY <1>2, <1>3 DEF Posted, EarlyPcs, LatePcs, Carries, Carrying
<1>5. state \in AirdropStates
  BY <1>0 DEF Rolled, AirdropStates
<1>6. j.rolled = "complete" => Paid(j.a) = Chunk
  <2>1. req[r].a \in Airdrop
    BY <1>3 DEF IInv, JobInv, JobOk
  <2>2. state = "complete" => Recorded(req[r].a) = Chunk
    BY <1>0 DEF Rolled, Recorded
  <2>3. Paid(req[r].a) \subseteq Chunk
    BY <2>1 DEF Paid, IInv, Order, HeldInv, Held
  <2>4. Recorded(req[r].a) \subseteq Paid(req[r].a)
    BY <2>1 DEF IInv, RowsInv
  <2>5. state = "complete" => Paid(req[r].a) = Chunk
    BY <2>2, <2>3, <2>4
  <2> QED  BY <1>2, <2>5
<1> QED  BY <1>1, <1>2, <1>3, <1>4, <1>5, <1>6, Forward

----------------------------------------------------------------------------
(* Requests and pages that give up, and the world.                         *)

Kept(i, j) ==
  /\ JobFields(i)
  /\ i.pc = j.pc /\ i.a = j.a /\ i.k = j.k /\ i.tx = j.tx
  /\ i.rolled = j.rolled /\ i.then = j.then
  /\ j.pc = "idle" => i = j

LEMMA Lessens ==
  ASSUME IInv, req' = [r \in Request |-> req'[r]], tab' = [a \in Airdrop |-> tab'[a]],
         \A r \in Request : req'[r] = Idle \/ Kept(req'[r], req[r]),
         \A a \in Airdrop : tab'[a] = tab[a] \/ tab'[a] = NoTx,
         UNCHANGED <<airdrops, txs, accepted>>
  PROVE  IInv'
<1>1. JobFields(Idle) /\ Idle.pc = "idle" /\ Idle.a = None /\ None \notin Airdrop
      /\ ~Carrying(Idle)
  BY AirdropAssumption DEF JobFields, Idle, Carrying
<1>2. Shape'
  BY <1>1 DEF IInv, Shape, Kept
<1>3. ASSUME NEW r \in Request
      PROVE  req'[r] = Idle \/ (req'[r].pc = req[r].pc /\ req'[r].a = req[r].a)
  BY DEF Kept
<1>4. JobInv'
  <2>1. ASSUME NEW r \in Request  PROVE JobOk(req'[r], airdrops')
    <3>1. CASE req'[r] = Idle
      BY <1>1, <3>1 DEF JobOk, DraftPcs, Posted, EarlyPcs, LatePcs
    <3>2. CASE Kept(req'[r], req[r])
      <4>1. JobOk(req[r], airdrops)  BY DEF IInv, JobInv
      <4> QED  BY <3>2, <4>1 DEF JobOk, Kept
    <3> QED  BY <3>1, <3>2
  <2>2. ASSUME NEW r \in Request  PROVE Alone(r)'
    <3> SUFFICES ASSUME req'[r].pc \in DraftPcs, NEW q \in Request, req'[q].a = req'[r].a
                 PROVE  q = r
      BY DEF Alone
    <3>1. req'[r] # Idle  BY <1>1 DEF DraftPcs
    <3>2. req[r].pc \in DraftPcs /\ req'[r].a = req[r].a  BY <1>3, <3>1
    <3>3. req[r].a \in Airdrop  BY <3>2 DEF IInv, JobInv, JobOk, DraftPcs
    <3>4. req'[q] # Idle  BY <1>1, <3>2, <3>3
    <3> QED  BY <1>3, <3>2, <3>4 DEF IInv, JobInv, Alone
  <2> QED  BY <2>1, <2>2 DEF JobInv
<1>5. \A a \in Airdrop : Held(a)' \subseteq Held(a)
  <2> SUFFICES ASSUME NEW a \in Airdrop, NEW t \in Held(a)'
               PROVE  t \in Held(a)
    OBVIOUS
  <2>1. CASE t \in accepted /\ t.a = a  BY <2>1 DEF Held
  <2>2. CASE t = tab'[a]  BY <2>2 DEF Held
  <2>3. CASE \E r \in Request : req'[r].a = a /\ t = req'[r].tx
    BY <1>1, <2>3 DEF Held, Kept
  <2> QED  BY <2>1, <2>2, <2>3 DEF Held
<1>6. ASSUME NEW r \in Request, Carries(r)'
      PROVE  /\ Carries(r) /\ req[r].a \in Airdrop
             /\ req'[r].a = req[r].a /\ req'[r].k = req[r].k /\ req'[r].tx = req[r].tx
  <2>1. req'[r] # Idle
    BY <1>1, <1>6 DEF Carries
  <2>2. Carries(r) /\ req'[r].a = req[r].a /\ req'[r].k = req[r].k /\ req'[r].tx = req[r].tx
    BY <1>6, <2>1 DEF Carries, Carrying, Kept
  <2>3. req[r].a \in Airdrop
    BY <2>2 DEF Carries, Carrying, IInv, JobInv, JobOk
  <2> QED  BY <2>2, <2>3
<1>7. Order'
  BY <1>5, <1>6, CalmOrder DEF IInv
<1>8. HaltInv'
  BY <1>5, <1>6, CalmHalt DEF IInv
<1>9. \A a \in Airdrop : DraftInv(a)'
  BY DEF IInv, DraftInv
<1>10. RowsInv'
  BY DEF IInv, RowsInv, Recorded, InState, Paid
<1>11. CompleteInv'
  <2>1. \A a : Paid(a)' = Paid(a)  BY DEF Paid
  <2>2. ASSUME NEW r \in Request, req'[r].pc # "idle", req'[r].rolled = "complete"
        PROVE  Paid(req[r].a)' = Chunk
    <3>1. Kept(req'[r], req[r])  BY <1>1, <2>2
    <3>2. Paid(req[r].a) = Chunk  BY <2>2, <3>1 DEF Kept, IInv, CompleteInv
    <3> QED  BY <3>1, <3>2 DEF Kept, Paid
  <2> QED  BY <2>1, <2>2 DEF IInv, CompleteInv
<1> QED  BY <1>2, <1>4, <1>7, <1>8, <1>9, <1>10, <1>11 DEF IInv

LEMMA Deaf ==
  ASSUME NEW i, NEW j, JobFields(j), j.pc # "idle", i = [j EXCEPT !.heard = FALSE]
  PROVE  Kept(i, j)
<1>1. i = Job(j, j.pc, j.tx, FALSE, j.snap, j.rolled, j.then)
  BY DEF Job, JobFields
<1>2. JobFields(i) /\ i.pc = j.pc /\ i.a = j.a /\ i.k = j.k /\ i.tx = j.tx
      /\ i.rolled = j.rolled /\ i.then = j.then
  BY ONLY <1>1 DEF Job, JobFields
<1> QED  BY <1>2 DEF Kept

LEMMA CrashStep ==
  ASSUME IInv, Crash
  PROVE  IInv'
<1>1. /\ req' = [r \in Request |-> Idle]
      /\ UNCHANGED <<airdrops, txs, tab, accepted>>
  BY DEF Crash, database, node
<1> QED  BY <1>1, Lessens DEF IInv, Shape

LEMMA LeaveKept ==
  ASSUME IInv, NEW a \in Airdrop, Leave(a)
  PROVE  req' = [r \in Request |-> req'[r]] /\ \A r \in Request : Kept(req'[r], req[r])
<1>1. req' = [r \in Request |-> IF req[r].a = a THEN [req[r] EXCEPT !.heard = FALSE] ELSE req[r]]
  BY DEF Leave
<1>2. ASSUME NEW r \in Request  PROVE Kept(req'[r], req[r])
  <2>1. JobFields(req[r]) /\ JobOk(req[r], airdrops)
    BY DEF IInv, Shape, JobInv
  <2>2. CASE req[r].a = a
    <3>1. req[r].pc # "idle"
      BY <2>1, <2>2, AirdropAssumption DEF JobOk, Idle
    <3>2. req'[r] = [req[r] EXCEPT !.heard = FALSE]
      BY <1>1, <2>2
    <3> QED  BY <2>1, <3>1, <3>2, Deaf
  <2>3. CASE req[r].a # a
    BY <1>1, <2>1, <2>3 DEF Kept
  <2> QED  BY <2>2, <2>3
<1> QED  BY <1>1, <1>2

LEMMA LeaveStep ==
  ASSUME IInv, NEW a \in Airdrop, Leave(a)
  PROVE  IInv'
<1>1. tab' = [tab EXCEPT ![a] = NoTx] /\ UNCHANGED <<airdrops, txs, accepted>>
  BY DEF Leave, database, Outside, node
<1>2. /\ tab' = [b \in Airdrop |-> tab'[b]]
      /\ \A b \in Airdrop : tab'[b] = tab[b] \/ tab'[b] = NoTx
  BY <1>1 DEF IInv, Shape
<1> QED  BY <1>1, <1>2, LeaveKept, Lessens

LEMMA LoseAnswerKept ==
  ASSUME IInv, NEW r \in Request, LoseAnswer(r)
  PROVE  req' = [q \in Request |-> req'[q]] /\ \A q \in Request : Kept(req'[q], req[q])
<1>1. req[r].heard /\ req' = [req EXCEPT ![r].heard = FALSE]
  BY DEF LoseAnswer
<1>2. JobFields(req[r]) /\ JobOk(req[r], airdrops)
  BY DEF IInv, Shape, JobInv
<1>3. req[r].pc # "idle"
  BY <1>1, <1>2 DEF JobOk, Idle
<1>4. /\ req'[r] = [req[r] EXCEPT !.heard = FALSE]
      /\ \A q \in Request \ {r} : req'[q] = req[q]
      /\ req' = [q \in Request |-> req'[q]]
  BY <1>1 DEF IInv, Shape
<1>5. Kept(req'[r], req[r])
  BY <1>2, <1>3, <1>4, Deaf
<1>6. ASSUME NEW q \in Request  PROVE Kept(req'[q], req[q])
  <2>1. CASE q # r
    BY <1>4, <2>1 DEF IInv, Shape, Kept
  <2> QED  BY <1>5, <2>1
<1> QED  BY <1>4, <1>6

LEMMA LoseAnswerStep ==
  ASSUME IInv, NEW r \in Request, LoseAnswer(r)
  PROVE  IInv'
<1>1. UNCHANGED <<airdrops, txs, tab, accepted>> /\ Shape
  BY DEF LoseAnswer, database, node, IInv
<1> QED  BY <1>1, LoseAnswerKept, Lessens DEF Shape

LEMMA ScanFailsStep ==
  ASSUME IInv, NEW r \in Request, ScanFails(r)
  PROVE  IInv'
<1>1. /\ req' = [req EXCEPT ![r] = Idle]
      /\ tab' = tab \/ tab' = [tab EXCEPT ![req[r].a] = NoTx]
      /\ UNCHANGED <<airdrops, txs, accepted>>
  BY DEF ScanFails, Show, Answer, database, node
<1>2. /\ req' = [q \in Request |-> req'[q]]
      /\ \A q \in Request : req'[q] = Idle \/ Kept(req'[q], req[q])
  BY <1>1 DEF IInv, Shape, Kept
<1>3. /\ tab' = [b \in Airdrop |-> tab'[b]]
      /\ \A b \in Airdrop : tab'[b] = tab[b] \/ tab'[b] = NoTx
  <2>1. tab = [b \in Airdrop |-> tab[b]]
    BY DEF IInv, Shape
  <2>2. CASE tab' = tab  BY <2>1, <2>2
  <2>3. CASE tab' = [tab EXCEPT ![req[r].a] = NoTx]  BY <2>1, <2>3
  <2> QED  BY <1>1, <2>2, <2>3
<1> QED  BY <1>1, <1>2, <1>3, Lessens

LEMMA WorldStep ==
  ASSUME IInv, UNCHANGED <<airdrops, txs, req, tab, accepted>>
  PROVE  IInv'
<1>1. \A r \in Request : Kept(req'[r], req[r])
  BY DEF IInv, Shape, Kept
<1> QED  BY <1>1, Lessens DEF IInv, Shape

----------------------------------------------------------------------------
(* A chunk is accepted.  Its transaction was there before, so what is held *)
(* stays; all later ones were built by carriers of accepted chunks, so the *)
(* chunk is the last there is and its request the only carrier.            *)

LEMMA Sent ==
  ASSUME IInv, NEW r \in Request, req[r].pc = "send", req[r].tx \notin accepted,
         accepted' = accepted \cup {req[r].tx},
         NEW pc \in {"mark", "markFail"}, Goto(r, pc),
         UNCHANGED <<airdrops, txs, tab>>
  PROVE  IInv'
<1> DEFINE j == Job(req[r], pc, req[r].tx, req[r].heard, req[r].snap, req[r].rolled,
                    req[r].then)
<1>1. req' = [req EXCEPT ![r] = j]
  BY AtPc DEF Goto, IInv
<1>2. JobFields(j) /\ j.pc = pc /\ j.a = req[r].a /\ j.k = req[r].k /\ j.tx = req[r].tx
      /\ j.rolled = req[r].rolled /\ j.then = req[r].then
  BY JobIs
<1> HIDE DEF j
<1>3. /\ req'[r] = j
      /\ \A q \in Request : q # r => req'[q] = req[q]
      /\ req' = [q \in Request |-> req'[q]]
      /\ \A q \in Request : JobFields(req'[q])
  BY <1>1, <1>2, StepFields DEF IInv
<1>4. PICK a, k, tx : a = req[r].a /\ k = req[r].k /\ tx = req[r].tx
  OBVIOUS
<1>5. JobOk(req[r], airdrops) /\ Order
  BY DEF IInv, JobInv
<1>6. /\ a \in Airdrop /\ k \in Chunk /\ airdrops[a].state # "absent"
      /\ tx # NoTx /\ tx.k = k
  BY <1>4, <1>5 DEF JobOk, Posted, EarlyPcs
<1>7. tx \in Held(a) /\ tx.a = a /\ tx \notin accepted /\ accepted' = accepted \cup {tx}
  BY <1>4, <1>5, <1>6 DEF Order, HeldInv, Held
<1>8. \A b \in Airdrop : Held(b)' = Held(b)
  <2>1. ASSUME NEW b \in Airdrop  PROVE Held(b)' \subseteq Held(b)
    BY <1>2, <1>3, <1>4, <1>6, <1>7 DEF Held
  <2>2. ASSUME NEW b \in Airdrop  PROVE Held(b) \subseteq Held(b)'
    BY <1>2, <1>3, <1>4, <1>6, <1>7 DEF Held
  <2> QED  BY <2>1, <2>2
<1>9. Shape'
  BY <1>3 DEF IInv, Shape
<1>10. JobInv'
  <2>1. JobOk(j, airdrops)
    BY <1>2, <1>5 DEF JobOk, Posted, EarlyPcs, LatePcs, DraftPcs
  <2>2. j.pc \notin DraftPcs /\ j.pc # "idle"
    BY <1>2 DEF DraftPcs
  <2>3. \A q \in Request : q # r /\ req[q].pc \in DraftPcs => req[q].a # j.a
    BY <1>2, <1>4, <1>6 DEF IInv, JobInv, JobOk
  <2> QED  BY <1>1, <1>2, <2>1, <2>2, <2>3, StepJobs DEF IInv
<1>11. \A u \in accepted : u # NoTx /\ (u.a \in Airdrop => u \in Held(u.a))
  BY <1>5 DEF Order, Held
<1>12. \A t \in Held(a) : t.k \in Chunk /\ t.k <= k
  <2> SUFFICES ASSUME NEW t \in Held(a), t.k > k
               PROVE  FALSE
    BY <1>5, <1>6, AirdropAssumption DEF Order, HeldInv, Chunk
  <2>1. PICK u \in accepted : u.a = a /\ u.k = k
    BY <1>5, <1>6 DEF Order, HeldInv
  <2>2. u \in Held(a)
    BY <1>6, <1>11, <2>1
  <2> QED  BY <1>5, <1>6, <1>7, <2>1, <2>2 DEF Order, HeldInv
<1>13. \A q \in Request : Carries(q) => req[q].a # a
  <2> SUFFICES ASSUME NEW q \in Request, Carries(q), req[q].a = a
               PROVE  FALSE
    OBVIOUS
  <2>1. JobOk(req[q], airdrops) /\ CarryInv(q)
    BY <1>5 DEF IInv, JobInv, Order
  <2>2. req[q].pc \in Posted /\ req[q].k \in Chunk /\ req[q].tx.k = req[q].k
    BY <2>1 DEF Carries, Carrying, Posted, LatePcs, JobOk
  <2>3. req[q].tx \in accepted /\ k <= req[q].k
    BY <1>6, <1>7, <2>1 DEF CarryInv
  <2>4. req[q].tx \in Held(a)
    BY <2>1, <2>2 DEF JobOk, Held
  <2>5. req[q].k <= k
    BY <1>12, <2>2, <2>4
  <2>6. req[q].k = k
    BY <1>6, <2>2, <2>3, <2>5, AirdropAssumption DEF Chunk
  <2> QED  BY <1>5, <1>6, <1>7, <2>2, <2>3, <2>4, <2>6 DEF Order, HeldInv
<1>14. \A q \in Request : Carries(q)' =>
         \/ q = r
         \/ Carries(q) /\ req'[q] = req[q] /\ req[q].a \in Airdrop
  <2> SUFFICES ASSUME NEW q \in Request, Carries(q)', q # r
               PROVE  Carries(q) /\ req'[q] = req[q] /\ req[q].a \in Airdrop
    OBVIOUS
  <2>1. Carries(q) /\ req'[q] = req[q]
    BY <1>3 DEF Carries
  <2> QED  BY <2>1 DEF Carries, Carrying, IInv, JobInv, JobOk
<1>15. Order'
  <2>1. ASSUME NEW b \in Airdrop  PROVE HeldInv(b)'
    BY <1>5, <1>7, <1>8 DEF Order, HeldInv
  <2>2. ASSUME NEW q \in Request  PROVE CarryInv(q)'
    <3>1. CASE q = r
      <4> SUFFICES /\ tx \in accepted'
                   /\ \A t \in Held(a)' : t.k <= k
                   /\ \A p \in Request : Carries(p)' /\ req'[p].a = a => p = r
        BY <1>2, <1>3, <1>4, <3>1 DEF CarryInv
      <4>1. tx \in accepted'  BY <1>7
      <4>2. \A t \in Held(a)' : t.k <= k  BY <1>6, <1>8, <1>12
      <4>3. \A p \in Request : Carries(p)' /\ req'[p].a = a => p = r
        BY <1>13, <1>14
      <4> QED  BY <4>1, <4>2, <4>3
    <3>2. CASE q # r
      <4> SUFFICES ASSUME Carries(q)'
                   PROVE  CarryInv(q)'
        BY DEF CarryInv
      <4>1. Carries(q) /\ req'[q] = req[q] /\ req[q].a \in Airdrop /\ req[q].a # a
        BY <1>13, <1>14, <3>2
      <4>2. PICK b \in Airdrop : b = req[q].a /\ b # a
        BY <4>1
      <4>3. /\ req[q].tx \in accepted
            /\ \A t \in Held(b) : t.k <= req[q].k
            /\ \A p \in Request : Carries(p) /\ req[p].a = b => p = q
        BY <1>5, <4>1, <4>2 DEF Order, CarryInv
      <4>4. req'[r].a # b
        BY <1>2, <1>3, <1>4, <4>2
      <4>5. /\ req'[q].tx \in accepted'
            /\ \A t \in Held(b)' : t.k <= req'[q].k
            /\ \A p \in Request : Carries(p)' /\ req'[p].a = b => p = q
        BY <1>7, <1>8, <1>14, <4>1, <4>3, <4>4
      <4> QED  BY <4>1, <4>2, <4>5 DEF CarryInv
    <3> QED  BY <3>1, <3>2
  <2> QED  BY <1>5, <1>6, <1>7, <2>1, <2>2 DEF Order
<1>16. \A b \in Airdrop : b # a => Paid(b)' = Paid(b)
  BY <1>7 DEF Paid
<1>17. \A b \in Airdrop : Paid(b) \subseteq Paid(b)' /\ Paid(b)' \subseteq Paid(b) \cup {k}
  BY <1>6, <1>7 DEF Paid
<1>18. HaltInv'
  <2>1. \A i \in Chunk : txs[a][i].reason # "halted"
    BY <1>6, <1>7 DEF IInv, HaltInv
  <2> SUFFICES ASSUME NEW b \in Airdrop, NEW i \in Chunk, txs'[b][i].reason = "halted"
               PROVE  /\ i \notin Paid(b)'
                      /\ Held(b)' \subseteq accepted'
                      /\ \A q \in Request : req'[q].a = b => ~Carries(q)'
    BY DEF HaltInv
  <2>2. b # a /\ txs[b][i].reason = "halted"
    BY <2>1
  <2>3. /\ i \notin Paid(b) /\ Held(b) \subseteq accepted
        /\ \A q \in Request : req[q].a = b => ~Carries(q)
    BY <2>2 DEF IInv, HaltInv
  <2>4. req'[r].a # b
    BY <1>2, <1>3, <1>4, <2>2
  <2> QED  BY <1>7, <1>8, <1>14, <1>16, <2>2, <2>3, <2>4
<1>19. \A b \in Airdrop : DraftInv(b)'
  BY <1>6, <1>7 DEF IInv, DraftInv
<1>20. RowsInv'
  <2>1. \A b \in Airdrop : Recorded(b)' = Recorded(b)
    BY DEF Recorded, InState
  <2> QED  BY <1>17, <2>1 DEF IInv, RowsInv
<1>21. CompleteInv'
  <2>1. \A b \in Airdrop : Paid(b) = Chunk => Paid(b)' = Chunk
    BY <1>6, <1>17
  <2>2. ASSUME NEW q \in Request, req'[q].pc # "idle", req'[q].rolled = "complete"
        PROVE  Paid(req[q].a)' = Chunk
    <3>1. req[q].pc # "idle" /\ req[q].rolled = "complete" /\ req'[q].a = req[q].a
      BY <1>2, <1>3, <2>2
    <3>2. req[q].a \in Airdrop
      BY <3>1 DEF IInv, JobInv, JobOk
    <3>3. PICK b \in Airdrop : b = req[q].a
      BY <3>2
    <3>4. Paid(b)' = Chunk
      BY <2>1, <3>1, <3>3 DEF IInv, CompleteInv
    <3> QED  BY <3>1, <3>3, <3>4
  <2> QED  BY <2>1, <2>2 DEF IInv, CompleteInv
<1> QED  BY <1>9, <1>10, <1>15, <1>18, <1>19, <1>20, <1>21 DEF IInv

LEMMA SendAcceptedStep ==
  ASSUME IInv, NEW r \in Request, SendAccepted(r)
  PROVE  IInv'
BY Sent DEF SendAccepted, Acceptable, database

LEMMA SendTimesOutStep ==
  ASSUME IInv, NEW r \in Request, SendTimesOut(r)
  PROVE  IInv'
BY Sent DEF SendTimesOut, Acceptable, database

----------------------------------------------------------------------------
(* The statements that write rows.                                         *)

(* A row is written by the request of its chunk; no row says more than was *)
(* paid.                                                                   *)
LEMMA RowWritten ==
  ASSUME IInv, NEW r \in Request, NEW j, JobFields(j), req' = [req EXCEPT ![r] = j],
         req[r].pc \in {"mark", "markFail"}, j.pc = "roll" \/ j.pc = req[r].pc,
         j.a = req[r].a, j.k = req[r].k, j.tx = req[r].tx, j.rolled = req[r].rolled,
         j.then = "next" => Carries(r),
         NEW w, RowFields(w), w.reason # "halted",
         w.state = "broadcast" => Carries(r),
         SetRow(req[r].a, req[r].k, w),
         UNCHANGED <<airdrops, tab, accepted>>
  PROVE  IInv'
<1>1. /\ req'[r] = j
      /\ \A q \in Request : q # r => req'[q] = req[q]
      /\ req' = [q \in Request |-> req'[q]]
      /\ \A q \in Request : JobFields(req'[q])
  BY StepFields DEF IInv
<1>2. PICK a, k, tx : a = req[r].a /\ k = req[r].k /\ tx = req[r].tx
  OBVIOUS
<1>3. JobOk(req[r], airdrops) /\ CarryInv(r)
  BY DEF IInv, JobInv, Order
<1>4. /\ a \in Airdrop /\ k \in Chunk /\ airdrops[a].state # "absent"
      /\ tx # NoTx /\ tx.k = k
  BY <1>2, <1>3 DEF JobOk, Posted, EarlyPcs, LatePcs
<1>5. /\ txs'[a][k] = w
      /\ \A b \in Airdrop, i \in Chunk : (b # a \/ i # k) => txs'[b][i] = txs[b][i]
      /\ txs' = [b \in Airdrop |-> [i \in Chunk |-> txs'[b][i]]]
  <2>1. txs' = [txs EXCEPT ![a][k] = w]
    BY <1>2 DEF SetRow
  <2>2. txs = [b \in Airdrop |-> [i \in Chunk |-> txs[b][i]]]
    BY DEF IInv, Shape
  <2>3. txs[a] = [i \in Chunk |-> txs[a][i]]
    BY <1>4, <2>2
  <2>4. txs'[a] = [txs[a] EXCEPT ![k] = w]
    BY <1>4, <2>1, <2>2
  <2>5. /\ txs'[a][k] = w
        /\ \A i \in Chunk : i # k => txs'[a][i] = txs[a][i]
        /\ txs'[a] = [i \in Chunk |-> txs'[a][i]]
    BY <1>4, <2>3, <2>4
  <2>6. \A b \in Airdrop : b # a => txs'[b] = txs[b]
    BY <2>1, <2>2
  <2>7. ASSUME NEW b \in Airdrop  PROVE txs'[b] = [i \in Chunk |-> txs'[b][i]]
    <3>1. CASE b = a  BY <2>5, <3>1
    <3>2. CASE b # a
      <4>1. txs[b] = [i \in Chunk |-> txs[b][i]]
        BY <2>2
      <4> QED  BY <2>6, <3>2, <4>1
    <3> QED  BY <3>1, <3>2
  <2>8. txs' = [b \in Airdrop |-> txs'[b]]
    BY <2>1, <2>2
  <2> QED  BY <2>5, <2>6, <2>7, <2>8
<1>6. Shape'
  <2>1. \A b \in Airdrop, i \in Chunk : RowFields(txs'[b][i])
    BY <1>5 DEF IInv, Shape
  <2> QED  BY <1>1, <1>5, <2>1 DEF IInv, Shape
<1>7. JobInv'
  <2>1. JobOk(j, airdrops)
    BY <1>3 DEF JobOk, Posted, EarlyPcs, LatePcs, DraftPcs
  <2>2. j.pc \notin DraftPcs
    BY DEF DraftPcs
  <2>3. \A q \in Request : q # r /\ req[q].pc \in DraftPcs => req[q].a # j.a
    BY <1>2, <1>4 DEF IInv, JobInv, JobOk
  <2> QED  BY <2>1, <2>2, <2>3, StepJobs DEF IInv
<1>8. Order' /\ HaltInv'
  <2>1. \A b \in Airdrop : tab'[b] \in Held(b) \cup {NoTx}
    BY DEF Held
  <2>2. \A b \in Airdrop, i \in Chunk :
          txs'[b][i].reason = "halted" => txs[b][i].reason = "halted"
    BY <1>5
  <2>3. j.a \in Airdrop => j.tx \in Held(j.a) \cup {NoTx}
    BY DEF Held
  <2>4. Carrying(j) => Carries(r) /\ j.a = req[r].a /\ j.k = req[r].k /\ j.tx = req[r].tx
    BY DEF Carrying, Carries
  <2> QED  BY <2>1, <2>2, <2>3, <2>4, Calm
<1>9. \A b \in Airdrop : DraftInv(b)'
  BY <1>4, <1>5 DEF IInv, DraftInv
<1>10. RowsInv'
  <2>1. \A b \in Airdrop : Paid(b)' = Paid(b)
    BY DEF Paid
  <2>2. \A b \in Airdrop : b # a => Recorded(b)' = Recorded(b)
    BY <1>5 DEF Recorded, InState
  <2>3. Recorded(a)' \subseteq Recorded(a) \cup {k}
    BY <1>4, <1>5 DEF Recorded, InState
  <2>4. k \in Recorded(a)' => k \in Paid(a)
    <3> SUFFICES ASSUME w.state = "broadcast"
                 PROVE  k \in Paid(a)
      BY <1>5 DEF Recorded, InState
    <3>1. tx \in accepted
      BY <1>2, <1>3 DEF CarryInv
    <3>2. tx.a = a
      BY <1>2, <1>4 DEF IInv, Order, HeldInv, Held
    <3> QED  BY <1>4, <3>1, <3>2 DEF Paid
  <2> QED  BY <2>1, <2>2, <2>3, <2>4 DEF IInv, RowsInv
<1>11. CompleteInv'
  <2>1. \A b : Paid(b)' = Paid(b)
    BY DEF Paid
  <2>2. req[r].pc # "idle"
    OBVIOUS
  <2> QED  BY <1>1, <2>1, <2>2 DEF IInv, CompleteInv, Paid
<1> QED  BY <1>6, <1>7, <1>8, <1>9, <1>10, <1>11 DEF IInv

LEMMA MarkDoneStep ==
  ASSUME IInv, NEW r \in Request, MarkDone(r)
  PROVE  IInv'
<1> DEFINE j == Job(req[r], "roll", req[r].tx, req[r].heard, req[r].snap, req[r].rolled, "next")
           w == [state |-> "broadcast", txid |-> req[r].tx, reason |-> "none"]
<1>1. req' = [req EXCEPT ![r] = j]
  <2>1. req' = [req EXCEPT ![r].then = "next", ![r].pc = "roll"] /\ Shape
    BY DEF MarkDone, IInv
  <2> HIDE DEF j
  <2>2. req' = [req EXCEPT ![r] = Job(req[r], "roll", req[r].tx, req[r].heard, req[r].snap,
                                      req[r].rolled, "next")]
    BY <2>1, AtThen
  <2> QED  BY <2>2 DEF j
<1>2. JobFields(j) /\ j.pc = "roll" /\ j.a = req[r].a /\ j.k = req[r].k /\ j.tx = req[r].tx
      /\ j.rolled = req[r].rolled
  BY JobIs
<1>3. RowFields(w) /\ w.reason = "none"
  BY DEF RowFields
<1>4. /\ SetRow(req[r].a, req[r].k, w) /\ req[r].pc = "mark"
      /\ UNCHANGED <<airdrops, tab, accepted>>
  BY DEF MarkDone, Outside, node
<1>5. Carries(r)
  BY <1>4 DEF Carries, Carrying
<1> HIDE DEF j, w
<1> QED  BY <1>1, <1>2, <1>3, <1>4, <1>5, RowWritten

LEMMA MarkUnsureStep ==
  ASSUME IInv, NEW r \in Request, MarkUnsure(r)
  PROVE  IInv'
<1> DEFINE w == [state |-> "broadcast", txid |-> req[r].tx, reason |-> "none"]
<1>1. req' = [req EXCEPT ![r] = req[r]] /\ JobFields(req[r])
  BY DEF MarkUnsure, IInv, Shape
<1>2. RowFields(w) /\ w.reason = "none"
  BY DEF RowFields
<1>3. /\ SetRow(req[r].a, req[r].k, w) /\ req[r].pc = "mark"
      /\ UNCHANGED <<airdrops, tab, accepted>>
  BY DEF MarkUnsure, node
<1>4. Carries(r)
  BY <1>3 DEF Carries, Carrying
<1> HIDE DEF w
<1> QED  BY <1>1, <1>2, <1>3, <1>4, RowWritten

LEMMA MarkFailStep ==
  ASSUME IInv, NEW r \in Request, MarkFail(r)
  PROVE  IInv'
<1> DEFINE j == Job(req[r], "roll", req[r].tx, req[r].heard, req[r].snap, req[r].rolled, "fail")
           w == [state |-> "failed", txid |-> Row(r).txid, reason |-> "rejected"]
<1>1. req' = [req EXCEPT ![r] = j]
  <2>1. req' = [req EXCEPT ![r].then = "fail", ![r].pc = "roll"] /\ Shape
    BY DEF MarkFail, IInv
  <2> HIDE DEF j
  <2>2. req' = [req EXCEPT ![r] = Job(req[r], "roll", req[r].tx, req[r].heard, req[r].snap,
                                      req[r].rolled, "fail")]
    BY <2>1, AtThen
  <2> QED  BY <2>2 DEF j
<1>2. JobFields(j) /\ j.pc = "roll" /\ j.a = req[r].a /\ j.k = req[r].k /\ j.tx = req[r].tx
      /\ j.rolled = req[r].rolled /\ j.then = "fail"
  BY JobIs
<1>3. RowFields(w) /\ w.reason = "rejected" /\ w.state = "failed"
  BY DEF RowFields
<1>4. /\ SetRow(req[r].a, req[r].k, w) /\ req[r].pc = "markFail"
      /\ UNCHANGED <<airdrops, tab, accepted>>
  BY DEF MarkFail, Outside, node
<1> HIDE DEF j, w
<1> QED  BY <1>1, <1>2, <1>3, <1>4, RowWritten

(* A halt: its request was the only carrier, and everything there is was   *)
(* accepted, so the chunks after its own will never be built.              *)
LEMMA HaltStep ==
  ASSUME IInv, NEW r \in Request, Halt(r)
  PROVE  IInv'
<1> DEFINE j == Job(req[r], "roll", req[r].tx, req[r].heard, req[r].snap, req[r].rolled, "halted")
<1>1. req' = [req EXCEPT ![r] = j]
  <2>1. req' = [req EXCEPT ![r].then = "halted", ![r].pc = "roll"] /\ Shape
    BY DEF Halt, IInv
  <2> HIDE DEF j
  <2>2. req' = [req EXCEPT ![r] = Job(req[r], "roll", req[r].tx, req[r].heard, req[r].snap,
                                      req[r].rolled, "halted")]
    BY <2>1, AtThen
  <2> QED  BY <2>2 DEF j
<1>2. JobFields(j) /\ j.pc = "roll" /\ j.a = req[r].a /\ j.k = req[r].k /\ j.tx = req[r].tx
      /\ j.rolled = req[r].rolled /\ j.then = "halted"
  BY JobIs
<1> HIDE DEF j
<1>3. /\ req'[r] = j
      /\ \A q \in Request : q # r => req'[q] = req[q]
      /\ req' = [q \in Request |-> req'[q]]
      /\ \A q \in Request : JobFields(req'[q])
  BY <1>1, <1>2, StepFields DEF IInv
<1>4. PICK a, k, tx : a = req[r].a /\ k = req[r].k /\ tx = req[r].tx
  OBVIOUS
<1>5. /\ JobOk(req[r], airdrops) /\ Order /\ CarryInv(r)
      /\ req[r].pc = "halt" /\ Carries(r)
      /\ UNCHANGED <<airdrops, tab, accepted>>
  BY DEF IInv, JobInv, Order, Halt, Carries, Carrying, Outside, node
<1>6. /\ a \in Airdrop /\ k \in Chunk /\ airdrops[a].state # "absent"
      /\ tx # NoTx /\ tx.k = k
  BY <1>4, <1>5 DEF JobOk, Posted, LatePcs
<1>7. /\ \A b \in Airdrop, i \in Chunk : b # a => txs'[b][i] = txs[b][i]
      /\ \A i \in Chunk :
           \/ txs'[a][i] = txs[a][i]
           \/ i >= k + 1 /\ txs'[a][i].state = "failed" /\ RowFields(txs'[a][i])
      /\ txs' = [b \in Airdrop |-> [i \in Chunk |-> txs'[b][i]]]
  <2>1. txs' = [txs EXCEPT ![a] = HaltedRows(txs[a], k + 1)]
    BY <1>4 DEF Halt, NextIdx
  <2>2. txs = [b \in Airdrop |-> [i \in Chunk |-> txs[b][i]]]
    BY DEF IInv, Shape
  <2>3. HaltedRows(txs[a], k + 1) =
          [i \in Chunk |-> IF i >= k + 1 /\ Markable(txs[a][i])
             THEN [txs[a][i] EXCEPT !.state = "failed", !.reason = "halted"] ELSE txs[a][i]]
    BY DEF HaltedRows
  <2>4. ASSUME NEW v, NEW w, RowFields(w), v = [w EXCEPT !.state = "failed", !.reason = "halted"]
        PROVE  v = [state |-> "failed", txid |-> w.txid, reason |-> "halted"]
    BY <2>4 DEF RowFields
  <2>5. \A i \in Chunk :
          \/ txs'[a][i] = txs[a][i]
          \/ i >= k + 1 /\ txs'[a][i].state = "failed" /\ RowFields(txs'[a][i])
    <3> SUFFICES ASSUME NEW i \in Chunk, txs'[a][i] # txs[a][i]
                 PROVE  i >= k + 1 /\ txs'[a][i].state = "failed" /\ RowFields(txs'[a][i])
      OBVIOUS
    <3>1. /\ i >= k + 1
          /\ txs'[a][i] = [txs[a][i] EXCEPT !.state = "failed", !.reason = "halted"]
      BY <1>6, <2>1, <2>2, <2>3
    <3>2. RowFields(txs[a][i])
      BY <1>6 DEF IInv, Shape
    <3>3. txs'[a][i] = [state |-> "failed", txid |-> txs[a][i].txid, reason |-> "halted"]
      BY <2>4, <3>1, <3>2
    <3> QED  BY <3>1, <3>3 DEF RowFields
  <2>6. txs' = [b \in Airdrop |-> [i \in Chunk |-> txs'[b][i]]]
    BY <1>6, <2>1, <2>2, <2>3
  <2>7. \A b \in Airdrop, i \in Chunk : b # a => txs'[b][i] = txs[b][i]
    BY <1>6, <2>1, <2>2
  <2> QED  BY <2>5, <2>6, <2>7
<1>8. Shape'
  <2>1. \A b \in Airdrop, i \in Chunk : RowFields(txs'[b][i])
    BY <1>7 DEF IInv, Shape
  <2> QED  BY <1>3, <1>5, <1>7, <2>1 DEF IInv, Shape
<1>9. JobInv'
  <2>1. JobOk(j, airdrops)
    BY <1>2, <1>5 DEF JobOk, Posted, EarlyPcs, LatePcs, DraftPcs
  <2>2. j.pc \notin DraftPcs
    BY <1>2 DEF DraftPcs
  <2>3. \A q \in Request : q # r /\ req[q].pc \in DraftPcs => req[q].a # j.a
    BY <1>2, <1>4, <1>6 DEF IInv, JobInv, JobOk
  <2> QED  BY <1>1, <1>2, <1>5, <2>1, <2>2, <2>3, StepJobs DEF IInv
<1>10. \A b \in Airdrop : Held(b)' \subseteq Held(b)
  <2>1. \A b \in Airdrop : tab'[b] \in Held(b) \cup {NoTx}
    BY <1>5 DEF Held
  <2>2. j.a \in Airdrop => j.tx \in Held(j.a) \cup {NoTx}
    BY <1>2 DEF Held
  <2> QED  BY <1>1, <1>2, <1>5, <2>1, <2>2, HeldStep DEF IInv
<1>11. \A q \in Request : Carries(q)' =>
         q # r /\ Carries(q) /\ req'[q] = req[q] /\ req[q].a \in Airdrop
  <2> SUFFICES ASSUME NEW q \in Request, Carries(q)'
               PROVE  q # r /\ Carries(q) /\ req'[q] = req[q] /\ req[q].a \in Airdrop
    OBVIOUS
  <2>1. q # r
    BY <1>2, <1>3 DEF Carries, Carrying
  <2>2. Carries(q) /\ req'[q] = req[q]
    BY <1>3, <2>1 DEF Carries
  <2> QED  BY <2>1, <2>2 DEF Carries, Carrying, IInv, JobInv, JobOk
<1>12. Order'
  BY <1>5, <1>10, <1>11, CalmOrder
<1>13. \A q \in Request : Carries(q) /\ req[q].a = a => q = r
  BY <1>4, <1>5 DEF CarryInv
<1>14. \A t \in Held(a) : t \in accepted /\ t.k <= k
  <2> SUFFICES ASSUME NEW t \in Held(a)
               PROVE  t \in accepted /\ t.k <= k
    OBVIOUS
  <2>1. t.k <= k /\ tx \in accepted
    BY <1>4, <1>5 DEF CarryInv
  <2>2. tx \in Held(a) /\ HeldInv(a)
    BY <1>4, <1>5, <1>6 DEF Held, Order
  <2>3. t.k \in Chunk
    BY <2>2 DEF HeldInv
  <2>4. CASE t.k = k
    BY <1>6, <2>1, <2>2, <2>4 DEF HeldInv
  <2>5. CASE t.k # k
    <3>1. t.k < k
      BY <1>6, <2>1, <2>3, <2>5, AirdropAssumption DEF Chunk
    <3>2. PICK u \in accepted : u.a = a /\ u.k = t.k
      BY <1>6, <2>2, <2>3, <3>1 DEF HeldInv
    <3>3. u \in Held(a)
      BY <1>5, <3>2 DEF Held, Order
    <3> QED  BY <2>1, <2>2, <3>2, <3>3 DEF HeldInv
  <2> QED  BY <2>4, <2>5, <2>1
<1>15. HaltInv'
  <2> SUFFICES ASSUME NEW b \in Airdrop, NEW i \in Chunk, txs'[b][i].reason = "halted"
               PROVE  /\ i \notin Paid(b)'
                      /\ Held(b)' \subseteq accepted'
                      /\ \A q \in Request : req'[q].a = b => ~Carries(q)'
    BY DEF HaltInv
  <2>1. Paid(b)' = Paid(b)
    BY <1>5 DEF Paid
  <2>2. CASE txs[b][i].reason = "halted"
    BY <1>5, <1>10, <1>11, <2>1, <2>2 DEF IInv, HaltInv
  <2>3. CASE txs[b][i].reason # "halted"
    <3>1. b = a /\ i >= k + 1
      BY <1>7, <2>3
    <3>2. i \notin Paid(a)
      <4> SUFFICES ASSUME NEW u \in accepted, u.a = a, u.k = i
                   PROVE  FALSE
        BY DEF Paid
      <4>1. u \in Held(a)
        BY <1>5 DEF Held, Order
      <4> QED  BY <1>6, <1>14, <3>1, <4>1, AirdropAssumption DEF Chunk
    <3>3. Held(b)' \subseteq accepted'
      BY <1>5, <1>10, <1>14, <3>1
    <3>4. \A q \in Request : req'[q].a = b => ~Carries(q)'
      BY <1>11, <1>13, <3>1
    <3> QED  BY <2>1, <3>1, <3>2, <3>3, <3>4
  <2> QED  BY <2>2, <2>3
<1>16. \A b \in Airdrop : DraftInv(b)'
  BY <1>5, <1>6, <1>7 DEF IInv, DraftInv
<1>17. RowsInv'
  <2>1. \A b \in Airdrop : Paid(b)' = Paid(b)
    BY <1>5 DEF Paid
  <2>2. \A b \in Airdrop : Recorded(b)' \subseteq Recorded(b)
    BY <1>7 DEF Recorded, InState
  <2> QED  BY <2>1, <2>2 DEF IInv, RowsInv
<1>18. CompleteInv'
  <2>1. \A b : Paid(b)' = Paid(b)
    BY <1>5 DEF Paid
  <2> QED  BY <1>2, <1>3, <1>5, <2>1 DEF IInv, CompleteInv, Paid
<1> QED  BY <1>8, <1>9, <1>12, <1>15, <1>16, <1>17, <1>18 DEF IInv

(* A recompute writes the state it computed earlier.                       *)
LEMMA RollWritten ==
  ASSUME IInv, NEW r \in Request, NEW j, JobFields(j), req' = [req EXCEPT ![r] = j],
         req[r].pc = "rolled",
         airdrops' = [airdrops EXCEPT ![req[r].a].state = req[r].rolled],
         \/ j = Idle
         \/ /\ j.pc = "fresh" /\ j.a = req[r].a /\ j.k = req[r].k /\ j.tx = req[r].tx
            /\ j.rolled = "none" /\ req[r].then = "next" /\ j.k + 1 < Count,
         tab' = tab \/ tab' = [tab EXCEPT ![req[r].a] = NoTx],
         UNCHANGED <<txs, accepted>>
  PROVE  IInv'
<1>1. /\ req'[r] = j
      /\ \A q \in Request : q # r => req'[q] = req[q]
      /\ req' = [q \in Request |-> req'[q]]
      /\ \A q \in Request : JobFields(req'[q])
  BY StepFields DEF IInv
<1>2. PICK a : a = req[r].a
  OBVIOUS
<1>3. JobOk(req[r], airdrops) /\ CompleteInv
  BY DEF IInv, JobInv
<1>4. a \in Airdrop /\ airdrops[a].state # "absent" /\ req[r].rolled \in AirdropStates
  BY <1>2, <1>3 DEF JobOk, Posted, LatePcs
<1>5. /\ airdrops'[a].state = req[r].rolled /\ DraftFields(airdrops'[a])
      /\ \A b \in Airdrop \ {a} : airdrops'[b] = airdrops[b]
      /\ airdrops' = [b \in Airdrop |-> airdrops'[b]]
  <2>1. airdrops = [b \in Airdrop |-> airdrops[b]] /\ DraftFields(airdrops[a])
    BY <1>4 DEF IInv, Shape
  <2>2. airdrops' = [airdrops EXCEPT ![a] = [airdrops[a] EXCEPT !.state = req[r].rolled]]
    BY <1>2, <1>4, <2>1 DEF DraftFields
  <2>3. ASSUME NEW d, NEW e, NEW state, DraftFields(d), e = [d EXCEPT !.state = state]
        PROVE  e = [state |-> state, snap |-> d.snap, list |-> d.list]
    BY <2>3 DEF DraftFields
  <2>4. PICK e, state : e = airdrops'[a] /\ state = req[r].rolled
    OBVIOUS
  <2>5. e = [airdrops[a] EXCEPT !.state = state]
    BY <1>4, <2>1, <2>2, <2>4
  <2>6. e = [state |-> state, snap |-> airdrops[a].snap, list |-> airdrops[a].list]
    BY <2>1, <2>3, <2>5
  <2>7. e.state = state /\ DraftFields(e)
    BY ONLY <2>6 DEF DraftFields
  <2>8. /\ \A b \in Airdrop \ {a} : airdrops'[b] = airdrops[b]
        /\ airdrops' = [b \in Airdrop |-> airdrops'[b]]
    BY <1>4, <2>1, <2>2
  <2> QED  BY <2>4, <2>7, <2>8
<1>6. /\ tab' = [b \in Airdrop |-> tab'[b]]
      /\ \A b \in Airdrop : tab'[b] = tab[b] \/ tab'[b] = NoTx
  <2>1. tab = [b \in Airdrop |-> tab[b]]
    BY DEF IInv, Shape
  <2>2. CASE tab' = tab  BY <2>1, <2>2
  <2>3. CASE tab' = [tab EXCEPT ![a] = NoTx]  BY <2>1, <2>3
  <2> QED  BY <1>2, <2>2, <2>3
<1>7. Idle.pc = "idle" /\ Idle.a = None /\ None \notin Airdrop /\ ~Carrying(Idle)
  BY AirdropAssumption DEF Idle, Carrying
<1>8. Shape'
  <2>1. \A b \in Airdrop : DraftFields(airdrops'[b])
    BY <1>5 DEF IInv, Shape
  <2>2. txs' = [b \in Airdrop |-> [i \in Chunk |-> txs'[b][i]]]
    BY DEF IInv, Shape
  <2>3. \A b \in Airdrop, i \in Chunk : RowFields(txs'[b][i])
    BY DEF IInv, Shape
  <2> QED  BY <1>1, <1>5, <1>6, <2>1, <2>2, <2>3 DEF Shape
<1>9. JobInv'
  <2>1. \A b \in Airdrop : airdrops'[b].state = "absent" <=> airdrops[b].state = "absent"
    BY <1>4, <1>5 DEF AirdropStates
  <2>2. JobOk(j, airdrops)
    <3>1. CASE j = Idle
      BY <1>7, <3>1 DEF JobOk, DraftPcs, Posted, EarlyPcs, LatePcs
    <3>2. CASE j # Idle
      BY <1>3, <3>2 DEF JobOk, DraftPcs, Posted, EarlyPcs, LatePcs
    <3> QED  BY <3>1, <3>2
  <2>3. j.pc \notin DraftPcs
    BY <1>7 DEF DraftPcs
  <2>4. j.pc # "idle" => \A q \in Request : q # r /\ req[q].pc \in DraftPcs => req[q].a # j.a
    BY <1>2, <1>4, <1>7 DEF IInv, JobInv, JobOk
  <2> QED  BY <2>1, <2>2, <2>3, <2>4, StepJobs DEF IInv
<1>10. Order' /\ HaltInv'
  <2>1. \A b \in Airdrop : tab'[b] \in Held(b) \cup {NoTx}
    BY <1>6 DEF Held
  <2>2. j.a \in Airdrop => j.tx \in Held(j.a) \cup {NoTx}
    BY <1>7 DEF Held
  <2>3. Carrying(j) => Carries(r) /\ j.a = req[r].a /\ j.k = req[r].k /\ j.tx = req[r].tx
    BY <1>7 DEF Carries, Carrying
  <2> QED  BY <2>1, <2>2, <2>3, Calm
<1>11. \A b \in Airdrop : DraftInv(b)'
  <2> SUFFICES ASSUME NEW b \in Airdrop PROVE DraftInv(b)'
    OBVIOUS
  <2>1. DraftInv(b)
    BY DEF IInv
  <2>2. airdrops'[b].state = "absent" => airdrops[b].state = "absent"
    BY <1>4, <1>5 DEF AirdropStates
  <2> QED  BY <1>6, <2>1, <2>2 DEF DraftInv
<1>12. RowsInv'
  BY DEF IInv, RowsInv, Recorded, InState, Paid
<1>13. CompleteInv'
  <2>1. \A b : Paid(b)' = Paid(b)
    BY DEF Paid
  <2>2. req[r].rolled = "complete" => Paid(a) = Chunk
    BY <1>2, <1>3 DEF CompleteInv
  <2>3. j.pc = "idle" \/ j.rolled = "none"
    BY <1>7
  <2> QED  BY <1>1, <1>3, <1>5, <2>1, <2>2, <2>3 DEF CompleteInv, Paid
<1> QED  BY <1>8, <1>9, <1>10, <1>11, <1>12, <1>13 DEF IInv

LEMMA RollWriteStep ==
  ASSUME IInv, NEW r \in Request, RollWrite(r)
  PROVE  IInv'
<1>1. /\ req[r].pc = "rolled"
      /\ airdrops' = [airdrops EXCEPT ![req[r].a].state = req[r].rolled]
      /\ UNCHANGED <<txs, accepted>>
  BY DEF RollWrite, Outside, node
<1>2. CASE Answer(r) /\ (UNCHANGED tab \/ Show(r, NoTx))
  <2>1. JobFields(Idle)
    BY DEF JobFields, Idle
  <2>2. req' = [req EXCEPT ![r] = Idle]
    BY <1>2 DEF Answer
  <2>3. tab' = tab \/ tab' = [tab EXCEPT ![req[r].a] = NoTx]
    BY <1>2 DEF Show
  <2> QED  BY <1>1, <2>1, <2>2, <2>3, RollWritten
<1>3. CASE /\ req[r].then = "next" /\ HasNext(req[r].k)
           /\ req' = [req EXCEPT ![r].rolled = "none", ![r].pc = "fresh"] /\ UNCHANGED tab
  <2> DEFINE j == Job(req[r], "fresh", req[r].tx, req[r].heard, req[r].snap, "none", req[r].then)
  <2>1. j.pc = "fresh" /\ j.a = req[r].a /\ j.k = req[r].k /\ j.tx = req[r].tx
        /\ j.rolled = "none" /\ JobFields(j)
    BY JobIs
  <2>2. Shape
    BY DEF IInv
  <2> HIDE DEF j
  <2>3. req' = [req EXCEPT ![r] = Job(req[r], "fresh", req[r].tx, req[r].heard, req[r].snap,
                                      "none", req[r].then)]
    <3>1. req' = [req EXCEPT ![r].rolled = "none", ![r].pc = "fresh"]
      BY <1>3
    <3> QED  BY ONLY <2>2, <3>1, AtRolled, r \in Request
  <2>4. req' = [req EXCEPT ![r] = j]
    BY <2>3 DEF j
  <2>5. req[r].k + 1 < Count
    BY <1>3 DEF HasNext
  <2> QED  BY <1>1, <1>3, <2>1, <2>4, <2>5, RollWritten
<1> QED  BY <1>2, <1>3 DEF RollWrite

----------------------------------------------------------------------------
(* The next chunk is built: the first transaction there is for it.         *)

LEMMA BuildNextStep ==
  ASSUME IInv, NEW r \in Request, BuildNext(r)
  PROVE  IInv'
<1>0. PICK a, k : a = req[r].a /\ k = req[r].k
  OBVIOUS
<1>1. /\ req[r].pc = "next" /\ req' = [req EXCEPT ![r] = Idle]
      /\ UNCHANGED <<airdrops, txs, accepted>>
      /\ JobOk(req[r], airdrops) /\ Order /\ CarryInv(r) /\ Carries(r)
  BY DEF BuildNext, Answer, IInv, JobInv, Order, Carries, Carrying, database, Outside, node
<1>2. /\ a \in Airdrop /\ k \in Chunk /\ airdrops[a].state # "absent"
      /\ req[r].tx # NoTx /\ req[r].tx.k = k /\ k + 1 < Count
  BY <1>0, <1>1 DEF JobOk, Posted, LatePcs
<1>3. PICK tx : /\ tx = NoTx \/ (tx.a = a /\ tx.k = k + 1 /\ tx # NoTx)
                /\ tab' = tab \/ tab' = [tab EXCEPT ![a] = tx]
  <2>1. PICK scan \in Scans :
          LET built == BuildChunk(a, k + 1, WalletUtxos(scan))
          IN  \/ \E tx \in built : Show(r, tx)
              \/ built = {} /\ Show(r, NoTx)
    BY <1>0 DEF BuildNext, NextIdx
  <2>2. CASE \E tx \in BuildChunk(a, k + 1, WalletUtxos(scan)) : Show(r, tx)
    <3>1. PICK tx \in BuildChunk(a, k + 1, WalletUtxos(scan)) : Show(r, tx)
      BY <2>2
    <3>2. tx.a = a /\ tx.k = k + 1 /\ tx # NoTx
      BY <1>2, BuiltTx
    <3>3. tab' = tab \/ tab' = [tab EXCEPT ![a] = tx]
      BY <1>0, <3>1 DEF Show
    <3> QED  BY <3>2, <3>3
  <2>3. CASE Show(r, NoTx)
    <3>1. tab' = tab \/ tab' = [tab EXCEPT ![a] = NoTx]
      BY <1>0, <2>3 DEF Show
    <3> WITNESS NoTx
    <3> QED  BY <3>1
  <2> QED  BY <2>1, <2>2, <2>3
<1>4. /\ tab' = [b \in Airdrop |-> tab'[b]]
      /\ \A b \in Airdrop : tab'[b] = tab[b] \/ (b = a /\ tab'[b] = tx)
  <2>1. tab = [b \in Airdrop |-> tab[b]]
    BY DEF IInv, Shape
  <2>2. CASE tab' = tab  BY <2>1, <2>2
  <2>3. CASE tab' = [tab EXCEPT ![a] = tx]  BY <1>2, <2>1, <2>3
  <2> QED  BY <1>3, <2>2, <2>3
<1>5. JobFields(Idle) /\ Idle.pc = "idle" /\ Idle.a = None /\ None \notin Airdrop
      /\ ~Carrying(Idle)
  BY AirdropAssumption DEF JobFields, Idle, Carrying
<1>6. /\ req'[r] = Idle
      /\ \A q \in Request : q # r => req'[q] = req[q]
      /\ req' = [q \in Request |-> req'[q]]
      /\ \A q \in Request : JobFields(req'[q])
  BY <1>1, <1>5, StepFields DEF IInv
<1>7. Shape'
  BY <1>1, <1>4, <1>6 DEF IInv, Shape
<1>8. JobInv'
  <2>1. JobOk(Idle, airdrops)
    BY <1>5 DEF JobOk, DraftPcs, Posted, EarlyPcs, LatePcs
  <2>2. Idle.pc \notin DraftPcs
    BY <1>5 DEF DraftPcs
  <2> QED  BY <1>1, <1>5, <2>1, <2>2, StepJobs DEF IInv
<1>9. /\ Held(a)' \subseteq Held(a) \cup {tx}
      /\ tx = NoTx => Held(a)' \subseteq Held(a)
      /\ \A b \in Airdrop \ {a} : Held(b)' \subseteq Held(b)
  BY <1>1, <1>2, <1>4, <1>5, <1>6 DEF Held
<1>10. \A q \in Request : Carries(q)' =>
         /\ Carries(q) /\ req'[q] = req[q] /\ req[q].a \in Airdrop \ {a}
  <2> SUFFICES ASSUME NEW q \in Request, Carries(q)'
               PROVE  Carries(q) /\ req'[q] = req[q] /\ req[q].a \in Airdrop \ {a}
    OBVIOUS
  <2>1. q # r
    BY <1>5, <1>6 DEF Carries
  <2>2. Carries(q) /\ req'[q] = req[q]
    BY <1>6, <2>1 DEF Carries
  <2>3. req[q].a # a
    BY <1>0, <1>1, <2>1, <2>2 DEF CarryInv
  <2> QED  BY <2>2, <2>3 DEF Carries, Carrying, IInv, JobInv, JobOk
<1>11. HeldInv(a)'
  <2>1. req[r].tx \in accepted /\ (\A t \in Held(a) : t.k <= k) /\ HeldInv(a)
    BY <1>0, <1>1, <1>2 DEF CarryInv, Order
  <2>2. req[r].tx \in Held(a)
    BY <1>0, <1>2 DEF Held
  <2>3. ASSUME NEW i \in Chunk, i < k + 1
        PROVE  \E u \in accepted : u.a = a /\ u.k = i
    <3>1. CASE i = k
      BY <1>2, <2>1, <2>2, <3>1 DEF HeldInv
    <3>2. CASE i < k
      BY <1>2, <2>1, <2>2, <3>2 DEF HeldInv
    <3> QED  BY <1>2, <2>3, <3>1, <3>2, AirdropAssumption DEF Chunk
  <2>4. CASE tx = NoTx
    BY <1>1, <1>9, <2>1, <2>4 DEF HeldInv
  <2>5. CASE tx # NoTx
    <3>1. tx.a = a /\ tx.k = k + 1 /\ tx.k \in Chunk
      BY <1>2, <1>3, <2>5, AirdropAssumption DEF Chunk
    <3>2. \A t \in Held(a) : t.k # tx.k
      BY <1>2, <2>1, <3>1, AirdropAssumption DEF HeldInv, Chunk
    <3> SUFFICES ASSUME NEW s \in Held(a)'
                 PROVE  /\ s.a = a /\ s.k \in Chunk
                        /\ \A t \in Held(a)' : s.k = t.k => s = t
                        /\ \A i \in Chunk : i < s.k => \E u \in accepted' : u.a = a /\ u.k = i
      BY DEF HeldInv
    <3>3. CASE s = tx
      BY <1>1, <1>9, <2>3, <3>1, <3>2, <3>3
    <3>4. CASE s # tx
      <4>1. s \in Held(a)  BY <1>9, <3>4
      <4> QED  BY <1>1, <1>9, <2>1, <3>2, <4>1 DEF HeldInv
    <3> QED  BY <3>3, <3>4
  <2> QED  BY <2>4, <2>5
<1>12. Order'
  <2>1. ASSUME NEW b \in Airdrop  PROVE HeldInv(b)'
    <3>1. CASE b = a  BY <1>11, <3>1
    <3>2. CASE b # a  BY <1>1, <1>9, <3>2 DEF Order, HeldInv
    <3> QED  BY <3>1, <3>2
  <2>2. ASSUME NEW q \in Request  PROVE CarryInv(q)'
    BY <1>1, <1>9, <1>10 DEF Order, CarryInv
  <2> QED  BY <1>1, <2>1, <2>2 DEF Order
<1>13. HaltInv'
  <2>1. \A i \in Chunk : txs[a][i].reason # "halted"
    BY <1>0, <1>1, <1>2 DEF IInv, HaltInv
  <2> QED  BY <1>1, <1>9, <1>10, <2>1 DEF IInv, HaltInv, Paid
<1>14. \A b \in Airdrop : DraftInv(b)'
  BY <1>1, <1>2, <1>4 DEF IInv, DraftInv
<1>15. RowsInv'
  BY <1>1 DEF IInv, RowsInv, Recorded, InState, Paid
<1>16. CompleteInv'
  <2>1. \A b : Paid(b)' = Paid(b)
    BY <1>1 DEF Paid
  <2> QED  BY <1>1, <1>5, <1>6, <2>1 DEF IInv, CompleteInv, Paid
<1> QED  BY <1>7, <1>8, <1>12, <1>13, <1>14, <1>15, <1>16 DEF IInv

----------------------------------------------------------------------------
(* The inductive invariant.                                                *)

LEMMA InitInv == Init => IInv
<1> SUFFICES ASSUME Init
             PROVE  IInv
  OBVIOUS
<1> USE DEF Init
<1>1. Idle.pc = "idle" /\ Idle.a = None /\ None \notin Airdrop /\ JobFields(Idle)
      /\ ~Carrying(Idle)
  BY AirdropAssumption DEF Idle, JobFields, Carrying
<1>2. Shape
  BY <1>1 DEF Shape, DraftFields, RowFields
<1>3. JobInv
  <2>1. JobOk(Idle, airdrops)
    BY <1>1 DEF JobOk, DraftPcs, Posted, EarlyPcs, LatePcs
  <2>2. ASSUME NEW r \in Request  PROVE JobOk(req[r], airdrops) /\ Alone(r)
    <3>1. req[r] = Idle  OBVIOUS
    <3>2. Alone(r)  BY <1>1, <3>1 DEF Alone, DraftPcs
    <3> QED  BY <2>1, <3>1, <3>2
  <2> QED  BY <2>2 DEF JobInv
<1>4. \A a \in Airdrop : DraftInv(a)
  BY DEF DraftInv
<1>5. \A a \in Airdrop : Held(a) = {}
  BY <1>1 DEF Held
<1>6. \A r \in Request : ~Carries(r)
  BY <1>1 DEF Carries
<1>7. Order
  BY <1>5, <1>6 DEF Order, HeldInv, CarryInv
<1>8. RowsInv
  BY DEF RowsInv, Recorded, InState
<1>9. HaltInv
  BY DEF HaltInv
<1>10. CompleteInv
  BY <1>1 DEF CompleteInv
<1> QED  BY <1>2, <1>3, <1>4, <1>7, <1>8, <1>9, <1>10 DEF IInv

LEMMA NextInv == IInv /\ [Next]_vars => IInv'
<1> SUFFICES ASSUME IInv, [Next]_vars
             PROVE  IInv'
  OBVIOUS
<1>1. CASE \E r \in Request : Draft(r)
  BY <1>1, DraftHoldersStep, DraftSnapshotStep, DraftBuildStep, DraftInsertStep,
     DraftConflictStep DEF Draft
<1>2. CASE \E r \in Request : Broadcast(r)
  BY <1>2, LoadStep, CheckStep, SendAcceptedStep, SendFailsStep, SendTimesOutStep,
     MarkDoneStep, MarkUnsureStep, MarkConflictStep, MarkLostStep, MarkFailStep, RollReadStep,
     RollWriteStep, RollConflictStep, CheckFreshStep, HaltStep, BuildNextStep
     DEF Broadcast
<1>3. CASE Sender
  BY <1>3, LeaveStep, PostStep DEF Sender
<1>4. CASE Trouble
  BY <1>4, CrashStep, FailStep, ScanFailsStep, LoseAnswerStep DEF Trouble
<1>5. CASE World
  BY <1>5, WorldStep DEF World, Receive, Mine, ScanForOthers, Index, HoldersMove,
     database, chainview, node
<1>6. CASE UNCHANGED vars
  BY <1>6, WorldStep DEF vars
<1> QED  BY <1>1, <1>2, <1>3, <1>4, <1>5, <1>6 DEF Next

LEMMA Inductive == Spec => []IInv
BY InitInv, NextInv, PTL DEF Spec

(* A receipt that says 'complete' means every chunk was accepted, however  *)
(* the requests that computed the state overlapped.                        *)
THEOREM Complete == Spec => []CompleteMeansPaid
<1>1. IInv => CompleteMeansPaid
  BY DEF IInv, CompleteInv, CompleteMeansPaid
<1> QED  BY <1>1, Inductive, PTL

(* A chunk halted because the holders moved is never paid.                 *)
THEOREM Halted == Spec => []HaltedNeverPaid
<1>1. IInv => HaltedNeverPaid
  BY DEF IInv, HaltInv, HaltedNeverPaid
<1> QED  BY <1>1, Inductive, PTL

----------------------------------------------------------------------------
(* One open airdrop.                                                       *)

LEMMA OpenStep == IInv /\ OneOpen /\ [Next]_vars => OneOpen'
<1> SUFFICES ASSUME IInv, OneOpen, [Next]_vars
             PROVE  OneOpen'
  OBVIOUS
<1>1. airdrops = [a \in Airdrop |-> airdrops[a]] /\ \A a \in Airdrop : DraftFields(airdrops[a])
  BY DEF IInv, Shape
<1>2. CASE airdrops' = airdrops
  BY <1>2 DEF OneOpen
<1>3. ASSUME NEW r \in Request, DraftInsert(r)
      PROVE  OneOpen'
  <2>1. PICK a : a = req[r].a
    OBVIOUS
  <2>2. \A b \in Airdrop \ {a} : airdrops'[b] = airdrops[b] /\ airdrops[b].state \notin OpenStates
    BY <1>1, <1>3, <2>1 DEF DraftInsert, AnotherOpen
  <2> QED  BY <2>2 DEF OneOpen, OpenStates
<1>4. ASSUME NEW r \in Request, RollWrite(r)
      PROVE  OneOpen'
  <2>1. PICK a : a = req[r].a
    OBVIOUS
  <2>2. airdrops' = [airdrops EXCEPT ![a].state = req[r].rolled]
    BY <1>4, <2>1 DEF RollWrite
  <2>3. \A b \in Airdrop \ {a} : airdrops'[b] = airdrops[b]
    BY <1>1, <2>2
  <2>4. a \in Airdrop => airdrops'[a].state = req[r].rolled
    BY <1>1, <2>2 DEF DraftFields
  <2>5. CASE req[r].rolled \in OpenStates
    <3>1. \A b \in Airdrop \ {a} : airdrops[b].state \notin OpenStates
      BY <1>4, <2>1, <2>5 DEF RollWrite, Unique, AnotherOpen
    <3> QED  BY <2>3, <3>1 DEF OneOpen, OpenStates
  <2>6. CASE req[r].rolled \notin OpenStates
    BY <2>3, <2>4, <2>6 DEF OneOpen, OpenStates
  <2> QED  BY <2>5, <2>6
<1>5. CASE \E r \in Request : Draft(r)
  BY <1>2, <1>3, <1>5 DEF Draft, DraftHolders, DraftSnapshot, DraftBuild, DraftConflict,
     Refuse, database
<1>6. CASE \E r \in Request : Broadcast(r)
  BY <1>2, <1>4, <1>6 DEF Broadcast, Load, Check, SendAccepted, SendRejected, SendRefused,
     SendTimesOut, MarkDone, MarkUnsure, MarkConflict, MarkLost, MarkFail, RollRead, RollConflict,
     CheckFresh, Halt, BuildNext, Refuse, database
<1>7. CASE Sender \/ Trouble \/ World
  BY <1>2, <1>7 DEF Sender, Post, Leave, Trouble, Crash, Fail, ScanFails, LoseAnswer, World,
     Receive, Mine, ScanForOthers, Index, HoldersMove, database
<1>8. CASE UNCHANGED vars
  BY <1>2, <1>8 DEF vars
<1> QED  BY <1>5, <1>6, <1>7, <1>8 DEF Next

(* A sender has at most one airdrop being drafted or signed.               *)
THEOREM OneAtATime == Spec => []OneOpen
<1>1. Init => OneOpen
  BY DEF Init, OneOpen
<1> QED  BY <1>1, OpenStep, Inductive, PTL DEF Spec

----------------------------------------------------------------------------
(* The refinement: a chunk is paid when the node accepts its transaction,  *)
(* and recorded when its row is written.                                   *)

Paying(a, k) == {tx \in accepted : tx.a = a /\ tx.k = k}

payments == [a \in Airdrop |-> [k \in Chunk |-> Cardinality(Paying(a, k))]]
claimed == [a \in Airdrop |-> Recorded(a)]

LEMMA PaidOnce ==
  ASSUME IInv, NEW a \in Airdrop, NEW k \in Chunk
  PROVE  Cardinality(Paying(a, k)) = IF k \in Paid(a) THEN 1 ELSE 0
<1>1. CASE k \in Paid(a)
  <2>1. PICK tx \in accepted : tx.a = a /\ tx.k = k
    BY <1>1 DEF Paid
  <2>2. \A u \in Paying(a, k) : u = tx
    BY <2>1 DEF IInv, Order, HeldInv, Held, Paying
  <2>3. Paying(a, k) = {tx}
    BY <2>1, <2>2 DEF Paying
  <2> QED  BY <1>1, <2>3, FS_Singleton
<1>2. CASE k \notin Paid(a)
  <2>1. Paying(a, k) = {}
    BY <1>2 DEF Paid, Paying
  <2> QED  BY <1>2, <2>1, FS_EmptySet
<1> QED  BY <1>1, <1>2

LEMMA RecordStep ==
  ASSUME IInv, IInv', accepted' = accepted, NEW a \in Airdrop,
         \A b \in Airdrop : b # a => txs'[b] = txs[b]
  PROVE  payments' = payments /\ Payouts!Record(a)
<1>1. payments' = payments
  BY DEF payments, Paying
<1>2. claimed' = [claimed EXCEPT ![a] = Recorded(a)']
  BY DEF claimed, Recorded, InState
<1>3. \A k \in Recorded(a)' : k \in Chunk /\ payments[a][k] > 0
  <2> SUFFICES ASSUME NEW k \in Recorded(a)'
               PROVE  k \in Chunk /\ payments[a][k] > 0
    OBVIOUS
  <2>1. k \in Chunk
    BY DEF Recorded, InState
  <2>2. k \in Paid(a)
    BY DEF IInv, RowsInv, Paid
  <2>3. Cardinality(Paying(a, k)) = 1
    BY <2>1, <2>2, PaidOnce
  <2> QED  BY <2>1, <2>3 DEF payments
<1>4. Payouts!Record(a)
  BY <1>1, <1>2, <1>3 DEF Payouts!Record, Payouts!Chunk, Chunk, claimed, payments, Paying
<1> QED  BY <1>1, <1>4

LEMMA PayStep ==
  ASSUME IInv, IInv', txs' = txs, NEW r \in Request, req[r].pc = "send",
         req[r].tx \notin accepted, accepted' = accepted \cup {req[r].tx}
  PROVE  \E a \in Airdrop, k \in Chunk : Payouts!Pay(a, k)
<1>1. PICK a, k, tx : a = req[r].a /\ k = req[r].k /\ tx = req[r].tx
  OBVIOUS
<1>2. a \in Airdrop /\ k \in Chunk /\ tx # NoTx /\ tx.k = k
  BY <1>1 DEF IInv, JobInv, JobOk, Posted, EarlyPcs
<1>3. tx \in Held(a) /\ tx.a = a /\ tx \notin accepted /\ accepted' = accepted \cup {tx}
  BY <1>1, <1>2 DEF IInv, Order, HeldInv, Held
<1>4. k \notin Paid(a) /\ k \in Paid(a)'
  <2>1. k \notin Paid(a)
    BY <1>2, <1>3 DEF IInv, Order, HeldInv, Held, Paid
  <2>2. k \in Paid(a)'
    BY <1>2, <1>3 DEF Paid
  <2> QED  BY <2>1, <2>2
<1>5. \A i \in Chunk : i < k => i \in Paid(a)
  BY <1>2, <1>3 DEF IInv, Order, HeldInv, Paid
<1>6. payments[a][k] = 0 /\ \A i \in Chunk : i < k => payments[a][i] = 1
  BY <1>2, <1>4, <1>5, PaidOnce DEF payments
<1>7. Paying(a, k)' = {tx}
  <2>1. Paying(a, k) = {}
    BY <1>4 DEF Paid, Paying
  <2> QED  BY <1>2, <1>3, <2>1 DEF Paying
<1>8. \A b \in Airdrop, i \in Chunk : (b # a \/ i # k) => Paying(b, i)' = Paying(b, i)
  BY <1>2, <1>3 DEF Paying
<1>9. payments' = [payments EXCEPT ![a][k] = 1]
  <2>1. Cardinality(Paying(a, k)') = 1
    BY <1>7, FS_Singleton
  <2> QED  BY <1>2, <1>8, <2>1 DEF payments
<1>10. claimed' = claimed
  BY DEF claimed, Recorded, InState
<1>11. Payouts!Pay(a, k)
  BY <1>2, <1>6, <1>9, <1>10 DEF Payouts!Pay, Payouts!Chunk, Chunk, claimed, payments, Paying
<1> QED  BY <1>2, <1>11

LEMMA PayoutsInit == Init => Payouts!Init
<1> SUFFICES ASSUME Init
             PROVE  Payouts!Init
  OBVIOUS
<1>1. \A a \in Airdrop, k \in Chunk : Cardinality(Paying(a, k)) = 0
  <2> SUFFICES ASSUME NEW a \in Airdrop, NEW k \in Chunk
               PROVE  Cardinality(Paying(a, k)) = 0
    OBVIOUS
  <2>1. Paying(a, k) = {}
    BY DEF Init, Paying
  <2> QED  BY <2>1, FS_EmptySet
<1>2. \A a \in Airdrop : Recorded(a) = {}
  BY DEF Init, Recorded, InState
<1> QED  BY <1>1, <1>2 DEF Payouts!Init, Payouts!Chunk, Chunk, Paying

LEMMA PayoutsStep ==
  IInv /\ IInv' /\ [Next]_vars => [Payouts!Next]_<<payments, claimed>>
<1> SUFFICES ASSUME IInv, IInv', [Next]_vars
             PROVE  Payouts!Next \/ UNCHANGED <<payments, claimed>>
  OBVIOUS
<1>1. CASE UNCHANGED <<txs, accepted>>
  BY <1>1 DEF payments, claimed, Paying, Recorded, InState
<1>2. ASSUME NEW r \in Request, MarkDone(r) \/ MarkUnsure(r) \/ MarkFail(r) \/ Halt(r)
      PROVE  Payouts!Next
  <2>1. PICK a : a = req[r].a
    OBVIOUS
  <2>2. a \in Airdrop
    BY <1>2, <2>1 DEF MarkDone, MarkUnsure, MarkFail, Halt, IInv, JobInv, JobOk
  <2>3. accepted' = accepted
    BY <1>2 DEF MarkDone, MarkUnsure, MarkFail, Halt, Outside, node
  <2>4. \A b \in Airdrop : b # a => txs'[b] = txs[b]
    BY <1>2, <2>1, <2>2 DEF MarkDone, MarkUnsure, MarkFail, Halt, SetRow, IInv, Shape
  <2> QED  BY <2>2, <2>3, <2>4, RecordStep DEF Payouts!Next
<1>3. ASSUME NEW r \in Request, SendAccepted(r) \/ SendTimesOut(r)
      PROVE  Payouts!Next
  <2>1. \E a \in Airdrop, k \in Chunk : Payouts!Pay(a, k)
    BY <1>3, PayStep DEF SendAccepted, SendTimesOut, Acceptable, database
  <2> QED  BY <2>1 DEF Payouts!Next, Payouts!Chunk, Chunk
<1>4. CASE \E r \in Request : Draft(r)
  BY <1>1, <1>4 DEF Draft, DraftHolders, DraftSnapshot, DraftBuild, DraftInsert,
     DraftConflict, Refuse, Outside, database, node
<1>5. CASE \E r \in Request : Broadcast(r)
  BY <1>1, <1>2, <1>3, <1>5 DEF Broadcast, Load, Check, SendRejected, SendRefused,
     MarkConflict, MarkLost, RollRead, RollWrite, RollConflict, CheckFresh, BuildNext,
     Refuse, Outside, database, node
<1>6. CASE Sender \/ Trouble \/ World
  BY <1>1, <1>6 DEF Sender, Post, Leave, Trouble, Crash, Fail, ScanFails, LoseAnswer, World,
     Receive, Mine, ScanForOthers, Index, HoldersMove, Outside, database, node
<1>7. CASE UNCHANGED vars
  BY <1>1, <1>7 DEF vars
<1> QED  BY <1>4, <1>5, <1>6, <1>7 DEF Next

(* The airdrop keeps the ledger: chunks are paid in order, none twice, and *)
(* what the directory records as paid is paid.                             *)
THEOREM Refinement == Spec => LedgerKept
<1>1. [Payouts!Next]_<<payments, claimed>> =>
        [Payouts!Next]_<<[a \in Airdrop |-> [k \in Chunk |->
                            Cardinality({tx \in accepted : tx.a = a /\ tx.k = k})]],
                         [a \in Airdrop |-> Recorded(a)]>>
  BY DEF payments, claimed, Paying
<1> QED  BY <1>1, Inductive, PayoutsInit, PayoutsStep, PTL
         DEF Spec, LedgerKept, Payouts!Spec

----------------------------------------------------------------------------
(* What a receipt shows.  An airdrop no fault, overlap or retry has        *)
(* touched has at most one request.  What is paid is recorded, save the    *)
(* chunk of a request that has still to mark it; and the state is that of  *)
(* the rows, save while a request recomputes it.                           *)
Told(a) ==
  \/ airdrops[a].state \in {"absent", "drafting"} /\ \A k \in Chunk : txs[a][k].state = "pending"
  \/ airdrops[a].state = Rolled(txs[a])

Fits(j, a) ==
  /\ \A k \in Paid(a) \ Recorded(a) : j.pc = "mark" /\ j.k = k
  /\ j.pc \in {"send", "markFail"} => txs[a][j.k].state # "broadcast"
  /\ j.pc = "mark" => txs[a][j.k].state = "pending"
  /\ j.pc = "rolled" => j.rolled = Rolled(txs[a])
  /\ j.pc \notin {"roll", "rolled"} => Told(a)

Fitting(a) ==
  \/ Quiet(a) /\ Fits(Idle, a)
  \/ \E r \in Request : req[r].a = a /\ Fits(req[r], a) /\ \A q \in Request \ {r} : req[q].a # a

Untouched == Airdrop \ (broken \cup retried)

RowStates ==
  \A a \in Airdrop, k \in Chunk :
    /\ txs[a][k].state \in {"pending", "broadcast", "failed"}
    /\ airdrops[a].state = "absent" => txs[a][k].state = "pending"

ShownInv == RowStates /\ \A a \in Untouched : Fitting(a)

(* One row is written.                                                     *)
LEMMA RowSet ==
  ASSUME Shape, NEW a \in Airdrop, NEW k \in Chunk, NEW w, SetRow(a, k, w)
  PROVE  /\ txs'[a][k] = w /\ \A m \in Chunk \ {k} : txs'[a][m] = txs[a][m]
         /\ \A b \in Airdrop \ {a} : txs'[b] = txs[b]
<1>1. PICK t : t = txs
  OBVIOUS
<1>2. t = [b \in Airdrop |-> [m \in Chunk |-> t[b][m]]] /\ txs' = [t EXCEPT ![a][k] = w]
  BY <1>1 DEF Shape, SetRow
<1>3. /\ txs'[a][k] = w /\ \A m \in Chunk \ {k} : txs'[a][m] = t[a][m]
      /\ \A b \in Airdrop \ {a} : txs'[b] = t[b]
  BY <1>2
<1> QED BY <1>1, <1>3

(* The chunk a request of the broadcast is about.                          *)
LEMMA PostedJob ==
  ASSUME IInv, NEW r \in Request, req[r].pc \in Posted
  PROVE  /\ req[r].a \in Airdrop /\ req[r].k \in Chunk /\ airdrops[req[r].a].state # "absent"
         /\ req[r].tx.a = req[r].a /\ req[r].tx.k = req[r].k
<1>1. /\ req[r].a \in Airdrop /\ req[r].k \in Chunk /\ airdrops[req[r].a].state # "absent"
      /\ req[r].tx # NoTx /\ req[r].tx.k = req[r].k
  <2>1. JobOk(req[r], airdrops)
    BY DEF IInv, JobInv
  <2> QED BY <2>1 DEF JobOk, Posted, EarlyPcs, LatePcs
<1>2. req[r].tx \in Held(req[r].a)
  BY <1>1 DEF Held
<1>3. req[r].tx.a = req[r].a
  BY <1>1, <1>2 DEF IInv, Order, HeldInv
<1> QED BY <1>1, <1>3

(* A halt writes the rows after its chunk that could still be marked.      *)
LEMMA HaltRows ==
  ASSUME Shape, NEW r \in Request, Halt(r), req[r].a \in Airdrop
  PROVE  /\ \A b \in Airdrop \ {req[r].a} : txs'[b] = txs[b]
         /\ \A k \in Chunk :
              \/ txs'[req[r].a][k] = txs[req[r].a][k]
              \/ txs'[req[r].a][k].state = "failed" /\ txs[req[r].a][k].state \in {"pending", "signed"}
<1>1. PICK t, a, from : t = txs /\ a = req[r].a /\ from = NextIdx(req[r].k)
  OBVIOUS
<1>2. t = [b \in Airdrop |-> t[b]] /\ \A k \in Chunk : RowFields(t[a][k])
  BY <1>1 DEF Shape
<1>3. txs' = [t EXCEPT ![a] = HaltedRows(t[a], from)]
  BY <1>1 DEF Halt
<1>4. txs'[a] = HaltedRows(t[a], from) /\ \A b \in Airdrop \ {a} : txs'[b] = t[b]
  BY <1>1, <1>2, <1>3
<1>5. ASSUME NEW k \in Chunk
      PROVE  \/ HaltedRows(t[a], from)[k] = t[a][k]
             \/ HaltedRows(t[a], from)[k].state = "failed" /\ t[a][k].state \in {"pending", "signed"}
  <2>1. CASE k >= from /\ Markable(t[a][k])
    <3>1. HaltedRows(t[a], from)[k] = [t[a][k] EXCEPT !.state = "failed", !.reason = "halted"]
      BY <2>1 DEF HaltedRows
    <3>2. HaltedRows(t[a], from)[k].state = "failed"
      BY <1>2, <3>1 DEF RowFields
    <3> QED BY <2>1, <3>2 DEF Markable
  <2>2. CASE ~(k >= from /\ Markable(t[a][k]))
    BY <2>2 DEF HaltedRows
  <2> QED BY <2>1, <2>2
<1> QED BY <1>1, <1>4, <1>5

LEMMA DraftRowsStep ==
  ASSUME IInv, NEW r \in Request, DraftInsert(r)
  PROVE  /\ req[r].a \in Airdrop /\ airdrops[req[r].a].state = "absent"
         /\ airdrops'[req[r].a].state = "drafting"
         /\ \A b \in Airdrop \ {req[r].a} : airdrops'[b] = airdrops[b]
<1>1. req[r].pc = "insert" /\ JobOk(req[r], airdrops) /\ airdrops = [a \in Airdrop |-> airdrops[a]]
  BY DEF IInv, JobInv, Shape, DraftInsert
<1>2. req[r].a \in Airdrop /\ airdrops[req[r].a].state = "absent"
  BY <1>1 DEF JobOk, DraftPcs
<1>3. airdrops' = [airdrops EXCEPT ![req[r].a] =
                     [state |-> "drafting", snap |-> req[r].snap, list |-> req[r].list]]
  BY DEF DraftInsert
<1> QED BY <1>1, <1>2, <1>3

LEMMA RollStateStep ==
  ASSUME IInv, NEW r \in Request, RollWrite(r)
  PROVE  /\ req[r].a \in Airdrop /\ airdrops'[req[r].a].state = req[r].rolled /\ req[r].rolled \in AirdropStates
         /\ airdrops[req[r].a].state # "absent"
         /\ \A b \in Airdrop \ {req[r].a} : airdrops'[b] = airdrops[b]
<1>1. req[r].pc = "rolled" /\ JobOk(req[r], airdrops) /\ airdrops = [a \in Airdrop |-> airdrops[a]]
      /\ \A a \in Airdrop : DraftFields(airdrops[a])
  BY DEF IInv, JobInv, Shape, RollWrite
<1>2. req[r].a \in Airdrop /\ req[r].rolled \in AirdropStates /\ airdrops[req[r].a].state # "absent"
  BY <1>1 DEF JobOk, Posted, LatePcs
<1>3. airdrops' = [airdrops EXCEPT ![req[r].a].state = req[r].rolled]
  BY DEF RollWrite
<1> QED BY <1>1, <1>2, <1>3 DEF DraftFields

LEMMA RowStatesStep == ASSUME IInv, RowStates, [Next]_vars PROVE RowStates'
<1>1. CASE UNCHANGED <<airdrops, txs>>
  BY <1>1 DEF RowStates
<1>2. ASSUME NEW r \in Request, DraftInsert(r) PROVE RowStates'
  BY <1>2, DraftRowsStep DEF RowStates, DraftInsert
<1>3. ASSUME NEW r \in Request, RollWrite(r) PROVE RowStates'
  <2>1. txs' = txs
    BY <1>3 DEF RollWrite
  <2> QED BY <1>3, <2>1, RollStateStep DEF RowStates, AirdropStates
<1>4. ASSUME NEW r \in Request, req[r].pc \in Posted, NEW w, SetRow(req[r].a, req[r].k, w),
             w.state \in {"broadcast", "failed"}, airdrops' = airdrops
      PROVE  RowStates'
  <2>1. req[r].a \in Airdrop /\ req[r].k \in Chunk /\ airdrops[req[r].a].state # "absent"
    BY <1>4, PostedJob
  <2>2. /\ txs'[req[r].a][req[r].k] = w
        /\ \A m \in Chunk \ {req[r].k} : txs'[req[r].a][m] = txs[req[r].a][m]
        /\ \A b \in Airdrop \ {req[r].a} : txs'[b] = txs[b]
    BY <1>4, <2>1, RowSet DEF IInv
  <2> QED BY <1>4, <2>1, <2>2 DEF RowStates
<1>5. ASSUME NEW r \in Request, MarkDone(r) \/ MarkUnsure(r) \/ MarkFail(r) PROVE RowStates'
  <2>1. req[r].pc \in Posted /\ airdrops' = airdrops
    BY <1>5 DEF MarkDone, MarkUnsure, MarkFail, Posted, LatePcs
  <2>2. \E w : SetRow(req[r].a, req[r].k, w) /\ w.state \in {"broadcast", "failed"}
    BY <1>5 DEF MarkDone, MarkUnsure, MarkFail
  <2> QED BY <1>4, <2>1, <2>2
<1>6. ASSUME NEW r \in Request, Halt(r) PROVE RowStates'
  <2>1. req[r].pc \in Posted /\ airdrops' = airdrops
    BY <1>6 DEF Halt, Posted, LatePcs
  <2>2. req[r].a \in Airdrop /\ airdrops[req[r].a].state # "absent" /\ Shape
    BY <2>1, PostedJob DEF IInv
  <2> QED BY <1>6, <2>1, <2>2, HaltRows DEF RowStates
<1>7. CASE \E r \in Request : Draft(r)
  BY <1>1, <1>2, <1>7 DEF Draft, DraftHolders, DraftSnapshot, DraftBuild, DraftConflict,
     Refuse, database
<1>8. CASE \E r \in Request : Broadcast(r)
  BY <1>1, <1>3, <1>5, <1>6, <1>8 DEF Broadcast, Load, Check, SendAccepted, SendRejected, SendRefused,
     SendTimesOut, MarkConflict, MarkLost, RollRead, RollConflict, CheckFresh, BuildNext, Refuse, database
<1>9. CASE Sender \/ Trouble \/ World
  BY <1>1, <1>9 DEF Sender, Post, Leave, Trouble, Crash, Fail, ScanFails, LoseAnswer, World,
     Receive, Mine, ScanForOthers, Index, HoldersMove, database
<1>10. CASE UNCHANGED vars
  BY <1>1, <1>10 DEF vars
<1> QED BY <1>7, <1>8, <1>9, <1>10 DEF Next

(* A step of one request of an airdrop leaves the other airdrops alone.    *)
LEMMA FitsFrame ==
  ASSUME NEW i, NEW b, txs'[b] = txs[b], airdrops'[b].state = airdrops[b].state, Paid(b)' = Paid(b), Fits(i, b)
  PROVE  Fits(i, b)'
BY DEF Fits, Told, Recorded

OnlyAt(a) ==
  /\ broken \subseteq broken' /\ retried \subseteq retried'
  /\ \A b \in Airdrop \ {a} : txs'[b] = txs[b] /\ airdrops'[b].state = airdrops[b].state /\ Paid(b)' = Paid(b)

LEMMA RequestShown ==
  ASSUME Shape, RowStates', ShownInv, NEW a \in Airdrop, OnlyAt(a),
         NEW r \in Request, NEW j, JobFields(j), req' = [req EXCEPT ![r] = j],
         \/ req[r].a = a
         \/ req[r] = Idle /\ (a \in Untouched' => Quiet(a)),
         j.a = a \/ j = Idle,
         a \in Untouched' => (Fits(req[r], a) => Fits(j, a)')
  PROVE  ShownInv'
<1>1. req'[r] = j /\ \A q \in Request \ {r} : req'[q] = req[q]
  BY StepFields
<1>2. Idle.a = None /\ None \notin Airdrop
  BY AirdropAssumption DEF Idle
<1>3. ASSUME NEW b \in Untouched', b # a PROVE Fitting(b)'
  <2>1. b \in Untouched /\ b \in Airdrop
    BY <1>3 DEF Untouched, OnlyAt
  <2>2. Fitting(b)
    BY <2>1 DEF ShownInv
  <2>3. \A i : Fits(i, b) => Fits(i, b)'
    BY <1>3, <2>1, FitsFrame DEF OnlyAt
  <2>4. req[r].a # b /\ req'[r].a # b
    BY <1>1, <1>2, <1>3, <2>1
  <2>5. CASE Quiet(b) /\ Fits(Idle, b)
    <3>1. Quiet(b)'
      BY <1>1, <2>4, <2>5 DEF Quiet
    <3> QED BY <2>3, <2>5, <3>1 DEF Fitting
  <2>6. ASSUME NEW p \in Request, req[p].a = b, Fits(req[p], b), \A q \in Request \ {p} : req[q].a # b
        PROVE  Fitting(b)'
    <3>1. req'[p] = req[p] /\ \A q \in Request \ {p} : req'[q].a # b
      BY <1>1, <2>4, <2>6
    <3> QED BY <2>3, <2>6, <3>1 DEF Fitting
  <2> QED BY <2>2, <2>5, <2>6 DEF Fitting
<1>4. ASSUME a \in Untouched' PROVE Fitting(a)'
  <2>1. a \in Untouched /\ Fitting(a)
    BY <1>4 DEF Untouched, OnlyAt, ShownInv
  <2>2. Fits(req[r], a) /\ \A q \in Request \ {r} : req[q].a # a
    <3>1. CASE req[r].a = a
      BY <2>1, <3>1 DEF Fitting, Quiet
    <3>2. CASE req[r] = Idle /\ Quiet(a)
      BY <2>1, <3>2 DEF Fitting, Quiet
    <3> QED BY <1>4, <3>1, <3>2
  <2>3. Fits(j, a)' /\ \A q \in Request \ {r} : req'[q].a # a
    BY <1>1, <1>4, <2>2
  <2>4. CASE j.a = a
    BY <1>1, <2>3, <2>4 DEF Fitting
  <2>5. CASE j = Idle
    <3>1. Quiet(a)'
      BY <1>1, <1>2, <2>3, <2>5 DEF Quiet
    <3> QED BY <2>3, <2>5, <3>1 DEF Fitting
  <2> QED BY <2>4, <2>5
<1> QED BY <1>3, <1>4 DEF ShownInv

(* A request goes on, and writes nothing.                                  *)
LEMMA MovesShown ==
  ASSUME IInv, RowStates', ShownInv, NEW r \in Request, NEW j, JobFields(j), req' = [req EXCEPT ![r] = j],
         req[r].a \in Airdrop, j.a = req[r].a \/ j = Idle,
         UNCHANGED <<airdrops, txs, accepted>>, broken \subseteq broken', retried \subseteq retried',
         req[r].a \in Untouched' =>
           /\ req[r].pc \notin {"mark", "roll", "rolled"}
           /\ j.pc \notin {"mark", "roll", "rolled"}
           /\ j.pc \in {"send", "markFail"} => j.k = req[r].k /\
                (req[r].pc \in {"send", "markFail"} \/ Row(r).state # "broadcast")
  PROVE  ShownInv'
<1>1. PICK a : a = req[r].a
  OBVIOUS
<1>2. OnlyAt(a)
  BY DEF OnlyAt, Paid
<1>3. ASSUME a \in Untouched', Fits(req[r], a) PROVE Fits(j, a)'
  <2>1. Fits(j, a)
    BY <1>1, <1>3 DEF Fits, Row
  <2>2. Paid(a)' = Paid(a)
    BY DEF Paid
  <2> QED BY <2>1, <2>2, FitsFrame
<1>4. Shape
  BY DEF IInv
<1> QED BY <1>1, <1>2, <1>3, <1>4, RequestShown

LEMMA RestsShown ==
  ASSUME IInv, ShownInv, RowStates', req' = [r \in Request |-> req'[r]],
         UNCHANGED <<airdrops, txs, accepted>>, broken \subseteq broken', retried \subseteq retried',
         \A r \in Request : Kept(req'[r], req[r])
  PROVE  ShownInv'
<1>1. ASSUME NEW a \in Untouched' PROVE Fitting(a)'
  <2>1. Fitting(a) /\ Paid(a)' = Paid(a)
    BY <1>1 DEF ShownInv, Untouched, Paid
  <2>2. \A r \in Request : req'[r].a = req[r].a /\ (Fits(req[r], a) => Fits(req'[r], a))
    BY DEF Kept, Fits
  <2>3. \A i : Fits(i, a) => Fits(i, a)'
    BY <2>1, FitsFrame
  <2>4. CASE Quiet(a) /\ Fits(Idle, a)
    BY <2>2, <2>3, <2>4 DEF Quiet, Fitting
  <2>5. ASSUME NEW p \in Request, req[p].a = a, Fits(req[p], a), \A q \in Request \ {p} : req[q].a # a
        PROVE  Fitting(a)'
    BY <2>2, <2>3, <2>5 DEF Fitting
  <2> QED BY <2>1, <2>4, <2>5 DEF Fitting
<1> QED BY <1>1 DEF ShownInv

LEMMA IdleIs == JobFields(Idle) /\ Idle.pc = "idle" /\ Idle.a = None /\ None \notin Airdrop
BY AirdropAssumption DEF JobFields, Idle

(* A request of the airdrop's that is over has written nothing.            *)
LEMMA EndsShown ==
  ASSUME IInv, RowStates', ShownInv, NEW r \in Request, Answer(r), req[r].a \in Airdrop,
         UNCHANGED <<airdrops, txs, accepted>>, broken \subseteq broken', retried \subseteq retried',
         req[r].a \in Untouched' => req[r].pc \notin {"mark", "roll", "rolled"}
  PROVE  ShownInv'
<1>1. req' = [req EXCEPT ![r] = Idle]
  BY DEF Answer
<1> QED BY <1>1, IdleIs, MovesShown

LEMMA GoesShown ==
  ASSUME IInv, RowStates', ShownInv, NEW r \in Request, NEW pc, Goto(r, pc), req[r].a \in Airdrop,
         UNCHANGED <<airdrops, txs, accepted>>, broken \subseteq broken', retried \subseteq retried',
         req[r].a \in Untouched' =>
           /\ req[r].pc \notin {"mark", "roll", "rolled"}
           /\ pc \notin {"mark", "roll", "rolled"}
           /\ pc \in {"send", "markFail"} => req[r].pc = "send" \/ Row(r).state # "broadcast"
  PROVE  ShownInv'
<1> DEFINE j == Job(req[r], pc, req[r].tx, req[r].heard, req[r].snap, req[r].rolled, req[r].then)
<1>1. req' = [req EXCEPT ![r] = j]
  BY AtPc DEF Goto, IInv
<1>2. JobFields(j) /\ j.pc = pc /\ j.a = req[r].a /\ j.k = req[r].k
  BY JobIs
<1> HIDE DEF j
<1> QED BY <1>1, <1>2, MovesShown

LEMMA DraftShown ==
  ASSUME IInv, RowStates, RowStates', ShownInv, NEW r \in Request, Draft(r)
  PROVE  ShownInv'
<1>0. JobOk(req[r], airdrops) /\ Shape
  BY DEF IInv, JobInv
<1>1. ASSUME NEW a \in Airdrop, DraftHolders(r, a) PROVE ShownInv'
  <2>1. PICK j : j = NewJob("snapshot", a, NoTx, holders)
    OBVIOUS
  <2>2. JobFields(j) /\ j.pc = "snapshot" /\ j.a = a
    BY <2>1, NewJobIs
  <2>3. /\ req' = [req EXCEPT ![r] = j] /\ Quiet(a) /\ req[r] = Idle
        /\ UNCHANGED <<airdrops, txs, accepted, broken, retried>>
    BY <1>0, <1>1, <2>1 DEF DraftHolders, Quiet, JobOk, database, Outside, node, history
  <2>4. OnlyAt(a) /\ Paid(a)' = Paid(a)
    BY <2>3 DEF OnlyAt, Paid
  <2>5. Fits(Idle, a) => Fits(j, a)
    BY <2>2, IdleIs DEF Fits
  <2>6. Fits(Idle, a) => Fits(j, a)'
    BY <2>3, <2>4, <2>5, FitsFrame
  <2> QED BY <1>0, <2>2, <2>3, <2>4, <2>6, RequestShown
<1>2. CASE DraftSnapshot(r)
  <2>1. PICK snap : req' = [req EXCEPT ![r].snap = snap, ![r].pc = "build"]
    BY <1>2 DEF DraftSnapshot
  <2>2. PICK j : j = Job(req[r], "build", req[r].tx, req[r].heard, snap, req[r].rolled, req[r].then)
    OBVIOUS
  <2>3. req' = [req EXCEPT ![r] = j]
    <3>1. req' = [req EXCEPT ![r] = Job(req[r], "build", req[r].tx, req[r].heard, snap, req[r].rolled,
                                        req[r].then)]
      BY ONLY <1>0, <2>1, AtSnap, r \in Request
    <3> QED BY <2>2, <3>1
  <2>4. JobFields(j) /\ j.pc = "build" /\ j.a = req[r].a
    BY <2>2, JobIs
  <2>5. req[r].pc = "snapshot" /\ req[r].a \in Airdrop /\ UNCHANGED <<airdrops, txs, accepted, broken, retried>>
    BY <1>0, <1>2 DEF DraftSnapshot, JobOk, database, Outside, node, history
  <2> QED BY <2>3, <2>4, <2>5, MovesShown
<1>3. CASE DraftBuild(r)
  <2>1. req[r].pc = "build" /\ req[r].a \in Airdrop /\ UNCHANGED <<airdrops, txs, accepted, broken, retried>>
    BY <1>0, <1>3 DEF DraftBuild, JobOk, database, Outside, node, history
  <2>2. CASE Answer(r)
    BY <2>1, <2>2, EndsShown
  <2>3. ASSUME NEW tx, req' = [req EXCEPT ![r].tx = tx, ![r].pc = "insert"] PROVE ShownInv'
    <3>1. PICK j : j = Job(req[r], "insert", tx, req[r].heard, req[r].snap, req[r].rolled, req[r].then)
      OBVIOUS
    <3>2. req' = [req EXCEPT ![r] = j]
      <4>1. req' = [req EXCEPT ![r] = Job(req[r], "insert", tx, req[r].heard, req[r].snap, req[r].rolled,
                                          req[r].then)]
        BY ONLY <1>0, <2>3, AtTx, r \in Request
      <4> QED BY <3>1, <4>1
    <3>3. JobFields(j) /\ j.pc = "insert" /\ j.a = req[r].a
      BY <3>1, JobIs
    <3> QED BY <2>1, <3>2, <3>3, MovesShown
  <2> QED BY <1>3, <2>2, <2>3 DEF DraftBuild
<1>4. CASE DraftInsert(r)
  <2>1. PICK a : a = req[r].a
    OBVIOUS
  <2>2. /\ a \in Airdrop /\ airdrops[a].state = "absent" /\ airdrops'[a].state = "drafting"
        /\ \A b \in Airdrop \ {a} : airdrops'[b] = airdrops[b]
    BY <1>4, <2>1, DraftRowsStep
  <2>3. req[r].pc = "insert" /\ req' = [req EXCEPT ![r] = Idle] /\ UNCHANGED <<txs, accepted, broken, retried>>
    BY <1>4 DEF DraftInsert, Answer, Outside, node, history
  <2>4. OnlyAt(a) /\ Paid(a)' = Paid(a) /\ Recorded(a)' = Recorded(a)
    BY <2>2, <2>3 DEF OnlyAt, Paid, Recorded
  <2>5. Told(a)'
    BY <2>2, <2>3 DEF RowStates, Told
  <2>6. Fits(req[r], a) => Fits(Idle, a)'
    BY <2>3, <2>4, <2>5, IdleIs DEF Fits
  <2> QED BY <1>0, <2>1, <2>2, <2>3, <2>4, <2>6, IdleIs, RequestShown
<1>5. CASE DraftConflict(r)
  <2>1. Answer(r) /\ req[r].pc = "insert" /\ req[r].a \in Airdrop
        /\ UNCHANGED <<airdrops, txs, accepted, broken, retried>>
    BY <1>0, <1>5 DEF DraftConflict, Refuse, JobOk, database, Outside, node, history
  <2> QED BY <2>1, EndsShown
<1> QED BY <1>1, <1>2, <1>3, <1>4, <1>5 DEF Draft

(* A request of the broadcast that changes rows, the state of its airdrop, *)
(* or what the node has accepted.                                          *)
LEMMA WritesShown ==
  ASSUME IInv, RowStates, RowStates', ShownInv, NEW r \in Request, NEW a \in Airdrop, req[r].a = a, OnlyAt(a),
         NEW j, JobFields(j), req' = [req EXCEPT ![r] = j], j.a = a \/ j = Idle,
         a \in Untouched' /\ Fits(req[r], a) =>
           /\ \A k \in (Paid(a) \ Recorded(a))' : j.pc = "mark" /\ j.k = k
           /\ j.pc \notin {"send", "markFail"}
           /\ j.pc = "mark" => txs'[a][j.k].state = "pending"
           /\ j.pc = "rolled" => j.rolled = Rolled(txs[a])'
           /\ j.pc \notin {"roll", "rolled"} => Told(a)'
  PROVE  ShownInv'
<1>1. a \in Untouched' /\ Fits(req[r], a) => Fits(j, a)'
  BY DEF Fits
<1> QED BY <1>1, RequestShown DEF IInv

LEMMA SentShown ==
  ASSUME IInv, RowStates, RowStates', ShownInv, NEW r \in Request, SendAccepted(r) \/ SendTimesOut(r)
  PROVE  ShownInv'
<1>1. PICK a, k, tx : a = req[r].a /\ k = req[r].k /\ tx = req[r].tx
  OBVIOUS
<1>2. a \in Airdrop /\ k \in Chunk /\ tx.a = a /\ tx.k = k /\ req[r].pc = "send"
  BY <1>1, PostedJob DEF SendAccepted, SendTimesOut, Posted, EarlyPcs
<1>3. UNCHANGED <<airdrops, txs>> /\ accepted' = accepted \cup {tx}
  BY <1>1 DEF SendAccepted, SendTimesOut, database
<1>4. broken \subseteq broken' /\ retried \subseteq retried'
  BY DEF SendAccepted, SendTimesOut, NoteSend
<1>5. Paid(a)' = Paid(a) \cup {k} /\ \A b \in Airdrop \ {a} : Paid(b)' = Paid(b)
  BY <1>2, <1>3 DEF Paid
<1>6. OnlyAt(a)
  BY <1>3, <1>4, <1>5 DEF OnlyAt
<1>7. Recorded(a)' = Recorded(a) /\ (Told(a) => Told(a)')
  BY <1>3 DEF Recorded, Told
<1>8. CASE SendAccepted(r)
  <2>1. PICK j : j = Job(req[r], "mark", tx, req[r].heard, req[r].snap, req[r].rolled, req[r].then)
    OBVIOUS
  <2>2. req' = [req EXCEPT ![r] = j]
    BY <1>1, <1>8, <2>1, AtPc DEF SendAccepted, Goto, IInv
  <2>3. JobFields(j) /\ j.pc = "mark" /\ j.a = a /\ j.k = k
    BY <1>1, <2>1, JobIs
  <2>4. ASSUME a \in Untouched', Fits(req[r], a)
        PROVE  /\ \A m \in (Paid(a) \ Recorded(a))' : m = k
               /\ txs'[a][k].state = "pending" /\ Told(a)'
    <3>1. Paid(a) \ Recorded(a) = {} /\ txs[a][k].state # "broadcast" /\ Told(a)
      BY <1>1, <1>2, <2>4 DEF Fits
    <3>2. a \notin retried'
      BY <2>4 DEF Untouched
    <3>3. txs[a][k].state # "failed"
      BY <1>1, <1>8, <3>2 DEF SendAccepted, NoteSend, Row
    <3> QED BY <1>2, <1>3, <1>5, <1>7, <3>1, <3>3 DEF RowStates
  <2> QED BY <1>1, <1>2, <1>6, <2>2, <2>3, <2>4, WritesShown
<1>9. CASE SendTimesOut(r)
  <2>1. PICK j : j = Job(req[r], "markFail", tx, req[r].heard, req[r].snap, req[r].rolled, req[r].then)
    OBVIOUS
  <2>2. req' = [req EXCEPT ![r] = j]
    BY <1>1, <1>9, <2>1, AtPc DEF SendTimesOut, Goto, IInv
  <2>3. JobFields(j) /\ j.a = a
    BY <1>1, <2>1, JobIs
  <2>4. a \notin Untouched'
    BY <1>1, <1>9 DEF SendTimesOut, Untouched
  <2> QED BY <1>1, <1>2, <1>6, <2>2, <2>3, <2>4, WritesShown
<1> QED BY <1>8, <1>9

LEMMA MarkShown ==
  ASSUME IInv, RowStates, RowStates', ShownInv, NEW r \in Request,
         MarkDone(r) \/ MarkUnsure(r) \/ MarkFail(r) \/ MarkConflict(r)
  PROVE  ShownInv'
<1>0. Shape /\ JobFields(req[r])
  BY DEF IInv, Shape
<1>1. PICK a, k, row : a = req[r].a /\ k = req[r].k /\ row = txs[a][k]
  OBVIOUS
<1>2. a \in Airdrop /\ k \in Chunk
  BY <1>1, PostedJob DEF MarkDone, MarkUnsure, MarkFail, MarkConflict, Posted, LatePcs
<1>3. UNCHANGED <<airdrops, accepted>> /\ broken \subseteq broken' /\ retried \subseteq retried'
  BY DEF MarkDone, MarkUnsure, MarkFail, MarkConflict, Refuse, Outside, database, node, history
<1>4. \A b : Paid(b)' = Paid(b)
  BY <1>3 DEF Paid
<1>5. ASSUME NEW w, SetRow(a, k, w)
      PROVE  /\ OnlyAt(a) /\ Shape
             /\ txs'[a][k] = w /\ \A m \in Chunk \ {k} : txs'[a][m] = txs[a][m]
  BY <1>0, <1>2, <1>3, <1>4, <1>5, RowSet DEF OnlyAt
<1>6. CASE MarkDone(r)
  <2>1. PICK w : SetRow(a, k, w) /\ w.state = "broadcast"
    BY <1>1, <1>6 DEF MarkDone
  <2>2. PICK j : j = Job(req[r], "roll", req[r].tx, req[r].heard, req[r].snap, req[r].rolled, "next")
    OBVIOUS
  <2>3. req' = [req EXCEPT ![r] = j]
    <3>1. req' = [req EXCEPT ![r].then = "next", ![r].pc = "roll"]
      BY <1>6 DEF MarkDone
    <3>2. req' = [req EXCEPT ![r] = Job(req[r], "roll", req[r].tx, req[r].heard, req[r].snap, req[r].rolled,
                                        "next")]
      BY ONLY <1>0, <3>1, AtThen, r \in Request
    <3> QED BY <2>2, <3>2
  <2>4. JobFields(j) /\ j.pc = "roll" /\ j.a = a
    BY <1>1, <2>2, JobIs
  <2>5. ASSUME Fits(req[r], a) PROVE (Paid(a) \ Recorded(a))' = {}
    <3>1. Recorded(a)' = Recorded(a) \cup {k}
      BY <1>2, <1>5, <2>1 DEF Recorded, InState
    <3> QED BY <1>1, <1>4, <2>5, <3>1 DEF Fits
  <2> QED BY <1>1, <1>2, <1>5, <2>1, <2>3, <2>4, <2>5, WritesShown
<1>7. CASE MarkUnsure(r)
  <2>1. PICK w : SetRow(a, k, w)
    BY <1>1, <1>7 DEF MarkUnsure
  <2>2. a \notin Untouched'
    BY <1>1, <1>7 DEF MarkUnsure, Untouched
  <2>3. req' = [req EXCEPT ![r] = req[r]]
    BY <1>0, <1>7 DEF MarkUnsure, Shape
  <2> QED BY <1>0, <1>1, <1>2, <1>5, <2>1, <2>2, <2>3, WritesShown
<1>8. CASE MarkFail(r)
  <2>1. PICK w : SetRow(a, k, w) /\ w.state = "failed"
    BY <1>1, <1>8 DEF MarkFail
  <2>2. PICK j : j = Job(req[r], "roll", req[r].tx, req[r].heard, req[r].snap, req[r].rolled, "fail")
    OBVIOUS
  <2>3. req' = [req EXCEPT ![r] = j]
    <3>1. req' = [req EXCEPT ![r].then = "fail", ![r].pc = "roll"]
      BY <1>8 DEF MarkFail
    <3>2. req' = [req EXCEPT ![r] = Job(req[r], "roll", req[r].tx, req[r].heard, req[r].snap, req[r].rolled,
                                        "fail")]
      BY ONLY <1>0, <3>1, AtThen, r \in Request
    <3> QED BY <2>2, <3>2
  <2>4. JobFields(j) /\ j.pc = "roll" /\ j.a = a
    BY <1>1, <2>2, JobIs
  <2>5. ASSUME Fits(req[r], a) PROVE (Paid(a) \ Recorded(a))' = {}
    <3>1. req[r].pc = "markFail"
      BY <1>8 DEF MarkFail
    <3>2. Paid(a) \ Recorded(a) = {} /\ txs[a][k].state # "broadcast"
      BY <1>1, <2>5, <3>1 DEF Fits
    <3>3. Recorded(a)' = Recorded(a)
      BY <1>2, <1>5, <2>1, <3>2 DEF Recorded, InState
    <3> QED BY <1>4, <3>2, <3>3
  <2> QED BY <1>1, <1>2, <1>5, <2>1, <2>3, <2>4, <2>5, WritesShown
<1>9. CASE MarkConflict(r)
  <2>1. req' = [req EXCEPT ![r] = Idle] /\ txs' = txs /\ req[r].pc = "mark" /\ ~Markable(row)
    BY <1>1, <1>9 DEF MarkConflict, Refuse, Answer, database, Row
  <2>2. OnlyAt(a)
    BY <1>3, <1>4, <2>1 DEF OnlyAt
  <2>3. ~Fits(req[r], a)
    BY <1>1, <2>1 DEF Fits, Markable
  <2> QED BY <1>1, <1>2, <2>1, <2>2, <2>3, IdleIs, WritesShown
<1> QED BY <1>6, <1>7, <1>8, <1>9

LEMMA RollShown ==
  ASSUME IInv, RowStates, RowStates', ShownInv, NEW r \in Request,
         RollRead(r) \/ RollWrite(r) \/ RollConflict(r) \/ MarkLost(r)
  PROVE  ShownInv'
<1>0. Shape /\ JobFields(req[r])
  BY DEF IInv, Shape
<1>1. PICK a : a = req[r].a
  OBVIOUS
<1>2. a \in Airdrop
  BY <1>1, PostedJob DEF RollRead, RollWrite, RollConflict, MarkLost, Posted, LatePcs
<1>3. UNCHANGED <<txs, accepted>> /\ broken \subseteq broken' /\ retried \subseteq retried'
  BY DEF RollRead, RollWrite, RollConflict, MarkLost, Outside, database, node, history
<1>4. (\A b : Paid(b)' = Paid(b)) /\ Recorded(a)' = Recorded(a)
  BY <1>3 DEF Paid, Recorded
<1>5. CASE RollRead(r)
  <2>0. PICK state : state = Rolled(txs[a])
    OBVIOUS
  <2>1. PICK j : j = Job(req[r], "rolled", req[r].tx, req[r].heard, req[r].snap, state, req[r].then)
    OBVIOUS
  <2>2. req' = [req EXCEPT ![r] = j]
    <3>1. req' = [req EXCEPT ![r].rolled = state, ![r].pc = "rolled"]
      BY <1>1, <1>5, <2>0 DEF RollRead
    <3>2. req' = [req EXCEPT ![r] = Job(req[r], "rolled", req[r].tx, req[r].heard, req[r].snap, state,
                                        req[r].then)]
      BY ONLY <1>0, <3>1, AtRolled, r \in Request
    <3> QED BY <2>1, <3>2
  <2>3. JobFields(j) /\ j.pc = "rolled" /\ j.a = a /\ j.rolled = state
    BY <1>1, <2>1, JobIs
  <2>4. req[r].pc = "roll" /\ airdrops' = airdrops
    BY <1>5 DEF RollRead, database
  <2>5. OnlyAt(a)
    BY <1>3, <1>4, <2>4 DEF OnlyAt
  <2>6. Fits(req[r], a) => (Paid(a) \ Recorded(a))' = {}
    BY <1>4, <2>4 DEF Fits
  <2>7. Rolled(txs[a])' = state
    BY <1>3, <2>0
  <2> QED BY <1>1, <1>2, <2>2, <2>3, <2>5, <2>6, <2>7, WritesShown
<1>6. CASE RollWrite(r)
  <2>1. /\ airdrops'[a].state = req[r].rolled
        /\ \A b \in Airdrop \ {a} : airdrops'[b] = airdrops[b]
    BY <1>1, <1>6, RollStateStep
  <2>2. OnlyAt(a)
    BY <1>3, <1>4, <2>1 DEF OnlyAt
  <2>3. Fits(req[r], a) => (Paid(a) \ Recorded(a))' = {} /\ Told(a)'
    <3>1. req[r].pc = "rolled"
      BY <1>6 DEF RollWrite
    <3>2. Fits(req[r], a) => Paid(a) \ Recorded(a) = {} /\ req[r].rolled = Rolled(txs[a])
      BY <3>1 DEF Fits
    <3> QED BY <1>3, <1>4, <2>1, <3>2 DEF Told
  <2>4. CASE req' = [req EXCEPT ![r] = Idle]
    BY <1>1, <1>2, <2>2, <2>3, <2>4, IdleIs, WritesShown
  <2>5. CASE req' = [req EXCEPT ![r].rolled = "none", ![r].pc = "fresh"]
    <3>1. PICK j : j = Job(req[r], "fresh", req[r].tx, req[r].heard, req[r].snap, "none", req[r].then)
      OBVIOUS
    <3>2. req' = [req EXCEPT ![r] = j]
      <4>1. req' = [req EXCEPT ![r] = Job(req[r], "fresh", req[r].tx, req[r].heard, req[r].snap, "none",
                                          req[r].then)]
        BY ONLY <1>0, <2>5, AtRolled, r \in Request
      <4> QED BY <3>1, <4>1
    <3>3. JobFields(j) /\ j.pc = "fresh" /\ j.a = a
      BY <1>1, <3>1, JobIs
    <3> QED BY <1>1, <1>2, <2>2, <2>3, <3>2, <3>3, WritesShown
  <2> QED BY <1>6, <2>4, <2>5 DEF RollWrite, Answer
<1>7. CASE RollConflict(r)
  <2>1. req' = [req EXCEPT ![r] = Idle] /\ airdrops' = airdrops /\ a \notin Untouched'
    BY <1>1, <1>7 DEF RollConflict, Answer, database, Untouched
  <2> QED BY <1>1, <1>2, <1>3, <2>1, IdleIs, MovesShown
<1>8. CASE MarkLost(r)
  <2>1. PICK j : j = Job(req[r], "roll", req[r].tx, req[r].heard, req[r].snap, req[r].rolled, "next")
    OBVIOUS
  <2>2. req' = [req EXCEPT ![r] = j]
    <3>1. req' = [req EXCEPT ![r].then = "next", ![r].pc = "roll"]
      BY <1>8 DEF MarkLost
    <3>2. req' = [req EXCEPT ![r] = Job(req[r], "roll", req[r].tx, req[r].heard, req[r].snap, req[r].rolled,
                                        "next")]
      BY ONLY <1>0, <3>1, AtThen, r \in Request
    <3> QED BY <2>1, <3>2
  <2>3. JobFields(j) /\ j.a = a /\ airdrops' = airdrops /\ a \notin Untouched'
    BY <1>1, <1>8, <2>1, JobIs DEF MarkLost, database, Untouched
  <2> QED BY <1>1, <1>2, <1>3, <2>2, <2>3, MovesShown
<1> QED BY <1>5, <1>6, <1>7, <1>8

LEMMA HaltShown ==
  ASSUME IInv, RowStates, RowStates', ShownInv, NEW r \in Request, Halt(r)
  PROVE  ShownInv'
<1>0. Shape /\ JobFields(req[r])
  BY DEF IInv, Shape
<1>1. PICK a : a = req[r].a
  OBVIOUS
<1>2. a \in Airdrop /\ req[r].pc = "halt"
  BY <1>1, PostedJob DEF Halt, Posted, LatePcs
<1>3. UNCHANGED <<airdrops, accepted, broken, retried>>
  BY DEF Halt, Outside, node, history
<1>4. /\ \A b \in Airdrop \ {a} : txs'[b] = txs[b]
      /\ \A k \in Chunk : \/ txs'[a][k] = txs[a][k]
                          \/ txs'[a][k].state = "failed" /\ txs[a][k].state \in {"pending", "signed"}
  BY <1>0, <1>1, <1>2, HaltRows
<1>5. OnlyAt(a) /\ Paid(a)' = Paid(a) /\ Recorded(a)' = Recorded(a)
  BY <1>3, <1>4 DEF OnlyAt, Paid, Recorded, InState
<1>6. PICK j : j = Job(req[r], "roll", req[r].tx, req[r].heard, req[r].snap, req[r].rolled, "halted")
  OBVIOUS
<1>7. req' = [req EXCEPT ![r] = j]
  <2>1. req' = [req EXCEPT ![r].then = "halted", ![r].pc = "roll"]
    BY DEF Halt
  <2>2. req' = [req EXCEPT ![r] = Job(req[r], "roll", req[r].tx, req[r].heard, req[r].snap, req[r].rolled,
                                      "halted")]
    BY ONLY <1>0, <2>1, AtThen, r \in Request
  <2> QED BY <1>6, <2>2
<1>8. JobFields(j) /\ j.pc = "roll" /\ j.a = a
  BY <1>1, <1>6, JobIs
<1>9. Fits(req[r], a) => (Paid(a) \ Recorded(a))' = {}
  BY <1>2, <1>5 DEF Fits
<1> QED BY <1>1, <1>2, <1>5, <1>7, <1>8, <1>9, WritesShown

LEMMA BroadcastShown ==
  ASSUME IInv, RowStates, RowStates', ShownInv, NEW r \in Request, Broadcast(r)
  PROVE  ShownInv'
<1>1. CASE Load(r) \/ Check(r) \/ SendRejected(r) \/ SendRefused(r) \/ CheckFresh(r) \/ BuildNext(r)
  <2>1. /\ req[r].pc \in {"load", "check", "send", "fresh", "next"} /\ UNCHANGED <<airdrops, txs, accepted>>
        /\ broken \subseteq broken' /\ retried \subseteq retried'
    BY <1>1 DEF Load, Check, SendRejected, SendRefused, CheckFresh, BuildNext, NoteSend, Outside, database,
       node, history
  <2>2. req[r].a \in Airdrop
    BY <2>1, PostedJob DEF Posted, EarlyPcs, LatePcs
  <2>3. CASE Answer(r)
    BY <2>1, <2>2, <2>3, EndsShown
  <2>4. CASE Goto(r, "check") \/ Goto(r, "halt") \/ Goto(r, "next")
    BY <2>1, <2>2, <2>4, GoesShown
  <2>5. CASE Goto(r, "send") /\ Row(r).state # "broadcast"
    BY <2>1, <2>2, <2>5, GoesShown
  <2>6. CASE Goto(r, "markFail") /\ req[r].pc = "send"
    BY <2>1, <2>2, <2>6, GoesShown
  <2> QED BY <1>1, <2>3, <2>4, <2>5, <2>6 DEF Load, Check, SendRejected, SendRefused, CheckFresh, BuildNext
<1> QED BY <1>1, SentShown, MarkShown, RollShown, HaltShown DEF Broadcast

LEMMA CrashShown == ASSUME IInv, RowStates', ShownInv, Crash PROVE ShownInv'
<1>1. /\ req' = [r \in Request |-> Idle] /\ UNCHANGED <<airdrops, txs, accepted, retried>>
      /\ broken' = broken \cup {req[r].a : r \in Unfinished}
  BY DEF Crash, database, node
<1>2. ASSUME NEW a \in Untouched' PROVE Fitting(a)'
  <2>1. Fitting(a) /\ a \in Airdrop /\ Paid(a)' = Paid(a)
    BY <1>1, <1>2 DEF ShownInv, Untouched, Paid
  <2>2. Fits(Idle, a)
    <3>1. ASSUME NEW r \in Request, req[r].a = a, Fits(req[r], a) PROVE Fits(Idle, a)
      <4>1. req[r].pc \notin LatePcs
        BY <1>1, <1>2, <3>1 DEF Untouched, Unfinished
      <4>2. req[r].pc \notin {"mark", "roll", "rolled"}
        BY <4>1 DEF LatePcs
      <4> QED BY <3>1, <4>2, IdleIs DEF Fits
    <3> QED BY <2>1, <3>1 DEF Fitting
  <2>3. Quiet(a)'
    BY <1>1, <2>1, IdleIs DEF Quiet
  <2>4. Fits(Idle, a)'
    BY <1>1, <2>1, <2>2, FitsFrame
  <2> QED BY <2>3, <2>4 DEF Fitting
<1> QED BY <1>2 DEF ShownInv

LEMMA PostShown ==
  ASSUME IInv, RowStates', ShownInv, NEW r \in Request, NEW a \in Airdrop, Post(r, a) PROVE ShownInv'
<1>1. PICK j : j = NewJob("load", a, tab[a], 0)
  OBVIOUS
<1>2. JobFields(j) /\ j.pc = "load" /\ j.a = a
  BY <1>1, NewJobIs
<1>3. /\ req' = [req EXCEPT ![r] = j] /\ req[r].pc = "idle" /\ UNCHANGED <<airdrops, txs, accepted, retried>>
      /\ broken' = IF \E q \in Request : req[q].a = a THEN broken \cup {a} ELSE broken
  BY <1>1 DEF Post, database, Outside, node
<1>4. req[r] = Idle /\ Shape
  BY <1>3 DEF IInv, JobInv, JobOk
<1>5. OnlyAt(a) /\ Paid(a)' = Paid(a)
  BY <1>3 DEF OnlyAt, Paid
<1>6. a \in Untouched' => Quiet(a)
  BY <1>3 DEF Untouched, Quiet
<1>7. Fits(Idle, a) => Fits(j, a)
  BY <1>2, IdleIs DEF Fits
<1>8. Fits(Idle, a) => Fits(j, a)'
  BY <1>3, <1>5, <1>7, FitsFrame
<1> QED BY <1>2, <1>3, <1>4, <1>5, <1>6, <1>8, RequestShown

LEMMA FailShown ==
  ASSUME IInv, RowStates', ShownInv, NEW r \in Request, Fail(r) \/ ScanFails(r) PROVE ShownInv'
<1>1. /\ Answer(r) /\ req[r].pc \notin {"idle", "mark"} /\ UNCHANGED <<airdrops, txs, accepted>>
      /\ broken \subseteq broken' /\ retried \subseteq retried'
  BY DEF Fail, ScanFails, database, node, history
<1>2. req[r].a \in Airdrop
  BY <1>1 DEF IInv, JobInv, JobOk
<1>3. req[r].a \in Untouched' => req[r].pc \notin {"roll", "rolled"}
  BY DEF Fail, ScanFails, Unfinished, LatePcs, Untouched
<1> QED BY <1>1, <1>2, <1>3, EndsShown

LEMMA ShownStep == IInv /\ ShownInv /\ [Next]_vars => ShownInv'
<1> SUFFICES ASSUME IInv, ShownInv, [Next]_vars PROVE ShownInv'
  OBVIOUS
<1>1. RowStates /\ RowStates'
  BY RowStatesStep DEF ShownInv
<1>2. CASE \E r \in Request : Draft(r) \/ Broadcast(r)
  BY <1>1, <1>2, DraftShown, BroadcastShown
<1>3. ASSUME NEW a \in Airdrop, Leave(a) PROVE ShownInv'
  <2>1. UNCHANGED <<airdrops, txs, accepted, broken, retried>>
    BY <1>3 DEF Leave, database, Outside, node, history
  <2> QED BY <1>1, <1>3, <2>1, LeaveKept, RestsShown
<1>4. ASSUME NEW r \in Request, LoseAnswer(r) PROVE ShownInv'
  <2>1. UNCHANGED <<airdrops, txs, accepted, broken, retried>>
    BY <1>4 DEF LoseAnswer, database, node, history
  <2> QED BY <1>1, <1>4, <2>1, LoseAnswerKept, RestsShown
<1>5. CASE Sender
  BY <1>1, <1>3, <1>5, PostShown DEF Sender
<1>6. CASE Trouble
  BY <1>1, <1>4, <1>6, CrashShown, FailShown DEF Trouble
<1>7. CASE World \/ UNCHANGED vars
  <2>1. UNCHANGED <<airdrops, txs, accepted, broken, retried, req>>
    BY <1>7 DEF World, Receive, Mine, ScanForOthers, Index, HoldersMove, database, chainview, node, history, vars
  <2>2. req' = [r \in Request |-> req'[r]] /\ \A r \in Request : Kept(req'[r], req[r])
    BY <2>1 DEF IInv, Shape, Kept
  <2> QED BY <1>1, <2>1, <2>2, RestsShown
<1> QED BY <1>2, <1>5, <1>6, <1>7 DEF Next

LEMMA ShownInit == Init => ShownInv
<1> SUFFICES ASSUME Init PROVE ShownInv
  OBVIOUS
<1>1. /\ req = [r \in Request |-> Idle] /\ accepted = {}
      /\ \A a \in Airdrop : airdrops[a].state = "absent" /\ \A k \in Chunk : txs[a][k].state = "pending"
  BY DEF Init
<1>2. ASSUME NEW a \in Airdrop PROVE Fitting(a)
  <2>1. Quiet(a) /\ Told(a) /\ Paid(a) = {}
    BY <1>1, <1>2, IdleIs DEF Quiet, Told, Paid
  <2> QED BY <2>1, IdleIs DEF Fitting, Fits
<1> QED BY <1>1, <1>2 DEF ShownInv, RowStates, Untouched

(* Between its requests the rows of an airdrop and its state say what was  *)
(* paid, whatever its requests and their statements are interleaved with,  *)
(* unless a fault cut one short, two overlapped or a failed chunk was sent *)
(* again.                                                                  *)
THEOREM Receipt == Spec => []ShownMatchesChain
<1>1. IInv /\ ShownInv => ShownMatchesChain
  <2> SUFFICES ASSUME IInv, ShownInv, NEW a \in Untouched, Quiet(a)
               PROVE  /\ Recorded(a) = Paid(a)
                      /\ airdrops[a].state = "complete" <=> Paid(a) = Chunk
                      /\ airdrops[a].state \in {"partial", "broadcasting"} <=> Paid(a) \notin {{}, Chunk}
    BY DEF ShownMatchesChain, Untouched
  <2>1. a \in Airdrop /\ Fits(Idle, a)
    BY DEF ShownInv, Untouched, Fitting, Quiet
  <2>2. Recorded(a) = Paid(a) /\ Told(a)
    BY <2>1, IdleIs DEF Fits, IInv, RowsInv
  <2>3. 0 \in Chunk
    BY AirdropAssumption DEF Chunk
  <2>4. CASE airdrops[a].state \in {"absent", "drafting"} /\ \A k \in Chunk : txs[a][k].state = "pending"
    <3>1. Recorded(a) = {}
      BY <2>4 DEF Recorded, InState
    <3> QED BY <2>2, <2>3, <2>4, <3>1
  <2>5. CASE airdrops[a].state = Rolled(txs[a])
    <3>1. PICK sent, failed, state : /\ sent = Recorded(a) /\ failed = InState(txs[a], "failed")
                                     /\ state = airdrops[a].state
      OBVIOUS
    <3>2. state = IF sent = Chunk THEN "complete"
                  ELSE IF failed = Chunk THEN "failed"
                  ELSE IF failed # {} /\ sent # {} THEN "partial"
                  ELSE IF sent # {} THEN "broadcasting"
                  ELSE "signing"
      BY <2>5, <3>1 DEF Rolled, Recorded
    <3>3. failed = Chunk => sent = {}
      BY <3>1 DEF Recorded, InState
    <3> QED BY <2>2, <2>3, <3>1, <3>2, <3>3
  <2> QED BY <2>2, <2>4, <2>5 DEF Told
<1> QED BY <1>1, ShownInit, ShownStep, Inductive, PTL DEF Spec

=============================================================================
