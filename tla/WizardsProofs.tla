---------------------------- MODULE WizardsProofs ----------------------------
(***************************************************************************)
(* Proofs about the two wizards, for any number of sessions, requests,     *)
(* transactions, documents and faults, and any coins the wallet is paid.   *)
(*                                                                         *)
(* The argument.  A row's document hash is written once.  Whatever a       *)
(* request read of it before its awaits is therefore still what the row    *)
(* says after them, and so is what a transaction built, shown or sent for  *)
(* the session carries: it CARRIES the document, and that document is one  *)
(* a verification has found, since only a verified row is built for.  A    *)
(* transaction id is written once too, from a transaction that carries     *)
(* the session's document.                                                 *)
(*                                                                         *)
(* For the tokens: wherever a publication waits, built, shown, signed or   *)
(* sent, its coins exist and hold what its first output holds.  A coin     *)
(* that exists does not change, so this stays true (Worth).                *)
(***************************************************************************)
EXTENDS Wizards, Counting, SequenceTheorems, TLAPS

(* Rows, requests and the page are records of their fields.                *)
RowFields(w) ==
  w = [state |-> w.state, cat |-> w.cat, named |-> w.named, doc |-> w.doc, uri |-> w.uri,
       verified |-> w.verified, built |-> w.built, head |-> w.head, signed |-> w.signed,
       txid |-> w.txid]

JobFields(q) ==
  q = [pc |-> q.pc, s |-> q.s, uri |-> q.uri, doc |-> q.doc, fresh |-> q.fresh,
       head |-> q.head, tx |-> q.tx]

MintFields(w) ==
  w = [state |-> w.state, kind |-> w.kind, out |-> w.out, txid |-> w.txid, cat |-> w.cat]

PageFields(p) ==
  p = [step |-> p.step, sid |-> p.sid, kind |-> p.kind, out |-> p.out, sats |-> p.sats,
       funds |-> p.funds, plains |-> p.plains, build |-> p.build, signed |-> p.signed,
       busy |-> p.busy, txid |-> p.txid, cat |-> p.cat]

IsSequence(s) == Len(s) \in Nat /\ s = [t \in 1..Len(s) |-> s[t]]

Shape ==
  /\ IsSequence(accepted)
  /\ rows = [s \in Session |-> rows[s]]
  /\ \A s \in Session : RowFields(rows[s])
  /\ req = [r \in Request |-> req[r]]
  /\ \A r \in Request : JobFields(req[r])
  /\ mints = [i \in MintSession |-> mints[i]]

(* The session has a document, and a verification has found it.            *)
Ready(s) == s \in Session /\ rows[s].doc # 0 /\ rows[s].doc \in hosted

(* A publication for a session, of that document.                          *)
Carries(tx, s) ==
  tx.what = "publish" /\ tx.s = s /\ Ready(s) /\ tx.doc = rows[s].doc

Broadcast == {"send", "sent", "dead", "nudge"}
Building == {"head", "coins", "persist"}

(* What a request knows after each of its awaits.                          *)
JobOk(r) ==
  LET q == req[r] IN
  /\ q.pc # "idle" => q.s \in Session
  /\ q.pc \in {"fetch", "verified"} \cup Building => q.doc # 0 /\ q.doc = rows[q.s].doc
  /\ q.pc \in {"verified"} \cup Building => Ready(q.s)
  /\ q.pc \in {"persist", "send", "sent"} => Carries(q.tx, q.s)
  /\ q.pc = "sent" => q.head \in 1..Len(accepted) /\ accepted[q.head] = q.tx

RowOk(s) ==
  LET w == rows[s] IN
  /\ w.state = "absent" => w = NoRow
  /\ w.verified => Ready(s)
  /\ w.built # NoTx => Carries(w.built, s)
  /\ w.txid # 0 => w.txid \in 1..Len(accepted) /\ Carries(accepted[w.txid], s)

Sendable(tx) == tx.what = "publish" => Carries(tx, tx.s)

Unpublished(tx) == tx.what # "publish"

(* The mint page builds and signs no publication, and it has an answer to  *)
(* record once the node took its transaction.                              *)
PageOk(p) ==
  /\ PageFields(p)
  /\ p.sid # 0 => p.sid \in MintSession
  /\ p.busy \in {"answered", "recording"} => p.txid \in Nat \ {0}
  /\ p.busy = "recording" => p.sid # 0
  /\ Unpublished(p.build) /\ Unpublished(p.signed)

MintOk ==
  /\ \A i \in MintSession : MintFields(mints[i])
  /\ \A i \in MintSession : mints[i].state = "absent" => mints[i] = NoMint
  /\ PageOk(page)
  /\ Unpublished(consolidation)
  /\ \A tx \in signedHex : Unpublished(tx)

Kept ==
  /\ Shape
  /\ \A r \in Request : JobOk(r)
  /\ \A s \in Session : RowOk(s)
  /\ \A tx \in shown : Carries(tx, tx.s)
  /\ \A t \in 1..Len(accepted) : Sendable(accepted[t])
  /\ MintOk

(* What an undisturbed session's only publication waits for.               *)
Sole(s) ==
  /\ \A r, q \in Broadcasting(s) : r = q
  /\ \A r \in Broadcasting(s) : req[r].pc = "send" => Publications(s) = {}
  /\ Publications(s) # {} =>
       \/ rows[s].txid # 0
       \/ rows[s].state \notin {"drafting", "signed"}
       \/ \E r \in Request : req[r].s = s /\ req[r].pc = "sent"
  /\ \A t, u \in Publications(s) : t = u

OnceInv == \A s \in Session \ disturbed : Sole(s)

----------------------------------------------------------------------------
(* What any step does.                                                     *)

(* Documents stay written and found, and the node forgets nothing.         *)
Grows ==
  /\ \A s \in Session : rows[s].doc # 0 => rows[s].doc = rows'[s].doc
  /\ hosted \subseteq hosted'
  /\ Len(accepted) <= Len(accepted')
  /\ \A t \in 1..Len(accepted) : accepted'[t] = accepted[t]

(* What a transaction carries it carries after any such step.              *)
LEMMA CarriesKept ==
  ASSUME Grows, NEW tx, NEW s, Carries(tx, s)
  PROVE  Carries(tx, s)'
BY DEF Grows, Carries, Ready

LEMMA ReadyKept ==
  ASSUME Grows, NEW s, Ready(s)
  PROVE  Ready(s)'
BY DEF Grows, Ready

(* A request the step leaves alone knows what it knew.                     *)
LEMMA JobKept ==
  ASSUME Grows, Shape, NEW r \in Request, JobOk(r), req'[r] = req[r]
  PROVE  JobOk(r)'
<1> DEFINE q == req[r]
<1>1. q.pc \in {"verified"} \cup Building => Ready(q.s)'
  BY ReadyKept DEF JobOk
<1>2. q.pc \in {"persist", "send", "sent"} => Carries(q.tx, q.s)'
  BY CarriesKept DEF JobOk
<1>3. q.pc \in {"fetch", "verified"} \cup Building => q.doc # 0 /\ q.doc = rows'[q.s].doc
  BY DEF JobOk, Grows, Building
<1>4. q.pc = "sent" => q.head \in 1..Len(accepted') /\ accepted'[q.head] = q.tx
  <2> SUFFICES ASSUME q.pc = "sent"
               PROVE  q.head \in 1..Len(accepted') /\ accepted'[q.head] = q.tx
    OBVIOUS
  <2>1. q.head \in 1..Len(accepted) /\ accepted[q.head] = q.tx /\ Len(accepted) \in Nat
    BY DEF JobOk, Shape, IsSequence
  <2> QED  BY <2>1 DEF Grows
<1> QED  BY <1>1, <1>2, <1>3, <1>4 DEF JobOk

(* So does a row.                                                          *)
LEMMA RowKept ==
  ASSUME Grows, Shape, NEW s \in Session, RowOk(s), rows'[s] = rows[s]
  PROVE  RowOk(s)'
<1> DEFINE w == rows[s]
<1>1. w.verified => Ready(s)'
  BY ReadyKept DEF RowOk
<1>2. w.built # NoTx => Carries(w.built, s)'
  BY CarriesKept DEF RowOk
<1>3. ASSUME NEW n, n = w.txid, n # 0
      PROVE  n \in 1..Len(accepted') /\ Carries(accepted[n], s)'
  <2>1. n \in 1..Len(accepted) /\ Carries(accepted[n], s) /\ Len(accepted) \in Nat
    BY <1>3 DEF RowOk, Shape, IsSequence
  <2>2. accepted'[n] = accepted[n] /\ n \in 1..Len(accepted')
    BY <2>1 DEF Grows
  <2>3. PICK tx : tx = accepted[n]
    OBVIOUS
  <2>4. Carries(tx, s)'
    BY <2>1, <2>3, CarriesKept
  <2> QED  BY <2>2, <2>3, <2>4
<1> QED  BY <1>1, <1>2, <1>3 DEF RowOk

(* The invariant survives a step that keeps the shape, grows, and is right *)
(* about what it changes.                                                  *)
LEMMA KeptStep ==
  ASSUME Kept, Grows, Shape',
         \A r \in Request : req'[r] = req[r] \/ JobOk(r)',
         \A s \in Session : rows'[s] = rows[s] \/ RowOk(s)',
         \A tx \in shown' : tx \in shown \/ Carries(tx, tx.s)',
         \A t \in 1..Len(accepted') : t \in 1..Len(accepted) \/ Sendable(accepted[t])',
         MintOk'
  PROVE  Kept'
<1>1. \A r \in Request : JobOk(r)'
  BY JobKept DEF Kept
<1>2. \A s \in Session : RowOk(s)'
  BY RowKept DEF Kept
<1>3. \A tx \in shown' : Carries(tx, tx.s)'
  BY CarriesKept DEF Kept
<1>4. ASSUME NEW t \in 1..Len(accepted')
      PROVE  Sendable(accepted[t])'
  <2>1. CASE t \in 1..Len(accepted)
    <3>1. PICK tx : tx = accepted[t]
      OBVIOUS
    <3>2. Sendable(tx) /\ tx = accepted'[t]
      BY <2>1, <3>1 DEF Kept, Grows
    <3>3. tx.what = "publish" => Carries(tx, tx.s)'
      BY <3>2, CarriesKept DEF Sendable
    <3> QED  BY <3>2, <3>3 DEF Sendable
  <2>2. CASE t \notin 1..Len(accepted)
    BY <2>2
  <2> QED  BY <2>1, <2>2
<1> QED  BY <1>1, <1>2, <1>3, <1>4 DEF Kept

----------------------------------------------------------------------------
(* The table of publish sessions.                                          *)

(* What a patch does to the table: the row it names takes the columns it   *)
(* sets, or the guards leave it alone.                                     *)
LEMMA PatchStep ==
  ASSUME Shape, NEW s \in Session, NEW patch, UpdateSession(s, patch)
  PROVE  /\ rows' = [x \in Session |-> rows'[x]]
         /\ \A x \in Session : RowFields(rows'[x])
         /\ \A x \in Session : rows'[x] = rows[x] \/ x = s
         /\ rows'[s] = rows[s] \/ (Writable(rows[s], patch) /\ rows'[s] = Patched(rows[s], patch))
         /\ \A x \in Session : rows[x].doc # 0 => rows[x].doc = rows'[x].doc
<1> DEFINE w == Patched(rows[s], patch)
<1>1. RowFields(w)
  BY DEF Shape, RowFields, Patched
<1>2. rows[s].doc # 0 /\ Writable(rows[s], patch) => w.doc = rows[s].doc
  BY DEF Shape, RowFields, Patched, Writable, Sets
<1>3. rows' = rows \/ (Writable(rows[s], patch) /\ rows' = [rows EXCEPT ![s] = w])
  BY DEF UpdateSession
<1> HIDE DEF w
<1>4. CASE rows' = rows
  BY <1>4 DEF Shape
<1>5. CASE Writable(rows[s], patch) /\ rows' = [rows EXCEPT ![s] = w]
  <2>1. rows'[s] = w /\ rows' = [x \in Session |-> rows'[x]]
        /\ \A x \in Session : x # s => rows'[x] = rows[x]
    BY <1>5 DEF Shape
  <2> QED  BY <2>1, <1>1, <1>2, <1>5 DEF Shape, w
<1> QED  BY <1>3, <1>4, <1>5

(* A patch leaves its row right when what it sets is.                      *)
LEMMA PatchOk ==
  ASSUME Kept, Grows, NEW s \in Session, NEW patch, UpdateSession(s, patch),
         Sets(patch, "state") => patch.state # "absent",
         Sets(patch, "verified") => Ready(s),
         Sets(patch, "built") => patch.built = NoTx \/ Carries(patch.built, s),
         Sets(patch, "txid") =>
           patch.txid \in 1..Len(accepted) /\ Carries(accepted[patch.txid], s)
  PROVE  \A x \in Session : rows'[x] = rows[x] \/ RowOk(x)'
<1> SUFFICES ASSUME rows'[s] # rows[s]
             PROVE  RowOk(s)'
  BY PatchStep DEF Kept
<1>1. Writable(rows[s], patch) /\ rows'[s] = Patched(rows[s], patch)
  BY PatchStep DEF Kept
<1> DEFINE w == rows[s]
           v == rows'[s]
<1>2. /\ v.state = IF Sets(patch, "state") THEN patch.state ELSE w.state
      /\ v.verified = IF Sets(patch, "verified") THEN patch.verified ELSE w.verified
      /\ v.built = IF Sets(patch, "built") THEN patch.built ELSE w.built
      /\ v.txid = IF Sets(patch, "txid") THEN patch.txid ELSE w.txid
  BY <1>1 DEF Kept, Shape, RowFields, Patched
<1>3. w.state # "absent" /\ v.state # "absent"
  BY <1>1, <1>2 DEF Writable
<1>4. v.verified => Ready(s)'
  BY <1>2, ReadyKept DEF Kept, RowOk
<1>5. ASSUME NEW tx, tx = v.built, tx # NoTx
      PROVE  Carries(tx, s)'
  BY <1>2, <1>5, CarriesKept DEF Kept, RowOk
<1>6. ASSUME NEW n, n = v.txid, n # 0
      PROVE  n \in 1..Len(accepted') /\ Carries(accepted[n], s)'
  <2>1. n \in 1..Len(accepted) /\ Carries(accepted[n], s) /\ Len(accepted) \in Nat
    BY <1>2, <1>6 DEF Kept, RowOk, Shape, IsSequence
  <2>2. PICK tx : tx = accepted[n]
    OBVIOUS
  <2>3. accepted'[n] = tx /\ n \in 1..Len(accepted')
    BY <2>1, <2>2 DEF Grows
  <2>4. Carries(tx, s)'
    BY <2>1, <2>2, CarriesKept
  <2> QED  BY <2>3, <2>4
<1> QED  BY <1>3, <1>4, <1>5, <1>6 DEF RowOk

(* A session is created as a row that says nothing.                        *)
LEMMA CreateOk ==
  ASSUME Kept, NEW s \in Session, NEW cat, CreateSession(s, cat), UNCHANGED accepted
  PROVE  /\ rows' = [x \in Session |-> rows'[x]]
         /\ \A x \in Session : RowFields(rows'[x])
         /\ \A x \in Session : rows[x].doc # 0 => rows[x].doc = rows'[x].doc
         /\ \A x \in Session : rows'[x] = rows[x] \/ RowOk(x)'
<1>a. PICK old : old = NoRow
  OBVIOUS
<1>b. PICK new : new = [old EXCEPT !.state = "drafting", !.cat = cat]
  OBVIOUS
<1>c. RowFields(old) /\ ~old.verified /\ old.built = NoTx /\ old.txid = 0 /\ old.doc = 0
  BY <1>a DEF NoRow, RowFields
<1>1. RowFields(new) /\ new.state = "drafting" /\ ~new.verified /\ new.built = NoTx /\ new.txid = 0
  BY <1>b, <1>c DEF RowFields
<1>2. rows[s] = old /\ rows' = [rows EXCEPT ![s] = new]
  BY <1>a, <1>b DEF CreateSession, Kept, RowOk
<1>3. rows'[s] = new /\ \A x \in Session : x # s => rows'[x] = rows[x]
  BY <1>2 DEF Kept, Shape
<1>4. RowOk(s)'
  BY <1>1, <1>3 DEF RowOk
<1> QED  BY <1>c, <1>1, <1>2, <1>3, <1>4 DEF Kept, Shape

(* What the mint page has, a step that leaves its variables alone keeps.   *)
LEMMA MintKept ==
  ASSUME Kept, UNCHANGED mintVars
  PROVE  MintOk' /\ mints' = [i \in MintSession |-> mints'[i]]
BY DEF Kept, MintOk, PageOk, Unpublished, mintVars, Shape

----------------------------------------------------------------------------
(* Requests.                                                               *)

LEMMA JobStep ==
  ASSUME Shape, NEW r \in Request, NEW q, JobFields(q), req' = [req EXCEPT ![r] = q]
  PROVE  /\ req' = [x \in Request |-> req'[x]]
         /\ \A x \in Request : JobFields(req'[x])
         /\ req'[r] = q
         /\ \A x \in Request : x # r => req'[x] = req[x]
BY DEF Shape

LEMMA FinishStep ==
  ASSUME Shape, NEW r \in Request, Finish(r)
  PROVE  /\ req' = [x \in Request |-> req'[x]]
         /\ \A x \in Request : JobFields(req'[x])
         /\ req'[r] = Idle
         /\ \A x \in Request : x # r => req'[x] = req[x]
         /\ JobOk(r)'
<1>1. PICK q : q = Idle
  OBVIOUS
<1>2. JobFields(q) /\ q.pc = "idle"
  BY <1>1 DEF Idle, JobFields
<1>3. req' = [req EXCEPT ![r] = q]
  BY <1>1 DEF Finish
<1> QED  BY <1>1, <1>2, <1>3, JobStep DEF JobOk, Building

(* What a request that arrives has read.                                   *)
LEMMA ReadStep ==
  ASSUME Shape, NEW r \in Request, NEW s, NEW pc, NEW extra, Read(r, s, pc, extra),
         DOMAIN extra \subseteq {"uri", "tx"}
  PROVE  /\ req' = [x \in Request |-> req'[x]]
         /\ \A x \in Request : JobFields(req'[x])
         /\ \A x \in Request : x # r => req'[x] = req[x]
         /\ req'[r].pc = pc /\ req'[r].s = s /\ req'[r].doc = rows[s].doc
         /\ Sets(extra, "tx") => req'[r].tx = extra.tx
<1>1. PICK old : old = Idle
  OBVIOUS
<1>2. PICK new : new = [old EXCEPT !.pc = pc, !.s = s, !.doc = rows[s].doc,
                                   !.fresh = rows[s].head = 0]
  OBVIOUS
<1>3. PICK q : q = Patched(new, extra)
  OBVIOUS
<1>4. JobFields(old)
  BY <1>1 DEF Idle, JobFields
<1>5. JobFields(new) /\ new.pc = pc /\ new.s = s /\ new.doc = rows[s].doc
  BY <1>2, <1>4 DEF JobFields
<1>6. DOMAIN new = {"pc", "s", "uri", "doc", "fresh", "head", "tx"}
  BY <1>5 DEF JobFields
<1>7. /\ q.pc = new.pc /\ q.s = new.s /\ q.doc = new.doc
      /\ Sets(extra, "tx") => q.tx = extra.tx
      /\ JobFields(q)
  BY <1>3, <1>6 DEF Patched, Sets, JobFields
<1>8. req' = [req EXCEPT ![r] = q]
  BY <1>1, <1>2, <1>3 DEF Read
<1> QED  BY <1>5, <1>7, <1>8, JobStep

(* A step of a request that changes no table, coin or document.            *)
LEMMA QuietStep ==
  ASSUME Kept, UNCHANGED <<accepted, rows, shown, hosted, mintVars>>,
         NEW r \in Request, req' = [x \in Request |-> req'[x]],
         \A x \in Request : JobFields(req'[x]) /\ (x # r => req'[x] = req[x]),
         JobOk(r)'
  PROVE  Kept'
<1>1. Grows
  BY DEF Grows, Kept, Shape, IsSequence
<1>2. Shape'
  BY MintKept DEF Kept, Shape, IsSequence
<1> QED  BY <1>1, <1>2, MintKept, KeptStep

(* A step of a request that patches its row and ends.                      *)
LEMMA PatchAndFinish ==
  ASSUME Kept, UNCHANGED <<accepted, hosted, mintVars>>,
         NEW s \in Session, NEW patch, UpdateSession(s, patch),
         NEW r \in Request, Finish(r),
         Sets(patch, "state") => patch.state # "absent",
         Sets(patch, "verified") => Ready(s),
         Sets(patch, "built") => patch.built = NoTx \/ Carries(patch.built, s),
         Sets(patch, "txid") =>
           patch.txid \in 1..Len(accepted) /\ Carries(accepted[patch.txid], s),
         \A tx \in shown' : tx \in shown \/ Carries(tx, tx.s)
  PROVE  Kept'
<1>1. Grows
  BY PatchStep DEF Grows, Kept, Shape, IsSequence
<1>2. Shape'
  BY MintKept, PatchStep, FinishStep DEF Kept, Shape, IsSequence
<1>3. \A x \in Session : rows'[x] = rows[x] \/ RowOk(x)'
  BY <1>1, PatchOk
<1>4. \A x \in Request : req'[x] = req[x] \/ JobOk(x)'
  BY FinishStep DEF Kept
<1>5. \A tx \in shown' : tx \in shown \/ Carries(tx, tx.s)'
  BY <1>1, CarriesKept
<1> QED  BY <1>1, <1>2, <1>3, <1>4, <1>5, MintKept, KeptStep

LEMMA CanonicalizeReadOk ==
  ASSUME Kept, UNCHANGED mintVars, NEW r \in Request, NEW s \in Session, CanonicalizeRead(r, s)
  PROVE  Kept'
<1>1. Read(r, s, "canonical", NoMore) /\ DOMAIN NoMore \subseteq {"uri", "tx"}
  BY DEF CanonicalizeRead, NoMore
<1>2. UNCHANGED <<accepted, rows, shown, hosted>>
  BY DEF CanonicalizeRead, walletVars, server, pages, history
<1>3. JobOk(r)'
  BY <1>1, ReadStep DEF Kept, JobOk, Building
<1> QED  BY <1>1, <1>2, <1>3, ReadStep, QuietStep DEF Kept

LEMMA RunVerifyOk ==
  ASSUME Kept, UNCHANGED mintVars, NEW r \in Request, NEW s \in Session, NEW uri,
         RunVerify(r, s, uri)
  PROVE  Kept'
<1> DEFINE extra == [uri |-> uri]
<1>1. Read(r, s, "fetch", extra) /\ DOMAIN extra \subseteq {"uri", "tx"} /\ rows[s].doc # 0
  BY DEF RunVerify
<1> HIDE DEF extra
<1>2. UNCHANGED <<accepted, rows, shown, hosted>>
  BY DEF RunVerify, walletVars, server, pages, history
<1>3. JobOk(r)'
  BY <1>1, <1>2, ReadStep DEF Kept, JobOk, Building
<1> QED  BY <1>1, <1>2, <1>3, ReadStep, QuietStep DEF Kept

LEMMA BuildReadOk ==
  ASSUME Kept, UNCHANGED mintVars, NEW r \in Request, NEW s \in Session, BuildRead(r, s)
  PROVE  Kept'
<1>1. UNCHANGED <<accepted, rows, hosted>> /\ rows[s].doc # 0 /\ Ready(s)
  BY DEF BuildRead, walletVars, server, history, Buildable, Kept, RowOk
<1>2. CASE rows[s].built = NoTx
  <2>1. Read(r, s, "head", NoMore) /\ DOMAIN NoMore \subseteq {"uri", "tx"} /\ UNCHANGED shown
    BY <1>2 DEF BuildRead, NoMore
  <2>2. JobOk(r)'
    BY <1>1, <2>1, ReadStep DEF Kept, JobOk, Building, Ready
  <2> QED  BY <1>1, <2>1, <2>2, ReadStep, QuietStep DEF Kept
<1>3. CASE rows[s].built # NoTx
  <2>1. UNCHANGED req /\ shown' = shown \cup {rows[s].built}
    BY <1>3 DEF BuildRead
  <2>2. Grows
    BY <1>1 DEF Grows, Kept, Shape, IsSequence
  <2>3. Shape'
    BY <1>1, <2>1, MintKept DEF Kept, Shape, IsSequence
  <2>4. \A tx \in shown' : tx \in shown \/ Carries(tx, tx.s)'
    <3>1. \A tx \in shown' : tx \in shown \/ Carries(tx, tx.s)
      BY <2>1, <1>3 DEF Kept, RowOk, Carries
    <3> QED  BY <3>1, <2>2, CarriesKept
  <2> QED  BY <1>1, <2>1, <2>2, <2>3, <2>4, MintKept, KeptStep
<1> QED  BY <1>2, <1>3

LEMMA RunBroadcastOk ==
  ASSUME Kept, UNCHANGED mintVars, NEW r \in Request, NEW s \in Session, RunBroadcast(r, s)
  PROVE  Kept'
<1>1. PICK tx \in shown : tx.s = s /\ Read(r, s, "send", [tx |-> tx])
  BY DEF RunBroadcast
<1> DEFINE extra == [tx |-> tx]
<1>2. Read(r, s, "send", extra) /\ DOMAIN extra \subseteq {"uri", "tx"}
      /\ Sets(extra, "tx") /\ extra.tx = tx
  BY <1>1 DEF Sets
<1> HIDE DEF extra
<1>3. UNCHANGED <<accepted, rows, shown, hosted>>
  BY DEF RunBroadcast, walletVars, server, pages
<1>4. Carries(tx, s)'
  BY <1>1, <1>3 DEF Kept, Carries, Ready
<1>5. JobOk(r)'
  BY <1>2, <1>3, <1>4, ReadStep DEF Kept, JobOk, Building
<1> QED  BY <1>2, <1>3, <1>5, ReadStep, QuietStep DEF Kept

LEMMA CanonicalizeOk ==
  ASSUME Kept, UNCHANGED mintVars, NEW r \in Request, Canonicalize(r)
  PROVE  Kept'
<1> DEFINE s == req[r].s
           patch == [doc |-> docs + 1]
<1>1. s \in Session
  BY DEF Canonicalize, Kept, JobOk
<1>2. /\ UpdateSession(s, patch) /\ Finish(r)
      /\ UNCHANGED <<accepted, shown, hosted>>
  BY DEF Canonicalize, walletVars, history
<1>3. DOMAIN patch = {"doc"}
  OBVIOUS
<1> HIDE DEF s, patch
<1> QED  BY <1>1, <1>2, <1>3, PatchAndFinish DEF Sets

LEMMA FetchAndHashOk ==
  ASSUME Kept, UNCHANGED mintVars, NEW r \in Request, FetchAndHash(r)
  PROVE  Kept'
<1> DEFINE q == req[r]
           match == Serves(q.uri) = q.doc
<1>1. /\ q.s \in Session /\ q.doc # 0 /\ q.doc = rows[q.s].doc /\ JobFields(q)
  BY DEF FetchAndHash, Kept, JobOk, Shape
<1>2. UNCHANGED <<accepted, rows, shown>> /\ hosted \subseteq hosted'
  BY DEF FetchAndHash, walletVars, server, pages
<1>3. PICK new : new = IF match THEN [q EXCEPT !.pc = "verified"] ELSE Idle
  OBVIOUS
<1>4. /\ JobFields(new) /\ new.pc \in {"idle", "verified"}
      /\ new.pc = "verified" => new.s = q.s /\ new.doc = q.doc /\ match
  BY <1>1, <1>3 DEF JobFields, Idle
<1>5. req' = [req EXCEPT ![r] = new] /\ (match => q.doc \in hosted')
  BY <1>3 DEF FetchAndHash
<1> HIDE DEF match
<1>6. Grows
  BY <1>2 DEF Grows, Kept, Shape, IsSequence
<1>7. Shape'
  BY <1>2, <1>4, <1>5, JobStep, MintKept DEF Kept, Shape, IsSequence
<1>8. JobOk(r)'
  BY <1>1, <1>2, <1>4, <1>5, JobStep DEF Kept, JobOk, Ready, Building
<1>9. \A x \in Request : req'[x] = req[x] \/ JobOk(x)'
  BY <1>4, <1>5, <1>8, JobStep DEF Kept
<1> QED  BY <1>2, <1>6, <1>7, <1>9, MintKept, KeptStep

LEMMA VerifyPersistOk ==
  ASSUME Kept, UNCHANGED mintVars, NEW r \in Request, VerifyPersist(r)
  PROVE  Kept'
<1> DEFINE s == req[r].s
           patch == [uri |-> req[r].uri, verified |-> TRUE]
<1>1. s \in Session /\ Ready(s)
  BY DEF VerifyPersist, Kept, JobOk
<1>2. /\ UpdateSession(s, patch) /\ Finish(r)
      /\ UNCHANGED <<accepted, shown, hosted>>
  BY DEF VerifyPersist, walletVars, pages, history
<1>3. DOMAIN patch = {"uri", "verified"}
  OBVIOUS
<1> HIDE DEF s, patch
<1> QED  BY <1>1, <1>2, <1>3, PatchAndFinish DEF Sets

LEMMA BuildHeadOk ==
  ASSUME Kept, UNCHANGED mintVars, NEW r \in Request, BuildHead(r)
  PROVE  Kept'
<1> DEFINE q == req[r]
<1>1. PICK owns, head :
        req' = [req EXCEPT ![r] = IF owns THEN [q EXCEPT !.pc = "coins", !.head = head] ELSE Idle]
  BY DEF BuildHead
<1>2. UNCHANGED <<accepted, rows, shown, hosted>> /\ q.pc = "head"
  BY DEF BuildHead, walletVars, server, pages
<1>3. PICK new : /\ req' = [req EXCEPT ![r] = new]
                 /\ new = IF owns THEN [q EXCEPT !.pc = "coins", !.head = head] ELSE Idle
  BY <1>1
<1>4. JobFields(q)
  BY DEF Kept, Shape
<1>5. /\ JobFields(new) /\ new.pc \in {"idle", "coins"}
      /\ new.pc = "coins" => new.s = q.s /\ new.doc = q.doc
  BY <1>3, <1>4 DEF JobFields, Idle
<1>6. JobOk(r)'
  BY <1>2, <1>3, <1>5, JobStep DEF Kept, JobOk, Ready, Building
<1> QED  BY <1>2, <1>3, <1>5, <1>6, JobStep, QuietStep DEF Kept

(* The transaction that is built is a publication for the session, of the  *)
(* document it was built with.                                             *)
LEMMA BuiltTx ==
  ASSUME NEW s, NEW auth, NEW available, NEW doc, NEW whole, NEW tx,
         tx = BuildBcmrPublishTx(s, auth, available, doc, whole), tx # NoTx
  PROVE  tx.what = "publish" /\ tx.s = s /\ tx.doc = doc
<1>1. PICK ins, outs :
        tx = [what |-> "publish", s |-> s, ins |-> ins, outs |-> outs, doc |-> doc, whole |-> whole]
  BY Zenon DEF BuildBcmrPublishTx
<1> QED  BY <1>1

LEMMA BuildCoinsOk ==
  ASSUME Kept, UNCHANGED mintVars, NEW r \in Request, BuildCoins(r)
  PROVE  Kept'
<1> DEFINE q == req[r]
<1>1. PICK tx : /\ \/ tx = NoTx
                   \/ \E auth, coins, whole : tx = BuildBcmrPublishTx(q.s, auth, coins, q.doc, whole)
                /\ req' = [req EXCEPT ![r] = IF tx = NoTx THEN Idle
                                             ELSE [q EXCEPT !.pc = "persist", !.tx = tx]]
  <2> DEFINE view(unread) == VerifyUtxoTokenData(FetchWalletUtxos, unread)
             auth(unread) == {u \in view(unread) : u.coin = <<q.head, 0>> /\ ~IsPlain(u.token)}
             tx(unread) == IF auth(unread) = {} THEN NoTx
                           ELSE BuildBcmrPublishTx(q.s, CHOOSE u \in auth(unread) : TRUE,
                                  view(unread) \ auth(unread), q.doc, unread = {})
  <2>1. PICK unread : req' = [req EXCEPT ![r] = IF tx(unread) = NoTx THEN Idle
                                               ELSE [q EXCEPT !.pc = "persist", !.tx = tx(unread)]]
    BY Zenon DEF BuildCoins
  <2>2. tx(unread) = NoTx \/ \E one, coins, whole :
          tx(unread) = BuildBcmrPublishTx(q.s, one, coins, q.doc, whole)
    BY Zenon
  <2> QED  BY <2>1, <2>2, Zenon
<1>2. UNCHANGED <<accepted, rows, shown, hosted>> /\ q.pc = "coins"
  BY DEF BuildCoins, walletVars, server, pages, history
<1>3. PICK new : /\ req' = [req EXCEPT ![r] = new]
                 /\ new = IF tx = NoTx THEN Idle ELSE [q EXCEPT !.pc = "persist", !.tx = tx]
  BY <1>1
<1>4. JobFields(q)
  BY DEF Kept, Shape
<1>5. /\ JobFields(new) /\ new.pc \in {"idle", "persist"}
      /\ new.pc = "persist" => new.s = q.s /\ new.doc = q.doc /\ new.tx = tx /\ tx # NoTx
  BY <1>3, <1>4 DEF JobFields, Idle
<1>6. tx # NoTx => tx.what = "publish" /\ tx.s = q.s /\ tx.doc = q.doc
  BY <1>1, BuiltTx
<1>7. JobOk(r)'
  BY <1>2, <1>3, <1>5, <1>6, JobStep DEF Kept, JobOk, Ready, Building, Carries
<1> QED  BY <1>2, <1>3, <1>5, <1>7, JobStep, QuietStep DEF Kept

LEMMA BuildPersistOk ==
  ASSUME Kept, UNCHANGED mintVars, NEW r \in Request, BuildPersist(r)
  PROVE  Kept'
<1> DEFINE q == req[r]
           s == q.s
<1>1. PICK patch : /\ DOMAIN patch \subseteq {"built", "head"} /\ patch.built = q.tx
                   /\ UpdateSession(s, patch)
                   /\ shown' = IF Writable(rows[s], patch) THEN shown \cup {q.tx} ELSE shown
  <2>1. CASE q.fresh
    BY <2>1 DEF BuildPersist
  <2>2. CASE ~q.fresh
    BY <2>2 DEF BuildPersist
  <2> QED  BY <2>1, <2>2
<1>2. s \in Session /\ Carries(q.tx, s) /\ q.tx.s = s
  BY DEF BuildPersist, Kept, JobOk, Carries
<1>3. Finish(r) /\ UNCHANGED <<accepted, hosted>>
  BY DEF BuildPersist, walletVars, history
<1>4. \A tx \in shown' : tx \in shown \/ Carries(tx, tx.s)
  BY <1>1, <1>2
<1> HIDE DEF s
<1> QED  BY <1>1, <1>2, <1>3, <1>4, PatchAndFinish DEF Sets

LEMMA DiscardBuildOk ==
  ASSUME Kept, UNCHANGED mintVars, NEW r \in Request, DiscardBuild(r)
  PROVE  Kept'
<1> DEFINE s == req[r].s
           patch == [built |-> NoTx]
<1>1. s \in Session
  BY DEF DiscardBuild, Kept, JobOk
<1>2. /\ UpdateSession(s, patch) /\ Finish(r)
      /\ UNCHANGED <<accepted, shown, hosted>>
  BY DEF DiscardBuild, walletVars, pages, history
<1>3. DOMAIN patch = {"built"} /\ patch.built = NoTx
  OBVIOUS
<1> HIDE DEF s, patch
<1> QED  BY <1>1, <1>2, <1>3, PatchAndFinish DEF Sets

LEMMA BroadcastPersistOk ==
  ASSUME Kept, UNCHANGED mintVars, NEW r \in Request, BroadcastPersist(r)
  PROVE  Kept'
<1> DEFINE q == req[r]
           patch == Sent(q)
<1>1. /\ q.s \in Session /\ q.pc = "sent"
      /\ q.head \in 1..Len(accepted) /\ Carries(accepted[q.head], q.s)
  BY DEF BroadcastPersist, Kept, JobOk
<1>2. /\ UpdateSession(q.s, patch)
      /\ UNCHANGED <<accepted, shown, hosted>>
  BY DEF BroadcastPersist, walletVars, pages, history
<1>3. DOMAIN patch = {"state", "signed", "txid"} /\ patch.state = "broadcast" /\ patch.txid = q.head
  BY DEF Sent
<1>4. PICK new : req' = [req EXCEPT ![r] = new] /\ new = [q EXCEPT !.pc = "nudge"]
  BY DEF BroadcastPersist
<1>5. JobFields(new) /\ new.pc = "nudge" /\ new.s = q.s
  BY <1>4 DEF Kept, Shape, JobFields
<1> HIDE DEF patch
<1>6. Grows
  BY <1>1, <1>2, PatchStep DEF Grows, Kept, Shape, IsSequence
<1>7. Shape'
  BY <1>1, <1>2, <1>4, <1>5, PatchStep, JobStep, MintKept DEF Kept, Shape, IsSequence
<1>8. \A x \in Session : rows'[x] = rows[x] \/ RowOk(x)'
  BY <1>1, <1>2, <1>3, <1>6, PatchOk DEF Sets
<1>9. JobOk(r)'
  BY <1>1, <1>4, <1>5, JobStep DEF Kept, JobOk, Building
<1> QED  BY <1>2, <1>4, <1>5, <1>6, <1>7, <1>8, <1>9, JobStep, MintKept, KeptStep DEF Kept

(* A longer sequence.                                                      *)
LEMMA Appended ==
  ASSUME NEW acc, IsSequence(acc), NEW tx
  PROVE  /\ IsSequence(Append(acc, tx)) /\ Len(Append(acc, tx)) = Len(acc) + 1
         /\ Append(acc, tx)[Len(acc) + 1] = tx
         /\ \A t \in 1..Len(acc) : Append(acc, tx)[t] = acc[t]
<1> DEFINE T == {acc[t] : t \in 1..Len(acc)} \cup {tx}
<1>1. acc \in Seq(T) /\ tx \in T
  BY DEF IsSequence
<1> HIDE DEF T
<1>2. PICK new : new = Append(acc, tx)
  OBVIOUS
<1>3. new \in Seq(T) /\ Len(new) = Len(acc) + 1 /\ new[Len(acc) + 1] = tx
      /\ \A t \in 1..Len(acc) : new[t] = acc[t]
  BY <1>1, <1>2
<1>4. new \in [1..Len(new) -> T] /\ Len(new) \in Nat
  BY <1>3, LenProperties
<1>5. IsSequence(new)
  BY <1>4 DEF IsSequence
<1> QED  BY <1>2, <1>3, <1>5

(* The node takes a transaction that carries what it should.               *)
LEMMA AcceptStep ==
  ASSUME Kept, UNCHANGED <<rows, hosted>>, NEW tx, Sendable(tx), Accept(tx)
  PROVE  /\ Grows /\ IsSequence(accepted')
         /\ Len(accepted') = Len(accepted) + 1 /\ accepted'[Len(accepted) + 1] = tx
         /\ \A t \in 1..Len(accepted') : t \in 1..Len(accepted) \/ Sendable(accepted[t])'
<1>0. IsSequence(accepted) /\ Len(accepted) \in Nat
  BY DEF Kept, Shape, IsSequence
<1>1. /\ IsSequence(accepted') /\ Len(accepted') = Len(accepted) + 1
      /\ accepted'[Len(accepted) + 1] = tx
      /\ \A t \in 1..Len(accepted) : accepted'[t] = accepted[t]
      /\ Len(accepted) \in Nat
  BY <1>0, Appended DEF Accept
<1>2. Grows
  BY <1>1 DEF Grows
<1>3. Sendable(tx)'
  BY DEF Sendable, Carries, Ready
<1>4. ASSUME NEW t \in 1..Len(accepted'), t \notin 1..Len(accepted)
      PROVE  Sendable(accepted[t])'
  BY <1>1, <1>3, <1>4 DEF Sendable, Carries, Ready
<1> QED  BY <1>1, <1>2, <1>4

LEMMA SendRawTransactionOk ==
  ASSUME Kept, UNCHANGED mintVars, NEW r \in Request, SendRawTransaction(r)
  PROVE  Kept'
<1> DEFINE q == req[r]
<1>1. UNCHANGED <<rows, shown, hosted>> /\ Carries(q.tx, q.s) /\ q.s \in Session /\ q.pc = "send"
  BY DEF SendRawTransaction, server, pages, Kept, JobOk
<1>2. PICK pc, head :
        /\ req' = [req EXCEPT ![r] = [q EXCEPT !.pc = pc, !.head = head]]
        /\ \/ pc = "sent" /\ head = Len(accepted) + 1 /\ Accept(q.tx)
           \/ pc = "dead" /\ Accept(q.tx)
           \/ pc = "dead" /\ UNCHANGED walletVars
  <2>1. JobFields(q)
    BY DEF Kept, Shape
  <2>2. CASE req' = [req EXCEPT ![r] = [q EXCEPT !.pc = "dead"]] /\ (Accept(q.tx) \/ UNCHANGED walletVars)
    <3>1. [q EXCEPT !.pc = "dead"] = [q EXCEPT !.pc = "dead", !.head = q.head]
      BY <2>1 DEF JobFields
    <3> QED  BY <2>2, <3>1
  <2>3. CASE req' = [req EXCEPT ![r] = [q EXCEPT !.pc = "sent", !.head = Len(accepted) + 1]] /\ Accept(q.tx)
    BY <2>3
  <2> QED  BY <2>2, <2>3 DEF SendRawTransaction
<1>3. PICK new : req' = [req EXCEPT ![r] = new] /\ new = [q EXCEPT !.pc = pc, !.head = head]
  BY <1>2
<1>0. JobFields(q)
  BY DEF Kept, Shape
<1>4. JobFields(new) /\ new.pc = pc /\ new.head = head /\ new.s = q.s /\ new.tx = q.tx
  BY <1>0, <1>3 DEF JobFields
<1>5. CASE Accept(q.tx)
  <2>1. Sendable(q.tx)
    BY <1>1 DEF Sendable, Carries
  <2>2. /\ Grows /\ IsSequence(accepted')
        /\ Len(accepted') = Len(accepted) + 1 /\ accepted'[Len(accepted) + 1] = q.tx
        /\ \A t \in 1..Len(accepted') : t \in 1..Len(accepted) \/ Sendable(accepted[t])'
    BY <1>1, <1>5, <2>1, AcceptStep
  <2>3. Shape'
    BY <1>1, <1>3, <1>4, <2>2, JobStep, MintKept DEF Kept, Shape
  <2>4. JobOk(r)'
    <3>1. Len(accepted) + 1 \in 1..Len(accepted')
      BY <2>2 DEF Kept, Shape, IsSequence
    <3>2. req'[r] = new
      BY <1>3, <1>4, JobStep DEF Kept
    <3>3. PICK tx, s : tx = q.tx /\ s = q.s
      OBVIOUS
    <3>4. Carries(tx, s)'
      BY <1>1, <2>2, <3>3, CarriesKept
    <3> QED  BY <1>1, <1>2, <1>4, <2>2, <3>1, <3>2, <3>3, <3>4 DEF JobOk, Building
  <2> QED  BY <1>1, <1>3, <1>4, <2>2, <2>3, <2>4, JobStep, MintKept, KeptStep DEF Kept
<1>6. CASE pc = "dead" /\ UNCHANGED walletVars
  <2>1. UNCHANGED accepted
    BY <1>6 DEF walletVars
  <2>2. JobOk(r)'
    BY <1>1, <1>3, <1>4, <1>6, JobStep DEF Kept, JobOk, Building
  <2> QED  BY <1>1, <1>3, <1>4, <2>1, <2>2, JobStep, QuietStep DEF Kept
<1> QED  BY <1>2, <1>5, <1>6

LEMMA NudgeBcmrIndexerOk ==
  ASSUME Kept, UNCHANGED mintVars, NEW r \in Request, NudgeBcmrIndexer(r)
  PROVE  Kept'
<1>1. Finish(r) /\ UNCHANGED <<accepted, rows, shown, hosted>>
  BY DEF NudgeBcmrIndexer, walletVars, pages, history
<1> QED  BY <1>1, FinishStep, QuietStep DEF Kept

LEMMA StatementFailsOk ==
  ASSUME Kept, UNCHANGED mintVars, NEW r \in Request, StatementFails(r)
  PROVE  Kept'
<1>1. Finish(r) /\ UNCHANGED <<accepted, rows, shown, hosted>>
  BY DEF StatementFails, walletVars, server, pages
<1> QED  BY <1>1, FinishStep, QuietStep DEF Kept

LEMMA RestartOk ==
  ASSUME Kept, UNCHANGED mintVars, Restart
  PROVE  Kept'
<1>1. req' = [x \in Request |-> Idle] /\ UNCHANGED <<accepted, rows, shown, hosted>>
  BY DEF Restart, walletVars, pages
<1>2. PICK q : q = Idle
  OBVIOUS
<1>3. JobFields(q) /\ q.pc = "idle"
  BY <1>2 DEF Idle, JobFields
<1>4. Grows
  BY <1>1 DEF Grows, Kept, Shape, IsSequence
<1>5. Shape'
  BY <1>1, <1>2, <1>3, MintKept DEF Kept, Shape, IsSequence
<1>6. \A x \in Request : JobOk(x)'
  BY <1>1, <1>2, <1>3 DEF JobOk, Building
<1> QED  BY <1>1, <1>4, <1>5, <1>6, MintKept, KeptStep

----------------------------------------------------------------------------
(* The pages and the chain.                                                *)

(* A step that leaves requests alone and patches a row's own columns.      *)
LEMMA PagePatch ==
  ASSUME Kept, UNCHANGED <<accepted, hosted, shown, req, mintVars>>,
         NEW s \in Session, NEW patch, UpdateSession(s, patch),
         Sets(patch, "state") => patch.state # "absent",
         ~Sets(patch, "verified"), ~Sets(patch, "built"), ~Sets(patch, "txid")
  PROVE  Kept'
<1>1. Grows
  BY PatchStep DEF Grows, Kept, Shape, IsSequence
<1>2. Shape'
  BY MintKept, PatchStep DEF Kept, Shape, IsSequence
<1>3. \A x \in Session : rows'[x] = rows[x] \/ RowOk(x)'
  BY <1>1, PatchOk
<1> QED  BY <1>1, <1>2, <1>3, MintKept, KeptStep

LEMMA StartWizardOk ==
  ASSUME Kept, UNCHANGED mintVars, NEW s \in Session, NEW cat, StartWizard(s, cat)
  PROVE  Kept'
<1>1. CreateSession(s, cat) /\ UNCHANGED <<accepted, hosted, shown, req>>
  BY DEF StartWizard, walletVars, pages, history
<1>2. Grows
  BY <1>1, CreateOk DEF Grows, Kept, Shape, IsSequence
<1>3. Shape'
  BY <1>1, CreateOk, MintKept DEF Kept, Shape, IsSequence
<1> QED  BY <1>1, <1>2, <1>3, CreateOk, MintKept, KeptStep

LEMMA SaveIdentityOk ==
  ASSUME Kept, UNCHANGED mintVars, NEW s \in Session, SaveIdentity(s)
  PROVE  Kept'
<1> DEFINE patch == [named |-> TRUE]
<1>1. UpdateSession(s, patch) /\ UNCHANGED <<accepted, hosted, shown, req>> /\ DOMAIN patch = {"named"}
  BY DEF SaveIdentity, walletVars, pages, history
<1> HIDE DEF patch
<1> QED  BY <1>1, PagePatch DEF Sets

LEMMA AbandonDraftOk ==
  ASSUME Kept, UNCHANGED mintVars, NEW s \in Session, AbandonDraft(s)
  PROVE  Kept'
<1> DEFINE patch == [state |-> "abandoned"]
<1>1. /\ UpdateSession(s, patch) /\ UNCHANGED <<accepted, hosted, shown, req>>
      /\ DOMAIN patch = {"state"} /\ patch.state = "abandoned"
  BY DEF AbandonDraft, walletVars, pages, history
<1> HIDE DEF patch
<1> QED  BY <1>1, PagePatch DEF Sets

LEMMA PinCanonicalJsonOk ==
  ASSUME Kept, UNCHANGED mintVars, NEW s \in Session, PinCanonicalJson(s)
  PROVE  Kept'
<1>1. PICK d : /\ UpdateSession(s, [uri |-> d])
               /\ UNCHANGED <<accepted, hosted, shown, req>>
  BY DEF PinCanonicalJson, walletVars, pages, history
<1> DEFINE patch == [uri |-> d]
<1>2. UpdateSession(s, patch) /\ DOMAIN patch = {"uri"}
  BY <1>1
<1> HIDE DEF patch
<1> QED  BY <1>1, <1>2, PagePatch DEF Sets

(* Nothing the invariant speaks of changes.                                *)
LEMMA IdleStep ==
  ASSUME Kept, UNCHANGED <<accepted, rows, hosted, shown, req, mintVars>>
  PROVE  Kept'
<1>1. Grows
  BY DEF Grows, Kept, Shape, IsSequence
<1>2. Shape'
  BY MintKept DEF Kept, Shape, IsSequence
<1> QED  BY <1>1, <1>2, MintKept, KeptStep

LEMMA ArriveOk ==
  ASSUME Kept, UNCHANGED <<publishVars, mintVars>>, NEW k \in DOMAIN Fund, Arrive(k)
  PROVE  Kept'
<1>1. PICK tx, coins : tx = [NoTx EXCEPT !.what = "fund", !.outs = coins] /\ Accept(tx)
  BY DEF Arrive
<1>2. tx.what = "fund"
  BY <1>1 DEF NoTx
<1>3. UNCHANGED <<rows, hosted, shown, req>>
  BY DEF publishVars
<1>4. /\ Grows /\ IsSequence(accepted')
      /\ \A t \in 1..Len(accepted') : t \in 1..Len(accepted) \/ Sendable(accepted[t])'
  BY <1>1, <1>2, <1>3, AcceptStep DEF Sendable
<1>5. Shape'
  BY <1>3, <1>4, MintKept DEF Kept, Shape
<1> QED  BY <1>3, <1>4, <1>5, MintKept, KeptStep

(* Every step of the publish endpoints.                                    *)
LEMMA PublishRequestsOk ==
  ASSUME Kept, UNCHANGED mintVars, PublishRequests
  PROVE  Kept'
<1>1. ASSUME NEW r \in Request, Handle(r)
      PROVE  Kept'
  BY <1>1, CanonicalizeOk, FetchAndHashOk, VerifyPersistOk, BuildHeadOk, BuildCoinsOk,
     BuildPersistOk, SendRawTransactionOk, DiscardBuildOk, BroadcastPersistOk,
     NudgeBcmrIndexerOk, StatementFailsOk DEF Handle
<1>2. ASSUME NEW r \in Request, NEW s \in Session, Arrives(r, s)
      PROVE  Kept'
  BY <1>2, CanonicalizeReadOk, BuildReadOk, RunBroadcastOk, RunVerifyOk DEF Arrives
<1>3. CASE CooldownEnds
  <2>1. UNCHANGED <<accepted, rows, hosted, shown, req>>
    BY <1>3 DEF CooldownEnds, walletVars, pages, history
  <2> QED  BY <2>1, IdleStep
<1> QED  BY <1>1, <1>2, <1>3, RestartOk DEF PublishRequests

(* Every step of the pages that call them, and of the walker and the host. *)
LEMMA PublishPagesOk ==
  ASSUME Kept, UNCHANGED mintVars, PublishPages
  PROVE  Kept'
<1>1. ASSUME NEW s \in Session, SaveIdentity(s) \/ AbandonDraft(s) \/ PinCanonicalJson(s)
      PROVE  Kept'
  BY <1>1, SaveIdentityOk, AbandonDraftOk, PinCanonicalJsonOk
<1>2. ASSUME NEW cat, WalkerVisits(cat)
      PROVE  Kept'
  <2>1. UNCHANGED <<accepted, rows, hosted, shown, req>>
    BY <1>2 DEF WalkerVisits, walletVars, pages, history
  <2> QED  BY <2>1, IdleStep
<1>3. ASSUME NEW s \in Session, NEW cat, StartWizard(s, cat)
      PROVE  Kept'
  BY <1>3, StartWizardOk
<1>4. CASE HostChanges
  <2>1. UNCHANGED <<accepted, rows, hosted, shown, req>>
    BY <1>4 DEF HostChanges, walletVars, server, pages, history
  <2> QED  BY <2>1, IdleStep
<1> QED  BY <1>1, <1>2, <1>3, <1>4 DEF PublishPages

----------------------------------------------------------------------------
(* The mint page.                                                          *)

LEMMA GenesisUnpublished ==
  ASSUME NEW s, NEW out, NEW sats, NEW token, NEW tx, tx = BuildGenesisTx(s, out, sats, token)
  PROVE  Unpublished(tx)
<1>1. \/ tx = NoTx
      \/ \E ins, outs : tx = [what |-> "genesis", s |-> s, ins |-> ins, outs |-> outs,
                              doc |-> 0, whole |-> TRUE]
  BY Zenon DEF BuildGenesisTx
<1> QED  BY <1>1 DEF Unpublished, NoTx

LEMMA RebuildOk ==
  ASSUME NEW p, PageOk(p)
  PROVE  PageOk(RebuildGenesis(p))
<1>1. CASE p.step # 4
  BY <1>1 DEF RebuildGenesis
<1>2. CASE p.step = 4
  <2>1. PICK tx : /\ RebuildGenesis(p) = [p EXCEPT !.build = tx]
                  /\ tx = NoTx \/ tx = BuildGenesisTx(p.sid, p.out, p.sats, p.kind)
    BY <1>2, Zenon DEF RebuildGenesis
  <2>2. Unpublished(tx)
    BY <2>1, GenesisUnpublished DEF Unpublished, NoTx
  <2>3. PICK q : q = [p EXCEPT !.build = tx]
    OBVIOUS
  <2>4. PageOk(q)
    BY <2>2, <2>3 DEF PageOk, PageFields
  <2> QED  BY <2>1, <2>3, <2>4
<1> QED  BY <1>1, <1>2

LEMMA NewPageOk == PageOk(NewPage)
BY DEF PageOk, PageFields, NewPage, Unpublished, NoTx

(* A step that shows another page.                                         *)
LEMMA TurnPage ==
  ASSUME Kept, UNCHANGED <<accepted, rows, hosted, shown, req, mints, consolidation>>,
         PageOk(page'), \A tx \in signedHex' : Unpublished(tx)
  PROVE  Kept'
<1>1. Grows
  BY DEF Grows, Kept, Shape, IsSequence
<1>2. Shape'
  BY DEF Kept, Shape, IsSequence
<1>3. MintOk'
  BY DEF Kept, MintOk
<1> QED  BY <1>1, <1>2, <1>3, KeptStep

LEMMA ResumeOk ==
  ASSUME Kept, Resume
  PROVE  Kept'
<1>1. PICK i, kind, out, sats : i \in MintSession /\
        page' = [NewPage EXCEPT !.sid = i, !.kind = kind, !.out = out, !.sats = sats]
  <2>1. PICK i \in MintSession, linked \in BOOLEAN :
          page' = [NewPage EXCEPT !.sid = i, !.kind = mints[i].kind,
                     !.out = IF linked THEN 0 ELSE mints[i].out,
                     !.sats = IF mints[i].out = 0 THEN MinAuth
                              ELSE Output(accepted, <<mints[i].out, 0>>).sats]
    BY Zenon DEF Resume
  <2> QED  BY <2>1, Zenon
<1>2. PICK p, q : p = NewPage /\ q = [p EXCEPT !.sid = i, !.kind = kind, !.out = out, !.sats = sats]
  OBVIOUS
<1>3. p.busy = "no" /\ i \in MintSession
  BY <1>1, <1>2 DEF NewPage
<1>4. PageOk(q)
  BY <1>2, <1>3, NewPageOk DEF PageOk, PageFields
<1>5. page' = q /\ UNCHANGED <<accepted, rows, hosted, shown, req, mints, consolidation, signedHex>>
  BY <1>1, <1>2 DEF Resume, walletVars, publishVars
<1> QED  BY <1>4, <1>5, TurnPage DEF Kept, MintOk

LEMMA PickTypeOk ==
  ASSUME Kept, PickType
  PROVE  Kept'
<1>1. PICK k : page' = [page EXCEPT !.kind = k]
  BY DEF PickType
<1>2. PageOk(page')
  BY <1>1 DEF Kept, MintOk, PageOk, PageFields
<1>3. UNCHANGED <<accepted, rows, hosted, shown, req, mints, consolidation, signedHex>>
  BY DEF PickType, walletVars, publishVars
<1> QED  BY <1>2, <1>3, TurnPage DEF Kept, MintOk

LEMMA BackOk ==
  ASSUME Kept, Back
  PROVE  Kept'
<1>1. PICK p : p = [page EXCEPT !.step = @ - 1] /\ Show(p)
  BY DEF Back
<1>2. PageOk(p)
  BY <1>1 DEF Kept, MintOk, PageOk, PageFields
<1>3. PageOk(page')
  BY <1>1, <1>2, RebuildOk DEF Show
<1>4. UNCHANGED <<accepted, rows, hosted, shown, req, mints, consolidation, signedHex>>
  BY DEF Back, walletVars, publishVars
<1> QED  BY <1>3, <1>4, TurnPage DEF Kept, MintOk

LEMMA FetchFundingUtxosOk ==
  ASSUME Kept, FetchFundingUtxos
  PROVE  Kept'
<1>1. PICK q, p, funds, plains, out, sats :
        /\ q = [page EXCEPT !.funds = funds, !.plains = plains]
        /\ p = q \/ p = [q EXCEPT !.out = out, !.sats = sats]
        /\ Show(p)
  BY Zenon DEF FetchFundingUtxos
<1>2. PageOk(q)
  BY <1>1 DEF Kept, MintOk, PageOk, PageFields
<1>3. PageOk(p)
  <2>1. CASE p = q
    BY <1>2, <2>1
  <2>2. CASE p = [q EXCEPT !.out = out, !.sats = sats]
    <3>1. PageFields(p)
      BY <1>2, <2>2 DEF PageOk, PageFields
    <3>2. /\ p.sid = q.sid /\ p.busy = q.busy /\ p.txid = q.txid
          /\ p.build = q.build /\ p.signed = q.signed
      BY <1>2, <2>2 DEF PageOk, PageFields
    <3> QED  BY <1>2, <3>1, <3>2 DEF PageOk
  <2> QED  BY <1>1, <2>1, <2>2
<1>4. PageOk(page')
  BY <1>1, <1>3, RebuildOk DEF Show
<1>5. UNCHANGED <<accepted, rows, hosted, shown, req, mints, consolidation, signedHex>>
  BY DEF FetchFundingUtxos, walletVars, publishVars
<1> QED  BY <1>4, <1>5, TurnPage DEF Kept, MintOk

LEMMA SelectOutpointOk ==
  ASSUME Kept, SelectOutpoint
  PROVE  Kept'
<1>1. PICK u : Show([page EXCEPT !.out = u.coin[1], !.sats = u.sats])
  BY DEF SelectOutpoint
<1>2. PICK p, out, sats : p = [page EXCEPT !.out = out, !.sats = sats] /\ Show(p)
  BY <1>1
<1>3. PageOk(p)
  BY <1>2 DEF Kept, MintOk, PageOk, PageFields
<1>4. PageOk(page')
  BY <1>2, <1>3, RebuildOk DEF Show
<1>5. UNCHANGED <<accepted, rows, hosted, shown, req, mints, consolidation, signedHex>>
  BY DEF SelectOutpoint, walletVars, publishVars
<1> QED  BY <1>4, <1>5, TurnPage DEF Kept, MintOk

LEMMA SignGenesisOk ==
  ASSUME Kept, SignGenesis
  PROVE  Kept'
<1>1. signedHex' = signedHex \cup {page.build} /\ page' = [page EXCEPT !.signed = page.build]
  BY DEF SignGenesis
<1>2. PageOk(page') /\ \A tx \in signedHex' : Unpublished(tx)
  BY <1>1 DEF Kept, MintOk, PageOk, PageFields
<1>3. UNCHANGED <<accepted, rows, hosted, shown, req, mints, consolidation>>
  BY DEF SignGenesis, walletVars, publishVars
<1> QED  BY <1>2, <1>3, TurnPage

LEMMA PasteSignedOk ==
  ASSUME Kept, PasteSigned
  PROVE  Kept'
<1>1. PICK tx \in signedHex : page' = [page EXCEPT !.signed = tx]
  BY DEF PasteSigned
<1>2. PageOk(page')
  BY <1>1 DEF Kept, MintOk, PageOk, PageFields
<1>3. UNCHANGED <<accepted, rows, hosted, shown, req, mints, consolidation, signedHex>>
  BY DEF PasteSigned, walletVars, publishVars
<1> QED  BY <1>2, <1>3, TurnPage DEF Kept, MintOk

LEMMA PostGenesisOk ==
  ASSUME Kept, PostGenesis
  PROVE  Kept'
<1>1. PageOk(page')
  BY DEF PostGenesis, Kept, MintOk, PageOk, PageFields
<1>2. UNCHANGED <<accepted, rows, hosted, shown, req, mints, consolidation, signedHex>>
  BY DEF PostGenesis, walletVars, publishVars
<1> QED  BY <1>1, <1>2, TurnPage DEF Kept, MintOk

LEMMA NameCategoryOk ==
  ASSUME Kept, NameCategory
  PROVE  Kept'
<1> DEFINE done == MintedCategory = 0 \/ page.sid = 0
<1>1. page' = [page EXCEPT !.cat = MintedCategory, !.busy = IF done THEN "done" ELSE "recording"]
  BY Zenon DEF NameCategory
<1>2. PageOk(page')
  BY <1>1 DEF NameCategory, Kept, MintOk, PageOk, PageFields
<1>3. UNCHANGED <<accepted, rows, hosted, shown, req, mints, consolidation, signedHex>>
  BY DEF NameCategory, walletVars, publishVars
<1> QED  BY <1>2, <1>3, TurnPage DEF Kept, MintOk

LEMMA ReceiptOk ==
  ASSUME Kept, Receipt
  PROVE  Kept'
<1>1. PageOk(page')
  BY DEF Receipt, Kept, MintOk, PageOk, PageFields
<1>2. UNCHANGED <<accepted, rows, hosted, shown, req, mints, consolidation, signedHex>>
  BY DEF Receipt, walletVars, publishVars
<1> QED  BY <1>1, <1>2, TurnPage DEF Kept, MintOk

(* The transaction the page sends is none of the publish wizard's.         *)
LEMMA SendGenesisOk ==
  ASSUME Kept, SendGenesis
  PROVE  Kept'
<1>1. UNCHANGED <<rows, hosted, shown, req, mints, consolidation, signedHex>>
      /\ (Accept(page.signed) \/ UNCHANGED accepted)
  BY DEF SendGenesis, walletVars, server, history, pages
<1>2. PageOk(page) /\ Len(accepted) \in Nat
  BY DEF Kept, MintOk, Shape, IsSequence
<1>3. PICK busy, txid : /\ page' = [page EXCEPT !.busy = busy, !.txid = txid]
                        /\ busy = "no" \/ (busy = "answered" /\ txid = Len(accepted) + 1)
  <2>1. CASE page' = [page EXCEPT !.busy = "no"]
    <3>1. [page EXCEPT !.busy = "no"] = [page EXCEPT !.busy = "no", !.txid = page.txid]
      BY <1>2 DEF PageOk, PageFields
    <3> QED  BY <2>1, <3>1
  <2>2. CASE page' = [page EXCEPT !.busy = "answered", !.txid = Len(accepted) + 1]
    BY <2>2
  <2> QED  BY <2>1, <2>2 DEF SendGenesis
<1>4. PageOk(page')
  <2>1. busy = "no" \/ (busy = "answered" /\ txid \in Nat \ {0})
    BY <1>2, <1>3
  <2> QED  BY <1>2, <1>3, <2>1 DEF PageOk, PageFields
<1>5. MintOk'
  BY <1>1, <1>4 DEF Kept, MintOk
<1>6. CASE Accept(page.signed)
  <2>1. Sendable(page.signed)
    BY <1>2 DEF Sendable, PageOk, Unpublished
  <2>2. /\ Grows /\ IsSequence(accepted')
        /\ \A t \in 1..Len(accepted') : t \in 1..Len(accepted) \/ Sendable(accepted[t])'
    BY <1>1, <1>6, <2>1, AcceptStep
  <2>3. Shape'
    BY <1>1, <2>2 DEF Kept, Shape
  <2> QED  BY <1>1, <1>5, <2>2, <2>3, KeptStep
<1>7. CASE UNCHANGED accepted
  BY <1>1, <1>2, <1>4, <1>7, TurnPage DEF Kept, MintOk
<1> QED  BY <1>1, <1>6, <1>7

LEMMA ForwardOk ==
  ASSUME Kept, Forward
  PROVE  Kept'
<1> DEFINE i == EnsureSession
<1>1. i \in MintSession /\ (page.sid # 0 => i = page.sid)
  BY DEF Forward, EnsureSession, Kept, MintOk, PageOk
<1>2. UNCHANGED <<accepted, rows, hosted, shown, req, consolidation, signedHex>>
  BY DEF Forward, walletVars, server, history, pages
<1>3. PICK saved \in BOOLEAN : SaveSession(i, saved)
  BY DEF Forward
<1>4. PICK p : p = [page EXCEPT !.sid = i, !.step = @ + 1] /\ Show(p)
  BY DEF Forward
<1> HIDE DEF i
<1>5. PageOk(page')
  <2>1. PageOk(p)
    BY <1>1, <1>4 DEF Kept, MintOk, PageOk, PageFields
  <2> QED  BY <1>4, <2>1, RebuildOk DEF Show
<1>6. PICK old : old = NoMint
  OBVIOUS
<1>7. PICK row : row = IF mints[i].state = "absent" THEN [old EXCEPT !.state = "drafting"] ELSE mints[i]
  OBVIOUS
<1>8. MintFields(row) /\ row.state # "absent"
  <2>1. MintFields(old) /\ MintFields(mints[i])
    BY <1>1, <1>6 DEF NoMint, MintFields, Kept, MintOk
  <2> QED  BY <1>7, <2>1 DEF MintFields
<1>9. PICK new : new = IF saved THEN [row EXCEPT !.kind = page.kind, !.out = page.out] ELSE row
  OBVIOUS
<1>10. MintFields(new) /\ new.state # "absent"
  BY <1>8, <1>9 DEF MintFields
<1>11. mints' = [mints EXCEPT ![i] = new]
  BY <1>3, <1>6, <1>7, <1>9 DEF SaveSession
<1>12. mints' = [x \in MintSession |-> mints'[x]]
       /\ \A x \in MintSession : mints'[x] = IF x = i THEN new ELSE mints[x]
  BY <1>1, <1>11 DEF Kept, Shape
<1>13. MintOk'
  BY <1>2, <1>5, <1>10, <1>12 DEF Kept, MintOk
<1>14. Grows /\ Shape'
  BY <1>2, <1>12 DEF Grows, Kept, Shape, IsSequence
<1> QED  BY <1>2, <1>13, <1>14, KeptStep

(* A patch of a mint session.                                              *)
LEMMA PatchMintStep ==
  ASSUME Kept, NEW i \in MintSession, NEW patch, PatchMint(i, patch),
         Sets(patch, "state") => patch.state # "absent"
  PROVE  /\ mints' = [x \in MintSession |-> mints'[x]]
         /\ \A x \in MintSession : MintFields(mints'[x])
         /\ \A x \in MintSession : mints'[x].state = "absent" => mints'[x] = NoMint
         /\ \A x \in MintSession : mints'[x] = mints[x] \/ x = i
         /\ mints'[i] = mints[i]
            \/ (MintWritable(mints[i], patch) /\ mints'[i] = Patched(mints[i], patch))
<1>1. CASE mints' = mints
  BY <1>1 DEF Kept, MintOk, Shape
<1>2. CASE MintWritable(mints[i], patch) /\ mints' = [mints EXCEPT ![i] = Patched(@, patch)]
  <2>1. PICK v : v = Patched(mints[i], patch)
    OBVIOUS
  <2>2. mints' = [mints EXCEPT ![i] = v]
    BY <1>2, <2>1
  <2>3. MintFields(v)
    BY <2>1 DEF Kept, MintOk, MintFields, Patched
  <2>4. v.state # "absent"
    <3>1. v.state = IF Sets(patch, "state") THEN patch.state ELSE mints[i].state
      <4>a. PICK row : row = mints[i]
        OBVIOUS
      <4>b. MintFields(row)
        BY <4>a DEF Kept, MintOk
      <4>c. "state" \in DOMAIN row
        BY <4>b DEF MintFields
      <4>1. "state" \in DOMAIN mints[i]
        BY <4>a, <4>c
      <4> QED  BY <2>1, <4>1 DEF Patched
    <3> QED  BY <1>2, <3>1 DEF MintWritable
  <2>5. mints' = [x \in MintSession |-> mints'[x]]
        /\ \A x \in MintSession : mints'[x] = IF x = i THEN v ELSE mints[x]
    BY <2>2 DEF Kept, Shape
  <2> QED  BY <1>2, <2>1, <2>3, <2>4, <2>5 DEF Kept, MintOk
<1> QED  BY <1>1, <1>2 DEF PatchMint

LEMMA RecordGenesisOk ==
  ASSUME Kept, RecordGenesis
  PROVE  Kept'
<1>1. UNCHANGED <<accepted, rows, hosted, shown, req, consolidation, signedHex>>
  BY DEF RecordGenesis, walletVars, server, history, pages
<1>2. PageOk(page')
  BY DEF RecordGenesis, Kept, MintOk, PageOk, PageFields
<1>3. /\ mints' = [x \in MintSession |-> mints'[x]]
      /\ \A x \in MintSession : MintFields(mints'[x])
      /\ \A x \in MintSession : mints'[x].state = "absent" => mints'[x] = NoMint
  <2>1. CASE page.sid # 0 /\ PatchMint(page.sid, Recorded)
    <3>1. page.sid \in MintSession /\ Recorded.state = "broadcast"
      BY <2>1 DEF Kept, MintOk, PageOk, Recorded
    <3> HIDE DEF Recorded
    <3> QED  BY <2>1, <3>1, PatchMintStep
  <2>2. CASE UNCHANGED mints
    BY <2>2 DEF Kept, MintOk, Shape
  <2> QED  BY <2>1, <2>2 DEF RecordGenesis
<1>4. MintOk'
  BY <1>1, <1>2, <1>3 DEF Kept, MintOk
<1>5. Grows /\ Shape'
  BY <1>1, <1>3 DEF Grows, Kept, Shape, IsSequence
<1> QED  BY <1>1, <1>4, <1>5, KeptStep

LEMMA DiscardDraftOk ==
  ASSUME Kept, DiscardDraft
  PROVE  Kept'
<1>1. UNCHANGED <<accepted, rows, hosted, shown, req, consolidation, signedHex>>
  BY DEF DiscardDraft, walletVars, publishVars
<1>2. page' = NewPage \/ page' = page
  BY DEF DiscardDraft
<1>3. PageOk(page')
  BY <1>2, NewPageOk DEF Kept, MintOk
<1>4. /\ mints' = [x \in MintSession |-> mints'[x]]
      /\ \A x \in MintSession : MintFields(mints'[x])
      /\ \A x \in MintSession : mints'[x].state = "absent" => mints'[x] = NoMint
  <2>1. CASE page.sid = 0
    BY <2>1 DEF DiscardDraft, Kept, MintOk, Shape
  <2>2. CASE page.sid # 0
    <3> DEFINE patch == [state |-> "abandoned"]
    <3>1. PatchMint(page.sid, patch) /\ page.sid \in MintSession /\ patch.state = "abandoned"
      BY <2>2 DEF DiscardDraft, Kept, MintOk, PageOk
    <3> HIDE DEF patch
    <3> QED  BY <3>1, PatchMintStep
  <2> QED  BY <2>1, <2>2
<1>5. MintOk'
  BY <1>1, <1>3, <1>4 DEF Kept, MintOk
<1>6. Grows /\ Shape'
  BY <1>1, <1>4 DEF Grows, Kept, Shape, IsSequence
<1> QED  BY <1>1, <1>5, <1>6, KeptStep

LEMMA OpenPublishSessionOk ==
  ASSUME Kept, OpenPublishSession
  PROVE  Kept'
<1>1. UNCHANGED <<accepted, hosted, shown, req, mints, consolidation, signedHex>>
  BY DEF OpenPublishSession, walletVars, history, pages
<1>2. PageOk(page')
  BY DEF OpenPublishSession, Kept, MintOk, PageOk, PageFields
<1>3. CASE UNCHANGED rows
  BY <1>1, <1>2, <1>3, TurnPage DEF Kept, MintOk
<1>4. ASSUME NEW s \in Session, CreateSession(s, page.cat)
      PROVE  Kept'
  <2>1. PICK cat : cat = page.cat
    OBVIOUS
  <2>2. CreateSession(s, cat)
    BY <1>4, <2>1
  <2>3. Grows
    BY <1>1, <2>2, CreateOk DEF Grows, Kept, Shape, IsSequence
  <2>4. Shape'
    BY <1>1, <2>2, CreateOk DEF Kept, Shape, IsSequence
  <2>5. MintOk'
    BY <1>1, <1>2 DEF Kept, MintOk
  <2> QED  BY <1>1, <2>2, <2>3, <2>4, <2>5, CreateOk, KeptStep
<1> QED  BY <1>3, <1>4 DEF OpenPublishSession

LEMMA CloseTabOk ==
  ASSUME Kept, CloseTab
  PROVE  Kept'
<1>1. /\ UNCHANGED <<accepted, rows, hosted, shown, req, mints>>
      /\ page' = NewPage /\ signedHex' = {} /\ consolidation' = NoTx
  BY DEF CloseTab, walletVars, server, history, pages
<1>2. MintOk'
  BY <1>1, NewPageOk DEF Kept, MintOk, Unpublished, NoTx
<1>3. Grows /\ Shape'
  BY <1>1 DEF Grows, Kept, Shape, IsSequence
<1> QED  BY <1>1, <1>2, <1>3, KeptStep

LEMMA MintPageOk ==
  ASSUME Kept, MintPage
  PROVE  Kept'
BY ResumeOk, PickTypeOk, ForwardOk, BackOk, FetchFundingUtxosOk, SelectOutpointOk, SignGenesisOk,
   PasteSignedOk, PostGenesisOk, SendGenesisOk, NameCategoryOk, RecordGenesisOk,
   OpenPublishSessionOk, ReceiptOk, DiscardDraftOk, CloseTabOk DEF MintPage

(* Neither is a consolidation a publication.                               *)
LEMMA ConsolidationUnpublished ==
  ASSUME NEW utxos
  PROVE  Unpublished(BuildConsolidationTx(utxos))
<1>1. PICK tx, old : tx = BuildConsolidationTx(utxos) /\ old = NoTx
  OBVIOUS
<1>2. old.what = "none" /\ old = [what |-> "none", s |-> 0, ins |-> {}, outs |-> <<>>, doc |-> 0,
                                  whole |-> TRUE]
  BY <1>1 DEF NoTx
<1>3. \/ tx = old
      \/ \E ins, outs : tx = [old EXCEPT !.what = "consolidate", !.ins = ins, !.outs = outs]
  BY <1>1, Zenon DEF BuildConsolidationTx
<1>4. tx.what # "publish"
  BY <1>2, <1>3
<1> QED  BY <1>1, <1>4 DEF Unpublished

LEMMA PrepareStep ==
  ASSUME Kept, UNCHANGED <<walletVars, publishVars, mints, page, signedHex>>,
         NEW utxos, consolidation' = BuildConsolidationTx(utxos) \/ consolidation' = NoTx
  PROVE  Kept'
<1>1. UNCHANGED <<accepted, rows, hosted, shown, req, mints, page, signedHex>>
  BY DEF walletVars, publishVars
<1>2. Unpublished(consolidation')
  BY ConsolidationUnpublished DEF Unpublished, NoTx
<1>3. MintOk'
  BY <1>1, <1>2 DEF Kept, MintOk
<1>4. Grows /\ Shape'
  BY <1>1 DEF Grows, Kept, Shape, IsSequence
<1> QED  BY <1>1, <1>3, <1>4, KeptStep

LEMMA SendConsolidationOk ==
  ASSUME Kept, SendConsolidation
  PROVE  Kept'
<1>1. /\ UNCHANGED <<rows, hosted, shown, req, mints, page, signedHex>>
      /\ consolidation' = NoTx /\ (Accept(consolidation) \/ UNCHANGED accepted)
  BY DEF SendConsolidation, walletVars, publishVars
<1>2. MintOk'
  BY <1>1 DEF Kept, MintOk, Unpublished, NoTx
<1>3. CASE Accept(consolidation)
  <2>1. Sendable(consolidation)
    BY DEF Sendable, Kept, MintOk, Unpublished
  <2>2. /\ Grows /\ IsSequence(accepted')
        /\ \A t \in 1..Len(accepted') : t \in 1..Len(accepted) \/ Sendable(accepted[t])'
    BY <1>1, <1>3, <2>1, AcceptStep
  <2>3. Shape'
    BY <1>1, <2>2 DEF Kept, Shape
  <2> QED  BY <1>1, <1>2, <2>2, <2>3, KeptStep
<1>4. CASE UNCHANGED accepted
  <2>1. Grows /\ Shape'
    BY <1>1, <1>4 DEF Grows, Kept, Shape, IsSequence
  <2> QED  BY <1>1, <1>2, <1>4, <2>1, KeptStep
<1> QED  BY <1>1, <1>3, <1>4

LEMMA ConsolidationsOk ==
  ASSUME Kept, Consolidations
  PROVE  Kept'
<1>1. CASE PrepareFunding
  <2>1. PICK utxos : utxos = page.plains
    OBVIOUS
  <2>2. /\ consolidation' = BuildConsolidationTx(utxos)
        /\ UNCHANGED <<walletVars, publishVars, mints, page, signedHex>>
    BY <1>1, <2>1 DEF PrepareFunding
  <2> QED  BY <2>2, PrepareStep
<1>2. ASSUME NEW s \in Session, PrepareFundingConsolidation(s)
      PROVE  Kept'
  <2>1. PICK utxos : utxos = PlainUtxos(FetchWalletUtxos)
    OBVIOUS
  <2>2. /\ consolidation' = BuildConsolidationTx(utxos)
        /\ UNCHANGED <<walletVars, publishVars, mints, page, signedHex>>
    BY <1>2, <2>1 DEF PrepareFundingConsolidation
  <2> QED  BY <2>2, PrepareStep
<1>3. CASE MintCooldownEnds
  <2>1. UNCHANGED <<accepted, rows, hosted, shown, req, mints, page, signedHex, consolidation>>
    BY <1>3 DEF MintCooldownEnds, walletVars, publishVars
  <2> QED  BY <2>1, TurnPage DEF Kept, MintOk
<1> QED  BY <1>1, <1>2, <1>3, SendConsolidationOk DEF Consolidations

----------------------------------------------------------------------------
(* The invariant.                                                          *)

LEMMA KeptInit == Init => Kept
<1> SUFFICES ASSUME Init
             PROVE  Kept
  OBVIOUS
<1>1. IsSequence(accepted) /\ \A t \in 1..Len(accepted) : accepted[t].what # "publish"
  <2>1. CASE accepted = <<>>
    BY <2>1 DEF IsSequence
  <2>2. ASSUME NEW start, accepted = <<MintCoin, BuildGenesisTx(0, 1, MinAuth + Fee, start)>>
        PROVE  IsSequence(accepted) /\ \A t \in 1..Len(accepted) : accepted[t].what # "publish"
    <3>1. PICK a, b : a = MintCoin /\ b = BuildGenesisTx(0, 1, MinAuth + Fee, start)
      OBVIOUS
    <3>2. b.what # "publish"
      BY <3>1, GenesisUnpublished DEF Unpublished
    <3>3. a.what # "publish"
      <4>1. PICK old, outs : old = NoTx /\ a = [old EXCEPT !.what = "mint-coin", !.outs = outs]
        BY <3>1 DEF MintCoin
      <4> QED  BY <4>1 DEF NoTx
    <3>4. accepted = <<a, b>>
      BY <2>2, <3>1
    <3>5. Len(accepted) = 2 /\ accepted[1] = a /\ accepted[2] = b
          /\ accepted = [t \in 1..2 |-> accepted[t]]
      BY <3>4
    <3> QED  BY <3>2, <3>3, <3>5 DEF IsSequence
  <2> QED  BY <2>1, <2>2 DEF Init, WalletInit
<1>2. \A s \in Session : rows[s] = NoRow
  BY DEF Init, PublishInit
<1>3. rows = [s \in Session |-> rows[s]] /\ req = [r \in Request |-> req[r]]
      /\ mints = [i \in MintSession |-> mints[i]]
  BY DEF Init, PublishInit, MintInit
<1>4. RowFields(NoRow) /\ JobFields(Idle) /\ MintFields(NoMint)
  BY DEF RowFields, NoRow, JobFields, Idle, MintFields, NoMint
<1>5. \A r \in Request : req[r] = Idle
  BY DEF Init, PublishInit
<1>6. \A i \in MintSession : mints[i] = NoMint
  BY DEF Init, MintInit
<1>7. Shape
  BY <1>1, <1>2, <1>3, <1>4, <1>5 DEF Shape
<1>8. \A r \in Request : JobOk(r)
  <2>1. PICK q : q = Idle
    OBVIOUS
  <2>2. q.pc = "idle"
    BY <2>1 DEF Idle
  <2> QED  BY <1>5, <2>1, <2>2 DEF JobOk, Building
<1>9. \A s \in Session : RowOk(s)
  <2>1. PICK w : w = NoRow
    OBVIOUS
  <2>2. ~w.verified /\ w.built = NoTx /\ w.txid = 0
    BY <2>1 DEF NoRow
  <2> QED  BY <1>2, <2>1, <2>2 DEF RowOk
<1>10. MintOk
  <2>1. page = NewPage /\ signedHex = {} /\ consolidation = NoTx
    BY DEF Init, MintInit
  <2>2. Unpublished(NoTx)
    BY DEF Unpublished, NoTx
  <2> QED  BY <1>4, <1>6, <2>1, <2>2, NewPageOk DEF MintOk
<1>11. shown = {}
  BY DEF Init, PublishInit
<1> QED  BY <1>1, <1>7, <1>8, <1>9, <1>10, <1>11 DEF Kept, Sendable

LEMMA KeptNext == Kept /\ [Next]_vars => Kept'
<1> SUFFICES ASSUME Kept, [Next]_vars
             PROVE  Kept'
  OBVIOUS
<1>1. CASE Chain
  <2>1. CASE Mine
    <3>1. UNCHANGED <<accepted, rows, hosted, shown, req, mintVars>>
      BY <1>1, <2>1 DEF Chain, Mine, publishVars
    <3> QED  BY <3>1, IdleStep
  <2>2. ASSUME NEW k \in DOMAIN Fund, Arrive(k)
        PROVE  Kept'
    BY <1>1, <2>2, ArriveOk DEF Chain
  <2> QED  BY <1>1, <2>1, <2>2 DEF Chain
<1>2. CASE PublishPages /\ UNCHANGED mintVars
  BY <1>2, PublishPagesOk
<1>3. CASE PublishRequests /\ UNCHANGED mintVars
  BY <1>3, PublishRequestsOk
<1>4. CASE MintPage
  BY <1>4, MintPageOk
<1>5. CASE Consolidations
  BY <1>5, ConsolidationsOk
<1>6. CASE UNCHANGED vars
  <2>1. UNCHANGED <<accepted, rows, hosted, shown, req, mintVars>>
    BY <1>6 DEF vars, walletVars, publishVars
  <2> QED  BY <2>1, IdleStep
<1> QED  BY <1>1, <1>2, <1>3, <1>4, <1>5, <1>6 DEF Next

LEMMA KeptAlways == Spec => []Kept
BY KeptInit, KeptNext, PTL DEF Spec

(* No document goes on chain that a verification has not found at the      *)
(* address the session had then, whatever was pinned, hosted or            *)
(* canonicalized between the check and the broadcast.                      *)
THEOREM PublicationsHosted == Spec => []PublishedWasHosted
<1>1. Kept => PublishedWasHosted
  BY DEF Kept, Shape, IsSequence, PublishedWasHosted, Publications, Sendable, Carries, Ready
<1> QED  BY <1>1, KeptAlways, PTL

(* The transaction a session names was accepted, was sent for that session *)
(* and carries the session's document, whatever requests of it interleave. *)
THEOREM RecordsMatch == Spec => []RecordedMatches
<1>1. Kept => RecordedMatches
  BY DEF Kept, Shape, IsSequence, RowOk, RecordedMatches, Publications, Carries
<1> QED  BY <1>1, KeptAlways, PTL

----------------------------------------------------------------------------
(* The sessions implement their lifecycle.                                 *)

(* What a row's state and transaction may do in a step.                    *)
Moves(st, tx, stNew, txNew) ==
  \/ stNew = st /\ txNew = tx
  \/ stNew \in PublishLife!After(st) /\ txNew = tx
  \/ /\ tx = 0 /\ txNew # 0
     /\ "broadcast" \in PublishLife!After(st) /\ stNew = "broadcast"

RowMoves(s) ==
  /\ rows' = [x \in Session |-> rows'[x]]
  /\ \A x \in Session : x # s => rows'[x] = rows[x]
  /\ Moves(rows[s].state, rows[s].txid, rows'[s].state, rows'[s].txid)

LEMMA PatchMoves ==
  ASSUME Kept, NEW s \in Session, NEW patch, UpdateSession(s, patch),
         \/ ~Sets(patch, "state") /\ ~Sets(patch, "txid")
         \/ Sets(patch, "state") /\ patch.state = "abandoned" /\ ~Sets(patch, "txid")
         \/ /\ Sets(patch, "state") /\ patch.state = "broadcast"
            /\ Sets(patch, "txid") /\ patch.txid # 0
  PROVE  RowMoves(s)
<1> DEFINE w == rows[s]
           v == rows'[s]
<1>1. Shape
  BY DEF Kept
<1>2. CASE v = w
  BY <1>1, <1>2, PatchStep DEF RowMoves, Moves
<1>3. CASE Writable(w, patch) /\ v = Patched(w, patch)
  <2>1. /\ v.state = IF Sets(patch, "state") THEN patch.state ELSE w.state
        /\ v.txid = IF Sets(patch, "txid") THEN patch.txid ELSE w.txid
    BY <1>1, <1>3 DEF Shape, RowFields, Patched
  <2>2. CASE ~Sets(patch, "state") /\ ~Sets(patch, "txid")
    BY <1>1, <2>1, <2>2, PatchStep DEF RowMoves, Moves
  <2>3. CASE Sets(patch, "state") /\ patch.state = "abandoned" /\ ~Sets(patch, "txid")
    <3>1. w.state \in {"drafting", "signed", "failed", "abandoned"}
      BY <1>3, <2>3 DEF Writable, Allowed
    <3>2. Moves(w.state, w.txid, v.state, v.txid)
      BY <2>1, <2>3, <3>1 DEF Moves, PublishLife!After
    <3> QED  BY <1>1, <3>2, PatchStep DEF RowMoves
  <2>4. CASE /\ Sets(patch, "state") /\ patch.state = "broadcast"
             /\ Sets(patch, "txid") /\ patch.txid # 0
    <3>1. w.state \in {"drafting", "signed"} /\ w.txid = 0
      BY <1>3, <2>4 DEF Writable, Allowed
    <3>2. Moves(w.state, w.txid, v.state, v.txid)
      BY <2>1, <2>4, <3>1 DEF Moves, PublishLife!After
    <3> QED  BY <1>1, <3>2, PatchStep DEF RowMoves
  <2> QED  BY <2>2, <2>3, <2>4
<1> QED  BY <1>1, <1>2, <1>3, PatchStep

LEMMA CreateMoves ==
  ASSUME Kept, NEW s \in Session, NEW cat, CreateSession(s, cat)
  PROVE  RowMoves(s)
<1>1. PICK old : old = NoRow
  OBVIOUS
<1>2. PICK new : new = [old EXCEPT !.state = "drafting", !.cat = cat]
  OBVIOUS
<1>3. RowFields(old) /\ old.txid = 0 /\ old.state = "absent"
  BY <1>1 DEF NoRow, RowFields
<1>4. new.state = "drafting" /\ new.txid = 0
  BY <1>2, <1>3 DEF RowFields
<1>5. rows[s] = old /\ rows' = [rows EXCEPT ![s] = new]
  BY <1>1, <1>2 DEF CreateSession, Kept, RowOk
<1>6. Moves(old.state, old.txid, new.state, new.txid)
  BY <1>3, <1>4 DEF Moves, PublishLife!After
<1> QED  BY <1>5, <1>6 DEF RowMoves, Kept, Shape

(* The endpoints, the pages and the mint page move one row at a time.      *)
LEMMA HandleMoves ==
  ASSUME Kept, NEW r \in Request, Handle(r)
  PROVE  UNCHANGED rows \/ \E s \in Session : RowMoves(s)
<1> DEFINE s == req[r].s
<1>1. ASSUME NEW patch, UpdateSession(s, patch), s \in Session,
             ~Sets(patch, "state"), ~Sets(patch, "txid")
      PROVE  \E x \in Session : RowMoves(x)
  BY <1>1, PatchMoves
<1>2. CASE Canonicalize(r)
  <2> DEFINE patch == [doc |-> docs + 1]
  <2>1. UpdateSession(s, patch) /\ s \in Session /\ DOMAIN patch = {"doc"}
    BY <1>2 DEF Canonicalize, Kept, JobOk
  <2> HIDE DEF patch, s
  <2> QED  BY <2>1, <1>1 DEF Sets
<1>3. CASE VerifyPersist(r)
  <2> DEFINE patch == [uri |-> req[r].uri, verified |-> TRUE]
  <2>1. UpdateSession(s, patch) /\ s \in Session /\ DOMAIN patch = {"uri", "verified"}
    BY <1>3 DEF VerifyPersist, Kept, JobOk
  <2> HIDE DEF patch, s
  <2> QED  BY <2>1, <1>1 DEF Sets
<1>4. CASE BuildPersist(r)
  <2>1. PICK patch : DOMAIN patch \subseteq {"built", "head"} /\ UpdateSession(s, patch)
    <3>1. CASE req[r].fresh
      BY <1>4, <3>1 DEF BuildPersist
    <3>2. CASE ~req[r].fresh
      BY <1>4, <3>2 DEF BuildPersist
    <3> QED  BY <3>1, <3>2
  <2>2. s \in Session
    BY <1>4 DEF BuildPersist, Kept, JobOk
  <2> HIDE DEF s
  <2> QED  BY <2>1, <2>2, <1>1 DEF Sets
<1>5. CASE DiscardBuild(r)
  <2> DEFINE patch == [built |-> NoTx]
  <2>1. UpdateSession(s, patch) /\ s \in Session /\ DOMAIN patch = {"built"}
    BY <1>5 DEF DiscardBuild, Kept, JobOk
  <2> HIDE DEF patch, s
  <2> QED  BY <2>1, <1>1 DEF Sets
<1>6. CASE BroadcastPersist(r)
  <2> DEFINE patch == Sent(req[r])
  <2>1. UpdateSession(s, patch) /\ s \in Session /\ req[r].head \in 1..Len(accepted)
        /\ Len(accepted) \in Nat
    BY <1>6 DEF BroadcastPersist, Kept, JobOk, Shape, IsSequence
  <2>2. DOMAIN patch = {"state", "signed", "txid"} /\ patch.state = "broadcast"
        /\ patch.txid = req[r].head
    BY DEF Sent
  <2> HIDE DEF patch, s
  <2>3. RowMoves(s)
    BY <2>1, <2>2, PatchMoves DEF Sets
  <2> QED  BY <2>1, <2>3
<1>7. CASE FetchAndHash(r) \/ BuildHead(r) \/ BuildCoins(r) \/ SendRawTransaction(r)
           \/ NudgeBcmrIndexer(r) \/ StatementFails(r)
  BY <1>7 DEF FetchAndHash, BuildHead, BuildCoins, SendRawTransaction, NudgeBcmrIndexer,
     StatementFails, server
<1> QED  BY <1>2, <1>3, <1>4, <1>5, <1>6, <1>7 DEF Handle

LEMMA PagesMove ==
  ASSUME Kept, PublishPages
  PROVE  UNCHANGED rows \/ \E s \in Session : RowMoves(s)
<1>1. ASSUME NEW s \in Session, SaveIdentity(s)
      PROVE  RowMoves(s)
  <2> DEFINE patch == [named |-> TRUE]
  <2>1. UpdateSession(s, patch) /\ DOMAIN patch = {"named"}
    BY <1>1 DEF SaveIdentity
  <2> HIDE DEF patch
  <2> QED  BY <2>1, PatchMoves DEF Sets
<1>2. ASSUME NEW s \in Session, AbandonDraft(s)
      PROVE  RowMoves(s)
  <2> DEFINE patch == [state |-> "abandoned"]
  <2>1. UpdateSession(s, patch) /\ DOMAIN patch = {"state"} /\ patch.state = "abandoned"
    BY <1>2 DEF AbandonDraft
  <2> HIDE DEF patch
  <2> QED  BY <2>1, PatchMoves DEF Sets
<1>3. ASSUME NEW s \in Session, PinCanonicalJson(s)
      PROVE  RowMoves(s)
  <2>1. PICK d : UpdateSession(s, [uri |-> d])
    BY <1>3 DEF PinCanonicalJson
  <2> DEFINE patch == [uri |-> d]
  <2>2. UpdateSession(s, patch) /\ DOMAIN patch = {"uri"}
    BY <2>1
  <2> HIDE DEF patch
  <2> QED  BY <2>2, PatchMoves DEF Sets
<1>4. ASSUME NEW s \in Session, NEW cat, StartWizard(s, cat)
      PROVE  RowMoves(s)
  BY <1>4, CreateMoves DEF StartWizard
<1>5. ASSUME NEW cat, WalkerVisits(cat)
      PROVE  UNCHANGED rows
  BY <1>5 DEF WalkerVisits
<1>6. CASE HostChanges
  BY <1>6 DEF HostChanges, server
<1> QED  BY <1>1, <1>2, <1>3, <1>4, <1>5, <1>6 DEF PublishPages

LEMMA MintPageMoves ==
  ASSUME Kept, MintPage
  PROVE  UNCHANGED rows \/ \E s \in Session : RowMoves(s)
<1>1. CASE OpenPublishSession
  <2>1. ASSUME NEW s \in Session, CreateSession(s, page.cat)
        PROVE  RowMoves(s)
    <3>1. PICK cat : cat = page.cat /\ CreateSession(s, cat)
      BY <2>1
    <3> QED  BY <3>1, CreateMoves
  <2> QED  BY <1>1, <2>1 DEF OpenPublishSession
<1>2. CASE ~OpenPublishSession
  BY <1>2 DEF MintPage, Resume, PickType, Forward, Back, FetchFundingUtxos, SelectOutpoint,
     SignGenesis, PasteSigned, PostGenesis, SendGenesis, NameCategory, RecordGenesis, Receipt,
     DiscardDraft, CloseTab, publishVars, server
<1> QED  BY <1>1, <1>2

LEMMA NextMovesRows ==
  ASSUME Kept, [Next]_vars
  PROVE  UNCHANGED rows \/ \E s \in Session : RowMoves(s)
<1>1. CASE PublishRequests
  <2>1. ASSUME NEW r \in Request, NEW s \in Session, Arrives(r, s)
        PROVE  UNCHANGED rows
    BY <2>1 DEF Arrives, CanonicalizeRead, BuildRead, RunBroadcast, RunVerify, server
  <2>2. CASE Restart \/ CooldownEnds
    BY <2>2 DEF Restart, CooldownEnds
  <2> QED  BY <1>1, <2>1, <2>2, HandleMoves DEF PublishRequests
<1>2. CASE Chain \/ Consolidations
  BY <1>2 DEF Chain, Consolidations, PrepareFunding, PrepareFundingConsolidation,
     SendConsolidation, MintCooldownEnds, publishVars
<1>3. CASE UNCHANGED vars
  BY <1>3 DEF vars, publishVars
<1> QED  BY <1>1, <1>2, <1>3, PagesMove, MintPageMoves DEF Next

(* So does the mint page with its own table.                               *)
MintMoves(i) ==
  /\ mints' = [x \in MintSession |-> mints'[x]]
  /\ \A x \in MintSession : x # i => mints'[x] = mints[x]
  /\ Moves(mints[i].state, mints[i].txid, mints'[i].state, mints'[i].txid)

LEMMA PatchMintMoves ==
  ASSUME Kept, NEW i \in MintSession, NEW patch, PatchMint(i, patch), Sets(patch, "state"),
         \/ patch.state = "abandoned" /\ ~Sets(patch, "txid")
         \/ patch.state = "broadcast" /\ Sets(patch, "txid") /\ patch.txid # 0
  PROVE  MintMoves(i)
<1> DEFINE w == mints[i]
           v == mints'[i]
<1>1. /\ mints' = [x \in MintSession |-> mints'[x]]
      /\ \A x \in MintSession : mints'[x] = mints[x] \/ x = i
      /\ v = w \/ (MintWritable(w, patch) /\ v = Patched(w, patch))
  BY PatchMintStep
<1>2. CASE v = w
  BY <1>1, <1>2 DEF MintMoves, Moves
<1>3. CASE MintWritable(w, patch) /\ v = Patched(w, patch)
  <2>a. PICK row : row = w
    OBVIOUS
  <2>b. MintFields(row)
    BY <2>a DEF Kept, MintOk
  <2>c. "state" \in DOMAIN row /\ "txid" \in DOMAIN row
    BY <2>b DEF MintFields
  <2>1. /\ v.state = patch.state
        /\ v.txid = IF Sets(patch, "txid") THEN patch.txid ELSE w.txid
    BY <1>3, <2>a, <2>c DEF Patched
  <2>2. CASE patch.state = "abandoned" /\ ~Sets(patch, "txid")
    <3>1. w.state \in {"drafting", "signed", "failed", "abandoned"}
      BY <1>3, <2>2 DEF MintWritable, Allowed
    <3>2. Moves(w.state, w.txid, v.state, v.txid)
      BY <2>1, <2>2, <3>1 DEF Moves, PublishLife!After
    <3> QED  BY <1>1, <3>2 DEF MintMoves
  <2>3. CASE patch.state = "broadcast" /\ Sets(patch, "txid") /\ patch.txid # 0
    <3>1. w.state \in {"drafting", "signed"} /\ w.txid = 0
      BY <1>3, <2>3 DEF MintWritable, Allowed
    <3>2. Moves(w.state, w.txid, v.state, v.txid)
      BY <2>1, <2>3, <3>1 DEF Moves, PublishLife!After
    <3> QED  BY <1>1, <3>2 DEF MintMoves
  <2> QED  BY <2>2, <2>3
<1> QED  BY <1>1, <1>2, <1>3

LEMMA ForwardMoves ==
  ASSUME Kept, Forward
  PROVE  \E i \in MintSession : MintMoves(i)
<1> DEFINE i == EnsureSession
<1>1. i \in MintSession
  BY DEF Forward, EnsureSession, Kept, MintOk, PageOk
<1>2. PICK saved \in BOOLEAN : SaveSession(i, saved)
  BY DEF Forward
<1> HIDE DEF i
<1>3. PICK old : old = NoMint
  OBVIOUS
<1>4. PICK row : row = IF mints[i].state = "absent" THEN [old EXCEPT !.state = "drafting"] ELSE mints[i]
  OBVIOUS
<1>5. MintFields(old) /\ MintFields(mints[i]) /\ old.txid = 0 /\ old.state = "absent"
      /\ (mints[i].state = "absent" => mints[i] = old)
  BY <1>1, <1>3 DEF NoMint, MintFields, Kept, MintOk
<1>6. MintFields(row) /\ Moves(mints[i].state, mints[i].txid, row.state, row.txid)
  <2>1. CASE mints[i].state = "absent"
    <3>1. MintFields(row) /\ row.state = "drafting" /\ row.txid = 0
      BY <1>4, <1>5, <2>1 DEF MintFields
    <3> QED  BY <1>5, <2>1, <3>1 DEF Moves, PublishLife!After
  <2>2. CASE mints[i].state # "absent"
    BY <1>4, <1>5, <2>2 DEF Moves
  <2> QED  BY <2>1, <2>2
<1>7. PICK new : new = IF saved THEN [row EXCEPT !.kind = page.kind, !.out = page.out] ELSE row
  OBVIOUS
<1>8. new.state = row.state /\ new.txid = row.txid
  BY <1>6, <1>7 DEF MintFields
<1>9. mints' = [mints EXCEPT ![i] = new]
  BY <1>2, <1>3, <1>4, <1>7 DEF SaveSession
<1>10. MintMoves(i)
  BY <1>1, <1>6, <1>8, <1>9 DEF MintMoves, Kept, Shape
<1> QED  BY <1>1, <1>10

LEMMA NextMovesMints ==
  ASSUME Kept, [Next]_vars
  PROVE  UNCHANGED mints \/ \E i \in MintSession : MintMoves(i)
<1>1. CASE RecordGenesis
  <2>1. CASE page.sid # 0 /\ PatchMint(page.sid, Recorded)
    <3>1. /\ page.sid \in MintSession /\ page.txid # 0
          /\ Recorded.state = "broadcast" /\ Recorded.txid = page.txid
          /\ DOMAIN Recorded = {"state", "txid", "cat"}
      BY <1>1, <2>1 DEF RecordGenesis, Kept, MintOk, PageOk, Recorded
    <3> HIDE DEF Recorded
    <3>2. MintMoves(page.sid)
      BY <2>1, <3>1, PatchMintMoves DEF Sets
    <3> QED  BY <3>1, <3>2
  <2> QED  BY <1>1, <2>1 DEF RecordGenesis
<1>2. CASE DiscardDraft
  <2>1. CASE page.sid # 0
    <3> DEFINE patch == [state |-> "abandoned"]
    <3>1. /\ PatchMint(page.sid, patch) /\ page.sid \in MintSession
          /\ patch.state = "abandoned" /\ DOMAIN patch = {"state"}
      BY <1>2, <2>1 DEF DiscardDraft, Kept, MintOk, PageOk
    <3> HIDE DEF patch
    <3>2. MintMoves(page.sid)
      BY <3>1, PatchMintMoves DEF Sets
    <3> QED  BY <3>1, <3>2
  <2> QED  BY <1>2, <2>1 DEF DiscardDraft
<1>3. CASE MintPage /\ ~RecordGenesis /\ ~DiscardDraft /\ ~Forward
  BY <1>3 DEF MintPage, Resume, PickType, Back, FetchFundingUtxos, SelectOutpoint, SignGenesis,
     PasteSigned, PostGenesis, SendGenesis, NameCategory, OpenPublishSession, Receipt, CloseTab
<1>4. CASE Consolidations
  BY <1>4 DEF Consolidations, PrepareFunding, PrepareFundingConsolidation, SendConsolidation,
     MintCooldownEnds
<1>5. CASE UNCHANGED mintVars
  BY <1>5 DEF mintVars
<1>6. CASE UNCHANGED vars
  BY <1>6 DEF vars, mintVars
<1> QED  BY <1>1, <1>2, <1>3, <1>4, <1>5, <1>6, ForwardMoves DEF Next, Chain

(* Each table's initial state and steps are the lifecycle's.               *)
LEMMA PublishLifeStep ==
  Kept /\ [Next]_vars =>
    [PublishLife!Next]_<<[s \in Session |-> rows[s].state], [s \in Session |-> rows[s].txid]>>
<1> SUFFICES ASSUME Kept, [Next]_vars, NEW s \in Session, RowMoves(s)
             PROVE  [PublishLife!Next]_<<[x \in Session |-> rows[x].state],
                                         [x \in Session |-> rows[x].txid]>>
  BY NextMovesRows
<1> DEFINE st == [x \in Session |-> rows[x].state]
           tx == [x \in Session |-> rows[x].txid]
<1>1. /\ st' = [x \in Session |-> IF x = s THEN rows'[s].state ELSE rows[x].state]
      /\ tx' = [x \in Session |-> IF x = s THEN rows'[s].txid ELSE rows[x].txid]
  BY DEF RowMoves
<1>2. CASE rows'[s].state = rows[s].state /\ rows'[s].txid = rows[s].txid
  BY <1>1, <1>2
<1>3. CASE rows'[s].state \in PublishLife!After(rows[s].state) /\ rows'[s].txid = rows[s].txid
  <2>1. PublishLife!Move(s)
    BY <1>1, <1>3 DEF PublishLife!Move
  <2> QED  BY <2>1 DEF PublishLife!Next
<1>4. CASE /\ rows[s].txid = 0 /\ rows'[s].txid # 0
           /\ "broadcast" \in PublishLife!After(rows[s].state) /\ rows'[s].state = "broadcast"
  <2>1. PublishLife!RecordTxid(s)
    BY <1>1, <1>4 DEF PublishLife!RecordTxid
  <2> QED  BY <2>1 DEF PublishLife!Next
<1> QED  BY <1>2, <1>3, <1>4 DEF RowMoves, Moves

LEMMA MintLifeStep ==
  Kept /\ [Next]_vars =>
    [MintLife!Next]_<<[i \in MintSession |-> mints[i].state], [i \in MintSession |-> mints[i].txid]>>
<1> SUFFICES ASSUME Kept, [Next]_vars, NEW i \in MintSession, MintMoves(i)
             PROVE  [MintLife!Next]_<<[x \in MintSession |-> mints[x].state],
                                      [x \in MintSession |-> mints[x].txid]>>
  BY NextMovesMints
<1> DEFINE st == [x \in MintSession |-> mints[x].state]
           tx == [x \in MintSession |-> mints[x].txid]
<1>1. /\ st' = [x \in MintSession |-> IF x = i THEN mints'[i].state ELSE mints[x].state]
      /\ tx' = [x \in MintSession |-> IF x = i THEN mints'[i].txid ELSE mints[x].txid]
  BY DEF MintMoves
<1>2. \A a : PublishLife!After(a) = MintLife!After(a)
  BY DEF PublishLife!After, MintLife!After
<1>3. CASE mints'[i].state = mints[i].state /\ mints'[i].txid = mints[i].txid
  BY <1>1, <1>3
<1>4. CASE mints'[i].state \in PublishLife!After(mints[i].state) /\ mints'[i].txid = mints[i].txid
  <2>1. MintLife!Move(i)
    BY <1>1, <1>2, <1>4 DEF MintLife!Move
  <2> QED  BY <2>1 DEF MintLife!Next
<1>5. CASE /\ mints[i].txid = 0 /\ mints'[i].txid # 0
           /\ "broadcast" \in PublishLife!After(mints[i].state) /\ mints'[i].state = "broadcast"
  <2>1. MintLife!RecordTxid(i)
    BY <1>1, <1>2, <1>5 DEF MintLife!RecordTxid
  <2> QED  BY <2>1 DEF MintLife!Next
<1> QED  BY <1>3, <1>4, <1>5 DEF MintMoves, Moves

LEMMA LivesInit == Init => PublishLife!Init /\ MintLife!Init
<1>1. NoRow.state = "absent" /\ NoRow.txid = 0 /\ NoMint.state = "absent" /\ NoMint.txid = 0
  BY DEF NoRow, NoMint
<1> QED  BY <1>1 DEF Init, PublishInit, MintInit, PublishLife!Init, MintLife!Init

(* Both tables implement the lifecycle: whatever requests, tabs, faults    *)
(* and restarts met a row, it only moves forward, an ended session stays   *)
(* ended, and the transaction it names is named once.                      *)
THEOREM SessionsImplementLifecycle == Spec => SessionsRefine
<1>1. Kept /\ [Next]_vars =>
        [PublishLife!Next]_<<[s \in Session |-> rows[s].state], [s \in Session |-> rows[s].txid]>>
  BY PublishLifeStep
<1>2. Kept /\ [Next]_vars =>
        [MintLife!Next]_<<[i \in MintSession |-> mints[i].state],
                          [i \in MintSession |-> mints[i].txid]>>
  BY MintLifeStep
<1> QED  BY <1>1, <1>2, KeptAlways, LivesInit, PTL
         DEF Spec, SessionsRefine, PublishLife!Spec, MintLife!Spec

----------------------------------------------------------------------------
(* A session publishes once.                                               *)

(* A named transaction stays named, and a session that can no longer be    *)
(* broadcast stays so.                                                     *)
Settled ==
  \A s \in Session :
    /\ rows[s].txid # 0 => rows'[s].txid # 0
    /\ rows[s].state \notin {"absent", "drafting", "signed"} =>
         rows'[s].state \notin {"drafting", "signed"}

LEMMA NextSettles ==
  ASSUME Kept, [Next]_vars
  PROVE  Settled
<1>1. CASE UNCHANGED rows
  BY <1>1 DEF Settled
<1>2. ASSUME NEW s \in Session, RowMoves(s)
      PROVE  Settled
  <2>1. \A st : st \notin {"absent", "drafting", "signed"} =>
          PublishLife!After(st) \subseteq {"confirmed", "failed", "abandoned"}
    BY DEF PublishLife!After
  <2>2. "broadcast" \in PublishLife!After(rows[s].state) => rows[s].state \in {"drafting", "signed"}
    BY DEF PublishLife!After
  <2> QED  BY <1>2, <2>1, <2>2 DEF Settled, RowMoves, Moves
<1> QED  BY <1>1, <1>2, NextMovesRows

(* What a request may do without a word about the session's publications.  *)
Apart(r, s) ==
  \/ req'[r] = req[r]
  \/ /\ req'[r].s = s /\ req'[r].pc \in Broadcast =>
          /\ req[r].s = s /\ req[r].pc \in Broadcast
          /\ req'[r].pc = "send" => req[r].pc = "send"
     /\ ~(req[r].s = s /\ req[r].pc = "sent")

(* A publication's session has its row.                                    *)
LEMMA PublishedHasRow ==
  ASSUME Kept, NEW s \in Session, Publications(s) # {}
  PROVE  rows[s].state # "absent"
<1>1. PICK w : w = NoRow
  OBVIOUS
<1>2. w.doc = 0
  BY <1>1 DEF NoRow
<1>3. rows[s].doc # 0
  BY DEF Publications, Kept, Shape, IsSequence, Sendable, Carries, Ready
<1> QED  BY <1>1, <1>2, <1>3 DEF Kept, RowOk

LEMMA SoleKept ==
  ASSUME Kept, Settled, NEW s \in Session, Sole(s), Publications(s)' = Publications(s),
         \A r \in Request : Apart(r, s)
  PROVE  Sole(s)'
<1>1. \A r \in Broadcasting(s)' : r \in Broadcasting(s)
        /\ (req'[r].pc = "send" => req[r].pc = "send")
  BY DEF Broadcasting, Apart, Broadcast
<1>2. ASSUME Publications(s) # {}
      PROVE  \/ rows'[s].txid # 0
             \/ rows'[s].state \notin {"drafting", "signed"}
             \/ \E r \in Request : req'[r].s = s /\ req'[r].pc = "sent"
  <2>1. CASE rows[s].txid # 0
    BY <2>1 DEF Settled
  <2>2. CASE rows[s].state \notin {"drafting", "signed"}
    BY <1>2, <2>2, PublishedHasRow DEF Settled
  <2>3. ASSUME NEW r \in Request, req[r].s = s, req[r].pc = "sent"
        PROVE  req'[r].s = s /\ req'[r].pc = "sent"
    BY <2>3 DEF Apart
  <2> QED  BY <1>2, <2>1, <2>2, <2>3 DEF Sole
<1> QED  BY <1>1, <1>2 DEF Sole

LEMMA OnceStep ==
  ASSUME Kept, OnceInv, [Next]_vars, disturbed \subseteq disturbed',
         \A s \in Session : Publications(s)' = Publications(s),
         \A s \in Session \ disturbed' : \A r \in Request : Apart(r, s)
  PROVE  OnceInv'
BY NextSettles, SoleKept DEF OnceInv

(* Most steps send nothing.                                                *)
LEMMA SilentStep ==
  ASSUME Kept, OnceInv, [Next]_vars, UNCHANGED <<accepted, disturbed>>,
         \A s \in Session, r \in Request : Apart(r, s)
  PROVE  OnceInv'
BY OnceStep DEF Publications

(* A request that is not "sent" ends or goes on to a step before the send. *)
LEMMA ApartStep ==
  ASSUME Shape, NEW r \in Request, req[r].pc # "sent",
         NEW q, q.pc \notin Broadcast, req' = [req EXCEPT ![r] = q]
  PROVE  \A s \in Session, x \in Request : Apart(x, s)
BY DEF Shape, Apart

LEMMA FinishApart ==
  ASSUME Shape, NEW r \in Request, req[r].pc # "sent", Finish(r)
  PROVE  \A s \in Session, x \in Request : Apart(x, s)
<1>1. PICK q : q = Idle
  OBVIOUS
<1>2. q.pc \notin Broadcast
  BY <1>1 DEF Idle, Broadcast
<1> QED  BY <1>1, <1>2, ApartStep DEF Finish

LEMMA ReadApart ==
  ASSUME Shape, NEW r \in Request, NEW s, NEW pc, NEW extra, Read(r, s, pc, extra),
         DOMAIN extra \subseteq {"uri", "tx"}, pc \notin Broadcast
  PROVE  \A y \in Session, x \in Request : Apart(x, y)
<1>1. PICK q : q = Idle
  OBVIOUS
<1>2. q.pc = "idle" /\ req[r] = q
  BY <1>1 DEF Idle, Read
<1> QED  BY <1>2, ReadStep DEF Apart, Broadcast

LEMMA HandleApart ==
  ASSUME Kept, NEW r \in Request,
         \/ Canonicalize(r) \/ FetchAndHash(r) \/ VerifyPersist(r) \/ BuildHead(r)
         \/ BuildCoins(r) \/ BuildPersist(r) \/ DiscardBuild(r) \/ NudgeBcmrIndexer(r)
  PROVE  (\A s \in Session, x \in Request : Apart(x, s)) /\ UNCHANGED <<accepted, disturbed>>
<1> DEFINE q == req[r]
<1>0. Shape /\ JobFields(q)
  BY DEF Kept, Shape
<1>1. CASE Canonicalize(r) \/ VerifyPersist(r) \/ BuildPersist(r) \/ DiscardBuild(r)
           \/ NudgeBcmrIndexer(r)
  <2>1. Finish(r) /\ q.pc # "sent" /\ UNCHANGED <<accepted, disturbed>>
    BY <1>1 DEF Canonicalize, VerifyPersist, BuildPersist, DiscardBuild, NudgeBcmrIndexer,
       walletVars, history
  <2> QED  BY <1>0, <2>1, FinishApart
<1>2. CASE FetchAndHash(r) \/ BuildHead(r) \/ BuildCoins(r)
  <2>1. q.pc # "sent" /\ UNCHANGED <<accepted, disturbed>>
    BY <1>2 DEF FetchAndHash, BuildHead, BuildCoins, walletVars, history
  <2>2. PICK idle : idle = Idle
    OBVIOUS
  <2>3. idle.pc = "idle"
    BY <2>2 DEF Idle
  <2>4. PICK new : req' = [req EXCEPT ![r] = new] /\ new.pc \notin Broadcast
    <3>1. CASE FetchAndHash(r)
      <4>1. PICK new : /\ req' = [req EXCEPT ![r] = new]
                       /\ new = idle \/ new = [q EXCEPT !.pc = "verified"]
        BY <2>2, <3>1, Zenon DEF FetchAndHash
      <4>2. new.pc \in {"idle", "verified"}
        BY <1>0, <2>3, <4>1 DEF JobFields
      <4> QED  BY <4>1, <4>2 DEF Broadcast
    <3>2. CASE BuildHead(r)
      <4>1. PICK head, new : /\ req' = [req EXCEPT ![r] = new]
                             /\ new = idle \/ new = [q EXCEPT !.pc = "coins", !.head = head]
        BY <2>2, <3>2, Zenon DEF BuildHead
      <4>2. new.pc \in {"idle", "coins"}
        BY <1>0, <2>3, <4>1 DEF JobFields
      <4> QED  BY <4>1, <4>2 DEF Broadcast
    <3>3. CASE BuildCoins(r)
      <4>1. PICK tx, new : /\ req' = [req EXCEPT ![r] = new]
                           /\ new = idle \/ new = [q EXCEPT !.pc = "persist", !.tx = tx]
        BY <2>2, <3>3, Zenon DEF BuildCoins
      <4>2. new.pc \in {"idle", "persist"}
        BY <1>0, <2>3, <4>1 DEF JobFields
      <4> QED  BY <4>1, <4>2 DEF Broadcast
    <3> QED  BY <1>2, <3>1, <3>2, <3>3
  <2> QED  BY <1>0, <2>1, <2>4, ApartStep
<1> QED  BY <1>1, <1>2

LEMMA RunBroadcastOnce ==
  ASSUME Kept, OnceInv, [Next]_vars, NEW r \in Request, NEW s \in Session, RunBroadcast(r, s)
  PROVE  OnceInv'
<1>1. PICK tx \in shown : Read(r, s, "send", [tx |-> tx])
  BY DEF RunBroadcast
<1> DEFINE extra == [tx |-> tx]
<1>2. Read(r, s, "send", extra) /\ DOMAIN extra \subseteq {"uri", "tx"}
  BY <1>1
<1> HIDE DEF extra
<1>3. /\ \A x \in Request : x # r => req'[x] = req[x]
      /\ req'[r].pc = "send" /\ req'[r].s = s
  BY <1>2, ReadStep DEF Kept
<1>4. req[r].pc = "idle"
  <2>1. PICK q : q = Idle
    OBVIOUS
  <2> QED  BY <1>1, <2>1 DEF Read, Idle
<1>5. /\ UNCHANGED <<accepted, rows>> /\ disturbed \subseteq disturbed'
      /\ rows[s].txid = 0 /\ rows[s].state \in {"drafting", "signed"}
      /\ s \notin disturbed' => Broadcasting(s) = {}
  BY DEF RunBroadcast, walletVars, server
<1>6. \A x \in Session : Publications(x)' = Publications(x)
  BY <1>5 DEF Publications
<1>7. ASSUME NEW x \in Session \ disturbed', x # s
      PROVE  Sole(x)'
  <2>1. \A y \in Request : Apart(y, x)
    BY <1>3, <1>4, <1>7 DEF Apart
  <2> QED  BY <1>5, <1>6, <2>1, NextSettles, SoleKept DEF OnceInv
<1>8. ASSUME s \notin disturbed'
      PROVE  Sole(s)'
  <2>1. Sole(s) /\ Broadcasting(s) = {}
    BY <1>5, <1>8 DEF OnceInv
  <2>2. Publications(s) = {}
    BY <1>5, <2>1 DEF Sole, Broadcasting, Broadcast
  <2>3. \A y \in Broadcasting(s)' : y = r
    BY <1>3, <2>1 DEF Broadcasting
  <2> QED  BY <1>6, <2>2, <2>3 DEF Sole
<1> QED  BY <1>7, <1>8 DEF OnceInv

(* What a request without an answer has sent is sent by it alone.          *)
LEMMA SendOnce ==
  ASSUME Kept, OnceInv, [Next]_vars, NEW r \in Request, SendRawTransaction(r)
  PROVE  OnceInv'
<1> DEFINE q == req[r]
<1>0. PICK s : s = q.s
  OBVIOUS
<1>1. /\ UNCHANGED <<rows, hosted>> /\ Carries(q.tx, s) /\ s \in Session /\ q.pc = "send"
      /\ disturbed \subseteq disturbed' /\ JobFields(q)
  BY <1>0 DEF SendRawTransaction, server, Kept, JobOk, Shape
<1>2. PICK new : /\ req' = [req EXCEPT ![r] = new] /\ new.s = s
                 /\ \/ new.pc = "sent" /\ Accept(q.tx)
                    \/ new.pc = "dead" /\ Accept(q.tx) /\ s \in disturbed'
                    \/ new.pc = "dead" /\ UNCHANGED walletVars
  <2>1. ASSUME req' = [req EXCEPT ![r] = [q EXCEPT !.pc = "sent", !.head = Len(accepted) + 1]]
        PROVE  \E new : req' = [req EXCEPT ![r] = new] /\ new.s = s /\ new.pc = "sent"
    <3>1. PICK new : new = [q EXCEPT !.pc = "sent", !.head = Len(accepted) + 1]
      OBVIOUS
    <3>2. new.s = s /\ new.pc = "sent"
      BY <1>0, <1>1, <3>1 DEF JobFields
    <3> QED  BY <2>1, <3>1, <3>2
  <2>2. ASSUME req' = [req EXCEPT ![r] = [q EXCEPT !.pc = "dead"]]
        PROVE  \E new : req' = [req EXCEPT ![r] = new] /\ new.s = s /\ new.pc = "dead"
    <3>1. PICK new : new = [q EXCEPT !.pc = "dead"]
      OBVIOUS
    <3>2. new.s = s /\ new.pc = "dead"
      BY <1>0, <1>1, <3>1 DEF JobFields
    <3> QED  BY <2>2, <3>1, <3>2
  <2>3. \/ /\ req' = [req EXCEPT ![r] = [q EXCEPT !.pc = "sent", !.head = Len(accepted) + 1]]
           /\ Accept(q.tx)
        \/ /\ req' = [req EXCEPT ![r] = [q EXCEPT !.pc = "dead"]]
           /\ (Accept(q.tx) /\ s \in disturbed') \/ UNCHANGED walletVars
    BY <1>0 DEF SendRawTransaction
  <2> HIDE DEF q
  <2> QED  BY <2>1, <2>2, <2>3
<1>3. req'[r] = new /\ \A x \in Request : x # r => req'[x] = req[x]
  BY <1>2 DEF Kept, Shape
<1>4. CASE UNCHANGED walletVars /\ new.pc = "dead"
  <2>1. \A x \in Session : Publications(x)' = Publications(x)
    BY <1>4 DEF Publications, walletVars
  <2>2. \A x \in Session, y \in Request : Apart(y, x)
    BY <1>0, <1>1, <1>2, <1>3, <1>4 DEF Apart, Broadcast
  <2> QED  BY <1>1, <2>1, <2>2, OnceStep
<1>5. CASE Accept(q.tx)
  <2> DEFINE n == Len(accepted) + 1
  <2>1. /\ IsSequence(accepted) /\ IsSequence(accepted') /\ Len(accepted') = n
        /\ accepted'[n] = q.tx /\ \A t \in 1..Len(accepted) : accepted'[t] = accepted[t]
    BY <1>5, Appended DEF Accept, Kept, Shape
  <2>2. DOMAIN accepted = 1..Len(accepted) /\ DOMAIN accepted' = 1..n /\ n \notin 1..Len(accepted)
        /\ 1..n = 1..Len(accepted) \cup {n}
    BY <2>1 DEF IsSequence
  <2> HIDE DEF n
  <2>3. q.tx.what = "publish" /\ q.tx.s = s
    BY <1>1 DEF Carries
  <2>4. \A x \in Session : Publications(x)' = IF x = s THEN Publications(x) \cup {n} ELSE Publications(x)
    BY <2>1, <2>2, <2>3 DEF Publications
  <2>5. ASSUME NEW x \in Session \ disturbed', x # s
        PROVE  Sole(x)'
    <3>1. \A y \in Request : Apart(y, x)
      BY <1>0, <1>1, <1>2, <1>3, <2>5 DEF Apart
    <3> QED  BY <1>1, <2>4, <2>5, <3>1, NextSettles, SoleKept DEF OnceInv
  <2>6. ASSUME s \notin disturbed'
        PROVE  Sole(s)'
    <3>1. Sole(s) /\ new.pc = "sent"
      <4>1. accepted' # accepted
        BY <2>1, <2>2
      <4> QED  BY <1>1, <1>2, <2>6, <4>1 DEF OnceInv, walletVars
    <3>2. Publications(s) = {} /\ \A y \in Broadcasting(s) : y = r
      BY <1>0, <1>1, <3>1 DEF Sole, Broadcasting, Broadcast
    <3>3. Publications(s)' = {n}
      BY <1>1, <2>4, <3>2
    <3>4. \A y \in Broadcasting(s)' : y = r
      BY <1>3, <3>2 DEF Broadcasting
    <3>5. req'[r].s = s /\ req'[r].pc = "sent"
      BY <1>2, <1>3, <3>1
    <3> QED  BY <3>3, <3>4, <3>5 DEF Sole
  <2> QED  BY <1>1, <2>5, <2>6 DEF OnceInv
<1> QED  BY <1>2, <1>4, <1>5

LEMMA BroadcastPersistOnce ==
  ASSUME Kept, OnceInv, [Next]_vars, NEW r \in Request, BroadcastPersist(r)
  PROVE  OnceInv'
<1> DEFINE q == req[r]
<1>0. PICK s : s = q.s
  OBVIOUS
<1>1. /\ s \in Session /\ q.pc = "sent" /\ JobFields(q) /\ rows[s].state # "absent"
      /\ q.head # 0 /\ UNCHANGED <<accepted, disturbed>>
  <2>1. /\ s \in Session /\ q.pc = "sent" /\ JobFields(q) /\ rows[s].doc # 0
        /\ q.head # 0 /\ UNCHANGED <<accepted, disturbed>>
    BY <1>0 DEF BroadcastPersist, Kept, JobOk, Shape, IsSequence, Carries, Ready, walletVars, history
  <2>2. PICK w : w = NoRow
    OBVIOUS
  <2>3. w.doc = 0
    BY <2>2 DEF NoRow
  <2> QED  BY <2>1, <2>2, <2>3 DEF Kept, RowOk
<1>2. rows'[s].txid # 0 \/ rows'[s].state \notin {"drafting", "signed"}
  <2> DEFINE patch == Sent(q)
  <2>1. UpdateSession(s, patch)
    BY <1>0 DEF BroadcastPersist
  <2>2. DOMAIN patch = {"state", "signed", "txid"} /\ patch.state = "broadcast" /\ patch.txid = q.head
    BY DEF Sent
  <2> HIDE DEF patch
  <2>3. CASE Writable(rows[s], patch)
    <3>1. rows' = [rows EXCEPT ![s] = Patched(rows[s], patch)]
      BY <2>1, <2>3 DEF UpdateSession
    <3>2. rows'[s] = Patched(rows[s], patch)
      BY <1>1, <3>1 DEF Kept, Shape
    <3>3. rows'[s].txid = q.head
      BY <1>1, <2>2, <3>2 DEF Kept, Shape, RowFields, Patched, Sets
    <3> QED  BY <1>1, <3>3
  <2>4. CASE ~Writable(rows[s], patch)
    <3>1. rows' = rows
      BY <2>1, <2>4 DEF UpdateSession
    <3>2. rows[s].state \notin {"drafting", "signed"} \/ rows[s].txid # 0
      BY <1>1, <2>2, <2>4 DEF Writable, Sets, Allowed
    <3> QED  BY <3>1, <3>2
  <2> QED  BY <2>3, <2>4
<1>3. PICK new : req' = [req EXCEPT ![r] = new] /\ new = [q EXCEPT !.pc = "nudge"]
  BY DEF BroadcastPersist
<1>4. new.pc = "nudge" /\ new.s = s
  BY <1>0, <1>1, <1>3 DEF JobFields
<1>5. req'[r] = new /\ \A x \in Request : x # r => req'[x] = req[x]
  BY <1>3 DEF Kept, Shape
<1>6. \A x \in Session : Publications(x)' = Publications(x)
  BY <1>1 DEF Publications
<1>7. ASSUME NEW x \in Session \ disturbed', x # s
      PROVE  Sole(x)'
  <2>1. \A y \in Request : Apart(y, x)
    BY <1>0, <1>4, <1>5, <1>7 DEF Apart
  <2> QED  BY <1>1, <1>6, <2>1, NextSettles, SoleKept DEF OnceInv
<1>8. ASSUME s \notin disturbed'
      PROVE  Sole(s)'
  <2>1. Sole(s)
    BY <1>1, <1>8 DEF OnceInv
  <2>2. \A y \in Broadcasting(s)' : y \in Broadcasting(s) /\ (req'[y].pc = "send" => req[y].pc = "send")
    BY <1>0, <1>1, <1>4, <1>5 DEF Broadcasting, Broadcast
  <2>3. Publications(s)' = Publications(s)
    BY <1>1, <1>6
  <2>4. \A x, y \in Broadcasting(s)' : x = y
    BY <2>1, <2>2 DEF Sole
  <2>5. \A x \in Broadcasting(s)' : req'[x].pc = "send" => Publications(s)' = {}
    BY <2>1, <2>2, <2>3 DEF Sole
  <2>6. \A t, u \in Publications(s)' : t = u
    BY <2>1, <2>3 DEF Sole
  <2> QED  BY <1>2, <2>4, <2>5, <2>6 DEF Sole
<1> QED  BY <1>7, <1>8 DEF OnceInv

LEMMA StatementFailsOnce ==
  ASSUME Kept, OnceInv, [Next]_vars, NEW r \in Request, StatementFails(r)
  PROVE  OnceInv'
<1> DEFINE q == req[r]
<1>1. /\ Finish(r) /\ disturbed \subseteq disturbed' /\ UNCHANGED accepted
      /\ q.pc = "sent" => q.s \in disturbed'
  BY DEF StatementFails, walletVars
<1>2. req'[r] = Idle /\ \A x \in Request : x # r => req'[x] = req[x]
  BY <1>1, FinishStep DEF Kept
<1>3. PICK idle : idle = Idle
  OBVIOUS
<1>4. idle.pc = "idle"
  BY <1>3 DEF Idle
<1>5. \A s \in Session \ disturbed', x \in Request : Apart(x, s)
  BY <1>1, <1>2, <1>3, <1>4 DEF Apart, Broadcast
<1> QED  BY <1>1, <1>5, OnceStep DEF Publications

LEMMA RestartOnce ==
  ASSUME Kept, OnceInv, [Next]_vars, Restart
  PROVE  OnceInv'
<1>1. /\ req' = [r \in Request |-> Idle] /\ UNCHANGED accepted
      /\ disturbed' = disturbed \cup {s \in Session : Broadcasting(s) # {}}
  BY DEF Restart, walletVars
<1>2. PICK idle : idle = Idle
  OBVIOUS
<1>3. idle.pc = "idle"
  BY <1>2 DEF Idle
<1>4. \A s \in Session \ disturbed', x \in Request : Apart(x, s)
  BY <1>1, <1>2, <1>3 DEF Apart, Broadcast, Broadcasting
<1> QED  BY <1>1, <1>4, OnceStep DEF Publications

(* What the others send is no publication.                                 *)
LEMMA OtherOnce ==
  ASSUME Kept, OnceInv, [Next]_vars, UNCHANGED <<req, disturbed>>,
         NEW tx, Unpublished(tx), Accept(tx) \/ UNCHANGED accepted
  PROVE  OnceInv'
<1>1. \A s \in Session, r \in Request : Apart(r, s)
  BY DEF Apart
<1>2. CASE UNCHANGED accepted
  BY <1>1, <1>2, SilentStep
<1>3. CASE Accept(tx)
  <2> DEFINE n == Len(accepted) + 1
  <2>1. /\ IsSequence(accepted) /\ IsSequence(accepted') /\ Len(accepted') = n
        /\ accepted'[n] = tx /\ \A t \in 1..Len(accepted) : accepted'[t] = accepted[t]
    BY <1>3, Appended DEF Accept, Kept, Shape
  <2>2. DOMAIN accepted = 1..Len(accepted) /\ DOMAIN accepted' = 1..n
        /\ 1..n = 1..Len(accepted) \cup {n}
    BY <2>1 DEF IsSequence
  <2> HIDE DEF n
  <2>3. \A x \in Session : Publications(x)' = Publications(x)
    BY <2>1, <2>2 DEF Publications, Unpublished
  <2> QED  BY <1>1, <2>3, OnceStep
<1> QED  BY <1>2, <1>3

LEMMA OnceInit == Init => OnceInv
<1> SUFFICES ASSUME Init, NEW s \in Session
             PROVE  Sole(s)
  BY DEF OnceInv
<1>1. Publications(s) = {}
  <2>1. Kept
    BY KeptInit
  <2>2. \A t \in 1..Len(accepted) : ~(accepted[t].what = "publish" /\ accepted[t].s = s)
    <3>1. \A x \in Session : rows[x] = NoRow
      BY DEF Init, PublishInit
    <3>2. PICK w : w = NoRow
      OBVIOUS
    <3>3. w.doc = 0
      BY <3>2 DEF NoRow
    <3> QED  BY <2>1, <3>1, <3>2, <3>3 DEF Kept, Sendable, Carries, Ready
  <2> QED  BY <2>1, <2>2 DEF Publications, Kept, Shape, IsSequence
<1>2. Broadcasting(s) = {}
  <2>1. PICK idle : idle = Idle
    OBVIOUS
  <2>2. idle.pc = "idle" /\ \A r \in Request : req[r] = idle
    BY <2>1 DEF Idle, Init, PublishInit
  <2> QED  BY <2>2 DEF Broadcasting
<1> QED  BY <1>1, <1>2 DEF Sole

LEMMA RequestsOnce ==
  ASSUME Kept, OnceInv, [Next]_vars, PublishRequests
  PROVE  OnceInv'
<1>1. ASSUME NEW r \in Request, Handle(r)
      PROVE  OnceInv'
  <2>1. CASE SendRawTransaction(r) \/ BroadcastPersist(r) \/ StatementFails(r)
    BY <2>1, SendOnce, BroadcastPersistOnce, StatementFailsOnce
  <2>2. CASE ~(SendRawTransaction(r) \/ BroadcastPersist(r) \/ StatementFails(r))
    BY <1>1, <2>2, HandleApart, SilentStep DEF Handle
  <2> QED  BY <2>1, <2>2
<1>2. ASSUME NEW r \in Request, NEW s \in Session, Arrives(r, s)
      PROVE  OnceInv'
  <2>0. Shape /\ NoMore = [c \in {} |-> 0] /\ DOMAIN NoMore = {}
    BY DEF Kept, NoMore
  <2> HIDE DEF NoMore
  <2>1. CASE CanonicalizeRead(r, s)
    <3>1. Read(r, s, "canonical", NoMore) /\ UNCHANGED <<accepted, disturbed>>
      BY <2>1 DEF CanonicalizeRead, walletVars, history
    <3>2. \A y \in Session, x \in Request : Apart(x, y)
      BY <2>0, <3>1, ReadApart DEF Broadcast
    <3> QED  BY <3>1, <3>2, SilentStep
  <2>2. CASE BuildRead(r, s)
    <3>1. UNCHANGED <<accepted, disturbed>> /\ (Read(r, s, "head", NoMore) \/ UNCHANGED req)
      BY <2>2 DEF BuildRead, walletVars, history
    <3>2. CASE Read(r, s, "head", NoMore)
      <4>1. \A y \in Session, x \in Request : Apart(x, y)
        BY <2>0, <3>2, ReadApart DEF Broadcast
      <4> QED  BY <3>1, <4>1, SilentStep
    <3>3. CASE UNCHANGED req
      <4>1. \A y \in Session, x \in Request : Apart(x, y)
        BY <3>3 DEF Apart
      <4> QED  BY <3>1, <4>1, SilentStep
    <3> QED  BY <3>1, <3>2, <3>3
  <2>3. ASSUME NEW uri, RunVerify(r, s, uri)
        PROVE  OnceInv'
    <3> DEFINE extra == [uri |-> uri]
    <3>1. Read(r, s, "fetch", extra) /\ UNCHANGED <<accepted, disturbed>>
          /\ DOMAIN extra \subseteq {"uri", "tx"}
      BY <2>3 DEF RunVerify, walletVars, history
    <3> HIDE DEF extra
    <3>2. \A y \in Session, x \in Request : Apart(x, y)
      BY <2>0, <3>1, ReadApart DEF Broadcast
    <3> QED  BY <3>1, <3>2, SilentStep
  <2> QED  BY <1>2, <2>1, <2>2, <2>3, RunBroadcastOnce DEF Arrives
<1>3. CASE CooldownEnds
  <2>1. UNCHANGED <<accepted, disturbed, req>>
    BY <1>3 DEF CooldownEnds, walletVars, history
  <2> QED  BY <2>1, SilentStep DEF Apart
<1> QED  BY <1>1, <1>2, <1>3, RestartOnce DEF PublishRequests

LEMMA OnceNext == Kept /\ OnceInv /\ [Next]_vars => OnceInv'
<1> SUFFICES ASSUME Kept, OnceInv, [Next]_vars
             PROVE  OnceInv'
  OBVIOUS
<1>1. CASE Chain
  <2>1. UNCHANGED <<req, disturbed>>
    BY <1>1 DEF Chain, publishVars
  <2>2. PICK tx : Unpublished(tx) /\ (Accept(tx) \/ UNCHANGED accepted)
    <3>1. ASSUME Mine
          PROVE  \E tx : Unpublished(tx) /\ UNCHANGED accepted
      <4>1. PICK none : none = NoTx
        OBVIOUS
      <4>2. Unpublished(none)
        BY <4>1 DEF NoTx, Unpublished
      <4>3. UNCHANGED accepted
        BY <3>1 DEF Mine
      <4> QED  BY <4>2, <4>3
    <3>2. ASSUME NEW k \in DOMAIN Fund, Arrive(k)
          PROVE  \E tx : Unpublished(tx) /\ Accept(tx)
      <4>1. PICK tx, coins, old : /\ old = NoTx /\ tx = [old EXCEPT !.what = "fund", !.outs = coins]
                                  /\ Accept(tx)
        BY <3>2 DEF Arrive
      <4>2. Unpublished(tx)
        BY <4>1 DEF NoTx, Unpublished
      <4> QED  BY <4>1, <4>2
    <3>3. Mine \/ \E k \in DOMAIN Fund : Arrive(k)
      BY <1>1 DEF Chain
    <3> QED  BY <3>1, <3>2, <3>3, Zenon
  <2> QED  BY <2>1, <2>2, OtherOnce
<1>2. CASE PublishPages
  <2>1. UNCHANGED <<accepted, req, disturbed>>
    BY <1>2 DEF PublishPages, SaveIdentity, AbandonDraft, PinCanonicalJson, WalkerVisits, StartWizard,
       HostChanges, walletVars, history
  <2> QED  BY <2>1, SilentStep DEF Apart
<1>3. CASE MintPage
  <2>1. /\ UNCHANGED <<req, disturbed>> /\ Unpublished(page.signed)
        /\ Accept(page.signed) \/ UNCHANGED accepted
    BY <1>3 DEF MintPage, Resume, PickType, Forward, Back, FetchFundingUtxos, SelectOutpoint,
       SignGenesis, PasteSigned, PostGenesis, SendGenesis, NameCategory, RecordGenesis,
       OpenPublishSession, Receipt, DiscardDraft, CloseTab, walletVars, publishVars, history,
       Kept, MintOk, PageOk
  <2> QED  BY <2>1, OtherOnce
<1>4. CASE Consolidations
  <2>1. /\ UNCHANGED <<req, disturbed>> /\ Unpublished(consolidation)
        /\ Accept(consolidation) \/ UNCHANGED accepted
    BY <1>4 DEF Consolidations, PrepareFunding, PrepareFundingConsolidation, SendConsolidation,
       MintCooldownEnds, walletVars, publishVars, Kept, MintOk
  <2> QED  BY <2>1, OtherOnce
<1>5. CASE UNCHANGED vars
  <2>1. UNCHANGED <<accepted, req, disturbed>>
    BY <1>5 DEF vars, walletVars, publishVars
  <2> QED  BY <2>1, SilentStep DEF Apart
<1> QED  BY <1>1, <1>2, <1>3, <1>4, <1>5, RequestsOnce DEF Next

(* A session publishes once, however its requests interleave, unless a     *)
(* fault or a second broadcast met its first.                              *)
THEOREM OnePublication == Spec => []PublishedOnce
<1>1. OnceInv => PublishedOnce
  <2> SUFFICES ASSUME OnceInv, NEW s \in Session \ disturbed
               PROVE  Cardinality(Publications(s)) <= 1
    BY DEF PublishedOnce
  <2>1. \A t, u \in Publications(s) : t = u
    BY DEF OnceInv, Sole
  <2>2. CASE Publications(s) = {}
    BY <2>2, FS_EmptySet
  <2>3. ASSUME NEW t, Publications(s) = {t}
        PROVE  Cardinality(Publications(s)) <= 1
    BY <2>3, FS_Singleton
  <2> QED  BY <2>1, <2>2, <2>3
<1> QED  BY <1>1, KeptAlways, OnceInit, OnceNext, PTL DEF Spec


----------------------------------------------------------------------------
(* What a publication spends and what it creates.                          *)

(* A token with an amount.                                                 *)
IsAmount(k) == k = [nft |-> k.nft, ft |-> k.ft, cat |-> k.cat] /\ k.ft \in Int

TypedOuts(tx) == \A i \in 0..2 : i < Len(tx.outs) => IsAmount(tx.outs[i + 1].token)

Fts(acc, coins) == SumFunctionOnSet([c \in coins |-> Output(acc, c).token.ft], coins)
Nfts(acc, coins) == SumFunctionOnSet([c \in coins |-> Unique(Output(acc, c).token)], coins)

(* Its first output holds what its inputs held, and its others hold none.  *)
Balanced(tx, acc) ==
  /\ Len(tx.outs) \in 2..3 /\ tx.ins \subseteq Created(acc)
  /\ Fts(acc, tx.ins) = tx.outs[1].token.ft
  /\ Nfts(acc, tx.ins) = Unique(tx.outs[1].token)
  /\ \A i \in 2..3 : i <= Len(tx.outs) => tx.outs[i].token.ft = 0 /\ ~tx.outs[i].token.nft

Sound(tx, acc) == TypedOuts(tx) /\ (tx.what = "publish" /\ tx.whole => Balanced(tx, acc))

PageSound(p, acc) == Sound(p.build, acc) /\ Sound(p.signed, acc) /\ IsAmount(p.kind)

MintSound(acc) ==
  /\ PageSound(page, acc) /\ Sound(consolidation, acc)
  /\ \A tx \in signedHex : Sound(tx, acc)
  /\ \A i \in MintSession : IsAmount(mints[i].kind)

(* Wherever a transaction waits, it is a sound one.                        *)
Worth ==
  /\ mined \in Nat
  /\ \A t \in 1..Len(accepted) : Sound(accepted[t], accepted)
  /\ \A r \in Request : Sound(req[r].tx, accepted)
  /\ \A s \in Session : Sound(rows[s].built, accepted)
  /\ \A tx \in shown : Sound(tx, accepted)
  /\ MintSound(accepted)

(* The coins a longer sequence has are the coins the shorter one had.      *)
Extends(acc, new) ==
  /\ IsSequence(acc) /\ IsSequence(new) /\ Len(acc) <= Len(new)
  /\ \A t \in 1..Len(acc) : new[t] = acc[t]

LEMMA CoinsStay ==
  ASSUME NEW acc, NEW new, Extends(acc, new), NEW c \in Created(acc)
  PROVE  c \in Created(new) /\ Output(new, c) = Output(acc, c)
BY DEF Extends, IsSequence, Created, Output

LEMMA SoundStays ==
  ASSUME NEW acc, NEW new, Extends(acc, new), NEW tx, Sound(tx, acc)
  PROVE  Sound(tx, new)
<1> SUFFICES ASSUME Balanced(tx, acc)
             PROVE  Balanced(tx, new)
  BY DEF Sound
<1>1. PICK coins : coins = tx.ins /\ coins \subseteq Created(acc)
  BY DEF Balanced
<1>2. \A c \in coins : c \in Created(new) /\ Output(new, c) = Output(acc, c)
  BY <1>1, CoinsStay
<1>3. [c \in coins |-> Output(new, c).token.ft] = [c \in coins |-> Output(acc, c).token.ft]
  BY <1>2
<1>4. [c \in coins |-> Unique(Output(new, c).token)] = [c \in coins |-> Unique(Output(acc, c).token)]
  BY <1>2
<1>5. Fts(new, coins) = Fts(acc, coins) /\ Nfts(new, coins) = Nfts(acc, coins)
  BY <1>3, <1>4, Zenon DEF Fts, Nfts
<1> QED BY <1>1, <1>2, <1>5 DEF Balanced

LEMMA CoinsFinite ==
  ASSUME NEW acc, IsSequence(acc)
  PROVE  IsFiniteSet(Created(acc))
<1>0. Len(acc) \in Int /\ 1 \in Int /\ 0 \in Int /\ 2 \in Int
  BY DEF IsSequence
<1>1. IsFiniteSet(1..Len(acc)) /\ IsFiniteSet(0..2)
  <2>1. IsFiniteSet(1..Len(acc))
    BY <1>0, FS_Interval
  <2>2. IsFiniteSet(0..2)
    BY <1>0, FS_Interval
  <2> QED BY <2>1, <2>2
<1>2. IsFiniteSet((1..Len(acc)) \X (0..2))
  BY <1>1, FS_Product
<1>3. Created(acc) \subseteq (1..Len(acc)) \X (0..2)
  BY DEF Created, IsSequence
<1> QED BY <1>2, <1>3, FS_Subset

(* A sound publication keeps its tokens once it is accepted.               *)
LEMMA BalancedKeeps ==
  ASSUME IsSequence(accepted), NEW t \in 1..Len(accepted), TypedOuts(accepted[t]),
         Balanced(accepted[t], accepted)
  PROVE  KeepsTokens(t)
<1> DEFINE out == Outputs(t)
           first == <<t, 0>>
           ft == [c \in out |-> Output(accepted, c).token.ft]
           nft == [c \in out |-> Unique(Output(accepted, c).token)]
<1>1. IsFiniteSet(out)
  BY CoinsFinite, FS_Subset DEF Outputs
<1>2. first \in out /\ Output(accepted, first) = accepted[t].outs[1]
  BY DEF Outputs, Created, Output, Balanced, IsSequence
<1>3. ASSUME NEW c \in out
      PROVE  /\ IsAmount(Output(accepted, c).token)
             /\ c # first => ft[c] = 0 /\ nft[c] = 0
  <2>1. PICK i \in 0..2 : c = <<t, i>> /\ i < Len(accepted[t].outs) /\ Output(accepted, c) = accepted[t].outs[i + 1]
    BY DEF Outputs, Created, Output
  <2>2. IsAmount(Output(accepted, c).token)
    BY <2>1 DEF TypedOuts
  <2>3. ASSUME c # first
        PROVE  Output(accepted, c).token.ft = 0 /\ ~Output(accepted, c).token.nft
    <3>1. i + 1 \in 2..3 /\ i + 1 <= Len(accepted[t].outs)
      BY <2>1, <2>3 DEF Balanced
    <3> QED BY <2>1, <3>1 DEF Balanced
  <2> QED BY <2>2, <2>3 DEF Unique
<1>4. ASSUME NEW c \in out
      PROVE  ft[c] \in Int /\ nft[c] \in Int
  <2>1. PICK k : k = Output(accepted, c).token
    OBVIOUS
  <2>2. ft[c] = k.ft /\ nft[c] = Unique(k) /\ k.ft \in Int
    BY <1>3, <2>1 DEF IsAmount
  <2> QED BY <2>2 DEF Unique
<1> DEFINE rest == out \ {first}
<1>5. IsFiniteSet(rest) /\ \A c \in rest : ft[c] = 0 /\ nft[c] = 0
  BY <1>1, <1>3, FS_RemoveElement
<1>6. ft[first] = accepted[t].outs[1].token.ft /\ nft[first] = Unique(accepted[t].outs[1].token)
  BY <1>2
<1>7. DOMAIN ft = out /\ DOMAIN nft = out
  OBVIOUS
<1>8. Amount(out, Fungible) = SumFunctionOnSet(ft, out) /\ Amount(out, Unique) = SumFunctionOnSet(nft, out)
  BY <1>7 DEF Amount, Fungible, SumFunction
<1> HIDE DEF ft, nft, out, first
<1>9. SumFunctionOnSet(ft, rest) = 0 /\ SumFunctionOnSet(nft, rest) = 0
  <2> HIDE DEF rest
  <2> QED BY <1>5, SumOfZeros
<1>10. SumFunctionOnSet(ft, out) = ft[first]
  <2>1. SumFunctionOnSet(ft, out) = ft[first] + SumFunctionOnSet(ft, rest)
    BY <1>1, <1>2, <1>4, SumTakeOut
  <2> QED BY <1>2, <1>4, <1>9, <2>1
<1>11. SumFunctionOnSet(nft, out) = nft[first]
  <2>1. SumFunctionOnSet(nft, out) = nft[first] + SumFunctionOnSet(nft, rest)
    BY <1>1, <1>2, <1>4, SumTakeOut
  <2> QED BY <1>2, <1>4, <1>9, <2>1
<1>12. /\ Amount(accepted[t].ins, Fungible) = Fts(accepted, accepted[t].ins)
       /\ Amount(accepted[t].ins, Unique) = Nfts(accepted, accepted[t].ins)
  <2> DEFINE ins == accepted[t].ins
             a == [c \in ins |-> Output(accepted, c).token.ft]
             b == [c \in ins |-> Unique(Output(accepted, c).token)]
  <2>1. DOMAIN a = ins /\ DOMAIN b = ins
    OBVIOUS
  <2> QED BY <2>1 DEF Amount, Fungible, SumFunction, Fts, Nfts
<1> QED BY <1>6, <1>8, <1>10, <1>11, <1>12 DEF KeepsTokens, Balanced, out

----------------------------------------------------------------------------
(* What the builders build.                                                *)

(* The wallet's coins as the server sees them: one entry for a coin.       *)
LEMMA SeenCoins ==
  ASSUME IsSequence(accepted), mined \in Nat, NEW seen, seen = FetchWalletUtxos
  PROVE  /\ IsFiniteSet(seen)
         /\ \A u \in seen : u.coin \in Created(accepted) /\ u.token = Output(accepted, u.coin).token
         /\ \A u, v \in seen : u.coin = v.coin => u = v
         /\ VerifyUtxoTokenData(seen, {}) = seen
<1>1. ASSUME NEW u \in seen
      PROVE  /\ u.coin \in Created(accepted) /\ u.token = Output(accepted, u.coin).token
             /\ u = [coin |-> u.coin, token |-> u.token, sats |-> u.sats]
             /\ \/ u.coin[1] <= mined /\ u.sats = 0
                \/ u.coin[1] > mined /\ u.sats = Output(accepted, u.coin).sats
  <2>1. CASE u \in ConfirmedUtxos
    <3>1. PICK d \in Created(accepted) : d[1] <= mined /\
            u = [coin |-> d, token |-> Output(accepted, d).token, sats |-> 0]
      BY <2>1 DEF ConfirmedUtxos
    <3> QED BY <3>1
  <2>2. CASE u \in MempoolUtxos
    <3>1. PICK d \in Created(accepted) : d[1] > mined /\
            u = [coin |-> d, token |-> Output(accepted, d).token, sats |-> Output(accepted, d).sats]
      BY <2>2 DEF MempoolUtxos
    <3> QED BY <3>1
  <2> QED BY <2>1, <2>2 DEF FetchWalletUtxos
<1>2. ASSUME NEW u \in seen, NEW v \in seen, u.coin = v.coin
      PROVE  u = v
  <2>1. u.coin[1] \in Int
    BY <1>1 DEF Created, IsSequence
  <2>2. ~(u.coin[1] <= mined /\ u.coin[1] > mined)
    BY <2>1
  <2>3. u.token = v.token /\ u.sats = v.sats
    BY <1>1, <1>2, <2>2
  <2> QED BY <1>1, <1>2, <2>3
<1>3. IsFiniteSet(seen)
  <2> PICK f : f = [u \in seen |-> u.coin]
    OBVIOUS
  <2>1. f \in [seen -> Created(accepted)]
    BY <1>1
  <2>2. \A u, v \in seen : f[u] = f[v] => u = v
    BY <1>2
  <2>3. f \in Injection(seen, Created(accepted))
    BY <2>1, <2>2 DEF Injection, IsInjective
  <2>4. IsFiniteSet(Created(accepted))
    BY CoinsFinite
  <2> QED BY <2>3, <2>4, FS_Injection
<1>4. VerifyUtxoTokenData(seen, {}) = seen
  BY DEF VerifyUtxoTokenData
<1> QED BY <1>1, <1>2, <1>3, <1>4

(* The coins that pay are among the plain ones and the mergeable ones.     *)
LEMMA PickedCoins ==
  ASSUME NEW plains, NEW mergeable, NEW target
  PROVE  PickFundingUtxos(plains, mergeable, target) \subseteq plains \cup mergeable
<1> QED BY Zenon DEF PickFundingUtxos

LEMMA PaidOutputs ==
  ASSUME NEW a, NEW b, NEW c, NEW outs, outs = <<a, b>> \/ outs = Append(<<a, b>>, c)
  PROVE  /\ Len(outs) \in 2..3 /\ outs[1] = a /\ outs[2] = b
         /\ Len(outs) = 3 => outs[3] = c
<1> PICK paid : paid = <<a, b>>
  OBVIOUS
<1>1. Len(paid) = 2 /\ paid[1] = a /\ paid[2] = b /\ IsSequence(paid)
  BY DEF IsSequence
<1>2. CASE outs = Append(paid, c)
  <2>1. Len(outs) = 2 + 1 /\ outs[2 + 1] = c /\ \A t \in 1..2 : outs[t] = paid[t]
    BY <1>1, <1>2, Appended
  <2> QED BY <1>1, <2>1
<1> QED BY <1>1, <1>2

(* A publication spends its authority coin and coins without an NFT; the   *)
(* authority coin's successor takes in their fungible tokens.              *)
LEMMA PublicationShape ==
  ASSUME NEW s, NEW a, NEW available, NEW doc, NEW whole, NEW tx,
         tx = BuildBcmrPublishTx(s, a, available, doc, whole), tx # NoTx
  PROVE  \E inputs \in SUBSET available :
           /\ \A u \in inputs : ~u.token.nft
           /\ tx.ins = {u.coin : u \in inputs \cup {a}}
           /\ tx.what = "publish" /\ tx.whole = whole
           /\ Len(tx.outs) \in 2..3
           /\ tx.outs[1].token = [a.token EXCEPT !.ft = @ + TotalFungible(inputs)]
           /\ tx.outs[2].token = Data /\ (Len(tx.outs) = 3 => tx.outs[3].token = Plain)
<1> DEFINE out == IF a.sats > MinAuth THEN a.sats ELSE MinAuth
           need == out + Fee - a.sats
           mergeable == {u \in available : IsMergeable(u, a.token.cat)}
           inputs == PickFundingUtxos(BchUtxos(available), mergeable, need)
           change == a.sats + TotalSats(inputs) - out - Fee
           one == [token |-> AuthNftTokenField(a, inputs), sats |-> out]
           two == [token |-> Data, sats |-> 0]
           three == [token |-> Plain, sats |-> change]
           outs == IF change >= Dust THEN Append(<<one, two>>, three) ELSE <<one, two>>
<1>1. tx = [what |-> "publish", s |-> s, ins |-> {u.coin : u \in inputs \cup {a}}, outs |-> outs,
            doc |-> doc, whole |-> whole]
  BY Zenon DEF BuildBcmrPublishTx
<1>2. inputs \subseteq BchUtxos(available) \cup mergeable
  BY PickedCoins, Zenon
<1>3. \A u \in inputs : u \in available /\ ~u.token.nft
  <2> HIDE DEF inputs
  <2> QED BY <1>2 DEF BchUtxos, IsPlain, Plain, IsMergeable
<1>4. one.token = [a.token EXCEPT !.ft = @ + TotalFungible(inputs)] /\ two.token = Data /\ three.token = Plain
  <2> HIDE DEF inputs, out, change
  <2> QED BY DEF AuthNftTokenField
<1>5. outs = <<one, two>> \/ outs = Append(<<one, two>>, three)
  <2> HIDE DEF one, two, three, change
  <2> QED OBVIOUS
<1> HIDE DEF inputs, one, two, three, outs
<1>6. /\ Len(outs) \in 2..3 /\ outs[1] = one /\ outs[2] = two
      /\ Len(outs) = 3 => outs[3] = three
  BY <1>5, PaidOutputs
<1>7. inputs \in SUBSET available
  BY <1>3
<1>8. tx.outs = outs /\ tx.ins = {u.coin : u \in inputs \cup {a}} /\ tx.what = "publish" /\ tx.whole = whole
  BY <1>1
<1> QED BY <1>3, <1>4, <1>6, <1>7, <1>8

LEMMA PublicationWhole ==
  ASSUME NEW s, NEW a, NEW available, NEW doc, NEW whole, NEW tx,
         tx = BuildBcmrPublishTx(s, a, available, doc, whole), tx # NoTx
  PROVE  tx.whole = whole
<1>1. PICK ins, outs : tx = [what |-> "publish", s |-> s, ins |-> ins, outs |-> outs, doc |-> doc,
                             whole |-> whole]
  BY Zenon DEF BuildBcmrPublishTx
<1> QED BY <1>1

LEMMA TwoOrThree == ASSUME NEW n \in 2..3, 2 < n PROVE n = 3
OBVIOUS

(* Its outputs are tokens with amounts, whatever could be read.            *)
LEMMA PublicationTyped ==
  ASSUME NEW s, NEW a, NEW available, NEW doc, NEW whole, NEW tx,
         tx = BuildBcmrPublishTx(s, a, available, doc, whole), tx # NoTx,
         IsAmount(a.token), IsFiniteSet(available), \A u \in available : IsAmount(u.token)
  PROVE  TypedOuts(tx)
<1>1. PICK inputs \in SUBSET available :
           /\ Len(tx.outs) \in 2..3
           /\ tx.outs[1].token = [a.token EXCEPT !.ft = @ + TotalFungible(inputs)]
           /\ tx.outs[2].token = Data /\ (Len(tx.outs) = 3 => tx.outs[3].token = Plain)
  BY PublicationShape
<1>2. TotalFungible(inputs) \in Int
  <2> PICK f : f = [u \in inputs |-> u.token.ft]
    OBVIOUS
  <2>1. IsFiniteSet(inputs) /\ (\A u \in inputs : f[u] \in Int) /\ DOMAIN f = inputs
    BY FS_Subset DEF IsAmount
  <2>2. SumFunctionOnSet(f, inputs) \in Int
    BY <2>1, SumType
  <2> QED BY <2>1, <2>2 DEF TotalFungible, SumFunction
<1>3. PICK k, n : k = a.token /\ n = TotalFungible(inputs) /\ n \in Int
  BY <1>2
<1>4. IsAmount([k EXCEPT !.ft = @ + n])
  BY <1>3 DEF IsAmount
<1>5. IsAmount(Data) /\ IsAmount(Plain)
  BY DEF IsAmount, Data, Plain
<1>6. IsAmount(tx.outs[1].token) /\ IsAmount(tx.outs[2].token) /\ (Len(tx.outs) = 3 => IsAmount(tx.outs[3].token))
  BY <1>1, <1>3, <1>4, <1>5
<1>7. ASSUME NEW i \in 0..2, i < Len(tx.outs)
      PROVE  IsAmount(tx.outs[i + 1].token)
  <2>1. CASE i = 0
    BY <1>6, <2>1
  <2>2. CASE i = 1
    BY <1>6, <2>2
  <2>3. CASE i = 2
    <3>1. Len(tx.outs) \in 2..3 /\ 2 < Len(tx.outs)
      BY <1>1, <1>7, <2>3
    <3>2. Len(tx.outs) = 3
      BY <3>1, TwoOrThree
    <3> QED BY <1>6, <2>3, <3>2
  <2> QED BY <2>1, <2>2, <2>3
<1> QED BY <1>7 DEF TypedOuts

(* And where all could be read it is balanced.                             *)
LEMMA PublicationBalanced ==
  ASSUME IsSequence(accepted), mined \in Nat, \A t \in 1..Len(accepted) : TypedOuts(accepted[t]),
         NEW a \in FetchWalletUtxos, NEW available \in SUBSET (FetchWalletUtxos \ {a}),
         NEW s, NEW doc, NEW whole, NEW tx,
         tx = BuildBcmrPublishTx(s, a, available, doc, whole), tx # NoTx
  PROVE  Balanced(tx, accepted)
<1> PICK seen : seen = FetchWalletUtxos
  OBVIOUS
<1>1. /\ IsFiniteSet(seen)
      /\ \A u \in seen : u.coin \in Created(accepted) /\ u.token = Output(accepted, u.coin).token
      /\ \A u, v \in seen : u.coin = v.coin => u = v
  BY SeenCoins
<1>2. PICK inputs \in SUBSET available :
           /\ \A u \in inputs : ~u.token.nft
           /\ tx.ins = {u.coin : u \in inputs \cup {a}}
           /\ Len(tx.outs) \in 2..3
           /\ tx.outs[1].token = [a.token EXCEPT !.ft = @ + TotalFungible(inputs)]
           /\ tx.outs[2].token = Data /\ (Len(tx.outs) = 3 => tx.outs[3].token = Plain)
  BY PublicationShape
<1>3. \A u \in seen : IsAmount(u.token)
  <2> SUFFICES ASSUME NEW u \in seen
               PROVE  IsAmount(Output(accepted, u.coin).token)
    BY <1>1
  <2>1. PICK t \in 1..Len(accepted), i \in 0..2 : u.coin = <<t, i>> /\ i < Len(accepted[t].outs)
    BY <1>1 DEF Created, IsSequence
  <2> QED BY <2>1 DEF TypedOuts, Output
<1>a. PICK all : all = inputs \cup {a}
  OBVIOUS
<1>b. PICK h, ft, nft : /\ h = [u \in all |-> u.coin] /\ ft = [u \in all |-> u.token.ft]
                        /\ nft = [u \in all |-> Unique(u.token)]
  OBVIOUS
<1>c. PICK ins, gft, gnft : /\ ins = tx.ins /\ gft = [c \in ins |-> Output(accepted, c).token.ft]
                            /\ gnft = [c \in ins |-> Unique(Output(accepted, c).token)]
  OBVIOUS
<1>4. /\ inputs \subseteq seen /\ a \in seen /\ a \notin inputs /\ all \subseteq seen
      /\ IsFiniteSet(inputs) /\ IsFiniteSet(all)
  <2>1. inputs \in SUBSET seen /\ a \in seen /\ a \notin inputs /\ all \in SUBSET seen
    BY <1>a
  <2> QED BY <1>1, <2>1, <1>a, FS_Subset
<1>5. ASSUME NEW u \in all
      PROVE  ft[u] \in Int /\ nft[u] \in Int
  <2>1. PICK k : k = u.token
    OBVIOUS
  <2>2. ft[u] = k.ft /\ nft[u] = Unique(k) /\ k.ft \in Int
    BY <1>3, <1>4, <1>b, <2>1 DEF IsAmount
  <2> QED BY <2>2 DEF Unique
<1>6. {h[u] : u \in all} = ins
  BY <1>2, <1>a, <1>b, <1>c
<1>7. \A u \in all : h[u] \in ins /\ h[u] = u.coin /\ gft[h[u]] = ft[u] /\ gnft[h[u]] = nft[u]
  BY <1>1, <1>4, <1>6, <1>b, <1>c
<1>8. \A u, v \in all : h[u] = h[v] => u = v
  BY <1>1, <1>4, <1>7
<1>9. ins \subseteq Created(accepted)
  BY <1>1, <1>4, <1>6, <1>7
<1>10. ft[a] = a.token.ft /\ nft[a] = Unique(a.token) /\ a \in all
  BY <1>a, <1>b
<1>11. \A u \in inputs : ft[u] = u.token.ft /\ nft[u] = 0
  BY <1>2, <1>a, <1>b DEF Unique
<1>12. /\ SumFunctionOnSet(gft, ins) = SumFunctionOnSet(ft, all)
       /\ SumFunctionOnSet(gnft, ins) = SumFunctionOnSet(nft, all)
  <2>0. /\ IsFiniteSet(all) /\ (\A u, v \in all : h[u] = h[v] => u = v)
        /\ \A u \in all : ft[u] \in Int /\ gft[h[u]] = ft[u]
        /\ \A u \in all : nft[u] \in Int /\ gnft[h[u]] = nft[u]
    BY <1>4, <1>5, <1>7, <1>8, Zenon
  <2>1. (\A u \in all : h[u] \in ins) /\ (\A c \in ins : \E u \in all : c = h[u])
    BY <1>6
  <2>2. SumFunctionOnSet(gft, ins) = SumFunctionOnSet(ft, all)
    BY <2>0, <2>1, SumCorresponds
  <2>3. SumFunctionOnSet(gnft, ins) = SumFunctionOnSet(nft, all)
    BY <2>0, <2>1, SumCorresponds
  <2> QED BY <2>2, <2>3
<1>13. SumFunctionOnSet(ft, all) = ft[a] + SumFunctionOnSet(ft, inputs)
       /\ SumFunctionOnSet(nft, all) = nft[a] + SumFunctionOnSet(nft, inputs)
  BY <1>4, <1>5, <1>a, SumInsert
<1>14. SumFunctionOnSet(nft, inputs) = 0
  BY <1>4, <1>11, SumOfZeros
<1>15. SumFunctionOnSet(ft, inputs) = TotalFungible(inputs) /\ TotalFungible(inputs) \in Int
  <2> PICK f : f = [u \in inputs |-> u.token.ft]
    OBVIOUS
  <2>1. (\A u \in inputs : ft[u] \in Int /\ f[u] = ft[u]) /\ DOMAIN f = inputs
    BY <1>5, <1>11, <1>a
  <2>2. SumFunctionOnSet(f, inputs) = SumFunctionOnSet(ft, inputs) /\ SumFunctionOnSet(ft, inputs) \in Int
    BY <1>4, <2>1, SumSame, SumType
  <2> QED BY <2>1, <2>2 DEF TotalFungible, SumFunction
<1>16. PICK k, n : k = a.token /\ n = TotalFungible(inputs) /\ n \in Int /\ IsAmount(k)
  BY <1>3, <1>4, <1>15
<1>17. [k EXCEPT !.ft = @ + n].ft = k.ft + n /\ Unique([k EXCEPT !.ft = @ + n]) = Unique(k)
  BY <1>16 DEF IsAmount, Unique
<1>18. Fts(accepted, tx.ins) = tx.outs[1].token.ft
  <2>1. Fts(accepted, tx.ins) = SumFunctionOnSet(gft, ins)
    BY <1>c DEF Fts
  <2> QED BY <2>1, <1>2, <1>10, <1>12, <1>13, <1>15, <1>16, <1>17
<1>19. Nfts(accepted, tx.ins) = Unique(tx.outs[1].token)
  <2>1. Nfts(accepted, tx.ins) = SumFunctionOnSet(gnft, ins)
    BY <1>c DEF Nfts
  <2>2. nft[a] \in Int
    BY <1>5, <1>10
  <2> QED BY <2>1, <2>2, <1>2, <1>10, <1>12, <1>13, <1>14, <1>16, <1>17
<1>20. ASSUME NEW i \in 2..3, i <= Len(tx.outs)
       PROVE  tx.outs[i].token.ft = 0 /\ ~tx.outs[i].token.nft
  <2>1. Data.ft = 0 /\ ~Data.nft /\ Plain.ft = 0 /\ ~Plain.nft
    BY DEF Data, Plain
  <2>2. i = 2 \/ (i = 3 /\ Len(tx.outs) = 3)
    <3>1. Len(tx.outs) \in 2..3 /\ i <= Len(tx.outs) /\ i \in 2..3
      BY <1>2, <1>20
    <3>2. i = 2 \/ (i = 3 /\ 2 < Len(tx.outs))
      BY <3>1
    <3> QED BY <3>1, <3>2, TwoOrThree
  <2> QED BY <1>2, <2>1, <2>2
<1> QED BY <1>2, <1>9, <1>18, <1>19, <1>20, <1>c DEF Balanced

----------------------------------------------------------------------------
(* No step brings in an unsound transaction.                               *)

LEMMA NoTxSound == ASSUME NEW acc PROVE Sound(NoTx, acc) /\ Sound(Idle.tx, acc)
<1>1. PICK tx : tx = NoTx
  OBVIOUS
<1>2. tx.what = "none" /\ tx.outs = <<>>
  BY <1>1 DEF NoTx
<1>3. Idle.tx = NoTx
  BY Zenon DEF Idle
<1>4. Sound(tx, acc)
  BY <1>2 DEF Sound, TypedOuts
<1> QED BY <1>1, <1>3, <1>4

(* What one step brings in is sound over the coins there were.             *)
LEMMA WorthStep ==
  ASSUME Worth, Extends(accepted, accepted'), mined' \in Nat,
         \A t \in 1..Len(accepted') : t \in 1..Len(accepted) \/ Sound(accepted'[t], accepted),
         \A r \in Request : req'[r].tx = req[r].tx \/ Sound(req'[r].tx, accepted),
         \A s \in Session : rows'[s].built = rows[s].built \/ Sound(rows'[s].built, accepted),
         \A tx \in shown' : tx \in shown \/ Sound(tx, accepted),
         PageSound(page', accepted), Sound(consolidation', accepted),
         \A tx \in signedHex' : tx \in signedHex \/ Sound(tx, accepted),
         \A i \in MintSession : mints'[i].kind = mints[i].kind \/ IsAmount(mints'[i].kind)
  PROVE  Worth'
<1> PICK acc, new : acc = accepted /\ new = accepted'
  OBVIOUS
<1>0. Extends(acc, new)
  OBVIOUS
<1>1. \A tx : Sound(tx, acc) => Sound(tx, new)
  BY <1>0, SoundStays
<1>2. ASSUME NEW t \in 1..Len(new)
      PROVE  Sound(new[t], new)
  <2>1. CASE t \in 1..Len(acc)
    <3>1. new[t] = acc[t] /\ Sound(acc[t], acc)
      BY <1>0, <2>1 DEF Extends, Worth
    <3> QED BY <1>1, <3>1
  <2>2. CASE t \notin 1..Len(acc)
    BY <1>1, <2>2
  <2> QED BY <2>1, <2>2
<1>3. \A r \in Request : Sound(req'[r].tx, new)
  BY <1>1 DEF Worth
<1>4. \A s \in Session : Sound(rows'[s].built, new)
  BY <1>1 DEF Worth
<1>5. \A tx \in shown' : Sound(tx, new)
  BY <1>1 DEF Worth
<1>6. PageSound(page', new) /\ Sound(consolidation', new) /\ (\A tx \in signedHex' : Sound(tx, new))
  BY <1>1 DEF Worth, MintSound, PageSound
<1>7. \A i \in MintSession : IsAmount(mints'[i].kind)
  BY DEF Worth, MintSound
<1> QED BY <1>2, <1>3, <1>4, <1>5, <1>6, <1>7 DEF Worth, MintSound

LEMMA SameCoins == ASSUME Kept PROVE Extends(accepted, accepted)
BY DEF Kept, Shape, IsSequence, Extends

(* A step that sends nothing and leaves the mint page alone.               *)
LEMMA QuietWorth ==
  ASSUME Kept, Worth, UNCHANGED <<walletVars, mintVars>>,
         \A r \in Request : req'[r].tx = req[r].tx \/ Sound(req'[r].tx, accepted),
         \A s \in Session : rows'[s].built = rows[s].built \/ Sound(rows'[s].built, accepted),
         \A tx \in shown' : tx \in shown \/ Sound(tx, accepted)
  PROVE  Worth'
<1>1. UNCHANGED <<accepted, mined, mints, page, signedHex, consolidation>>
  BY DEF walletVars, mintVars
<1>2. Extends(accepted, accepted')
  BY <1>1, SameCoins
<1>3. /\ mined' \in Nat /\ PageSound(page', accepted) /\ Sound(consolidation', accepted)
      /\ \A t \in 1..Len(accepted') : t \in 1..Len(accepted) \/ Sound(accepted'[t], accepted)
  BY <1>1 DEF Worth, MintSound
<1> QED BY <1>1, <1>2, <1>3, WorthStep

LEMMA PatchBuilt ==
  ASSUME Kept, NEW s \in Session, NEW patch, UpdateSession(s, patch)
  PROVE  \A x \in Session : \/ rows'[x].built = rows[x].built
                            \/ Sets(patch, "built") /\ rows'[x].built = patch.built
<1>1. /\ \A x \in Session : rows'[x] = rows[x] \/ x = s
      /\ rows'[s] = rows[s] \/ rows'[s] = Patched(rows[s], patch)
  BY PatchStep DEF Kept
<1>2. PICK w : w = rows[s] /\ RowFields(w)
  BY DEF Kept, Shape
<1>3. Patched(w, patch).built = IF Sets(patch, "built") THEN patch.built ELSE w.built
  BY <1>2 DEF RowFields, Patched
<1> QED BY <1>1, <1>2, <1>3

LEMMA FinishTx ==
  ASSUME Kept, NEW r \in Request, Finish(r)
  PROVE  \A x \in Request : req'[x].tx = req[x].tx \/ Sound(req'[x].tx, accepted)
BY FinishStep, NoTxSound DEF Kept

LEMMA JobTx ==
  ASSUME Kept, NEW r \in Request, NEW q, req' = [req EXCEPT ![r] = q],
         q.tx = req[r].tx \/ Sound(q.tx, accepted)
  PROVE  \A x \in Request : req'[x].tx = req[x].tx \/ Sound(req'[x].tx, accepted)
BY DEF Kept, Shape

(* A request that patches its row and ends.                                *)
LEMMA PatchFinishWorth ==
  ASSUME Kept, Worth, UNCHANGED <<walletVars, mintVars>>, NEW r \in Request, Finish(r),
         NEW s \in Session, NEW patch, UpdateSession(s, patch),
         Sets(patch, "built") => Sound(patch.built, accepted),
         \A tx \in shown' : tx \in shown \/ Sound(tx, accepted)
  PROVE  Worth'
<1>1. \A x \in Session : rows'[x].built = rows[x].built \/ Sound(rows'[x].built, accepted)
  BY PatchBuilt
<1> QED BY <1>1, FinishTx, QuietWorth

(* A request that goes on.                                                 *)
LEMMA JobWorth ==
  ASSUME Kept, Worth, UNCHANGED <<walletVars, mintVars, shown>>, UNCHANGED rows,
         NEW r \in Request, NEW q, req' = [req EXCEPT ![r] = q],
         q.tx = req[r].tx \/ Sound(q.tx, accepted)
  PROVE  Worth'
<1>1. UNCHANGED <<walletVars, mintVars>> /\ UNCHANGED shown
  OBVIOUS
<1> QED BY <1>1, JobTx, QuietWorth

(* The publish endpoints, but for the ones that build and send.            *)
LEMMA PatchesWorth ==
  ASSUME Kept, Worth, UNCHANGED mintVars, NEW r \in Request,
         \/ Canonicalize(r) \/ VerifyPersist(r) \/ BuildPersist(r) \/ DiscardBuild(r)
         \/ BroadcastPersist(r)
  PROVE  Worth'
<1> DEFINE q == req[r]
           s == q.s
<1>0. UNCHANGED <<walletVars, mintVars>> /\ s \in Session
  BY DEF Canonicalize, VerifyPersist, BuildPersist, DiscardBuild, BroadcastPersist, Kept, JobOk
<1>1. ASSUME NEW patch, UpdateSession(s, patch), Finish(r),
             Sets(patch, "built") => Sound(patch.built, accepted),
             \A tx \in shown' : tx \in shown \/ Sound(tx, accepted)
      PROVE  Worth'
  BY <1>0, <1>1, PatchFinishWorth
<1>2. CASE Canonicalize(r)
  <2> DEFINE patch == [doc |-> docs + 1]
  <2>1. UpdateSession(s, patch) /\ Finish(r) /\ UNCHANGED shown /\ DOMAIN patch = {"doc"}
    BY <1>2 DEF Canonicalize
  <2> HIDE DEF patch, s
  <2> QED BY <1>1, <2>1 DEF Sets
<1>3. CASE VerifyPersist(r)
  <2> DEFINE patch == [uri |-> q.uri, verified |-> TRUE]
  <2>1. UpdateSession(s, patch) /\ Finish(r) /\ UNCHANGED shown /\ DOMAIN patch = {"uri", "verified"}
    BY <1>3 DEF VerifyPersist, pages
  <2> HIDE DEF patch, s
  <2> QED BY <1>1, <2>1 DEF Sets
<1>4. CASE BuildPersist(r)
  <2>1. PICK patch : /\ patch.built = q.tx /\ UpdateSession(s, patch)
                     /\ shown' = IF Writable(rows[s], patch) THEN shown \cup {q.tx} ELSE shown
    <3>1. CASE q.fresh
      BY <1>4, <3>1 DEF BuildPersist
    <3>2. CASE ~q.fresh
      BY <1>4, <3>2 DEF BuildPersist
    <3> QED BY <3>1, <3>2
  <2>2. Finish(r) /\ Sound(q.tx, accepted)
    BY <1>4 DEF BuildPersist, Worth
  <2> HIDE DEF s
  <2> QED BY <1>1, <2>1, <2>2
<1>5. CASE DiscardBuild(r)
  <2> DEFINE patch == [built |-> NoTx]
  <2>1. UpdateSession(s, patch) /\ Finish(r) /\ UNCHANGED shown /\ patch.built = NoTx
    BY <1>5 DEF DiscardBuild, pages
  <2> HIDE DEF patch, s
  <2> QED BY <1>1, <2>1, NoTxSound
<1>6. CASE BroadcastPersist(r)
  <2> DEFINE patch == Sent(q)
  <2>1. /\ UpdateSession(s, patch) /\ UNCHANGED shown
        /\ req' = [req EXCEPT ![r] = [q EXCEPT !.pc = "nudge"]]
    BY <1>6 DEF BroadcastPersist, pages
  <2>2. ~Sets(patch, "built")
    BY DEF Sets, Sent
  <2>3. PICK new : req' = [req EXCEPT ![r] = new] /\ new = [q EXCEPT !.pc = "nudge"]
    BY <2>1
  <2>4. JobFields(q)
    BY DEF Kept, Shape
  <2>5. new.tx = q.tx
    BY <2>3, <2>4 DEF JobFields
  <2>6. \A x \in Request : req'[x].tx = req[x].tx \/ Sound(req'[x].tx, accepted)
    BY <2>3, <2>5, JobTx
  <2> HIDE DEF patch, s
  <2>7. \A x \in Session : rows'[x].built = rows[x].built
    BY <1>0, <2>1, <2>2, PatchBuilt
  <2>8. \A tx \in shown' : tx \in shown
    BY <2>1
  <2> QED BY <1>0, <2>6, <2>7, <2>8, QuietWorth
<1> QED BY <1>2, <1>3, <1>4, <1>5, <1>6

LEMMA GoesOnWorth ==
  ASSUME Kept, Worth, UNCHANGED mintVars, NEW r \in Request,
         FetchAndHash(r) \/ BuildHead(r) \/ NudgeBcmrIndexer(r) \/ StatementFails(r)
  PROVE  Worth'
<1> DEFINE q == req[r]
<1>1. UNCHANGED <<walletVars, mintVars, shown>> /\ UNCHANGED rows
  BY DEF FetchAndHash, BuildHead, NudgeBcmrIndexer, StatementFails, server, pages
<1>2. PICK idle : idle = Idle /\ Sound(idle.tx, accepted)
  BY NoTxSound
<1>3. JobFields(q)
  BY DEF Kept, Shape
<1>4. PICK new : req' = [req EXCEPT ![r] = new] /\ (new = idle \/ new.tx = q.tx)
  <2>1. CASE FetchAndHash(r)
    <3>1. PICK new : new = [q EXCEPT !.pc = "verified"]
      OBVIOUS
    <3>2. new.tx = q.tx
      BY <1>3, <3>1 DEF JobFields
    <3>3. req' = [req EXCEPT ![r] = new] \/ req' = [req EXCEPT ![r] = idle]
      BY <1>2, <2>1, <3>1 DEF FetchAndHash
    <3> QED BY <3>2, <3>3
  <2>2. CASE BuildHead(r)
    <3>1. PICK head : req' = [req EXCEPT ![r] = [q EXCEPT !.pc = "coins", !.head = head]]
                      \/ req' = [req EXCEPT ![r] = Idle]
      <4>1. PICK owns, head :
              req' = [req EXCEPT ![r] = IF owns THEN [q EXCEPT !.pc = "coins", !.head = head] ELSE Idle]
        BY <2>2 DEF BuildHead
      <4> QED BY <4>1
    <3>2. PICK new : new = [q EXCEPT !.pc = "coins", !.head = head]
      OBVIOUS
    <3>3. new.tx = q.tx
      BY <1>3, <3>2 DEF JobFields
    <3> QED BY <1>2, <3>1, <3>2, <3>3
  <2>3. CASE NudgeBcmrIndexer(r) \/ StatementFails(r)
    BY <1>2, <2>3 DEF NudgeBcmrIndexer, StatementFails, Finish
  <2> QED BY <2>1, <2>2, <2>3
<1> QED BY <1>1, <1>2, <1>4, JobWorth

(* The transaction built of the wallet's coins is sound.                   *)
LEMMA BuildCoinsWorth ==
  ASSUME Kept, Worth, UNCHANGED mintVars, NEW r \in Request, BuildCoins(r)
  PROVE  Worth'
<1> DEFINE q == req[r]
           view(unread) == VerifyUtxoTokenData(FetchWalletUtxos, unread)
           auth(unread) == {u \in view(unread) : u.coin = <<q.head, 0>> /\ ~IsPlain(u.token)}
           built(unread) == IF auth(unread) = {} THEN NoTx
                            ELSE BuildBcmrPublishTx(q.s, CHOOSE u \in auth(unread) : TRUE,
                                   view(unread) \ auth(unread), q.doc, unread = {})
<1>1. PICK unread : req' = [req EXCEPT ![r] = IF built(unread) = NoTx THEN Idle
                                              ELSE [q EXCEPT !.pc = "persist", !.tx = built(unread)]]
  BY Zenon DEF BuildCoins
<1>2. PICK tx : tx = built(unread)
  OBVIOUS
<1>3. UNCHANGED <<walletVars, mintVars, shown>> /\ UNCHANGED rows
  BY DEF BuildCoins, server, pages
<1>4. PICK seen : seen = FetchWalletUtxos
  OBVIOUS
<1>5. /\ IsSequence(accepted) /\ mined \in Nat
      /\ \A t \in 1..Len(accepted) : TypedOuts(accepted[t])
  BY DEF Kept, Shape, Worth, Sound
<1>6. /\ IsFiniteSet(seen) /\ VerifyUtxoTokenData(seen, {}) = seen
      /\ \A u \in seen : u.coin \in Created(accepted) /\ u.token = Output(accepted, u.coin).token
  BY <1>4, <1>5, SeenCoins
<1>7. ASSUME NEW u \in seen
      PROVE  IsAmount(u.token)
  <2>1. PICK t \in 1..Len(accepted), i \in 0..2 : u.coin = <<t, i>> /\ i < Len(accepted[t].outs)
    BY <1>5, <1>6 DEF Created, IsSequence
  <2>2. u.token = accepted[t].outs[i + 1].token
    BY <1>6, <2>1 DEF Output
  <2> QED BY <1>5, <2>1, <2>2 DEF TypedOuts
<1>8. PICK all : all = VerifyUtxoTokenData(seen, unread)
  OBVIOUS
<1>9. IsFiniteSet(all) /\ \A u \in all : IsAmount(u.token)
  <2> PICK f : f = [u \in seen |-> IF u.coin[1] \in unread THEN [u EXCEPT !.token = Plain] ELSE u]
    OBVIOUS
  <2>1. all = {f[u] : u \in seen}
    BY <1>8 DEF VerifyUtxoTokenData
  <2>2. f \in Surjection(seen, all)
    BY <2>1 DEF Surjection
  <2>3. ASSUME NEW u \in seen
        PROVE  IsAmount(f[u].token)
    <3>1. IsAmount(Plain)
      BY DEF IsAmount, Plain
    <3>2. CASE u.coin[1] \in unread
      <4>1. \E c, k, n : u = [coin |-> c, token |-> k, sats |-> n]
        BY <1>4 DEF FetchWalletUtxos, ConfirmedUtxos, MempoolUtxos
      <4>2. f[u].token = Plain
        BY <3>2, <4>1
      <4> QED BY <3>1, <4>2
    <3>3. CASE u.coin[1] \notin unread
      BY <1>7, <3>3
    <3> QED BY <3>2, <3>3
  <2>4. \A u \in all : IsAmount(u.token)
    BY <2>1, <2>3
  <2>5. IsFiniteSet(all)
    BY <1>6, <2>2, FS_Surjection
  <2> QED BY <2>4, <2>5
<1>10. Sound(tx, accepted)
  <2>1. CASE tx = NoTx
    BY <2>1, NoTxSound
  <2>2. CASE tx # NoTx
    <3>1. PICK coins : coins = auth(unread)
      OBVIOUS
    <3>2. coins = {u \in all : u.coin = <<q.head, 0>> /\ ~IsPlain(u.token)}
      BY <1>4, <1>8, <3>1
    <3>3. coins # {} /\ tx = BuildBcmrPublishTx(q.s, CHOOSE u \in coins : TRUE, all \ coins, q.doc, unread = {})
      BY <1>2, <1>4, <1>8, <2>2, <3>1, Zenon
    <3>4. PICK a : a = CHOOSE u \in coins : TRUE
      OBVIOUS
    <3>5. PICK rest, whole : rest = all \ coins /\ whole = (unread = {})
      OBVIOUS
    <3>6. a \in coins /\ a \in all /\ rest \subseteq all \ {a}
      BY <3>2, <3>3, <3>4, <3>5
    <3>7. tx = BuildBcmrPublishTx(q.s, a, rest, q.doc, whole)
      BY <3>3, <3>4, <3>5, Zenon
    <3>8. IsFiniteSet(rest) /\ IsAmount(a.token) /\ \A u \in rest : IsAmount(u.token)
      BY <1>9, <3>6, FS_Subset
    <3>9. TypedOuts(tx)
      BY <2>2, <3>7, <3>8, PublicationTyped
    <3>10. tx.whole = whole
      BY <2>2, <3>7, PublicationWhole
    <3>11. ASSUME tx.whole
           PROVE  Balanced(tx, accepted)
      <4>1. unread = {}
        BY <3>5, <3>10, <3>11
      <4>2. all = FetchWalletUtxos
        BY <1>4, <1>6, <1>8, <4>1
      <4>3. a \in FetchWalletUtxos /\ rest \in SUBSET (FetchWalletUtxos \ {a})
        BY <3>6, <4>2
      <4> QED BY <1>5, <2>2, <3>7, <4>3, PublicationBalanced
    <3> QED BY <3>9, <3>11 DEF Sound
  <2> QED BY <2>1, <2>2
<1> HIDE DEF built
<1>11. JobFields(q)
  BY DEF Kept, Shape
<1>12. PICK new : req' = [req EXCEPT ![r] = new] /\ Sound(new.tx, accepted)
  <2>1. CASE tx = NoTx
    BY <1>1, <1>2, <2>1, NoTxSound, Zenon
  <2>2. CASE tx # NoTx
    <3>1. PICK new : new = [q EXCEPT !.pc = "persist", !.tx = tx]
      OBVIOUS
    <3>2. new.tx = tx
      BY <1>11, <3>1 DEF JobFields
    <3>3. req' = [req EXCEPT ![r] = new]
      BY <1>1, <1>2, <2>2, <3>1, Zenon
    <3> QED BY <1>10, <3>2, <3>3
  <2> QED BY <2>1, <2>2
<1> QED BY <1>3, <1>12, JobWorth

LEMMA ReadTx ==
  ASSUME Kept, NEW r \in Request, NEW s, NEW pc, NEW extra, Read(r, s, pc, extra),
         DOMAIN extra \subseteq {"uri", "tx"}, Sets(extra, "tx") => Sound(extra.tx, accepted)
  PROVE  \A x \in Request : req'[x].tx = req[x].tx \/ Sound(req'[x].tx, accepted)
<1>1. PICK old : old = Idle
  OBVIOUS
<1>2. PICK new : new = [old EXCEPT !.pc = pc, !.s = s, !.doc = rows[s].doc,
                                   !.fresh = rows[s].head = 0]
  OBVIOUS
<1>3. PICK q : q = Patched(new, extra)
  OBVIOUS
<1>4. JobFields(old) /\ Sound(old.tx, accepted)
  BY <1>1, NoTxSound DEF Idle, JobFields
<1>5. JobFields(new) /\ new.tx = old.tx
  BY <1>2, <1>4 DEF JobFields
<1>6. DOMAIN new = {"pc", "s", "uri", "doc", "fresh", "head", "tx"}
  BY <1>5 DEF JobFields
<1>7. q.tx = IF Sets(extra, "tx") THEN extra.tx ELSE new.tx
  BY <1>3, <1>6 DEF Patched
<1>8. Sound(q.tx, accepted)
  BY <1>4, <1>5, <1>7
<1>9. req' = [req EXCEPT ![r] = q]
  BY <1>1, <1>2, <1>3 DEF Read
<1> QED BY <1>8, <1>9, JobTx

LEMMA ArrivesWorth ==
  ASSUME Kept, Worth, UNCHANGED mintVars, NEW r \in Request, NEW s \in Session, Arrives(r, s)
  PROVE  Worth'
<1>0. UNCHANGED <<walletVars, mintVars>> /\ UNCHANGED rows
  BY DEF Arrives, CanonicalizeRead, BuildRead, RunBroadcast, RunVerify, server
<1>1. DOMAIN NoMore = {}
  BY DEF NoMore
<1>2. ASSUME UNCHANGED shown, NEW pc, NEW extra, Read(r, s, pc, extra),
             DOMAIN extra \subseteq {"uri", "tx"}, Sets(extra, "tx") => Sound(extra.tx, accepted)
      PROVE  Worth'
  BY <1>0, <1>2, ReadTx, QuietWorth
<1>3. CASE CanonicalizeRead(r, s)
  <2>1. UNCHANGED shown /\ Read(r, s, "canonical", NoMore)
    BY <1>3 DEF CanonicalizeRead, pages
  <2> QED BY <1>1, <1>2, <2>1 DEF Sets
<1>4. CASE BuildRead(r, s) /\ rows[s].built = NoTx
  <2>1. UNCHANGED shown /\ Read(r, s, "head", NoMore)
    BY <1>4 DEF BuildRead
  <2> QED BY <1>1, <1>2, <2>1 DEF Sets
<1>5. CASE BuildRead(r, s) /\ rows[s].built # NoTx
  <2>1. UNCHANGED req /\ shown' = shown \cup {rows[s].built}
    BY <1>5 DEF BuildRead
  <2>2. Sound(rows[s].built, accepted)
    BY DEF Worth
  <2> QED BY <1>0, <2>1, <2>2, QuietWorth
<1>6. CASE RunBroadcast(r, s)
  <2>1. PICK tx \in shown : Read(r, s, "send", [tx |-> tx])
    BY <1>6 DEF RunBroadcast
  <2> DEFINE extra == [tx |-> tx]
  <2>2. Read(r, s, "send", extra) /\ DOMAIN extra = {"tx"} /\ Sound(extra.tx, accepted) /\ UNCHANGED shown
    BY <1>6, <2>1 DEF Worth, RunBroadcast, pages
  <2> HIDE DEF extra
  <2> QED BY <1>2, <2>2
<1>7. ASSUME NEW uri, RunVerify(r, s, uri)
      PROVE  Worth'
  <2> DEFINE extra == [uri |-> uri]
  <2>1. Read(r, s, "fetch", extra) /\ DOMAIN extra = {"uri"} /\ UNCHANGED shown
    BY <1>7 DEF RunVerify, pages
  <2> HIDE DEF extra
  <2> QED BY <1>2, <2>1 DEF Sets
<1> QED BY <1>3, <1>4, <1>5, <1>6, <1>7 DEF Arrives

(* The node takes a sound transaction.                                     *)
LEMMA AcceptedSound ==
  ASSUME Kept, Worth, NEW tx, Sound(tx, accepted), Accept(tx)
  PROVE  /\ Extends(accepted, accepted') /\ mined' \in Nat
         /\ \A t \in 1..Len(accepted') : t \in 1..Len(accepted) \/ Sound(accepted'[t], accepted)
<1>1. IsSequence(accepted) /\ Len(accepted) \in Nat
  BY DEF Kept, Shape, IsSequence
<1>2. /\ IsSequence(accepted') /\ Len(accepted') = Len(accepted) + 1
      /\ accepted'[Len(accepted) + 1] = tx
      /\ \A t \in 1..Len(accepted) : accepted'[t] = accepted[t]
  BY <1>1, Appended DEF Accept
<1>3. mined' \in Nat
  BY DEF Accept, Worth
<1>4. Extends(accepted, accepted')
  BY <1>1, <1>2 DEF Extends
<1>5. ASSUME NEW t \in 1..Len(accepted'), t \notin 1..Len(accepted)
      PROVE  Sound(accepted'[t], accepted)
  <2>1. t = Len(accepted) + 1
    BY <1>1, <1>2, <1>5
  <2> QED BY <1>2, <2>1
<1> QED BY <1>3, <1>4, <1>5

LEMMA MintKeptSound ==
  ASSUME Worth, UNCHANGED mintVars
  PROVE  /\ PageSound(page', accepted) /\ Sound(consolidation', accepted)
         /\ UNCHANGED <<signedHex, mints>>
BY DEF Worth, MintSound, mintVars

LEMMA SendWorth ==
  ASSUME Kept, Worth, UNCHANGED mintVars, NEW r \in Request, SendRawTransaction(r)
  PROVE  Worth'
<1> DEFINE q == req[r]
<1>1. UNCHANGED <<rows, shown>> /\ Sound(q.tx, accepted)
  BY DEF SendRawTransaction, server, pages, Worth
<1>2. JobFields(q)
  BY DEF Kept, Shape
<1>3. PICK new : req' = [req EXCEPT ![r] = new] /\ new.tx = q.tx
  <2>1. PICK one, two : one = [q EXCEPT !.pc = "sent", !.head = Len(accepted) + 1]
                        /\ two = [q EXCEPT !.pc = "dead"]
    OBVIOUS
  <2>2. one.tx = q.tx /\ two.tx = q.tx
    BY <1>2, <2>1 DEF JobFields
  <2>3. req' = [req EXCEPT ![r] = one] \/ req' = [req EXCEPT ![r] = two]
    BY <2>1 DEF SendRawTransaction
  <2> QED BY <2>2, <2>3
<1>4. \A x \in Request : req'[x].tx = req[x].tx \/ Sound(req'[x].tx, accepted)
  BY <1>3, JobTx
<1>5. Accept(q.tx) \/ UNCHANGED walletVars
  BY DEF SendRawTransaction
<1>6. CASE UNCHANGED walletVars
  BY <1>1, <1>4, <1>6, QuietWorth
<1>7. CASE Accept(q.tx)
  <2>1. PICK tx : tx = q.tx /\ Sound(tx, accepted) /\ Accept(tx)
    BY <1>1, <1>7
  <2>2. /\ Extends(accepted, accepted') /\ mined' \in Nat
        /\ \A t \in 1..Len(accepted') : t \in 1..Len(accepted) \/ Sound(accepted'[t], accepted)
    BY <2>1, AcceptedSound
  <2> QED BY <1>1, <1>4, <2>2, MintKeptSound, WorthStep
<1> QED BY <1>5, <1>6, <1>7

(* Every step of the publish endpoints.                                    *)
LEMMA PublishRequestsWorth ==
  ASSUME Kept, Worth, UNCHANGED mintVars, PublishRequests
  PROVE  Worth'
<1>1. ASSUME NEW r \in Request, Handle(r)
      PROVE  Worth'
  BY <1>1, PatchesWorth, GoesOnWorth, BuildCoinsWorth, SendWorth DEF Handle
<1>2. ASSUME NEW r \in Request, NEW s \in Session, Arrives(r, s)
      PROVE  Worth'
  BY <1>2, ArrivesWorth
<1>3. CASE Restart
  <2>1. UNCHANGED <<walletVars, mintVars, rows, shown>> /\ req' = [r \in Request |-> Idle]
    BY <1>3 DEF Restart, pages
  <2>2. \A r \in Request : Sound(req'[r].tx, accepted)
    BY <2>1, NoTxSound
  <2>3. UNCHANGED <<walletVars, mintVars>> /\ UNCHANGED rows /\ UNCHANGED shown
    BY <2>1
  <2> QED BY <2>2, <2>3, QuietWorth
<1>4. CASE CooldownEnds
  <2>1. UNCHANGED <<walletVars, mintVars>> /\ UNCHANGED <<rows, shown, req>>
    BY <1>4 DEF CooldownEnds, pages
  <2> QED BY <2>1, QuietWorth
<1> QED BY <1>1, <1>2, <1>3, <1>4 DEF PublishRequests

LEMMA CreateBuilt ==
  ASSUME Kept, NEW s \in Session, NEW cat, CreateSession(s, cat)
  PROVE  \A x \in Session : rows'[x].built = rows[x].built \/ rows'[x].built = NoTx
<1>1. PICK old : old = NoRow
  OBVIOUS
<1>2. old.built = NoTx /\ RowFields(old)
  BY <1>1 DEF NoRow, RowFields
<1>3. PICK new : new = [old EXCEPT !.state = "drafting", !.cat = cat]
  OBVIOUS
<1>4. new.built = NoTx
  BY <1>2, <1>3 DEF RowFields
<1>5. rows' = [rows EXCEPT ![s] = new]
  BY <1>1, <1>3 DEF CreateSession
<1> QED BY <1>4, <1>5 DEF Kept, Shape

(* The pages of the publish wizard build nothing.                          *)
LEMMA PublishPagesWorth ==
  ASSUME Kept, Worth, UNCHANGED mintVars, PublishPages
  PROVE  Worth'
<1>1. UNCHANGED <<walletVars, mintVars>> /\ UNCHANGED <<req, shown>>
  BY DEF PublishPages, SaveIdentity, AbandonDraft, PinCanonicalJson, WalkerVisits, StartWizard,
     HostChanges, pages
<1>2. ASSUME NEW s \in Session, NEW patch, UpdateSession(s, patch), ~Sets(patch, "built")
      PROVE  Worth'
  <2>1. \A x \in Session : rows'[x].built = rows[x].built
    BY <1>2, PatchBuilt
  <2> QED BY <1>1, <2>1, QuietWorth
<1>3. ASSUME NEW s \in Session, SaveIdentity(s)
      PROVE  Worth'
  <2> DEFINE patch == [named |-> TRUE]
  <2>1. UpdateSession(s, patch) /\ DOMAIN patch = {"named"}
    BY <1>3 DEF SaveIdentity
  <2> HIDE DEF patch
  <2> QED BY <1>2, <2>1 DEF Sets
<1>4. ASSUME NEW s \in Session, AbandonDraft(s)
      PROVE  Worth'
  <2> DEFINE patch == [state |-> "abandoned"]
  <2>1. UpdateSession(s, patch) /\ DOMAIN patch = {"state"}
    BY <1>4 DEF AbandonDraft
  <2> HIDE DEF patch
  <2> QED BY <1>2, <2>1 DEF Sets
<1>5. ASSUME NEW s \in Session, PinCanonicalJson(s)
      PROVE  Worth'
  <2>1. PICK d : UpdateSession(s, [uri |-> d])
    BY <1>5 DEF PinCanonicalJson
  <2> DEFINE patch == [uri |-> d]
  <2>2. UpdateSession(s, patch) /\ DOMAIN patch = {"uri"}
    BY <2>1
  <2> HIDE DEF patch
  <2> QED BY <1>2, <2>2 DEF Sets
<1>6. ASSUME NEW s \in Session, NEW cat, StartWizard(s, cat)
      PROVE  Worth'
  <2>1. CreateSession(s, cat)
    BY <1>6 DEF StartWizard
  <2>2. \A x \in Session : rows'[x].built = rows[x].built \/ Sound(rows'[x].built, accepted)
    BY <2>1, CreateBuilt, NoTxSound
  <2> QED BY <1>1, <2>2, QuietWorth
<1>7. ASSUME UNCHANGED rows
      PROVE  Worth'
  BY <1>1, <1>7, QuietWorth
<1>8. ASSUME NEW cat, WalkerVisits(cat)
      PROVE  UNCHANGED rows
  BY <1>8 DEF WalkerVisits
<1>9. HostChanges => UNCHANGED rows
  BY DEF HostChanges, server
<1> QED BY <1>3, <1>4, <1>5, <1>6, <1>7, <1>8, <1>9 DEF PublishPages

----------------------------------------------------------------------------
(* The mint page.                                                          *)

LEMMA MintedOutputs ==
  ASSUME NEW a, NEW c, NEW outs, outs = Append(<<a>>, c)
  PROVE  Len(outs) = 2 /\ outs[2] = c /\ outs[1] = a
<1> PICK one : one = <<a>>
  OBVIOUS
<1>1. Len(one) = 1 /\ one[1] = a /\ IsSequence(one)
  BY DEF IsSequence
<1>2. Len(outs) = 1 + 1 /\ outs[1 + 1] = c /\ \A t \in 1..1 : outs[t] = one[t]
  BY <1>1, Appended
<1> QED BY <1>1, <1>2

LEMMA GenesisSound ==
  ASSUME NEW s, NEW out, NEW sats, NEW token, IsAmount(token), NEW tx,
         tx = BuildGenesisTx(s, out, sats, token), NEW acc
  PROVE  Sound(tx, acc)
<1>1. CASE tx = NoTx
  BY <1>1, NoTxSound
<1>2. CASE tx # NoTx
  <2>1. PICK minted, kept : minted = [token |-> [token EXCEPT !.cat = out], sats |-> MinAuth]
                            /\ kept = [token |-> Plain, sats |-> sats - MinAuth - Fee]
    OBVIOUS
  <2>2. PICK outs : /\ outs = <<minted>> \/ outs = Append(<<minted>>, kept)
                    /\ tx = [what |-> "genesis", s |-> s, ins |-> {<<out, 0>>}, outs |-> outs,
                             doc |-> 0, whole |-> TRUE]
    <3>1. tx = [what |-> "genesis", s |-> s, ins |-> {<<out, 0>>},
                outs |-> IF sats - MinAuth - Fee >= Dust THEN Append(<<minted>>, kept) ELSE <<minted>>,
                doc |-> 0, whole |-> TRUE]
      BY <1>2, <2>1, Zenon DEF BuildGenesisTx
    <3> QED BY <3>1
  <2>3. IsAmount([token EXCEPT !.cat = out]) /\ IsAmount(Plain)
    BY DEF IsAmount, Plain
  <2>4. IsAmount(minted.token) /\ IsAmount(kept.token)
    BY <2>1, <2>3
  <2>5. PICK one : one = <<minted>>
    OBVIOUS
  <2>6. Len(one) = 1 /\ one[1] = minted /\ IsSequence(one)
    BY <2>5 DEF IsSequence
  <2>7. \A i \in 0..2 : i < Len(outs) => IsAmount(outs[i + 1].token)
    <3>1. CASE outs = Append(one, kept)
      <4>1. Len(outs) = 2 /\ outs[2] = kept /\ outs[1] = minted
        BY <2>5, <3>1, MintedOutputs
      <4>2. \A i \in 0..2 : i < 2 => i = 0 \/ i = 1
        OBVIOUS
      <4> QED BY <2>4, <4>1, <4>2
    <3>2. CASE outs = one
      <4>1. Len(outs) = 1 /\ outs[1] = minted
        BY <2>6, <3>2
      <4>2. \A i \in 0..2 : i < 1 => i = 0
        OBVIOUS
      <4> QED BY <2>4, <4>1, <4>2
    <3> QED BY <2>2, <2>5, <3>1, <3>2
  <2>8. tx.outs = outs /\ tx.what = "genesis"
    BY <2>2
  <2> QED BY <2>7, <2>8 DEF Sound, TypedOuts
<1> QED BY <1>1, <1>2

LEMMA ConsolidationSound ==
  ASSUME NEW utxos, NEW acc
  PROVE  Sound(BuildConsolidationTx(utxos), acc)
<1>1. PICK old, tx : old = NoTx /\ tx = BuildConsolidationTx(utxos)
  OBVIOUS
<1>2. CASE tx = NoTx
  BY <1>1, <1>2, NoTxSound
<1>3. CASE tx # NoTx
  <2>1. PICK ins, sats : tx = [old EXCEPT !.what = "consolidate", !.ins = ins,
                                          !.outs = <<[token |-> Plain, sats |-> sats]>>]
    BY <1>1, <1>3, Zenon DEF BuildConsolidationTx
  <2>2. PICK one, outs : one = [token |-> Plain, sats |-> sats] /\ outs = <<one>>
    OBVIOUS
  <2>3. Len(outs) = 1 /\ outs[1].token = Plain
    BY <2>2
  <2>4. tx.what = "consolidate" /\ tx.outs = outs
    BY <1>1, <2>1, <2>2 DEF NoTx
  <2>5. IsAmount(Plain)
    BY DEF IsAmount, Plain
  <2>6. \A i \in 0..2 : i < 1 => i = 0
    OBVIOUS
  <2>7. ASSUME NEW i \in 0..2, i < Len(tx.outs)
        PROVE  IsAmount(tx.outs[i + 1].token)
    <3>1. Len(tx.outs) = 1
      BY <2>3, <2>4
    <3>2. i = 0
      BY <2>6, <2>7, <3>1
    <3>3. i + 1 = 1
      BY <3>2
    <3>4. tx.outs[i + 1].token = Plain
      BY <2>3, <2>4, <3>3
    <3> QED BY <2>5, <3>4
  <2>8. Sound(tx, acc)
    BY <2>4, <2>7 DEF Sound, TypedOuts
  <2> QED BY <1>1, <2>8
<1> QED BY <1>1, <1>2, <1>3

LEMMA RebuildSound ==
  ASSUME NEW p, NEW acc, PageFields(p), PageSound(p, acc)
  PROVE  PageSound(RebuildGenesis(p), acc)
<1>1. CASE p.step # 4
  BY <1>1 DEF RebuildGenesis
<1>2. CASE p.step = 4
  <2>1. PICK tx : /\ RebuildGenesis(p) = [p EXCEPT !.build = tx]
                  /\ tx = NoTx \/ tx = BuildGenesisTx(p.sid, p.out, p.sats, p.kind)
    BY <1>2, Zenon DEF RebuildGenesis
  <2>2. Sound(tx, acc)
    BY <2>1, GenesisSound, NoTxSound DEF PageSound
  <2>3. PICK q : q = [p EXCEPT !.build = tx]
    OBVIOUS
  <2>4. PageSound(q, acc)
    BY <2>2, <2>3 DEF PageSound, PageFields
  <2> QED BY <2>1, <2>3, <2>4
<1> QED BY <1>1, <1>2

LEMMA NewPageSound == ASSUME NEW acc PROVE PageSound(NewPage, acc)
<1>1. NewPage.build = NoTx /\ NewPage.signed = NoTx /\ NewPage.kind = Plain
  BY DEF NewPage
<1>2. IsAmount(Plain)
  BY DEF IsAmount, Plain
<1> QED BY <1>1, <1>2, NoTxSound DEF PageSound

(* A step of the mint page that sends nothing.                             *)
LEMMA TurnWorth ==
  ASSUME Kept, Worth, UNCHANGED <<walletVars, req, shown>>,
         \A s \in Session : rows'[s].built = rows[s].built \/ rows'[s].built = NoTx,
         consolidation' = consolidation \/ Sound(consolidation', accepted),
         PageSound(page', accepted), \A tx \in signedHex' : tx \in signedHex \/ Sound(tx, accepted),
         \A i \in MintSession : mints'[i].kind = mints[i].kind \/ IsAmount(mints'[i].kind)
  PROVE  Worth'
<1>1. UNCHANGED <<accepted, mined>>
  BY DEF walletVars
<1>2. Extends(accepted, accepted')
  BY <1>1, SameCoins
<1>3. mined' \in Nat /\ Sound(consolidation', accepted)
      /\ \A t \in 1..Len(accepted') : t \in 1..Len(accepted)
  BY <1>1 DEF Worth, MintSound
<1>4. \A s \in Session : rows'[s].built = rows[s].built \/ Sound(rows'[s].built, accepted)
  BY NoTxSound
<1> QED BY <1>1, <1>2, <1>3, <1>4, WorthStep

LEMMA PageFieldsNow == ASSUME Kept PROVE PageFields(page)
BY DEF Kept, MintOk, PageOk

LEMMA PatchKind ==
  ASSUME Kept, NEW i \in MintSession, NEW patch, PatchMint(i, patch), ~Sets(patch, "kind")
  PROVE  \A x \in MintSession : mints'[x].kind = mints[x].kind
<1>1. PICK w : w = mints[i] /\ MintFields(w)
  BY DEF Kept, MintOk
<1>2. Patched(w, patch).kind = w.kind
  BY <1>1 DEF Patched, MintFields
<1>3. PICK v : v = Patched(w, patch) /\ v.kind = w.kind
  BY <1>2
<1>4. mints' = mints \/ mints' = [mints EXCEPT ![i] = v]
  BY <1>1, <1>3 DEF PatchMint
<1> QED BY <1>1, <1>3, <1>4 DEF Kept, Shape

(* Steps that change other fields of the page than its transactions.       *)
LEMMA SameBuildsWorth ==
  ASSUME Kept, Worth,
         \/ PostGenesis \/ NameCategory \/ RecordGenesis \/ OpenPublishSession \/ Receipt
  PROVE  Worth'
<1>1. UNCHANGED <<walletVars, req, shown>> /\ UNCHANGED <<consolidation, signedHex>>
  BY DEF PostGenesis, NameCategory, RecordGenesis, OpenPublishSession, Receipt, publishVars, pages
<1>2. /\ page'.build = page.build /\ page'.signed = page.signed /\ page'.kind = page.kind
  BY PageFieldsNow DEF PostGenesis, NameCategory, RecordGenesis, OpenPublishSession, Receipt, PageFields
<1>3. PageSound(page', accepted)
  BY <1>2 DEF Worth, MintSound, PageSound
<1>4. \A s \in Session : rows'[s].built = rows[s].built \/ rows'[s].built = NoTx
  <2>1. CASE OpenPublishSession
    <3>1. ASSUME NEW s \in Session, CreateSession(s, page.cat)
          PROVE  \A x \in Session : rows'[x].built = rows[x].built \/ rows'[x].built = NoTx
      <4>1. PICK cat : cat = page.cat /\ CreateSession(s, cat)
        BY <3>1
      <4> QED BY <4>1, CreateBuilt
    <3> QED BY <2>1, <3>1 DEF OpenPublishSession
  <2>2. CASE PostGenesis \/ NameCategory \/ RecordGenesis \/ Receipt
    BY <2>2 DEF PostGenesis, NameCategory, RecordGenesis, Receipt, publishVars, server
  <2> QED BY <2>1, <2>2
<1>5. \A i \in MintSession : mints'[i].kind = mints[i].kind
  <2>1. ASSUME NEW i \in MintSession, NEW patch, PatchMint(i, patch), ~Sets(patch, "kind")
        PROVE  \A x \in MintSession : mints'[x].kind = mints[x].kind
    BY <2>1, PatchKind
  <2>2. CASE RecordGenesis
    <3>1. CASE page.sid # 0 /\ PatchMint(page.sid, Recorded)
      <4>1. page.sid \in MintSession
        BY <3>1 DEF Kept, MintOk, PageOk
      <4>2. ~Sets(Recorded, "kind")
        BY DEF Recorded, Sets
      <4> QED BY <2>1, <3>1, <4>1, <4>2
    <3>2. CASE UNCHANGED mints
      BY <3>2
    <3> QED BY <2>2, <3>1, <3>2 DEF RecordGenesis
  <2>3. CASE PostGenesis \/ NameCategory \/ OpenPublishSession \/ Receipt
    BY <2>3 DEF PostGenesis, NameCategory, OpenPublishSession, Receipt
  <2> QED BY <2>2, <2>3
<1> QED BY <1>1, <1>3, <1>4, <1>5, TurnWorth

(* Steps that show the page again.                                         *)
LEMMA ShowsWorth ==
  ASSUME Kept, Worth, \/ Resume \/ PickType \/ Back \/ FetchFundingUtxos \/ SelectOutpoint
  PROVE  Worth'
<1>1. UNCHANGED <<walletVars, req, shown>> /\ UNCHANGED <<consolidation, signedHex, rows, mints>>
  BY DEF Resume, PickType, Back, FetchFundingUtxos, SelectOutpoint, publishVars
<1>2. PageFields(page) /\ PageSound(page, accepted)
  BY PageFieldsNow DEF Worth, MintSound
<1>3. ASSUME NEW p, PageFields(p), Show(p), p.build = page.build, p.signed = page.signed,
             p.kind = page.kind
      PROVE  PageSound(page', accepted)
  BY <1>2, <1>3, RebuildSound DEF Show, PageSound
<1>4. CASE Resume
  <2>1. PICK i, out, sats : i \in MintSession /\
          page' = [NewPage EXCEPT !.sid = i, !.kind = mints[i].kind, !.out = out, !.sats = sats]
    <3>1. PICK i \in MintSession, linked \in BOOLEAN :
            page' = [NewPage EXCEPT !.sid = i, !.kind = mints[i].kind,
                       !.out = IF linked THEN 0 ELSE mints[i].out,
                       !.sats = IF mints[i].out = 0 THEN MinAuth
                                ELSE Output(accepted, <<mints[i].out, 0>>).sats]
      BY <1>4, Zenon DEF Resume
    <3> QED BY <3>1, Zenon
  <2>2. PICK p, kind, q : /\ p = NewPage /\ kind = mints[i].kind
                          /\ q = [p EXCEPT !.sid = i, !.kind = kind, !.out = out, !.sats = sats]
    OBVIOUS
  <2>3. PageFields(p) /\ PageSound(p, accepted)
    BY <2>2, NewPageSound, NewPageOk DEF PageOk
  <2>4. q.build = p.build /\ q.signed = p.signed /\ q.kind = kind
    BY <2>2, <2>3 DEF PageFields
  <2>5. IsAmount(kind)
    BY <2>1, <2>2 DEF Worth, MintSound
  <2>6. page' = q
    BY <2>1, <2>2
  <2>7. PageSound(page', accepted)
    BY <2>3, <2>4, <2>5, <2>6 DEF PageSound
  <2> QED BY <1>1, <2>7, TurnWorth
<1>5. CASE PickType
  <2>1. PICK k \in Kinds : page' = [page EXCEPT !.kind = k]
    BY <1>5 DEF PickType
  <2>2. IsAmount(k)
    BY KindsAssumption DEF Tokens, IsAmount
  <2>3. PageSound(page', accepted)
    BY <1>2, <2>1, <2>2 DEF PageSound, PageFields
  <2> QED BY <1>1, <2>3, TurnWorth
<1>6. CASE Back
  <2>1. PICK p : p = [page EXCEPT !.step = @ - 1] /\ Show(p)
    BY <1>6 DEF Back
  <2>2. PageFields(p) /\ p.build = page.build /\ p.signed = page.signed /\ p.kind = page.kind
    BY <1>2, <2>1 DEF PageFields
  <2> QED BY <1>1, <1>3, <2>1, <2>2, TurnWorth
<1>7. CASE SelectOutpoint
  <2>1. PICK p, out, sats : p = [page EXCEPT !.out = out, !.sats = sats] /\ Show(p)
    <3>1. PICK u : Show([page EXCEPT !.out = u.coin[1], !.sats = u.sats])
      BY <1>7 DEF SelectOutpoint
    <3> QED BY <3>1
  <2>2. PageFields(p) /\ p.build = page.build /\ p.signed = page.signed /\ p.kind = page.kind
    BY <1>2, <2>1 DEF PageFields
  <2> QED BY <1>1, <1>3, <2>1, <2>2, TurnWorth
<1>8. CASE FetchFundingUtxos
  <2>1. PICK q, p, funds, plains, out, sats :
          /\ q = [page EXCEPT !.funds = funds, !.plains = plains]
          /\ p = q \/ p = [q EXCEPT !.out = out, !.sats = sats]
          /\ Show(p)
    BY <1>8, Zenon DEF FetchFundingUtxos
  <2>2. PageFields(q) /\ q.build = page.build /\ q.signed = page.signed /\ q.kind = page.kind
    BY <1>2, <2>1 DEF PageFields
  <2>3. PageFields(p) /\ p.build = page.build /\ p.signed = page.signed /\ p.kind = page.kind
    BY <2>1, <2>2 DEF PageFields
  <2> QED BY <1>1, <1>3, <2>1, <2>3, TurnWorth
<1> QED BY <1>4, <1>5, <1>6, <1>7, <1>8

LEMMA ForwardWorth ==
  ASSUME Kept, Worth, Forward
  PROVE  Worth'
<1> DEFINE i == EnsureSession
<1>1. i \in MintSession
  BY DEF Forward, EnsureSession, Kept, MintOk, PageOk
<1>2. UNCHANGED <<walletVars, req, shown>> /\ UNCHANGED <<rows, consolidation, signedHex>>
  BY DEF Forward, server, pages
<1>3. PICK saved \in BOOLEAN : SaveSession(i, saved)
  BY DEF Forward
<1>4. PICK p : p = [page EXCEPT !.sid = i, !.step = @ + 1] /\ Show(p)
  BY DEF Forward
<1> HIDE DEF i
<1>5. PageFields(page) /\ PageSound(page, accepted)
  BY PageFieldsNow DEF Worth, MintSound
<1>6. PageFields(p) /\ p.build = page.build /\ p.signed = page.signed /\ p.kind = page.kind
  BY <1>4, <1>5 DEF PageFields
<1>7. PageSound(page', accepted)
  BY <1>4, <1>5, <1>6, RebuildSound DEF Show, PageSound
<1>8. PICK old : old = NoMint
  OBVIOUS
<1>9. PICK row : row = IF mints[i].state = "absent" THEN [old EXCEPT !.state = "drafting"] ELSE mints[i]
  OBVIOUS
<1>10. MintFields(row) /\ IsAmount(row.kind)
  <2>1. MintFields(old) /\ MintFields(mints[i]) /\ old.kind = Plain
    BY <1>1, <1>8 DEF NoMint, MintFields, Kept, MintOk
  <2>2. IsAmount(Plain) /\ IsAmount(mints[i].kind)
    BY <1>1 DEF IsAmount, Plain, Worth, MintSound
  <2> QED BY <1>9, <2>1, <2>2 DEF MintFields
<1>11. PICK new : new = IF saved THEN [row EXCEPT !.kind = page.kind, !.out = page.out] ELSE row
  OBVIOUS
<1>12. IsAmount(new.kind)
  <2>1. new.kind = page.kind \/ new.kind = row.kind
    BY <1>10, <1>11 DEF MintFields
  <2> QED BY <1>5, <1>10, <2>1 DEF PageSound
<1>13. mints' = [mints EXCEPT ![i] = new]
  BY <1>3, <1>8, <1>9, <1>11 DEF SaveSession
<1>14. \A x \in MintSession : mints'[x].kind = mints[x].kind \/ IsAmount(mints'[x].kind)
  BY <1>1, <1>12, <1>13 DEF Kept, Shape
<1> QED BY <1>2, <1>7, <1>14, TurnWorth

LEMMA SignsWorth ==
  ASSUME Kept, Worth, SignGenesis \/ PasteSigned
  PROVE  Worth'
<1>1. UNCHANGED <<walletVars, req, shown>> /\ UNCHANGED <<consolidation, rows, mints>>
  BY DEF SignGenesis, PasteSigned, publishVars
<1>2. PageFields(page) /\ PageSound(page, accepted)
  BY PageFieldsNow DEF Worth, MintSound
<1>3. PICK tx : /\ page' = [page EXCEPT !.signed = tx] /\ (tx = page.build \/ tx \in signedHex)
                /\ \A t \in signedHex' : t \in signedHex \/ t = page.build
  BY DEF SignGenesis, PasteSigned
<1>4. Sound(tx, accepted) /\ \A t \in signedHex' : t \in signedHex \/ Sound(t, accepted)
  BY <1>2, <1>3 DEF Worth, MintSound, PageSound
<1>5. PageSound(page', accepted)
  BY <1>2, <1>3, <1>4 DEF PageSound, PageFields
<1> QED BY <1>1, <1>4, <1>5, TurnWorth

LEMMA EndsWorth ==
  ASSUME Kept, Worth, DiscardDraft \/ CloseTab
  PROVE  Worth'
<1>1. UNCHANGED <<walletVars, req, shown>> /\ UNCHANGED rows
  BY DEF DiscardDraft, CloseTab, publishVars, server, pages
<1>2. page' = page \/ page' = NewPage
  BY DEF DiscardDraft, CloseTab
<1>3. PageSound(page', accepted)
  <2>1. CASE page' = page
    BY <2>1 DEF Worth, MintSound
  <2>2. CASE page' = NewPage
    BY <2>2, NewPageSound
  <2> QED BY <1>2, <2>1, <2>2
<1>4. \A tx \in signedHex' : tx \in signedHex
  BY DEF DiscardDraft, CloseTab
<1>5. consolidation' = consolidation \/ Sound(consolidation', accepted)
  BY NoTxSound DEF DiscardDraft, CloseTab
<1>6. \A i \in MintSession : mints'[i].kind = mints[i].kind
  <2>1. CASE UNCHANGED mints
    BY <2>1
  <2>2. CASE page.sid # 0 /\ PatchMint(page.sid, [state |-> "abandoned"])
    <3> DEFINE patch == [state |-> "abandoned"]
    <3>1. DOMAIN patch = {"state"} /\ PatchMint(page.sid, patch) /\ page.sid \in MintSession
      BY <2>2 DEF Kept, MintOk, PageOk
    <3> HIDE DEF patch
    <3> QED BY <3>1, PatchKind DEF Sets
  <2> QED BY <2>1, <2>2 DEF DiscardDraft, CloseTab
<1> QED BY <1>1, <1>3, <1>4, <1>5, <1>6, TurnWorth

(* A step that sends a sound transaction, or none.                         *)
LEMMA SendsWorth ==
  ASSUME Kept, Worth, UNCHANGED <<rows, req, shown, mints, signedHex>>,
         NEW tx, Sound(tx, accepted), Accept(tx) \/ UNCHANGED walletVars,
         PageSound(page', accepted), Sound(consolidation', accepted)
  PROVE  Worth'
<1>1. CASE Accept(tx)
  BY <1>1, AcceptedSound, WorthStep
<1>2. CASE UNCHANGED walletVars
  BY <1>2, TurnWorth
<1> QED BY <1>1, <1>2

LEMMA SendGenesisWorth ==
  ASSUME Kept, Worth, SendGenesis
  PROVE  Worth'
<1>1. UNCHANGED <<rows, req, shown, mints, signedHex>> /\ UNCHANGED consolidation
      /\ (Accept(page.signed) \/ UNCHANGED walletVars)
  BY DEF SendGenesis, server, pages, walletVars
<1>2. PageFields(page) /\ PageSound(page, accepted)
  BY PageFieldsNow DEF Worth, MintSound
<1>3. /\ page'.build = page.build /\ page'.signed = page.signed /\ page'.kind = page.kind
  BY <1>2 DEF SendGenesis, PageFields
<1>4. PageSound(page', accepted) /\ Sound(page.signed, accepted) /\ Sound(consolidation', accepted)
  BY <1>1, <1>2, <1>3 DEF PageSound, Worth, MintSound
<1>5. PICK tx : tx = page.signed
  OBVIOUS
<1> QED BY <1>1, <1>4, <1>5, SendsWorth

LEMMA MintPageWorth ==
  ASSUME Kept, Worth, MintPage
  PROVE  Worth'
BY SameBuildsWorth, ShowsWorth, ForwardWorth, SignsWorth, EndsWorth, SendGenesisWorth DEF MintPage

LEMMA ConsolidationsWorth ==
  ASSUME Kept, Worth, Consolidations
  PROVE  Worth'
<1>1. PageSound(page, accepted) /\ Sound(consolidation, accepted)
  BY DEF Worth, MintSound
<1>2. CASE SendConsolidation
  <2>1. /\ UNCHANGED <<rows, req, shown, mints, signedHex>> /\ UNCHANGED page
        /\ Accept(consolidation) \/ UNCHANGED walletVars
        /\ consolidation' = NoTx
    BY <1>2 DEF SendConsolidation, publishVars
  <2>2. PICK tx : tx = consolidation
    OBVIOUS
  <2> QED BY <1>1, <2>1, <2>2, NoTxSound, SendsWorth
<1>3. ASSUME UNCHANGED <<walletVars, publishVars, mints, page, signedHex>>,
             Sound(consolidation', accepted)
      PROVE  Worth'
  <2>1. UNCHANGED <<walletVars, req, shown>> /\ UNCHANGED <<rows, mints, page, signedHex>>
    BY <1>3 DEF publishVars
  <2> QED BY <1>1, <1>3, <2>1, TurnWorth
<1>4. CASE PrepareFunding
  <2>1. PICK utxos : utxos = page.plains
    OBVIOUS
  <2>2. consolidation' = BuildConsolidationTx(utxos)
    BY <1>4, <2>1 DEF PrepareFunding
  <2>3. Sound(consolidation', accepted)
    BY <2>2, ConsolidationSound
  <2> QED BY <1>3, <1>4, <2>3 DEF PrepareFunding
<1>5. ASSUME NEW s \in Session, PrepareFundingConsolidation(s)
      PROVE  Worth'
  <2>1. PICK utxos : utxos = PlainUtxos(FetchWalletUtxos)
    OBVIOUS
  <2>2. consolidation' = BuildConsolidationTx(utxos)
    BY <1>5, <2>1 DEF PrepareFundingConsolidation
  <2>3. Sound(consolidation', accepted)
    BY <2>2, ConsolidationSound
  <2> QED BY <1>3, <1>5, <2>3 DEF PrepareFundingConsolidation
<1>6. CASE MintCooldownEnds
  <2>1. UNCHANGED <<walletVars, publishVars, mints, page, signedHex>> /\ UNCHANGED consolidation
    BY <1>6 DEF MintCooldownEnds
  <2> QED BY <1>1, <1>3, <2>1
<1> QED BY <1>2, <1>4, <1>5, <1>6 DEF Consolidations

----------------------------------------------------------------------------
(* The chain, and every step.                                              *)

LEMMA FundSound ==
  ASSUME NEW k \in DOMAIN Fund, NEW coins \in Fund[k], NEW tx,
         tx = [NoTx EXCEPT !.what = "fund", !.outs = coins], NEW acc
  PROVE  Sound(tx, acc)
<1>1. tx.what = "fund" /\ tx.outs = coins
  BY DEF NoTx
<1>2. coins \in Seq([token : Tokens, sats : Nat])
  BY FundAssumption
<1>3. ASSUME NEW i \in 0..2, i < Len(coins)
      PROVE  IsAmount(coins[i + 1].token)
  <2>1. i + 1 \in 1..Len(coins)
    BY <1>2, <1>3
  <2>2. coins[i + 1] \in [token : Tokens, sats : Nat]
    <3>1. PICK S : S = [token : Tokens, sats : Nat]
      OBVIOUS
    <3>2. coins \in Seq(S)
      BY <1>2, <3>1
    <3>3. coins[i + 1] \in S
      BY <2>1, <3>2, ElementOfSeq
    <3> QED BY <3>1, <3>3
  <2>3. coins[i + 1].token \in Tokens
    BY <2>2
  <2> QED BY <2>3 DEF Tokens, IsAmount
<1> QED BY <1>1, <1>3 DEF Sound, TypedOuts

LEMMA ChainWorth ==
  ASSUME Kept, Worth, Chain
  PROVE  Worth'
<1>1. UNCHANGED <<rows, req, shown, mints, signedHex>> /\ UNCHANGED <<page, consolidation>>
  BY DEF Chain, publishVars, mintVars
<1>2. PageSound(page', accepted) /\ Sound(consolidation', accepted)
  BY <1>1 DEF Worth, MintSound
<1>3. CASE Mine
  <2>1. UNCHANGED accepted /\ mined' \in Nat
    BY <1>3 DEF Mine, Kept, Shape, IsSequence
  <2>2. Extends(accepted, accepted')
    BY <2>1, SameCoins
  <2> QED BY <1>1, <1>2, <2>1, <2>2, WorthStep
<1>4. ASSUME NEW k \in DOMAIN Fund, Arrive(k)
      PROVE  Worth'
  <2>1. PICK coins \in Fund[k] : Accept([NoTx EXCEPT !.what = "fund", !.outs = coins])
    BY <1>4 DEF Arrive
  <2>2. PICK tx : tx = [NoTx EXCEPT !.what = "fund", !.outs = coins]
    OBVIOUS
  <2>3. Sound(tx, accepted) /\ Accept(tx)
    BY <2>1, <2>2, FundSound
  <2> QED BY <1>1, <1>2, <2>3, SendsWorth
<1> QED BY <1>3, <1>4 DEF Chain

LEMMA WorthNext == Kept /\ Worth /\ [Next]_vars => Worth'
<1> SUFFICES ASSUME Kept, Worth, [Next]_vars
             PROVE  Worth'
  OBVIOUS
<1>1. CASE UNCHANGED vars
  <2>1. UNCHANGED <<walletVars, req, shown>> /\ UNCHANGED <<rows, mints, page, signedHex, consolidation>>
    BY <1>1 DEF vars, publishVars, mintVars
  <2>2. PageSound(page', accepted)
    BY <2>1 DEF Worth, MintSound
  <2> QED BY <2>1, <2>2, TurnWorth
<1> QED BY <1>1, ChainWorth, PublishPagesWorth, PublishRequestsWorth, MintPageWorth, ConsolidationsWorth
   DEF Next

LEMMA WorthInit == Init => Worth
<1> SUFFICES ASSUME Init
             PROVE  Worth
  OBVIOUS
<1>1. mined \in Nat /\ \A t \in 1..Len(accepted) : Sound(accepted[t], accepted)
  <2>1. CASE accepted = <<>> /\ mined = 0
    BY <2>1
  <2>2. ASSUME NEW start \in Starts, mined = 2,
               accepted = <<MintCoin, BuildGenesisTx(0, 1, MinAuth + Fee, start)>>
        PROVE  mined \in Nat /\ \A t \in 1..Len(accepted) : Sound(accepted[t], accepted)
    <3>1. PICK one, two : one = MintCoin /\ two = BuildGenesisTx(0, 1, MinAuth + Fee, start)
      OBVIOUS
    <3>2. IsAmount(start)
      BY StartsAssumption DEF Tokens, IsAmount
    <3>3. Sound(two, accepted)
      BY <3>1, <3>2, GenesisSound
    <3>4. Sound(one, accepted)
      <4>1. PICK outs : outs = <<[token |-> Plain, sats |-> MinAuth + Fee]>>
        OBVIOUS
      <4>2. Len(outs) = 1 /\ outs[1].token = Plain
        BY <4>1
      <4>3. one.what = "mint-coin" /\ one.outs = outs
        BY <3>1, <4>1 DEF MintCoin, NoTx
      <4>4. IsAmount(Plain)
        BY DEF IsAmount, Plain
      <4>5. ASSUME NEW i \in 0..2, i < Len(outs)
            PROVE  IsAmount(outs[i + 1].token)
        <5>1. i = 0
          BY <4>2, <4>5
        <5>2. i + 1 = 1
          BY <5>1
        <5> QED BY <4>2, <4>4, <5>2
      <4> QED BY <4>3, <4>5 DEF Sound, TypedOuts
    <3>5. accepted = <<one, two>>
      BY <2>2, <3>1
    <3>6. Len(accepted) = 2 /\ accepted[1] = one /\ accepted[2] = two
      BY <3>5
    <3>7. \A t \in 1..2 : t = 1 \/ t = 2
      OBVIOUS
    <3> QED BY <2>2, <3>3, <3>4, <3>6, <3>7
  <2> QED BY <2>1, <2>2 DEF Init, WalletInit
<1>2. \A r \in Request : Sound(req[r].tx, accepted)
  BY NoTxSound DEF Init, PublishInit
<1>3. \A s \in Session : Sound(rows[s].built, accepted)
  <2>1. NoRow.built = NoTx
    BY DEF NoRow
  <2> QED BY <2>1, NoTxSound DEF Init, PublishInit
<1>4. shown = {} /\ signedHex = {}
  BY DEF Init, PublishInit, MintInit
<1>5. PageSound(page, accepted) /\ Sound(consolidation, accepted)
  BY NewPageSound, NoTxSound DEF Init, MintInit
<1>6. \A i \in MintSession : IsAmount(mints[i].kind)
  <2>1. NoMint.kind = Plain /\ IsAmount(Plain)
    BY DEF NoMint, IsAmount, Plain
  <2> QED BY <2>1 DEF Init, MintInit
<1> QED BY <1>1, <1>2, <1>3, <1>4, <1>5, <1>6 DEF Worth, MintSound

(* A publication whose coins could all be read spends no token away: what  *)
(* its inputs held of fungible tokens and NFTs, its outputs hold.          *)
THEOREM PublicationsKeepTokens == Spec => []PublishKeepsTokens
<1>1. Kept /\ Worth => PublishKeepsTokens
  <2> SUFFICES ASSUME Kept, Worth, NEW t \in DOMAIN accepted,
                      accepted[t].what = "publish", accepted[t].whole
               PROVE  KeepsTokens(t)
    BY DEF PublishKeepsTokens
  <2>1. IsSequence(accepted) /\ t \in 1..Len(accepted)
    BY DEF Kept, Shape, IsSequence
  <2>2. TypedOuts(accepted[t]) /\ Balanced(accepted[t], accepted)
    BY <2>1 DEF Worth, Sound
  <2> QED BY <2>1, <2>2, BalancedKeeps
<1> QED BY <1>1, KeptAlways, WorthInit, WorthNext, PTL DEF Spec

=============================================================================
