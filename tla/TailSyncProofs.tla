--------------------------- MODULE TailSyncProofs ---------------------------
(***************************************************************************)
(* Theorems about sync-tail, for every set of chains, block contents and   *)
(* bounds on failures.                                                     *)
(*                                                                         *)
(*   Typing          Spec => []TypeOK                                      *)
(*   NothingLost     without a reorg, Spec => []LiveComplete               *)
(*   CaughtUpExact   without a reorg, Spec => []LiveMatchesChain           *)
(*                                                                         *)
(* Typing needs to know what the pass in progress works on (ControlOK).    *)
(* NothingLost rests on LinearInv: catch_up never starts more than one     *)
(* block above the deltas that have ever been committed (NoSkip), every    *)
(* row has the height that created it (RowsSound), and every output no     *)
(* block up to the frontier spends has a row (RowsComplete).               *)
(* CaughtUpExact adds where the process stands relative to the last deltas *)
(* committed (InOrder) and that no row is spent below them (RowsUnspent);  *)
(* both hold until a crash cuts a replay short (replayCut).                *)
(***************************************************************************)
EXTENDS TailSync, WellFoundedInduction, TLAPS

----------------------------------------------------------------------------
(* Block data.                                                             *)

LEMMA LeastNat ==
  ASSUME NEW K \in SUBSET Nat, K # {}
  PROVE  \E k \in K : \A j \in K : k <= j
<1> DEFINE R == {ss \in Nat \X Nat : ss[1] < ss[2]}
<1>1. OpToRel(<, Nat) = R
  BY Zenon DEF OpToRel
<1>2. IsWellFoundedOn(R, Nat)
  BY <1>1, NatLessThanWellFounded
<1>3. PICK k \in K : \A j \in K : ~(<<j, k>> \in R)
  <2> HIDE DEF R
  <2> QED  BY <1>2, WFMin
<1>4. ASSUME NEW j \in K, ~(k <= j)
      PROVE  FALSE
  <2>1. <<j, k>> \in R
    BY <1>4
  <2> QED  BY <1>3, <2>1
<1> QED  BY <1>4

LEMMA LowestIn ==
  ASSUME NEW K \in SUBSET Nat, K # {}
  PROVE  Lowest(K) \in K /\ \A j \in K : Lowest(K) <= j
BY LeastNat DEF Lowest

LEMMA FirstIn ==
  ASSUME NEW S \in SUBSET [pos : Nat, in : Nat], S # {}
  PROVE  First(S) \in S
<1> DEFINE P == {e.pos : e \in S}
<1>0. P \in SUBSET Nat /\ P # {}
  OBVIOUS
<1>1. PICK p \in P : \A q \in P : p <= q
  <2> HIDE DEF P
  <2> QED  BY <1>0, LeastNat
<1> DEFINE I == {e.in : e \in {f \in S : f.pos = p}}
<1>a. I \in SUBSET Nat /\ I # {}
  BY <1>1
<1>2. PICK i \in I : \A j \in I : i <= j
  <2> HIDE DEF I
  <2> QED  BY <1>a, LeastNat
<1>3. PICK e \in S : e.pos = p /\ e.in = i
  BY <1>2
<1>4. \A f \in S : Precedes(e, f)
  <2> SUFFICES ASSUME NEW f \in S PROVE Precedes(e, f)
    OBVIOUS
  <2>1. e.pos <= f.pos /\ (f.pos = p => e.in <= f.in)
    BY <1>1, <1>2, <1>3
  <2> QED  BY <1>3, <2>1 DEF Precedes
<1> QED  BY <1>4 DEF First

LEMMA InputsIn ==
  ASSUME NEW b \in Block, NEW e \in Inputs(b)
  PROVE  /\ e \in [pos : Nat, in : Nat]
         /\ e.pos \in DOMAIN BlockTxs[b]
         /\ TxAt(b, e) \in TxsOf(b) /\ TxAt(b, e) \in TxId
         /\ e.in \in DOMAIN TxIns[TxAt(b, e)]
         /\ PrevAt(b, e) \in Outpoint
BY ChainDataTypes DEF Inputs, TxAt, PrevAt, TxsOf

LEMMA OutsIn ==
  ASSUME NEW o \in TokenOut
  PROVE  CatOf(o) \in Category
<1>1. PICK t \in TxId : \E i \in DOMAIN TxOuts[t] :
        o = [tx |-> t, n |-> i - 1] /\ TxOuts[t][i].cat # None
  BY DEF TokenOut, TokenOutsOf
<1> PICK i \in DOMAIN TxOuts[t] :
        o = [tx |-> t, n |-> i - 1] /\ TxOuts[t][i].cat # None
  BY <1>1
<1>2. TxOuts[t] \in Seq(Output)
  BY ChainDataTypes
<1>3. TxOuts[t][i] \in Output /\ i \in Nat
  BY <1>2
<1>4. o.tx = t /\ o.n + 1 = i
  BY <1>3
<1> QED  BY <1>3, <1>4 DEF CatOf, Output

LEMMA CreatesIn ==
  ASSUME NEW b \in Block
  PROVE  Creates(b) \subseteq TokenOut
BY ChainDataTypes DEF Creates, TxsOf, TokenOut

LEMMA CreatesFrom ==
  ASSUME NEW b, NEW o \in Creates(b)
  PROVE  o.tx \in TxsOf(b)
BY DEF Creates, TokenOutsOf

LEMMA FoundTxIn ==
  ASSUME NEW b \in Block, NEW c \in FoundCategories(b)
  PROVE  FoundTx(b, c) \in TxId
<1> DEFINE K == {k \in DOMAIN BlockTxs[b] : c \in MentionedBy(BlockTxs[b][k])}
<1>1. K \in SUBSET Nat /\ K # {}
  BY ChainDataTypes DEF FoundCategories, TxsOf
<1>2. Lowest(K) \in K
  BY <1>1, LowestIn
<1> QED  BY <1>2, ChainDataTypes DEF FoundTx

LEMMA FoundTypeIn ==
  ASSUME NEW b, NEW c
  PROVE  FoundType(b, c) \in {"FT", "NFT", "FT+NFT"}
<1>1. \A t : TxType(t, c) \in {"FT", "NFT", "FT+NFT"}
  BY DEF TxType, FromEvidence
<1> QED  BY <1>1 DEF FoundType, MergedType


----------------------------------------------------------------------------
(* Typing.                                                                 *)

InBlock == Passes \ {"check", "unwindLive", "unwindCrc20", "unwindEdges", "reload", "fetch"}

(* The pass in progress: its height, its block, what it still has to do.   *)
ControlOK ==
  /\ pc \in Passes => height \in (Boot + 1)..target /\ target <= Len(chain)
  /\ pc \in InBlock => block \in Block
  /\ pc = "closes" => todo # {} /\ todo \subseteq SpendCandidates(block)
  /\ pc = "crc20" => todo # {} /\ todo \subseteq Reveals(block)
  /\ pc = "edges" => todo # {} /\ todo \subseteq Vout0Spends(block)

LEMMA ChainIn ==
  ASSUME NEW c \in Chains
  PROVE  /\ c \in Seq(Block) /\ Len(c) \in Nat /\ Len(c) <= MaxHeight
         /\ DOMAIN c = 1..Len(c)
         /\ \A i \in DOMAIN c : c[i] \in Block
BY TailAssumption

LEMMA CandidatesIn ==
  ASSUME NEW b \in Block
  PROVE  /\ SpendCandidates(b) \subseteq Inputs(b)
         /\ Reveals(b) \subseteq Inputs(b)
         /\ Vout0Spends(b) \subseteq Inputs(b)
         /\ Inputs(b) \subseteq [pos : Nat, in : Nat]
BY InputsIn DEF SpendCandidates, Reveals, Vout0Spends

(* What the pass does next is one of its inputs.                           *)
LEMMA NextInput ==
  ASSUME NEW b \in Block, NEW S \in SUBSET Inputs(b), S # {}
  PROVE  First(S) \in S /\ First(S) \in Inputs(b)
BY InputsIn, FirstIn

LEMMA TypeOKInit == Init => TypeOK /\ ControlOK
<1> SUFFICES ASSUME Init PROVE TypeOK /\ ControlOK
  OBVIOUS
<1>1. Boot \in Nat /\ Boot >= 1 /\ Boot <= MaxHeight /\ MaxHeight \in Nat
      /\ MaxErrors \in Nat /\ MaxCrashes \in Nat
  BY TailAssumption
<1>2. TypeOK
  <2>1. booting \in BOOLEAN /\ replayCut \in BOOLEAN /\ unranked \in BOOLEAN /\ blind \in BOOLEAN
    BY DEF Init
  <2> QED  BY <1>1, <2>1 DEF Init, TypeOK, NoRow
<1>3. ControlOK
  BY DEF Init, ControlOK, Passes, InBlock
<1> QED  BY <1>2, <1>3

LEMMA TypeOKStep ==
  ASSUME TypeOK, ControlOK, [Next]_vars
  PROVE  TypeOK' /\ ControlOK'
<1> USE DEF TypeOK
<1>0. /\ Boot \in Nat /\ Boot >= 1 /\ Boot <= MaxHeight /\ MaxHeight \in Nat
      /\ MaxErrors \in Nat /\ MaxCrashes \in Nat /\ RevealWindow \in Nat
      /\ chain \in Seq(Block) /\ Len(chain) \in Nat /\ Len(chain) <= MaxHeight
      /\ DOMAIN chain = 1..Len(chain)
      /\ \A i \in DOMAIN chain : chain[i] \in Block
  BY TailAssumption, ChainIn
<1>1. CASE NodeAdvance
  <2>1. Len(chain') \in Nat /\ Len(chain') > Len(chain) /\ chain' \in Chains
    BY <1>1, ChainIn DEF NodeAdvance
  <2>2. TypeOK'
    BY <1>1, <2>1 DEF NodeAdvance, tables, process, batch, bounds, history
  <2>3. pc' = pc /\ process' = process /\ batch' = batch
    BY <1>1 DEF NodeAdvance
  <2>4. target \in Nat
    BY <1>0
  <2>5. target <= Len(chain) => target <= Len(chain')
    BY <1>0, <2>1, <2>4
  <2>6. ControlOK'
    BY <2>3, <2>5 DEF ControlOK, process, batch
  <2> QED  BY <2>2, <2>6
<1>2. CASE Start
  <2>1. MembersOf(tokens, edges) \subseteq TxId
    BY DEF MembersOf, TokenRow, EdgeRow
  <2>2. height' \in 0..MaxHeight /\ target' \in 0..MaxHeight /\ booting' \in BOOLEAN
        /\ pc' \in Passes \cup {"down", "idle"}
    <3>1. CASE Len(chain) > ckpt
      <4>1. pc' = "check" /\ booting' = TRUE /\ height' = ckpt + 1 /\ target' = Len(chain)
        BY <1>2, <3>1 DEF Start
      <4>2. ckpt + 1 \in 0..MaxHeight
        BY <1>0, <3>1
      <4> QED  BY <1>0, <4>1, <4>2 DEF Passes
    <3>2. CASE ~(Len(chain) > ckpt)
      BY <1>0, <1>2, <3>2 DEF Start, Passes
    <3> QED  BY <3>1, <3>2
  <2>4. TypeOK'
    BY <1>2, <2>1, <2>2 DEF Start, tables, batch, bounds, history
  <2>3. ControlOK'
    BY <1>0, <1>2 DEF Start, ControlOK, Passes, InBlock
  <2> QED  BY <2>3, <2>4
<1>3. CASE Tick
  BY <1>0, <1>3 DEF Tick, HasDelta, tables, batch, bounds, history, ControlOK, Passes, InBlock
<1>4. CASE CheckReorg
  BY <1>0, <1>4 DEF CheckReorg, tables, process, batch, bounds, history, ControlOK, Passes, InBlock
<1>5. CASE UnwindLive
  BY <1>0, <1>5 DEF UnwindLive, process, batch, bounds, history, ControlOK, Passes, InBlock
<1>6. CASE UnwindCrc20
  BY <1>0, <1>6 DEF UnwindCrc20, process, batch, bounds, history, ControlOK, Passes, InBlock
<1>7. CASE UnwindEdges
  BY <1>0, <1>7 DEF UnwindEdges, process, batch, bounds, history, ControlOK, Passes, InBlock
<1>8. CASE ReloadMembers
  <2>1. MembersOf(tokens, edges) \subseteq TxId
    BY DEF MembersOf, TokenRow, EdgeRow
  <2> QED
    BY <1>0, <1>8, <2>1 DEF ReloadMembers, tables, batch, bounds, history, ControlOK, Passes, InBlock
<1>9. CASE FetchBlock
  BY <1>0, <1>9 DEF FetchBlock, tables, batch, bounds, history, ControlOK, Passes, InBlock
<1>10. CASE SeedMembers
  <2>1. Seeds(block) \subseteq TxId
    BY <1>10, FoundTxIn DEF Seeds, SeedMembers, ControlOK, InBlock, Passes
  <2> QED
    BY <1>0, <1>10, <2>1 DEF SeedMembers, tables, batch, bounds, history, ControlOK, Passes, InBlock
<1>11. CASE UpsertTokens
  <2>1. block \in Block /\ height \in Heights
    BY <1>0, <1>11 DEF UpsertTokens, ControlOK, InBlock, Passes, Heights
  <2>2. \A c \in Category : c \in FoundCategories(block) =>
          UpsertToken(c) \in TokenRow
    BY <2>1, FoundTxIn, FoundTypeIn DEF UpsertToken, TokenRow, MergeType
  <2>3. TypeOK'
    BY <1>0, <1>11, <2>2 DEF UpsertTokens, process, batch, bounds, history, Passes
  <2>4. ControlOK'
    BY <1>11 DEF UpsertTokens, process, batch, ControlOK, Passes, InBlock
  <2> QED  BY <2>3, <2>4
<1>12. CASE UpsertListings
  <2>1. \A t \in TxId : t \in ListingsOf(block) => InsertOffer(t) \in OfferRow \cup {None}
    BY ChainDataTypes DEF InsertOffer, NewOffer, OfferRow, ListingsOf
  <2>3. TypeOK'
    BY <1>12, <2>1 DEF UpsertListings, process, batch, bounds, history, Passes
  <2>4. ControlOK'
    BY <1>12 DEF UpsertListings, process, batch, ControlOK, Passes, InBlock
  <2> QED  BY <2>3, <2>4
<1>13. CASE FindCloses
  <2>1. block \in Block
    BY <1>13 DEF FindCloses, ControlOK, InBlock, Passes
  <2>2. CloseBatch(block) \subseteq SpendCandidates(block)
    BY DEF CloseBatch
  <2>3. CloseBatch(block) \subseteq [pos : Nat, in : Nat]
    BY <2>1, <2>2, CandidatesIn
  <2>4. TypeOK'
    BY <1>13, <2>3 DEF FindCloses, tables, process, bounds, history, Passes
  <2>5. ControlOK'
    BY <1>13, <2>2 DEF FindCloses, process, ControlOK, Passes, InBlock
  <2> QED  BY <2>4, <2>5
<1>14. CASE ApplyClose
  <2> DEFINE e == First(todo)
             id == PrevAt(block, e).tx
  <2>1. block \in Block /\ e \in todo /\ e \in Inputs(block)
    BY <1>14, NextInput, CandidatesIn DEF ApplyClose, ControlOK, InBlock, Passes
  <2>2. TxAt(block, e) \in TxId
    BY <2>1, InputsIn
  <2>3. ASSUME NEW t \in TxId, IsOpen(t)
        PROVE  CloseRow(offers[t], TxAt(block, e)) \in OfferRow
    <3>1. offers[t] \in OfferRow
      BY <2>3 DEF IsOpen
    <3>2. TakerOf(TxAt(block, e), offers[t].maker) \in Maker \cup {None}
      BY <2>2, ChainDataTypes DEF TakerOf
    <3>3. CloseStatus(TxAt(block, e), offers[t].maker) \in {"open", "taken", "cancelled"}
      BY DEF CloseStatus
    <3> HIDE DEF e
    <3> QED  BY <2>2, <3>1, <3>2, <3>3 DEF CloseRow, OfferRow
  <2>4. offers' \in [TxId -> OfferRow \cup {None}] /\ todo' \subseteq todo
    BY <1>14, <2>3 DEF ApplyClose
  <2>5. TypeOK'
    BY <1>14, <2>4 DEF ApplyClose, process, bounds, history, Passes
  <2>6. ControlOK'
    BY <1>14, <2>4 DEF ApplyClose, process, ControlOK, Passes, InBlock
  <2> QED  BY <2>5, <2>6
<1>15. CASE WriteBlockRow
  <2>1. block \in Block /\ height \in Heights
    BY <1>0, <1>15 DEF WriteBlockRow, ControlOK, InBlock, Passes, Heights
  <2>2. Reveals(block) \subseteq [pos : Nat, in : Nat]
    BY <2>1, CandidatesIn
  <2>3. TypeOK'
    <3>1. blocks' \in [Heights -> Block \cup {None}] /\ errors' \in 0..MaxErrors
      <4>1. /\ blocks \in [Heights -> Block \cup {None}] /\ errors \in 0..MaxErrors
            /\ MaxErrors \in Nat
        BY <1>0, TailAssumption
      <4>2. \/ blocks' = [blocks EXCEPT ![height] = block] /\ errors' = errors
            \/ blocks' = blocks /\ errors' = errors + 1 /\ errors < MaxErrors
        BY <1>15 DEF WriteBlockRow
      <4>3. errors' \in 0..MaxErrors
        BY <4>1, <4>2
      <4>4. blocks' \in [Heights -> Block \cup {None}]
        BY <2>1, <4>1, <4>2
      <4> QED  BY <4>3, <4>4
    <3>2. blind' = TRUE \/ blind' = blind
      BY <1>15, Zenon DEF WriteBlockRow
    <3>3. blind' \in BOOLEAN
      BY <3>2
    <3> QED  BY <1>15, <2>2, <3>1, <3>3 DEF WriteBlockRow, process, Passes
  <2>4. ControlOK'
    BY <1>15 DEF WriteBlockRow, process, ControlOK, Passes, InBlock
  <2> QED  BY <2>3, <2>4
<1>16. CASE WriteReveal
  <2> DEFINE e == First(todo)
             c == PrevAt(block, e).tx
  <2>1. block \in Block /\ height \in Heights /\ height \in Nat
    BY <1>0, <1>16 DEF WriteReveal, ControlOK, InBlock, Passes, Heights
  <2>2. e \in Reveals(block) /\ e \in Inputs(block)
    BY <1>16, <2>1, NextInput, CandidatesIn DEF WriteReveal, ControlOK
  <2>3. Covenant[TxAt(block, e)][e.in] \in Symbol
    <3>1. TxAt(block, e) \in TxId /\ e.in \in DOMAIN TxIns[TxAt(block, e)]
      BY <2>1, <2>2, InputsIn
    <3>2. Covenant[TxAt(block, e)] \in [DOMAIN TxIns[TxAt(block, e)] -> Symbol \cup {None}]
      BY <3>1, ChainDataTypes
    <3>3. Covenant[TxAt(block, e)][e.in] # None
      BY <2>2 DEF Reveals, IsReveal
    <3> HIDE DEF e
    <3> QED  BY <3>1, <3>2, <3>3
  <2>4. ASSUME NEW h \in Nat
        PROVE  UpsertReveal(e, h) \in [Category -> Crc20Row \cup {None}]
    BY <2>1, <2>3 DEF UpsertReveal, Crc20Row
  <2>5. CommitFallback \in Nat /\ CommitOf(c) \subseteq Nat
    BY <1>0, <2>1 DEF CommitFallback, CommitOf, CommitHeights
  <2>6. crc20' \in [Category -> Crc20Row \cup {None}] /\ todo' \subseteq todo
    BY <1>16, <2>4, <2>5 DEF WriteReveal
  <2>7. errors' \in 0..MaxErrors
    BY <1>0, <1>16 DEF WriteReveal
  <2>8. TypeOK'
    BY <1>16, <2>6, <2>7 DEF WriteReveal, process, history, Passes
  <2>9. ControlOK'
    BY <1>16, <2>6 DEF WriteReveal, process, ControlOK, Passes, InBlock
  <2> QED  BY <2>8, <2>9
<1>17. CASE ResolveCanonical
  <2>1. \A c \in Category : Resolved(c) \in BOOLEAN
    BY DEF Resolved, Wins
  <2>2. crc20' \in [Category -> Crc20Row \cup {None}]
    BY <1>17, <2>1 DEF ResolveCanonical, ResolvedTable, Crc20Row
  <2>3. TypeOK'
    BY <1>17, <2>2 DEF ResolveCanonical, process, batch, bounds, history, Passes
  <2>4. ControlOK'
    BY <1>17 DEF ResolveCanonical, process, batch, ControlOK, Passes, InBlock
  <2> QED  BY <2>3, <2>4
<1>18. CASE ApplyDeltas
  <2>1. block \in Block /\ height \in Boot..MaxHeight /\ height \in Heights
    BY <1>0, <1>18 DEF ApplyDeltas, ControlOK, InBlock, Passes, Heights
  <2>2. TouchedBy(block) \subseteq Category
    BY <2>1, OutsIn, CreatesIn DEF TouchedBy, TouchedByCreates, Removed, LiveSet
  <2>3. LiveAfter(block) \in [TokenOut -> Heights \cup {NoRow}]
    BY <2>1 DEF LiveAfter
  <2>4. TypeOK'
    BY <1>0, <1>18, <2>1, <2>2, <2>3 DEF ApplyDeltas, process, bounds, Passes
  <2>5. ControlOK'
    BY <1>18 DEF ApplyDeltas, process, ControlOK, Passes, InBlock
  <2> QED  BY <2>4, <2>5
<1>19. CASE \E c \in Category : WriteState(c)
  <2> PICK c \in Category : WriteState(c)
    BY <1>19
  <2>1. LiveOf(c) \subseteq TokenOut
    BY DEF LiveOf, LiveSet
  <2>2. \A d \in Category : tokenState'[d] = None \/ tokenState'[d] \subseteq TokenOut
    BY <2>1 DEF WriteState
  <2>3. TypeOK'
    BY <2>2 DEF WriteState, process, bounds, Passes
  <2>4. ControlOK'
    BY DEF WriteState, process, ControlOK, Passes, InBlock
  <2> QED  BY <2>3, <2>4
<1>20. CASE ScanAuthchain
  <2>1. block \in Block
    BY <1>20 DEF ScanAuthchain, ControlOK, InBlock, Passes
  <2>2. NewEdges(block, members) \subseteq Vout0Spends(block)
    BY DEF NewEdges
  <2>3. NewEdges(block, members) \subseteq [pos : Nat, in : Nat]
    BY <2>1, <2>2, CandidatesIn
  <2>4. Scanned(block, members) \subseteq TxId
    BY <2>1, ChainDataTypes DEF Scanned, TxsOf
  <2>5. TypeOK'
    BY <1>20, <2>3, <2>4 DEF ScanAuthchain, tables, bounds, history, Passes
  <2>6. ControlOK'
    BY <1>20, <2>2 DEF ScanAuthchain, ControlOK, Passes, InBlock
  <2> QED  BY <2>5, <2>6
<1>21. CASE RecordEdge
  <2> DEFINE e == First(todo)
  <2>1. block \in Block /\ height \in Heights
    BY <1>0, <1>21 DEF RecordEdge, ControlOK, InBlock, Passes, Heights
  <2>2. e \in todo /\ e \in Inputs(block)
    BY <1>21, <2>1, NextInput, CandidatesIn DEF RecordEdge, ControlOK
  <2>3. TxAt(block, e) \in TxId
    BY <2>1, <2>2, InputsIn
  <2>4. edges' \in [TxId -> EdgeRow \cup {None}] /\ todo' \subseteq todo
    BY <1>21, <2>1, <2>3 DEF RecordEdge, InsertEdge, EdgeRow
  <2>5. TypeOK'
    BY <1>21, <2>4 DEF RecordEdge, process, bounds, history, Passes
  <2>6. ControlOK'
    BY <1>21, <2>4 DEF RecordEdge, process, ControlOK, Passes, InBlock
  <2> QED  BY <2>5, <2>6
<1>22. CASE SaveCheckpoint
  <2>1. height \in (Boot + 1)..target /\ target <= Len(chain)
    BY <1>22 DEF SaveCheckpoint, ControlOK, Passes
  <2>2. height \in Boot..MaxHeight /\ target \in Boot..MaxHeight
    BY <1>0, <2>1
  <2>3. ckpt' \in Boot..MaxHeight /\ lastSeen' \in Boot..MaxHeight
    BY <1>22, <2>2 DEF SaveCheckpoint
  <2>4. height' \in 0..MaxHeight /\ target' \in 0..MaxHeight
    BY <1>0, <1>22, <2>1, <2>2 DEF SaveCheckpoint
  <2>5. pc' \in {"idle", "check"} /\ booting' \in BOOLEAN
    BY <1>22 DEF SaveCheckpoint
  <2>6. TypeOK'
    BY <1>22, <2>3, <2>4, <2>5 DEF SaveCheckpoint, tables, batch, bounds, history, Passes
  <2>7. ControlOK'
    BY <1>0, <1>22, <2>1 DEF SaveCheckpoint, ControlOK, Passes, InBlock
  <2> QED  BY <2>6, <2>7
<1>23. CASE Error
  <2>1. lost' \subseteq Category
    BY <1>23 DEF Error, AbandonBlock, CutOff
  <2> QED
    BY <1>0, <1>23, <2>1 DEF Error, SeenAfterError, AbandonBlock, tables, ControlOK, Passes, InBlock
<1>24. CASE Crash
  <2>1. lost' \subseteq Category
    BY <1>24 DEF Crash, AbandonBlock, CutOff
  <2>2. crashes' \in 0..MaxCrashes
    BY <1>0, <1>24 DEF Crash
  <2>3. TypeOK'
    BY <1>0, <1>24, <2>1, <2>2 DEF Crash, AbandonBlock, tables
  <2>4. ControlOK'
    BY <1>24 DEF Crash, ControlOK, Passes, InBlock
  <2> QED  BY <2>3, <2>4
<1>25. CASE UNCHANGED vars
  BY <1>25 DEF vars, ControlOK
<1>26. CASE CanonicalTimer
  <2>1. \A c \in Category : Resolved(c) \in BOOLEAN
    BY DEF Resolved, Wins
  <2>2. crc20' \in [Category -> Crc20Row \cup {None}]
    BY <1>26, <2>1 DEF CanonicalTimer, ResolvedTable, Crc20Row
  <2>3. TypeOK'
    BY <1>26, <2>2 DEF CanonicalTimer, process, batch, bounds, history
  <2>4. ControlOK'
    BY <1>26 DEF CanonicalTimer, process, batch, ControlOK
  <2> QED  BY <2>3, <2>4
<1> QED
  BY <1>1, <1>2, <1>3, <1>4, <1>5, <1>6, <1>7, <1>8, <1>9, <1>10, <1>11, <1>12, <1>13,
     <1>14, <1>15, <1>16, <1>17, <1>18, <1>19, <1>20, <1>21, <1>22, <1>23, <1>24, <1>25, <1>26
     DEF Next, CatchUp, ProcessBlock

LEMMA Typed == Spec => [](TypeOK /\ ControlOK)
<1>1. Init => TypeOK /\ ControlOK
  BY TypeOKInit
<1>2. TypeOK /\ ControlOK /\ [Next]_vars => (TypeOK /\ ControlOK)'
  BY TypeOKStep
<1> QED  BY <1>1, <1>2, PTL DEF Spec

(* Every state of sync-tail is well typed, whatever fails in between       *)
(* (catch_up, process_block).                                              *)
THEOREM Typing == Spec => []TypeOK
<1>1. TypeOK /\ ControlOK => TypeOK
  OBVIOUS
<1> QED  BY <1>1, Typed, PTL

----------------------------------------------------------------------------
(* The token UTXO set, on chains without a reorg.                          *)

AfterDeltas == {"states", "scan", "edges", "save"}

(* Where the process and its checkpoint can be: no height is skipped, and  *)
(* the block at hand is the chain's.                                       *)
NoSkip ==
  /\ pc \notin {"unwindLive", "unwindCrc20", "unwindEdges", "reload"}
  /\ \A h \in Heights : blocks[h] # None => h \in DOMAIN chain /\ blocks[h] = chain[h]
  /\ pc \in InBlock => block = chain[height]
  /\ applied <= frontier /\ frontier <= Len(chain)
  /\ ckpt <= frontier /\ lastSeen <= frontier
  /\ pc \in Passes => height <= frontier + 1
  /\ pc \in AfterDeltas => height <= frontier

(* Rows come from blocks, and no unspent row is missing.                   *)
RowsSound ==
  \A o \in TokenOut : live[o] # NoRow =>
    live[o] \in 1..frontier /\ o \in Creates(chain[live[o]])

RowsComplete ==
  \A o \in TokenOut :
    /\ \E i \in 1..frontier : o \in Creates(chain[i])
    /\ \A j \in 1..frontier : o \notin Spends(chain[j])
    => live[o] # NoRow

LinearInv == NoSkip /\ RowsSound /\ RowsComplete

Numbers ==
  /\ Boot \in Nat /\ Boot >= 1 /\ MaxHeight \in Nat
  /\ Len(chain) \in Nat /\ Len(chain) <= MaxHeight /\ DOMAIN chain = 1..Len(chain)
  /\ applied \in Nat /\ frontier \in Nat /\ ckpt \in Nat /\ lastSeen \in Nat
  /\ applied >= Boot /\ frontier >= Boot /\ ckpt >= Boot /\ lastSeen >= Boot
  /\ height \in Nat /\ target \in Nat
  /\ errors \in Nat /\ crashes \in Nat
  /\ errors <= MaxErrors /\ crashes <= MaxCrashes /\ MaxErrors \in Nat /\ MaxCrashes \in Nat
  /\ pc \in Passes => height > Boot /\ height <= target /\ target <= Len(chain)

LEMMA NumbersHold ==
  ASSUME TypeOK, ControlOK
  PROVE  Numbers
<1>1. chain \in Chains
  BY DEF TypeOK
<1>2. Len(chain) \in Nat /\ Len(chain) <= MaxHeight /\ DOMAIN chain = 1..Len(chain)
  BY <1>1, ChainIn
<1>3. Boot \in Nat /\ Boot >= 1 /\ MaxHeight \in Nat /\ MaxErrors \in Nat /\ MaxCrashes \in Nat
  BY TailAssumption
<1>4. /\ applied \in Boot..MaxHeight /\ frontier \in Boot..MaxHeight
      /\ ckpt \in Boot..MaxHeight /\ lastSeen \in Boot..MaxHeight
      /\ height \in 0..MaxHeight /\ target \in 0..MaxHeight
      /\ errors \in 0..MaxErrors /\ crashes \in 0..MaxCrashes
  BY DEF TypeOK
<1>5. pc \in Passes => height \in (Boot + 1)..target /\ target <= Len(chain)
  BY DEF ControlOK
<1> QED  BY <1>2, <1>3, <1>4, <1>5 DEF Numbers

(* Without a reorg the node only extends its chain.                        *)
LEMMA ChainExtends ==
  ASSUME LinearChains, TypeOK, [Next]_vars
  PROVE  /\ Len(chain) \in Nat /\ Len(chain') \in Nat /\ Len(chain) <= Len(chain')
         /\ \A i \in 1..Len(chain) : i \in DOMAIN chain' /\ chain'[i] = chain[i]
<1>1. chain \in Chains /\ Len(chain) \in Nat /\ DOMAIN chain = 1..Len(chain)
  BY ChainIn DEF TypeOK
<1>2. CASE NodeAdvance
  <2>1. chain' \in Chains /\ Len(chain') > Len(chain)
    BY <1>2 DEF NodeAdvance
  <2>2. Len(chain') \in Nat /\ DOMAIN chain' = 1..Len(chain')
    BY <2>1, ChainIn
  <2>3. \A i \in DOMAIN chain \cap DOMAIN chain' : chain[i] = chain'[i]
    BY <1>1, <2>1 DEF LinearChains
  <2> QED  BY <1>1, <2>1, <2>2, <2>3
<1>3. CASE UNCHANGED chain
  BY <1>1, <1>3
<1>4. NodeAdvance \/ UNCHANGED chain
  BY DEF Next, CatchUp, ProcessBlock, vars, Start, Tick, CheckReorg, UnwindLive, UnwindCrc20,
         UnwindEdges, ReloadMembers, FetchBlock, SeedMembers, UpsertTokens, UpsertListings,
         FindCloses, ApplyClose, WriteBlockRow, WriteReveal, ResolveCanonical, ApplyDeltas,
         WriteState, ScanAuthchain, RecordEdge, SaveCheckpoint, CanonicalTimer, Error, Crash
<1> QED  BY <1>2, <1>3, <1>4

(* Within a block only the deltas move the token UTXO set.                 *)
Within ==
  SeedMembers \/ UpsertTokens \/ UpsertListings \/ FindCloses \/ ApplyClose \/ WriteReveal
  \/ ResolveCanonical \/ (\E c \in Category : WriteState(c)) \/ ScanAuthchain \/ RecordEdge

LEMMA WithinKeeps ==
  ASSUME Within
  PROVE  /\ pc \in InBlock /\ pc' \in InBlock
         /\ pc' \in AfterDeltas => pc \in AfterDeltas
         /\ UNCHANGED <<chain, blocks, live, ckpt, booting, lastSeen, height, target, block,
                        crashes, applied, frontier, replayCut>>
BY DEF Within, SeedMembers, UpsertTokens, UpsertListings, FindCloses, ApplyClose, WriteReveal,
       ResolveCanonical, WriteState, ScanAuthchain, RecordEdge, InBlock, Passes, AfterDeltas,
       tables, process, batch, bounds, history

LEMMA NoSkipStep ==
  ASSUME LinearChains, TypeOK, ControlOK, NoSkip, [Next]_vars
  PROVE  NoSkip'
<1>1. Numbers
  BY NumbersHold
<1>2. /\ Len(chain) <= Len(chain') /\ Len(chain') \in Nat
      /\ \A i \in 1..Len(chain) : i \in DOMAIN chain' /\ chain'[i] = chain[i]
  BY ChainExtends
<1> USE DEF NoSkip, Numbers, InBlock, AfterDeltas, Passes
<1>3. CASE NodeAdvance
  BY <1>1, <1>2, <1>3 DEF NodeAdvance, tables, process, batch, bounds, history
<1>4. CASE Start
  BY <1>1, <1>4 DEF Start, tables, batch, bounds, history
<1>5. CASE Tick
  BY <1>1, <1>5 DEF Tick, HasDelta, tables, batch, bounds, history
<1>6. CASE CheckReorg
  <2>1. height \in Heights /\ height \in DOMAIN chain
    BY <1>1, <1>6 DEF CheckReorg, Heights
  <2>2. blocks[height] \in {None, chain[height]}
    BY <2>1
  <2> QED
    BY <1>1, <1>6, <2>2 DEF CheckReorg, tables, process, batch, bounds, history
<1>7. CASE UnwindLive \/ UnwindCrc20 \/ UnwindEdges \/ ReloadMembers
  BY <1>7 DEF UnwindLive, UnwindCrc20, UnwindEdges, ReloadMembers
<1>8. CASE FetchBlock
  BY <1>1, <1>8 DEF FetchBlock, tables, batch, bounds, history
<1>9. CASE Within
  BY <1>9, WithinKeeps
<1>10. CASE WriteBlockRow
  <2>1. height \in Heights /\ height \in DOMAIN chain
    BY <1>1, <1>10 DEF WriteBlockRow, Heights
  <2>2. \A h \in Heights : blocks'[h] # None => h \in DOMAIN chain /\ blocks'[h] = chain[h]
    BY <1>10, <2>1 DEF WriteBlockRow, TypeOK
  <2> QED
    BY <1>10, <2>2 DEF WriteBlockRow, process, history
<1>11. CASE ApplyDeltas
  <2>1. height <= Len(chain) /\ height \in Nat
    BY <1>1, <1>11 DEF ApplyDeltas
  <2>2. applied' <= frontier' /\ frontier' <= Len(chain) /\ frontier <= frontier'
        /\ height <= frontier' /\ ckpt <= frontier' /\ lastSeen <= frontier'
    BY <1>1, <1>11, <2>1 DEF ApplyDeltas
  <2> QED
    BY <1>1, <1>11, <2>2 DEF ApplyDeltas, process, bounds
<1>12. CASE SaveCheckpoint
  BY <1>1, <1>12 DEF SaveCheckpoint, tables, batch, bounds, history
<1>13. CASE Error
  BY <1>13 DEF Error, AbandonBlock, SeenAfterError, tables
<1>14. CASE Crash
  BY <1>14 DEF Crash, AbandonBlock, tables
<1>15. CASE UNCHANGED vars \/ CanonicalTimer
  BY <1>15 DEF vars, CanonicalTimer, process, bounds, history
<1> QED
  BY <1>3, <1>4, <1>5, <1>6, <1>7, <1>8, <1>9, <1>10, <1>11, <1>12, <1>13, <1>14, <1>15
     DEF Next, CatchUp, ProcessBlock, Within

LEMMA RowsStep ==
  ASSUME LinearChains, TypeOK, ControlOK, LinearInv, [Next]_vars
  PROVE  RowsSound' /\ RowsComplete'
<1>1. Numbers
  BY NumbersHold
<1>2. \A i \in 1..frontier : chain'[i] = chain[i]
  BY <1>1, ChainExtends DEF LinearInv, NoSkip, Numbers
<1>3. CASE ApplyDeltas
  <2>1. /\ pc = "deltas" /\ height \in Nat /\ height >= 1 /\ height <= frontier + 1
        /\ block = chain[height] /\ chain' = chain /\ frontier \in Nat
    BY <1>1, <1>3 DEF ApplyDeltas, LinearInv, NoSkip, Numbers, Passes, InBlock
  <2>2. /\ frontier' \in Nat /\ frontier <= frontier' /\ height <= frontier'
        /\ frontier' = frontier \/ (frontier' = frontier + 1 /\ height = frontier + 1)
    BY <1>3, <2>1 DEF ApplyDeltas
  <2>3. \A o \in TokenOut : live'[o] = IF o \in Spends(block) THEN NoRow
                                       ELSE IF o \in Creates(block) THEN height ELSE live[o]
    BY <1>3 DEF ApplyDeltas, LiveAfter
  <2>4. RowsSound'
    <3> SUFFICES ASSUME NEW o \in TokenOut, live'[o] # NoRow
                 PROVE  live'[o] \in 1..frontier' /\ o \in Creates(chain[live'[o]])
      BY <2>1 DEF RowsSound
    <3>1. CASE o \in Creates(block)
      BY <2>1, <2>2, <2>3, <3>1
    <3>2. CASE o \notin Creates(block)
      BY <2>1, <2>2, <2>3, <3>2 DEF LinearInv, RowsSound
    <3> QED  BY <3>1, <3>2
  <2>5. RowsComplete'
    <3> SUFFICES ASSUME NEW o \in TokenOut,
                        NEW i \in 1..frontier', o \in Creates(chain[i]),
                        \A j \in 1..frontier' : o \notin Spends(chain[j])
                 PROVE  live'[o] # NoRow
      BY <2>1 DEF RowsComplete
    <3>1. o \notin Spends(block)
      BY <2>1, <2>2
    <3>2. CASE i <= frontier
      <4>1. live[o] # NoRow
        BY <2>1, <2>2, <3>2 DEF LinearInv, RowsComplete
      <4> QED  BY <2>1, <2>3, <3>1, <4>1 DEF NoRow
    <3>3. CASE i > frontier
      <4>1. o \in Creates(block)
        BY <2>1, <2>2, <3>3
      <4> QED  BY <2>1, <2>3, <3>1, <4>1 DEF NoRow
    <3> QED  BY <2>1, <2>2, <3>2, <3>3
  <2> QED  BY <2>4, <2>5
<1>4. CASE UNCHANGED <<live, frontier>>
  <2>1. RowsSound'
    BY <1>2, <1>4 DEF LinearInv, RowsSound
  <2>2. RowsComplete'
    BY <1>2, <1>4 DEF LinearInv, RowsComplete
  <2> QED  BY <2>1, <2>2
<1>5. ApplyDeltas \/ UNCHANGED <<live, frontier>>
  BY DEF LinearInv, NoSkip, Next, CatchUp, ProcessBlock, vars, NodeAdvance, Start, Tick,
         CheckReorg, UnwindLive, UnwindCrc20, UnwindEdges, ReloadMembers, FetchBlock,
         SeedMembers, UpsertTokens, UpsertListings, FindCloses, ApplyClose, WriteBlockRow,
         WriteReveal, ResolveCanonical, WriteState, ScanAuthchain, RecordEdge,
         SaveCheckpoint, CanonicalTimer, Error, Crash, AbandonBlock, tables, process, bounds, history
<1> QED  BY <1>3, <1>4, <1>5

LEMMA LinearInit ==
  ASSUME Init
  PROVE  LinearInv
<1>1. chain \in Chains /\ Len(chain) = Boot /\ Boot \in Nat /\ DOMAIN chain = 1..Len(chain)
  BY ChainIn, TailAssumption DEF Init
<1>2. \A i \in 1..Boot : Creates(chain[i]) = {}
  <2> SUFFICES ASSUME NEW i \in 1..Boot PROVE Creates(chain[i]) = {}
    OBVIOUS
  <2>1. FoundCategories(chain[i]) = {} /\ chain[i] \in Block
    BY <1>1, TailAssumption, ChainIn
  <2>2. \A t \in TxsOf(chain[i]) : TokenOutsOf(t) = {}
    BY <2>1 DEF FoundCategories, MentionedBy, TokenOutsOf
  <2> QED  BY <2>2 DEF Creates
<1>3. NoSkip
  BY <1>1 DEF Init, NoSkip, InBlock, Passes, AfterDeltas
<1>4. RowsSound /\ RowsComplete
  BY <1>1, <1>2 DEF Init, RowsSound, RowsComplete
<1> QED  BY <1>3, <1>4 DEF LinearInv

LEMMA Linear == LinearChains => (Spec => [](TypeOK /\ ControlOK /\ LinearInv))
<1> SUFFICES ASSUME LinearChains PROVE Spec => [](TypeOK /\ ControlOK /\ LinearInv)
  OBVIOUS
<1>1. Init => TypeOK /\ ControlOK /\ LinearInv
  BY TypeOKInit, LinearInit
<1>2. TypeOK /\ ControlOK /\ LinearInv /\ [Next]_vars => (TypeOK /\ ControlOK /\ LinearInv)'
  BY TypeOKStep, NoSkipStep, RowsStep DEF LinearInv
<1> QED  BY <1>1, <1>2, PTL DEF Spec

(* Without a reorg, live_token_utxo never loses an unspent token output:   *)
(* not by an error, not by a crash, not while blocks are replayed          *)
(* (apply_live_utxo_deltas, catch_up).                                     *)
THEOREM NothingLost == LinearChains => (Spec => []LiveComplete)
<1>1. TypeOK /\ LinearInv => LiveComplete
  <2> SUFFICES ASSUME TypeOK, LinearInv, NEW o \in UtxosAt(frontier)
               PROVE  o \in LiveSet
    BY DEF LiveComplete
  <2>1. chain \in Chains /\ frontier \in Nat /\ frontier <= Len(chain)
    BY TailAssumption DEF TypeOK, LinearInv, NoSkip
  <2>2. PICK i \in 1..frontier : o \in Creates(chain[i])
    BY DEF UtxosAt, CreatedBy
  <2>3. chain[i] \in Block
    BY <2>1, ChainIn
  <2>4. o \in TokenOut
    BY <2>2, <2>3, CreatesIn
  <2>5. \A j \in 1..frontier : o \notin Spends(chain[j])
    BY DEF UtxosAt, SpentBy
  <2> QED  BY <2>2, <2>4, <2>5 DEF LinearInv, RowsComplete, LiveSet
<1> QED  BY <1>1, Linear, PTL

----------------------------------------------------------------------------
(* Exactness.  After an error the process goes back to its last_seen and   *)
(* replays; the deltas then run again from at most one past the last       *)
(* height applied, so a row put back by the replay is removed again before *)
(* the tail is caught up.  A crash resumes from the checkpoint instead:    *)
(* that skips nothing unless the checkpoint is ahead of the last deltas.   *)

Ordered ==
  /\ pc # "down" => lastSeen <= applied
  /\ pc \in Passes => lastSeen < height /\ height <= applied + 1
  /\ pc \in AfterDeltas => height = applied
  /\ booting /\ pc \in Passes => height = ckpt + 1
  /\ booting => ckpt <= applied

InOrder ==
  /\ pc = "down" => booting
  /\ pc = "idle" => ~booting
  /\ replayCut \/ Ordered

RowsUnspent ==
  ~replayCut => \A o \in TokenOut : live[o] # NoRow =>
                 \A j \in 1..applied : o \notin Spends(chain[j])

LEMMA InOrderStep ==
  ASSUME TypeOK, ControlOK, NoSkip, InOrder, [Next]_vars
  PROVE  InOrder'
<1>1. Numbers
  BY NumbersHold
<1> USE DEF InOrder, Ordered, Numbers, InBlock, AfterDeltas, Passes
<1>3. CASE NodeAdvance
  BY <1>3 DEF NodeAdvance, process, batch, bounds, history
<1>4. CASE Start
  BY <1>1, <1>4 DEF Start, bounds, history
<1>5. CASE Tick
  BY <1>1, <1>5 DEF Tick, HasDelta, bounds, history
<1>6. CASE CheckReorg
  BY <1>6 DEF CheckReorg, process, bounds, history
<1>7. CASE UnwindLive \/ UnwindCrc20 \/ UnwindEdges \/ ReloadMembers
  BY <1>7 DEF UnwindLive, UnwindCrc20, UnwindEdges, ReloadMembers, NoSkip
<1>8. CASE FetchBlock
  BY <1>8 DEF FetchBlock, bounds, history
<1>9. CASE Within
  BY <1>1, <1>9, WithinKeeps
<1>10. CASE WriteBlockRow
  BY <1>1, <1>10 DEF WriteBlockRow, process, history
<1>11. CASE ApplyDeltas
  BY <1>1, <1>11 DEF ApplyDeltas, process, bounds
<1>12. CASE SaveCheckpoint
  BY <1>1, <1>12 DEF SaveCheckpoint, bounds, history
<1>13. CASE Error
  BY <1>1, <1>13 DEF Error, AbandonBlock, SeenAfterError
<1>14. CASE Crash
  <2>1. replayCut' <=> replayCut \/ applied < ckpt
    BY <1>14, Zenon DEF Crash
  <2> QED
    BY <1>1, <1>14, <2>1 DEF Crash, AbandonBlock
<1>15. CASE UNCHANGED vars \/ CanonicalTimer
  BY <1>15 DEF vars, CanonicalTimer, process, bounds, history
<1> QED
  BY <1>3, <1>4, <1>5, <1>6, <1>7, <1>8, <1>9, <1>10, <1>11, <1>12, <1>13, <1>14, <1>15
     DEF Next, CatchUp, ProcessBlock, Within

LEMMA UnspentStep ==
  ASSUME LinearChains, TypeOK, ControlOK, LinearInv, InOrder, RowsUnspent, [Next]_vars
  PROVE  RowsUnspent'
<1>1. Numbers
  BY NumbersHold
<1>2. \A i \in 1..frontier : chain'[i] = chain[i]
  BY <1>1, ChainExtends DEF LinearInv, NoSkip, Numbers
<1>3. CASE ApplyDeltas
  <2>1. /\ pc = "deltas" /\ height \in Nat /\ height >= 1
        /\ replayCut \/ height <= applied + 1
        /\ height \in DOMAIN chain /\ DOMAIN chain = 1..Len(chain) /\ height <= Len(chain)
        /\ block = chain[height] /\ chain' = chain /\ applied \in Nat /\ Len(chain) \in Nat
    BY <1>1, <1>3 DEF ApplyDeltas, LinearInv, NoSkip, Numbers, Passes, InBlock, InOrder, Ordered
  <2>2. applied' = height
    BY <1>3 DEF ApplyDeltas
  <2>3. \A o \in TokenOut : live'[o] = IF o \in Spends(block) THEN NoRow
                                       ELSE IF o \in Creates(block) THEN height ELSE live[o]
    BY <1>3 DEF ApplyDeltas, LiveAfter
  <2>a. replayCut' = replayCut
    BY <1>3 DEF ApplyDeltas
  <2> SUFFICES ASSUME ~replayCut, NEW o \in TokenOut, live'[o] # NoRow, NEW j \in 1..height
               PROVE  o \notin Spends(chain[j])
    BY <2>1, <2>2, <2>a DEF RowsUnspent
  <2>4. o \notin Spends(chain[height])
    BY <2>1, <2>3
  <2>5. CASE o \in Creates(block)
    <3>1. ValidChain(chain)
      BY TailAssumption DEF TypeOK
    <3>2. o.tx \in TxsOf(chain[height])
      BY <2>1, <2>5, CreatesFrom
    <3>3. o \in Spends(chain[j]) => height <= j
      BY <2>1, <3>1, <3>2 DEF ValidChain
    <3> QED  BY <2>1, <2>4, <3>3
  <2>6. CASE o \notin Creates(block)
    <3>1. live[o] # NoRow
      BY <2>3, <2>4, <2>6, <2>1
    <3>2. CASE j = height
      BY <2>4, <3>2
    <3>3. CASE j # height
      BY <2>1, <3>1, <3>3 DEF RowsUnspent
    <3> QED  BY <3>2, <3>3
  <2> QED  BY <2>5, <2>6
<1>4. CASE UNCHANGED <<live, applied>> /\ (replayCut => replayCut')
  <2>1. applied \in Nat /\ frontier \in Nat /\ applied <= frontier
    BY <1>1 DEF Numbers, LinearInv, NoSkip
  <2> QED  BY <1>2, <1>4, <2>1 DEF RowsUnspent
<1>5. ApplyDeltas \/ (UNCHANGED <<live, applied>> /\ (replayCut => replayCut'))
  BY DEF LinearInv, NoSkip, Next, CatchUp, ProcessBlock, vars, NodeAdvance, Start, Tick,
         CheckReorg, UnwindLive, UnwindCrc20, UnwindEdges, ReloadMembers, FetchBlock,
         SeedMembers, UpsertTokens, UpsertListings, FindCloses, ApplyClose, WriteBlockRow,
         WriteReveal, ResolveCanonical, WriteState, ScanAuthchain, RecordEdge,
         SaveCheckpoint, CanonicalTimer, Error, Crash, AbandonBlock, tables, process, bounds, history
<1> QED  BY <1>3, <1>4, <1>5

ExactInv == TypeOK /\ ControlOK /\ LinearInv /\ InOrder /\ RowsUnspent

LEMMA Exact == LinearChains => (Spec => []ExactInv)
<1> SUFFICES ASSUME LinearChains PROVE Spec => []ExactInv
  OBVIOUS
<1>1. Init => ExactInv
  <2>1. Init => InOrder /\ RowsUnspent
    BY TailAssumption DEF Init, InOrder, Ordered, RowsUnspent, Passes, AfterDeltas
  <2> QED  BY <2>1, TypeOKInit, LinearInit DEF ExactInv
<1>2. ExactInv /\ [Next]_vars => ExactInv'
  BY TypeOKStep, NoSkipStep, RowsStep, InOrderStep, UnspentStep DEF ExactInv, LinearInv
<1> QED  BY <1>1, <1>2, PTL DEF Spec

(* Without a reorg, whenever the tail is caught up live_token_utxo is      *)
(* exactly the chain's unspent token outputs, each at its height of        *)
(* creation, whatever errors and crashes came before: only a crash between *)
(* a replayed block's deltas and its checkpoint can break it (replayCut).  *)
THEOREM CaughtUpExact == LinearChains => (Spec => []LiveMatchesChain)
<1>1. ExactInv => LiveMatchesChain
  <2> SUFFICES ASSUME ExactInv, CaughtUp, ~replayCut
               PROVE  LiveSet = UtxosAt(Len(chain))
                      /\ \A o \in LiveSet : o \in Creates(chain[live[o]])
    BY DEF LiveMatchesChain
  <2>1. Numbers
    BY NumbersHold DEF ExactInv
  <2>2. applied = Len(chain) /\ frontier = Len(chain)
    BY <2>1 DEF ExactInv, LinearInv, NoSkip, InOrder, Ordered, CaughtUp, Numbers
  <2>3. ASSUME NEW o \in LiveSet
        PROVE  o \in UtxosAt(Len(chain)) /\ o \in Creates(chain[live[o]])
    <3>1. o \in TokenOut /\ live[o] # NoRow
      BY DEF LiveSet
    <3>2. live[o] \in 1..Len(chain) /\ o \in Creates(chain[live[o]])
      BY <2>2, <3>1 DEF ExactInv, LinearInv, RowsSound
    <3>3. \A j \in 1..Len(chain) : o \notin Spends(chain[j])
      BY <2>2, <3>1 DEF ExactInv, RowsUnspent
    <3> QED  BY <3>2, <3>3 DEF UtxosAt, CreatedBy, SpentBy
  <2>4. ASSUME NEW o \in UtxosAt(Len(chain))
        PROVE  o \in LiveSet
    <3>1. PICK i \in 1..Len(chain) : o \in Creates(chain[i])
      BY DEF UtxosAt, CreatedBy
    <3>2. o \in TokenOut
      BY <3>1, ChainIn, CreatesIn DEF ExactInv, TypeOK
    <3>3. \A j \in 1..Len(chain) : o \notin Spends(chain[j])
      BY DEF UtxosAt, SpentBy
    <3> QED  BY <2>2, <3>1, <3>2, <3>3 DEF ExactInv, LinearInv, RowsComplete, LiveSet
  <2> QED  BY <2>3, <2>4
<1> QED  BY <1>1, Exact, PTL

=============================================================================
