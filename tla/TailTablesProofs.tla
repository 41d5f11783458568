-------------------------- MODULE TailTablesProofs --------------------------
(***************************************************************************)
(* Further theorems about sync-tail, for every set of chains, block        *)
(* contents and bounds on failures.  With reorgs at any moment:            *)
(*                                                                         *)
(*   ClosedOffersStay   Spec => ClosedForGood                              *)
(*   NobodyMissed       Spec => []MembersComplete                          *)
(*   ReorgsUnwound      Spec => []ReprocessedClean                         *)
(*                                                                         *)
(* and without a reorg:                                                    *)
(*                                                                         *)
(*   TokensExact        Spec => []TokensMatchChain                         *)
(*   OffersExact        Spec => []OffersMatchChain                         *)
(*   RevealsExact       Spec => []Crc20MatchesChain                        *)
(*   StatesFresh        Spec => []StateFresh                               *)
(*   AuthchainExact     Spec => []AuthchainComplete, where moreover no     *)
(*                      block spends a vout[0] before it creates it        *)
(*                                                                         *)
(* TypeOK and ControlOK, and LinearInv and InOrder where there is no       *)
(* reorg, come from TailSyncProofs; each section adds the invariant of the *)
(* tables it is about.                                                     *)
(***************************************************************************)
EXTENDS TailSyncProofs

----------------------------------------------------------------------------
(* Closed offers.                                                          *)

(* A closed offer is never re-opened, re-closed or rewritten, whatever is  *)
(* replayed or reorged (the status guard, ON CONFLICT DO NOTHING).         *)
THEOREM ClosedOffersStay == Spec => ClosedForGood
<1>1. [Next]_vars => [\A t \in TxId : Closed(t) => offers'[t] = offers[t]]_vars
  <2> SUFFICES ASSUME [Next]_vars, NEW t \in TxId, Closed(t)
               PROVE  offers'[t] = offers[t]
    OBVIOUS
  <2>1. CASE UpsertListings
    BY <2>1 DEF UpsertListings, InsertOffer, Closed
  <2>2. CASE ApplyClose
    BY <2>2 DEF ApplyClose, IsOpen, Closed
  <2>3. CASE UNCHANGED offers
    BY <2>3
  <2>4. UpsertListings \/ ApplyClose \/ UNCHANGED offers
    BY DEF Next, CatchUp, ProcessBlock, vars, NodeAdvance, Start, Tick, CheckReorg, UnwindLive,
       UnwindCrc20, UnwindEdges, ReloadMembers, FetchBlock, SeedMembers, UpsertTokens, FindCloses,
       WriteBlockRow, WriteReveal, ResolveCanonical, ApplyDeltas, WriteState, ScanAuthchain,
       RecordEdge, SaveCheckpoint, CanonicalTimer, Error, Crash, tables
  <2> QED  BY <2>1, <2>2, <2>3, <2>4
<1> QED  BY <1>1, PTL DEF Spec, ClosedForGood

----------------------------------------------------------------------------
(* The member set in memory.                                               *)

(* Who is about to enter the tables is in the set already.                 *)
MembersKnown ==
  /\ pc # "down" => MembersOf(tokens, edges) \subseteq members
  /\ pc = "tokens" => Seeds(block) \subseteq members
  /\ pc = "edges" => \A e \in todo : TxAt(block, e) \in members

(* What the scan adds contains the spender of every edge it found.         *)
LEMMA ScannedClosed ==
  ASSUME NEW b, NEW mem, NEW e \in NewEdges(b, mem)
  PROVE  TxAt(b, e) \in Scanned(b, mem)
<1> DEFINE Closing(S) == \A f \in Vout0Spends(b) : FedBy(b, mem, S, f) => TxAt(b, f) \in S
<1>1. e \in Vout0Spends(b) /\ FedBy(b, mem, Scanned(b, mem), e)
  BY DEF NewEdges
<1>2. TxAt(b, e) \in TxsOf(b)
  BY <1>1 DEF Vout0Spends, Inputs, TxAt, TxsOf
<1>3. ASSUME NEW S \in SUBSET TxsOf(b), Closing(S)
      PROVE  TxAt(b, e) \in S
  <2>1. Scanned(b, mem) \subseteq S
    BY <1>3 DEF Scanned
  <2>2. FedBy(b, mem, S, e)
    BY <1>1, <2>1 DEF FedBy
  <2> QED  BY <1>1, <1>3, <2>2
<1> QED  BY <1>2, <1>3 DEF Scanned

(* The steps that move neither table nor set, and start no pass of theirs. *)
LEMMA MembersStay ==
  ASSUME MembersKnown, UNCHANGED <<tokens, edges, members>>, pc = "down" => pc' = "down",
         pc' \notin {"tokens", "edges"}
  PROVE  MembersKnown'
BY DEF MembersKnown, MembersOf

LEMMA MembersStep ==
  ASSUME TypeOK, ControlOK, MembersKnown, [Next]_vars
  PROVE  MembersKnown'
<1>1. CASE UNCHANGED <<tokens, edges, members, pc, block, todo>>
  BY <1>1 DEF MembersKnown, MembersOf, Seeds, FoundCategories, TxAt
<1>2. CASE Start
  <2>1. members' = MembersOf(tokens, edges) /\ UNCHANGED <<tokens, edges>> /\ pc' \in {"check", "idle"}
    BY <1>2 DEF Start, tables
  <2> QED  BY <2>1 DEF MembersKnown, MembersOf
<1>3. CASE UnwindEdges
  <2>1. /\ pc = "unwindEdges" /\ pc' = "reload" /\ UNCHANGED <<tokens, members>>
        /\ \A t \in TxId : edges'[t] # None => edges'[t] = edges[t]
    BY <1>3 DEF UnwindEdges, process
  <2>2. MembersOf(tokens, edges)' \subseteq MembersOf(tokens, edges)
    BY <2>1 DEF MembersOf
  <2> QED  BY <2>1, <2>2 DEF MembersKnown
<1>4. CASE ReloadMembers
  <2>1. members' = MembersOf(tokens, edges) /\ UNCHANGED <<tokens, edges>> /\ pc' = "fetch"
    BY <1>4 DEF ReloadMembers, tables
  <2> QED  BY <2>1 DEF MembersKnown, MembersOf
<1>5. CASE SeedMembers
  <2>1. /\ pc = "seed" /\ pc' = "tokens" /\ members' = members \cup Seeds(block)
        /\ UNCHANGED <<tokens, edges, block>>
    BY <1>5 DEF SeedMembers, tables
  <2> QED  BY <2>1 DEF MembersKnown, MembersOf, Seeds
<1>6. CASE UpsertTokens
  <2>1. pc = "tokens" /\ pc' = "listings" /\ UNCHANGED <<edges, members>>
    BY <1>6 DEF UpsertTokens, process
  <2>2. ASSUME NEW c \in Category, tokens'[c] # None
        PROVE  tokens'[c].genesis \in members
    <3>1. CASE tokens[c] = None
      <4>1. c \in FoundCategories(block) /\ tokens'[c].genesis = FoundTx(block, c)
        BY <1>6, <2>2, <3>1 DEF UpsertTokens, UpsertToken
      <4> QED  BY <2>1, <4>1 DEF MembersKnown, Seeds
    <3>2. CASE tokens[c] # None
      <4>1. tokens[c] \in TokenRow
        BY <3>2 DEF TypeOK
      <4>2. tokens'[c].genesis = tokens[c].genesis
        BY <1>6, <3>2, <4>1 DEF UpsertTokens, UpsertToken, TokenRow
      <4> QED  BY <2>1, <3>2, <4>2 DEF MembersKnown, MembersOf
    <3> QED  BY <3>1, <3>2
  <2> QED  BY <2>1, <2>2 DEF MembersKnown, MembersOf
<1>7. CASE ScanAuthchain
  <2>1. /\ pc = "scan" /\ pc' \in {"edges", "save"} /\ UNCHANGED <<tokens, edges, block>>
        /\ todo' = NewEdges(block, members) /\ members' = members \cup Scanned(block, members)
    BY <1>7 DEF ScanAuthchain, tables
  <2>2. \A e \in todo' : TxAt(block, e) \in members'
    BY <2>1, ScannedClosed
  <2> QED  BY <2>1, <2>2 DEF MembersKnown, MembersOf, TxAt
<1>8. CASE RecordEdge
  <2> DEFINE e == First(todo)
  <2>1. /\ pc = "edges" /\ pc' \in {"edges", "save"} /\ UNCHANGED <<tokens, members, block>>
        /\ todo' \subseteq todo /\ edges' = InsertEdge(PrevAt(block, e).tx, TxAt(block, e))
    BY <1>8 DEF RecordEdge, process
  <2>2. e \in todo
    BY <1>8, NextInput, CandidatesIn DEF RecordEdge, ControlOK, InBlock, Passes
  <2>3. TxAt(block, e) \in members
    BY <2>1, <2>2 DEF MembersKnown
  <2>4. ASSUME NEW t \in TxId, edges'[t] # None
        PROVE  edges'[t].child \in members
    <3>1. CASE edges'[t] = edges[t]
      BY <2>1, <2>4, <3>1 DEF MembersKnown, MembersOf
    <3>2. CASE edges'[t] # edges[t]
      <4> HIDE DEF e
      <4>1. edges'[t] = [child |-> TxAt(block, e), height |-> height]
        BY <2>1, <3>2 DEF InsertEdge, TypeOK
      <4> QED  BY <2>3, <4>1
    <3> QED  BY <3>1, <3>2
  <2> QED  BY <2>1, <2>4 DEF MembersKnown, MembersOf, TxAt
<1>9. \/ UNCHANGED <<tokens, edges, members, pc, block, todo>> \/ Start \/ UnwindEdges \/ ReloadMembers
      \/ SeedMembers \/ UpsertTokens \/ ScanAuthchain \/ RecordEdge
      \/ /\ UNCHANGED <<tokens, edges, members>>
         /\ pc = "down" => pc' = "down"
         /\ pc' \notin {"tokens", "edges"}
  BY DEF Next, CatchUp, ProcessBlock, vars, NodeAdvance, Tick, CheckReorg, UnwindLive, UnwindCrc20,
     FetchBlock, UpsertListings, FindCloses, ApplyClose, WriteBlockRow, WriteReveal, ResolveCanonical,
     ApplyDeltas, WriteState, SaveCheckpoint, CanonicalTimer, Error, Crash, tables, process, batch,
     Passes
<1>10. ASSUME UNCHANGED <<tokens, edges, members>>, pc = "down" => pc' = "down",
              pc' \notin {"tokens", "edges"}
       PROVE  MembersKnown'
  BY <1>10, MembersStay
<1> QED  BY <1>1, <1>2, <1>3, <1>4, <1>5, <1>6, <1>7, <1>8, <1>9, <1>10

(* The member set in memory never misses a member the tables know of,      *)
(* through failed blocks, reorgs and restarts: pass 1 puts every genesis   *)
(* in it before the upsert, pass 7 every child before its edge.            *)
THEOREM NobodyMissed == Spec => []MembersComplete
<1>1. Init => MembersKnown
  BY DEF Init, MembersKnown
<1>2. TypeOK /\ ControlOK /\ MembersKnown /\ [Next]_vars => MembersKnown'
  BY MembersStep
<1>3. MembersKnown => MembersComplete
  BY DEF MembersKnown, MembersComplete
<1> QED  BY <1>1, <1>2, <1>3, Typed, PTL DEF Spec

----------------------------------------------------------------------------
(* One block per height.  As long as no check was blind, the rows of a     *)
(* height all stem from the block recorded for it; a height is given       *)
(* another block only once its rows are gone.                              *)

LiveStems(h) ==
  \A o \in TokenOut : live[o] = h => blocks[h] # None /\ o \in Creates(blocks[h])

EdgesStem(h) ==
  \A t \in TxId : edges[t] # None /\ edges[t].height = h =>
    /\ blocks[h] # None
    /\ \E e \in Vout0Spends(blocks[h]) :
         PrevAt(blocks[h], e).tx = t /\ TxAt(blocks[h], e) = edges[t].child

RevealsStem(h) ==
  \A c \in Category : crc20[c] # None /\ crc20[c].reveal = h =>
    blocks[h] # None /\ \E e \in Reveals(blocks[h]) : PrevAt(blocks[h], e).tx = c

Stems == \A h \in Heights : LiveStems(h) /\ EdgesStem(h) /\ RevealsStem(h)

NoLive(h) == \A o \in TokenOut : live[o] # h
NoReveals(h) == \A c \in Category : crc20[c] # None => crc20[c].reveal # h
NoEdges(h) == \A t \in TxId : edges[t] # None => edges[t].height # h
Bare(h) == NoLive(h) /\ NoReveals(h) /\ NoEdges(h)

BeforeRow == {"seed", "tokens", "listings", "findCloses", "closes", "blockRow"}
AfterRow == {"crc20", "resolve", "deltas", "states", "scan", "edges", "save"}

AtHand ==
  /\ pc \in {"unwindCrc20", "unwindEdges", "reload"} => NoLive(height)
  /\ pc \in {"unwindEdges", "reload"} => NoReveals(height)
  /\ pc = "reload" => NoEdges(height)
  /\ pc = "fetch" => Bare(height) \/ blocks[height] = chain[height]
  /\ pc \in BeforeRow => Bare(height) \/ blocks[height] = block
  /\ pc \in AfterRow => blocks[height] = block

Unwound == ~blind => Stems /\ AtHand

(* A step that writes no row and no block, and may delete rows.            *)
RowsShrink ==
  /\ blocks' = blocks
  /\ \A o \in TokenOut : live'[o] \in {live[o], NoRow}
  /\ \A t \in TxId : edges'[t] \in {edges[t], None}
  /\ \A c \in Category : crc20'[c] # None => crc20[c] # None /\ crc20'[c].reveal = crc20[c].reveal

LEMMA ShrinkKeeps ==
  ASSUME RowsShrink
  PROVE  /\ Stems => Stems'
         /\ \A h \in Heights : /\ NoLive(h) => NoLive(h)'
                               /\ NoReveals(h) => NoReveals(h)'
                               /\ NoEdges(h) => NoEdges(h)'
                               /\ Bare(h) => Bare(h)'
<1>1. \A h \in Heights : h # NoRow
  BY TailAssumption DEF Heights, NoRow
<1>2. ASSUME NEW h \in Heights
      PROVE  /\ NoLive(h) => NoLive(h)'
             /\ NoReveals(h) => NoReveals(h)'
             /\ NoEdges(h) => NoEdges(h)'
  BY <1>1 DEF RowsShrink, NoLive, NoReveals, NoEdges
<1>3. ASSUME NEW h \in Heights
      PROVE  /\ LiveStems(h) => LiveStems(h)'
             /\ EdgesStem(h) => EdgesStem(h)'
             /\ RevealsStem(h) => RevealsStem(h)'
  <2>1. LiveStems(h) => LiveStems(h)'
    BY <1>1 DEF RowsShrink, LiveStems
  <2>2. EdgesStem(h) => EdgesStem(h)'
    BY DEF RowsShrink, EdgesStem
  <2>3. RevealsStem(h) => RevealsStem(h)'
    BY DEF RowsShrink, RevealsStem
  <2> QED  BY <2>1, <2>2, <2>3
<1> QED  BY <1>2, <1>3 DEF Stems, Bare

(* The four steps that write a row or a block.                             *)
Writes == WriteBlockRow \/ WriteReveal \/ ApplyDeltas \/ RecordEdge

LEMMA OthersShrink ==
  ASSUME TypeOK, [Next]_vars, ~Writes
  PROVE  RowsShrink
<1>1. CASE UNCHANGED <<blocks, live, edges, crc20>>
  BY <1>1 DEF RowsShrink
<1>2. CASE UnwindLive
  BY <1>2 DEF UnwindLive, RowsShrink
<1>3. CASE UnwindCrc20
  BY <1>3 DEF UnwindCrc20, RowsShrink
<1>4. CASE UnwindEdges
  BY <1>4 DEF UnwindEdges, RowsShrink
<1>5. CASE ResolveCanonical \/ CanonicalTimer
  <2>1. UNCHANGED <<blocks, live, edges>> /\ crc20' = ResolvedTable
    BY <1>5 DEF ResolveCanonical, CanonicalTimer
  <2>2. ASSUME NEW c \in Category, crc20'[c] # None
        PROVE  crc20[c] # None /\ crc20'[c].reveal = crc20[c].reveal
    <3>1. crc20[c] # None
      BY <2>1, <2>2 DEF ResolvedTable
    <3>2. crc20[c] \in Crc20Row
      BY <3>1 DEF TypeOK
    <3> QED  BY <2>1, <3>1, <3>2 DEF ResolvedTable, Crc20Row
  <2> QED  BY <2>1, <2>2 DEF RowsShrink
<1>6. \/ UNCHANGED <<blocks, live, edges, crc20>> \/ UnwindLive \/ UnwindCrc20 \/ UnwindEdges
      \/ ResolveCanonical \/ CanonicalTimer
  BY DEF Writes, Next, CatchUp, ProcessBlock, vars, NodeAdvance, Start, Tick, CheckReorg, ReloadMembers,
     FetchBlock, SeedMembers, UpsertTokens, UpsertListings, FindCloses, ApplyClose, WriteState,
     ScanAuthchain, SaveCheckpoint, Error, Crash, tables
<1> QED  BY <1>1, <1>2, <1>3, <1>4, <1>5, <1>6

LEMMA BlindStays ==
  ASSUME TypeOK, [Next]_vars, ~blind'
  PROVE  ~blind /\ (NodeAdvance /\ pc \in Unguarded => Extends(chain'))
<1>1. CASE NodeAdvance
  <2>1. PICK c \in Chains : chain' = c /\ blind' = (blind \/ (pc \in Unguarded /\ ~Extends(c)))
    BY <1>1 DEF NodeAdvance
  <2>2. ~(blind \/ (pc \in Unguarded /\ ~Extends(c)))
    BY <2>1, Zenon
  <2> QED  BY <2>1, <2>2
<1>2. CASE WriteBlockRow
  BY <1>2 DEF WriteBlockRow, NodeAdvance, Unguarded, tables, process, batch
<1>3. CASE UNCHANGED blind /\ ~NodeAdvance
  BY <1>3
<1>4. NodeAdvance \/ WriteBlockRow \/ UNCHANGED blind
  BY DEF Next, CatchUp, ProcessBlock, vars, Start, Tick, CheckReorg, UnwindLive, UnwindCrc20,
     UnwindEdges, ReloadMembers, FetchBlock, SeedMembers, UpsertTokens, UpsertListings, FindCloses,
     ApplyClose, WriteReveal, ResolveCanonical, ApplyDeltas, WriteState, ScanAuthchain, RecordEdge,
     SaveCheckpoint, CanonicalTimer, Error, Crash, history
<1> QED  BY <1>1, <1>2, <1>3, <1>4

LEMMA AtHandStep ==
  ASSUME TypeOK, ControlOK, Stems, AtHand, [Next]_vars, ~Writes, ~blind'
  PROVE  AtHand'
<1>1. RowsShrink /\ blocks' = blocks
  BY OthersShrink DEF RowsShrink
<1>2. Numbers
  BY NumbersHold
<1> PICK h : h = height
  OBVIOUS
<1>3. pc \in Passes => h \in Heights /\ h \in DOMAIN chain
  BY <1>2 DEF Numbers, Heights
<1>4. h \in Heights => /\ NoLive(h) => NoLive(h)'
                       /\ NoReveals(h) => NoReveals(h)'
                       /\ NoEdges(h) => NoEdges(h)'
                       /\ Bare(h) => Bare(h)'
  BY <1>1, ShrinkKeeps
<1> USE DEF BeforeRow, AfterRow, Passes
<1>5. CASE NodeAdvance
  <2>1. UNCHANGED <<pc, height, block>>
    BY <1>5 DEF NodeAdvance, process
  <2>2. pc = "fetch" => chain'[h] = chain[h]
    BY <1>3, <1>5, BlindStays DEF Unguarded, Extends
  <2> QED  BY <1>1, <1>3, <1>4, <2>1, <2>2 DEF AtHand
<1>6. CASE UNCHANGED <<pc, height, block, chain>>
  BY <1>1, <1>3, <1>4, <1>6 DEF AtHand
<1>7. CASE pc' \in {"down", "idle", "check", "unwindLive"}
  BY <1>7 DEF AtHand
<1>8. CASE CheckReorg
  <2>1. UNCHANGED <<chain, height>> /\ pc' \in {"fetch", "unwindLive"}
        /\ (pc' = "fetch" => blocks[h] \in {None, chain[h]}) /\ h \in Heights
    BY <1>3, <1>8 DEF CheckReorg, process
  <2>2. blocks[h] = None => Bare(h)
    BY <2>1 DEF Stems, LiveStems, RevealsStem, EdgesStem, Bare, NoLive, NoReveals, NoEdges
  <2> QED  BY <1>1, <1>4, <2>1, <2>2 DEF AtHand
<1>9. CASE UnwindLive
  <2>1. h \in Nat /\ h # NoRow
    BY <1>2 DEF Numbers, NoRow
  <2>2. NoLive(h)'
    BY <1>9, <2>1 DEF UnwindLive, CreatedAtOrAbove, NoLive, TypeOK
  <2> QED  BY <1>9, <2>2 DEF UnwindLive, process, AtHand
<1>10. CASE UnwindCrc20
  <2>1. NoReveals(h)'
    BY <1>10 DEF UnwindCrc20, NoReveals
  <2> QED  BY <1>3, <1>4, <1>10, <2>1 DEF UnwindCrc20, process, AtHand
<1>11. CASE UnwindEdges
  <2>1. NoEdges(h)'
    BY <1>2, <1>11 DEF UnwindEdges, NoEdges, Numbers
  <2> QED  BY <1>3, <1>4, <1>11, <2>1 DEF UnwindEdges, process, AtHand
<1>12. CASE ReloadMembers
  BY <1>3, <1>4, <1>12 DEF ReloadMembers, AtHand, Bare
<1>13. CASE FetchBlock
  <2>1. pc = "fetch" /\ pc' = "seed" /\ block' = chain[h] /\ height' = h
    BY <1>13 DEF FetchBlock
  <2> QED  BY <1>1, <1>3, <1>4, <2>1 DEF AtHand
<1>14. CASE SeedMembers \/ UpsertTokens \/ UpsertListings \/ FindCloses \/ ApplyClose
  <2>1. pc \in BeforeRow /\ pc' \in BeforeRow /\ UNCHANGED <<height, block>>
    BY <1>14 DEF SeedMembers, UpsertTokens, UpsertListings, FindCloses, ApplyClose, process
  <2> QED  BY <1>1, <1>3, <1>4, <2>1 DEF AtHand
<1>15. CASE ResolveCanonical \/ (\E c \in Category : WriteState(c)) \/ ScanAuthchain
  <2>1. pc \in AfterRow /\ pc' \in AfterRow /\ UNCHANGED <<height, block>>
    BY <1>15 DEF ResolveCanonical, WriteState, ScanAuthchain, process
  <2> QED  BY <1>1, <1>3, <1>4, <2>1 DEF AtHand
<1>16. Start \/ Tick \/ SaveCheckpoint \/ Error \/ Crash => pc' \in {"down", "idle", "check", "unwindLive"}
  BY DEF Start, Tick, SaveCheckpoint, Error, Crash
<1>17. CanonicalTimer \/ UNCHANGED vars => UNCHANGED <<pc, height, block, chain>>
  BY DEF CanonicalTimer, vars, process
<1> QED
  BY <1>5, <1>6, <1>7, <1>8, <1>9, <1>10, <1>11, <1>12, <1>13, <1>14, <1>15, <1>16, <1>17
     DEF Writes, Next, CatchUp, ProcessBlock

(* The block's own row is written before any other row of its height, and  *)
(* what is written afterwards stems from it.                               *)
LEMMA WritesKeep ==
  ASSUME TypeOK, ControlOK, Stems, AtHand, Writes, ~blind, ~blind'
  PROVE  Stems' /\ AtHand'
<1>1. Numbers
  BY NumbersHold
<1> PICK h : h = height
  OBVIOUS
<1> PICK b : b = block
  OBVIOUS
<1>2. pc \in Passes /\ pc \in InBlock /\ h \in Heights /\ b \in Block /\ height' = h /\ block' = b
      /\ NoRow \notin Heights /\ None \notin Block
  BY <1>1, ChainDataTypes DEF Writes, WriteBlockRow, WriteReveal, ApplyDeltas, RecordEdge, Numbers, Heights,
     ControlOK, Passes, InBlock, process, NoRow
<1>3. CASE WriteBlockRow
  <2>1. /\ pc = "blockRow" /\ pc' \in {"deltas", "crc20"} /\ blocks' = [blocks EXCEPT ![h] = b]
        /\ UNCHANGED <<live, edges, crc20>>
    BY <1>3 DEF WriteBlockRow
  <2>2. blocks'[h] = b /\ \A k \in Heights : k # h => blocks'[k] = blocks[k]
    BY <1>2, <2>1 DEF TypeOK
  <2>3. Bare(h) \/ blocks[h] = b
    BY <2>1 DEF AtHand, BeforeRow
  <2>4. ASSUME NEW k \in Heights
        PROVE  (LiveStems(k) /\ EdgesStem(k) /\ RevealsStem(k))'
    <3>1. LiveStems(k) /\ EdgesStem(k) /\ RevealsStem(k)
      BY DEF Stems
    <3>2. CASE blocks'[k] = blocks[k]
      BY <2>1, <3>1, <3>2 DEF LiveStems, EdgesStem, RevealsStem
    <3>3. CASE k = h /\ Bare(h)
      BY <2>1, <3>3 DEF LiveStems, EdgesStem, RevealsStem, Bare, NoLive, NoEdges, NoReveals
    <3> QED  BY <2>2, <2>3, <3>2, <3>3
  <2>5. AtHand'
    BY <1>2, <2>1, <2>2 DEF AtHand, BeforeRow, AfterRow
  <2> QED  BY <2>4, <2>5 DEF Stems
<1>4. ASSUME pc \in AfterRow, pc' \in AfterRow, blocks' = blocks
      PROVE  AtHand' /\ blocks[h] = b
  BY <1>2, <1>4 DEF AtHand, BeforeRow, AfterRow
<1>5. CASE WriteReveal
  <2> DEFINE e == First(todo)
  <2>1. /\ pc = "crc20" /\ pc' \in {"crc20", "resolve"} /\ UNCHANGED <<blocks, live, edges>>
        /\ \E n : crc20' = UpsertReveal(e, n)
    BY <1>5 DEF WriteReveal
  <2>2. e \in Reveals(b)
    BY <1>2, <2>1, NextInput, CandidatesIn DEF ControlOK
  <2>3. AtHand' /\ blocks[h] = b
    BY <1>4, <2>1 DEF AfterRow
  <2>4. ASSUME NEW c \in Category, crc20'[c] # None
        PROVE  \/ crc20'[c] = crc20[c]
               \/ c = PrevAt(b, e).tx /\ crc20'[c].reveal = h
    <3> HIDE DEF e
    <3>1. PICK n : crc20' = UpsertReveal(e, n)
      BY <2>1
    <3> QED  BY <3>1 DEF UpsertReveal, TypeOK
  <2>5. ASSUME NEW k \in Heights
        PROVE  (LiveStems(k) /\ EdgesStem(k) /\ RevealsStem(k))'
    <3>1. LiveStems(k) /\ EdgesStem(k) /\ RevealsStem(k)
      BY DEF Stems
    <3> HIDE DEF e
    <3>2. RevealsStem(k)'
      BY <1>2, <2>1, <2>2, <2>3, <2>4, <3>1 DEF RevealsStem
    <3> QED  BY <2>1, <3>1, <3>2 DEF LiveStems, EdgesStem
  <2> QED  BY <2>3, <2>5 DEF Stems
<1>6. CASE ApplyDeltas
  <2>1. /\ pc = "deltas" /\ pc' \in {"scan", "states"} /\ UNCHANGED <<blocks, edges, crc20>>
        /\ live' = LiveAfter(b)
    BY <1>6 DEF ApplyDeltas
  <2>2. AtHand' /\ blocks[h] = b
    BY <1>4, <2>1 DEF AfterRow
  <2>3. ASSUME NEW k \in Heights
        PROVE  (LiveStems(k) /\ EdgesStem(k) /\ RevealsStem(k))'
    <3>1. LiveStems(k) /\ EdgesStem(k) /\ RevealsStem(k)
      BY DEF Stems
    <3>2. LiveStems(k)'
      BY <1>2, <2>1, <2>2, <3>1 DEF LiveStems, LiveAfter
    <3> QED  BY <2>1, <3>1, <3>2 DEF EdgesStem, RevealsStem
  <2> QED  BY <2>2, <2>3 DEF Stems
<1>7. CASE RecordEdge
  <2> DEFINE e == First(todo)
  <2>1. /\ pc = "edges" /\ pc' \in {"edges", "save"} /\ UNCHANGED <<blocks, live, crc20>>
        /\ edges' = InsertEdge(PrevAt(b, e).tx, TxAt(b, e))
    BY <1>7 DEF RecordEdge
  <2>2. e \in Vout0Spends(b)
    BY <1>2, <2>1, NextInput, CandidatesIn DEF ControlOK
  <2>3. AtHand' /\ blocks[h] = b
    BY <1>4, <2>1 DEF AfterRow
  <2>4. ASSUME NEW t \in TxId, edges'[t] # None
        PROVE  \/ edges'[t] = edges[t]
               \/ t = PrevAt(b, e).tx /\ edges'[t].height = h /\ edges'[t].child = TxAt(b, e)
    <3> HIDE DEF e
    <3> QED  BY <2>1 DEF InsertEdge, TypeOK
  <2>5. ASSUME NEW k \in Heights
        PROVE  (LiveStems(k) /\ EdgesStem(k) /\ RevealsStem(k))'
    <3>1. LiveStems(k) /\ EdgesStem(k) /\ RevealsStem(k)
      BY DEF Stems
    <3> HIDE DEF e
    <3>2. EdgesStem(k)'
      BY <1>2, <2>1, <2>2, <2>3, <2>4, <3>1 DEF EdgesStem
    <3> QED  BY <2>1, <3>1, <3>2 DEF LiveStems, RevealsStem
  <2> QED  BY <2>3, <2>5 DEF Stems
<1> QED  BY <1>3, <1>5, <1>6, <1>7 DEF Writes

(* Once a block has been processed, nothing the tables say of its height   *)
(* stems from another block: a reorg the tail detected has been unwound    *)
(* (unwind_live_utxo, delete_crc20_at_height, unwind_authchain_edges),     *)
(* whatever failed and however often the chain changed, blind checks       *)
(* excepted.                                                               *)
THEOREM ReorgsUnwound == Spec => []ReprocessedClean
<1>1. Init => Unwound
  BY TailAssumption DEF Init, Unwound, Stems, LiveStems, EdgesStem, RevealsStem, AtHand, BeforeRow, AfterRow,
     NoRow, Heights
<1>2. TypeOK /\ ControlOK /\ Unwound /\ [Next]_vars => Unwound'
  <2> SUFFICES ASSUME TypeOK, ControlOK, Unwound, [Next]_vars, ~blind'
               PROVE  Stems' /\ AtHand'
    BY DEF Unwound
  <2>1. ~blind /\ Stems /\ AtHand
    BY BlindStays DEF Unwound
  <2>2. CASE Writes
    BY <2>1, <2>2, WritesKeep
  <2>3. CASE ~Writes
    BY <2>1, <2>3, OthersShrink, ShrinkKeeps, AtHandStep
  <2> QED  BY <2>2, <2>3
<1>3. TypeOK /\ ControlOK /\ Unwound => ReprocessedClean
  <2> SUFFICES ASSUME TypeOK, ControlOK, Unwound, pc = "save", ~blind
               PROVE  ReprocessedClean
    BY DEF ReprocessedClean
  <2>1. height \in Heights /\ blocks[height] = block
    BY NumbersHold DEF Numbers, Heights, Passes, Unwound, AtHand, AfterRow
  <2> QED  BY <2>1 DEF Unwound, Stems, LiveStems, EdgesStem, RevealsStem, ReprocessedClean, LiveSet
<1> QED  BY <1>1, <1>2, <1>3, Typed, PTL DEF Spec

----------------------------------------------------------------------------
(* The tokens table, without a reorg.  Pass 1 commits before the deltas    *)
(* do, so the table tells of the blocks up to the frontier or of one more, *)
(* and a replayed block changes nothing in it.                             *)

Mentions(ch, c, m) == {h \in 1..m : c \in FoundCategories(ch[h])}
TypesUpTo(ch, c, m) == {FoundType(ch[h], c) : h \in Mentions(ch, c, m)}

TokenSays(row, ch, c, m) ==
  IF Mentions(ch, c, m) = {} THEN row = None
  ELSE /\ row \in TokenRow
       /\ row.type = MergedType(TypesUpTo(ch, c, m))
       /\ row.block \in Mentions(ch, c, m)
       /\ \A h \in Mentions(ch, c, m) : row.block <= h

TokensSay(tok, ch, m) == \A c \in Category : TokenSays(tok[c], ch, c, m)

AfterTokens == {"listings", "findCloses", "closes", "blockRow", "crc20", "resolve", "deltas"}

TokensInv ==
  \E m \in {frontier, frontier + 1} :
    /\ m <= Len(chain) /\ TokensSay(tokens, chain, m)
    /\ pc \in AfterTokens => height <= m

LEMMA MergedAdd ==
  ASSUME NEW S, S # {}, NEW x
  PROVE  MergeType(MergedType(S), x) = MergedType(S \cup {x})
<1>1. CASE \E a \in S : S = {a}
  <2> PICK a : S = {a}
    BY <1>1
  <2>1. MergedType(S) = a
    BY DEF MergedType
  <2>2. CASE x = a
    <3>1. S \cup {x} = S
      BY <2>2
    <3> QED  BY <2>1, <2>2, <3>1 DEF MergeType
  <2>3. CASE x # a
    <3>1. ~\E y \in S \cup {x} : S \cup {x} = {y}
      BY <2>3
    <3> QED  BY <2>1, <2>3, <3>1 DEF MergeType, MergedType
  <2> QED  BY <2>2, <2>3
<1>2. CASE ~\E a \in S : S = {a}
  <2>1. PICK a \in S, b \in S : a # b
    BY <1>2
  <2>2. ~\E y \in S \cup {x} : S \cup {x} = {y}
    BY <2>1
  <2> QED  BY <1>2, <2>2 DEF MergeType, MergedType
<1> QED  BY <1>1, <1>2

(* A longer chain says the same of the blocks both have.                   *)
LEMMA SameSays ==
  ASSUME NEW c1, NEW c2, NEW m, \A i \in 1..m : c2[i] = c1[i], NEW tok, TokensSay(tok, c1, m)
  PROVE  TokensSay(tok, c2, m)
<1>1. ASSUME NEW c \in Category
      PROVE  Mentions(c2, c, m) = Mentions(c1, c, m) /\ TypesUpTo(c2, c, m) = TypesUpTo(c1, c, m)
  <2>1. Mentions(c2, c, m) = Mentions(c1, c, m)
    BY DEF Mentions
  <2>2. \A h \in Mentions(c1, c, m) : c2[h] = c1[h]
    BY DEF Mentions
  <2> QED  BY <2>1, <2>2 DEF TypesUpTo
<1> QED  BY <1>1 DEF TokensSay, TokenSays

(* What the upsert does to one row, on the next block or on an earlier one. *)
LEMMA UpsertSays ==
  ASSUME TypeOK, NEW m \in Nat, NEW c \in Category, TokenSays(tokens[c], chain, c, m),
         height \in Heights, block \in Block, block = chain[height], height <= m + 1,
         NEW n \in Nat, n = IF height <= m THEN m ELSE height,
         NEW row, row = IF c \in FoundCategories(block) THEN UpsertToken(c) ELSE tokens[c]
  PROVE  TokenSays(row, chain, c, n)
<1> DEFINE K == Mentions(chain, c, m)
           L == Mentions(chain, c, n)
           types == TypesUpTo(chain, c, m)
<1>1. height \in Nat /\ height >= 1 /\ height <= n /\ (n = m \/ (n = height /\ n = m + 1))
  BY TailAssumption DEF Heights
<1>2. CASE c \notin FoundCategories(block)
  <2>1. L = K
    BY <1>1, <1>2 DEF Mentions
  <2>2. TypesUpTo(chain, c, n) = types
    BY <2>1 DEF TypesUpTo
  <2> QED  BY <1>2, <2>1, <2>2 DEF TokenSays
<1>3. CASE c \in FoundCategories(block)
  <2> PICK ty : ty = FoundType(block, c)
    OBVIOUS
  <2>1. L = K \cup {height}
    BY <1>1, <1>3 DEF Mentions
  <2>2. TypesUpTo(chain, c, n) = types \cup {ty}
    BY <2>1 DEF TypesUpTo
  <2>3. ty \in {"FT", "NFT", "FT+NFT"} /\ FoundTx(block, c) \in TxId
    BY <1>3, FoundTypeIn, FoundTxIn
  <2>4. K \subseteq 1..m /\ K \in SUBSET Nat
    BY DEF Mentions
  <2>5. CASE K = {}
    <3>1. tokens[c] = None
      BY <2>5 DEF TokenSays
    <3>2. row = [type |-> ty, genesis |-> FoundTx(block, c), block |-> height]
      BY <1>3, <3>1 DEF UpsertToken
    <3>3. row \in TokenRow /\ row.type = ty /\ row.block = height
      BY <2>3, <3>2 DEF TokenRow
    <3>4. types = {}
      BY <2>5 DEF TypesUpTo
    <3>5. MergedType(types \cup {ty}) = ty
      BY <3>4 DEF MergedType
    <3>6. L = {height}
      BY <2>1, <2>5
    <3> HIDE DEF types
    <3> QED  BY <1>1, <2>2, <3>3, <3>5, <3>6 DEF TokenSays
  <2>6. CASE K # {}
    <3>1. /\ tokens[c] \in TokenRow /\ tokens[c].type = MergedType(types)
          /\ tokens[c].block \in K /\ \A h \in K : tokens[c].block <= h
      BY <2>6 DEF TokenSays
    <3>2. tokens[c] # None
      BY <3>1, TailAssumption
    <3>3. row = [tokens[c] EXCEPT !.type = MergeType(tokens[c].type, ty)]
      BY <1>3, <3>2 DEF UpsertToken
    <3>4. types # {}
      BY <2>6 DEF TypesUpTo
    <3> HIDE DEF types
    <3>5. MergeType(tokens[c].type, ty) = MergedType(types \cup {ty})
      BY <3>1, <3>4, MergedAdd
    <3>6. MergeType(tokens[c].type, ty) \in {"FT", "NFT", "FT+NFT"}
      BY <2>3, <3>1 DEF MergeType, TokenRow
    <3>7. row \in TokenRow /\ row.type = MergeType(tokens[c].type, ty) /\ row.block = tokens[c].block
      BY <3>1, <3>3, <3>6 DEF TokenRow
    <3>8. \A h \in L : row.block <= h
      <4>1. row.block <= height
        <5>1. CASE height <= m
          BY <1>1, <1>3, <3>1, <3>7, <5>1 DEF Mentions
        <5>2. CASE height > m
          BY <1>1, <2>4, <3>1, <3>7, <5>2
        <5> QED  BY <1>1, <5>1, <5>2
      <4> QED  BY <2>1, <3>1, <3>7, <4>1
    <3>9. L # {} /\ row.block \in L
      BY <2>1, <3>1, <3>7
    <3> QED  BY <2>2, <3>5, <3>7, <3>8, <3>9 DEF TokenSays
  <2> QED  BY <2>5, <2>6
<1> QED  BY <1>2, <1>3

LEMMA TokensStep ==
  ASSUME LinearChains, TypeOK, ControlOK, LinearInv, TokensInv, [Next]_vars
  PROVE  TokensInv'
<1>1. Numbers
  BY NumbersHold
<1> PICK m \in {frontier, frontier + 1} :
      /\ m <= Len(chain) /\ TokensSay(tokens, chain, m)
      /\ pc \in AfterTokens => height <= m
  BY DEF TokensInv
<1>2. /\ m \in Nat /\ frontier \in Nat /\ frontier <= m /\ m <= Len(chain) /\ Len(chain) <= Len(chain')
      /\ Len(chain) \in Nat /\ Len(chain') \in Nat
      /\ \A i \in 1..m : chain'[i] = chain[i]
  BY <1>1, ChainExtends DEF Numbers
<1>3. CASE UpsertTokens
  <2>1. /\ pc = "tokens" /\ pc' = "listings" /\ UNCHANGED <<chain, height, frontier>>
        /\ block = chain[height] /\ height <= frontier + 1 /\ height \in Heights /\ block \in Block
        /\ height \in Nat /\ height <= Len(chain)
    BY <1>1, <1>3 DEF UpsertTokens, process, history, LinearInv, NoSkip, InBlock, Passes, Numbers, Heights,
       ControlOK
  <2>2. PICK n \in Nat : n = IF height <= m THEN m ELSE height
    BY <1>2, <2>1
  <2>3. n \in {frontier, frontier + 1} /\ n <= Len(chain) /\ height <= n
    BY <1>2, <2>1, <2>2
  <2>4. ASSUME NEW c \in Category
        PROVE  TokenSays(tokens'[c], chain, c, n)
    <3>1. TokenSays(tokens[c], chain, c, m)
      BY DEF TokensSay
    <3>2. height <= m + 1
      BY <1>2, <2>1
    <3>3. PICK row : row = tokens'[c] /\ row = IF c \in FoundCategories(block) THEN UpsertToken(c)
                                               ELSE tokens[c]
      BY <1>3 DEF UpsertTokens
    <3>4. TokenSays(row, chain, c, n)
      BY <1>2, <2>1, <2>2, <3>1, <3>2, <3>3, UpsertSays
    <3> QED  BY <3>3, <3>4
  <2>5. TokensSay(tokens', chain, n)
    BY <2>4 DEF TokensSay
  <2> QED  BY <2>1, <2>3, <2>5 DEF TokensInv
<1>4. CASE ApplyDeltas
  <2>1. /\ height <= m /\ UNCHANGED <<chain, tokens>> /\ pc' \notin AfterTokens
        /\ frontier' = IF height > frontier THEN height ELSE frontier
    BY <1>4 DEF ApplyDeltas, AfterTokens
  <2>2. m \in {frontier', frontier' + 1}
    BY <1>1, <1>2, <2>1 DEF Numbers
  <2> QED  BY <1>2, <2>1, <2>2 DEF TokensInv
<1>5. CASE UNCHANGED <<tokens, frontier>> /\ (pc' \in AfterTokens => pc \in AfterTokens /\ height' = height)
  <2>1. TokensSay(tokens', chain', m)
    BY <1>2, <1>5, SameSays
  <2> QED  BY <1>2, <1>5, <2>1 DEF TokensInv
<1>6. \/ UpsertTokens \/ ApplyDeltas
      \/ UNCHANGED <<tokens, frontier>> /\ (pc' \in AfterTokens => pc \in AfterTokens /\ height' = height)
  BY DEF Next, CatchUp, ProcessBlock, vars, NodeAdvance, Start, Tick, CheckReorg, UnwindLive, UnwindCrc20,
     UnwindEdges, ReloadMembers, FetchBlock, SeedMembers, UpsertListings, FindCloses, ApplyClose,
     WriteBlockRow, WriteReveal, ResolveCanonical, WriteState, ScanAuthchain, RecordEdge, SaveCheckpoint,
     CanonicalTimer, Error, Crash, AbandonBlock, tables, process, batch, bounds, history, AfterTokens
<1> QED  BY <1>3, <1>4, <1>5, <1>6

(* What blocks below the boot height say: nothing.                         *)
LEMMA TokensStart == ASSUME Init PROVE TokensInv
<1>1. chain \in Chains /\ Len(chain) = Boot /\ Boot \in Nat /\ DOMAIN chain = 1..Len(chain)
  BY ChainIn, TailAssumption DEF Init
<1>2. \A i \in 1..Boot : FoundCategories(chain[i]) = {}
  BY <1>1, TailAssumption
<1>3. \A c \in Category : Mentions(chain, c, Boot) = {}
  BY <1>2 DEF Mentions
<1> QED  BY <1>1, <1>3 DEF Init, TokensInv, TokensSay, TokenSays, AfterTokens

(* Without a reorg, whenever the tail is caught up the tokens table has a  *)
(* row for each category the chain mentions and no other, of the first     *)
(* block that mentions it and typed by all of them, whatever was replayed  *)
(* (upsert_token: the genesis fields stay, the type only upgrades).        *)
THEOREM TokensExact == LinearChains => (Spec => []TokensMatchChain)
<1> SUFFICES ASSUME LinearChains PROVE Spec => []TokensMatchChain
  OBVIOUS
<1>1. Init => TokensInv
  BY TokensStart
<1>2. TypeOK /\ ControlOK /\ LinearInv /\ TokensInv /\ [Next]_vars => TokensInv'
  BY TokensStep
<1>3. ExactInv /\ TokensInv => TokensMatchChain
  <2> SUFFICES ASSUME ExactInv, TokensInv, CaughtUp, NEW c \in Category
               PROVE  IF MentionHeights(c) = {} THEN tokens[c] = None
                      ELSE /\ tokens[c] # None
                           /\ tokens[c].type = ChainType(c)
                           /\ tokens[c].block \in MentionHeights(c)
                           /\ \A h \in MentionHeights(c) : tokens[c].block <= h
    BY DEF TokensMatchChain
  <2>1. Numbers
    BY NumbersHold DEF ExactInv
  <2>2. frontier = Len(chain) /\ DOMAIN chain = 1..Len(chain)
    BY <2>1 DEF ExactInv, LinearInv, NoSkip, CaughtUp, Numbers
  <2>3. TokenSays(tokens[c], chain, c, Len(chain))
    <3>1. PICK m \in {frontier, frontier + 1} : m <= Len(chain) /\ TokensSay(tokens, chain, m)
      BY DEF TokensInv
    <3>2. Len(chain) \in Nat
      BY <2>1 DEF Numbers
    <3>3. m = Len(chain)
      BY <2>2, <3>1, <3>2
    <3> QED  BY <3>1, <3>3 DEF TokensSay
  <2>4. Mentions(chain, c, Len(chain)) = MentionHeights(c)
    BY <2>2 DEF Mentions, MentionHeights
  <2>5. ChainType(c) = MergedType(TypesUpTo(chain, c, Len(chain)))
    BY <2>4 DEF ChainType, TypesUpTo
  <2> QED  BY <2>3, <2>4, <2>5, TailAssumption DEF TokenSays
<1> QED  BY <1>1, <1>2, <1>3, Exact, PTL DEF Spec, ExactInv

----------------------------------------------------------------------------
(* The offers table, without a reorg.  A replayed listing finds its row,   *)
(* and a replayed spend an offer that is not open; a new listing cannot    *)
(* have been spent by an earlier block.                                    *)

ClosedBy(row, t, b) ==
  \E e \in SpendCandidates(b) :
    PrevAt(b, e).tx = t /\ row.tx = TxAt(b, e) /\ row.status = CloseStatus(row.tx, Listing[t])

OfferSound(row, t, ch, n) ==
  /\ \E h \in 1..n : t \in ListingsOf(ch[h])
  /\ row.maker = Listing[t]
  /\ row.status = "open" \/ \E h \in 1..n : ClosedBy(row, t, ch[h])

OffersSound(off, ch, n) == \A t \in TxId : off[t] # None => OfferSound(off[t], t, ch, n)

StillOpen(off, t) == off[t] # None /\ off[t].status = "open"
Listed(off, b) == \A t \in ListingsOf(b) : off[t] # None
Settled(off, b) == \A e \in SpendCandidates(b) : ~StillOpen(off, PrevAt(b, e).tx)

AfterListings == AfterTokens \ {"listings"}
AfterCloses == {"blockRow", "crc20", "resolve", "deltas"}

OffersInv ==
  /\ OffersSound(offers, chain, Len(chain))
  /\ \A h \in 1..frontier : Listed(offers, chain[h]) /\ Settled(offers, chain[h])
  /\ pc \in AfterListings => Listed(offers, block)
  /\ pc \in AfterCloses => Settled(offers, block)
  /\ pc = "closes" => \A e \in SpendCandidates(block) :
                         StillOpen(offers, PrevAt(block, e).tx) => e \in todo

LEMMA OffersStep ==
  ASSUME LinearChains, TypeOK, ControlOK, LinearInv, OffersInv, [Next]_vars
  PROVE  OffersInv'
<1>1. Numbers
  BY NumbersHold
<1> PICK n : n = Len(chain)
  OBVIOUS
<1> PICK m : m = frontier
  OBVIOUS
<1> PICK b : b = block
  OBVIOUS
<1>2. /\ n \in Nat /\ m \in Nat /\ m <= n /\ Len(chain') \in Nat /\ n <= Len(chain')
      /\ \A i \in 1..n : chain'[i] = chain[i]
  BY <1>1, ChainExtends DEF Numbers, LinearInv, NoSkip
<1>3. pc \in InBlock => /\ height \in 1..n /\ b = chain[height] /\ b \in Block /\ height <= m + 1
  BY <1>1, <1>2 DEF Numbers, LinearInv, NoSkip, ControlOK, InBlock
<1>4. \A h \in 1..n : chain[h] \in Block
  BY ChainIn DEF TypeOK
<1>5. /\ OffersSound(offers, chain, n)
      /\ \A h \in 1..m : Listed(offers, chain[h]) /\ Settled(offers, chain[h])
  BY DEF OffersInv
<1>6. CASE UpsertListings
  <2>1. /\ pc = "listings" /\ pc' = "findCloses" /\ UNCHANGED <<chain, block, frontier>> /\ pc \in InBlock
        /\ \A t \in TxId : offers'[t] = IF t \in ListingsOf(b) THEN InsertOffer(t) ELSE offers[t]
    BY <1>6 DEF UpsertListings, process, history, InBlock, Passes
  <2>2. ASSUME NEW t \in TxId, offers[t] # None
        PROVE  offers'[t] = offers[t]
    BY <2>1, <2>2 DEF InsertOffer
  <2>3. ASSUME NEW t \in TxId, offers[t] = None
        PROVE  offers'[t] = IF t \in ListingsOf(b) THEN NewOffer(t) ELSE None
    BY <2>1, <2>3 DEF InsertOffer
  <2>4. OffersSound(offers', chain, n)
    <3> SUFFICES ASSUME NEW t \in TxId, offers'[t] # None
                 PROVE  OfferSound(offers'[t], t, chain, n)
      BY DEF OffersSound
    <3>1. CASE offers[t] # None
      BY <1>5, <2>2, <3>1 DEF OffersSound
    <3>2. CASE offers[t] = None
      <4>1. t \in ListingsOf(b) /\ offers'[t] = NewOffer(t)
        BY <2>3, <3>2
      <4> QED  BY <1>3, <2>1, <4>1 DEF NewOffer, OfferSound
    <3> QED  BY <3>1, <3>2
  <2>5. ASSUME NEW h \in 1..m
        PROVE  Listed(offers', chain[h]) /\ Settled(offers', chain[h])
    <3>1. Listed(offers, chain[h]) /\ Settled(offers, chain[h]) /\ h \in 1..n
      BY <1>2, <1>5
    <3>2. Listed(offers', chain[h])
      <4>1. ListingsOf(chain[h]) \subseteq TxId
        BY <1>4, <3>1, ChainDataTypes DEF ListingsOf, TxsOf
      <4> QED  BY <2>2, <3>1, <4>1 DEF Listed
    <3>3. ASSUME NEW e \in SpendCandidates(chain[h])
          PROVE  ~StillOpen(offers', PrevAt(chain[h], e).tx)
      <4> PICK t : t = PrevAt(chain[h], e).tx
        OBVIOUS
      <4>1. e \in Inputs(chain[h]) /\ PrevAt(chain[h], e) \in Outpoint
        BY <1>4, <3>1, InputsIn DEF SpendCandidates
      <4>2. t \in TxId /\ PrevAt(chain[h], e) \in Spends(chain[h])
        BY <4>1 DEF Outpoint, Spends
      <4>3. CASE offers[t] # None
        BY <2>2, <3>1, <4>2, <4>3 DEF Settled, StillOpen
      <4>4. CASE offers[t] = None
        <5>1. CASE t \in ListingsOf(b)
          <6>1. ValidChain(chain) /\ DOMAIN chain = 1..n /\ t \in TxsOf(chain[height])
            BY <1>3, <2>1, <5>1, TailAssumption, ChainIn DEF TypeOK, ListingsOf
          <6>2. height <= h
            BY <1>3, <2>1, <3>1, <4>2, <6>1 DEF ValidChain
          <6>3. height \in 1..m
            BY <1>2, <1>3, <2>1, <6>2
          <6>4. Listed(offers, b)
            BY <1>3, <1>5, <2>1, <6>3
          <6> QED  BY <4>4, <5>1, <6>4 DEF Listed
        <5>2. CASE t \notin ListingsOf(b)
          BY <2>3, <4>2, <4>4, <5>2 DEF StillOpen
        <5> QED  BY <5>1, <5>2
      <4> QED  BY <4>3, <4>4
    <3> QED  BY <3>2, <3>3 DEF Settled
  <2>6. Listed(offers', b)
    <3>1. ListingsOf(b) \subseteq TxId
      BY <1>3, <2>1, ChainDataTypes DEF ListingsOf, TxsOf
    <3>2. ASSUME NEW t \in ListingsOf(b)
          PROVE  offers'[t] # None
      <4>1. NewOffer(t) # None
        <5>1. NewOffer(t) \in OfferRow
          BY <3>1, ChainDataTypes DEF NewOffer, OfferRow, ListingsOf
        <5> QED  BY <5>1, TailAssumption
      <4> QED  BY <2>2, <2>3, <3>1, <4>1
    <3> QED  BY <3>2 DEF Listed
  <2> QED  BY <2>1, <2>4, <2>5, <2>6 DEF OffersInv, AfterListings, AfterCloses
<1>7. CASE ApplyClose
  <2> DEFINE e == First(todo)
  <2>1. /\ pc = "closes" /\ pc' \in {"closes", "blockRow"} /\ UNCHANGED <<chain, block, frontier>>
        /\ pc \in InBlock /\ pc \in AfterListings /\ todo' = todo \ {e}
        /\ todo' = {} => pc' = "blockRow"
        /\ pc' = "blockRow" => todo' = {}
    BY <1>7 DEF ApplyClose, process, history, InBlock, Passes, AfterListings, AfterTokens
  <2>2. e \in SpendCandidates(b) /\ e \in Inputs(b)
    BY <1>3, <2>1, NextInput, CandidatesIn DEF ControlOK
  <2> PICK id : id = PrevAt(b, e).tx
    OBVIOUS
  <2> PICK u : u = TxAt(b, e)
    OBVIOUS
  <2>3. \A t \in TxId : offers'[t] = IF t = id /\ IsOpen(id) THEN CloseRow(offers[id], u) ELSE offers[t]
    BY <1>7 DEF ApplyClose
  <2>4. id \in TxId /\ u \in TxId
    BY <1>3, <2>1, <2>2, InputsIn DEF Outpoint
  <2> HIDE DEF e
  <2>5. ASSUME IsOpen(id)
        PROVE  /\ offers[id] \in OfferRow /\ offers[id].maker = Listing[id]
               /\ offers'[id] \in OfferRow /\ offers'[id] # None
               /\ offers'[id].maker = Listing[id] /\ offers'[id].tx = u
               /\ offers'[id].status = CloseStatus(u, Listing[id])
    <3>1. offers[id] \in OfferRow /\ offers[id].maker = Listing[id]
      BY <1>5, <2>4, <2>5 DEF IsOpen, TypeOK, OffersSound, OfferSound
    <3>2. TakerOf(u, Listing[id]) \in Maker \cup {None}
      BY <2>4, ChainDataTypes DEF TakerOf
    <3>3. CloseStatus(u, Listing[id]) \in {"taken", "cancelled"}
      BY DEF CloseStatus
    <3>4. /\ offers[id] \in [status : {"open", "taken", "cancelled"}, maker : Maker,
                             tx : TxId \cup {None}, taker : Maker \cup {None}]
          /\ offers'[id] = [offers[id] EXCEPT !.status = CloseStatus(u, Listing[id]), !.tx = u,
                                              !.taker = TakerOf(u, Listing[id])]
      BY <2>3, <2>4, <2>5, <3>1 DEF CloseRow, OfferRow
    <3> PICK old : old = offers[id]
      OBVIOUS
    <3> PICK new : new = offers'[id]
      OBVIOUS
    <3>5. /\ new \in OfferRow /\ new.maker = Listing[id] /\ new.tx = u
          /\ new.status = CloseStatus(u, Listing[id])
      BY <2>4, <3>1, <3>2, <3>3, <3>4 DEF OfferRow
    <3> QED  BY <3>1, <3>5, TailAssumption
  <2>6. ~StillOpen(offers', id)
    BY <2>3, <2>4, <2>5 DEF StillOpen, IsOpen, CloseStatus
  <2>7. ASSUME NEW t \in TxId
        PROVE  /\ offers[t] # None => offers'[t] # None
               /\ StillOpen(offers', t) => t # id /\ StillOpen(offers, t)
               /\ offers'[t] # offers[t] => t = id /\ IsOpen(id)
    BY <2>3, <2>5, <2>6 DEF StillOpen, IsOpen
  <2>8. OffersSound(offers', chain, n)
    <3> SUFFICES ASSUME NEW t \in TxId, offers'[t] # None
                 PROVE  OfferSound(offers'[t], t, chain, n)
      BY DEF OffersSound
    <3>1. CASE offers'[t] = offers[t]
      BY <1>5, <3>1 DEF OffersSound
    <3>2. CASE offers'[t] # offers[t]
      <4>1. t = id /\ IsOpen(id)
        BY <2>7, <3>2
      <4>2. \E h \in 1..n : t \in ListingsOf(chain[h])
        BY <1>5, <4>1 DEF OffersSound, OfferSound, IsOpen
      <4>3. ClosedBy(offers'[t], t, chain[height])
        BY <1>3, <2>1, <2>2, <2>5, <4>1 DEF ClosedBy
      <4> QED  BY <1>3, <2>1, <2>5, <4>1, <4>2, <4>3 DEF OfferSound
    <3> QED  BY <3>1, <3>2
  <2>9. ASSUME NEW d \in Block
        PROVE  /\ Listed(offers, d) => Listed(offers', d)
               /\ Settled(offers, d) => Settled(offers', d)
    <3>1. ListingsOf(d) \subseteq TxId
      BY ChainDataTypes DEF ListingsOf, TxsOf
    <3>2. \A f \in SpendCandidates(d) : PrevAt(d, f).tx \in TxId
      BY InputsIn DEF SpendCandidates, Outpoint
    <3> QED  BY <2>7, <3>1, <3>2 DEF Listed, Settled
  <2>10. ASSUME NEW f \in SpendCandidates(b), StillOpen(offers', PrevAt(b, f).tx)
         PROVE  f \in todo'
    <3>1. PrevAt(b, f).tx \in TxId
      BY <1>3, <2>1, InputsIn DEF SpendCandidates, Outpoint
    <3>2. StillOpen(offers, PrevAt(b, f).tx) /\ PrevAt(b, f).tx # id
      BY <2>7, <2>10, <3>1
    <3>3. f \in todo /\ f # e
      BY <2>1, <3>2 DEF OffersInv
    <3> QED  BY <2>1, <3>3
  <2>11. \A h \in 1..m : Listed(offers', chain[h]) /\ Settled(offers', chain[h])
    BY <1>2, <1>4, <1>5, <2>9
  <2>12. Listed(offers', b)
    BY <1>3, <2>1, <2>9 DEF OffersInv
  <2>13. pc' = "blockRow" => Settled(offers', b)
    BY <2>1, <2>10 DEF Settled
  <2> QED  BY <2>1, <2>8, <2>10, <2>11, <2>12, <2>13 DEF OffersInv, AfterCloses
<1>8. CASE FindCloses
  <2>1. /\ pc = "findCloses" /\ pc' \in {"closes", "blockRow"} /\ UNCHANGED <<chain, block, frontier, offers>>
        /\ todo' = CloseBatch(b) /\ pc \in AfterListings
        /\ pc' = "blockRow" => todo' = {}
    BY <1>8 DEF FindCloses, tables, process, history, AfterListings, AfterTokens
  <2>2. \A e \in SpendCandidates(b) : StillOpen(offers, PrevAt(b, e).tx) => e \in todo'
    BY <2>1 DEF CloseBatch, OpenAtLookup, IsOpen, StillOpen
  <2>3. pc' = "blockRow" => Settled(offers, b)
    BY <2>1, <2>2 DEF Settled
  <2> QED  BY <2>1, <2>2, <2>3 DEF OffersInv, AfterCloses
<1>9. CASE ApplyDeltas
  <2>1. /\ pc = "deltas" /\ UNCHANGED <<chain, block, offers>> /\ pc \in InBlock /\ pc \in AfterListings
        /\ pc \in AfterCloses /\ pc' \notin AfterListings /\ pc' \notin AfterCloses /\ pc' # "closes"
        /\ frontier' = IF height > frontier THEN height ELSE frontier
    BY <1>9 DEF ApplyDeltas, process, InBlock, Passes, AfterListings, AfterTokens, AfterCloses
  <2>2. ASSUME NEW h \in 1..frontier'
        PROVE  Listed(offers, chain[h]) /\ Settled(offers, chain[h])
    <3>1. h \in 1..m \/ h = height
      BY <1>2, <1>3, <2>1
    <3>2. Listed(offers, b) /\ Settled(offers, b)
      BY <2>1 DEF OffersInv
    <3> QED  BY <1>3, <1>5, <2>1, <3>1, <3>2
  <2> QED  BY <2>1, <2>2 DEF OffersInv
<1>10. CASE /\ UNCHANGED <<offers, frontier>>
            /\ pc' \in AfterListings => pc \in AfterListings /\ block' = block
            /\ pc' \in AfterCloses => pc \in AfterCloses
            /\ pc' = "closes" => pc = "closes" /\ todo' = todo
  <2>1. OffersSound(offers, chain', Len(chain'))
    <3>1. \A h \in 1..n : h \in 1..Len(chain') /\ chain'[h] = chain[h]
      BY <1>2
    <3>2. \A t, row : OfferSound(row, t, chain, n) => OfferSound(row, t, chain', Len(chain'))
      BY <3>1 DEF OfferSound
    <3> QED  BY <1>5, <3>2 DEF OffersSound
  <2>2. \A h \in 1..m : chain'[h] = chain[h]
    BY <1>2
  <2>3. \A h \in 1..m : Listed(offers, chain'[h]) /\ Settled(offers, chain'[h])
    BY <1>5, <2>2
  <2>4. pc' \in AfterCloses \cup {"closes"} => pc' \in AfterListings
    BY DEF AfterCloses, AfterListings, AfterTokens
  <2> QED  BY <1>10, <2>1, <2>3, <2>4 DEF OffersInv
<1>11. \/ UpsertListings \/ ApplyClose \/ FindCloses \/ ApplyDeltas
       \/ /\ UNCHANGED <<offers, frontier>>
          /\ pc' \in AfterListings => pc \in AfterListings /\ block' = block
          /\ pc' \in AfterCloses => pc \in AfterCloses
          /\ pc' = "closes" => pc = "closes" /\ todo' = todo
  BY DEF Next, CatchUp, ProcessBlock, vars, NodeAdvance, Start, Tick, CheckReorg, UnwindLive, UnwindCrc20,
     UnwindEdges, ReloadMembers, FetchBlock, SeedMembers, UpsertTokens,
     WriteBlockRow, WriteReveal, ResolveCanonical, WriteState, ScanAuthchain, RecordEdge, SaveCheckpoint,
     CanonicalTimer, Error, Crash, AbandonBlock, tables, process, batch, bounds, history, AfterTokens,
     AfterListings, AfterCloses
<1> QED  BY <1>6, <1>7, <1>8, <1>9, <1>10, <1>11

LEMMA OffersStart == ASSUME Init PROVE OffersInv
<1>1. chain \in Chains /\ Len(chain) = Boot /\ Boot \in Nat /\ DOMAIN chain = 1..Len(chain)
  BY ChainIn, TailAssumption DEF Init
<1>2. \A h \in 1..Boot : Listed(offers, chain[h])
  <2>1. \A h \in 1..Boot : ListingsOf(chain[h]) = {}
    BY <1>1, TailAssumption
  <2> QED  BY <2>1 DEF Listed
<1>3. \A t \in TxId : offers[t] = None
  BY DEF Init
<1>4. \A h \in 1..Boot : Settled(offers, chain[h])
  <2> SUFFICES ASSUME NEW h \in 1..Boot, NEW e \in SpendCandidates(chain[h])
               PROVE  ~StillOpen(offers, PrevAt(chain[h], e).tx)
    BY DEF Settled
  <2>1. PrevAt(chain[h], e) \in Outpoint
    BY <1>1, ChainIn, InputsIn DEF SpendCandidates
  <2> QED  BY <1>3, <2>1 DEF StillOpen, Outpoint
<1> QED  BY <1>1, <1>2, <1>3, <1>4 DEF Init, OffersInv, OffersSound, AfterListings, AfterTokens, AfterCloses

(* One input of a chain at most spends a transaction's vout[0].            *)
LEMMA OneSpend ==
  ASSUME TypeOK, NEW i \in DOMAIN chain, NEW j \in DOMAIN chain,
         NEW e \in Inputs(chain[i]), NEW f \in Inputs(chain[j]),
         PrevAt(chain[i], e).n = 0, PrevAt(chain[j], f).n = 0,
         PrevAt(chain[i], e).tx = PrevAt(chain[j], f).tx
  PROVE  i = j /\ e = f
<1>1. chain \in Chains /\ ValidChain(chain) /\ chain[i] \in Block /\ chain[j] \in Block
  BY TailAssumption, ChainIn DEF TypeOK
<1>2. PrevAt(chain[i], e) \in Outpoint /\ PrevAt(chain[j], f) \in Outpoint
  BY <1>1, InputsIn
<1>3. PrevAt(chain[i], e) = PrevAt(chain[j], f)
  <2> PICK o \in Outpoint : o = PrevAt(chain[i], e)
    BY <1>2
  <2> PICK p \in Outpoint : p = PrevAt(chain[j], f)
    BY <1>2
  <2>1. o.tx = p.tx /\ o.n = p.n
    OBVIOUS
  <2> QED  BY <2>1 DEF Outpoint
<1> QED  BY <1>1, <1>3 DEF ValidChain

(* Without a reorg, whenever the tail is caught up every listing of the    *)
(* chain has its offer and no other transaction has one; it is open        *)
(* exactly when no marked spend of it is in the chain, and closed by that  *)
(* very spend, a return to the maker a cancel and any other a take,        *)
(* whatever failed between the passes (passes 2 and 3).                    *)
THEOREM OffersExact == LinearChains => (Spec => []OffersMatchChain)
<1> SUFFICES ASSUME LinearChains PROVE Spec => []OffersMatchChain
  OBVIOUS
<1>1. Init => OffersInv
  BY OffersStart
<1>2. TypeOK /\ ControlOK /\ LinearInv /\ OffersInv /\ [Next]_vars => OffersInv'
  BY OffersStep
<1>3. ExactInv /\ OffersInv => OffersMatchChain
  <2> SUFFICES ASSUME ExactInv, OffersInv, CaughtUp, NEW t \in TxId
               PROVE  IF \A h \in DOMAIN chain : t \notin ListingsOf(chain[h]) THEN offers[t] = None
                      ELSE /\ offers[t] # None
                           /\ offers[t].status = "open" <=> ClosersOf(t) = {}
                           /\ \A u \in ClosersOf(t) :
                                /\ offers[t].tx = u
                                /\ offers[t].status = "cancelled" <=> Out0Pkh[u] = Listing[t]
    BY DEF OffersMatchChain
  <2>1. Numbers /\ TypeOK
    BY NumbersHold DEF ExactInv
  <2>2. frontier = Len(chain) /\ DOMAIN chain = 1..Len(chain)
    BY <2>1 DEF ExactInv, LinearInv, NoSkip, CaughtUp, Numbers
  <2>3. /\ offers[t] # None => OfferSound(offers[t], t, chain, Len(chain))
        /\ \A h \in DOMAIN chain : Listed(offers, chain[h]) /\ Settled(offers, chain[h])
    BY <2>2 DEF OffersInv, OffersSound
  <2>4. CASE \A h \in DOMAIN chain : t \notin ListingsOf(chain[h])
    BY <2>2, <2>3, <2>4 DEF OfferSound
  <2>5. CASE \E h \in DOMAIN chain : t \in ListingsOf(chain[h])
    <3>1. offers[t] # None /\ OfferSound(offers[t], t, chain, Len(chain))
      BY <2>3, <2>5 DEF Listed
    <3>2. ASSUME NEW u \in ClosersOf(t)
          PROVE  offers[t].status # "open" /\ offers[t].tx = u
                 /\ offers[t].status = CloseStatus(u, Listing[t])
      <4>1. PICK h \in DOMAIN chain : \E e \in SpendCandidates(chain[h]) :
                                        PrevAt(chain[h], e).tx = t /\ TxAt(chain[h], e) = u
        BY DEF ClosersOf
      <4>2. PICK e \in SpendCandidates(chain[h]) : PrevAt(chain[h], e).tx = t /\ TxAt(chain[h], e) = u
        BY <4>1
      <4>3. offers[t].status # "open"
        BY <2>3, <3>1, <4>2 DEF Settled, StillOpen
      <4>4. PICK k \in DOMAIN chain : ClosedBy(offers[t], t, chain[k])
        BY <2>2, <3>1, <4>3 DEF OfferSound
      <4>5. PICK f \in SpendCandidates(chain[k]) :
              /\ PrevAt(chain[k], f).tx = t /\ offers[t].tx = TxAt(chain[k], f)
              /\ offers[t].status = CloseStatus(offers[t].tx, Listing[t])
        BY <4>4 DEF ClosedBy
      <4>6. h = k /\ e = f
        BY <2>1, <4>2, <4>5, OneSpend DEF SpendCandidates
      <4> QED  BY <4>2, <4>3, <4>5, <4>6
    <3>3. ASSUME offers[t].status # "open"
          PROVE  ClosersOf(t) # {}
      <4>1. PICK k \in DOMAIN chain : ClosedBy(offers[t], t, chain[k])
        BY <2>2, <3>1, <3>3 DEF OfferSound
      <4> QED  BY <4>1 DEF ClosedBy, ClosersOf
    <3> QED  BY <2>5, <3>1, <3>2, <3>3 DEF CloseStatus
  <2> QED  BY <2>4, <2>5
<1> QED  BY <1>1, <1>2, <1>3, Exact, PTL DEF Spec, ExactInv

----------------------------------------------------------------------------
(* The CRC-20 registry, without a reorg.  Every reveal up to the frontier  *)
(* has its row, at its only height; the ranking is the table's own, or a   *)
(* failure came between.                                                   *)

RevealSound(row, c, ch, n) ==
  row.reveal \in 1..n /\ \E e \in Reveals(ch[row.reveal]) : PrevAt(ch[row.reveal], e).tx = c

Revealed(crc, b) == \A e \in Reveals(b) : crc[PrevAt(b, e).tx] # None

RevealsInv ==
  /\ \A c \in Category : crc20[c] # None => RevealSound(crc20[c], c, chain, Len(chain))
  /\ \A h \in 1..frontier : Revealed(crc20, chain[h])
  /\ pc \in {"resolve", "deltas"} => Revealed(crc20, block)
  /\ pc = "crc20" => \A e \in Reveals(block) : e \in todo \/ crc20[PrevAt(block, e).tx] # None

Ranked == \A c \in Category : crc20[c] # None => (crc20[c].canonical <=> Wins(c))

RankedInv == Ranked \/ unranked \/ pc \in {"crc20", "resolve"}

(* A reveal is of a category, at index 0.                                  *)
LEMMA RevealIn ==
  ASSUME NEW b \in Block, NEW e \in Reveals(b)
  PROVE  /\ e \in Inputs(b) /\ PrevAt(b, e) \in Outpoint /\ PrevAt(b, e).n = 0
         /\ PrevAt(b, e).tx \in Category
<1> PICK t : t = TxAt(b, e)
  OBVIOUS
<1>1. e \in Inputs(b) /\ IsReveal(t, e.in) /\ PrevAt(b, e) = TxIns[t][e.in]
  BY DEF Reveals, PrevAt
<1>2. t \in TxId /\ PrevAt(b, e) \in Outpoint
  BY <1>1, InputsIn
<1>3. MentionedBy(t) \subseteq Category
  <2>1. TxOuts[t] \in Seq(Output)
    BY <1>2, ChainDataTypes
  <2>2. \A i \in DOMAIN TxOuts[t] : TxOuts[t][i] \in Output
    BY <2>1
  <2> QED  BY <2>2 DEF MentionedBy, Output
<1> QED  BY <1>1, <1>2, <1>3 DEF IsReveal

(* Ranking the rows leaves what they are ranked by, and ranks them.        *)
LEMMA RankingRanks ==
  ASSUME TypeOK, crc20' = ResolvedTable
  PROVE  /\ \A c \in Category : crc20'[c] # None <=> crc20[c] # None
         /\ \A c \in Category : crc20[c] # None => crc20'[c].reveal = crc20[c].reveal
         /\ Ranked'
<1>1. ASSUME NEW c \in Category
      PROVE  /\ crc20'[c] # None <=> crc20[c] # None
             /\ crc20[c] # None => /\ crc20'[c].reveal = crc20[c].reveal
                                   /\ crc20'[c].symbol = crc20[c].symbol
                                   /\ crc20'[c].commit = crc20[c].commit
                                   /\ crc20'[c].canonical = Wins(c)
  <2>1. CASE crc20[c] = None
    BY <2>1 DEF ResolvedTable
  <2>2. CASE crc20[c] # None
    <3>1. crc20[c] \in Crc20Row
      BY <2>2 DEF TypeOK
    <3>2. Wins(c) \in BOOLEAN
      BY DEF Wins
    <3>3. PICK w \in BOOLEAN : w = Wins(c)
      BY <3>2
    <3> PICK old : old = crc20[c]
      OBVIOUS
    <3>4. crc20'[c] = [old EXCEPT !.canonical = w]
      BY <2>2, <3>3 DEF ResolvedTable, Resolved
    <3>5. [old EXCEPT !.canonical = w] \in Crc20Row
      BY <3>1 DEF Crc20Row
    <3>6. crc20'[c] # None
      BY <3>4, <3>5, TailAssumption
    <3> QED  BY <2>2, <3>1, <3>3, <3>4, <3>6 DEF Crc20Row
  <2> QED  BY <2>1, <2>2
<1>2. ASSUME NEW c \in Category, crc20[c] # None
      PROVE  Wins(c)' <=> Wins(c)
  <2> PICK s : s = crc20[c].symbol /\ s = crc20'[c].symbol
    BY <1>1, <1>2
  <2>1. Bucket(s)' = Bucket(s)
    BY <1>1 DEF Bucket
  <2>2. ASSUME NEW d \in Bucket(s)
        PROVE  Before(c, d)' <=> Before(c, d)
    <3>1. d \in Category /\ crc20[d] # None
      BY DEF Bucket
    <3>2. /\ FairGenesis(crc20'[c]) = FairGenesis(crc20[c])
          /\ FairGenesis(crc20'[d]) = FairGenesis(crc20[d])
      BY <1>1, <1>2, <3>1 DEF FairGenesis
    <3> QED  BY <3>2 DEF Before
  <2>3. Wins(c) <=> \A d \in Bucket(s) \ {c} : Before(c, d)
    BY DEF Wins
  <2>4. Wins(c)' <=> \A d \in Bucket(s)' \ {c} : Before(c, d)'
    BY DEF Wins
  <2> QED  BY <2>1, <2>2, <2>3, <2>4
<1>3. Ranked'
  <2> SUFFICES ASSUME NEW c \in Category, crc20'[c] # None
               PROVE  crc20'[c].canonical <=> Wins(c)'
    BY DEF Ranked
  <2>1. crc20[c] # None /\ crc20'[c].canonical = Wins(c)
    BY <1>1
  <2>2. Wins(c)' <=> Wins(c)
    BY <1>2, <2>1
  <2>3. Wins(c) \in BOOLEAN /\ Wins(c)' \in BOOLEAN
    BY DEF Wins
  <2> QED  BY <2>1, <2>2, <2>3
<1> QED  BY <1>1, <1>3

LEMMA RankedStep ==
  ASSUME TypeOK, NoSkip, RankedInv, [Next]_vars
  PROVE  RankedInv'
<1>1. CASE ResolveCanonical \/ CanonicalTimer
  <2>1. crc20' = ResolvedTable
    BY <1>1 DEF ResolveCanonical, CanonicalTimer
  <2> QED  BY <2>1, RankingRanks DEF RankedInv
<1>2. CASE pc' \in {"crc20", "resolve"}
  BY <1>2 DEF RankedInv
<1>3. CASE Error \/ Crash
  <2>1. crc20' = crc20 /\ unranked' = (unranked \/ pc \in {"crc20", "resolve"})
    BY <1>3 DEF Error, Crash, AbandonBlock, tables
  <2>2. Ranked => Ranked'
    BY <2>1 DEF Ranked, Wins, Bucket, Before
  <2>3. unranked \/ pc \in {"crc20", "resolve"} => unranked'
    BY <2>1, Zenon
  <2> QED  BY <2>2, <2>3 DEF RankedInv
<1>4. CASE UNCHANGED <<crc20, unranked>> /\ pc \notin {"crc20", "resolve"}
  <2>1. Ranked => Ranked'
    BY <1>4 DEF Ranked, Wins, Bucket, Before
  <2> QED  BY <1>4, <2>1 DEF RankedInv
<1>5. \/ ResolveCanonical \/ CanonicalTimer \/ pc' \in {"crc20", "resolve"} \/ Error \/ Crash
      \/ UNCHANGED <<crc20, unranked>> /\ pc \notin {"crc20", "resolve"}
  BY DEF NoSkip, Next, CatchUp, ProcessBlock, vars, NodeAdvance, Start, Tick, CheckReorg, UnwindLive,
     UnwindCrc20, UnwindEdges, ReloadMembers, FetchBlock, SeedMembers, UpsertTokens, UpsertListings,
     FindCloses, ApplyClose, WriteBlockRow, WriteReveal, ApplyDeltas, WriteState, ScanAuthchain,
     RecordEdge, SaveCheckpoint, tables, process, batch, bounds, history
<1> QED  BY <1>1, <1>2, <1>3, <1>4, <1>5

(* The row of a reveal.                                                    *)
LEMMA RevealRow ==
  ASSUME NEW b \in Block, NEW e \in Reveals(b)
  PROVE  Covenant[TxAt(b, e)][e.in] \in Symbol
<1>1. TxAt(b, e) \in TxId /\ e.in \in DOMAIN TxIns[TxAt(b, e)]
  BY InputsIn DEF Reveals
<1>2. Covenant[TxAt(b, e)] \in [DOMAIN TxIns[TxAt(b, e)] -> Symbol \cup {None}]
  BY <1>1, ChainDataTypes
<1>3. Covenant[TxAt(b, e)][e.in] # None
  BY DEF Reveals, IsReveal
<1> QED  BY <1>1, <1>2, <1>3

LEMMA RevealsStep ==
  ASSUME LinearChains, TypeOK, ControlOK, LinearInv, RevealsInv, [Next]_vars
  PROVE  RevealsInv'
<1>1. Numbers
  BY NumbersHold
<1> PICK n : n = Len(chain)
  OBVIOUS
<1> PICK m : m = frontier
  OBVIOUS
<1> PICK b : b = block
  OBVIOUS
<1>2. /\ n \in Nat /\ m \in Nat /\ m <= n /\ Len(chain') \in Nat /\ n <= Len(chain')
      /\ \A i \in 1..n : chain'[i] = chain[i]
  BY <1>1, ChainExtends DEF Numbers, LinearInv, NoSkip
<1>3. pc \in InBlock => /\ height \in 1..n /\ b = chain[height] /\ b \in Block /\ height <= m + 1
  BY <1>1, <1>2 DEF Numbers, LinearInv, NoSkip, ControlOK, InBlock
<1>4. \A h \in 1..n : chain[h] \in Block
  BY ChainIn DEF TypeOK
<1>5. /\ \A c \in Category : crc20[c] # None => RevealSound(crc20[c], c, chain, n)
      /\ \A h \in 1..m : Revealed(crc20, chain[h])
  BY DEF RevealsInv
<1>6. ASSUME UNCHANGED <<chain, block, frontier>>,
             \A c \in Category : /\ crc20[c] # None => crc20'[c] # None
                                 /\ crc20'[c] # None => RevealSound(crc20'[c], c, chain, n)
      PROVE  /\ \A c \in Category : crc20'[c] # None => RevealSound(crc20'[c], c, chain, n)
             /\ \A h \in 1..m : Revealed(crc20', chain[h])
             /\ b \in Block /\ Revealed(crc20, b) => Revealed(crc20', b)
  <2>1. ASSUME NEW d \in Block, Revealed(crc20, d)
        PROVE  Revealed(crc20', d)
    BY <1>6, <2>1, RevealIn DEF Revealed
  <2> QED  BY <1>2, <1>4, <1>5, <1>6, <2>1
<1>7. CASE WriteReveal
  <2> DEFINE e == First(todo)
  <2>1. /\ pc = "crc20" /\ pc' \in {"crc20", "resolve"} /\ UNCHANGED <<chain, block, frontier, height>>
        /\ pc \in InBlock /\ todo' = todo \ {e}
        /\ pc' = "resolve" => todo' = {}
        /\ \E k : crc20' = UpsertReveal(e, k)
    BY <1>7 DEF WriteReveal, process, history, InBlock, Passes
  <2>2. e \in Reveals(b)
    BY <1>3, <2>1, NextInput, CandidatesIn DEF ControlOK
  <2> PICK c : c = PrevAt(b, e).tx
    OBVIOUS
  <2> HIDE DEF e
  <2>3. c \in Category
    BY <1>3, <2>1, <2>2, RevealIn
  <2>4. crc20'[c] # None /\ crc20'[c].reveal = height /\ \A d \in Category : d # c => crc20'[d] = crc20[d]
    <3>1. PICK k \in Nat : crc20' = UpsertReveal(e, k)
      <4>1. CommitFallback \in Nat /\ CommitOf(c) \subseteq Nat
        BY <1>1 DEF CommitFallback, CommitOf, CommitHeights, Numbers
      <4> QED  BY <1>7, <4>1 DEF WriteReveal, e
    <3> PICK sym \in Symbol : sym = Covenant[TxAt(b, e)][e.in]
      BY <1>3, <2>1, <2>2, RevealRow
    <3> PICK can \in BOOLEAN : can = (crc20[c] # None /\ crc20[c].canonical)
      BY <2>3 DEF TypeOK, Crc20Row
    <3>2. /\ crc20'[c] = [symbol |-> sym, commit |-> k, reveal |-> height, canonical |-> can]
          /\ \A d \in Category : d # c => crc20'[d] = crc20[d]
      BY <2>3, <3>1 DEF UpsertReveal, TypeOK
    <3>3. height \in Heights
      BY <1>1, <2>1 DEF Numbers, Heights, InBlock
    <3>4. crc20'[c] \in Crc20Row
      BY <3>2, <3>3 DEF Crc20Row
    <3> QED  BY <3>2, <3>4, TailAssumption
  <2>5. \A d \in Category : /\ crc20[d] # None => crc20'[d] # None
                            /\ crc20'[d] # None => RevealSound(crc20'[d], d, chain, n)
    <3> SUFFICES ASSUME NEW d \in Category
                 PROVE  /\ crc20[d] # None => crc20'[d] # None
                        /\ crc20'[d] # None => RevealSound(crc20'[d], d, chain, n)
      OBVIOUS
    <3>1. CASE d = c
      BY <1>3, <2>1, <2>2, <2>4, <3>1 DEF RevealSound
    <3>2. CASE d # c
      BY <1>5, <2>4, <3>2
    <3> QED  BY <3>1, <3>2
  <2>6. \A f \in Reveals(b) : f \in todo' \/ crc20'[PrevAt(b, f).tx] # None
    <3> SUFFICES ASSUME NEW f \in Reveals(b), f \notin todo'
                 PROVE  crc20'[PrevAt(b, f).tx] # None
      OBVIOUS
    <3>1. CASE f = e
      BY <2>4, <3>1
    <3>2. CASE f # e
      <4>1. crc20[PrevAt(b, f).tx] # None
        BY <2>1, <3>2 DEF RevealsInv
      <4>2. PrevAt(b, f).tx \in Category
        BY <1>3, <2>1, RevealIn
      <4> QED  BY <2>5, <4>1, <4>2
    <3> QED  BY <3>1, <3>2
  <2>7. pc' = "resolve" => Revealed(crc20', b)
    BY <2>1, <2>6 DEF Revealed
  <2> QED  BY <1>6, <2>1, <2>5, <2>6, <2>7 DEF RevealsInv
<1>8. CASE ResolveCanonical \/ CanonicalTimer
  <2>1. /\ crc20' = ResolvedTable /\ UNCHANGED <<chain, block, frontier, todo>>
        /\ \/ pc = "resolve" /\ pc' = "deltas"
           \/ pc' = pc
    BY <1>8 DEF ResolveCanonical, CanonicalTimer, process, batch
  <2>2. \A c \in Category : /\ crc20'[c] # None <=> crc20[c] # None
                            /\ crc20'[c] # None => RevealSound(crc20'[c], c, chain, n)
    BY <1>5, <2>1, RankingRanks DEF RevealSound
  <2>3. pc \in {"resolve", "deltas", "crc20"} => b \in Block
    BY <1>3 DEF InBlock, Passes
  <2>4. pc' \in {"resolve", "deltas"} => Revealed(crc20', b)
    BY <1>6, <2>1, <2>2, <2>3 DEF RevealsInv
  <2>5. pc' = "crc20" => \A e \in Reveals(b) : e \in todo' \/ crc20'[PrevAt(b, e).tx] # None
    BY <2>1, <2>2, <2>3, RevealIn DEF RevealsInv
  <2> QED  BY <1>6, <2>1, <2>2, <2>4, <2>5 DEF RevealsInv
<1>9. CASE WriteBlockRow
  <2>1. /\ pc = "blockRow" /\ UNCHANGED <<chain, block, frontier, crc20>> /\ todo' = Reveals(b)
        /\ pc' = IF todo' = {} THEN "deltas" ELSE "crc20"
    BY <1>9 DEF WriteBlockRow, process
  <2>2. pc' = "deltas" => Revealed(crc20, b)
    BY <2>1 DEF Revealed
  <2> QED  BY <2>1, <2>2 DEF RevealsInv
<1>10. CASE ApplyDeltas
  <2>1. /\ pc = "deltas" /\ UNCHANGED <<chain, block, crc20>> /\ pc \in InBlock
        /\ pc' \notin {"resolve", "deltas", "crc20"}
        /\ frontier' = IF height > frontier THEN height ELSE frontier
    BY <1>10 DEF ApplyDeltas, process, InBlock, Passes
  <2>2. ASSUME NEW h \in 1..frontier'
        PROVE  Revealed(crc20, chain[h])
    <3>1. h \in 1..m \/ h = height
      BY <1>2, <1>3, <2>1
    <3>2. Revealed(crc20, b)
      BY <2>1 DEF RevealsInv
    <3> QED  BY <1>3, <1>5, <2>1, <3>1, <3>2
  <2> QED  BY <2>1, <2>2 DEF RevealsInv
<1>11. CASE /\ UNCHANGED <<crc20, frontier>>
            /\ pc' \in {"resolve", "deltas", "crc20"} => pc' = pc /\ UNCHANGED <<block, todo>>
  <2>1. \A h \in 1..m : chain'[h] = chain[h]
    BY <1>2
  <2>2. \A h \in 1..n : h \in 1..Len(chain') /\ chain'[h] = chain[h]
    BY <1>2
  <2>3. \A c, row : RevealSound(row, c, chain, n) => RevealSound(row, c, chain', Len(chain'))
    BY <2>2 DEF RevealSound
  <2>4. \A c \in Category : crc20[c] # None => RevealSound(crc20[c], c, chain', Len(chain'))
    BY <1>5, <2>3
  <2>5. \A h \in 1..m : Revealed(crc20, chain'[h])
    BY <1>5, <2>1
  <2> QED  BY <1>11, <2>4, <2>5 DEF RevealsInv
<1>12. \/ WriteReveal \/ ResolveCanonical \/ CanonicalTimer \/ WriteBlockRow \/ ApplyDeltas
       \/ /\ UNCHANGED <<crc20, frontier>>
          /\ pc' \in {"resolve", "deltas", "crc20"} => pc' = pc /\ UNCHANGED <<block, todo>>
  BY DEF LinearInv, NoSkip, Next, CatchUp, ProcessBlock, vars, NodeAdvance, Start, Tick, CheckReorg,
     UnwindLive, UnwindCrc20, UnwindEdges, ReloadMembers, FetchBlock, SeedMembers, UpsertTokens,
     UpsertListings, FindCloses, ApplyClose, WriteState, ScanAuthchain, RecordEdge, SaveCheckpoint,
     Error, Crash, AbandonBlock, tables, process, batch, bounds, history
<1> QED  BY <1>7, <1>8, <1>9, <1>10, <1>11, <1>12

LEMMA FairIn ==
  ASSUME NEW row \in Crc20Row
  PROVE  FairGenesis(row) \in Nat /\ FairHeight(row) = FairGenesis(row)
<1>1. row.commit \in Nat /\ row.reveal \in Int /\ RevealWindow \in Int
  BY TailAssumption DEF Crc20Row, Heights
<1> PICK a \in Nat : a = row.commit
  BY <1>1
<1> PICK z \in Int : z = row.reveal - RevealWindow
  BY <1>1
<1>2. FairGenesis(row) = IF a >= z THEN a ELSE z
  BY DEF FairGenesis
<1> PICK x \in Nat : x = FairGenesis(row)
  BY <1>2
<1>3. /\ x \in {a, z} /\ x >= a /\ x >= z
      /\ \A y \in {a, z} : y >= a /\ y >= z => y = x
  BY <1>2
<1>4. FairHeight(row) = CHOOSE y \in {a, z} : y >= a /\ y >= z
  BY DEF FairHeight
<1> QED  BY <1>3, <1>4

(* A bucket with rows in it has a row that comes before every other.       *)
LEMMA BucketWinner ==
  ASSUME TypeOK, NEW s \in Symbol, Bucket(s) # {}
  PROVE  \E c \in Bucket(s) : \A d \in Bucket(s) \ {c} :
           Before(c, d) /\ ~Before(d, c)
<1> DEFINE B == Bucket(s)
           G == {FairGenesis(crc20[c]) : c \in B}
<1>1. \A c \in B : c \in Category /\ crc20[c] \in Crc20Row /\ FairGenesis(crc20[c]) \in Nat
  BY FairIn DEF Bucket, TypeOK
<1>2. PICK g \in G : \A k \in G : g <= k
  <2>1. G \in SUBSET Nat /\ G # {}
    BY <1>1
  <2> HIDE DEF G
  <2> QED  BY <2>1, LeastNat
<1> DEFINE K == {CategoryOrder[c] : c \in {d \in B : FairGenesis(crc20[d]) = g}}
<1>3. PICK o \in K : \A k \in K : o <= k
  <2>1. K \in SUBSET Nat /\ K # {}
    BY <1>1, <1>2, TailAssumption
  <2> HIDE DEF K
  <2> QED  BY <2>1, LeastNat
<1>4. PICK c \in B : FairGenesis(crc20[c]) = g /\ CategoryOrder[c] = o
  BY <1>3
<1>5. ASSUME NEW d \in B \ {c}
      PROVE  Before(c, d) /\ ~Before(d, c)
  <2> PICK x \in Nat : x = FairGenesis(crc20[d])
    BY <1>1
  <2> PICK y \in Nat : y = CategoryOrder[d]
    BY <1>1, TailAssumption
  <2>1. g \in Nat /\ o \in Nat
    BY <1>1, <1>4, TailAssumption
  <2>2. g <= x /\ (x = g => o <= y)
    BY <1>2, <1>3
  <2>3. o # y
    BY <1>1, <1>4, TailAssumption
  <2> QED  BY <1>4, <2>1, <2>2, <2>3 DEF Before
<1> QED  BY <1>4, <1>5

(* Without a reorg, whenever the tail is caught up every reveal of the     *)
(* chain has its row at its height, and every symbol one canonical         *)
(* category, of the least fair genesis height, unless a failure cut the    *)
(* ranking off and nothing ranked since (pass 5, crc20_canonical_resolve). *)
THEOREM RevealsExact == LinearChains => (Spec => []Crc20MatchesChain)
<1> SUFFICES ASSUME LinearChains PROVE Spec => []Crc20MatchesChain
  OBVIOUS
<1>1. Init => RevealsInv /\ RankedInv
  <2> SUFFICES ASSUME Init PROVE RevealsInv /\ RankedInv
    OBVIOUS
  <2>1. chain \in Chains /\ Boot \in Nat /\ DOMAIN chain = 1..Boot /\ \A h \in 1..Boot : chain[h] \in Block
    BY ChainIn, TailAssumption DEF Init
  <2>2. \A c \in Category : crc20[c] = None
    BY DEF Init
  <2>3. ASSUME NEW h \in 1..Boot
        PROVE  Reveals(chain[h]) = {}
    <3>1. FoundCategories(chain[h]) = {}
      BY <2>1, TailAssumption
    <3>2. ASSUME NEW e \in Reveals(chain[h])
          PROVE  FALSE
      <4>1. TxAt(chain[h], e) \in TxsOf(chain[h]) /\ MentionedBy(TxAt(chain[h], e)) # {}
        BY <2>1, RevealIn, InputsIn DEF Reveals, IsReveal
      <4> QED  BY <3>1, <4>1 DEF FoundCategories
    <3> QED  BY <3>2
  <2> QED  BY <2>1, <2>2, <2>3 DEF Init, RevealsInv, Revealed, RankedInv, Ranked
<1>2. /\ TypeOK /\ ControlOK /\ LinearInv /\ RevealsInv /\ RankedInv /\ [Next]_vars
      => (RevealsInv /\ RankedInv)'
  BY RevealsStep, RankedStep DEF LinearInv
<1>3. ExactInv /\ RevealsInv /\ RankedInv => Crc20MatchesChain
  <2> SUFFICES ASSUME ExactInv, RevealsInv, RankedInv, CaughtUp
               PROVE  /\ \A h \in DOMAIN chain : \A e \in Reveals(chain[h]) :
                           crc20[PrevAt(chain[h], e).tx] # None /\ crc20[PrevAt(chain[h], e).tx].reveal = h
                      /\ ~unranked => \A s \in Symbol : Bucket(s) # {} =>
                           \E c \in Bucket(s) :
                             /\ \A d \in Bucket(s) : crc20[d].canonical <=> d = c
                             /\ \A d \in Bucket(s) : FairHeight(crc20[c]) <= FairHeight(crc20[d])
    BY DEF Crc20MatchesChain
  <2>1. Numbers /\ TypeOK
    BY NumbersHold DEF ExactInv
  <2>2. frontier = Len(chain) /\ DOMAIN chain = 1..Len(chain) /\ ValidChain(chain)
        /\ \A h \in DOMAIN chain : chain[h] \in Block
    BY <2>1, ChainIn, TailAssumption DEF ExactInv, LinearInv, NoSkip, CaughtUp, Numbers, TypeOK
  <2>3. ASSUME NEW h \in DOMAIN chain, NEW e \in Reveals(chain[h])
        PROVE  crc20[PrevAt(chain[h], e).tx] # None /\ crc20[PrevAt(chain[h], e).tx].reveal = h
    <3> PICK c : c = PrevAt(chain[h], e).tx
      OBVIOUS
    <3>1. c \in Category /\ crc20[c] # None
      BY <2>2, RevealIn DEF RevealsInv, Revealed
    <3> PICK k : k = crc20[c].reveal
      OBVIOUS
    <3>2. k \in DOMAIN chain /\ \E f \in Reveals(chain[k]) : PrevAt(chain[k], f).tx = c
      BY <2>2, <3>1 DEF RevealsInv, RevealSound
    <3>3. PICK f \in Reveals(chain[k]) : PrevAt(chain[k], f).tx = c
      BY <3>2
    <3>4. /\ e \in Inputs(chain[h]) /\ f \in Inputs(chain[k])
          /\ PrevAt(chain[h], e).n = 0 /\ PrevAt(chain[k], f).n = 0
      BY <2>2, <3>2, RevealIn
    <3>5. h = k
      BY <2>1, <3>2, <3>3, <3>4, OneSpend
    <3> QED  BY <3>1, <3>5
  <2>4. ASSUME ~unranked, NEW s \in Symbol, Bucket(s) # {}
        PROVE  \E c \in Bucket(s) :
                 /\ \A d \in Bucket(s) : crc20[d].canonical <=> d = c
                 /\ \A d \in Bucket(s) : FairHeight(crc20[c]) <= FairHeight(crc20[d])
    <3>1. Ranked
      BY <2>4 DEF RankedInv, CaughtUp
    <3>2. PICK c \in Bucket(s) : \A d \in Bucket(s) \ {c} : Before(c, d) /\ ~Before(d, c)
      BY <2>1, <2>4, BucketWinner
    <3>3. ASSUME NEW d \in Bucket(s)
          PROVE  /\ crc20[d].canonical <=> d = c
                 /\ FairHeight(crc20[c]) <= FairHeight(crc20[d])
      <4>1. /\ d \in Category /\ crc20[d] # None /\ crc20[d].symbol = s
            /\ crc20[d] \in Crc20Row /\ crc20[c] \in Crc20Row /\ crc20[c].symbol = s
        BY <2>1 DEF Bucket, TypeOK
      <4>2. crc20[d].canonical <=> \A x \in Bucket(s) \ {d} : Before(d, x)
        BY <3>1, <4>1 DEF Ranked, Wins
      <4>3. crc20[d].canonical <=> d = c
        BY <3>2, <4>2
      <4>4. /\ FairGenesis(crc20[c]) \in Nat /\ FairGenesis(crc20[d]) \in Nat
            /\ FairHeight(crc20[c]) = FairGenesis(crc20[c])
            /\ FairHeight(crc20[d]) = FairGenesis(crc20[d])
        BY <4>1, FairIn
      <4>5. FairGenesis(crc20[c]) <= FairGenesis(crc20[d])
        <5>1. d = c \/ Before(c, d)
          BY <3>2
        <5> QED  BY <4>4, <5>1 DEF Before
      <4> QED  BY <4>3, <4>4, <4>5
    <3> QED  BY <3>3
  <2> QED  BY <2>3, <2>4
<1> QED  BY <1>1, <1>2, <1>3, Exact, PTL DEF Spec, ExactInv

----------------------------------------------------------------------------
(* The aggregates, without a reorg.  A category whose aggregate is stale   *)
(* is still to be written in the block at hand (touched), or a block the   *)
(* tail has yet to process, or to process again, touches it (Fresh), or a  *)
(* failure cut its writing off (lost).  Ahead says so of the process as it *)
(* runs, Resume of the checkpoint a restart would resume from.             *)

LiveIn(lv, c) == {o \in TokenOut : lv[o] # NoRow /\ CatOf(o) = c}

Agrees(row, lv, c) == row = LiveIn(lv, c) \/ (row = None /\ LiveIn(lv, c) = {})

Touches(b, lv, c) == c \in TouchedByCreates(b) \/ \E o \in LiveIn(lv, c) : o \in Spends(b)

Fresh(row, lv, ch, c, k, m) == Agrees(row, lv, c) \/ \E h \in k..m : Touches(ch[h], lv, c)

(* The first height whose deltas the process has yet to apply.             *)
NextHeight ==
  IF pc \in AfterDeltas THEN height + 1 ELSE IF pc \in Passes THEN height ELSE lastSeen + 1

FreshFrom(c, k) == Fresh(tokenState[c], live, chain, c, k, frontier)

Position ==
  /\ pc # "down" => lastSeen <= ckpt /\ (lastSeen < ckpt => lastSeen < applied)
  /\ pc \in Passes => height = lastSeen + 1 \/ height = ckpt + 1

Ahead == pc # "down" => \A c \in Category : c \in lost \/ c \in touched \/ FreshFrom(c, NextHeight)

Resume == applied >= ckpt => \A c \in Category : c \in lost \/ c \in CutOff \/ FreshFrom(c, ckpt + 1)

FreshInv ==
  /\ pc # "states" => touched = {}
  /\ ~replayCut => Position /\ Ahead /\ Resume

(* A step that neither writes a row or an aggregate nor moves the process. *)
Quiet ==
  /\ UNCHANGED <<live, tokenState, frontier, applied, ckpt, lastSeen, lost, touched, replayCut>>
  /\ pc' = "down" <=> pc = "down"
  /\ pc' = "states" <=> pc = "states"
  /\ pc = "states" => block' = block
  /\ pc' \in Passes => height' = lastSeen + 1 \/ (pc \in Passes /\ height' = height)
  /\ NextHeight' = NextHeight

Moves ==
  \/ Start \/ ApplyDeltas \/ (\E c \in Category : WriteState(c)) \/ SaveCheckpoint \/ Error \/ Crash

LEMMA OthersQuiet ==
  ASSUME NoSkip, [Next]_vars, ~Moves
  PROVE  Quiet
<1>1. CASE Tick
  BY <1>1 DEF Tick, Quiet, NextHeight, tables, batch, history, AfterDeltas, Passes
<1>2. CASE CheckReorg
  BY <1>2 DEF CheckReorg, Quiet, NextHeight, tables, process, batch, history, AfterDeltas, Passes
<1>3. CASE FetchBlock \/ SeedMembers
  BY <1>3 DEF FetchBlock, SeedMembers, Quiet, NextHeight, tables, batch, history, AfterDeltas, Passes
<1>4. CASE UpsertTokens \/ UpsertListings
  BY <1>4 DEF UpsertTokens, UpsertListings, Quiet, NextHeight, process, batch, history, AfterDeltas, Passes
<1>5. CASE FindCloses \/ ApplyClose
  BY <1>5 DEF FindCloses, ApplyClose, Quiet, NextHeight, tables, process, history, AfterDeltas, Passes
<1>6. CASE WriteBlockRow \/ WriteReveal
  BY <1>6 DEF WriteBlockRow, WriteReveal, Quiet, NextHeight, process, history, AfterDeltas, Passes
<1>7. CASE ResolveCanonical
  BY <1>7 DEF ResolveCanonical, Quiet, NextHeight, process, batch, AfterDeltas, Passes
<1>8. CASE ScanAuthchain \/ RecordEdge
  BY <1>8 DEF ScanAuthchain, RecordEdge, Quiet, NextHeight, tables, process, history, AfterDeltas, Passes
<1>9. CASE NodeAdvance \/ CanonicalTimer \/ UNCHANGED vars
  BY <1>9 DEF NodeAdvance, CanonicalTimer, vars, Quiet, NextHeight, tables, process, batch
<1> QED
  BY <1>1, <1>2, <1>3, <1>4, <1>5, <1>6, <1>7, <1>8, <1>9
     DEF Moves, NoSkip, Next, CatchUp, ProcessBlock, UnwindLive, UnwindCrc20, UnwindEdges, ReloadMembers

LEMMA PositionStep ==
  ASSUME TypeOK, ControlOK, NoSkip, Ordered, Position, [Next]_vars, ~replayCut'
  PROVE  Position'
<1>1. Numbers
  BY NumbersHold
<1> USE DEF Numbers, Position, Passes, AfterDeltas
<1>2. CASE Start
  BY <1>1, <1>2 DEF Start, history
<1>3. CASE ApplyDeltas
  BY <1>1, <1>3 DEF ApplyDeltas, process, Ordered
<1>4. CASE \E c \in Category : WriteState(c)
  BY <1>1, <1>4 DEF WriteState, process
<1>5. CASE SaveCheckpoint
  BY <1>1, <1>5 DEF SaveCheckpoint, history, Ordered
<1>6. CASE Error
  BY <1>1, <1>6 DEF Error, AbandonBlock, SeenAfterError
<1>7. CASE Crash
  BY <1>7 DEF Crash
<1>8. CASE Quiet
  BY <1>1, <1>8 DEF Quiet
<1> QED  BY <1>2, <1>3, <1>4, <1>5, <1>6, <1>7, <1>8, OthersQuiet DEF Moves

(* An earlier start touches more.                                          *)
LEMMA FreshLower ==
  ASSUME NEW row, NEW lv, NEW ch, NEW c, NEW k \in Nat, NEW m \in Nat, NEW n \in Nat,
         NEW j \in Nat, j <= k, m <= n, Fresh(row, lv, ch, c, k, m)
  PROVE  Fresh(row, lv, ch, c, j, n)
BY DEF Fresh

(* What the deltas do to one category.                                     *)
LEMMA DeltasTouch ==
  ASSUME NEW c \in Category, NEW lv, NEW b, Creates(b) \subseteq TokenOut,
         NEW after, after = [o \in TokenOut |-> IF o \in Spends(b) THEN NoRow
                                                ELSE IF o \in Creates(b) THEN height ELSE lv[o]],
         c \notin TouchedByCreates(b)
  PROVE  /\ LiveIn(after, c) \subseteq LiveIn(lv, c)
         /\ \A o \in LiveIn(lv, c) : o \notin Spends(b) => o \in LiveIn(after, c)
<1>1. \A o \in Creates(b) : CatOf(o) # c
  BY DEF TouchedByCreates
<1>2. ASSUME NEW o \in LiveIn(after, c)
      PROVE  o \in LiveIn(lv, c)
  <2>1. o \in TokenOut /\ CatOf(o) = c /\ after[o] # NoRow
    BY DEF LiveIn
  <2>2. o \notin Spends(b) /\ o \notin Creates(b)
    BY <1>1, <2>1
  <2> QED  BY <2>1, <2>2 DEF LiveIn
<1>3. ASSUME NEW o \in LiveIn(lv, c), o \notin Spends(b)
      PROVE  o \in LiveIn(after, c)
  <2>1. o \in TokenOut /\ CatOf(o) = c /\ lv[o] # NoRow
    BY DEF LiveIn
  <2> QED  BY <1>1, <1>3, <2>1 DEF LiveIn
<1> QED  BY <1>2, <1>3

LEMMA DeltasFresh ==
  ASSUME ExactInv, FreshInv, ~replayCut, ApplyDeltas
  PROVE  Ahead' /\ Resume'
<1>1. Numbers /\ chain \in Chains
  BY NumbersHold DEF ExactInv, TypeOK
<1> PICK h : h = height
  OBVIOUS
<1> PICK b : b = block
  OBVIOUS
<1> PICK m : m = frontier
  OBVIOUS
<1> PICK n : n = frontier'
  OBVIOUS
<1>2. /\ pc = "deltas" /\ pc' \in {"scan", "states"} /\ h \in Nat /\ h >= 1 /\ m \in Nat /\ n \in Nat
      /\ b = chain[h] /\ b \in Block /\ h <= m + 1 /\ n = (IF h > m THEN h ELSE m)
      /\ applied' = h /\ ckpt \in Nat /\ touched' = TouchedBy(b) /\ touched = {}
      /\ live' = LiveAfter(b)
      /\ UNCHANGED <<chain, tokenState, lost, height, block, ckpt, lastSeen>>
      /\ h \in 1..Len(chain)
  BY <1>1 DEF ApplyDeltas, process, Numbers, Passes, InBlock, ExactInv, LinearInv, NoSkip, ControlOK, FreshInv
<1>3. /\ h <= ckpt + 1
      /\ h = ckpt => applied >= ckpt
  <2>1. /\ lastSeen < h /\ lastSeen <= ckpt /\ (lastSeen < ckpt => lastSeen < applied)
        /\ h = lastSeen + 1 \/ h = ckpt + 1
    BY <1>2 DEF FreshInv, Position, ExactInv, InOrder, Ordered, Passes
  <2> QED  BY <1>1, <1>2, <2>1 DEF Numbers
<1>4. NextHeight = h /\ NextHeight' = h + 1
  BY <1>2 DEF NextHeight, AfterDeltas, Passes
<1> PICK lv : lv = live
  OBVIOUS
<1> PICK after : after = live'
  OBVIOUS
<1>5. /\ Creates(b) \subseteq TokenOut
      /\ after = [o \in TokenOut |-> IF o \in Spends(b) THEN NoRow
                                     ELSE IF o \in Creates(b) THEN height ELSE lv[o]]
  BY <1>2, CreatesIn DEF LiveAfter
<1>6. ASSUME NEW c \in Category, c \notin touched'
      PROVE  LiveIn(after, c) = LiveIn(lv, c) /\ ~Touches(b, lv, c)
  <2>1. c \notin TouchedByCreates(b) /\ \A o \in LiveIn(lv, c) : o \notin Spends(b)
    BY <1>2, <1>6 DEF TouchedBy, Removed, LiveSet, LiveIn
  <2>2. LiveIn(after, c) \subseteq LiveIn(lv, c) /\ \A o \in LiveIn(lv, c) : o \in LiveIn(after, c)
    BY <1>5, <2>1, DeltasTouch
  <2>3. LiveIn(after, c) = LiveIn(lv, c)
    BY <2>2
  <2> QED  BY <2>1, <2>3 DEF Touches
<1>7. Ahead'
  <2> SUFFICES ASSUME NEW c \in Category, c \notin lost, c \notin touched'
               PROVE  Fresh(tokenState[c], after, chain, c, h + 1, n)
    BY <1>2, <1>4 DEF Ahead, FreshFrom
  <2>1. Fresh(tokenState[c], lv, chain, c, h, m)
    BY <1>2, <1>4 DEF FreshInv, Ahead, FreshFrom
  <2>2. LiveIn(after, c) = LiveIn(lv, c) /\ ~Touches(b, lv, c)
    BY <1>6
  <2>3. \A x : Touches(x, after, c) <=> Touches(x, lv, c)
    BY <2>2 DEF Touches
  <2>4. Agrees(tokenState[c], lv, c) => Agrees(tokenState[c], after, c)
    BY <2>2 DEF Agrees
  <2>5. \A x \in h..m : Touches(chain[x], lv, c) => x \in (h + 1)..n
    BY <1>2, <2>2
  <2> QED  BY <2>1, <2>3, <2>4, <2>5 DEF Fresh
<1>8. Resume'
  <2> SUFFICES ASSUME h >= ckpt, NEW c \in Category, c \notin lost, c \notin CutOff'
               PROVE  Fresh(tokenState[c], after, chain, c, ckpt + 1, n)
    BY <1>2 DEF Resume, FreshFrom
  <2>1. c \in touched' => c \in TouchedByCreates(b)
    <3>1. c \in touched' => pc' = "states"
      BY DEF ApplyDeltas
    <3> QED  BY <1>2, <3>1 DEF CutOff
  <2>2. CASE h = ckpt + 1
    <3>1. CASE c \in TouchedByCreates(b)
      BY <1>2, <2>2, <3>1 DEF Fresh, Touches
    <3>2. CASE c \notin TouchedByCreates(b)
      <4>1. LiveIn(after, c) = LiveIn(lv, c)
        BY <1>6, <2>1, <3>2
      <4>2. Fresh(tokenState[c], lv, chain, c, h, m)
        BY <1>2, <1>4 DEF FreshInv, Ahead, FreshFrom
      <4>3. Fresh(tokenState[c], after, chain, c, h, m)
        BY <4>1, <4>2 DEF Fresh, Agrees, Touches
      <4>4. m <= n /\ h <= h
        BY <1>2
      <4> QED  BY <1>2, <2>2, <4>3, <4>4, FreshLower
    <3> QED  BY <3>1, <3>2
  <2>3. CASE h = ckpt
    <3>1. applied >= ckpt /\ applied <= m /\ h \in 1..applied /\ h \in 1..m /\ n = m
      BY <1>1, <1>2, <1>3, <2>3 DEF ExactInv, LinearInv, NoSkip, Numbers
    <3>2. \A o \in TokenOut : lv[o] # NoRow => o \notin Spends(b)
      BY <1>2, <3>1 DEF ExactInv, RowsUnspent
    <3>3. Fresh(tokenState[c], lv, chain, c, ckpt + 1, m)
      BY <1>2, <3>1 DEF FreshInv, Resume, FreshFrom, CutOff
    <3>4. LiveIn(lv, c) \subseteq LiveIn(after, c)
      <4> SUFFICES ASSUME NEW o \in LiveIn(lv, c) PROVE o \in LiveIn(after, c)
        OBVIOUS
      <4>1. o \in TokenOut /\ lv[o] # NoRow /\ CatOf(o) = c
        BY DEF LiveIn
      <4>2. after[o] # NoRow
        BY <1>2, <1>5, <3>2, <4>1 DEF NoRow
      <4> QED  BY <4>1, <4>2 DEF LiveIn
    <3>5. CASE LiveIn(after, c) = LiveIn(lv, c)
      BY <3>1, <3>3, <3>5 DEF Fresh, Agrees, Touches
    <3>6. CASE \E o \in LiveIn(after, c) : o \notin LiveIn(lv, c)
      <4> PICK o \in LiveIn(after, c) : o \notin LiveIn(lv, c)
        BY <3>6
      <4>1. o \in TokenOut /\ CatOf(o) = c /\ lv[o] = NoRow /\ after[o] # NoRow
        BY DEF LiveIn
      <4>2. o \in Creates(b) /\ o \notin Spends(b)
        BY <1>5, <4>1
      <4>3. PICK j \in 1..m : o \in Spends(chain[j])
        BY <1>2, <3>1, <4>1, <4>2 DEF ExactInv, LinearInv, RowsComplete
      <4>4. h <= j
        <5>1. ValidChain(chain) /\ DOMAIN chain = 1..Len(chain) /\ m <= Len(chain) /\ Len(chain) \in Nat
          BY <1>1, TailAssumption DEF Numbers, ExactInv, LinearInv, NoSkip
        <5>2. o.tx \in TxsOf(chain[h])
          BY <1>2, <4>2, CreatesFrom
        <5> QED  BY <1>2, <4>3, <5>1, <5>2 DEF ValidChain
      <4>5. j \in (ckpt + 1)..n
        BY <1>2, <2>3, <3>1, <4>2, <4>3, <4>4
      <4> QED  BY <4>3, <4>5 DEF Fresh, Touches
    <3> QED  BY <3>4, <3>5, <3>6
  <2> QED  BY <1>2, <1>3, <2>2, <2>3
<1> QED  BY <1>7, <1>8

LEMMA FreshStep ==
  ASSUME LinearChains, ExactInv, FreshInv, [Next]_vars, ~replayCut'
  PROVE  Ahead' /\ Resume'
<1>1. Numbers
  BY NumbersHold DEF ExactInv
<1>2. \A i \in 1..frontier : chain'[i] = chain[i]
  BY <1>1, ChainExtends DEF ExactInv, LinearInv, NoSkip, Numbers
<1>a. replayCut => replayCut'
  BY DEF ExactInv, LinearInv, NoSkip, Next, CatchUp, ProcessBlock, vars, NodeAdvance, Start, Tick,
     CheckReorg, UnwindLive, UnwindCrc20, UnwindEdges, ReloadMembers, FetchBlock, SeedMembers, UpsertTokens,
     UpsertListings, FindCloses, ApplyClose, WriteBlockRow, WriteReveal, ResolveCanonical, ApplyDeltas,
     WriteState, ScanAuthchain, RecordEdge, SaveCheckpoint, CanonicalTimer, Error, Crash, history
<1>3. ~replayCut /\ Ordered
  BY <1>a DEF ExactInv, InOrder
<1>4. Position /\ Ahead /\ Resume /\ (pc # "states" => touched = {})
  BY <1>3 DEF FreshInv
<1>5. lastSeen \in Nat /\ ckpt \in Nat /\ height \in Nat /\ frontier \in Nat /\ lastSeen >= 1 /\ ckpt >= 1
      /\ NextHeight \in Nat /\ NextHeight >= 1
  BY <1>1 DEF Numbers, NextHeight
<1>6. CASE Start
  <2>1. /\ pc = "down" /\ UNCHANGED <<tokenState, live, chain, frontier, lost, ckpt, touched, block, applied>>
        /\ pc' \in {"check", "idle"} /\ NextHeight' = ckpt + 1
    BY <1>6 DEF Start, tables, batch, history, NextHeight, AfterDeltas, Passes
  <2>2. applied >= ckpt
    BY <1>1, <1>3, <2>1 DEF ExactInv, InOrder, Ordered, Numbers
  <2>3. \A c \in Category : c \in lost \/ FreshFrom(c, ckpt + 1)
    BY <1>4, <2>1, <2>2 DEF Resume, CutOff
  <2>4. \A c \in Category, k \in Nat : FreshFrom(c, k) => FreshFrom(c, k)'
    BY <2>1 DEF FreshFrom
  <2> QED  BY <1>5, <2>1, <2>3, <2>4 DEF Ahead, Resume
<1>7. CASE ApplyDeltas
  BY <1>3, <1>7, DeltasFresh
<1>8. CASE \E c \in Category : WriteState(c)
  <2> PICK d \in Category : WriteState(d)
    BY <1>8
  <2>1. /\ pc = "states" /\ pc' \in {"states", "scan"} /\ touched' = touched \ {d} /\ lost' = lost \ {d}
        /\ pc' = "scan" => touched' = {}
        /\ UNCHANGED <<live, chain, frontier, ckpt, block, applied, height>>
        /\ NextHeight' = NextHeight
        /\ tokenState' = [tokenState EXCEPT ![d] = LiveOf(d)]
    BY DEF WriteState, process, NextHeight, AfterDeltas
  <2>2. ASSUME NEW c \in Category, NEW k \in Nat, c # d, FreshFrom(c, k)
        PROVE  FreshFrom(c, k)'
    <3>1. tokenState'[c] = tokenState[c]
      BY <2>1, <2>2
    <3> QED  BY <2>1, <2>2, <3>1 DEF FreshFrom
  <2>3. ASSUME NEW k \in Nat
        PROVE  FreshFrom(d, k)'
    <3>1. tokenState'[d] = LiveOf(d) \/ tokenState'[d] = tokenState[d]
      BY <2>1
    <3>2. tokenState'[d] = LiveOf(d)
      BY <2>1 DEF ExactInv, TypeOK
    <3>3. LiveOf(d) = LiveIn(live, d)
      BY DEF LiveOf, LiveSet, LiveIn
    <3> QED  BY <2>1, <3>2, <3>3 DEF FreshFrom, Fresh, Agrees
  <2>4. Ahead'
    BY <1>4, <1>5, <2>1, <2>2, <2>3 DEF Ahead
  <2>5. Resume'
    <3> SUFFICES ASSUME applied >= ckpt, NEW c \in Category, c \notin lost', c \notin CutOff'
                 PROVE  FreshFrom(c, ckpt + 1)'
      BY <2>1 DEF Resume
    <3> PICK k \in Nat : k = ckpt + 1
      BY <1>5
    <3>0. FreshFrom(c, k)' => FreshFrom(c, ckpt + 1)'
      BY <2>1
    <3>1. CASE c = d
      BY <2>3, <3>0, <3>1
    <3>2. CASE c # d
      <4>1. c \notin CutOff
        BY <2>1, <3>2 DEF CutOff
      <4>2. c \notin lost
        BY <2>1, <3>2
      <4>3. FreshFrom(c, k)
        BY <1>4, <4>1, <4>2 DEF Resume
      <4> QED  BY <2>2, <3>0, <3>2, <4>3
    <3> QED  BY <3>1, <3>2
  <2> QED  BY <2>4, <2>5
<1>9. CASE SaveCheckpoint
  <2>1. /\ pc = "save" /\ pc' \in {"idle", "check"} /\ NextHeight = height + 1 /\ NextHeight' = height + 1
        /\ ckpt' = height
        /\ UNCHANGED <<live, tokenState, chain, frontier, applied, touched, lost>>
    BY <1>9 DEF SaveCheckpoint, tables, batch, history, NextHeight, AfterDeltas, Passes
  <2>2. \A c \in Category : c \in lost \/ FreshFrom(c, height + 1)
    BY <1>4, <2>1 DEF Ahead
  <2>3. \A c \in Category, k \in Nat : FreshFrom(c, k) => FreshFrom(c, k)'
    BY <2>1 DEF FreshFrom
  <2> QED  BY <1>5, <2>1, <2>2, <2>3 DEF Ahead, Resume
<1>10. CASE Error \/ Crash
  <2>1. /\ UNCHANGED <<live, tokenState, chain, frontier, applied, ckpt>> /\ lost' = lost \cup CutOff
        /\ touched' = {} /\ pc' \in {"down", "idle"} /\ lastSeen' = lastSeen
    BY <1>10 DEF Error, Crash, AbandonBlock, SeenAfterError, tables, ExactInv, InOrder
  <2>2. pc' = "idle" => pc \in Passes
    BY <1>10 DEF Error, Crash
  <2>3. \A c \in Category, k \in Nat : FreshFrom(c, k) => FreshFrom(c, k)'
    BY <2>1 DEF FreshFrom
  <2>4. Resume'
    BY <1>4, <1>5, <2>1, <2>3 DEF Resume
  <2>5. ASSUME pc' = "idle", NEW c \in Category, c \notin lost, c \notin CutOff
        PROVE  FreshFrom(c, lastSeen + 1)
    <3>1. /\ pc \in Passes /\ lastSeen + 1 <= height /\ lastSeen + 1 <= NextHeight
          /\ pc \in AfterDeltas => height <= frontier /\ block = chain[height]
      <4>1. pc \in Passes
        BY <2>2, <2>5
      <4>2. lastSeen + 1 <= height
        BY <1>1, <1>3, <1>5, <4>1 DEF Ordered, Numbers
      <4>3. lastSeen + 1 <= NextHeight
        BY <1>1, <1>3, <1>5, <4>1, <4>2 DEF Ordered, Numbers, NextHeight
      <4>4. pc \in AfterDeltas => height <= frontier /\ block = chain[height]
        BY <1>1, <1>3, <1>5, <4>1
           DEF Ordered, Numbers, ExactInv, LinearInv, NoSkip, InBlock, AfterDeltas
      <4> QED  BY <4>1, <4>2, <4>3, <4>4
    <3>2. CASE c \in touched
      <4>1. pc = "states" /\ c \in TouchedByCreates(block)
        BY <1>4, <2>5, <3>2 DEF CutOff
      <4>2. height \in (lastSeen + 1)..frontier /\ block = chain[height]
        BY <1>5, <3>1, <4>1 DEF AfterDeltas
      <4> QED  BY <4>1, <4>2 DEF FreshFrom, Fresh, Touches
    <3>3. CASE c \notin touched
      <4>1. FreshFrom(c, NextHeight)
        BY <1>4, <2>5, <3>1, <3>3 DEF Ahead, Passes
      <4>2. lastSeen + 1 \in Nat /\ frontier <= frontier
        BY <1>5
      <4> QED  BY <1>5, <3>1, <4>1, <4>2, FreshLower DEF FreshFrom
    <3> QED  BY <3>2, <3>3
  <2>6. pc' = "idle" => NextHeight' = lastSeen + 1
    BY <2>1 DEF NextHeight, AfterDeltas, Passes
  <2>7. Ahead'
    BY <1>5, <2>1, <2>3, <2>5, <2>6 DEF Ahead
  <2> QED  BY <2>4, <2>7
<1>11. CASE Quiet
  <2>1. ASSUME NEW c \in Category, NEW k \in Nat, k >= 1, FreshFrom(c, k)
        PROVE  FreshFrom(c, k)'
    <3>1. \A h \in k..frontier : chain'[h] = chain[h]
      BY <1>2, <1>5, <2>1
    <3>2. Fresh(tokenState[c], live, chain', c, k, frontier)
      BY <2>1, <3>1 DEF FreshFrom, Fresh
    <3> QED  BY <1>11, <3>2 DEF Quiet, FreshFrom
  <2>2. CutOff' = CutOff
    BY <1>11 DEF Quiet, CutOff
  <2>3. Ahead'
    BY <1>4, <1>5, <1>11, <2>1 DEF Quiet, Ahead
  <2>4. ckpt + 1 \in Nat /\ ckpt + 1 >= 1
    BY <1>5
  <2>5. Resume'
    BY <1>4, <1>11, <2>1, <2>2, <2>4 DEF Quiet, Resume
  <2> QED  BY <2>3, <2>5
<1> QED  BY <1>6, <1>7, <1>8, <1>9, <1>10, <1>11, OthersQuiet DEF Moves, ExactInv, LinearInv

(* Without a reorg, whenever the tail is caught up every aggregate agrees  *)
(* with live_token_utxo, whatever errors and crashes came before, except   *)
(* those a failure cut off after the deltas had committed (lost) and what  *)
(* a crash in a replay breaks (write_token_state, catch_up, replayCut).    *)
THEOREM StatesFresh == LinearChains => (Spec => []StateFresh)
<1> SUFFICES ASSUME LinearChains PROVE Spec => []StateFresh
  OBVIOUS
<1>1. Init => FreshInv
  BY DEF Init, FreshInv, Position, Ahead, Resume, CutOff, FreshFrom, Fresh, Agrees, LiveIn, Passes
<1>2. ExactInv /\ FreshInv /\ [Next]_vars => FreshInv'
  <2> SUFFICES ASSUME ExactInv, FreshInv, [Next]_vars PROVE FreshInv'
    OBVIOUS
  <2>1. pc' # "states" => touched' = {}
    BY DEF FreshInv, Next, CatchUp, ProcessBlock, vars, NodeAdvance, Start, Tick, CheckReorg, UnwindLive,
       UnwindCrc20, UnwindEdges, ReloadMembers, FetchBlock, SeedMembers, UpsertTokens, UpsertListings,
       FindCloses, ApplyClose, WriteBlockRow, WriteReveal, ResolveCanonical, ApplyDeltas, WriteState,
       ScanAuthchain, RecordEdge, SaveCheckpoint, CanonicalTimer, Error, Crash, AbandonBlock, process, batch
  <2>2. replayCut => replayCut'
    BY DEF ExactInv, LinearInv, NoSkip, Next, CatchUp, ProcessBlock, vars, NodeAdvance, Start, Tick,
       CheckReorg, UnwindLive, UnwindCrc20, UnwindEdges, ReloadMembers, FetchBlock, SeedMembers, UpsertTokens,
       UpsertListings, FindCloses, ApplyClose, WriteBlockRow, WriteReveal, ResolveCanonical, ApplyDeltas,
       WriteState, ScanAuthchain, RecordEdge, SaveCheckpoint, CanonicalTimer, Error, Crash, history
  <2>3. ASSUME ~replayCut'
        PROVE  Position' /\ Ahead' /\ Resume'
    <3>1. Position /\ Ordered
      BY <2>2, <2>3 DEF FreshInv, ExactInv, InOrder
    <3>2. Position'
      BY <2>3, <3>1, PositionStep DEF ExactInv, LinearInv
    <3> QED  BY <2>3, <3>2, FreshStep
  <2> QED  BY <2>1, <2>3 DEF FreshInv
<1>3. ExactInv /\ FreshInv => StateFresh
  <2> SUFFICES ASSUME ExactInv, FreshInv, CaughtUp, ~replayCut, NEW c \in Category, c \notin lost
               PROVE  Aggregated(c)
    BY DEF StateFresh
  <2>1. Numbers
    BY NumbersHold DEF ExactInv
  <2>2. NextHeight = Len(chain) + 1 /\ frontier <= Len(chain) /\ touched = {}
    BY <2>1 DEF CaughtUp, NextHeight, AfterDeltas, Passes, ExactInv, LinearInv, NoSkip, FreshInv
  <2>3. Fresh(tokenState[c], live, chain, c, Len(chain) + 1, frontier)
    BY <2>2 DEF FreshInv, Ahead, FreshFrom, CaughtUp
  <2>4. (Len(chain) + 1)..frontier = {}
    BY <2>1, <2>2 DEF Numbers
  <2>5. LiveOf(c) = LiveIn(live, c)
    BY DEF LiveOf, LiveSet, LiveIn
  <2> QED  BY <2>3, <2>4, <2>5 DEF Fresh, Agrees, Aggregated
<1> QED  BY <1>1, <1>2, <1>3, Exact, PTL DEF Spec

----------------------------------------------------------------------------
(* The authchain index, without a reorg and with parents before their      *)
(* spenders in every block, where the one scan in block order cannot miss  *)
(* a hop.  The members in memory include transactions no table knows of    *)
(* (pass 1 seeds the first mention of a category in EVERY block), whose    *)
(* children enter the index too: Reach is whoever is a member or will be   *)
(* one when the blocks above Base are replayed, and below the frontier the *)
(* spend of each of them is recorded already (Recorded).                   *)

ParentsFirst ==
  \A ch \in Chains : \A i \in DOMAIN ch : \A e \in Vout0Spends(ch[i]) :
    \A k \in DOMAIN BlockTxs[ch[i]] : BlockTxs[ch[i]][k] = PrevAt(ch[i], e).tx => k < e.pos

Known == IF pc = "down" THEN MembersOf(tokens, edges) ELSE members
Base == IF pc = "down" THEN ckpt ELSE lastSeen

Reach(t) == t \in Known \/ \E h \in (Base + 1)..frontier : t \in Seeds(chain[h])

Recorded(b) ==
  \A e \in Vout0Spends(b) : Reach(PrevAt(b, e).tx) => edges[PrevAt(b, e).tx] # None

(* The next height the process goes through.                               *)
NextPass == IF pc = "down" THEN ckpt + 1 ELSE IF pc \in Passes THEN height ELSE lastSeen + 1

Place == lastSeen <= ckpt /\ (pc \in Passes => lastSeen < height /\ height <= ckpt + 1)

EdgeSound(row, t, ch, n) ==
  /\ row.height \in 1..n
  /\ \E e \in Vout0Spends(ch[row.height]) :
       PrevAt(ch[row.height], e).tx = t /\ TxAt(ch[row.height], e) = row.child

EdgesSound == \A t \in TxId : edges[t] # None => EdgeSound(edges[t], t, chain, Len(chain))

SeedsKnown ==
  /\ pc \in Passes => \A k \in (lastSeen + 1)..(height - 1) : Seeds(chain[k]) \subseteq members
  /\ pc \in InBlock \ {"seed"} => Seeds(block) \subseteq members

LeftToDo ==
  pc \in {"edges", "save"} => \A e \in Vout0Spends(block) :
    Reach(PrevAt(block, e).tx) => (pc = "edges" /\ e \in todo) \/ edges[PrevAt(block, e).tx] # None

BelowRecorded == \A h \in 1..(frontier - 1) : Recorded(chain[h])
FrontierRecorded == Recorded(chain[frontier]) \/ (ckpt < frontier /\ NextPass <= frontier)

AuthInv ==
  /\ MembersKnown /\ Place /\ EdgesSound /\ SeedsKnown
  /\ BelowRecorded /\ FrontierRecorded /\ LeftToDo

LEMMA PlaceStep ==
  ASSUME TypeOK, ControlOK, NoSkip, Place, [Next]_vars
  PROVE  Place'
<1>1. Numbers
  BY NumbersHold
<1> USE DEF Numbers, Place, Passes, AfterDeltas
<1>2. CASE Start
  BY <1>1, <1>2 DEF Start, history
<1>3. CASE ApplyDeltas
  BY <1>1, <1>3 DEF ApplyDeltas, process
<1>4. CASE \E c \in Category : WriteState(c)
  BY <1>1, <1>4 DEF WriteState, process
<1>5. CASE SaveCheckpoint
  BY <1>1, <1>5 DEF SaveCheckpoint, history
<1>6. CASE Error
  BY <1>1, <1>6 DEF Error, AbandonBlock, SeenAfterError
<1>7. CASE Crash
  BY <1>1, <1>7 DEF Crash
<1>8. CASE Tick
  BY <1>1, <1>8 DEF Tick, tables
<1>9. CASE UNCHANGED <<lastSeen, ckpt>> /\ (pc' \in Passes => pc \in Passes /\ height' = height)
  BY <1>9
<1>10. \/ Start \/ ApplyDeltas \/ (\E c \in Category : WriteState(c)) \/ SaveCheckpoint \/ Error \/ Crash
       \/ Tick
       \/ (UNCHANGED <<lastSeen, ckpt>> /\ (pc' \in Passes => pc \in Passes /\ height' = height))
  BY DEF NoSkip, Next, CatchUp, ProcessBlock, vars, NodeAdvance, CheckReorg, UnwindLive, UnwindCrc20,
     UnwindEdges, ReloadMembers, FetchBlock, SeedMembers, UpsertTokens, UpsertListings, FindCloses,
     ApplyClose, WriteBlockRow, WriteReveal, ResolveCanonical, ScanAuthchain, RecordEdge,
     CanonicalTimer, tables, process, batch
<1> QED  BY <1>2, <1>3, <1>4, <1>5, <1>6, <1>7, <1>8, <1>9, <1>10

LEMMA SeedsIn ==
  ASSUME NEW b \in Block
  PROVE  Seeds(b) \subseteq TxsOf(b)
<1> SUFFICES ASSUME NEW c \in FoundCategories(b) PROVE FoundTx(b, c) \in TxsOf(b)
  BY DEF Seeds
<1> DEFINE K == {k \in DOMAIN BlockTxs[b] : c \in MentionedBy(BlockTxs[b][k])}
<1>1. K \in SUBSET Nat /\ K # {}
  BY ChainDataTypes DEF FoundCategories, TxsOf
<1>2. Lowest(K) \in K
  BY <1>1, LowestIn
<1> QED  BY <1>2 DEF FoundTx, TxsOf

(* A transaction is spent in its own block or above.                       *)
LEMMA SpentLater ==
  ASSUME TypeOK, NEW i \in DOMAIN chain, NEW j \in DOMAIN chain, NEW e \in Inputs(chain[j]),
         PrevAt(chain[j], e).tx \in TxsOf(chain[i])
  PROVE  i <= j
<1>1. ValidChain(chain)
  BY TailAssumption DEF TypeOK
<1> QED  BY <1>1 DEF ValidChain, Spends

LEMMA SeedsKnownStep ==
  ASSUME LinearChains, TypeOK, ControlOK, NoSkip, Place, SeedsKnown, [Next]_vars
  PROVE  SeedsKnown'
<1>1. Numbers
  BY NumbersHold
<1>2. pc \in Passes => \A k \in (lastSeen + 1)..(height - 1) : chain'[k] = chain[k]
  BY <1>1, ChainExtends DEF Numbers, Place
<1>3. CASE Start \/ Tick
  <2>1. pc' \notin InBlock /\ (pc' \in Passes => height' = lastSeen' + 1) /\ lastSeen' \in Int
    BY <1>1, <1>3 DEF Start, Tick, InBlock, Passes, Numbers
  <2>2. pc' \in Passes => (lastSeen' + 1)..(height' - 1) = {}
    BY <2>1
  <2> QED  BY <2>1, <2>2 DEF SeedsKnown
<1>4. CASE SeedMembers
  <2>1. /\ pc = "seed" /\ pc' = "tokens" /\ members' = members \cup Seeds(block)
        /\ UNCHANGED <<chain, block, height, lastSeen>>
    BY <1>4 DEF SeedMembers
  <2>2. \A k \in (lastSeen + 1)..(height - 1) : Seeds(chain[k]) \subseteq members
    BY <2>1 DEF SeedsKnown, Passes
  <2>4. \A k \in (lastSeen' + 1)..(height' - 1) : Seeds(chain'[k]) \subseteq members'
    BY <2>1, <2>2
  <2>5. Seeds(block') \subseteq members'
    BY <2>1
  <2> QED  BY <2>4, <2>5 DEF SeedsKnown
<1>5. CASE SaveCheckpoint
  <2>1. /\ pc = "save" /\ UNCHANGED <<chain, members>> /\ pc' \in {"idle", "check"}
        /\ pc' = "check" => height' = height + 1 /\ lastSeen' = lastSeen
        /\ height \in Nat /\ lastSeen \in Nat /\ block = chain[height]
    BY <1>1, <1>5 DEF SaveCheckpoint, Numbers, NoSkip, InBlock, Passes
  <2>2. ASSUME NEW k \in (lastSeen + 1)..height
        PROVE  Seeds(chain[k]) \subseteq members
    <3>1. k \in (lastSeen + 1)..(height - 1) \/ k = height
      BY <2>1
    <3> QED  BY <2>1, <3>1 DEF SeedsKnown, InBlock, Passes
  <2>3. pc' = "check" => (lastSeen' + 1)..(height' - 1) = (lastSeen + 1)..height
    BY <2>1
  <2> QED  BY <2>1, <2>2, <2>3 DEF SeedsKnown, InBlock, Passes
<1>6. CASE /\ members \subseteq members'
           /\ pc' \in Passes => pc \in Passes /\ height' = height /\ lastSeen' = lastSeen
           /\ pc' \in InBlock \ {"seed"} => pc \in InBlock \ {"seed"} /\ block' = block
  BY <1>2, <1>6 DEF SeedsKnown, Seeds
<1>7. \/ Start \/ Tick \/ SeedMembers \/ SaveCheckpoint
      \/ /\ members \subseteq members'
         /\ pc' \in Passes => pc \in Passes /\ height' = height /\ lastSeen' = lastSeen
         /\ pc' \in InBlock \ {"seed"} => pc \in InBlock \ {"seed"} /\ block' = block
  BY DEF NoSkip, Next, CatchUp, ProcessBlock, vars, NodeAdvance, CheckReorg, UnwindLive, UnwindCrc20,
     UnwindEdges, ReloadMembers, FetchBlock, UpsertTokens, UpsertListings, FindCloses,
     ApplyClose, WriteBlockRow, WriteReveal, ResolveCanonical, ApplyDeltas, WriteState, ScanAuthchain,
     RecordEdge, CanonicalTimer, Error, Crash, tables, process, batch, InBlock, Passes
<1> QED  BY <1>3, <1>4, <1>5, <1>6, <1>7

LEMMA EdgesSoundStep ==
  ASSUME LinearChains, TypeOK, ControlOK, NoSkip, EdgesSound, [Next]_vars
  PROVE  EdgesSound' /\ \A t \in TxId : edges[t] # None => edges'[t] = edges[t]
<1>1. Numbers
  BY NumbersHold
<1> PICK n : n = Len(chain)
  OBVIOUS
<1>2. \A t, row : EdgeSound(row, t, chain, n) => EdgeSound(row, t, chain', Len(chain'))
  <2>1. \A h \in 1..n : h \in 1..Len(chain') /\ chain'[h] = chain[h]
    BY <1>1, ChainExtends DEF Numbers
  <2> QED  BY <2>1 DEF EdgeSound
<1>3. CASE RecordEdge
  <2> DEFINE e == First(todo)
  <2>1. /\ pc = "edges" /\ UNCHANGED chain /\ height \in Heights /\ height \in 1..n
        /\ block = chain[height] /\ block \in Block
        /\ edges' = InsertEdge(PrevAt(block, e).tx, TxAt(block, e))
    BY <1>1, <1>3 DEF RecordEdge, Numbers, NoSkip, ControlOK, InBlock, Passes, Heights
  <2>2. e \in Vout0Spends(block)
    BY <2>1, NextInput, CandidatesIn DEF ControlOK
  <2> PICK p : p = PrevAt(block, e).tx
    OBVIOUS
  <2> PICK u : u = TxAt(block, e)
    OBVIOUS
  <2>3. \A t \in TxId : \/ edges'[t] = edges[t]
                        \/ edges[t] = None /\ t = p /\ edges'[t] = [child |-> u, height |-> height]
    <3> HIDE DEF e
    <3> QED  BY <2>1 DEF InsertEdge, TypeOK
  <2> HIDE DEF e
  <2>4. ASSUME NEW t \in TxId, edges'[t] # None
        PROVE  EdgeSound(edges'[t], t, chain, n)
    <3>1. CASE edges'[t] = edges[t]
      BY <2>4, <3>1 DEF EdgesSound
    <3>2. CASE edges'[t] = [child |-> u, height |-> height] /\ t = p
      BY <2>1, <2>2, <3>2 DEF EdgeSound
    <3> QED  BY <2>3, <3>1, <3>2
  <2> QED  BY <2>1, <2>3, <2>4 DEF EdgesSound
<1>4. CASE UNCHANGED edges
  BY <1>2, <1>4 DEF EdgesSound
<1>5. RecordEdge \/ UNCHANGED edges
  BY DEF NoSkip, Next, CatchUp, ProcessBlock, vars, NodeAdvance, Start, Tick, CheckReorg, UnwindLive,
     UnwindCrc20, UnwindEdges, ReloadMembers, FetchBlock, SeedMembers, UpsertTokens, UpsertListings,
     FindCloses, ApplyClose, WriteBlockRow, WriteReveal, ResolveCanonical, ApplyDeltas, WriteState,
     ScanAuthchain, SaveCheckpoint, CanonicalTimer, Error, Crash, tables
<1> QED  BY <1>3, <1>4, <1>5

(* Where the chain, the block and the counters stand.                      *)
LEMMA AuthFacts ==
  ASSUME TypeOK, ControlOK, LinearInv, AuthInv
  PROVE  /\ Numbers /\ DOMAIN chain = 1..Len(chain) /\ frontier <= Len(chain) /\ ckpt <= frontier
         /\ \A h \in DOMAIN chain : chain[h] \in Block
         /\ pc \in Passes => height \in DOMAIN chain /\ height <= frontier + 1 /\ lastSeen < height
         /\ pc \in InBlock => block = chain[height] /\ block \in Block /\ pc \in Passes /\ pc # "down"
         /\ pc \in AfterDeltas => height <= frontier
<1>1. Numbers
  BY NumbersHold
<1>2. /\ DOMAIN chain = 1..Len(chain) /\ frontier <= Len(chain) /\ ckpt <= frontier
      /\ \A h \in DOMAIN chain : chain[h] \in Block
  BY ChainIn DEF TypeOK, LinearInv, NoSkip
<1>3. pc \in Passes => height \in DOMAIN chain /\ height <= frontier + 1 /\ lastSeen < height
  BY <1>1 DEF Numbers, LinearInv, NoSkip, AuthInv, Place
<1>4. pc \in InBlock => block = chain[height] /\ block \in Block /\ pc \in Passes /\ pc # "down"
  BY DEF LinearInv, NoSkip, ControlOK, InBlock, Passes
<1>5. pc \in AfterDeltas => height <= frontier
  BY DEF LinearInv, NoSkip
<1> QED  BY <1>1, <1>2, <1>3, <1>4, <1>5

(* A block whose members' spends are recorded makes no new member.         *)
LEMMA ScanRepeats ==
  ASSUME TypeOK, ControlOK, LinearInv, AuthInv, pc = "scan", Recorded(block)
  PROVE  Scanned(block, members) \subseteq members
<1> PICK b \in Block : b = block /\ b = chain[height] /\ height \in DOMAIN chain
  BY AuthFacts DEF InBlock, Passes
<1> DEFINE S == {t \in TxsOf(b) : t \in members}
<1>1. ASSUME NEW e \in Vout0Spends(b), FedBy(b, members, S, e)
      PROVE  TxAt(b, e) \in S
  <2> PICK p : p = PrevAt(b, e).tx
    OBVIOUS
  <2>1. p \in members
    BY <1>1 DEF FedBy
  <2>2. e \in Inputs(b) /\ PrevAt(b, e).n = 0 /\ p \in TxId /\ TxAt(b, e) \in TxsOf(b)
    BY InputsIn DEF Vout0Spends, Outpoint
  <2>3. edges[p] # None
    BY <2>1 DEF Recorded, Reach, Known
  <2>4. EdgeSound(edges[p], p, chain, Len(chain)) /\ DOMAIN chain = 1..Len(chain)
    BY <2>2, <2>3, AuthFacts DEF AuthInv, EdgesSound
  <2> PICK k \in DOMAIN chain : k = edges[p].height
    BY <2>4 DEF EdgeSound
  <2>5. PICK f \in Vout0Spends(chain[k]) : PrevAt(chain[k], f).tx = p /\ TxAt(chain[k], f) = edges[p].child
    BY <2>4 DEF EdgeSound
  <2>6. height = k /\ e = f
    BY <2>2, <2>5, OneSpend DEF Vout0Spends
  <2>7. edges[p].child = TxAt(b, e)
    BY <2>5, <2>6
  <2>8. edges[p].child \in MembersOf(tokens, edges)
    BY <2>2, <2>3 DEF MembersOf
  <2>9. TxAt(b, e) \in members
    BY <2>7, <2>8 DEF AuthInv, MembersKnown
  <2> QED  BY <2>2, <2>9
<1>2. Scanned(b, members) \subseteq S
  BY <1>1 DEF Scanned
<1> QED  BY <1>2

LEMMA Narrower ==
  ASSUME NEW n \in Nat, NEW k \in Nat, NEW m \in Nat, k <= m
  PROVE  (m + 1)..n \subseteq (k + 1)..n
OBVIOUS

(* Who becomes a member, or will, stands at the frontier or above.         *)
LEMMA ReachGrows ==
  ASSUME LinearChains, TypeOK, ControlOK, LinearInv, AuthInv, [Next]_vars, NEW t, Reach(t)'
  PROVE  \/ Reach(t)
         \/ /\ height \in DOMAIN chain /\ t \in TxsOf(chain[height]) /\ height >= frontier
            /\ height = frontier => ~Recorded(chain[frontier])
<1>1. /\ Numbers /\ DOMAIN chain = 1..Len(chain) /\ frontier <= Len(chain)
      /\ \A h \in DOMAIN chain : chain[h] \in Block
      /\ pc \in Passes => height \in DOMAIN chain /\ height <= frontier + 1 /\ lastSeen < height
      /\ pc \in InBlock => block = chain[height] /\ block \in Block /\ pc \in Passes /\ pc # "down"
      /\ pc \in AfterDeltas => height <= frontier
  BY AuthFacts
<1>2. \A h \in 1..frontier : chain'[h] = chain[h]
  BY <1>1, ChainExtends DEF Numbers
<1>3. frontier \in Nat /\ lastSeen \in Nat /\ ckpt \in Nat /\ lastSeen >= 1 /\ ckpt >= 1 /\ lastSeen <= ckpt
      /\ height \in Nat
  BY <1>1 DEF Numbers, AuthInv, Place
<1>4. CASE Start
  <2>1. /\ pc = "down" /\ pc' # "down" /\ members' = MembersOf(tokens, edges) /\ lastSeen' = ckpt
        /\ UNCHANGED <<chain, frontier>>
    BY <1>4 DEF Start, history
  <2> QED  BY <2>1 DEF Reach, Known, Base
<1>5. CASE SeedMembers
  <2>1. /\ pc = "seed" /\ pc' = "tokens" /\ members' = members \cup Seeds(block)
        /\ UNCHANGED <<chain, frontier, lastSeen>> /\ pc \in InBlock
    BY <1>5 DEF SeedMembers, history, InBlock, Passes
  <2>2. t \in Seeds(block) \/ Reach(t)
    BY <2>1 DEF Reach, Known, Base
  <2>3. CASE t \in Seeds(block) /\ height <= frontier
    BY <1>1, <1>3, <2>1, <2>3 DEF Reach, Base
  <2>4. CASE t \in Seeds(block) /\ height > frontier
    <3>1. t \in TxsOf(chain[height])
      BY <1>1, <2>1, <2>4, SeedsIn
    <3> QED  BY <1>1, <1>3, <2>1, <2>4, <3>1
  <2> QED  BY <1>3, <2>2, <2>3, <2>4
<1>6. CASE ScanAuthchain
  <2>1. /\ pc = "scan" /\ pc' # "down" /\ members' = members \cup Scanned(block, members)
        /\ UNCHANGED <<chain, frontier, lastSeen>> /\ pc \in InBlock /\ pc \in AfterDeltas
    BY <1>6 DEF ScanAuthchain, history, InBlock, Passes, AfterDeltas
  <2>2. t \in Scanned(block, members) \/ Reach(t)
    BY <2>1 DEF Reach, Known, Base
  <2>3. CASE Recorded(block)
    BY <2>1, <2>2, <2>3, ScanRepeats DEF Reach, Known
  <2>4. CASE ~Recorded(block) /\ t \in Scanned(block, members)
    <3>1. height = frontier
      <4>1. ~(height \in 1..(frontier - 1))
        BY <1>1, <2>1, <2>4 DEF AuthInv, BelowRecorded
      <4> QED  BY <1>1, <1>3, <2>1, <4>1
    <3>2. t \in TxsOf(block)
      BY <2>4 DEF Scanned
    <3> QED  BY <1>1, <1>3, <2>1, <2>4, <3>1, <3>2
  <2> QED  BY <2>2, <2>3, <2>4
<1>7. CASE ApplyDeltas
  <2>1. /\ pc = "deltas" /\ pc' \in {"scan", "states"} /\ UNCHANGED <<chain, lastSeen, members>> /\ pc \in InBlock
        /\ frontier' = IF height > frontier THEN height ELSE frontier
    BY <1>7 DEF ApplyDeltas, process, InBlock, Passes
  <2>2. CASE height <= frontier
    BY <1>3, <2>1, <2>2 DEF Reach, Known, Base
  <2>3. CASE height > frontier
    <3>1. frontier' = height /\ height = frontier + 1
      BY <1>1, <1>3, <2>1, <2>3
    <3>2. Reach(t) \/ t \in Seeds(chain[height])
      <4>1. \A h \in (lastSeen + 1)..height : h \in (lastSeen + 1)..frontier \/ h = height
        BY <1>3, <3>1
      <4> QED  BY <2>1, <3>1, <4>1 DEF Reach, Known, Base
    <3>3. t \in Seeds(chain[height]) => t \in TxsOf(chain[height])
      BY <1>1, <2>1, SeedsIn
    <3> QED  BY <1>1, <1>3, <2>1, <2>3, <3>2, <3>3
  <2> QED  BY <1>3, <2>2, <2>3
<1>8. CASE SaveCheckpoint
  <2>1. /\ pc = "save" /\ pc' \in {"idle", "check"} /\ UNCHANGED <<chain, frontier, members>>
        /\ lastSeen' \in {lastSeen, target} /\ height \in Nat /\ target \in Nat /\ lastSeen < height
        /\ height <= target
    BY <1>1, <1>8 DEF SaveCheckpoint, history, Passes, Numbers
  <2>2. lastSeen <= lastSeen' /\ lastSeen' \in Nat
    BY <1>3, <2>1
  <2> PICK x \in Nat : x = lastSeen' /\ lastSeen <= x
    BY <2>2
  <2>3. (x + 1)..frontier \subseteq (lastSeen + 1)..frontier
    BY <1>3, Narrower
  <2> QED  BY <2>1, <2>3 DEF Reach, Known, Base
<1>9. CASE (Error \/ Crash) /\ pc' = "down"
  <2>1. pc # "down" /\ UNCHANGED <<chain, frontier, tokens, edges, ckpt>>
    BY <1>9 DEF Error, Crash, tables, Passes
  <2>2. MembersOf(tokens, edges) \subseteq members
    BY <2>1 DEF AuthInv, MembersKnown
  <2>3. MembersOf(tokens, edges)' = MembersOf(tokens, edges)
    BY <2>1 DEF MembersOf
  <2>4. (ckpt + 1)..frontier \subseteq (lastSeen + 1)..frontier
    BY <1>3
  <2> QED  BY <1>9, <2>1, <2>2, <2>3, <2>4 DEF Reach, Known, Base
<1>10. CASE /\ UNCHANGED <<frontier, lastSeen, ckpt, members>>
            /\ pc = "down" <=> pc' = "down"
            /\ pc = "down" => UNCHANGED <<tokens, edges>>
  <2>1. Known' = Known
    BY <1>10 DEF Known, MembersOf
  <2>2. Base' = Base /\ Base \in Nat
    BY <1>3, <1>10 DEF Base
  <2>3. \A h \in (Base + 1)..frontier : chain'[h] = chain[h]
    BY <1>2, <1>3, <2>2
  <2> QED  BY <1>10, <2>1, <2>2, <2>3 DEF Reach
<1>11. \/ Start \/ SeedMembers \/ ScanAuthchain \/ ApplyDeltas \/ SaveCheckpoint
       \/ (Error \/ Crash) /\ pc' = "down"
       \/ /\ UNCHANGED <<frontier, lastSeen, ckpt, members>>
          /\ pc = "down" <=> pc' = "down"
          /\ pc = "down" => UNCHANGED <<tokens, edges>>
  BY DEF LinearInv, NoSkip, Next, CatchUp, ProcessBlock, vars, NodeAdvance, Tick, CheckReorg, UnwindLive,
     UnwindCrc20, UnwindEdges, ReloadMembers, FetchBlock, UpsertTokens, UpsertListings, FindCloses,
     ApplyClose, WriteBlockRow, WriteReveal, ResolveCanonical, WriteState, RecordEdge, CanonicalTimer,
     Error, Crash, SeenAfterError, tables, process, history, Passes
<1> QED  BY <1>4, <1>5, <1>6, <1>7, <1>8, <1>9, <1>10, <1>11

LEMMA RecordedStays ==
  ASSUME LinearChains, TypeOK, ControlOK, LinearInv, AuthInv, [Next]_vars,
         NEW h \in 1..frontier, Recorded(chain[h])
  PROVE  Recorded(chain[h])'
<1> PICK b : b = chain[h]
  OBVIOUS
<1>1. /\ h \in DOMAIN chain /\ b \in Block /\ frontier \in Nat /\ h \in Nat /\ chain'[h] = b
      /\ height \in Nat
  <2>1. /\ DOMAIN chain = 1..Len(chain) /\ frontier <= Len(chain) /\ frontier \in Nat
        /\ Len(chain) \in Nat /\ height \in Nat
        /\ \A k \in DOMAIN chain : chain[k] \in Block
    BY AuthFacts DEF Numbers
  <2>2. h \in DOMAIN chain /\ h \in Nat
    BY <2>1
  <2>3. chain'[h] = chain[h]
    BY <2>1, <2>2, ChainExtends
  <2> QED  BY <2>1, <2>2, <2>3
<1> SUFFICES ASSUME NEW e \in Vout0Spends(b), Reach(PrevAt(b, e).tx)'
             PROVE  edges'[PrevAt(b, e).tx] # None
  BY <1>1 DEF Recorded
<1> PICK t : t = PrevAt(b, e).tx
  OBVIOUS
<1>2. e \in Inputs(chain[h]) /\ t \in TxId
  BY <1>1, InputsIn DEF Vout0Spends, Outpoint
<1>3. CASE Reach(t)
  BY <1>2, <1>3, EdgesSoundStep DEF Recorded, AuthInv, LinearInv
<1>4. CASE ~Reach(t)
  <2>1. /\ height \in DOMAIN chain /\ t \in TxsOf(chain[height]) /\ height >= frontier
        /\ height = frontier => ~Recorded(chain[frontier])
    BY <1>4, ReachGrows
  <2>2. height <= h
    BY <1>1, <1>2, <2>1, SpentLater
  <2>3. height = frontier /\ h = frontier
    BY <1>1, <2>1, <2>2
  <2> QED  BY <2>1, <2>3
<1> QED  BY <1>3, <1>4

(* What the scan and its inserts have still to record.                     *)
LEMMA LeftToDoStep ==
  ASSUME LinearChains, ParentsFirst, TypeOK, ControlOK, LinearInv, AuthInv, [Next]_vars
  PROVE  LeftToDo'
<1>1. /\ Numbers /\ DOMAIN chain = 1..Len(chain) /\ frontier <= Len(chain)
      /\ \A h \in DOMAIN chain : chain[h] \in Block
      /\ pc \in Passes => height \in DOMAIN chain /\ height <= frontier + 1 /\ lastSeen < height
      /\ pc \in InBlock => block = chain[height] /\ block \in Block /\ pc \in Passes /\ pc # "down"
  BY AuthFacts
<1> PICK b : b = block
  OBVIOUS
<1>2. \A h \in 1..frontier : chain'[h] = chain[h]
  BY <1>1, ChainExtends DEF Numbers
<1>3. CASE ScanAuthchain
  <2>1. /\ pc = "scan" /\ pc' \in {"edges", "save"} /\ members' = members \cup Scanned(b, members)
        /\ UNCHANGED <<chain, frontier, lastSeen, edges, block>> /\ pc \in InBlock \ {"seed"}
        /\ todo' = NewEdges(b, members) /\ pc' = IF todo' = {} THEN "save" ELSE "edges"
    BY <1>3 DEF ScanAuthchain, tables, history, InBlock, Passes
  <2>2. b \in Block /\ b = chain[height] /\ height \in DOMAIN chain /\ lastSeen < height
        /\ height \in Nat /\ lastSeen \in Nat /\ frontier \in Nat
    BY <1>1, <2>1 DEF Numbers
  <2>3. ASSUME NEW e \in Vout0Spends(b), Reach(PrevAt(b, e).tx)'
        PROVE  e \in NewEdges(b, members)
    <3> PICK t : t = PrevAt(b, e).tx
      OBVIOUS
    <3>1. e \in Inputs(b) /\ t \in TxId /\ e.pos \in Nat
      BY <2>2, InputsIn DEF Vout0Spends, Outpoint
    <3>2. t \in members' \/ \E k \in (lastSeen + 1)..frontier : t \in Seeds(chain[k])
      BY <2>1, <2>3 DEF Reach, Known, Base
    <3>3. ASSUME NEW k \in (lastSeen + 1)..frontier, t \in Seeds(chain[k])
          PROVE  t \in members
      <4>1. k \in DOMAIN chain
        BY <1>1, <2>2 DEF Numbers
      <4>2. t \in TxsOf(chain[k])
        BY <1>1, <3>3, <4>1, SeedsIn
      <4>3. k <= height
        BY <2>2, <3>1, <4>1, <4>2, SpentLater
      <4>4. k \in (lastSeen + 1)..(height - 1) \/ k = height
        BY <2>2, <4>3
      <4> QED  BY <1>1, <2>1, <2>2, <3>3, <4>4 DEF AuthInv, SeedsKnown
    <3>4. t \in members \/ t \in Scanned(b, members)
      BY <2>1, <3>2, <3>3
    <3>5. FedBy(b, members, Scanned(b, members), e)
      <4>1. CASE t \in members
        BY <4>1 DEF FedBy
      <4>2. CASE t \in Scanned(b, members)
        <5>1. PICK k \in DOMAIN BlockTxs[b] : BlockTxs[b][k] = t
          BY <4>2 DEF Scanned, TxsOf
        <5>2. k < e.pos
          BY <2>2, <5>1 DEF ParentsFirst, TypeOK
        <5>3. k \in Nat /\ k >= 1
          BY <2>2, <5>1, ChainDataTypes
        <5>4. k \in 1..(e.pos - 1)
          BY <3>1, <5>2, <5>3
        <5> QED  BY <4>2, <5>1, <5>4 DEF FedBy
      <4> QED  BY <3>4, <4>1, <4>2
    <3> QED  BY <3>5 DEF NewEdges
  <2> QED  BY <2>1, <2>3 DEF LeftToDo
<1>4. CASE RecordEdge
  <2> DEFINE e == First(todo)
  <2>1. /\ pc = "edges" /\ pc' \in {"edges", "save"} /\ todo' = todo \ {e}
        /\ pc' = "edges" \/ todo' = {}
        /\ UNCHANGED <<chain, frontier, lastSeen, members, block, height>> /\ pc \in InBlock \ {"seed"}
        /\ edges' = InsertEdge(PrevAt(b, e).tx, TxAt(b, e))
    BY <1>4 DEF RecordEdge, process, history, InBlock, Passes
  <2>2. b \in Block /\ height \in Heights
    BY <1>1, <2>1 DEF Numbers, Heights
  <2>3. e \in Vout0Spends(b)
    BY <2>1, <2>2, NextInput, CandidatesIn DEF ControlOK
  <2>4. edges'[PrevAt(b, e).tx] # None
    <3>1. PrevAt(b, e).tx \in TxId /\ TxAt(b, e) \in TxId
      BY <2>2, <2>3, InputsIn DEF Vout0Spends, Outpoint
    <3> PICK p \in TxId : p = PrevAt(b, e).tx
      BY <3>1
    <3> PICK u \in TxId : u = TxAt(b, e)
      BY <3>1
    <3>2. [child |-> u, height |-> height] \in EdgeRow
      BY <2>2 DEF EdgeRow
    <3>3. [child |-> u, height |-> height] # None
      BY <3>2, TailAssumption
    <3> HIDE DEF e
    <3>4. edges' = IF edges[p] = None THEN [edges EXCEPT ![p] = [child |-> u, height |-> height]] ELSE edges
      BY <2>1 DEF InsertEdge
    <3>5. edges'[p] # None
      BY <3>3, <3>4 DEF TypeOK
    <3> QED  BY <3>5
  <2> HIDE DEF e
  <2>5. \A t : Reach(t)' <=> Reach(t)
    BY <2>1 DEF Reach, Known, Base
  <2>6. ASSUME NEW f \in Vout0Spends(b), Reach(PrevAt(b, f).tx)'
        PROVE  (pc' = "edges" /\ f \in todo') \/ edges'[PrevAt(b, f).tx] # None
    <3>1. PrevAt(b, f).tx \in TxId
      BY <2>2, InputsIn DEF Vout0Spends, Outpoint
    <3>2. f \in todo \/ edges[PrevAt(b, f).tx] # None
      BY <2>1, <2>5, <2>6 DEF AuthInv, LeftToDo
    <3>3. edges[PrevAt(b, f).tx] # None => edges'[PrevAt(b, f).tx] # None
      BY <3>1, EdgesSoundStep DEF AuthInv, LinearInv
    <3>4. f \in todo => f \in todo' \/ f = e
      BY <2>1
    <3> QED  BY <2>1, <2>4, <3>2, <3>3, <3>4
  <2> QED  BY <2>1, <2>6 DEF LeftToDo
<1>5. CASE /\ pc' \in {"edges", "save"}
           /\ UNCHANGED <<pc, frontier, lastSeen, members, block, todo, edges>>
  <2>1. \A h \in (lastSeen + 1)..frontier : chain'[h] = chain[h]
    BY <1>1, <1>2 DEF Numbers
  <2>2. \A t : Reach(t)' => Reach(t)
    BY <1>5, <2>1 DEF Reach, Known, Base
  <2> QED  BY <1>5, <2>2 DEF LeftToDo, AuthInv
<1>6. CASE pc' \notin {"edges", "save"}
  BY <1>6 DEF LeftToDo
<1>7. \/ ScanAuthchain \/ RecordEdge
      \/ /\ pc' \in {"edges", "save"}
         /\ UNCHANGED <<pc, frontier, lastSeen, members, block, todo, edges>>
      \/ pc' \notin {"edges", "save"}
  BY DEF Next, CatchUp, ProcessBlock, vars, NodeAdvance, Start, Tick, CheckReorg, UnwindLive,
     UnwindCrc20, UnwindEdges, ReloadMembers, FetchBlock, SeedMembers, UpsertTokens, UpsertListings,
     FindCloses, ApplyClose, WriteBlockRow, WriteReveal, ResolveCanonical, ApplyDeltas, WriteState,
     SaveCheckpoint, CanonicalTimer, Error, Crash, tables, process, batch, history
<1> QED  BY <1>3, <1>4, <1>5, <1>6, <1>7


(* Only at the frontier may a hop be missing, and then its block is still  *)
(* to be gone through.                                                     *)
LEMMA FrontierStep ==
  ASSUME LinearChains, TypeOK, ControlOK, LinearInv, AuthInv, [Next]_vars
  PROVE  (BelowRecorded /\ FrontierRecorded)'
<1>1. /\ frontier <= Len(chain) /\ ckpt <= frontier
      /\ pc \in Passes => height <= frontier + 1 /\ lastSeen < height
      /\ pc \in AfterDeltas => height <= frontier
      /\ pc \in InBlock => block = chain[height]
  BY AuthFacts
<1>2. /\ frontier \in Nat /\ ckpt \in Nat /\ height \in Nat /\ lastSeen \in Nat /\ lastSeen <= ckpt
      /\ target \in Nat
  BY AuthFacts DEF Numbers, AuthInv, Place
<1> PICK n : n = frontier
  OBVIOUS
<1>3. \A h \in 1..n : Recorded(chain[h]) => Recorded(chain[h])'
  BY RecordedStays
<1>4. n \in 1..n
  BY <1>2, TailAssumption DEF TypeOK
<1>5. \A h \in 1..(n - 1) : Recorded(chain[h])'
  BY <1>2, <1>3 DEF AuthInv, BelowRecorded
<1>6. Recorded(chain[n]) => Recorded(chain[n])'
  BY <1>3, <1>4
<1>7. CASE ApplyDeltas /\ height > frontier
  <2>1. /\ pc = "deltas" /\ pc' \in Passes /\ ckpt' = ckpt /\ height' = height /\ frontier' = height
        /\ height = frontier + 1
    BY <1>1, <1>2, <1>7 DEF ApplyDeltas, process, Passes
  <2>2. Recorded(chain[frontier])
    BY <1>2, <2>1 DEF AuthInv, FrontierRecorded, NextPass, Passes
  <2>3. \A h \in 1..(frontier' - 1) : h \in 1..(n - 1) \/ h = n
    BY <1>2, <2>1
  <2>4. BelowRecorded'
    BY <1>5, <1>6, <2>2, <2>3 DEF BelowRecorded
  <2>5. FrontierRecorded'
    BY <1>1, <1>2, <2>1 DEF FrontierRecorded, NextPass, Passes
  <2> QED  BY <2>4, <2>5
<1>8. CASE SaveCheckpoint
  <2>1. /\ pc = "save" /\ pc' \in {"idle", "check"} /\ ckpt' = height /\ frontier' = frontier
        /\ pc' = "check" => height' = height + 1
        /\ pc' = "idle" => lastSeen' = height
        /\ height <= frontier /\ block = chain[height]
    BY <1>1, <1>8 DEF SaveCheckpoint, history, AfterDeltas, InBlock, Passes
  <2>2. BelowRecorded'
    BY <1>5, <2>1 DEF BelowRecorded
  <2>3. CASE height = frontier
    <3>1. Recorded(chain[frontier])
      BY <2>1, <2>3 DEF AuthInv, LeftToDo, Recorded
    <3> QED  BY <1>6, <2>1, <2>2, <3>1 DEF FrontierRecorded
  <2>4. CASE height < frontier
    <3>1. ckpt' < frontier /\ NextPass' <= frontier
      BY <1>2, <2>1, <2>4 DEF NextPass, Passes
    <3> QED  BY <2>1, <2>2, <3>1 DEF FrontierRecorded
  <2> QED  BY <1>2, <2>1, <2>3, <2>4
<1>9. CASE UNCHANGED <<frontier, ckpt>> /\ NextPass' \in {NextPass, ckpt + 1, lastSeen + 1}
  <2>1. BelowRecorded'
    BY <1>5, <1>9 DEF BelowRecorded
  <2>2. FrontierRecorded'
    BY <1>2, <1>6, <1>9 DEF AuthInv, FrontierRecorded
  <2> QED  BY <2>1, <2>2
<1>10. CASE ApplyDeltas /\ ~(height > frontier)
  BY <1>9, <1>10 DEF ApplyDeltas, process, NextPass, Passes
<1>11. \/ ApplyDeltas \/ SaveCheckpoint
       \/ UNCHANGED <<frontier, ckpt>> /\ NextPass' \in {NextPass, ckpt + 1, lastSeen + 1}
  BY DEF LinearInv, NoSkip, NextPass, Next, CatchUp, ProcessBlock, vars, NodeAdvance, Start, Tick,
     CheckReorg, UnwindLive, UnwindCrc20, UnwindEdges, ReloadMembers, FetchBlock, SeedMembers,
     UpsertTokens, UpsertListings, FindCloses, ApplyClose, WriteBlockRow, WriteReveal, ResolveCanonical,
     WriteState, ScanAuthchain, RecordEdge, CanonicalTimer, Error, Crash, SeenAfterError, tables,
     process, history, Passes
<1> QED  BY <1>7, <1>8, <1>9, <1>10, <1>11

(* Authchain index.  Without a reorg, and where no block spends a vout[0]  *)
(* before it creates it, whenever the tail is caught up the index holds    *)
(* the hop of every member of an authchain, at the height of the spend,    *)
(* whatever errors, crashes and replays came before (authchain_scan_block, *)
(* record_authchain_edges, load_authchain_members).                        *)
THEOREM AuthchainExact == LinearChains /\ ParentsFirst => (Spec => []AuthchainComplete)
<1> SUFFICES ASSUME LinearChains, ParentsFirst PROVE Spec => []AuthchainComplete
  OBVIOUS
<1>1. Init => AuthInv
  <2> SUFFICES ASSUME Init PROVE AuthInv
    OBVIOUS
  <2>1. MembersOf(tokens, edges) = {}
    BY DEF Init, MembersOf
  <2>2. frontier \in Nat /\ ckpt = frontier /\ pc = "down"
    BY TailAssumption DEF Init
  <2>3. (ckpt + 1)..frontier = {}
    BY <2>2
  <2>4. \A t : ~Reach(t)
    BY <2>1, <2>2, <2>3 DEF Reach, Known, Base
  <2>5. \A b : Recorded(b)
    BY <2>4 DEF Recorded
  <2> QED  BY <2>2, <2>5 DEF Init, AuthInv, MembersKnown, Place, EdgesSound, SeedsKnown, BelowRecorded,
              FrontierRecorded, LeftToDo, Passes, InBlock
<1>2. TypeOK /\ ControlOK /\ LinearInv /\ AuthInv /\ [Next]_vars => AuthInv'
  BY MembersStep, PlaceStep, EdgesSoundStep, SeedsKnownStep, FrontierStep, LeftToDoStep
     DEF AuthInv, LinearInv
<1>3. TypeOK /\ ControlOK /\ LinearInv /\ AuthInv => AuthchainComplete
  <2> SUFFICES ASSUME TypeOK, ControlOK, LinearInv, AuthInv, CaughtUp, NEW h \in DOMAIN chain,
                      NEW e \in Vout0Spends(chain[h]), OnAuthchain(PrevAt(chain[h], e).tx)
               PROVE  edges[PrevAt(chain[h], e).tx] = [child |-> TxAt(chain[h], e), height |-> h]
    BY DEF AuthchainComplete
  <2> PICK p : p = PrevAt(chain[h], e).tx
    OBVIOUS
  <2>1. /\ DOMAIN chain = 1..Len(chain) /\ frontier <= Len(chain) /\ ckpt <= frontier
        /\ Len(chain) \in Nat /\ frontier \in Nat /\ ckpt \in Nat /\ lastSeen <= ckpt
        /\ \A k \in DOMAIN chain : chain[k] \in Block
    BY AuthFacts DEF Numbers, AuthInv, Place
  <2>2. pc = "idle" /\ lastSeen = Len(chain)
    BY DEF CaughtUp
  <2> PICK m : m = Len(chain)
    OBVIOUS
  <2>3. frontier = m /\ NextPass = m + 1
    <3>1. frontier = m
      BY <2>1, <2>2
    <3> QED  BY <2>2, <3>1 DEF NextPass, Passes
  <2>4. Recorded(chain[h])
    <3>1. h \in 1..(frontier - 1) \/ h = frontier
      BY <2>1, <2>3
    <3>2. ~(NextPass <= frontier)
      BY <2>1, <2>3
    <3> QED  BY <3>1, <3>2 DEF AuthInv, BelowRecorded, FrontierRecorded
  <2>5. e \in Inputs(chain[h]) /\ PrevAt(chain[h], e).n = 0 /\ p \in TxId /\ h \in Nat
        /\ TxAt(chain[h], e) \in TxId
    BY <2>1, InputsIn DEF Vout0Spends, Outpoint
  <2>6. Reach(p)
    BY <2>2 DEF OnAuthchain, MembersOf, AuthInv, MembersKnown, Reach, Known
  <2>7. edges[p] # None
    BY <2>4, <2>6 DEF Recorded
  <2>8. EdgeSound(edges[p], p, chain, Len(chain)) /\ edges[p] \in EdgeRow
    BY <2>5, <2>7 DEF AuthInv, EdgesSound, TypeOK
  <2> PICK k \in DOMAIN chain : k = edges[p].height
    BY <2>1, <2>8 DEF EdgeSound
  <2>9. PICK f \in Vout0Spends(chain[k]) : PrevAt(chain[k], f).tx = p /\ TxAt(chain[k], f) = edges[p].child
    BY <2>8 DEF EdgeSound
  <2>10. h = k /\ e = f
    BY <2>5, <2>9, OneSpend DEF Vout0Spends
  <2>11. edges[p].child = TxAt(chain[h], e) /\ edges[p].height = h
    <3>1. edges[p].child = TxAt(chain[k], f)
      BY <2>9
    <3>2. TxAt(chain[h], e) = TxAt(chain[k], f)
      BY <2>10, Zenon
    <3>3. edges[p].height = h
      BY <2>10, Zenon
    <3> QED  BY <3>1, <3>2, <3>3, Zenon
  <2> QED  BY <2>8, <2>11 DEF EdgeRow
<1> QED  BY <1>1, <1>2, <1>3, Linear, PTL DEF Spec

=============================================================================
