------------------------------ MODULE TailSync ------------------------------
(***************************************************************************)
(* sync-tail (workers/src/bin/tail.rs): the daemon that follows BCHN's     *)
(* best chain and maintains the directory tables in Postgres.              *)
(*                                                                         *)
(* Every SQL statement (or transaction) the daemon commits is one step, so *)
(* a crash or an error can fall between any two of them.  The tables are   *)
(* functions from primary keys to rows.  An Error is a `?` that unwinds    *)
(* catch_up to the main loop: the process and its memory survive.  A Crash *)
(* is a kill, a watchdog restart or an OOM: only the tables survive.       *)
(*                                                                         *)
(* BCHN is external: NodeAdvance replaces its best chain by a longer one,  *)
(* an extension or a reorg, at any moment.                                 *)
(*                                                                         *)
(* Simplifications.  History up to height Boot carries no tokens, so the   *)
(* backfills leave every table empty there.  A token_state row (with its   *)
(* token_holders and nft_instances) is the set of UTXOs it was aggregated  *)
(* from.  The poll tick and the ZMQ message are one signal.  Observability *)
(* timestamps are left out.                                                *)
(***************************************************************************)
EXTENDS ChainData

CONSTANTS
  Chains,        \* the best chains BCHN may come to serve
  MaxHeight,     \* no chain is longer
  Boot,          \* backfill_through: the height the tail starts from
  RevealWindow,  \* the 20 of GREATEST(commit_block, reveal_block - 20)
  CategoryOrder, \* the byte order of category ids
  MaxErrors,     \* bound on `?` errors and soft failures
  MaxCrashes     \* bound on crashes

Heights == 1..MaxHeight
NoRow == -1

TokenRow == [type : {"FT", "NFT", "FT+NFT"}, genesis : TxId, block : Heights]
EdgeRow == [child : TxId, height : Heights]
Crc20Row == [symbol : Symbol, commit : Nat, reveal : Heights, canonical : BOOLEAN]

OfferRow == [status : {"open", "taken", "cancelled"}, maker : Maker,
             tx : TxId \cup {None}, taker : Maker \cup {None}]

(* What BCHN guarantees of one chain: a token output is created once, an   *)
(* outpoint is spent by one input, and no output of a transaction is spent *)
(* in a block before the transaction's.                                    *)
ValidChain(c) ==
  \A i, j \in DOMAIN c :
    /\ Creates(c[i]) \cap Creates(c[j]) # {} => i = j
    /\ \A e \in Inputs(c[i]), f \in Inputs(c[j]) :
         PrevAt(c[i], e) = PrevAt(c[j], f) => i = j /\ e = f
    /\ \A o \in Spends(c[j]) : o.tx \in TxsOf(c[i]) => i <= j

(* No reorg: the chains agree wherever two of them have a block.           *)
LinearChains ==
  \A c, d \in Chains : \A i \in DOMAIN c \cap DOMAIN d : c[i] = d[i]

ASSUME TailAssumption ==
  /\ MaxHeight \in Nat /\ Boot \in 1..MaxHeight
  /\ RevealWindow \in Nat /\ MaxErrors \in Nat /\ MaxCrashes \in Nat
  /\ \A c \in Chains : c \in Seq(Block) /\ Len(c) <= MaxHeight /\ ValidChain(c)
  /\ \A c \in Chains : \A i \in DOMAIN c : i <= Boot =>
       FoundCategories(c[i]) = {} /\ ListingsOf(c[i]) = {}
  /\ CategoryOrder \in [Category -> Nat]
  /\ \A c, d \in Category : CategoryOrder[c] = CategoryOrder[d] => c = d
  /\ None \notin TokenRow /\ None \notin EdgeRow
  /\ None \notin Crc20Row /\ None \notin OfferRow

VARIABLES
  chain,         \* BCHN's best chain, a sequence of blocks
  (* Postgres *)
  tokens,        \* tokens: category -> type and genesis
  offers,        \* tapswap_offers: listing txid -> status
  blocks,        \* blocks: height -> hash
  crc20,         \* token_crc20: category -> symbol, heights, is_canonical
  live,          \* live_token_utxo: outpoint -> created_height, or NoRow
  tokenState,    \* token_state: category -> the UTXOs aggregated
  edges,         \* authchain_edge: parent txid -> child and height
  ckpt,          \* sync_state.tail_last_block
  (* the process *)
  pc,            \* the statement it is about to run
  booting,       \* in the initial catch-up of main
  lastSeen,      \* main's last_seen
  height, target,\* catch_up's h and to
  block,         \* the block fetched, None before
  members,       \* the in-memory authchain member set
  todo,          \* inputs of the block the pass in progress has still to write
  touched,       \* categories still to be re-aggregated
  (* bounds and history *)
  errors, crashes,
  applied,       \* height of the last deltas committed
  frontier,      \* greatest height whose deltas were ever committed
  lost,          \* categories whose re-aggregation a failure cut off
  replayCut,     \* the process died during a replay, see Crash
  unranked,      \* a failure cut off the ranking of new rows of crc20
  blind          \* a reorg check could not see what it should have seen

node == <<chain>>
tables == <<tokens, offers, blocks, crc20, live, tokenState, edges>>
process == <<booting, lastSeen, height, target, block, members>>
batch == <<todo, touched>>
bounds == <<errors, crashes>>
history == <<applied, frontier, lost, replayCut, unranked, blind>>
vars == <<chain, tokens, offers, blocks, crc20, live, tokenState, edges, ckpt,
          pc, booting, lastSeen, height, target, block, members, todo, touched,
          errors, crashes, applied, frontier, lost, replayCut, unranked, blind>>

Passes == {"check", "unwindLive", "unwindCrc20", "unwindEdges", "reload", "fetch",
           "seed", "tokens", "listings", "findCloses", "closes", "blockRow", "crc20",
           "resolve", "deltas", "states", "scan", "edges", "save"}

(* The tables and the process hold values of their types; heights stay     *)
(* between the boot height and the chain bound.                            *)
TypeOK ==
  /\ chain \in Chains
  /\ offers \in [TxId -> OfferRow \cup {None}]
  /\ tokens \in [Category -> TokenRow \cup {None}]
  /\ blocks \in [Heights -> Block \cup {None}]
  /\ crc20 \in [Category -> Crc20Row \cup {None}]
  /\ live \in [TokenOut -> Heights \cup {NoRow}]
  /\ DOMAIN tokenState = Category
  /\ \A c \in Category : tokenState[c] = None \/ tokenState[c] \subseteq TokenOut
  /\ edges \in [TxId -> EdgeRow \cup {None}]
  /\ ckpt \in Boot..MaxHeight /\ lastSeen \in Boot..MaxHeight
  /\ pc \in Passes \cup {"down", "idle"}
  /\ booting \in BOOLEAN
  /\ height \in 0..MaxHeight /\ target \in 0..MaxHeight
  /\ block \in Block \cup {None}
  /\ members \subseteq TxId /\ todo \subseteq [pos : Nat, in : Nat] /\ touched \subseteq Category
  /\ lost \subseteq Category
  /\ replayCut \in BOOLEAN /\ unranked \in BOOLEAN /\ blind \in BOOLEAN
  /\ errors \in 0..MaxErrors /\ crashes \in 0..MaxCrashes
  /\ applied \in Boot..MaxHeight /\ frontier \in Boot..MaxHeight

----------------------------------------------------------------------------
Init ==
  /\ chain \in {c \in Chains : Len(c) = Boot}
  /\ tokens = [c \in Category |-> None]
  /\ offers = [t \in TxId |-> None]
  /\ blocks = [h \in Heights |-> None]
  /\ crc20 = [c \in Category |-> None]
  /\ live = [o \in TokenOut |-> NoRow]
  /\ tokenState = [c \in Category |-> None]
  /\ edges = [t \in TxId |-> None]
  /\ ckpt = Boot
  /\ pc = "down" /\ booting = TRUE
  /\ lastSeen = Boot /\ height = 0 /\ target = 0 /\ block = None
  /\ members = {} /\ todo = {} /\ touched = {}
  /\ errors = 0 /\ crashes = 0
  /\ applied = Boot /\ frontier = Boot /\ lost = {}
  /\ replayCut = FALSE /\ unranked = FALSE /\ blind = FALSE

----------------------------------------------------------------------------
(* The node.                                                               *)
Extends(c) == \A i \in DOMAIN chain : c[i] = chain[i]

(* Between the comparison of a height's hash and the fetch of its block.   *)
Unguarded == {"unwindLive", "unwindCrc20", "unwindEdges", "reload", "fetch"}

NodeAdvance ==
  /\ \E c \in Chains :
       /\ Len(c) > Len(chain) /\ chain' = c
       /\ blind' = (blind \/ (pc \in Unguarded /\ ~Extends(c)))
  /\ UNCHANGED <<tables, ckpt, pc, process, batch, bounds, applied, frontier, lost,
                 replayCut, unranked>>

(* Mutant: the recorded children are left out.                             *)
GenesisMembers(tok, edg) == {tok[c].genesis : c \in {d \in Category : tok[d] # None}}

(* load_authchain_members: genesis_txids and recorded children.            *)
MembersOf(tok, edg) ==
  {tok[c].genesis : c \in {d \in Category : tok[d] # None}}
    \cup {edg[t].child : t \in {u \in TxId : edg[u] # None}}

(* main: read the checkpoint, load the members, catch up to the tip; READY *)
(* (and the main loop) only after that.                                    *)
Start ==
  /\ pc = "down"
  /\ lastSeen' = ckpt
  /\ members' = MembersOf(tokens, edges)
  /\ IF Len(chain) > ckpt
       THEN /\ pc' = "check" /\ booting' = TRUE
            /\ height' = ckpt + 1 /\ target' = Len(chain)
       ELSE /\ pc' = "idle" /\ booting' = FALSE
            /\ UNCHANGED <<height, target>>
  /\ UNCHANGED <<chain, tables, ckpt, block, batch, bounds, history>>

(* Mutant: one block behind the tip counts as caught up.                   *)
DeltaOfTwo == Len(chain) > lastSeen + 1

HasDelta == Len(chain) > lastSeen

(* catch_up_to_tip: from the IN-MEMORY last_seen, not from the checkpoint. *)
Tick ==
  /\ pc = "idle" /\ HasDelta
  /\ pc' = "check"
  /\ height' = lastSeen + 1 /\ target' = Len(chain)
  /\ UNCHANGED <<chain, tables, ckpt, booting, lastSeen, block, members, batch,
                 bounds, history>>

(* Reorg check: a stored hash at this height that BCHN no longer serves.   *)
CheckReorg ==
  /\ pc = "check"
  /\ pc' = IF blocks[height] \in {None, chain[height]} THEN "fetch" ELSE "unwindLive"
  /\ UNCHANGED <<chain, tables, ckpt, process, batch, bounds, history>>

(* Mutant: rows created at the forked height survive.                      *)
CreatedAbove(o) == live[o] > height

CreatedAtOrAbove(o) == live[o] >= height

UnwindLive ==
  /\ pc = "unwindLive"
  /\ live' = [o \in TokenOut |-> IF CreatedAtOrAbove(o) THEN NoRow ELSE live[o]]
  /\ pc' = "unwindCrc20"
  /\ UNCHANGED <<chain, tokens, offers, blocks, crc20, tokenState, edges, ckpt,
                 process, batch, bounds, history>>

UnwindCrc20 ==
  /\ pc = "unwindCrc20"
  /\ crc20' = [c \in Category |->
       IF crc20[c] # None /\ crc20[c].reveal = height THEN None ELSE crc20[c]]
  /\ pc' = "unwindEdges"
  /\ UNCHANGED <<chain, tokens, offers, blocks, live, tokenState, edges, ckpt,
                 process, batch, bounds, history>>

UnwindEdges ==
  /\ pc = "unwindEdges"
  /\ edges' = [t \in TxId |->
       IF edges[t] # None /\ edges[t].height >= height THEN None ELSE edges[t]]
  /\ pc' = "reload"
  /\ UNCHANGED <<chain, tokens, offers, blocks, crc20, live, tokenState, ckpt,
                 process, batch, bounds, history>>

ReloadMembers ==
  /\ pc = "reload"
  /\ members' = MembersOf(tokens, edges)
  /\ pc' = "fetch"
  /\ UNCHANGED <<chain, tables, ckpt, booting, lastSeen, height, target, block,
                 batch, bounds, history>>

(* BCHN may have changed chains since the check.                           *)
FetchBlock ==
  /\ pc = "fetch"
  /\ block' = chain[height]
  /\ pc' = "seed"
  /\ UNCHANGED <<chain, tables, ckpt, booting, lastSeen, height, target, members,
                 batch, bounds, history>>

----------------------------------------------------------------------------
(* Mutant: the set gains nothing before pass 7.                            *)
NoSeeds(b) == {}

Seeds(b) == {FoundTx(b, c) : c \in FoundCategories(b)}

(* Pass 1.  The member set gains the found transaction of EVERY category   *)
(* the block mentions, before (and whatever) the upsert does.              *)
SeedMembers ==
  /\ pc = "seed"
  /\ members' = members \cup Seeds(block)
  /\ pc' = "tokens"
  /\ UNCHANGED <<chain, tables, ckpt, booting, lastSeen, height, target, block,
                 batch, bounds, history>>

(* Mutant: ON CONFLICT DO NOTHING, so a type never upgrades.               *)
InsertToken(c) ==
  IF tokens[c] = None
    THEN [type |-> FoundType(block, c), genesis |-> FoundTx(block, c), block |-> height]
    ELSE tokens[c]

(* ON CONFLICT keeps genesis fields and only upgrades the type.            *)
UpsertToken(c) ==
  IF tokens[c] = None
    THEN [type |-> FoundType(block, c), genesis |-> FoundTx(block, c), block |-> height]
    ELSE [tokens[c] EXCEPT !.type = MergeType(@, FoundType(block, c))]

UpsertTokens ==
  /\ pc = "tokens"
  /\ tokens' = [c \in Category |->
       IF c \in FoundCategories(block) THEN UpsertToken(c) ELSE tokens[c]]
  /\ pc' = "listings"
  /\ UNCHANGED <<chain, offers, blocks, crc20, live, tokenState, edges, ckpt,
                 process, batch, bounds, history>>

NewOffer(t) == [status |-> "open", maker |-> Listing[t], tx |-> None, taker |-> None]

(* Mutant: ON CONFLICT DO UPDATE resets the status.                        *)
ReplaceOffer(t) == NewOffer(t)

InsertOffer(t) == IF offers[t] = None THEN NewOffer(t) ELSE offers[t]

(* Pass 2: one transaction, ON CONFLICT DO NOTHING.                        *)
UpsertListings ==
  /\ pc = "listings"
  /\ offers' = [t \in TxId |->
       IF t \in ListingsOf(block) THEN InsertOffer(t) ELSE offers[t]]
  /\ pc' = "findCloses"
  /\ UNCHANGED <<chain, tokens, blocks, crc20, live, tokenState, edges, ckpt,
                 process, batch, bounds, history>>

(* Pass 3: look up the open offers the block's candidates spend, ...       *)
IsOpen(t) == offers[t] # None /\ offers[t].status = "open"

(* Mutant: the open offers are those of before pass 2.                     *)
OpenBefore(t) == IsOpen(t) /\ t \notin ListingsOf(block)

(* find_open_tapswap_offers_by_id, after pass 2.                           *)
OpenAtLookup(t) == IsOpen(t)

CloseBatch(b) == {e \in SpendCandidates(b) : OpenAtLookup(PrevAt(b, e).tx)}

FindCloses ==
  /\ pc = "findCloses"
  /\ todo' = CloseBatch(block)
  /\ pc' = IF todo' = {} THEN "blockRow" ELSE "closes"
  /\ UNCHANGED <<chain, tables, ckpt, process, touched, bounds, history>>

(* ... then apply the closes one auto-committed UPDATE at a time.          *)
CloseRow(offer, t) ==
  [offer EXCEPT !.status = CloseStatus(t, offer.maker), !.tx = t,
                !.taker = TakerOf(t, offer.maker)]

ApplyClose ==
  /\ pc = "closes"
  /\ LET e == First(todo)
         id == PrevAt(block, e).tx
     IN  /\ offers' = [t \in TxId |-> IF t = id /\ IsOpen(id)
                                        THEN CloseRow(offers[id], TxAt(block, e))
                                        ELSE offers[t]]
         /\ todo' = todo \ {e}
  /\ pc' = IF todo' = {} THEN "blockRow" ELSE "closes"
  /\ UNCHANGED <<chain, tokens, blocks, crc20, live, tokenState, edges, ckpt,
                 process, touched, bounds, history>>

(* Pass 4 soft-fails: the block goes on without its row in `blocks`, and   *)
(* the next reorg check of the height has nothing to compare.              *)
WriteBlockRow ==
  /\ pc = "blockRow"
  /\ \/ blocks' = [blocks EXCEPT ![height] = block] /\ UNCHANGED <<errors, blind>>
     \/ /\ errors < MaxErrors /\ errors' = errors + 1
        /\ blind' = TRUE /\ UNCHANGED blocks
  /\ todo' = Reveals(block)
  /\ pc' = IF todo' = {} THEN "deltas" ELSE "crc20"
  /\ UNCHANGED <<chain, tokens, offers, crc20, live, tokenState, edges, ckpt,
                 process, touched, crashes, applied, frontier, lost, replayCut,
                 unranked>>

(* Pass 5.  The commit height comes from one RPC; when that fails, or the  *)
(* commit is not in a block, the reveal height stands in.                  *)
(* Mutant: no height, where the column is NOT NULL.                        *)
NoCommitHeight == NoRow

CommitFallback == height

CommitHeights(c) == {h \in DOMAIN chain : c \in TxsOf(chain[h])}

UpsertReveal(e, commit) ==
  LET c == PrevAt(block, e).tx
  IN  [crc20 EXCEPT ![c] =
        [symbol |-> Covenant[TxAt(block, e)][e.in], commit |-> commit, reveal |-> height,
         canonical |-> @ # None /\ @.canonical]]

CommitOf(c) == IF CommitHeights(c) = {} THEN {CommitFallback} ELSE CommitHeights(c)

WriteReveal ==
  /\ pc = "crc20"
  /\ LET e == First(todo)
     IN  /\ \/ /\ \E h \in CommitOf(PrevAt(block, e).tx) : crc20' = UpsertReveal(e, h)
               /\ UNCHANGED errors
            \/ /\ errors < MaxErrors /\ errors' = errors + 1
               /\ crc20' = UpsertReveal(e, CommitFallback)
         /\ todo' = todo \ {e}
  /\ pc' = IF todo' = {} THEN "resolve" ELSE "crc20"
  /\ UNCHANGED <<chain, tokens, offers, blocks, live, tokenState, edges, ckpt,
                 process, touched, crashes, history>>

(* crc20_canonical_resolve: ROW_NUMBER() = 1 within each symbol.           *)
FairGenesis(row) ==
  IF row.commit >= row.reveal - RevealWindow THEN row.commit ELSE row.reveal - RevealWindow

Bucket(s) == {c \in Category : crc20[c] # None /\ crc20[c].symbol = s}

Before(c, d) ==
  \/ FairGenesis(crc20[c]) < FairGenesis(crc20[d])
  \/ FairGenesis(crc20[c]) = FairGenesis(crc20[d]) /\ CategoryOrder[c] < CategoryOrder[d]

Wins(c) == \A d \in Bucket(crc20[c].symbol) \ {c} : Before(c, d)

(* Mutant: an earlier winner is not demoted.                               *)
Promoted(c) == crc20[c].canonical \/ Wins(c)

Resolved(c) == Wins(c)

ResolvedTable ==
  [c \in Category |->
    IF crc20[c] = None THEN None ELSE [crc20[c] EXCEPT !.canonical = Resolved(c)]]

ResolveCanonical ==
  /\ pc = "resolve"
  /\ crc20' = ResolvedTable /\ unranked' = FALSE
  /\ pc' = "deltas"
  /\ UNCHANGED <<chain, tokens, offers, blocks, live, tokenState, edges, ckpt,
                 process, batch, bounds, applied, frontier, lost, replayCut, blind>>

(* sync-crc20-canonical, a process of its own on an hourly timer.          *)
CanonicalTimer ==
  /\ crc20' = ResolvedTable /\ unranked' = FALSE
  /\ UNCHANGED <<chain, tokens, offers, blocks, live, tokenState, edges, ckpt, pc,
                 process, batch, bounds, applied, frontier, lost, replayCut, blind>>

----------------------------------------------------------------------------
(* Pass 6: one transaction applies the deltas (creates, then deletes) and  *)
(* reports the touched categories: those of the creates, and those of the  *)
(* rows a spend ACTUALLY removed.                                          *)
LiveSet == {o \in TokenOut : live[o] # NoRow}

LiveOf(c) == {o \in LiveSet : CatOf(o) = c}

Removed(b) == (LiveSet \cup Creates(b)) \cap Spends(b)

(* Mutants: the deletes before the creates; spends touch nothing.          *)
CreatesLast(b) ==
  [o \in TokenOut |->
    IF o \in Creates(b) THEN height ELSE IF o \in Spends(b) THEN NoRow ELSE live[o]]
TouchedByCreatesOnly(b) == TouchedByCreates(b)

LiveAfter(b) ==
  [o \in TokenOut |->
    IF o \in Spends(b) THEN NoRow ELSE IF o \in Creates(b) THEN height ELSE live[o]]

TouchedBy(b) == TouchedByCreates(b) \cup {CatOf(o) : o \in Removed(b)}

ApplyDeltas ==
  /\ pc = "deltas"
  /\ live' = LiveAfter(block)
  /\ touched' = TouchedBy(block)
  /\ pc' = IF touched' = {} THEN "scan" ELSE "states"
  /\ applied' = height
  /\ frontier' = IF height > frontier THEN height ELSE frontier
  /\ UNCHANGED <<chain, tokens, offers, blocks, crc20, tokenState, edges, ckpt,
                 process, todo, bounds, lost, replayCut, unranked, blind>>

(* write_token_state: one transaction per touched category, in no order.   *)
WriteState(c) ==
  /\ pc = "states" /\ c \in touched
  /\ tokenState' = [tokenState EXCEPT ![c] = LiveOf(c)]
  /\ touched' = touched \ {c}
  /\ lost' = lost \ {c}
  /\ pc' = IF touched' = {} THEN "scan" ELSE "states"
  /\ UNCHANGED <<chain, tokens, offers, blocks, crc20, live, edges, ckpt,
                 process, todo, bounds, applied, frontier, replayCut, unranked,
                 blind>>

(* Pass 7: one pass over the block's vout[0] spends, IN BLOCK ORDER, that  *)
(* records the spends of members and makes the spenders members as it goes.*)
FedBy(b, mem, S, e) ==
  \/ PrevAt(b, e).tx \in mem
  \/ \E j \in 1..(e.pos - 1) : BlockTxs[b][j] = PrevAt(b, e).tx /\ BlockTxs[b][j] \in S

(* The transactions the scan adds: the least set closed under spending the *)
(* vout[0] of a member, or of one the scan has added before.               *)
Scanned(b, mem) ==
  {t \in TxsOf(b) : \A S \in SUBSET TxsOf(b) :
     (\A e \in Vout0Spends(b) : FedBy(b, mem, S, e) => TxAt(b, e) \in S) => t \in S}

NewEdges(b, mem) == {e \in Vout0Spends(b) : FedBy(b, mem, Scanned(b, mem), e)}

ScanAuthchain ==
  /\ pc = "scan"
  /\ todo' = NewEdges(block, members)
  /\ members' = members \cup Scanned(block, members)
  /\ pc' = IF todo' = {} THEN "save" ELSE "edges"
  /\ UNCHANGED <<chain, tables, ckpt, booting, lastSeen, height, target, block,
                 touched, bounds, history>>

(* record_authchain_edges: auto-committed, ON CONFLICT DO NOTHING.         *)
InsertEdge(parent, child) ==
  IF edges[parent] = None
    THEN [edges EXCEPT ![parent] = [child |-> child, height |-> height]]
    ELSE edges

RecordEdge ==
  /\ pc = "edges"
  /\ LET e == First(todo)
     IN  /\ edges' = InsertEdge(PrevAt(block, e).tx, TxAt(block, e))
         /\ todo' = todo \ {e}
  /\ pc' = IF todo' = {} THEN "save" ELSE "edges"
  /\ UNCHANGED <<chain, tokens, offers, blocks, crc20, live, tokenState, ckpt,
                 process, touched, bounds, history>>

(* save_tail_last_block, then the next height or back to the main loop.    *)
SaveCheckpoint ==
  /\ pc = "save"
  /\ ckpt' = height
  /\ IF height = target
       THEN /\ pc' = "idle" /\ booting' = FALSE /\ lastSeen' = target
            /\ height' = 0 /\ target' = 0
       ELSE /\ pc' = "check" /\ height' = height + 1
            /\ UNCHANGED <<booting, lastSeen, target>>
  /\ block' = None
  /\ UNCHANGED <<chain, tables, members, batch, bounds, history>>

----------------------------------------------------------------------------
(* What a failure inside the state writes leaves un-aggregated for good:   *)
(* the categories only a spend revealed, whose rows are already gone.      *)
CutOff == IF pc = "states" THEN touched \ TouchedByCreates(block) ELSE {}

AbandonBlock ==
  /\ height' = 0 /\ target' = 0 /\ block' = None
  /\ todo' = {} /\ touched' = {}
  /\ lost' = lost \cup CutOff
  /\ unranked' = (unranked \/ pc \in {"crc20", "resolve"})

(* Mutant: catch_up_to_tip returns the tip all the same.                   *)
SeenTarget == target

SeenAfterError == lastSeen

(* A `?` error: catch_up_to_tip logs it and returns the OLD last_seen; in  *)
(* the initial catch-up main returns it and systemd restarts the process.  *)
Error ==
  /\ pc \in Passes /\ errors < MaxErrors
  /\ errors' = errors + 1
  /\ pc' = IF booting THEN "down" ELSE "idle"
  /\ AbandonBlock
  /\ lastSeen' = SeenAfterError
  /\ UNCHANGED <<chain, tables, ckpt, booting, members, crashes, applied, frontier,
                 replayCut, blind>>

(* After an error the replay starts below the checkpoint.  Until it saves  *)
(* one of its own, a crash resumes ABOVE the blocks it has just replayed.  *)
Crash ==
  /\ pc # "down" /\ crashes < MaxCrashes
  /\ replayCut' = (replayCut \/ applied < ckpt)
  /\ crashes' = crashes + 1
  /\ pc' = "down" /\ booting' = TRUE
  /\ AbandonBlock
  /\ UNCHANGED <<chain, tables, ckpt, lastSeen, members, errors, applied, frontier,
                 blind>>

----------------------------------------------------------------------------
ProcessBlock ==
  \/ SeedMembers \/ UpsertTokens \/ UpsertListings \/ FindCloses \/ ApplyClose
  \/ WriteBlockRow \/ WriteReveal \/ ResolveCanonical \/ ApplyDeltas
  \/ (\E c \in Category : WriteState(c))
  \/ ScanAuthchain \/ RecordEdge

CatchUp ==
  \/ CheckReorg \/ UnwindLive \/ UnwindCrc20 \/ UnwindEdges \/ ReloadMembers
  \/ FetchBlock \/ ProcessBlock \/ SaveCheckpoint

Next == NodeAdvance \/ Start \/ Tick \/ CatchUp \/ CanonicalTimer \/ Error \/ Crash

Spec == Init /\ [][Next]_vars

(* systemd restarts the process (Restart=on-failure), the 30 s poll fires  *)
(* for ever, and a running process takes its next step; the hourly timer   *)
(* of sync-crc20-canonical fires for ever.                                 *)
Fairness ==
  WF_vars(Start) /\ WF_vars(Tick) /\ WF_vars(CatchUp) /\ WF_vars(CanonicalTimer)

FairSpec == Spec /\ Fairness

----------------------------------------------------------------------------
(* What the tables should say of the chain.  The references below read the *)
(* whole chain at once, never the tables.                                  *)

CreatedBy(h) == UNION {Creates(chain[i]) : i \in 1..h}
SpentBy(h) == UNION {Spends(chain[i]) : i \in 1..h}
UtxosAt(h) == CreatedBy(h) \ SpentBy(h)

(* Nothing to do: the main loop waits, at the tip.                         *)
CaughtUp == pc = "idle" /\ lastSeen = Len(chain)

(* When the tail is caught up, live_token_utxo is exactly the chain's set  *)
(* of unspent token outputs, each at the height that created it, whatever  *)
(* blocks were re-processed on the way (apply_live_utxo_deltas); only a    *)
(* death between a replayed block's deltas and its checkpoint breaks it.   *)
LiveMatchesChain ==
  CaughtUp /\ ~replayCut =>
    /\ LiveSet = UtxosAt(Len(chain))
    /\ \A o \in LiveSet : o \in Creates(chain[live[o]])

(* An output that no block up to the frontier spends never drops out of    *)
(* live_token_utxo, not even while earlier blocks are being replayed.      *)
LiveComplete == UtxosAt(frontier) \subseteq LiveSet

(* When the tail is caught up, the aggregates of every category agree with *)
(* live_token_utxo, except those of a category whose re-aggregation was    *)
(* cut off by a failure after the deltas had committed, and unless a       *)
(* replay was cut short.                                                   *)
Aggregated(c) ==
  \/ tokenState[c] = LiveOf(c)
  \/ tokenState[c] = None /\ LiveOf(c) = {}

StateFresh == CaughtUp /\ ~replayCut => \A c \in Category \ lost : Aggregated(c)

(* tokens has a row for each category the chain mentions and no other, of  *)
(* the first block that mentions it and typed by ALL the blocks so far.    *)
MentionHeights(c) == {h \in DOMAIN chain : c \in FoundCategories(chain[h])}

ChainType(c) == MergedType({FoundType(chain[h], c) : h \in MentionHeights(c)})

TokensMatchChain ==
  CaughtUp => \A c \in Category :
    IF MentionHeights(c) = {} THEN tokens[c] = None
    ELSE /\ tokens[c] # None
         /\ tokens[c].type = ChainType(c)
         /\ tokens[c].block \in MentionHeights(c)
         /\ \A h \in MentionHeights(c) : tokens[c].block <= h

(* When the tail is caught up, an offer stands in tapswap_offers for every *)
(* listing; it is closed exactly when the chain spends it with the marker, *)
(* a return to the maker is a cancel and any other spend a take.           *)
ClosersOf(t) ==
  UNION {{TxAt(chain[h], e) : e \in {f \in SpendCandidates(chain[h]) :
                                       PrevAt(chain[h], f).tx = t}} : h \in DOMAIN chain}

OffersMatchChain ==
  CaughtUp => \A t \in TxId :
    IF \A h \in DOMAIN chain : t \notin ListingsOf(chain[h]) THEN offers[t] = None
    ELSE /\ offers[t] # None
         /\ offers[t].status = "open" <=> ClosersOf(t) = {}
         /\ \A u \in ClosersOf(t) :
              /\ offers[t].tx = u
              /\ offers[t].status = "cancelled" <=> Out0Pkh[u] = Listing[t]

(* A closed offer is never re-opened, re-closed or rewritten, whatever is  *)
(* replayed or reorged (the status = 'open' guard, ON CONFLICT DO NOTHING).*)
Closed(t) == offers[t] # None /\ offers[t].status # "open"

ClosedForGood == [][\A t \in TxId : Closed(t) => offers'[t] = offers[t]]_vars

(* When the tail is caught up, every reveal of the chain has its row, and  *)
(* every symbol one canonical category: the one whose fair genesis height  *)
(* is the least (crc20_canonical_resolve).  Ranking excepted where a       *)
(* failure came between a row and its ranking and nothing ranked since: a  *)
(* crash there, while the checkpoint's own block is replayed, resumes      *)
(* above it, and a row replayed without its commit height stays as ranked  *)
(* before until the hourly timer.                                          *)
FairHeight(row) == CHOOSE h \in {row.commit, row.reveal - RevealWindow} :
                     h >= row.commit /\ h >= row.reveal - RevealWindow

Crc20MatchesChain ==
  CaughtUp =>
    /\ \A h \in DOMAIN chain : \A e \in Reveals(chain[h]) :
         LET row == crc20[PrevAt(chain[h], e).tx]
         IN  row # None /\ row.reveal = h
    /\ ~unranked => \A s \in Symbol : Bucket(s) # {} =>
         \E c \in Bucket(s) :
           /\ \A d \in Bucket(s) : crc20[d].canonical <=> d = c
           /\ \A d \in Bucket(s) : FairHeight(crc20[c]) <= FairHeight(crc20[d])

(* When the tail is caught up, authchain_edge records the spend of vout[0] *)
(* of every known authchain member, at the height of the spend.            *)
OnAuthchain(t) ==
  \/ \E c \in Category : tokens[c] # None /\ tokens[c].genesis = t
  \/ \E u \in TxId : edges[u] # None /\ edges[u].child = t

AuthchainComplete ==
  CaughtUp => \A h \in DOMAIN chain : \A e \in Vout0Spends(chain[h]) :
    LET parent == PrevAt(chain[h], e).tx
    IN  OnAuthchain(parent) =>
          edges[parent] = [child |-> TxAt(chain[h], e), height |-> h]

(* The member set in memory never misses a member the tables know of,      *)
(* through failed blocks, unwinds and restarts (load_authchain_members and *)
(* the inserts of passes 1 and 7): a missed member is a missed edge.       *)
MembersComplete == pc \notin {"down", "reload"} => MembersOf(tokens, edges) \subseteq members

(* Once a block has been processed, nothing the tables say of its height   *)
(* stems from another block: a reorg the tail detected has been unwound    *)
(* (unwind_live_utxo, delete_crc20_at_height, unwind_authchain_edges).     *)
(* Blind checks excepted: BCHN switched chains after the comparison, or    *)
(* the height has no hash to compare.                                      *)
ReprocessedClean ==
  pc = "save" /\ ~blind =>
    /\ \A o \in LiveSet : live[o] = height => o \in Creates(block)
    /\ \A t \in TxId : edges[t] # None /\ edges[t].height = height =>
         \E e \in Vout0Spends(block) :
           PrevAt(block, e).tx = t /\ TxAt(block, e) = edges[t].child
    /\ \A c \in Category : crc20[c] # None /\ crc20[c].reveal = height =>
         \E e \in Reveals(block) : PrevAt(block, e).tx = c

(* However often it fails, crashes or meets a reorg, the tail ends up idle *)
(* at the tip with its checkpoint there.                                   *)
CatchesUp == <>[](CaughtUp /\ ckpt = Len(chain))

(* And every symbol ends up with one canonical category, the lowest, even  *)
(* where a reorg deleted the winner and nothing was detected after it.     *)
CanonicalSettles ==
  <>[](\A s \in Symbol : Bucket(s) # {} =>
         \E c \in Bucket(s) : \A d \in Bucket(s) :
           /\ crc20[d].canonical <=> d = c
           /\ FairHeight(crc20[c]) <= FairHeight(crc20[d]))

----------------------------------------------------------------------------
(* What comments and documents of the repository say and the code does not *)
(* do: TLC refutes it when it is named in TailFaults.cfg (README 6).       *)

(* apply_live_utxo_deltas: "a re-processed block ... converges".           *)
ReprocessingConverges == CaughtUp => \A c \in Category : Aggregated(c)

=============================================================================
