----------------------------- MODULE ChainData -----------------------------
(***************************************************************************)
(* The block data the sync workers read from BCHN, and the pure functions  *)
(* they derive from one block: the token-UTXO deltas (enrich_walker.rs),   *)
(* the categories a block mentions (tail.rs, pass 1), Tapswap listings and *)
(* spend candidates (tapswap_walker.rs) and CRC-20 reveals (crc20.rs).     *)
(*                                                                         *)
(* A block is a sequence of transactions IN BLOCK ORDER.  Bitcoin Cash     *)
(* orders a block's transactions by txid, so a transaction may stand       *)
(* before the one whose output it spends.  Scripts are abstracted to what  *)
(* the walkers read off them: the listing a transaction decodes to, the    *)
(* presence of the spend marker, the P2PKH behind vout[0], the covenant a  *)
(* genesis input reveals.                                                  *)
(***************************************************************************)
EXTENDS Integers, Sequences, FiniteSets

CONSTANTS
  TxId,        \* transaction ids
  Category,    \* token categories; a category is the txid of a spent vout[0]
  Block,       \* block hashes
  Symbol,      \* CRC-20 symbols
  Maker,       \* public key hashes that list, take or cancel offers
  None,        \* "absent": an Option::None or a SQL NULL
  TxIns,       \* TxIns[t]: the prevouts t spends, <<>> for a coinbase
  TxOuts,      \* TxOuts[t]: the outputs of t, vout 0 first
  BlockTxs,    \* BlockTxs[b]: the txids of block b, in block order
  Listing,     \* Listing[t]: maker of the MPSW offer t decodes to, or None
  SpendMarker, \* transactions whose vin[0] unlocking script has the marker
  Out0Pkh,     \* Out0Pkh[t]: hash behind a P2PKH vout[0], None otherwise
  Covenant     \* Covenant[t][i]: symbol input i of t reveals, or None

(* An output is described by the category it carries (None for plain BCH)  *)
(* and by what classifies the category: a positive fungible amount, an NFT. *)
Output == [cat : Category \cup {None}, ft : BOOLEAN, nft : BOOLEAN]
Outpoint == [tx : TxId, n : Nat]

ASSUME ChainDataTypes ==
  /\ Category \subseteq TxId
  /\ None \notin TxId \cup Block \cup Symbol \cup Maker
  /\ TxIns \in [TxId -> Seq(Outpoint)]
  /\ TxOuts \in [TxId -> Seq(Output)]
  /\ BlockTxs \in [Block -> Seq(TxId)]
  /\ \A t \in TxId : Covenant[t] \in [DOMAIN TxIns[t] -> Symbol \cup {None}]
  /\ Listing \in [TxId -> Maker \cup {None}]
  /\ Out0Pkh \in [TxId -> Maker \cup {None}]
  /\ SpendMarker \subseteq TxId

----------------------------------------------------------------------------
(* The walkers loop over a block's transactions and their inputs in order. *)
(* An input is named by its position; First is the next one of a loop.     *)

TxsOf(b) == {BlockTxs[b][k] : k \in DOMAIN BlockTxs[b]}

Inputs(b) ==
  UNION {{[pos |-> k, in |-> i] : i \in DOMAIN TxIns[BlockTxs[b][k]]} :
           k \in DOMAIN BlockTxs[b]}

TxAt(b, e) == BlockTxs[b][e.pos]
PrevAt(b, e) == TxIns[TxAt(b, e)][e.in]

Precedes(e, f) == e.pos < f.pos \/ (e.pos = f.pos /\ e.in <= f.in)
First(S) == CHOOSE e \in S : \A f \in S : Precedes(e, f)
Lowest(K) == CHOOSE k \in K : \A j \in K : k <= j

----------------------------------------------------------------------------
(* derive_block_deltas: what one block adds to and removes from the token  *)
(* UTXO set, and the vout[0] spends it feeds to the authchain index.       *)

TokenOutsOf(t) ==
  {[tx |-> t, n |-> i - 1] : i \in {j \in DOMAIN TxOuts[t] : TxOuts[t][j].cat # None}}

TokenOut == UNION {TokenOutsOf(t) : t \in TxId}

CatOf(o) == TxOuts[o.tx][o.n + 1].cat

Creates(b) == UNION {TokenOutsOf(t) : t \in TxsOf(b)}

Spends(b) == {PrevAt(b, e) : e \in Inputs(b)}

TouchedByCreates(b) == {CatOf(o) : o \in Creates(b)}

Vout0Spends(b) == {e \in Inputs(b) : PrevAt(b, e).n = 0}

----------------------------------------------------------------------------
(* Pass 1: the categories a block mentions, with the type its outputs are  *)
(* evidence for and the FIRST transaction of the block that carries them.  *)

FromEvidence(hasFt, hasNft) ==
  IF hasNft THEN (IF hasFt THEN "FT+NFT" ELSE "NFT") ELSE "FT"

MergeType(a, b) == IF a = b THEN a ELSE "FT+NFT"

MentionedBy(t) == {TxOuts[t][i].cat : i \in DOMAIN TxOuts[t]} \ {None}

FoundCategories(b) == UNION {MentionedBy(t) : t \in TxsOf(b)}

(* The evidence of one transaction, then merged over the block's.          *)
TxType(t, c) ==
  LET outs == {i \in DOMAIN TxOuts[t] : TxOuts[t][i].cat = c}
  IN  FromEvidence(\E i \in outs : TxOuts[t][i].ft, \E i \in outs : TxOuts[t][i].nft)

MergedType(types) == IF \E ty \in types : types = {ty} THEN CHOOSE ty \in types : TRUE
                     ELSE "FT+NFT"

FoundType(b, c) == MergedType({TxType(t, c) : t \in {u \in TxsOf(b) : c \in MentionedBy(u)}})

FoundTx(b, c) ==
  BlockTxs[b][Lowest({k \in DOMAIN BlockTxs[b] : c \in MentionedBy(BlockTxs[b][k])})]

----------------------------------------------------------------------------
(* Passes 2, 3 and 5: listings, spend candidates and CRC-20 reveals.       *)

ListingsOf(b) == {t \in TxsOf(b) : Listing[t] # None}

(* process_block_spends looks only at vin[0], and only at prevout index 0. *)
SpendCandidates(b) ==
  {e \in Inputs(b) : e.in = 1 /\ PrevAt(b, e).n = 0 /\ TxAt(b, e) \in SpendMarker}

(* classify_close: an output back to the maker is a cancel, else a take.   *)
CloseStatus(t, maker) == IF Out0Pkh[t] = maker THEN "cancelled" ELSE "taken"
TakerOf(t, maker) == IF Out0Pkh[t] = maker THEN None ELSE Out0Pkh[t]

(* detect_in_tx: the first input that spends the vout[0] of a transaction  *)
(* whose id is a category among t's own outputs, and reveals a covenant.   *)
IsReveal(t, i) ==
  /\ TxIns[t][i].n = 0 /\ TxIns[t][i].tx \in MentionedBy(t)
  /\ Covenant[t][i] # None

Reveals(b) ==
  {e \in Inputs(b) : /\ IsReveal(TxAt(b, e), e.in)
                     /\ \A i \in 1..(e.in - 1) : ~IsReveal(TxAt(b, e), i)}

=============================================================================
