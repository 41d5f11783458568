---------------------------- MODULE MCTailSync ----------------------------
(***************************************************************************)
(* Chains small enough for TLC that reach the cases that matter to         *)
(* sync-tail:                                                              *)
(*   b1        the commit f0; no tokens, the height the backfills reached  *)
(*   b2        g0, genesis of f0 (an FT output and an NFT output); commit  *)
(*             f2                                                          *)
(*   b3        commit f1; l0 lists the NFT on Tapswap                      *)
(*   b4        r1 reveals symbol S for f1; t0 and u0 move the FT twice in  *)
(*             one block; l1 lists it and k1 cancels, again in one block   *)
(*   b5        r2 reveals the same symbol for f2 with an earlier commit,   *)
(*             so the canonical category flips; n1 makes f1 an FT and NFT  *)
(*             category; x0 takes l0 and burns all of f0, which the block  *)
(*             touches only by spending                                    *)
(*   b6        nothing: what a failure left of b5 stays as it is           *)
(* MCFork adds a competing c5 that spends a live UTXO b5 does not and has  *)
(* no reveal, then c6.  MCCtor puts a spender before the transaction it    *)
(* spends, as the txid order of a block may.                               *)
(***************************************************************************)
EXTENDS TailSync

MCTxId == {"f0", "f1", "f2", "g0", "l0", "r1", "t0", "u0", "l1", "k1", "r2", "x0",
           "n1", "y0", "w0", "w1"}
MCCategory == {"f0", "f1", "f2"}
MCBlock == {"b1", "b2", "b3", "b4", "b5", "b6", "c5", "c6", "d3", "e2"}
MCSymbol == {"S"}
MCMaker == {"alice", "bob"}

At(t, n) == [tx |-> t, n |-> n]
Ft(c) == [cat |-> c, ft |-> TRUE, nft |-> FALSE]
Nft(c) == [cat |-> c, ft |-> FALSE, nft |-> TRUE]
Bch == [cat |-> None, ft |-> FALSE, nft |-> FALSE]

MCTxIns == [t \in MCTxId |->
  CASE t = "g0" -> <<At("f0", 0)>>
    [] t = "l0" -> <<At("g0", 1)>>
    [] t = "r1" -> <<At("f1", 0)>>
    [] t = "t0" -> <<At("g0", 0)>>
    [] t = "u0" -> <<At("t0", 0)>>
    [] t = "l1" -> <<At("u0", 0)>>
    [] t = "k1" -> <<At("l1", 0)>>
    [] t = "r2" -> <<At("f2", 0)>>
    [] t = "x0" -> <<At("l0", 0), At("k1", 0)>>
    [] t \in {"n1", "y0"} -> <<At("r1", 0)>>
    [] t = "w0" -> <<At("g0", 0)>>
    [] t = "w1" -> <<At("w0", 0)>>
    [] OTHER -> <<>>]

MCTxOuts == [t \in MCTxId |->
  CASE t = "g0" -> <<Ft("f0"), Nft("f0")>>
    [] t = "l0" -> <<Nft("f0")>>
    [] t = "r1" -> <<Ft("f1")>>
    [] t \in {"t0", "u0", "l1", "k1", "w0", "w1"} -> <<Ft("f0")>>
    [] t = "r2" -> <<Ft("f2")>>
    [] t \in {"n1", "y0"} -> <<Nft("f1")>>
    [] OTHER -> <<Bch>>]

MCBlockTxs == [b \in MCBlock |->
  CASE b = "b1" -> <<"f0">>
    [] b = "b2" -> <<"f2", "g0">>
    [] b = "b3" -> <<"f1", "l0">>
    [] b = "b4" -> <<"r1", "t0", "u0", "l1", "k1">>
    [] b = "b5" -> <<"n1", "r2", "x0">>
    [] b = "c5" -> <<"y0">>
    [] b = "d3" -> <<"w1", "w0">>
    [] b = "e2" -> <<"w1", "w0", "g0">>
    [] OTHER -> <<>>]

MCListing == [t \in MCTxId |->
  CASE t = "l0" -> "alice" [] t = "l1" -> "bob" [] OTHER -> None]
MCOut0Pkh == [t \in MCTxId |->
  CASE t \in {"k1", "x0"} -> "bob" [] OTHER -> None]
MCSpendMarker == {"k1", "x0"}
MCCovenant == [t \in MCTxId |->
  [i \in DOMAIN MCTxIns[t] |-> IF t \in {"r1", "r2"} THEN "S" ELSE None]]
MCCategoryOrder == [c \in MCCategory |-> CASE c = "f0" -> 0 [] c = "f1" -> 1 [] OTHER -> 2]

Main == <<"b1", "b2", "b3", "b4", "b5">>
Prefixes(c) == {SubSeq(c, 1, n) : n \in 1..Len(c)}

\* The tip passes height 2 with 3 and 5 with 6: a replay may start at b5.
MCLinear == {c \in Prefixes(Append(Main, "b6")) : Len(c) \notin {2, 5}}
\* The tip passes heights 2 and 3 in one step: fewer states, the same forks.
MCFork == {c \in Prefixes(Main) \cup Prefixes(<<"b1", "b2", "b3", "b4", "c5", "c6">>) :
             Len(c) \notin 2..3}
MCCtor == Prefixes(<<"b1", "b2", "d3">>) \cup Prefixes(<<"b1", "e2">>)

=============================================================================
