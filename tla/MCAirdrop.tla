------------------------------ MODULE MCAirdrop -----------------------------
(***************************************************************************)
(* Two airdrops of two chunks each, by a sender with a large and a small   *)
(* token coin and one plain coin, and a server that works on two requests  *)
(* at a time.                                                              *)
(***************************************************************************)
EXTENDS Airdrop, TLC

MCSymmetry == Permutations(Airdrop) \cup Permutations(Request)

MCPlain == {Coin(None, 9, 0)}

=============================================================================
