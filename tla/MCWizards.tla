------------------------------ MODULE MCWizards ------------------------------
(* Constant values for the wizards' runs.                                  *)
EXTENDS Wizards, TLC

CONSTANTS s1, s2, r1, r2, m1, m2

Nft == [nft |-> TRUE, ft |-> 0, cat |-> 0]
NftWithFt == [nft |-> TRUE, ft |-> 1, cat |-> 0]
Start == {Plain, NftWithFt}

Coins(sats) == <<[token |-> Plain, sats |-> sats]>>
OneCoin == <<{Coins(4), Coins(2)}>>
TwoCoins == <<{Coins(4)}, {Coins(3)}>>
NftOnly == {Nft}
Requests == Permutations(Request)
=============================================================================
