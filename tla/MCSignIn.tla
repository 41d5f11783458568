------------------------------ MODULE MCSignIn ------------------------------
(* Constant values for the sign-in run: requests that come through the     *)
(* edge and requests that do not, with addresses of three bits.            *)
EXTENDS SignIn, TLC

CONSTANTS w1, w2, c1, c2, a1, a2

V4(n) == [v6 |-> FALSE, n |-> n]
Edge == V4(5)
Direct == V4(1)
ByEdge == [peer |-> Edge, cf |-> V4(2), xff |-> NoAddress, origin |-> "self", referer |-> "none"]
Forwarded == [peer |-> Direct, cf |-> V4(2), xff |-> V4(2), origin |-> "none", referer |-> "allowed"]
Nameless == [peer |-> NoAddress, cf |-> NoAddress, xff |-> V4(2), origin |-> "self", referer |-> "self"]
Ways == {ByEdge, Forwarded}
BehindEdge == [trust |-> TRUE, any |-> FALSE, cidrs |-> {[v6 |-> FALSE, n |-> 4, prefix |-> 1]}]
Same == Permutations(Wallet) \cup Permutations(Client) \cup Permutations(Attempt)
=============================================================================
