---------------------------- MODULE PayoutLedger ----------------------------
(***************************************************************************)
(* What an airdrop promises its sender, in terms of money alone.  Each     *)
(* airdrop pays its chunks in order, no chunk twice; and whatever the      *)
(* directory records as paid is paid.  Nothing says that an airdrop ends,  *)
(* or that a paid chunk is recorded: the code promises neither.            *)
(***************************************************************************)
EXTENDS Naturals

CONSTANTS
  Airdrop,     \* airdrop ids
  Count        \* chunks of an airdrop

VARIABLES
  payments,    \* how often each chunk of each airdrop has been paid
  claimed      \* the chunks recorded as paid

Chunk == 0..(Count - 1)

Init ==
  /\ payments = [a \in Airdrop |-> [k \in Chunk |-> 0]]
  /\ claimed = [a \in Airdrop |-> {}]

Pay(a, k) ==
  /\ payments[a][k] = 0
  /\ \A j \in Chunk : j < k => payments[a][j] = 1
  /\ payments' = [payments EXCEPT ![a][k] = 1]
  /\ UNCHANGED claimed

(* The record follows, late or never, and may be taken back.               *)
Record(a) ==
  /\ \E S \in SUBSET {k \in Chunk : payments[a][k] > 0} :
       claimed' = [claimed EXCEPT ![a] = S]
  /\ UNCHANGED payments

Next == \E a \in Airdrop : Record(a) \/ \E k \in Chunk : Pay(a, k)

Spec == Init /\ [][Next]_<<payments, claimed>>

=============================================================================
