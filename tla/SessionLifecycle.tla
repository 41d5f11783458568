--------------------------- MODULE SessionLifecycle --------------------------
(***************************************************************************)
(* What both wizards promise of the rows they resume from: a session moves *)
(* forward only, an ended one stays ended, and the transaction it names is *)
(* named once.  mintSessions.ts and bcmrPublishSessions.ts each state this *)
(* contract over their own table; the wizards are shown to implement it.   *)
(***************************************************************************)
CONSTANTS Session, NoTxid

VARIABLES
  state,   \* session -> "absent" or the row's state
  txid     \* session -> the transaction recorded for it, or NoTxid

States == {"absent", "drafting", "signed", "broadcast", "confirmed", "failed", "abandoned"}

Init == state = [s \in Session |-> "absent"] /\ txid = [s \in Session |-> NoTxid]

(* Where a row may go from each state; a row that has gone out is never    *)
(* a draft again, and confirmed and abandoned are final.                   *)
After(st) ==
  CASE st = "absent"    -> {"drafting"}
    [] st = "drafting"  -> {"signed", "broadcast", "failed", "abandoned"}
    [] st = "signed"    -> {"broadcast", "failed", "abandoned"}
    [] st = "broadcast" -> {"confirmed", "failed"}
    [] st = "failed"    -> {"abandoned"}
    [] OTHER            -> {}

Move(s) ==
  /\ \E to \in After(state[s]) : state' = [state EXCEPT ![s] = to]
  /\ UNCHANGED txid

(* A transaction is named in the step that says it was sent.               *)
RecordTxid(s) ==
  /\ txid[s] = NoTxid
  /\ "broadcast" \in After(state[s])
  /\ state' = [state EXCEPT ![s] = "broadcast"]
  /\ txid'[s] # NoTxid /\ txid' = [txid EXCEPT ![s] = txid'[s]]

Next == \E s \in Session : Move(s) \/ RecordTxid(s)

Spec == Init /\ [][Next]_<<state, txid>>

=============================================================================
