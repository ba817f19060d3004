---------------------------- MODULE BlockPromise ----------------------------
(***************************************************************************)
(* What the durable block journal promises (docs/stratum-v2.md, PR #38):   *)
(* a solved block is saved once, answered by the node at most once after   *)
(* that, never forgotten in between, and acknowledged only when saved.     *)
(***************************************************************************)
CONSTANT Blocks

VARIABLES
  status, \* what durable storage knows of each block
  acked   \* blocks acknowledged to a device after their save

Init ==
  /\ status = [b \in Blocks |-> "unsaved"]
  /\ acked = {}

Save(b) ==
  /\ status[b] = "unsaved"
  /\ status' = [status EXCEPT ![b] = "saved"]
  /\ UNCHANGED acked

Answer(b, v) ==
  /\ status[b] = "saved"
  /\ status' = [status EXCEPT ![b] = v]
  /\ UNCHANGED acked

Acknowledge(b) ==
  /\ status[b] # "unsaved"
  /\ acked' = acked \cup {b}
  /\ UNCHANGED status

Next == \E b \in Blocks:
  Save(b) \/ Acknowledge(b) \/ \E v \in {"accepted", "rejected"}: Answer(b, v)

Spec == Init /\ [][Next]_<<status, acked>>

=============================================================================
