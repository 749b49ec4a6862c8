---------------------------- MODULE ExecutionLedger ----------------------------
(***************************************************************************)
(* What the execution history promises, without processes, timers, aborts  *)
(* or heartbeats: an execution is opened once as running, its outcome may  *)
(* be revised while it is open, and it is closed with an outcome that      *)
(* nothing changes any more.  Executions move independently.               *)
(***************************************************************************)
CONSTANTS
  Executions,
  Outcomes        \* the final statuses of an execution

VARIABLES
  fate,           \* unopened, open or closed
  status          \* none, running or an outcome

Init ==
  /\ fate = [e \in Executions |-> "unopened"]
  /\ status = [e \in Executions |-> "none"]

Open(e) ==
  /\ fate[e] = "unopened"
  /\ fate'[e] = "open"
  /\ status'[e] = "running"

(* Never opened: the row could not be written *)
Refuse(e) ==
  /\ fate[e] = "unopened"
  /\ fate'[e] = "closed"
  /\ status'[e] = "none"

Revise(e) ==
  /\ fate[e] = "open"
  /\ fate'[e] = "open"
  /\ status'[e] \in Outcomes

Close(e) ==
  /\ fate[e] = "open"
  /\ fate'[e] = "closed"
  /\ status'[e] \in Outcomes

Rest(e) == fate'[e] = fate[e] /\ status'[e] = status[e]

Next ==
  /\ fate' \in [Executions -> {"unopened", "open", "closed"}]
  /\ status' \in [Executions -> {"none", "running"} \cup Outcomes]
  /\ \A e \in Executions : Open(e) \/ Refuse(e) \/ Revise(e) \/ Close(e) \/ Rest(e)

Spec == Init /\ [][Next]_<<fate, status>>
=============================================================================
