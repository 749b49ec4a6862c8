-------------------------------- MODULE RunLedger --------------------------------
(***************************************************************************)
(* What the schedule promises of its runs, without queues, locks, leases   *)
(* or clocks: a run executes at most once and only while it is open, two   *)
(* runs of one binding never execute together, and a run that was closed   *)
(* is over and stays closed.                                               *)
(***************************************************************************)
CONSTANTS
  Runs,           \* the runs that may ever be claimed
  Binding(_)      \* the cron binding of a run

VARIABLES
  fate,           \* new, open or closed
  stage           \* unstarted, executing or executed

Init ==
  /\ fate = [r \in Runs |-> "new"]
  /\ stage = [r \in Runs |-> "unstarted"]

(* A tick that is too late for its deployment is closed as it is claimed *)
Claim(r, to) ==
  /\ fate[r] = "new"
  /\ fate' = [fate EXCEPT ![r] = to]
  /\ UNCHANGED stage

Begin(r) ==
  /\ fate[r] = "open"
  /\ stage[r] = "unstarted"
  /\ \A q \in Runs : Binding(q) = Binding(r) => stage[q] # "executing"
  /\ stage' = [stage EXCEPT ![r] = "executing"]
  /\ UNCHANGED fate

End(r) ==
  /\ stage[r] = "executing"
  /\ stage' = [stage EXCEPT ![r] = "executed"]
  /\ UNCHANGED fate

(* Several abandoned runs may be closed at once *)
Over == {r \in Runs : fate[r] = "open" /\ stage[r] # "executing"}

Close(S) ==
  /\ S \subseteq Over
  /\ fate' = [r \in Runs |-> IF r \in S THEN "closed" ELSE fate[r]]
  /\ UNCHANGED stage

Next ==
  \/ \E r \in Runs : Claim(r, "open") \/ Claim(r, "closed") \/ Begin(r) \/ End(r)
  \/ \E S \in SUBSET Over : Close(S)

Spec == Init /\ [][Next]_<<fate, stage>>
=============================================================================
