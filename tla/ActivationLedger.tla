---------------------------- MODULE ActivationLedger ----------------------------
(***************************************************************************)
(* What deploying, releasing and rolling back promise, without queues,     *)
(* jobs, requests or races: a deployment is pending until it either fails  *)
(* for good or is sealed with its complete content in the step that makes  *)
(* it live; a sealed content never changes; and an environment is only     *)
(* ever switched, in one step, to a sealed deployment of its own.          *)
(***************************************************************************)
CONSTANTS
  Projects,   \* deployments, <<environment, version>>
  Parts,      \* the artifacts a deployment may have
  Contents,   \* what an artifact may contain
  Nothing,    \* the content of an artifact that is absent
  None        \* an environment without a live deployment

Envs == {"development", "production"}

VARIABLES
  fate,       \* unborn, pending, failed or sealed
  sealed,     \* the content a deployment was sealed with
  live        \* the deployment each environment serves

Init ==
  /\ fate = [p \in Projects |-> "unborn"]
  /\ sealed = [p \in Projects |-> [x \in Parts |-> Nothing]]
  /\ live = [v \in Envs |-> None]

Queue(p) ==
  /\ fate[p] = "unborn"
  /\ fate' = [fate EXCEPT ![p] = "pending"]
  /\ UNCHANGED <<sealed, live>>

Abandon(p) ==
  /\ fate[p] = "pending"
  /\ fate' = [fate EXCEPT ![p] = "failed"]
  /\ UNCHANGED <<sealed, live>>

(* A built deployment, or a release created complete *)
Seal(p) ==
  /\ fate[p] \in {"unborn", "pending"}
  /\ fate' = [fate EXCEPT ![p] = "sealed"]
  /\ \E c \in [Parts -> Contents] : sealed' = [sealed EXCEPT ![p] = c]
  /\ live' = [live EXCEPT ![p[1]] = p]

Restore(p) ==
  /\ fate[p] = "sealed"
  /\ live' = [live EXCEPT ![p[1]] = p]
  /\ UNCHANGED <<fate, sealed>>

Next == \E p \in Projects : Queue(p) \/ Abandon(p) \/ Seal(p) \/ Restore(p)

Spec == Init /\ [][Next]_<<fate, sealed, live>>
=============================================================================
