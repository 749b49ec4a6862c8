--------------------------- MODULE MCCronScheduler ---------------------------
(* Small instances of CronScheduler for TLC. *)
EXTENDS CronScheduler, TLC

(* Every binding in every artifact *)
EnabledEverywhere == [d \in Deployments |-> Bindings]

(* All bindings in one artifact, all but one in the others *)
EnabledApart ==
  LET b == CHOOSE b \in Bindings : TRUE
      d == CHOOSE d \in Deployments : TRUE
  IN  [e \in Deployments |-> IF e = d THEN Bindings ELSE Bindings \ {b}]

(* Sound with EnabledEverywhere, where no artifact is special *)
Symmetry == Permutations(Workers) \cup Permutations(Deployments)
=============================================================================
