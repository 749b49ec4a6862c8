------------------------- MODULE MCProjectDeployment -------------------------
(* Small instances of ProjectDeployment for TLC. *)
EXTENDS ProjectDeployment, FiniteSets, TLC

Symmetry == Permutations(Endpoints) \cup Permutations(Workers) \cup Permutations(Operators)

(* Two shapes of an instance, for the runs in which everything together is  *)
(* too much: requests of every kind but a release, one at a time, to two    *)
(* endpoints whose drafts stay as they are ...                              *)
OneRequest ==
  /\ draft = 1 /\ \A p \in Prod : status[p] = "none"
  /\ Cardinality({o \in Operators : op[o].kind # "idle"}) <= 1
  /\ \A o \in Operators : op[o].kind \notin {"sourced", "release"}

(* ... or overlapping deployments, rollbacks and releases, with changing    *)
(* drafts, while one endpoint is disabled from before the first of them.    *)
OneEndpoint ==
  /\ ~archived /\ \A o \in Operators : op[o].kind # "enable"
  /\ \E e \in Endpoints :
       /\ epStatus[e] = "disabled" /\ \A p \in Projects : e \notin Present(p)
       /\ \A o \in Operators : e \notin op[o].parts
       /\ \A other \in Endpoints \ {e} : epStatus[other] # "disabled"

OneAtATime == OneRequest \/ OneEndpoint
=============================================================================
