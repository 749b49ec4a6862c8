-------------------------- MODULE MCProjectDrafts --------------------------
(* Small instances of ProjectDrafts for TLC. *)
EXTENDS ProjectDrafts, TLC

EveryArea == {{"functions", "secrets"}, {"libraries"}, {"bindings", "policies"},
              {"database", "secrets"}, {"crons"}}

Symmetry == Permutations(Requests) \cup Permutations(Codes) \cup Permutations(Keys)
              \cup Permutations(Policies) \cup Permutations(Names)
=============================================================================
