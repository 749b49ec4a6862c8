------------------------- MODULE MCPlatformAccess -------------------------
(* An instance of PlatformTools: the behaviours that start in one place   *)
(* spend their steps on what is hard there.                                *)
EXTENDS PlatformTools, TLC

MCBudgets ==
  {<<"empty", 4, 0>>, <<"established", 3, 0>>, <<"seeded", 2, 3>>,
   <<"connected", 1, 2>>, <<"tools", 1, 0>>}

Symmetry == Permutations(Users) \cup Permutations(Browsers) \cup Permutations(Clients)
            \cup Permutations(McpSessions)
=============================================================================
