-------------------------- MODULE CapabilityCalls --------------------------
(***************************************************************************)
(* What the modules about a runtime's capabilities share: the callers      *)
(* (invocations, browsers and agents) and the bounds.  A behaviour is      *)
(* about one member of Subjects and makes at most MaxCalls[subject] calls. *)
(***************************************************************************)
EXTENDS Integers, FiniteSets, Sequences

CONSTANTS Callers, Subjects, MaxCalls, None

ASSUME CallsAssumption == \A s \in Subjects : MaxCalls[s] \in Nat

VARIABLES subject, calls

boundVars == <<subject, calls>>

Least(a, b) == IF a < b THEN a ELSE b

Quiet == [op |-> "none"]

Makes(about) ==
  about \in subject /\ calls < MaxCalls[subject] /\ calls' = calls + 1 /\ UNCHANGED subject

CallsInit == subject \in Subjects /\ calls = 0
CallsTypeOK == subject \in Subjects /\ calls \in 0 .. MaxCalls[subject]
=============================================================================
