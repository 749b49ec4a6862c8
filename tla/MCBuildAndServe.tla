--------------------------- MODULE MCBuildAndServe ---------------------------
(* Small instances of BuildAndServe for TLC. *)
EXTENDS BuildAndServe, TLC
CONSTANTS f1, f2, f3

(* Snapshots: one request matches two bindings, the first of them of a      *)
(* disabled Function.                                                        *)
Endpoint(policies, allowed, bound) ==
  [policies |-> policies, allowed |-> allowed, bound |-> bound, on |-> {f1, f2},
   granted |-> {f2}]
Bind(keys, fn) == [keys |-> keys, fn |-> fn]
SomeSnapshots == {
  Endpoint(<<"api_key", "webhook_signature", "public">>, {}, <<Bind({"k"}, f2)>>),
  Endpoint(<<"jwt", "custom_function">>, {"custom_function"},
           <<Bind({"k"}, f3), Bind({"k", "l"}, f1)>>)}

(* Drafts. *)
Code(calls) == [calls |-> calls, bundles |-> TRUE]
SomeCodes == {Code({}), Code({f1}), [calls |-> {}, bundles |-> FALSE]}
Plain == [on |-> TRUE, version |-> 1, secret |-> FALSE, requires |-> FALSE, empty |-> TRUE]
Binds(fs) ==
  [e \in ProjectEnvironments |->
     [f \in Functions |-> IF f \in fs[e] THEN "on" ELSE "none"]]
AtHome(fs) == Binds([e \in ProjectEnvironments |-> IF e = Home THEN fs ELSE {}])
Draft(rows, calls, bound) ==
  [rows |-> rows, code |-> [f \in Functions |-> <<Code(calls[f])>>], bound |-> bound,
   policy |-> [type |-> "public"], assigned |-> TRUE,
   secret |-> [e \in ProjectEnvironments |-> "set"],
   query |-> TRUE, queried |-> {}, collects |-> {},
   settings |-> [allowed |-> {}, private |-> {}, insecure |-> {}, restricted |-> FALSE,
                 subjects |-> {}]]

\* Any calls between Functions, the last of which may be disabled, and a call
\* whose target is computed.
Graphs ==
  {Draft([f \in Functions |-> [Plain EXCEPT !.on = f \in on]], calls, AtHome(bound)) :
     on \in {Functions, {f1, f2}}, bound \in {{f1}, {f1, f2}},
     calls \in [Functions -> SUBSET Functions] \cup {[f \in Functions |-> {"dynamic"}]}}

\* A draft that builds: a bound Function calls one that has the secret, which
\* is bound in the other environments.
Sound == Draft([f \in Functions |-> [Plain EXCEPT !.on = f # f3, !.secret = f = f2]],
               [f \in Functions |-> IF f = f1 THEN {f2} ELSE {}],
               Binds([e \in ProjectEnvironments |-> IF e = Home THEN {f1} ELSE {f2}]))

\* Whatever settings the contracts of the API accept (contracts-core.ts,
\* contracts-runtime.ts).
Accepted ==
  {s \in Settings : NetworkAccepted(s) /\ AccessAccepted(s)}

\* One is refused.
SomeNetworks == {
  [allowed |-> {"internal"}, private |-> {}, insecure |-> {"internal"}],
  [allowed |-> Hosts, private |-> {"internal"}, insecure |-> {"metadata"}],
  [allowed |-> Hosts, private |-> {"metadata"}, insecure |-> {}]}

SomeStarts ==
  {[draft |-> d, edits |-> 0] : d \in Graphs \cup {[Sound EXCEPT !.settings = s] : s \in Accepted}}
  \cup {[draft |-> Starter(f1), edits |-> 0],
        [draft |-> Sound, edits |-> MaxEdits],
        [draft |-> [Sound EXCEPT !.policy = [type |-> "none"], !.assigned = FALSE], edits |-> 1]}

Symmetry == Permutations(Requests) \cup Permutations(Values) \cup Permutations(Slugs)
=============================================================================
