---------------------------- MODULE ArtifactBuild ----------------------------
(***************************************************************************)
(* What one build job puts into its artifact: the worker reads the drafts  *)
(* of the Project one table after the other, with no transaction around    *)
(* the reads, resolves the calls between Functions, checks what the        *)
(* Functions need and bundles them, while members go on editing.           *)
(* apps/worker/src/{builder,schedule-builder,builder-validation,           *)
(* auth-policy-validation,function-bundler}.ts and                         *)
(* packages/shared/src/function-calls.ts; how jobs are delivered and       *)
(* artifacts activated is in ProjectDeployment.                            *)
(*                                                                         *)
(* There is one Secret name, one authentication policy and one reviewed    *)
(* query, of the environment Home. An edit leaves one row changed.         *)
(***************************************************************************)
EXTENDS Integers, FiniteSets, Sequences

CONSTANTS Functions,
          ProjectEnvironments,
          Home,     \* the endpoint's environment
          Codes,    \* what versions are about: their calls, whether they bundle
          Hosts, Metadata, \* of network policies; those no policy may open
          Networks, \* network policies members ask for
          Starts,   \* drafts a behaviour may start with, and its number of edits
          MaxEdits, Edited \* bounds: how often, and which Functions are edited

VARIABLES draft, \* the rows a build reads
          build, \* the job
          seen,  \* the drafts there were since it began
          edits  \* that may still come

buildVars == <<draft, build, seen, edits>>

\* bound[e][f]: a binding of f in e; "bare" is enabled, "off" is not, and neither
\* grants the permission that f requires.
Bindings == {"none", "off", "on", "bare"}
PolicyRows == [type : {"none", "public", "api_key"}]
                \cup [type : {"custom_function"}, of : Functions]
Row == [on : BOOLEAN, version : Nat \ {0}, secret : BOOLEAN, requires : BOOLEAN,
        empty : BOOLEAN]
Sources == [calls : SUBSET (Functions \cup {"dynamic"}), bundles : BOOLEAN]
Networking == [allowed : SUBSET Hosts, private : SUBSET Hosts, insecure : SUBSET Hosts]
Settings == [allowed : SUBSET Hosts, private : SUBSET Hosts, insecure : SUBSET Hosts,
             restricted : BOOLEAN, subjects : SUBSET {"member"}]
Drafts ==
  [rows : [Functions -> Row], code : [Functions -> Seq(Sources)],
   bound : [ProjectEnvironments -> [Functions -> Bindings]],
   policy : PolicyRows, assigned : BOOLEAN,
   secret : [ProjectEnvironments -> {"set", "empty", "gone"}],
   query : BOOLEAN, queried : SUBSET Functions, collects : SUBSET Functions,
   settings : Settings]

\* networkPolicyUpdateSchema, endpointAccessPolicySchema.
NetworkAccepted(s) ==
  /\ s.private \subseteq s.allowed /\ s.private \cap Metadata = {}
  /\ s.insecure \subseteq s.allowed
AccessAccepted(s) == s.restricted => s.subjects # {}

\* What the API keeps true of the drafts.
Consistent(d) ==
  /\ \A f \in Functions : d.rows[f].version \in DOMAIN d.code[f]
  /\ d.assigned => d.policy.type # "none"
  /\ NetworkAccepted(d.settings) /\ AccessAccepted(d.settings)

ASSUME BuildAssumption ==
  /\ Home \in ProjectEnvironments /\ Metadata \subseteq Hosts /\ MaxEdits \in Nat
  /\ Edited \subseteq Functions /\ Codes \subseteq Sources /\ Networks \subseteq Networking
  /\ \A s \in Starts :
       s.draft \in Drafts /\ Consistent(s.draft) /\ s.edits \in 0 .. MaxEdits

-----------------------------------------------------------------------------
(* Edits. *)

Ended == build.at \in {"stored", "failed"}

\* The worker does not give way while it follows the calls.
Edit(new) ==
  /\ edits > 0 /\ ~Ended /\ build.at # "calls" /\ new # draft
  /\ edits' = edits - 1 /\ draft' = new
  /\ seen' = IF build.at = "idle" THEN {new} ELSE seen \cup {new}
  /\ UNCHANGED build

SaveCode(f, code) ==
  Edit([draft EXCEPT !.rows[f].version = Len(draft.code[f]) + 1,
                     !.code[f] = Append(@, code)])

\* enabled, the Secret grant, requiredPermissions or the input schema.
PatchRow(f, field) == Edit([draft EXCEPT !.rows[f][field] = ~@])

BindFunction(e, f, binding) == Edit([draft EXCEPT !.bound[e][f] = binding])

EditNetwork(n) ==
  /\ NetworkAccepted(n)
  /\ Edit([draft EXCEPT !.settings.allowed = n.allowed, !.settings.private = n.private,
                        !.settings.insecure = n.insecure])

\* validatePolicyFunctionIfRequired, validatePolicySecretIfRequired.
FunctionUsable(row) == row.type = "custom_function" => draft.rows[row.of].on
SecretUsable(row) == row.type = "api_key" => draft.secret[Home] = "set"
Usable(row) == FunctionUsable(row) /\ SecretUsable(row)

PolicyThere == draft.policy.type # "none"

\* A policy made for the endpoint is assigned to it.
CreatePolicy(row) == /\ ~PolicyThere /\ FunctionUsable(row)
                     /\ Edit([draft EXCEPT !.policy = row])
CreateEndpointPolicy(row) ==
  /\ ~PolicyThere /\ Usable(row)
  /\ Edit([draft EXCEPT !.policy = row, !.assigned = TRUE])

EditPolicy(row) ==
  /\ PolicyThere /\ FunctionUsable(row)
  /\ draft.assigned => SecretUsable(row)
  /\ Edit([draft EXCEPT !.policy = row])
EditEndpointPolicy(row) == /\ draft.assigned /\ Usable(row)
                           /\ Edit([draft EXCEPT !.policy = row])

DeletePolicy == /\ PolicyThere /\ ~draft.assigned
                /\ Edit([draft EXCEPT !.policy = [type |-> "none"]])

AssignPolicy == /\ PolicyThere /\ Usable(draft.policy)
                /\ Edit([draft EXCEPT !.assigned = TRUE])
RemovePolicy == Edit([draft EXCEPT !.assigned = FALSE])

\* An agent names the policies the endpoint is to have.
ReplaceAssignments(assigned) ==
  /\ assigned => PolicyThere /\ Usable(draft.policy)
  /\ Edit([draft EXCEPT !.assigned = assigned])

EditSecret(e, state) == Edit([draft EXCEPT !.secret[e] = state])
SwitchQuery == Edit([draft EXCEPT !.query = ~@])
GrantResource(table, f) ==
  Edit([draft EXCEPT ![table] = IF f \in @ THEN @ \ {f} ELSE @ \cup {f}])

-----------------------------------------------------------------------------
(* The steps of a job, in the order of each builder. *)

\* What follows each step.
EndpointSteps ==
  [functions |-> "versions", versions |-> "policies", policies |-> "calls",
   calls |-> "secrets", secrets |-> "auth", auth |-> "queries", queries |-> "collections",
   collections |-> "bundle", bundle |-> "store"]
ScheduleSteps ==
  [bindings |-> "functions", functions |-> "versions", versions |-> "slice",
   slice |-> "calls", calls |-> "secrets", secrets |-> "bundle", bundle |-> "queries",
   queries |-> "collections", collections |-> "store"]

After(step) == IF build.form = "endpoint" THEN EndpointSteps[step] ELSE ScheduleSteps[step]

Proceed(step, ok, new) ==
  /\ build.at = step
  /\ build' = IF ok THEN [new EXCEPT !.at = After(step)] ELSE [build EXCEPT !.at = "failed"]
  /\ UNCHANGED <<draft, seen, edits>>

Blank == [at |-> "idle", form |-> "endpoint", env |-> Home, todo |-> {}, bound |-> <<>>,
          assigned |-> FALSE, settings |-> <<>>, rows |-> <<>>, code |-> <<>>,
          policy |-> [type |-> "none"], entries |-> {}, path |-> <<>>, selected |-> {},
          slices |-> <<>>]

\* The endpoint with its bindings, assignments and network policy.
BeginEndpoint ==
  /\ build.at = "idle"
  /\ build' = [Blank EXCEPT !.at = "functions", !.bound = draft.bound,
                            !.assigned = draft.assigned, !.settings = draft.settings]
  /\ UNCHANGED <<draft, seen, edits>>

\* The schedule artifact with the Project's environments ...
BeginSchedule ==
  /\ build.at = "idle"
  /\ build' = [Blank EXCEPT !.at = "bindings", !.form = "schedule",
                            !.todo = ProjectEnvironments]
  /\ UNCHANGED <<draft, seen, edits>>

\* ... and all its cron bindings.
ReadBindings ==
  Proceed("bindings", TRUE,
          [build EXCEPT !.bound = draft.bound, !.settings = draft.settings])

ReadFunctions ==
  LET on == {f \in Functions : draft.rows[f].on}
  IN Proceed("functions", TRUE, [build EXCEPT !.rows = [f \in on |-> draft.rows[f]]])

\* Mutant: the newest version there is.
NewestVersion(f) == Len(draft.code[f])

\* The version the row names, which was read before.
CurrentVersion(f) == build.rows[f].version

\* attachCurrentFunctionVersions.
ReadVersions ==
  Proceed("versions", TRUE,
          [build EXCEPT !.code = [f \in DOMAIN build.rows |->
                                    draft.code[f][CurrentVersion(f)]]])

Calls == [f \in DOMAIN build.code |-> build.code[f].calls]
CallsKnown == \A f \in DOMAIN Calls : Calls[f] \subseteq DOMAIN Calls
Bound(e) == {f \in Functions : build.bound[e][f] \in {"on", "bare"}}

\* Bound Functions need a policy, and an assigned one must be there.
PolicyRequired == Bound(Home) # {} => build.assigned
PolicyFound(policy) == build.assigned => policy.type # "none"

PolicyFunctions(policy) == IF policy.type = "custom_function" THEN {policy.of} ELSE {}
EndpointEntries(policy) == Bound(Home) \cup PolicyFunctions(policy)

\* The policies; the calls of every available Function are checked, called or not.
ReadPolicies ==
  LET policy == IF build.assigned THEN draft.policy ELSE [type |-> "none"] IN
  Proceed("policies",
          PolicyRequired /\ PolicyFound(policy) /\ CallsKnown,
          [build EXCEPT !.policy = policy, !.entries = EndpointEntries(policy)])

\* The environments of the Project, one after the other.
NextSlice(e) ==
  /\ e \in build.todo
  /\ Proceed("slice", CallsKnown,
             [build EXCEPT !.env = e, !.todo = @ \ {e}, !.entries = Bound(e),
                           !.selected = {}])

\* resolveFunctionCallGraph, the recursion of which is a walk along path, the
\* Functions that are being visited; those selected have been.
Visiting == {build.path[i] : i \in DOMAIN build.path}
Deepest == build.path[Len(build.path)]
Targets == IF build.path = <<>> THEN build.entries ELSE Calls[Deepest]

\* Mutant: a Function that is being visited is taken for one that was.
OnceVisited == Targets \ (build.selected \cup Visiting)
Unvisited == Targets \ build.selected

\* Fails where the Function is not available, or calls itself in the end.
Visit(f) ==
  /\ build.at = "calls" /\ f \in Unvisited
  /\ build' = IF f \in DOMAIN build.code \ Visiting
                THEN [build EXCEPT !.path = Append(@, f)]
                ELSE [build EXCEPT !.at = "failed"]
  /\ UNCHANGED <<draft, seen, edits>>

Leave ==
  /\ build.at = "calls" /\ build.path # <<>> /\ Unvisited = {}
  /\ build' = [build EXCEPT !.path = SubSeq(@, 1, Len(@) - 1),
                            !.selected = @ \cup {Deepest}]
  /\ UNCHANGED <<draft, seen, edits>>

Resolve == build.path = <<>> /\ Unvisited = {} /\ Proceed("calls", TRUE, build)

\* A schedule build asks for a value, an endpoint build for the row.
SecretThere(d, form, e) ==
  IF form = "endpoint" THEN d.secret[e] # "gone" ELSE d.secret[e] = "set"

ReadSecrets ==
  Proceed("secrets",
          (\E f \in build.selected : build.rows[f].secret)
            => SecretThere(draft, build.form, build.env),
          build)

PolicySecret(policy) == policy.type = "api_key"

ReadAuthSecret ==
  Proceed("auth",
          PolicySecret(build.policy) => SecretThere(draft, "endpoint", build.env), build)

\* The grants of the Functions selected.
Queries == draft.queried \cap build.selected
Collections == draft.collects \cap build.selected

\* A grant of a disabled query, or of another environment's, is an error.
QueryReadable == draft.query /\ build.env = Home

ReadQueries ==
  Proceed("queries", Queries # {} => QueryReadable, build)

\* ensureCollectionIndexes may fail on the records.
ReadCollections == Proceed("collections", TRUE, build)

IndexesFail == Collections # {} /\ Proceed("collections", FALSE, build)

\* bundleFunction: the code bundles and both schemas compile.
Bundles(f) == build.code[f].bundles

\* A cron binding's Function is called with {}.
Bundle ==
  Proceed("bundle",
          \A f \in build.selected :
            /\ Bundles(f)
            /\ build.form = "schedule" /\ f \in build.entries => build.rows[f].empty,
          build)

\* validatePrivateHosts, validateInsecureTlsHosts, validateEndpointAccessPolicy.
HostsValid(s) ==
  s.private \subseteq s.allowed \ Metadata /\ s.insecure \subseteq s.allowed
AccessValid(s) == s.restricted => s.subjects # {}

\* Every binding of an available Function grants what it requires, the
\* disabled ones too.
PermissionsGranted(e) ==
  \A f \in DOMAIN build.rows :
    build.bound[e][f] \in {"off", "bare"} => ~build.rows[f].requires

Slice == [entries |-> build.entries, code |-> [f \in build.selected |-> build.code[f]],
          version |-> [f \in build.selected |-> build.rows[f].version],
          secret |-> {f \in build.selected : build.rows[f].secret}]

Store ==
  /\ build.at = "store"
  /\ LET e == build.env
         ok == /\ HostsValid(build.settings)
               /\ IF build.form = "endpoint" THEN AccessValid(build.settings)
                  ELSE PermissionsGranted(e)
         slices == [x \in DOMAIN build.slices \cup {e} |->
                      IF x = e THEN Slice ELSE build.slices[x]]
     IN build' = IF ~ok THEN [build EXCEPT !.at = "failed"]
                 ELSE [build EXCEPT !.slices = slices,
                                    !.at = IF build.todo = {} THEN "stored" ELSE "slice"]
  /\ UNCHANGED <<draft, seen, edits>>

-----------------------------------------------------------------------------
BuildInit ==
  /\ \E s \in Starts : draft = s.draft /\ edits = s.edits
  /\ build = Blank /\ seen = {draft}

BuildNext ==
  \/ \E f \in Edited :
       \/ \E code \in Codes : SaveCode(f, code)
       \/ \E field \in {"on", "secret", "requires", "empty"} : PatchRow(f, field)
       \/ \E e \in ProjectEnvironments, binding \in Bindings : BindFunction(e, f, binding)
       \/ \E table \in {"queried", "collects"} : GrantResource(table, f)
  \/ \E row \in PolicyRows \ {[type |-> "none"]} :
       \/ CreatePolicy(row) \/ CreateEndpointPolicy(row)
       \/ EditPolicy(row) \/ EditEndpointPolicy(row)
  \/ \E n \in Networks : EditNetwork(n)
  \/ DeletePolicy \/ AssignPolicy \/ RemovePolicy
  \/ \E assigned \in BOOLEAN : ReplaceAssignments(assigned)
  \/ SwitchQuery
  \/ \E e \in ProjectEnvironments, state \in {"set", "empty", "gone"} : EditSecret(e, state)
  \/ BeginEndpoint \/ BeginSchedule
  \/ ReadBindings \/ ReadFunctions \/ ReadVersions \/ ReadPolicies
  \/ \E e \in ProjectEnvironments : NextSlice(e)
  \/ \E f \in Functions : Visit(f)
  \/ Leave \/ Resolve
  \/ ReadSecrets \/ ReadAuthSecret \/ ReadQueries \/ ReadCollections \/ IndexesFail
  \/ Bundle \/ Store

BuildSpec == BuildInit /\ [][BuildNext]_buildVars
-----------------------------------------------------------------------------
\* createNotesDemo, the drafts setup may leave: two Functions call the one that
\* stores, and an endpoint binds them under a policy with its password.
Starter(store) ==
  [rows |-> [f \in Functions |-> [on |-> TRUE, version |-> 1, secret |-> FALSE,
                                  requires |-> f # store, empty |-> FALSE]],
   code |-> [f \in Functions |-> <<[calls |-> {store} \ {f}, bundles |-> TRUE]>>],
   bound |-> [e \in ProjectEnvironments |->
                [f \in Functions |-> IF e = Home /\ f # store THEN "on" ELSE "none"]],
   policy |-> [type |-> "api_key"], assigned |-> TRUE,
   secret |-> [e \in ProjectEnvironments |-> "set"],
   query |-> FALSE, queried |-> {}, collects |-> {},
   settings |-> [allowed |-> {}, private |-> {}, insecure |-> {}, restricted |-> FALSE,
                 subjects |-> {}]]

-----------------------------------------------------------------------------
(* What a build should accept, said without its steps. *)

Available(d) == {f \in Functions : d.rows[f].on}
CallsOf(d, f) == d.code[f][d.rows[f].version].calls

Entries(d, form, e) ==
  {f \in Functions : d.bound[e][f] \in {"on", "bare"}} \cup
  (IF form = "endpoint" /\ d.assigned /\ d.policy.type = "custom_function"
     THEN {d.policy.of} ELSE {})

SecretStates(form) == IF form = "endpoint" THEN {"set", "empty"} ELSE {"set"}

Closed(fs, calls) == \A f \in fs : calls[f] \subseteq fs
Acyclic(fs, calls) == \A part \in (SUBSET fs) \ {{}} : \E f \in part : calls[f] \cap part = {}

Reached(d, entries) ==
  {f \in Functions : \A fs \in SUBSET Functions :
     entries \subseteq fs /\ (\A g \in fs : CallsOf(d, g) \cap Functions \subseteq fs) => f \in fs}

SliceBuildable(d, form, e) ==
  LET reached == Reached(d, Entries(d, form, e))
      calls == [f \in Functions |-> CallsOf(d, f)]
  IN
  /\ reached \subseteq Available(d) /\ Acyclic(reached, calls)
  /\ \A f \in reached : d.code[f][d.rows[f].version].bundles
  /\ (\E f \in reached : d.rows[f].secret) => d.secret[e] \in SecretStates(form)
  /\ d.queried \cap reached # {} => d.query /\ e = Home
  /\ IF form = "endpoint"
       THEN /\ d.policy.type = "api_key" /\ d.assigned => d.secret[e] \in SecretStates(form)
            /\ {f \in Functions : d.bound[e][f] \in {"on", "bare"}} # {} => d.assigned
       ELSE \A f \in Functions :
              /\ d.bound[e][f] \in {"on", "bare"} => d.rows[f].empty
              /\ d.bound[e][f] \in {"off", "bare"} /\ d.rows[f].on => ~d.rows[f].requires

Buildable(d, form) ==
  /\ Closed(Available(d), [f \in Functions |-> CallsOf(d, f)])
  /\ \A e \in (IF form = "endpoint" THEN {Home} ELSE ProjectEnvironments) :
       SliceBuildable(d, form, e)

(* A build that nobody's edit overlaps stores an artifact exactly when the   *)
(* drafts can be built as they are: no build passes over a cycle, a Secret   *)
(* or a permission that is missing, and none fails over settings the API     *)
(* accepts (builder.ts, schedule-builder.ts); building indexes may fail. The *)
(* starter's endpoints always build (installation.ts).                       *)
BuildsDecide ==
  Ended /\ Cardinality(seen) = 1 =>
    \A d \in seen :
      /\ IF build.at = "stored" THEN Buildable(d, build.form)
         ELSE ~Buildable(d, build.form) \/ d.collects # {}
      /\ build.form = "endpoint" /\ (\E f \in Functions : d = Starter(f))
           => build.at = "stored"

(* Whatever edits overlap the reads, a stored artifact can be run: the calls *)
(* in its code stay inside it and end, its policies' Function is there, and  *)
(* each Function is a version that was the current one, enabled, of a        *)
(* draft there was during the build, with a Secret that was there when it    *)
(* was granted or later (builder.ts, schedule-builder.ts).                   *)
ArtifactsComplete ==
  build.at = "stored" => \A e \in DOMAIN build.slices :
    LET s == build.slices[e]
        calls == [f \in DOMAIN s.code |-> s.code[f].calls]
    IN /\ s.entries \subseteq DOMAIN s.code
       /\ Closed(DOMAIN s.code, calls) /\ Acyclic(DOMAIN s.code, calls)
       /\ build.policy.type = "custom_function" => build.policy.of \in DOMAIN s.code
       /\ \A f \in DOMAIN s.code :
            /\ s.code[f] = draft.code[f][s.version[f]]
            /\ \E d \in seen : d.rows[f].on /\ d.rows[f].version = s.version[f]
       /\ s.secret # {} => \E d \in seen : d.secret[e] \in SecretStates(build.form)
=============================================================================
