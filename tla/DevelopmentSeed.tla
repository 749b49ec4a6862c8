--------------------------- MODULE DevelopmentSeed ---------------------------
(***************************************************************************)
(* The seed of the demo Project (prisma/seed.ts): a sequence of upserts,   *)
(* most of them outside a transaction, that the migrate container repeats  *)
(* whenever it is started, whatever members have done to the Project since *)
(* and, after the first time, while they go on. It can be cut off anywhere *)
(* and be started again; a call that fails ends it in the same way.        *)
(*                                                                         *)
(* Rows that every run writes in the same way and that nothing here reads  *)
(* (users, Secrets, policies) are left out. A member's deployment is one   *)
(* step here; its own steps are in ProjectDeployment.                      *)
(***************************************************************************)
EXTENDS Integers, Sequences, FiniteSetsExt

CONSTANTS Demos,           \* demo Functions ...
          Changed,         \* ... those whose code has two releases
          SeedEndpoints, MemberEndpoints,
          MaxSeeds, MaxMoves

ASSUME SeedAssumption ==
  /\ Changed \subseteq Demos /\ SeedEndpoints \cap MemberEndpoints = {}
  /\ MaxSeeds \in Nat /\ MaxMoves \in Nat

VARIABLES functions, \* of each demo: its row's version, the code of its versions by
                     \* number, which of its binding rows this is and whether it is there
          endpoints, \* their status, activeDeploymentId and Deployments
          releases,  \* ProjectDeployments of the development environment
          live,      \* activeProjectDeploymentId of that environment, or 0
          seed,      \* the seed that runs, or that ran last
          seeded,    \* whether one has completed
          seeds, moves \* seeds begun, moves of members

seedVars == <<functions, endpoints, releases, live, seed, seeded, seeds, moves>>
demoRows == <<functions, endpoints, releases, live>>

AllEndpoints == SeedEndpoints \cup MemberEndpoints
Absent == [status |-> "absent", active |-> 0, made |-> <<>>]
Unseeded == [version |-> 0, made |-> <<>>, binding |-> 0, bound |-> FALSE]
NoSeed == [at |-> "idle", todo |-> {}, on |-> {}, found |-> <<>>, snapshots |-> <<>>,
           preserved |-> 0, overtaken |-> FALSE, counts |-> <<>>]
Stopped == [NoSeed EXCEPT !.overtaken = seed.overtaken]
Running == seed.at \notin {"idle", "done"}

CodeOf(f, n) == IF f \in Changed THEN n ELSE 2
Newest(f) == Max(DOMAIN functions[f].made \cup {0})
Put(made, v, code) == [w \in DOMAIN made \cup {v} |-> IF w = v THEN code ELSE made[w]]

-----------------------------------------------------------------------------
(* The seed. *)

\* Reads activeProjectDeploymentId with the upsert of the environment.
BeginSeed ==
  /\ ~Running /\ seeds < MaxSeeds
  /\ seeds' = seeds + 1
  /\ seed' = [NoSeed EXCEPT !.at = "endpoints", !.todo = SeedEndpoints, !.preserved = live,
                            !.overtaken = seed.overtaken]
  /\ UNCHANGED <<demoRows, moves, seeded>>

Take(at, x) == seed.at = at /\ x \in seed.todo

SeedEndpoint(e) ==
  /\ Take("endpoints", e)
  /\ endpoints' = [endpoints EXCEPT ![e].status = "deployed"]
  /\ seed' = IF seed.todo = {e} THEN [seed EXCEPT !.at = "functions", !.todo = Demos]
             ELSE [seed EXCEPT !.todo = @ \ {e}]
  /\ UNCHANGED <<functions, releases, live, seeds, moves, seeded>>

SeedFunction(f) ==
  /\ Take("functions", f)
  /\ functions' = [functions EXCEPT ![f].version = 2]
  /\ seed' = [seed EXCEPT !.at = "versions", !.on = {f}, !.found = <<>>]
  /\ UNCHANGED <<endpoints, releases, live, seeds, moves, seeded>>

\* Mutant: a version is made whether or not there is one with its checksum.
AlwaysMade(f, code) == {}
SameChecksum(f, code) == {v \in DOMAIN functions[f].made : functions[f].made[v] = code}

\* Version 1, then version 2.
EnsureSeedVersion ==
  /\ seed.at = "versions"
  /\ \E f \in seed.on :
       LET n == Len(seed.found) + 1
           same == SameChecksum(f, CodeOf(f, n))
           at == IF n = 2 THEN "bindings" ELSE "versions"
       IN IF same # {}
            THEN /\ \E v \in same : seed' = [seed EXCEPT !.at = at, !.found = Append(@, v)]
                 /\ UNCHANGED functions
            ELSE /\ functions' = [functions EXCEPT ![f].made = Put(@, Newest(f) + 1, CodeOf(f, n))]
                 /\ seed' = [seed EXCEPT !.at = at, !.found = Append(@, Newest(f) + 1)]
  /\ UNCHANGED <<endpoints, releases, live, seeds, moves, seeded>>

\* The row's version, its bindings and what the snapshots say of it.
SeedBindings ==
  /\ seed.at = "bindings"
  /\ \E f \in seed.on :
       LET binding == IF functions[f].bound THEN functions[f].binding
                      ELSE functions[f].binding + 1
           snapshots == [g \in DOMAIN seed.snapshots \cup {f} |->
                           IF g = f THEN [versions |-> seed.found, binding |-> binding]
                           ELSE seed.snapshots[g]]
           last == seed.todo = {f}
       IN /\ functions' = [functions EXCEPT ![f].version = seed.found[2],
                                            ![f].binding = binding, ![f].bound = TRUE]
          /\ seed' = [seed EXCEPT !.at = IF last THEN "artifacts" ELSE "functions",
                                  !.todo = IF last THEN SeedEndpoints ELSE @ \ {f},
                                  !.on = {}, !.found = <<>>, !.snapshots = snapshots]
  /\ UNCHANGED <<endpoints, releases, live, seeds, moves, seeded>>

Content(n) ==
  [of |-> n, uses |-> [f \in DOMAIN seed.snapshots |->
                         [version |-> seed.snapshots[f].versions[n],
                          binding |-> seed.snapshots[f].binding]]]

\* Release 1, then release 2, of one endpoint.
SeedArtifact(e) ==
  /\ Take("artifacts", e) /\ seed.on \in {{}, {e}} /\ Len(seed.found) < 2
  /\ LET n == Len(seed.found) + 1
         made == endpoints[e].made
         same == {v \in DOMAIN made : made[v].content = Content(n)}
         status == IF n = 2 /\ seed.preserved = 0 THEN "active" ELSE "rolled_back"
     IN IF same # {}
          THEN /\ \E v \in same : seed' = [seed EXCEPT !.on = {e}, !.found = Append(@, v)]
               /\ UNCHANGED endpoints
          ELSE /\ endpoints' = [endpoints EXCEPT ![e].made =
                    Append(@, [status |-> status, content |-> Content(n), of |-> 0])]
               /\ seed' = [seed EXCEPT !.on = {e}, !.found = Append(@, Len(made) + 1)]
  /\ UNCHANGED <<functions, releases, live, seeds, moves, seeded>>

\* In one transaction, and only where no deployment is live.
ActivateArtifact(e) ==
  /\ seed.at = "artifacts" /\ seed.on = {e} /\ Len(seed.found) = 2
  /\ endpoints' =
       IF seed.preserved # 0 THEN endpoints
       ELSE [endpoints EXCEPT ![e] =
               [status |-> "deployed", active |-> seed.found[2],
                made |-> [v \in DOMAIN @.made |->
                            IF v = seed.found[2] THEN [@.made[v] EXCEPT !.status = "active"]
                            ELSE IF v = seed.found[1] \/ @.made[v].status = "active"
                              THEN [@.made[v] EXCEPT !.status = "rolled_back"]
                              ELSE @.made[v]]]]
  /\ seed' = [seed EXCEPT !.at = IF seed.todo = {e} THEN "collect" ELSE "artifacts",
                          !.todo = @ \ {e}, !.on = {}, !.found = <<>>]
  /\ UNCHANGED <<functions, releases, live, seeds, moves, seeded>>

\* Every endpoint of the Project with the Deployments it has.
Collect ==
  /\ seed.at = "collect"
  /\ seed' = [seed EXCEPT !.at = "release", !.todo = {1, 2},
                !.counts = [e \in {x \in AllEndpoints : endpoints[x].status # "absent"} |->
                              Len(endpoints[e].made)]]
  /\ UNCHANGED <<demoRows, seeds, moves, seeded>>

Now == Min(seed.todo)

\* Fails where an endpoint has no Deployment of that number.
SeedRelease ==
  /\ seed.at = "release"
  /\ LET n == Now
         row == [status |-> IF n = 2 /\ seed.preserved = 0 THEN "active" ELSE "rolled_back"]
         complete == \A e \in DOMAIN seed.counts : seed.counts[e] >= n
     IN /\ releases' = IF complete /\ n > Len(releases) THEN Append(releases, row) ELSE releases
        /\ seed' = IF complete THEN [seed EXCEPT !.at = "move"] ELSE Stopped
  /\ UNCHANGED <<functions, endpoints, live, seeds, moves, seeded>>

MoveArtifacts ==
  /\ seed.at = "move"
  /\ endpoints' = [e \in AllEndpoints |->
       IF e \in DOMAIN seed.counts THEN [endpoints[e] EXCEPT !.made[Now].of = Now]
       ELSE endpoints[e]]
  /\ seed' = [seed EXCEPT !.at = IF Now = 2 THEN "pointer" ELSE "release", !.todo = @ \ {Now}]
  /\ UNCHANGED <<functions, releases, live, seeds, moves, seeded>>

SeedPointer ==
  /\ seed.at = "pointer"
  /\ live' = IF seed.preserved = 0 THEN 2 ELSE live
  /\ seed' = [seed EXCEPT !.at = "settle"]
  /\ UNCHANGED <<functions, endpoints, releases, seeds, moves, seeded>>

\* Mutant: the release the seed made is the authoritative one.
SeededFirst == 2
Authoritative == IF seed.preserved # 0 THEN seed.preserved ELSE 2

SettleReleases ==
  /\ seed.at = "settle"
  /\ releases' = [n \in DOMAIN releases |->
                    IF releases[n].status = "active" /\ n # Authoritative
                      THEN [status |-> "rolled_back"] ELSE releases[n]]
  /\ seed' = [NoSeed EXCEPT !.at = "done", !.preserved = seed.preserved,
                            !.overtaken = seed.overtaken]
  /\ seeded' = TRUE
  /\ UNCHANGED <<functions, endpoints, live, seeds, moves>>

Interrupt ==
  /\ Running
  /\ seed' = Stopped
  /\ UNCHANGED <<demoRows, seeds, moves, seeded>>

-----------------------------------------------------------------------------
(* Members; the control plane is not started before a seed has completed. *)

Move == /\ seeded /\ moves < MaxMoves
        /\ moves' = moves + 1
        /\ UNCHANGED <<seeds, seeded>>

\* The next version is the row's and one more, and refused if there is one.
SaveDemo(f) ==
  /\ Move
  /\ functions[f].version + 1 \notin DOMAIN functions[f].made
  /\ functions' = [functions EXCEPT ![f].version = @ + 1,
                                    ![f].made = Put(@, functions[f].version + 1, 3)]
  /\ UNCHANGED <<endpoints, releases, live, seed>>

Unbind(f) ==
  /\ Move /\ functions[f].bound
  /\ functions' = [functions EXCEPT ![f].bound = FALSE]
  /\ UNCHANGED <<endpoints, releases, live, seed>>

AddEndpoint(e) ==
  /\ Move /\ endpoints[e].status = "absent"
  /\ endpoints' = [endpoints EXCEPT ![e].status = "draft"]
  /\ UNCHANGED <<functions, releases, live, seed>>

DisableEndpoint(e) ==
  /\ Move /\ endpoints[e].status = "deployed"
  /\ endpoints' = [endpoints EXCEPT ![e].status = "disabled"]
  /\ UNCHANGED <<functions, releases, live, seed>>

Activated(n) ==
  /\ live' = n
  /\ seed' = [seed EXCEPT !.overtaken = @ \/ Running]

Deploy ==
  /\ Move /\ \E e \in AllEndpoints : endpoints[e].status \notin {"absent", "disabled"}
  /\ LET n == Len(releases) + 1
         Built(e) == [status |-> "active", of |-> n,
                      content |-> [of |-> 0, uses |-> [f \in Demos |->
                        [version |-> functions[f].version, binding |-> functions[f].binding]]]]
         Retired(e) == [v \in DOMAIN endpoints[e].made |->
                          IF v = endpoints[e].active
                            THEN [endpoints[e].made[v] EXCEPT !.status = "rolled_back"]
                            ELSE endpoints[e].made[v]]
     IN /\ releases' = Append([m \in DOMAIN releases |-> [status |-> "rolled_back"]],
                              [status |-> "active"])
        /\ endpoints' = [e \in AllEndpoints |->
             IF endpoints[e].status \in {"absent", "disabled"} THEN endpoints[e]
             ELSE [status |-> "deployed", active |-> Len(endpoints[e].made) + 1,
                   made |-> Append(Retired(e), Built(e))]]
        /\ Activated(n)
  /\ UNCHANGED functions

\* The release that is live and the target, with their artifacts, change places.
Rollback(n) ==
  /\ Move /\ n \in DOMAIN releases /\ releases[n].status = "rolled_back"
  /\ releases' = [releases EXCEPT ![n].status = "active", ![live].status = "rolled_back"]
  /\ endpoints' = [e \in AllEndpoints |->
       LET its == {v \in DOMAIN endpoints[e].made : endpoints[e].made[v].of = n} IN
       [status |-> IF its = {} THEN endpoints[e].status ELSE "deployed",
        active |-> IF its = {} THEN endpoints[e].active ELSE Max(its),
        made |-> [v \in DOMAIN endpoints[e].made |->
                    [endpoints[e].made[v] EXCEPT
                       !.status = IF v \in its THEN "active"
                                  ELSE IF endpoints[e].made[v].of = live THEN "rolled_back"
                                  ELSE @]]]]
  /\ Activated(n)
  /\ UNCHANGED functions

-----------------------------------------------------------------------------
SeedInit ==
  /\ functions = [f \in Demos |-> Unseeded] /\ endpoints = [e \in AllEndpoints |-> Absent]
  /\ releases = <<>> /\ live = 0 /\ seed = NoSeed /\ seeds = 0 /\ moves = 0
  /\ seeded = FALSE

SeedNext ==
  \/ BeginSeed \/ EnsureSeedVersion \/ SeedBindings
  \/ Collect \/ SeedRelease \/ MoveArtifacts \/ SeedPointer \/ SettleReleases \/ Interrupt
  \/ \E e \in SeedEndpoints : SeedEndpoint(e) \/ SeedArtifact(e) \/ ActivateArtifact(e)
  \/ \E f \in Demos : SeedFunction(f) \/ SaveDemo(f) \/ Unbind(f)
  \/ \E e \in MemberEndpoints : AddEndpoint(e)
  \/ \E e \in SeedEndpoints : DisableEndpoint(e)
  \/ Deploy
  \/ \E n \in 1 .. Len(releases) : Rollback(n)

SeedSpec == SeedInit /\ [][SeedNext]_seedVars
-----------------------------------------------------------------------------
(* The seed is idempotent (docs/development.md): however often it was cut    *)
(* off before, and however often it is repeated, the Project that a          *)
(* completed seed leaves, when no member did anything, is the one that a     *)
(* single run makes.                                                         *)
SeedsConverge ==
  seed.at = "done" /\ moves = 0 =>
    /\ \A f \in Demos :
         LET made == IF f \in Changed THEN <<1, 2>> ELSE <<2>> IN
         functions[f] = [version |-> Len(made), made |-> made, binding |-> 1, bound |-> TRUE]
    /\ \A e \in SeedEndpoints :
         /\ endpoints[e].status = "deployed" /\ endpoints[e].active = 2
         /\ [v \in DOMAIN endpoints[e].made |->
              <<endpoints[e].made[v].status, endpoints[e].made[v].of>>]
              = <<<<"rolled_back", 1>>, <<"active", 2>>>>
    /\ live = 2 /\ releases = <<[status |-> "rolled_back"], [status |-> "active"]>>

(* As long as no deployment is activated during a seed, one that is         *)
(* repeated on a Project that members have gone on with leaves the           *)
(* deployment that was live the only active one, and its artifacts the ones  *)
(* the demo endpoints serve (preserveActiveDevelopmentDeployment, seed.ts).  *)
SeedsKeepLive ==
  seed.at = "done" /\ ~seed.overtaken =>
    /\ \A n \in DOMAIN releases : releases[n].status = "active" <=> n = live
    /\ \A e \in SeedEndpoints : \A v \in DOMAIN endpoints[e].made :
         endpoints[e].made[v].of = live =>
           v = endpoints[e].active /\ endpoints[e].made[v].status = "active"
=============================================================================
