--------------------------- MODULE ProjectDeployment ---------------------------
(***************************************************************************)
(* The life of a Project deployment: the API queues it, BullMQ delivers    *)
(* one build job per artifact at least once, workers build and store the   *)
(* artifacts from the current drafts, and the last one activates all of    *)
(* them in one transaction.  Operators roll back, release to production,   *)
(* disable and enable endpoints and archive the Project meanwhile.         *)
(*                                                                         *)
(* A Project deployment is named by its environment and its version, the   *)
(* unique key of the ProjectDeployment table.  Its artifacts are its parts:*)
(* one Deployment row per endpoint and one ScheduleDeployment row.  An     *)
(* artifact's content is the revision of the drafts it was built from.     *)
(***************************************************************************)
EXTENDS Naturals

CONSTANTS
  Endpoints,     \* the runtime endpoints of one Project
  Schedule,      \* the part that stands for the ScheduleDeployment
  Workers,       \* execution slots of the "deployments" worker
  Operators,     \* concurrent control-plane requests
  None,          \* an absent reference
  HasCron,       \* whether the Project has cron bindings
  MaxDev,        \* bound: development versions
  MaxProd,       \* bound: production versions
  MaxDraft,      \* bound: draft revisions
  Attempts,      \* attempts of a build job (5 in the code)
  MaxStalls,     \* BullMQ's maxStalledCount
  MaxCrashes,    \* bound: crashes of workers and API requests, and lost job locks
  Requests,      \* the kinds of request this instance exhibits
  Faults         \* the faults this instance exhibits

RequestKinds == {"deploy", "rollback", "release", "enable", "disable", "archive"}
FaultKinds == {"stall", "workerCrash", "apiCrash", "dbError", "lostAck"}

ASSUME BoundsAssumption ==
  /\ {MaxDev, MaxProd, MaxStalls, MaxCrashes} \subseteq Nat
  /\ {Attempts, MaxDraft} \subseteq Nat \ {0}
  /\ HasCron \in BOOLEAN
  /\ Requests \subseteq RequestKinds
  /\ Faults \subseteq FaultKinds

Dev  == {"development"} \X (1..MaxDev)
Prod == {"production"} \X (1..MaxProd)

Envs     == {"development", "production"}
Projects == Dev \cup Prod
Parts    == Endpoints \cup {Schedule}

ASSUME NamesAssumption ==
  /\ Schedule \notin Endpoints
  /\ None \notin Projects \cup Workers

EnvOf(p)     == p[1]
VersionOf(p) == p[2]

Ref    == Projects \cup {None}
Built  == 0..MaxDraft          \* 0: the empty snapshot {} of a new row

VARIABLES
  status,     \* ProjectDeployment.status, "none" before the row exists
  completed,  \* ProjectDeployment.completedAt is set
  source,     \* ProjectDeployment.sourceProjectDeploymentId
  frozen,     \* ProjectDeployment.snapshot, per part
  child,      \* status of the Deployment and ScheduleDeployment rows
  content,    \* snapshot of the Deployment and ScheduleDeployment rows
  pointer,    \* Environment.activeProjectDeploymentId
  epActive,   \* the Project deployment of RuntimeEndpoint.activeDeploymentId
  epStatus,   \* RuntimeEndpoint.status
  archived,   \* Project.status = "archived"
  draft,      \* latest revision of the Project's drafts
  job,        \* BullMQ's record of every build job
  worker,     \* what every execution slot is doing
  op,         \* what every control-plane request is doing
  crashes     \* crashes and lost locks so far

rows == <<status, completed, source, frozen, child, content,
          pointer, epActive, epStatus, archived>>
vars == <<rows, draft, job, worker, op, crashes>>

RowStatus == {"queued", "building", "deploying", "active", "failed", "rolled_back"}

NoJob == [state |-> "none", made |-> 0, stalls |-> 0, owner |-> None]
Job   == [state : {"none", "waiting", "active", "completed", "failed"},
          made : 0..Attempts, stalls : 0..MaxStalls, owner : Workers \cup {None}]

Resting == [pc |-> "idle", id |-> None, part |-> Schedule, seen |-> 0, final |-> FALSE]
Slot    == [pc : {"idle", "claimed", "resolved", "bundling", "stored", "done",
                  "failing", "failed", "rejected"},
            id : Ref, part : Parts, seen : Built, final : BOOLEAN]

NoOp    == [kind |-> "idle", id |-> None, live |-> None, source |-> None,
            parts |-> {}, known |-> {}, copy |-> [x \in Parts |-> 0]]
Request == [kind : {"idle", "deploy", "enqueue", "rollback", "sourced", "release", "enable"},
            id : Ref, live : Ref, source : Ref,
            parts : SUBSET Parts, known : SUBSET Projects, copy : [Parts -> Built]]

RowsTypeOK ==
  /\ status \in [Projects -> RowStatus \cup {"none"}]
  /\ completed \in [Projects -> BOOLEAN]
  /\ source \in [Projects -> Ref]
  /\ frozen \in [Projects -> [Parts -> Built]]
  /\ child \in [Projects -> [Parts -> RowStatus \cup {"absent"}]]
  /\ content \in [Projects -> [Parts -> Built]]
  /\ pointer \in [Envs -> Ref]
  /\ epActive \in [Endpoints -> Ref]
  /\ epStatus \in [Endpoints -> {"draft", "deployed", "disabled"}]
  /\ archived \in BOOLEAN

TypeOK ==
  /\ RowsTypeOK
  /\ draft \in Built
  /\ job \in [Projects -> [Parts -> Job]]
  /\ worker \in [Workers -> Slot]
  /\ op \in [Operators -> Request]
  /\ crashes \in 0..MaxCrashes

Init ==
  /\ status = [p \in Projects |-> "none"]
  /\ completed = [p \in Projects |-> FALSE]
  /\ source = [p \in Projects |-> None]
  /\ frozen = [p \in Projects |-> [x \in Parts |-> 0]]
  /\ child = [p \in Projects |-> [x \in Parts |-> "absent"]]
  /\ content = [p \in Projects |-> [x \in Parts |-> 0]]
  /\ pointer = [v \in Envs |-> None]
  /\ epActive = [e \in Endpoints |-> None]
  /\ epStatus = [e \in Endpoints |-> "draft"]
  /\ archived = FALSE
  /\ draft = 1
  /\ job = [p \in Projects |-> [x \in Parts |-> NoJob]]
  /\ worker = [w \in Workers |-> Resting]
  /\ op = [o \in Operators |-> NoOp]
  /\ crashes = 0

Present(p) == {x \in Parts : child[p][x] # "absent"}

(* _max(version) + 1 over the environment's rows *)
IsNextVersion(p) ==
  \A q \in Projects : EnvOf(q) = EnvOf(p) =>
    ((status[q] = "none") <=> (VersionOf(q) >= VersionOf(p)))

-----------------------------------------------------------------------------
(* Control-plane requests.  Each reads outside its transaction and then    *)
(* writes in it, so another request or a worker may act in between.        *)

(* A Function, binding or setting is saved in the editor *)
SaveDraft ==
  /\ draft < MaxDraft
  /\ draft' = draft + 1
  /\ UNCHANGED <<rows, job, worker, op, crashes>>

Deployable == {e \in Endpoints : epStatus[e] # "disabled"}

DeployRead(o) ==
  /\ "deploy" \in Requests
  /\ op[o].kind = "idle"
  /\ Deployable # {} \/ HasCron
  /\ \E p \in Dev :
       /\ IsNextVersion(p)
       /\ op' = [op EXCEPT ![o] = [NoOp EXCEPT !.kind = "deploy", !.id = p,
                                    !.parts = Deployable \cup {Schedule},
                                    !.known = {q \in Projects : status[q] # "none"}]]
  /\ UNCHANGED <<rows, draft, job, worker, crashes>>

(* The unique (project, environment, version) and (endpoint, version) keys  *)
(* abort a request when another one created a row of the same deployment or *)
(* endpoint since it computed the versions.                                 *)
VersionsFree(o) ==
  /\ status[op[o].id] = "none"
  /\ \A q \in Projects \ op[o].known : Present(q) \cap op[o].parts \cap Endpoints = {}

DeployCommit(o) ==
  /\ op[o].kind = "deploy"
  /\ LET p == op[o].id IN
       \/ /\ VersionsFree(o)
          /\ status' = [status EXCEPT ![p] = "queued"]
          /\ child' = [child EXCEPT ![p] =
                         [x \in Parts |-> IF x \in op[o].parts THEN "queued" ELSE "absent"]]
          /\ op' = [op EXCEPT ![o].kind = "enqueue", ![o].known = {}]
       \/ /\ ~VersionsFree(o)
          /\ op' = [op EXCEPT ![o] = NoOp]
          /\ UNCHANGED <<status, child>>
  /\ UNCHANGED <<completed, source, frozen, content, pointer, epActive, epStatus,
                 archived, draft, job, worker, crashes>>

(* After the transaction: deploymentQueue.add, endpoints first.  A job id    *)
(* that exists is not added again.                                           *)
Enqueue(o, x) ==
  /\ op[o].kind = "enqueue"
  /\ x \in op[o].parts
  /\ x = Schedule => op[o].parts = {Schedule}
  /\ job' = [job EXCEPT ![op[o].id][x].state = IF @ = "none" THEN "waiting" ELSE @]
  /\ op' = [op EXCEPT ![o] = IF x = Schedule THEN NoOp
                             ELSE [op[o] EXCEPT !.parts = @ \ {x}]]
  /\ UNCHANGED <<rows, draft, worker, crashes>>

(* Mutant: failed deployments are offered as rollback targets too *)
RollbackTargetOrFailed(p) == status[p] \in {"rolled_back", "failed"}
RollbackTarget(p) == status[p] = "rolled_back"

RollbackRead(o) ==
  /\ "rollback" \in Requests
  /\ op[o].kind = "idle"
  /\ \E p \in Projects :
       /\ RollbackTarget(p)
       /\ op' = [op EXCEPT ![o] = [NoOp EXCEPT !.kind = "rollback", !.id = p,
                                    !.live = pointer[EnvOf(p)],
                                    !.parts = Present(p)]]
  /\ UNCHANGED <<rows, draft, job, worker, crashes>>

(* Mutant: the restored deployment's artifacts keep saying rolled_back *)
RetireOnly(old, new) ==
  [p \in Projects |->
     [x \in Parts |-> IF child[p][x] # "absent" /\ p = old THEN "rolled_back"
                      ELSE child[p][x]]]

(* The deployment the request saw as live becomes rolled_back with all its *)
(* artifacts, the new one active with all of its own.                      *)
RetireThenActivate(old, new) ==
  [p \in Projects |->
     [x \in Parts |-> IF child[p][x] = "absent" THEN "absent"
                      ELSE IF p = new THEN "active"
                      ELSE IF p = old THEN "rolled_back"
                      ELSE child[p][x]]]

RestoredEndpoints(o) ==
  IF EnvOf(op[o].id) = "development" THEN op[o].parts \cap Endpoints ELSE {}

RollbackTransaction(o, moved) ==
  /\ op[o].kind = "rollback"
  /\ LET target == op[o].id
         old == op[o].live
     IN  /\ status' = [p \in Projects |-> IF p = target THEN "active"
                                          ELSE IF p = old THEN "rolled_back"
                                          ELSE status[p]]
         /\ child' = RetireThenActivate(old, target)
         /\ pointer' = [pointer EXCEPT ![EnvOf(target)] = target]
         /\ epActive' = [e \in Endpoints |-> IF e \in moved THEN target ELSE epActive[e]]
         /\ epStatus' = [e \in Endpoints |-> IF e \in moved THEN "deployed" ELSE epStatus[e]]
  /\ op' = [op EXCEPT ![o] = NoOp]
  /\ UNCHANGED <<completed, source, frozen, content, archived, draft, job, worker, crashes>>

(* Mutant: only the environment's pointer moves *)
RollbackPointerOnly(o) == RollbackTransaction(o, {})
RollbackCommit(o) == RollbackTransaction(o, RestoredEndpoints(o))

(* Mutant: the status of the source is not checked *)
ReleaseSourceUnchecked(s) == status[s] # "none"
ReleaseSource(s) == status[s] = "active"

(* The source and its artifacts, the live production deployment and an     *)
(* earlier release of the same source are read first ...                   *)
ReleaseRead(o) ==
  /\ "release" \in Requests
  /\ op[o].kind = "idle"
  /\ \E s \in Dev :
       /\ ReleaseSource(s)
       /\ \A p \in Prod : source[p] # s
       /\ op' = [op EXCEPT ![o] = [NoOp EXCEPT !.kind = "sourced", !.source = s,
                                    !.live = pointer["production"],
                                    !.parts = Present(s), !.copy = content[s]]]
  /\ UNCHANGED <<rows, draft, job, worker, crashes>>

(* ... and the next production version after them. *)
ReleaseVersion(o) ==
  /\ op[o].kind = "sourced"
  /\ \E p \in Prod :
       /\ IsNextVersion(p)
       /\ op' = [op EXCEPT ![o].kind = "release", ![o].id = p]
  /\ UNCHANGED <<rows, draft, job, worker, crashes>>

ReleaseCommit(o) ==
  /\ op[o].kind = "release"
  /\ status[op[o].id] = "none"
  /\ LET new == op[o].id
         old == op[o].live
     IN  /\ status' = [p \in Projects |-> IF p = new THEN "active"
                                          ELSE IF p = old THEN "rolled_back"
                                          ELSE status[p]]
         /\ child' = [RetireThenActivate(old, new) EXCEPT ![new] =
                        [x \in Parts |-> IF x \in op[o].parts \cup {Schedule}
                                         THEN "active" ELSE "absent"]]
         /\ completed' = [completed EXCEPT ![new] = TRUE]
         /\ source' = [source EXCEPT ![new] = op[o].source]
         /\ content' = [content EXCEPT ![new] = op[o].copy]
         /\ frozen' = [frozen EXCEPT ![new] = op[o].copy]
         /\ pointer' = [pointer EXCEPT !["production"] = new]
  /\ op' = [op EXCEPT ![o] = NoOp]
  /\ UNCHANGED <<epActive, epStatus, archived, draft, job, worker, crashes>>

(* Two releases that computed the same version: the second one aborts *)
ReleaseAbort(o) ==
  /\ op[o].kind = "release"
  /\ status[op[o].id] # "none"
  /\ op' = [op EXCEPT ![o] = NoOp]
  /\ UNCHANGED <<rows, draft, job, worker, crashes>>

EnableRead(o, e) ==
  /\ "enable" \in Requests
  /\ op[o].kind = "idle"
  /\ op' = [op EXCEPT ![o] = [NoOp EXCEPT !.kind = "enable", !.parts = {e},
                               !.live = epActive[e]]]
  /\ UNCHANGED <<rows, draft, job, worker, crashes>>

EnableCommit(o) ==
  /\ op[o].kind = "enable"
  /\ epStatus' = [e \in Endpoints |->
                    IF e \notin op[o].parts THEN epStatus[e]
                    ELSE IF op[o].live = None THEN "draft" ELSE "deployed"]
  /\ op' = [op EXCEPT ![o] = NoOp]
  /\ UNCHANGED <<status, completed, source, frozen, child, content, pointer,
                 epActive, archived, draft, job, worker, crashes>>

Disable(e) ==
  /\ "disable" \in Requests
  /\ epStatus[e] # "disabled"
  /\ epStatus' = [epStatus EXCEPT ![e] = "disabled"]
  /\ UNCHANGED <<status, completed, source, frozen, child, content, pointer,
                 epActive, archived, draft, job, worker, op, crashes>>

(* From a session that has another Project selected *)
Archive ==
  /\ "archive" \in Requests
  /\ ~archived
  /\ archived' = TRUE
  /\ epStatus' = [e \in Endpoints |-> "disabled"]
  /\ UNCHANGED <<status, completed, source, frozen, child, content, pointer,
                 epActive, draft, job, worker, op, crashes>>

(* A crash between the transaction and the last queue.add loses the rest *)
RequestCrash(o) ==
  /\ "apiCrash" \in Faults
  /\ crashes < MaxCrashes
  /\ op[o].kind # "idle"
  /\ op' = [op EXCEPT ![o] = NoOp]
  /\ crashes' = crashes + 1
  /\ UNCHANGED <<rows, draft, job, worker>>

-----------------------------------------------------------------------------
(* finalizeProjectDeployment: one serializable transaction.                *)

(* Mutant: one stored artifact is taken for all of them *)
ReadinessOfAny(p) ==
  LET statuses == {child[p][x] : x \in Present(p)}
  IN  IF "failed" \in statuses THEN "failed"
      ELSE IF "deploying" \in statuses THEN "ready"
      ELSE "waiting"

Readiness(p) ==
  LET statuses == {child[p][x] : x \in Present(p)}
  IN  IF "failed" \in statuses THEN "failed"
      ELSE IF statuses = {"deploying"} THEN "ready"
      ELSE "waiting"

LeaveProject(p) ==
  /\ \/ completed[p]
     \/ Readiness(p) = "waiting"
     \/ Readiness(p) = "ready" /\ status[p] \notin {"queued", "building"}
  /\ UNCHANGED rows

(* Mutant: the update of a failed deployment lost "completedAt: null" *)
FailCompleted(p) ==
  /\ Readiness(p) = "failed"
  /\ status' = [status EXCEPT ![p] = "failed"]
  /\ completed' = [completed EXCEPT ![p] = TRUE]
  /\ UNCHANGED <<source, frozen, child, content, pointer, epActive, epStatus, archived>>

FailProject(p) ==
  /\ ~completed[p]
  /\ Readiness(p) = "failed"
  /\ status' = [status EXCEPT ![p] = "failed"]
  /\ completed' = [completed EXCEPT ![p] = TRUE]
  /\ UNCHANGED <<source, frozen, child, content, pointer, epActive, epStatus, archived>>

(* Each endpoint's previous artifact is rolled back as its pointer moves *)
ActivateChildren(p) ==
  [q \in Projects |-> [x \in Parts |->
     IF q = p /\ x \in Present(p) THEN "active"
     ELSE IF x \in Present(p) \cap Endpoints /\ epActive[x] = q THEN "rolled_back"
     ELSE child[q][x]]]

(* Mutant: the previous deployments are looked up by Project alone *)
SupersededAnywhere(p) == {q \in Projects : q # p /\ status[q] = "active"}
Superseded(p) == {q \in Projects : q # p /\ EnvOf(q) = EnvOf(p) /\ status[q] = "active"}

(* Mutant: an endpoint disabled in the meantime is left alone *)
MovedIfEnabled(p) == {e \in Present(p) \cap Endpoints : epStatus[e] # "disabled"}
MovedEndpoints(p) == Present(p) \cap Endpoints

(* Mutant: activation forgets completedAt *)
CompletedBefore(p) == completed
CompletedAfter(p) == [completed EXCEPT ![p] = TRUE]

\* createProjectSnapshot: the artifacts as the job finds them.
Snapshot(p) == content[p]

ActivateProject(p) ==
  /\ ~completed[p]
  /\ Readiness(p) = "ready"
  /\ status[p] \in {"queued", "building"}
  /\ status' = [q \in Projects |->
                  IF q = p THEN "active"
                  ELSE IF q \in Superseded(p) THEN "rolled_back"
                  ELSE status[q]]
  /\ completed' = CompletedAfter(p)
  /\ frozen' = [frozen EXCEPT ![p] = Snapshot(p)]
  /\ pointer' = [pointer EXCEPT ![EnvOf(p)] = p]
  /\ child' = ActivateChildren(p)
  /\ epActive' = [e \in Endpoints |-> IF e \in MovedEndpoints(p) THEN p ELSE epActive[e]]
  /\ epStatus' = [e \in Endpoints |->
                    IF e \in MovedEndpoints(p) THEN "deployed" ELSE epStatus[e]]
  /\ UNCHANGED <<source, content, archived>>

Finalize(p) == LeaveProject(p) \/ FailProject(p) \/ ActivateProject(p)

-----------------------------------------------------------------------------
(* BullMQ delivers a job at least once: a job whose worker lost its lock   *)
(* goes back to the queue while that worker may still be running.          *)

Runs(w, p, x) == worker[w].pc # "idle" /\ worker[w].id = p /\ worker[w].part = x

TakeJob(w, p, x) ==
  /\ worker[w].pc = "idle"
  /\ job[p][x].state = "waiting"
  /\ job' = [job EXCEPT ![p][x].state = "active", ![p][x].owner = w]
  /\ worker' = [worker EXCEPT ![w] = [pc |-> "claimed", id |-> p, part |-> x, seen |-> 0,
                                      final |-> job[p][x].made + 1 >= Attempts]]
  /\ UNCHANGED <<rows, draft, op, crashes>>

JobStalls(p, x) ==
  /\ job[p][x].state = "active"
  /\ \/ /\ ~Runs(job[p][x].owner, p, x)
        /\ UNCHANGED crashes
     \/ /\ "stall" \in Faults
        /\ crashes < MaxCrashes
        /\ crashes' = crashes + 1
  /\ LET old == job[p][x] IN
       job' = [job EXCEPT ![p][x] =
                 IF old.stalls < MaxStalls
                 THEN [old EXCEPT !.state = "waiting", !.stalls = old.stalls + 1, !.owner = None]
                 ELSE [old EXCEPT !.state = "failed", !.owner = None]]
  /\ UNCHANGED <<rows, draft, worker, op>>

WorkerCrash(w) ==
  /\ "workerCrash" \in Faults
  /\ crashes < MaxCrashes
  /\ worker[w].pc # "idle"
  /\ worker' = [worker EXCEPT ![w] = Resting]
  /\ crashes' = crashes + 1
  /\ UNCHANGED <<rows, draft, job, op>>

(* Settling a job needs its lock; a worker that lost it settles nothing *)
JobCompletes(w) ==
  /\ worker[w].pc = "done"
  /\ LET p == worker[w].id
         x == worker[w].part
     IN  job' = IF job[p][x].owner = w
                THEN [job EXCEPT ![p][x].state = "completed", ![p][x].owner = None]
                ELSE job
  /\ worker' = [worker EXCEPT ![w] = Resting]
  /\ UNCHANGED <<rows, draft, op, crashes>>

AttemptsSpent(made) == made >= Attempts

JobRejects(w) ==
  /\ worker[w].pc = "rejected"
  /\ LET p == worker[w].id
         x == worker[w].part
         old == job[p][x]
         made == old.made + 1
     IN  job' = IF old.owner = w
                THEN [job EXCEPT ![p][x] =
                        [old EXCEPT !.made = made, !.owner = None,
                                    !.state = IF AttemptsSpent(made) THEN "failed" ELSE "waiting"]]
                ELSE job
  /\ worker' = [worker EXCEPT ![w] = Resting]
  /\ UNCHANGED <<rows, draft, op, crashes>>

-----------------------------------------------------------------------------
(* buildDeployment and buildScheduleDeployment.                            *)

Goto(w, pc) == worker' = [worker EXCEPT ![w].pc = pc]

MarkProjectBuilding(p) ==
  status' = [status EXCEPT ![p] = IF @ = "queued" THEN "building" ELSE @]

SetChild(w, to) == child' = [child EXCEPT ![worker[w].id][worker[w].part] = to]

(* The Project leaves "queued", then the drafts are read *)
ResolveEndpoint(w) ==
  /\ worker[w].pc = "claimed"
  /\ worker[w].part # Schedule
  /\ MarkProjectBuilding(worker[w].id)
  /\ worker' = [worker EXCEPT ![w].pc = "resolved", ![w].seen = draft]
  /\ UNCHANGED <<completed, source, frozen, child, content, pointer, epActive,
                 epStatus, archived, draft, job, op, crashes>>

MarkEndpointBuilding(w) ==
  /\ worker[w].pc = "resolved"
  /\ SetChild(w, "building")
  /\ Goto(w, "bundling")
  /\ UNCHANGED <<status, completed, source, frozen, content, pointer, epActive,
                 epStatus, archived, draft, job, op, crashes>>

ResolveSchedule(w) ==
  /\ worker[w].pc = "claimed"
  /\ worker[w].part = Schedule
  /\ SetChild(w, "building")
  /\ MarkProjectBuilding(worker[w].id)
  /\ worker' = [worker EXCEPT ![w].pc = "bundling", ![w].seen = draft]
  /\ UNCHANGED <<completed, source, frozen, content, pointer, epActive,
                 epStatus, archived, draft, job, op, crashes>>

(* storeDeploymentArtifact, or the schedule's own update: whatever the row's *)
(* status was.                                                               *)
StoreArtifact(w) ==
  /\ worker[w].pc = "bundling"
  /\ content' = [content EXCEPT ![worker[w].id][worker[w].part] = worker[w].seen]
  /\ SetChild(w, "deploying")
  /\ Goto(w, "stored")
  /\ UNCHANGED <<status, completed, source, frozen, pointer, epActive,
                 epStatus, archived, draft, job, op, crashes>>

(* Mutant: a worker that lost its lock leaves activation to the other one *)
FinalizeIfOwner(w) ==
  /\ worker[w].pc = "stored"
  /\ IF job[worker[w].id][worker[w].part].owner = w THEN Finalize(worker[w].id)
     ELSE UNCHANGED rows
  /\ Goto(w, "done")
  /\ UNCHANGED <<draft, job, op, crashes>>

FinalizeArtifact(w) ==
  /\ worker[w].pc = "stored"
  /\ Finalize(worker[w].id)
  /\ Goto(w, "done")
  /\ UNCHANGED <<draft, job, op, crashes>>

(* An endpoint build whose artifact is stored leaves the failure to a later *)
(* attempt, a schedule build never does.                                    *)
AfterFinalizeError(w) ==
  IF worker[w].part = Schedule \/ worker[w].final THEN "failing" ELSE "rejected"

FinalizeFails(w) ==
  /\ worker[w].pc = "stored"
  /\ Goto(w, AfterFinalizeError(w))
  /\ \/ "dbError" \in Faults /\ UNCHANGED rows
     \/ "lostAck" \in Faults /\ Finalize(worker[w].id)
  /\ UNCHANGED <<draft, job, op, crashes>>

(* Validation, bundling or a query throws; the first queries do so before   *)
(* or inside the try that records the failure.                              *)
BuildFails(w) ==
  /\ \/ worker[w].pc \in {"resolved", "bundling"} /\ Goto(w, "failing")
     \/ /\ "dbError" \in Faults /\ worker[w].pc = "claimed"
        /\ \E pc \in {"failing", "rejected"} : Goto(w, pc)
  /\ UNCHANGED <<rows, draft, job, op, crashes>>

(* The transaction that records the failure may throw itself. *)
MarkFailed(w) ==
  /\ worker[w].pc = "failing"
  /\ \/ SetChild(w, "failed") /\ Goto(w, "failed")
     \/ "dbError" \in Faults /\ UNCHANGED child /\ Goto(w, "rejected")
     \/ "lostAck" \in Faults /\ SetChild(w, "failed") /\ Goto(w, "rejected")
  /\ UNCHANGED <<status, completed, source, frozen, content, pointer, epActive,
                 epStatus, archived, draft, job, op, crashes>>

(* Mutant: a failed artifact does not finalize its deployment *)
FailureNotFinalized(w) ==
  /\ worker[w].pc = "failed"
  /\ Goto(w, "rejected")
  /\ UNCHANGED <<rows, draft, job, op, crashes>>

FinalizeFailure(w) ==
  /\ worker[w].pc = "failed"
  /\ \/ Finalize(worker[w].id)
     \/ "dbError" \in Faults /\ UNCHANGED rows
  /\ Goto(w, "rejected")
  /\ UNCHANGED <<draft, job, op, crashes>>

-----------------------------------------------------------------------------
RequestStep(o) ==
  \/ DeployRead(o) \/ DeployCommit(o)
  \/ \E x \in Parts : Enqueue(o, x)
  \/ RollbackRead(o) \/ RollbackCommit(o)
  \/ ReleaseRead(o) \/ ReleaseVersion(o) \/ ReleaseCommit(o) \/ ReleaseAbort(o)
  \/ \E e \in Endpoints : EnableRead(o, e)
  \/ EnableCommit(o)
  \/ RequestCrash(o)

BuildStep(w) ==
  \/ ResolveEndpoint(w) \/ MarkEndpointBuilding(w) \/ ResolveSchedule(w)
  \/ StoreArtifact(w) \/ FinalizeArtifact(w) \/ FinalizeFails(w)
  \/ BuildFails(w) \/ MarkFailed(w) \/ FinalizeFailure(w)
  \/ JobCompletes(w) \/ JobRejects(w)

QueueStep ==
  \/ \E w \in Workers, p \in Dev, x \in Parts : TakeJob(w, p, x)
  \/ \E p \in Dev, x \in Parts : JobStalls(p, x)
  \/ \E w \in Workers : WorkerCrash(w)

Next ==
  \/ SaveDraft
  \/ \E o \in Operators : RequestStep(o)
  \/ \E e \in Endpoints : Disable(e)
  \/ Archive
  \/ QueueStep
  \/ \E w \in Workers : BuildStep(w)

Spec == Init /\ [][Next]_vars

(* A worker process runs its steps, BullMQ delivers waiting jobs and returns *)
(* the jobs of dead workers, an accepted request runs on.  Nobody is obliged *)
(* to start a request, and faults are never forced.                          *)
Fairness ==
  /\ \A w \in Workers : WF_vars(BuildStep(w))
  /\ WF_vars(\E w \in Workers, p \in Dev, x \in Parts : TakeJob(w, p, x))
  /\ \A p \in Dev, x \in Parts :
       WF_vars(JobStalls(p, x) /\ ~Runs(job[p][x].owner, p, x))
  /\ \A o \in Operators : WF_vars(DeployCommit(o))
  /\ \A o \in Operators, x \in Parts : WF_vars(Enqueue(o, x))

FairSpec == Spec /\ Fairness

-----------------------------------------------------------------------------
(* The environment's pointer names a deployment whose row says active,      *)
(* whatever requests and activations race: every statement that moves a     *)
(* pointer or retires a deployment may act on a stale reading of it         *)
(* (routes-deployment-history.ts, routes-deployment-release.ts,             *)
(* project-deployment.ts).                                                  *)
LiveIsActive ==
  \A v \in Envs : pointer[v] # None => status[pointer[v]] = "active"

(* What an environment points at is complete: every artifact was built      *)
(* before activation and is part of the frozen snapshot, although jobs are  *)
(* delivered repeatedly and artifacts move back to building and failed.     *)
LiveIsFullyBuilt ==
  \A v \in Envs : pointer[v] # None =>
    LET p == pointer[v] IN
      /\ completed[p]
      /\ \A x \in Present(p) : frozen[p][x] # 0 /\ content[p][x] # 0

(* A deployment with a failed artifact leaves what is served alone: neither *)
(* an environment nor an endpoint ever refers to a failed or an unfinished  *)
(* deployment.                                                              *)
OnlyActivatedServed ==
  /\ \A v \in Envs : pointer[v] # None => status[pointer[v]] # "failed"
  /\ \A e \in Endpoints : epActive[e] # None =>
       completed[epActive[e]] /\ status[epActive[e]] \in {"active", "rolled_back"}

(* The endpoints of the live development deployment all serve its own       *)
(* artifacts: finalization and rollback move the pointers together, also    *)
(* when one overtakes the other.                                            *)
PointersAgree ==
  LET p == pointer["development"] IN
    p # None => \A e \in Present(p) \cap Endpoints : epActive[e] = p

(* Activation is atomic at the Project level: a step that moves one         *)
(* endpoint to a deployment moves the environment and every other endpoint  *)
(* of that deployment to it.                                                *)
MovesTogether ==
  \A p \in Dev :
    (\E e \in Endpoints : epActive[e] # p /\ epActive'[e] = p) =>
      /\ pointer'["development"] = p
      /\ \A e \in Present(p)' \cap Endpoints : epActive'[e] = p
AtomicActivation == [][MovesTogether]_vars

(* With jobs delivered once, what an environment serves is what was frozen  *)
(* at activation and all of its artifacts say active.                       *)
ArtifactsMatchLive ==
  \A v \in Envs : pointer[v] # None =>
    LET p == pointer[v] IN
      \A x \in Present(p) : child[p][x] = "active" /\ content[p][x] = frozen[p][x]

(* With jobs delivered once, a release promotes exactly the artifacts that  *)
(* were activated in development.                                           *)
ReleasePromotesActivated ==
  \A p \in Prod : status[p] # "none" =>
    /\ completed[source[p]]
    /\ \A x \in Present(p) : frozen[p][x] = frozen[source[p]][x]

(* Every accepted deployment ends active or failed: the worker that settles *)
(* the last artifact always finalizes, and a job whose worker died or lost  *)
(* its lock is delivered again.                                             *)
DeploymentSettles ==
  \A p \in Dev : status[p] # "none" ~> completed[p]

(* The deployment's public face implements the ledger: its fate, the frozen *)
(* snapshot and the environment pointers.                                   *)
Fate == [p \in Projects |->
           IF status[p] = "none" THEN "unborn"
           ELSE IF ~completed[p] THEN "pending"
           ELSE IF status[p] = "failed" THEN "failed"
           ELSE "sealed"]

Ledger == INSTANCE ActivationLedger
            WITH Contents <- Built, Nothing <- 0,
                 fate <- Fate, sealed <- frozen, live <- pointer

ImplementsLedger == Ledger!Spec

-----------------------------------------------------------------------------
(* What the documentation promises and the code does not keep.              *)

(* "Runtime traffic serves immutable active Function snapshots": the row an *)
(* endpoint serves is not rewritten while it serves it.                     *)
ServedRowStays ==
  \A e \in Endpoints : LET p == epActive[e] IN
    p # None /\ epActive'[e] = p => content'[p][e] = content[p][e]
ServedArtifactImmutable == [][ServedRowStays]_vars
=============================================================================
