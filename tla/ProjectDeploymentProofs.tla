------------------------ MODULE ProjectDeploymentProofs ------------------------
(* Theorems about ProjectDeployment, for every value of its constants. *)
EXTENDS ProjectDeployment, TLAPS

(* An unfinished job has an attempt left, and only a running job has *)
(* an owner: what keeps the attempt counter within its bound.               *)
JobOK ==
  \A p \in Projects, x \in Parts :
    /\ job[p][x].owner # None => job[p][x].state = "active"
    /\ job[p][x].state \in {"none", "waiting", "active"} => job[p][x].made < Attempts

TypeInv == TypeOK /\ JobOK

LEMMA ConstantFacts ==
  /\ None \notin Projects /\ None \notin Workers
  /\ Dev \subseteq Projects /\ Prod \subseteq Projects
  /\ \A p \in Projects : EnvOf(p) \in Envs
  /\ \A p \in Dev : EnvOf(p) = "development"
  /\ \A p \in Prod : EnvOf(p) = "production"
  /\ Schedule \in Parts /\ Endpoints \subseteq Parts
  /\ None \in Ref /\ Projects \subseteq Ref /\ 0 \in Built
  /\ {"development", "production"} = Envs
  BY NamesAssumption, BoundsAssumption
  DEF Projects, Dev, Prod, EnvOf, Envs, Parts, Ref, Built

LEMMA RecordFacts ==
  /\ NoOp \in Request /\ NoJob \in Job /\ Resting \in Slot
  /\ 1 \in 1..Attempts
  BY ConstantFacts, BoundsAssumption DEF NoOp, Request, NoJob, Job, Resting, Slot

LEMMA InitType == Init => TypeInv
<1> SUFFICES ASSUME Init PROVE TypeInv
  OBVIOUS
<1>1. RowsTypeOK
  BY ConstantFacts DEF Init, RowsTypeOK, RowStatus
<1>2. draft \in Built /\ crashes \in 0..MaxCrashes
  BY BoundsAssumption DEF Init, Built
<1>3. job \in [Projects -> [Parts -> Job]]
  BY RecordFacts DEF Init
<1>4. worker \in [Workers -> Slot] /\ op \in [Operators -> Request]
  BY RecordFacts DEF Init
<1>5. JobOK
  BY BoundsAssumption DEF Init, JobOK, NoJob
<1> QED
  BY <1>1, <1>2, <1>3, <1>4, <1>5 DEF TypeInv, TypeOK

(* The records of requests keep their type. *)
LEMMA RequestUpdate ==
  ASSUME NEW r \in Request, NEW id \in Ref, NEW live \in Ref, NEW src \in Ref,
         NEW ps \in SUBSET Parts, NEW qs \in SUBSET Projects, NEW c \in [Parts -> Built]
  PROVE  /\ \A k \in {"idle", "deploy", "enqueue", "rollback", "sourced", "release", "enable"} :
              [kind |-> k, id |-> id, live |-> live, source |-> src, parts |-> ps,
               known |-> qs, copy |-> c]
                \in Request
         /\ [r EXCEPT !.kind = "enqueue", !.known = {}] \in Request
         /\ [r EXCEPT !.kind = "release", !.id = id] \in Request
         /\ [r EXCEPT !.parts = ps] \in Request
  BY DEF Request

LEMMA RowsKept == RowsTypeOK /\ UNCHANGED rows => RowsTypeOK'
  BY DEF rows, RowsTypeOK

LEMMA JobsKept ==
  TypeInv /\ UNCHANGED job => JobOK' /\ job' \in [Projects -> [Parts -> Job]]
  BY DEF TypeInv, TypeOK, JobOK

(* A single job's record is replaced by a sound one. *)
LEMMA JobUpdate ==
  ASSUME TypeInv, NEW p \in Projects, NEW x \in Parts, NEW r \in Job,
         job' = [job EXCEPT ![p] = [job[p] EXCEPT ![x] = r]],
         r.owner # None => r.state = "active",
         r.state \in {"none", "waiting", "active"} => r.made < Attempts
  PROVE  JobOK' /\ job' \in [Projects -> [Parts -> Job]]
<1>1. job \in [Projects -> [Parts -> Job]] /\ job[p] \in [Parts -> Job]
  BY DEF TypeInv, TypeOK
<1>2. [job[p] EXCEPT ![x] = r] \in [Parts -> Job]
  BY <1>1
<1>3. job' \in [Projects -> [Parts -> Job]]
  BY <1>1, <1>2
<1>4. \A q \in Projects, y \in Parts :
        job'[q][y] = IF q = p /\ y = x THEN r ELSE job[q][y]
  BY <1>1
<1> QED
  BY <1>3, <1>4 DEF TypeInv, JobOK

(* Every write of the op variable stays within Request. *)
LEMMA RequestsTyped ==
  ASSUME TypeInv, NEW o \in Operators, RequestStep(o)
  PROVE  op' \in [Operators -> Request]
<1> USE ConstantFacts, RecordFacts DEF TypeInv, TypeOK
<1>0. op[o] \in Request /\ op \in [Operators -> Request]
  OBVIOUS
<1>1. ASSUME NEW r \in Request, op' = [op EXCEPT ![o] = r]
      PROVE  op' \in [Operators -> Request]
  BY <1>1
<1>2. CASE DeployRead(o)
  <2> PICK p \in Dev :
        op' = [op EXCEPT ![o] = [NoOp EXCEPT !.kind = "deploy", !.id = p,
                !.parts = Deployable \cup {Schedule},
                !.known = {q \in Projects : status[q] # "none"}]]
    BY <1>2 DEF DeployRead
  <2> PICK parts : parts = Deployable \cup {Schedule}
    OBVIOUS
  <2>1. [NoOp EXCEPT !.kind = "deploy", !.id = p, !.parts = parts,
                     !.known = {q \in Projects : status[q] # "none"}] \in Request
    BY DEF NoOp, Request, Deployable
  <2> QED  BY <1>1, <2>1
<1>3. CASE DeployCommit(o)
  <2>1. [op[o] EXCEPT !.kind = "enqueue", !.known = {}] \in Request
    BY <1>0 DEF Request
  <2>2. op' = [op EXCEPT ![o] = [op[o] EXCEPT !.kind = "enqueue", !.known = {}]] \/ op' = [op EXCEPT ![o] = NoOp]
    BY <1>0, <1>3 DEF DeployCommit
  <2> QED  BY <2>1, <2>2, <1>1
<1>4. ASSUME NEW x \in Parts, Enqueue(o, x)
      PROVE  op' \in [Operators -> Request]
  <2> [op[o] EXCEPT !.parts = @ \ {x}] \in Request
    BY <1>0 DEF Request
  <2> QED  BY <1>4 DEF Enqueue
<1>5. CASE RollbackRead(o)
  <2> PICK p \in Projects :
        op' = [op EXCEPT ![o] = [NoOp EXCEPT !.kind = "rollback", !.id = p,
                                  !.live = pointer[EnvOf(p)], !.parts = Present(p)]]
    BY <1>5 DEF RollbackRead
  <2> pointer[EnvOf(p)] \in Ref /\ Present(p) \subseteq Parts
    BY DEF RowsTypeOK, Present
  <2> [NoOp EXCEPT !.kind = "rollback", !.id = p, !.live = pointer[EnvOf(p)],
                   !.parts = Present(p)] \in Request
    BY DEF NoOp, Request
  <2> QED  BY <1>1
<1>6. CASE ReleaseRead(o)
  <2> PICK s \in Dev :
        op' = [op EXCEPT ![o] = [NoOp EXCEPT !.kind = "sourced", !.source = s,
                                  !.live = pointer["production"],
                                  !.parts = Present(s), !.copy = content[s]]]
    BY <1>6 DEF ReleaseRead
  <2> pointer["production"] \in Ref /\ Present(s) \subseteq Parts
        /\ content[s] \in [Parts -> Built]
    BY DEF RowsTypeOK, Present
  <2> [NoOp EXCEPT !.kind = "sourced", !.source = s, !.live = pointer["production"],
                   !.parts = Present(s), !.copy = content[s]] \in Request
    BY DEF NoOp, Request
  <2> QED  BY <1>1
<1>7. CASE ReleaseVersion(o)
  <2> PICK p \in Prod : op' = [op EXCEPT ![o].kind = "release", ![o].id = p]
    BY <1>7 DEF ReleaseVersion
  <2> QED  BY <1>0 DEF Request
<1>8. ASSUME NEW e \in Endpoints, EnableRead(o, e)
      PROVE  op' \in [Operators -> Request]
  <2> epActive[e] \in Ref /\ {e} \subseteq Parts
    BY DEF RowsTypeOK
  <2> [NoOp EXCEPT !.kind = "enable", !.parts = {e}, !.live = epActive[e]] \in Request
    BY DEF NoOp, Request
  <2> QED  BY <1>8, <1>1 DEF EnableRead
<1>9. CASE RollbackCommit(o) \/ ReleaseCommit(o) \/ ReleaseAbort(o) \/ EnableCommit(o)
             \/ RequestCrash(o)
  BY <1>9 DEF RollbackCommit, RollbackTransaction, ReleaseCommit, ReleaseAbort, EnableCommit,
              RequestCrash
<1> QED
  BY <1>2, <1>3, <1>4, <1>5, <1>6, <1>7, <1>8, <1>9 DEF RequestStep

LEMMA RetireTyped ==
  ASSUME RowsTypeOK, NEW old, NEW new
  PROVE  RetireThenActivate(old, new) \in [Projects -> [Parts -> RowStatus \cup {"absent"}]]
  BY DEF RetireThenActivate, RowsTypeOK, RowStatus

(* A request's transaction keeps every row well typed. *)
LEMMA RequestRowsTyped ==
  ASSUME TypeInv, NEW o \in Operators, RequestStep(o)
  PROVE  RowsTypeOK'
<1> USE ConstantFacts DEF TypeInv, TypeOK
<1>1. CASE DeployCommit(o)
  <2> DEFINE p == op[o].id
             new == [x \in Parts |-> IF x \in op[o].parts THEN "queued" ELSE "absent"]
  <2>1. new \in [Parts -> RowStatus \cup {"absent"}]
    BY DEF RowStatus
  <2>2. CASE status' = [status EXCEPT ![p] = "queued"] /\ child' = [child EXCEPT ![p] = new]
    <3> HIDE DEF new, p
    <3>1. "queued" \in RowStatus
      BY DEF RowStatus
    <3>2. /\ status' \in [Projects -> RowStatus \cup {"none"}]
          /\ child' \in [Projects -> [Parts -> RowStatus \cup {"absent"}]]
      BY <2>1, <2>2, <3>1 DEF RowsTypeOK
    <3> QED  BY <1>1, <3>2 DEF DeployCommit, RowsTypeOK
  <2>3. CASE UNCHANGED <<status, child>>
    BY <1>1, <2>3 DEF DeployCommit, RowsTypeOK
  <2> QED  BY <1>1, <2>2, <2>3 DEF DeployCommit
<1>2. CASE RollbackCommit(o)
  <2>1. op[o].kind = "rollback" /\ op[o].id \in Ref
    BY <1>2 DEF RollbackCommit, RollbackTransaction, Request
  <2>2. status' \in [Projects -> RowStatus \cup {"none"}]
    BY <1>2 DEF RollbackCommit, RollbackTransaction, RowsTypeOK, RowStatus
  <2>3. child' \in [Projects -> [Parts -> RowStatus \cup {"absent"}]]
    BY <1>2, RetireTyped DEF RollbackCommit, RollbackTransaction
  <2>4. pointer' \in [Envs -> Ref] /\ epActive' \in [Endpoints -> Ref]
    BY <1>2, <2>1 DEF RollbackCommit, RollbackTransaction, RowsTypeOK
  <2>5. epStatus' \in [Endpoints -> {"draft", "deployed", "disabled"}]
    BY <1>2 DEF RollbackCommit, RollbackTransaction, RowsTypeOK
  <2> QED
    BY <1>2, <2>2, <2>3, <2>4, <2>5 DEF RollbackCommit, RollbackTransaction, RowsTypeOK
<1>3. CASE ReleaseCommit(o)
  <2>1. op[o].id \in Ref /\ op[o].source \in Ref /\ op[o].copy \in [Parts -> Built]
    BY <1>3 DEF Request
  <2>2. status' \in [Projects -> RowStatus \cup {"none"}]
    BY <1>3 DEF ReleaseCommit, RowsTypeOK, RowStatus
  <2>3. child' \in [Projects -> [Parts -> RowStatus \cup {"absent"}]]
    BY <1>3, RetireTyped DEF ReleaseCommit, RowStatus
  <2>4. /\ completed' \in [Projects -> BOOLEAN] /\ source' \in [Projects -> Ref]
        /\ content' \in [Projects -> [Parts -> Built]]
        /\ frozen' \in [Projects -> [Parts -> Built]]
        /\ pointer' \in [Envs -> Ref]
    BY <1>3, <2>1 DEF ReleaseCommit, RowsTypeOK
  <2> QED
    BY <1>3, <2>2, <2>3, <2>4 DEF ReleaseCommit, RowsTypeOK
<1>4. CASE EnableCommit(o)
  BY <1>4 DEF EnableCommit, RowsTypeOK
<1>5. CASE UNCHANGED rows
  BY <1>5, RowsKept
<1> QED
  BY <1>1, <1>2, <1>3, <1>4, <1>5
  DEF RequestStep, DeployRead, Enqueue, RollbackRead, ReleaseRead, ReleaseVersion,
      ReleaseAbort, EnableRead, RequestCrash

LEMMA RequestType ==
  ASSUME TypeInv, NEW o \in Operators, RequestStep(o)
  PROVE  TypeInv'
<1>1. RowsTypeOK' /\ op' \in [Operators -> Request]
  BY RequestRowsTyped, RequestsTyped
<1>2. draft' \in Built /\ worker' \in [Workers -> Slot] /\ crashes' \in 0..MaxCrashes
  <2>1. CASE RequestCrash(o)
    BY <2>1, BoundsAssumption DEF RequestCrash, TypeInv, TypeOK
  <2>2. CASE UNCHANGED <<draft, worker, crashes>>
    BY <2>2 DEF TypeInv, TypeOK
  <2> QED
    BY <2>1, <2>2 DEF TypeInv, TypeOK, RequestStep, DeployRead, DeployCommit, Enqueue, RollbackRead,
      RollbackCommit, RollbackTransaction, ReleaseRead, ReleaseVersion, ReleaseCommit,
      ReleaseAbort, EnableRead, EnableCommit, RequestCrash
<1>3. JobOK' /\ job' \in [Projects -> [Parts -> Job]]
  <2>1. CASE UNCHANGED job
    BY <2>1, JobsKept
  <2>2. ASSUME NEW x \in Parts, Enqueue(o, x)
        PROVE  JobOK' /\ job' \in [Projects -> [Parts -> Job]]
    <3>1. CASE op[o].id \in Projects
      <4> DEFINE p == op[o].id
                 old == job[p][x]
                 new == [old EXCEPT !.state = IF @ = "none" THEN "waiting" ELSE @]
      <4>1. old \in Job /\ job \in [Projects -> [Parts -> Job]]
        BY <3>1 DEF TypeInv, TypeOK
      <4>2. new \in Job /\ new.made = old.made /\ new.owner = old.owner
        BY <4>1 DEF Job
      <4>3. job' = [job EXCEPT ![p] = [job[p] EXCEPT ![x] = new]]
        BY <2>2, <3>1, <4>1 DEF Enqueue
      <4>4. /\ new.owner # None => new.state = "active"
            /\ new.state \in {"none", "waiting", "active"} => new.made < Attempts
        BY <4>1, <4>2, <3>1 DEF TypeInv, JobOK, Job
      <4> HIDE DEF new
      <4> QED  BY <4>2, <4>3, <4>4, <3>1, JobUpdate
    <3>2. CASE op[o].id \notin Projects
      BY <3>2, <2>2, JobsKept DEF Enqueue, TypeInv, TypeOK, JobOK
    <3> QED  BY <3>1, <3>2
  <2> QED
    BY <2>1, <2>2
    DEF RequestStep, DeployRead, DeployCommit, RollbackRead,
        RollbackCommit, RollbackTransaction, ReleaseRead, ReleaseVersion, ReleaseCommit,
        ReleaseAbort, EnableRead, EnableCommit, RequestCrash
<1> QED  BY <1>1, <1>2, <1>3 DEF TypeInv, TypeOK

(* finalizeProjectDeployment keeps every row well typed. *)
LEMMA FinalizeTyped ==
  ASSUME TypeInv, NEW p \in Ref, Finalize(p)
  PROVE  RowsTypeOK'
<1> USE ConstantFacts DEF TypeInv, TypeOK
<1>1. CASE LeaveProject(p)
  BY <1>1, RowsKept DEF LeaveProject
<1>2. CASE FailProject(p)
  BY <1>2 DEF FailProject, RowsTypeOK, RowStatus
<1>3. CASE ActivateProject(p)
  <2>1. status' \in [Projects -> RowStatus \cup {"none"}]
    BY <1>3 DEF ActivateProject, RowsTypeOK, RowStatus
  <2>2. child' \in [Projects -> [Parts -> RowStatus \cup {"absent"}]]
    BY <1>3 DEF ActivateProject, ActivateChildren, RowsTypeOK, RowStatus
  <2>3. frozen' \in [Projects -> [Parts -> Built]] /\ completed' \in [Projects -> BOOLEAN]
    BY <1>3 DEF ActivateProject, CompletedAfter, Snapshot, RowsTypeOK
  <2>4. /\ pointer' \in [Envs -> Ref]
        /\ epActive' \in [Endpoints -> Ref]
        /\ epStatus' \in [Endpoints -> {"draft", "deployed", "disabled"}]
    BY <1>3 DEF ActivateProject, RowsTypeOK
  <2> QED
    BY <1>3, <2>1, <2>2, <2>3, <2>4 DEF ActivateProject, RowsTypeOK
<1> QED
  BY <1>1, <1>2, <1>3 DEF Finalize

(* What a build step does to the rows. *)
LEMMA BuildRowsTyped ==
  ASSUME TypeInv, NEW w \in Workers, BuildStep(w)
  PROVE  RowsTypeOK'
<1> DEFINE p == worker[w].id
<1> USE ConstantFacts DEF TypeInv, TypeOK
<1>0. worker[w] \in Slot /\ p \in Ref /\ worker[w].part \in Parts /\ worker[w].seen \in Built
  BY DEF Slot
<1>1. ASSUME NEW to \in RowStatus, SetChild(w, to)
      PROVE  child' \in [Projects -> [Parts -> RowStatus \cup {"absent"}]]
  BY <1>1 DEF SetChild, RowsTypeOK
<1>2. ASSUME MarkProjectBuilding(p)
      PROVE  status' \in [Projects -> RowStatus \cup {"none"}]
  BY <1>2 DEF MarkProjectBuilding, RowsTypeOK, RowStatus
<1>3. "building" \in RowStatus /\ "deploying" \in RowStatus /\ "failed" \in RowStatus
  BY DEF RowStatus
<1>4. CASE ResolveEndpoint(w)
  BY <1>2, <1>4 DEF ResolveEndpoint, RowsTypeOK
<1>5. CASE MarkEndpointBuilding(w)
  BY <1>1, <1>3, <1>5 DEF MarkEndpointBuilding, RowsTypeOK
<1>6. CASE ResolveSchedule(w)
  BY <1>1, <1>2, <1>3, <1>6 DEF ResolveSchedule, RowsTypeOK
<1>7. CASE StoreArtifact(w)
  <2>1. content' \in [Projects -> [Parts -> Built]]
    BY <1>0, <1>7 DEF StoreArtifact, RowsTypeOK
  <2> QED
    BY <1>1, <1>3, <1>7, <2>1 DEF StoreArtifact, RowsTypeOK
<1>8. CASE MarkFailed(w)
  BY <1>1, <1>3, <1>8 DEF MarkFailed, RowsTypeOK
<1>9. CASE Finalize(p)
  BY <1>0, <1>9, FinalizeTyped
<1>10. CASE UNCHANGED rows
  BY <1>10, RowsKept
<1> QED
  BY <1>4, <1>5, <1>6, <1>7, <1>8, <1>9, <1>10
  DEF BuildStep, FinalizeArtifact, FinalizeFails, BuildFails, FinalizeFailure,
      JobCompletes, JobRejects

LEMMA BuildWorkerTyped ==
  ASSUME TypeInv, NEW w \in Workers, BuildStep(w)
  PROVE  worker' \in [Workers -> Slot]
<1> USE DEF TypeInv, TypeOK
<1>0. worker[w] \in Slot /\ draft \in Built /\ Resting \in Slot
  BY RecordFacts
<1>1. ASSUME NEW r \in Slot, worker' = [worker EXCEPT ![w] = r]
      PROVE  worker' \in [Workers -> Slot]
  BY <1>1
<1>2. ASSUME NEW pc \in {"resolved", "bundling", "stored", "done", "failing", "failed", "rejected"},
             \/ Goto(w, pc)
             \/ worker' = [worker EXCEPT ![w].pc = pc, ![w].seen = draft]
      PROVE  worker' \in [Workers -> Slot]
  <2>1. [worker[w] EXCEPT !.pc = pc] \in Slot /\ [worker[w] EXCEPT !.pc = pc, !.seen = draft] \in Slot
    BY <1>0 DEF Slot
  <2>2. \/ worker' = [worker EXCEPT ![w] = [worker[w] EXCEPT !.pc = pc]]
        \/ worker' = [worker EXCEPT ![w] = [worker[w] EXCEPT !.pc = pc, !.seen = draft]]
    BY <1>2 DEF Goto
  <2> QED  BY <1>1, <2>1, <2>2
<1>3. CASE \E pc \in {"resolved", "bundling", "stored", "done", "failing", "failed", "rejected"} :
             \/ Goto(w, pc)
             \/ worker' = [worker EXCEPT ![w].pc = pc, ![w].seen = draft]
  BY <1>2, <1>3
<1>4. CASE worker' = [worker EXCEPT ![w] = Resting]
  BY <1>0, <1>1, <1>4
<1>5. CASE FinalizeFails(w)
  <2>1. AfterFinalizeError(w) \in {"failing", "rejected"}
    BY DEF AfterFinalizeError
  <2> QED  BY <1>2, <1>5, <2>1 DEF FinalizeFails
<1>6. CASE ResolveEndpoint(w) \/ ResolveSchedule(w)
  BY <1>2, <1>6 DEF ResolveEndpoint, ResolveSchedule
<1>7. CASE MarkEndpointBuilding(w) \/ StoreArtifact(w) \/ FinalizeArtifact(w) \/ BuildFails(w)
             \/ MarkFailed(w) \/ FinalizeFailure(w)
  BY <1>2, <1>7 DEF MarkEndpointBuilding, StoreArtifact, FinalizeArtifact, BuildFails,
                    MarkFailed, FinalizeFailure
<1>8. CASE JobCompletes(w) \/ JobRejects(w)
  BY <1>4, <1>8 DEF JobCompletes, JobRejects
<1> QED
  BY <1>5, <1>6, <1>7, <1>8 DEF BuildStep

(* Settling a job. *)
LEMMA BuildJobTyped ==
  ASSUME TypeInv, NEW w \in Workers, BuildStep(w)
  PROVE  JobOK' /\ job' \in [Projects -> [Parts -> Job]]
<1> DEFINE p == worker[w].id
           x == worker[w].part
           old == job[p][x]
<1>0. worker[w] \in Slot /\ x \in Parts /\ job \in [Projects -> [Parts -> Job]]
  BY DEF TypeInv, TypeOK, Slot
<1>1. CASE UNCHANGED job
  BY <1>1, JobsKept
<1>2. CASE JobCompletes(w) /\ old.owner = w /\ p \in Projects
  <2> DEFINE new == [old EXCEPT !.state = "completed", !.owner = None]
  <2>1. old \in Job
    BY <1>0, <1>2
  <2>2. new \in Job /\ new.owner = None /\ new.state = "completed"
    BY <2>1 DEF Job
  <2>3. job' = [job EXCEPT ![p] = [job[p] EXCEPT ![x] = new]]
    BY <1>0, <1>2 DEF JobCompletes
  <2> HIDE DEF new
  <2> QED  BY <1>0, <1>2, <2>2, <2>3, JobUpdate
<1>3. CASE JobRejects(w) /\ old.owner = w /\ p \in Projects
  <2> DEFINE made == old.made + 1
             new == [old EXCEPT !.made = made, !.owner = None,
                                !.state = IF AttemptsSpent(made) THEN "failed" ELSE "waiting"]
  <2>1. old \in Job
    BY <1>0, <1>3
  <2>2. old.made < Attempts /\ old.made \in Nat
    BY <1>0, <1>3, <2>1, ConstantFacts, BoundsAssumption DEF TypeInv, JobOK, Job
  <2>a. made \in 0..Attempts /\ (~AttemptsSpent(made) => made < Attempts)
    BY <2>2, BoundsAssumption DEF AttemptsSpent
  <2> HIDE DEF made
  <2>3. /\ new \in Job /\ new.owner = None
        /\ new.state \in {"none", "waiting", "active"} => new.made < Attempts
    BY <2>1, <2>a DEF Job
  <2>4. job' = [job EXCEPT ![p] = [job[p] EXCEPT ![x] = new]]
    BY <1>0, <1>3 DEF JobRejects, made
  <2> HIDE DEF new
  <2> QED  BY <1>0, <1>3, <2>3, <2>4, JobUpdate
<1>4. CASE p \notin Projects /\ (JobCompletes(w) \/ JobRejects(w))
  <2>1. UNCHANGED job
    <3>1. \A f : [job EXCEPT ![p] = f] = job
      BY <1>0, <1>4
    <3>2. CASE JobCompletes(w)
      BY <3>1, <3>2 DEF JobCompletes
    <3>3. CASE JobRejects(w)
      BY <3>1, <3>3 DEF JobRejects
    <3> QED  BY <1>4, <3>2, <3>3
  <2> QED  BY <2>1, <1>1
<1> QED
  BY <1>1, <1>2, <1>3, <1>4
  DEF BuildStep, ResolveEndpoint, ResolveSchedule, MarkEndpointBuilding, StoreArtifact,
      FinalizeArtifact, FinalizeFails, BuildFails, MarkFailed, FinalizeFailure,
      JobCompletes, JobRejects

LEMMA QueueType ==
  ASSUME TypeInv, QueueStep
  PROVE  TypeInv'
<1> USE ConstantFacts
<1>1. ASSUME NEW w \in Workers, NEW p \in Dev, NEW x \in Parts, TakeJob(w, p, x)
      PROVE  TypeInv'
  <2> DEFINE new == [job[p][x] EXCEPT !.state = "active", !.owner = w]
             slot == [pc |-> "claimed", id |-> p, part |-> x, seen |-> 0,
                      final |-> job[p][x].made + 1 >= Attempts]
  <2>1. job[p][x] \in Job /\ p \in Projects /\ job \in [Projects -> [Parts -> Job]]
    BY DEF TypeInv, TypeOK
  <2>2. new \in Job /\ new.state = "active" /\ new.made = job[p][x].made
    BY <2>1 DEF Job
  <2>3. new.made < Attempts
    BY <1>1, <2>1, <2>2 DEF TypeInv, JobOK, TakeJob
  <2>4. slot \in Slot
    BY <2>1, BoundsAssumption DEF Slot, Ref, Job
  <2>5. job' = [job EXCEPT ![p] = [job[p] EXCEPT ![x] = new]]
    BY <1>1, <2>1 DEF TakeJob
  <2>6. worker' \in [Workers -> Slot]
    BY <1>1, <2>4 DEF TakeJob, TypeInv, TypeOK
  <2> HIDE DEF new, slot
  <2>7. JobOK' /\ job' \in [Projects -> [Parts -> Job]]
    BY <2>1, <2>2, <2>3, <2>5, JobUpdate
  <2> QED
    BY <1>1, <2>6, <2>7, RowsKept DEF TakeJob, TypeInv, TypeOK
<1>2. ASSUME NEW p \in Dev, NEW x \in Parts, JobStalls(p, x)
      PROVE  TypeInv'
  <2> DEFINE old == job[p][x]
             back == [old EXCEPT !.state = "waiting", !.stalls = old.stalls + 1, !.owner = None]
             dead == [old EXCEPT !.state = "failed", !.owner = None]
             new == IF old.stalls < MaxStalls THEN back ELSE dead
  <2>0. old.stalls \in 0..MaxStalls /\ (old.stalls < MaxStalls => old.stalls + 1 \in 0..MaxStalls)
    BY BoundsAssumption DEF TypeInv, TypeOK, Job
  <2>1. old \in Job /\ p \in Projects /\ job \in [Projects -> [Parts -> Job]]
    BY DEF TypeInv, TypeOK
  <2>2. old.made < Attempts
    BY <1>2, <2>1 DEF TypeInv, JobOK, JobStalls
  <2>3. /\ new \in Job /\ new.owner = None /\ new.made = old.made
    BY <2>0, <2>1 DEF Job
  <2>4. job' = [job EXCEPT ![p] = [job[p] EXCEPT ![x] = new]]
    BY <1>2, <2>1 DEF JobStalls
  <2> HIDE DEF new
  <2>5. JobOK' /\ job' \in [Projects -> [Parts -> Job]]
    BY <2>1, <2>2, <2>3, <2>4, JobUpdate
  <2>6. UNCHANGED <<rows, draft, worker, op>> /\ crashes' \in 0..MaxCrashes
    BY <1>2, BoundsAssumption DEF JobStalls, TypeInv, TypeOK
  <2> QED
    BY <2>5, <2>6, RowsKept DEF TypeInv, TypeOK
<1>3. ASSUME NEW w \in Workers, WorkerCrash(w)
      PROVE  TypeInv'
  <2>1. worker' \in [Workers -> Slot] /\ crashes' \in 0..MaxCrashes
    BY <1>3, RecordFacts, BoundsAssumption DEF WorkerCrash, TypeInv, TypeOK
  <2>2. UNCHANGED <<rows, draft, job, op>>
    BY <1>3 DEF WorkerCrash
  <2> QED
    BY <2>1, <2>2, RowsKept, JobsKept DEF TypeInv, TypeOK
<1> QED
  BY <1>1, <1>2, <1>3 DEF QueueStep

LEMMA NextType == TypeInv /\ [Next]_vars => TypeInv'
<1> SUFFICES ASSUME TypeInv, [Next]_vars PROVE TypeInv'
  OBVIOUS
<1>1. CASE SaveDraft
  <2>1. draft' \in Built
    BY <1>1, BoundsAssumption DEF SaveDraft, TypeInv, TypeOK, Built
  <2> QED
    BY <1>1, <2>1, RowsKept, JobsKept DEF SaveDraft, TypeInv, TypeOK
<1>2. ASSUME NEW o \in Operators, RequestStep(o)
      PROVE  TypeInv'
  BY <1>2, RequestType
<1>3. CASE (\E e \in Endpoints : Disable(e)) \/ Archive
  <2>1. RowsTypeOK'
    BY <1>3 DEF Disable, Archive, TypeInv, TypeOK, RowsTypeOK
  <2> QED
    BY <1>3, <2>1, JobsKept DEF Disable, Archive, TypeInv, TypeOK
<1>4. CASE QueueStep
  BY <1>4, QueueType
<1>5. ASSUME NEW w \in Workers, BuildStep(w)
      PROVE  TypeInv'
  <2>1. UNCHANGED <<draft, op, crashes>>
    BY <1>5
    DEF BuildStep, ResolveEndpoint, ResolveSchedule, MarkEndpointBuilding, StoreArtifact,
        FinalizeArtifact, FinalizeFails, BuildFails, MarkFailed, FinalizeFailure,
        JobCompletes, JobRejects
  <2> QED
    BY <1>5, <2>1, BuildRowsTyped, BuildWorkerTyped, BuildJobTyped DEF TypeInv, TypeOK
<1>6. CASE UNCHANGED vars
  BY <1>6, RowsKept, JobsKept DEF vars, TypeInv, TypeOK
<1> QED
  BY <1>1, <1>2, <1>3, <1>4, <1>5, <1>6 DEF Next

(* Every variable keeps its type, the attempt and stall counters of BullMQ  *)
(* included.                                                                *)
THEOREM TypeCorrect == Spec => []TypeOK
<1>1. Spec => []TypeInv
  BY InitType, NextType, PTL DEF Spec
<1>2. TypeInv => TypeOK
  BY DEF TypeInv
<1> QED
  BY <1>1, <1>2, PTL

-----------------------------------------------------------------------------
(* What the requests and workers hold is never older than it may be: a      *)
(* stale reading still names a deployment of the right environment that was *)
(* activated, so that retiring or restoring it cannot lose the live one.    *)
Done      == {"active", "rolled_back", "failed"}
Activated == {"active", "rolled_back"}

RowsLifecycle ==
  /\ \A p \in Projects : completed[p] <=> status[p] \in Done
  /\ \A v \in Envs : pointer[v] # None => EnvOf(pointer[v]) = v /\ status[pointer[v]] = "active"
  /\ \A e \in Endpoints : epActive[e] # None => status[epActive[e]] \in Activated

(* What the request r holds, given the deployments' status st *)
RequestSound(r, st) ==
  /\ r.kind \in {"deploy", "enqueue"} => r.id \in Dev
  /\ r.kind = "enqueue" => st[r.id] # "none"
  /\ r.kind \in {"sourced", "release"} =>
       (r.live # None => r.live \in Prod /\ st[r.live] \in Activated)
  /\ r.kind = "release" => r.id \in Prod
  /\ r.kind = "rollback" =>
       /\ r.id \in Projects /\ st[r.id] \in Activated
       /\ r.live # None => (EnvOf(r.live) = EnvOf(r.id) /\ st[r.live] \in Activated)

BuildSound ==
  /\ \A w \in Workers : worker[w].pc # "idle" =>
       worker[w].id \in Dev /\ status[worker[w].id] # "none"
  /\ \A p \in Projects, x \in Parts : job[p][x].state # "none" => status[p] # "none"

RequestsSound == \A o \in Operators : RequestSound(op[o], status)

Lifecycle == RowsLifecycle /\ RequestsSound /\ BuildSound

IInv == TypeInv /\ Lifecycle

LEMMA InitLifecycle == Init => Lifecycle
<1> SUFFICES ASSUME Init PROVE Lifecycle
  OBVIOUS
<1>1. RowsLifecycle
  BY ConstantFacts DEF Init, RowsLifecycle, Done
<1>2. RequestsSound
  BY DEF Init, RequestsSound, RequestSound, NoOp
<1>3. BuildSound
  BY DEF Init, BuildSound, Resting, NoJob
<1> QED
  BY <1>1, <1>2, <1>3 DEF Lifecycle

(* No step forgets a deployment or that it was activated. *)
Monotone ==
  \A p \in Projects :
    /\ status[p] # "none" => status'[p] # "none"
    /\ status[p] \in Activated => status'[p] \in Activated

LEMMA StatusKept ==
  ASSUME RowsLifecycle, UNCHANGED <<status, completed, pointer, epActive>>
  PROVE  RowsLifecycle' /\ Monotone
  BY DEF RowsLifecycle, Monotone

LEMMA DeployRows ==
  ASSUME IInv, NEW o \in Operators, DeployCommit(o)
  PROVE  RowsLifecycle' /\ Monotone
<1> USE ConstantFacts DEF IInv, TypeInv, TypeOK, RowsTypeOK
<1>1. CASE UNCHANGED status
  BY <1>1, StatusKept DEF DeployCommit, Lifecycle
<1>2. CASE VersionsFree(o) /\ status' = [status EXCEPT ![op[o].id] = "queued"]
  <2>1. op[o].id \in Dev /\ status[op[o].id] = "none"
    BY <1>2 DEF DeployCommit, VersionsFree, Lifecycle, RequestsSound, RequestSound
  <2>2. UNCHANGED <<completed, pointer, epActive>>
    BY DEF DeployCommit
  <2>3. Monotone
    BY <1>2, <2>1 DEF Monotone, Activated
  <2>4. RowsLifecycle'
    BY <1>2, <2>1, <2>2 DEF Lifecycle, RowsLifecycle, Done, Activated
  <2> QED  BY <2>3, <2>4
<1> QED
  BY <1>1, <1>2 DEF DeployCommit

LEMMA RollbackRows ==
  ASSUME IInv, NEW o \in Operators, RollbackCommit(o)
  PROVE  RowsLifecycle' /\ Monotone
<1> USE ConstantFacts DEF IInv, TypeInv, TypeOK, RowsTypeOK
<1> DEFINE target == op[o].id
           old == op[o].live
<1>1. /\ target \in Projects /\ status[target] \in Activated /\ old \in Ref
      /\ old # None => EnvOf(old) = EnvOf(target) /\ status[old] \in Activated
  BY DEF RollbackCommit, RollbackTransaction, Lifecycle, RequestsSound, RequestSound, Request
<1>2. /\ \A p \in Projects : status'[p] = IF p = target THEN "active"
                                          ELSE IF p = old THEN "rolled_back" ELSE status[p]
      /\ UNCHANGED completed
      /\ pointer' = [pointer EXCEPT ![EnvOf(target)] = target]
      /\ \A e \in Endpoints : epActive'[e] \in {target, epActive[e]}
  BY DEF RollbackCommit, RollbackTransaction
<1> HIDE DEF target, old
<1>3. Monotone
  BY <1>1, <1>2 DEF Monotone, Activated, Ref
<1>4. \A p \in Projects : completed'[p] <=> status'[p] \in Done
  BY <1>1, <1>2 DEF Lifecycle, RowsLifecycle, Done, Activated, Ref
<1>5. ASSUME NEW v \in Envs, pointer'[v] # None
      PROVE  EnvOf(pointer'[v]) = v /\ status'[pointer'[v]] = "active"
  <2>1. CASE v = EnvOf(target)
    BY <1>1, <1>2, <2>1
  <2>2. CASE v # EnvOf(target)
    <3>1. pointer'[v] = pointer[v] /\ pointer[v] \in Projects
      BY <1>2, <1>5, <2>2 DEF Ref
    <3>2. EnvOf(pointer[v]) = v /\ status[pointer[v]] = "active"
      BY <3>1, <1>5 DEF Lifecycle, RowsLifecycle
    <3>3. pointer[v] # target /\ pointer[v] # old
      BY <1>1, <2>2, <3>1, <3>2, <1>5
    <3> QED  BY <1>2, <3>1, <3>2, <3>3
  <2> QED  BY <2>1, <2>2
<1>6. ASSUME NEW e \in Endpoints, epActive'[e] # None
      PROVE  status'[epActive'[e]] \in Activated
  <2>1. CASE epActive'[e] = target
    BY <1>1, <1>2, <2>1 DEF Activated
  <2>2. CASE epActive'[e] = epActive[e]
    BY <1>3, <1>6, <2>2 DEF Monotone, Lifecycle, RowsLifecycle, Ref
  <2> QED  BY <1>2, <2>1, <2>2
<1> QED
  BY <1>3, <1>4, <1>5, <1>6 DEF RowsLifecycle

LEMMA ReleaseRows ==
  ASSUME IInv, NEW o \in Operators, ReleaseCommit(o)
  PROVE  RowsLifecycle' /\ Monotone
<1> USE ConstantFacts DEF IInv, TypeInv, TypeOK, RowsTypeOK
<1> DEFINE new == op[o].id
           old == op[o].live
<1>1. /\ new \in Prod /\ status[new] = "none"
      /\ old # None => old \in Prod /\ status[old] \in Activated
  BY DEF ReleaseCommit, Lifecycle, RequestsSound, RequestSound
<1>2. /\ \A p \in Projects : status'[p] = IF p = new THEN "active"
                                          ELSE IF p = old THEN "rolled_back" ELSE status[p]
      /\ completed' = [completed EXCEPT ![new] = TRUE]
      /\ pointer' = [pointer EXCEPT !["production"] = new]
      /\ UNCHANGED epActive
  BY DEF ReleaseCommit
<1> HIDE DEF new, old
<1>3. Monotone
  BY <1>1, <1>2 DEF Monotone, Activated
<1>4. \A p \in Projects : completed'[p] <=> status'[p] \in Done
  BY <1>1, <1>2 DEF Lifecycle, RowsLifecycle, Done, Activated
<1>5. ASSUME NEW v \in Envs, pointer'[v] # None
      PROVE  EnvOf(pointer'[v]) = v /\ status'[pointer'[v]] = "active"
  <2>1. CASE v = "production"
    BY <1>1, <1>2, <2>1
  <2>2. CASE v # "production"
    <3>1. pointer'[v] = pointer[v] /\ pointer[v] \in Projects
      BY <1>2, <1>5, <2>2 DEF Ref
    <3>2. EnvOf(pointer[v]) = v /\ status[pointer[v]] = "active"
      BY <3>1, <1>5 DEF Lifecycle, RowsLifecycle
    <3>3. pointer[v] # new /\ pointer[v] # old
      BY <1>1, <2>2, <3>1, <3>2, <1>5
    <3> QED  BY <1>2, <3>1, <3>2, <3>3
  <2> QED  BY <2>1, <2>2
<1>6. \A e \in Endpoints : epActive'[e] # None => status'[epActive'[e]] \in Activated
  BY <1>2, <1>3 DEF Monotone, Lifecycle, RowsLifecycle, Ref
<1> QED
  BY <1>3, <1>4, <1>5, <1>6 DEF RowsLifecycle

LEMMA BuildingRows ==
  ASSUME IInv, NEW p \in Projects, MarkProjectBuilding(p),
         UNCHANGED <<completed, pointer, epActive>>
  PROVE  RowsLifecycle' /\ Monotone
<1> USE ConstantFacts DEF IInv, TypeInv, TypeOK, RowsTypeOK
<1>1. \A q \in Projects : status'[q] = IF q = p /\ status[q] = "queued" THEN "building" ELSE status[q]
  BY DEF MarkProjectBuilding
<1>2. Monotone
  BY <1>1 DEF Monotone, Activated
<1>3. \A q \in Projects : completed'[q] <=> status'[q] \in Done
  BY <1>1 DEF Lifecycle, RowsLifecycle, Done
<1>4. \A v \in Envs : pointer'[v] # None =>
        EnvOf(pointer'[v]) = v /\ status'[pointer'[v]] = "active"
  BY <1>1 DEF Lifecycle, RowsLifecycle, Ref
<1>5. \A e \in Endpoints : epActive'[e] # None => status'[epActive'[e]] \in Activated
  BY <1>2 DEF Lifecycle, RowsLifecycle, Monotone, Ref
<1> QED  BY <1>2, <1>3, <1>4, <1>5 DEF RowsLifecycle

(* finalizeProjectDeployment, whoever calls it and when. *)
LEMMA FinalizeRows ==
  ASSUME IInv, NEW p \in Projects, status[p] # "none", Finalize(p)
  PROVE  RowsLifecycle' /\ Monotone
<1> USE ConstantFacts DEF IInv, TypeInv, TypeOK, RowsTypeOK
<1>1. CASE LeaveProject(p)
  BY <1>1, StatusKept DEF LeaveProject, rows, Lifecycle
<1>2. CASE FailProject(p)
  <2>1. /\ ~completed[p] /\ status' = [status EXCEPT ![p] = "failed"]
        /\ completed' = [completed EXCEPT ![p] = TRUE]
        /\ UNCHANGED <<pointer, epActive>>
    BY <1>2 DEF FailProject
  <2>2. status[p] \notin Done
    BY <2>1 DEF Lifecycle, RowsLifecycle
  <2>3. Monotone
    BY <2>1, <2>2 DEF Monotone, Activated, Done
  <2>4. RowsLifecycle'
    BY <2>1, <2>2 DEF Lifecycle, RowsLifecycle, Done, Activated, Ref
  <2> QED  BY <2>3, <2>4
<1>3. CASE ActivateProject(p)
  <2>1. /\ \A q \in Projects : status'[q] = IF q = p THEN "active"
                                 ELSE IF EnvOf(q) = EnvOf(p) /\ status[q] = "active"
                                 THEN "rolled_back" ELSE status[q]
        /\ completed' = [completed EXCEPT ![p] = TRUE]
        /\ pointer' = [pointer EXCEPT ![EnvOf(p)] = p]
        /\ \A e \in Endpoints : epActive'[e] \in {p, epActive[e]}
    BY <1>3 DEF ActivateProject, CompletedAfter, Superseded
  <2>2. status[p] \notin Done
    BY <1>3 DEF ActivateProject, Done
  <2>3. Monotone
    BY <2>1, <2>2 DEF Monotone, Activated, Done
  <2>4. \A q \in Projects : completed'[q] <=> status'[q] \in Done
    BY <2>1, <2>2 DEF Lifecycle, RowsLifecycle, Done
  <2>5. ASSUME NEW v \in Envs, pointer'[v] # None
        PROVE  EnvOf(pointer'[v]) = v /\ status'[pointer'[v]] = "active"
    <3>1. CASE v = EnvOf(p)
      BY <2>1, <3>1
    <3>2. CASE v # EnvOf(p)
      <4>1. pointer'[v] = pointer[v] /\ pointer[v] \in Projects
        BY <2>1, <2>5, <3>2 DEF Ref
      <4>2. EnvOf(pointer[v]) = v /\ status[pointer[v]] = "active"
        BY <4>1, <2>5 DEF Lifecycle, RowsLifecycle
      <4> QED  BY <2>1, <3>2, <4>1, <4>2
    <3> QED  BY <3>1, <3>2
  <2>6. ASSUME NEW e \in Endpoints, epActive'[e] # None
        PROVE  status'[epActive'[e]] \in Activated
    <3>1. CASE epActive'[e] = p
      BY <2>1, <3>1 DEF Activated
    <3>2. CASE epActive'[e] = epActive[e]
      BY <2>3, <2>6, <3>2 DEF Monotone, Lifecycle, RowsLifecycle, Ref
    <3> QED  BY <2>1, <3>1, <3>2
  <2> QED
    BY <2>3, <2>4, <2>5, <2>6 DEF RowsLifecycle
<1> QED
  BY <1>1, <1>2, <1>3 DEF Finalize

(* What a request holds stays sound while deployments move forward. *)
LEMMA RequestKept ==
  ASSUME IInv, Monotone, NEW o \in Operators
  PROVE  RequestSound(op[o], status')
<1>1. RequestSound(op[o], status) /\ op[o] \in Request
  BY DEF IInv, Lifecycle, RequestsSound, TypeInv, TypeOK
<1> QED
  BY <1>1, ConstantFacts DEF RequestSound, Monotone, Request, Ref

LEMMA BuildKept ==
  ASSUME IInv, Monotone, UNCHANGED worker, UNCHANGED job
  PROVE  BuildSound'
  BY ConstantFacts DEF IInv, Lifecycle, BuildSound, Monotone

(* Requests: rows, then the request itself, then jobs. *)
LEMMA RequestRows ==
  ASSUME IInv, NEW o \in Operators, RequestStep(o)
  PROVE  RowsLifecycle' /\ Monotone
<1>1. CASE UNCHANGED <<status, completed, pointer, epActive>>
  BY <1>1, StatusKept DEF IInv, Lifecycle
<1> QED
  BY <1>1, DeployRows, RollbackRows, ReleaseRows
  DEF RequestStep, DeployRead, Enqueue, RollbackRead, ReleaseRead, ReleaseVersion,
      ReleaseAbort, EnableRead, EnableCommit, RequestCrash, rows

LEMMA RequestHolds ==
  ASSUME IInv, NEW o \in Operators, RequestStep(o)
  PROVE  RequestsSound'
<1> USE ConstantFacts DEF IInv, TypeInv, TypeOK
<1>0. op \in [Operators -> Request] /\ op[o] \in Request /\ Monotone
  BY RequestRows
<1>1. ASSUME NEW r, op' = [op EXCEPT ![o] = r], RequestSound(r, status')
      PROVE  RequestsSound'
  BY <1>0, <1>1, RequestKept DEF RequestsSound
<1>2. RequestSound(NoOp, status')
  BY DEF RequestSound, NoOp
<1>3. CASE DeployRead(o)
  <2> PICK p \in Dev :
        op' = [op EXCEPT ![o] = [NoOp EXCEPT !.kind = "deploy", !.id = p,
                !.parts = Deployable \cup {Schedule},
                !.known = {q \in Projects : status[q] # "none"}]]
    BY <1>3 DEF DeployRead
  <2> DEFINE r == [NoOp EXCEPT !.kind = "deploy", !.id = p,
                !.parts = Deployable \cup {Schedule},
                !.known = {q \in Projects : status[q] # "none"}]
  <2>1. r.kind = "deploy" /\ r.id = p
    BY DEF NoOp
  <2> HIDE DEF r
  <2>2. RequestSound(r, status')
    BY <2>1 DEF RequestSound
  <2> QED  BY <1>1, <2>2 DEF r
<1>4. CASE DeployCommit(o)
  <2>1. CASE op' = [op EXCEPT ![o] = NoOp]
    BY <1>1, <1>2, <2>1
  <2>2. CASE op' = [op EXCEPT ![o].kind = "enqueue", ![o].known = {}]
              /\ status' = [status EXCEPT ![op[o].id] = "queued"]
    <3> DEFINE r == [op[o] EXCEPT !.kind = "enqueue", !.known = {}]
    <3>1. r.kind = "enqueue" /\ r.id = op[o].id
      BY <1>0 DEF Request
    <3>2. op[o].id \in Dev
      BY <1>4 DEF DeployCommit, Lifecycle, RequestsSound, RequestSound
    <3>3. status'[op[o].id] = "queued"
      BY <2>2, <3>2 DEF RowsTypeOK
    <3>4. op' = [op EXCEPT ![o] = r]
      BY <1>0, <2>2
    <3> HIDE DEF r
    <3>5. RequestSound(r, status')
      BY <3>1, <3>2, <3>3 DEF RequestSound
    <3> QED  BY <1>1, <3>4, <3>5
  <2> QED  BY <1>4, <2>1, <2>2 DEF DeployCommit
<1>5. ASSUME NEW x \in Parts, Enqueue(o, x)
      PROVE  RequestsSound'
  <2> DEFINE r == [op[o] EXCEPT !.parts = @ \ {x}]
  <2>1. r.kind = "enqueue" /\ r.id = op[o].id
    BY <1>0, <1>5 DEF Request, Enqueue
  <2>2. RequestSound(op[o], status') /\ op[o].kind = "enqueue"
    BY <1>0, <1>5, RequestKept DEF Enqueue
  <2>3. op' = [op EXCEPT ![o] = r] \/ op' = [op EXCEPT ![o] = NoOp]
    BY <1>5 DEF Enqueue
  <2> HIDE DEF r
  <2>4. RequestSound(r, status')
    BY <2>1, <2>2 DEF RequestSound
  <2> QED  BY <1>1, <1>2, <2>3, <2>4
<1>6. CASE RollbackRead(o)
  <2> PICK p \in Projects :
        /\ RollbackTarget(p)
        /\ op' = [op EXCEPT ![o] = [NoOp EXCEPT !.kind = "rollback", !.id = p,
                                     !.live = pointer[EnvOf(p)], !.parts = Present(p)]]
    BY <1>6 DEF RollbackRead
  <2> DEFINE r == [NoOp EXCEPT !.kind = "rollback", !.id = p,
                               !.live = pointer[EnvOf(p)], !.parts = Present(p)]
  <2>1. r.kind = "rollback" /\ r.id = p /\ r.live = pointer[EnvOf(p)]
    BY DEF NoOp
  <2> HIDE DEF r
  <2>2. UNCHANGED status
    BY <1>6 DEF RollbackRead, rows
  <2>3. status[p] \in Activated /\ EnvOf(p) \in Envs
    BY DEF RollbackTarget, Activated
  <2>4. r.live # None => EnvOf(r.live) = EnvOf(p) /\ status[r.live] \in Activated
    BY <2>1, <2>3 DEF Lifecycle, RowsLifecycle, Activated
  <2>5. RequestSound(r, status')
    BY <2>1, <2>2, <2>3, <2>4 DEF RequestSound
  <2> QED  BY <1>1, <2>5 DEF r
<1>7. CASE ReleaseRead(o)
  <2> PICK s \in Dev :
        op' = [op EXCEPT ![o] = [NoOp EXCEPT !.kind = "sourced", !.source = s,
                                  !.live = pointer["production"],
                                  !.parts = Present(s), !.copy = content[s]]]
    BY <1>7 DEF ReleaseRead
  <2> DEFINE r == [NoOp EXCEPT !.kind = "sourced", !.source = s,
                                  !.live = pointer["production"],
                                  !.parts = Present(s), !.copy = content[s]]
  <2>1. r.kind = "sourced" /\ r.live = pointer["production"]
    BY DEF NoOp
  <2> HIDE DEF r
  <2>2. UNCHANGED status
    BY <1>7 DEF ReleaseRead, rows
  <2>3. r.live # None => r.live \in Projects /\ EnvOf(r.live) = "production"
                          /\ status[r.live] \in Activated
    BY <2>1 DEF Lifecycle, RowsLifecycle, Activated, RowsTypeOK, Ref
  <2>4. r.live # None => r.live \in Prod
    BY <2>3 DEF Projects
  <2>5. RequestSound(r, status')
    BY <2>1, <2>2, <2>3, <2>4 DEF RequestSound
  <2> QED  BY <1>1, <2>5 DEF r
<1>8. CASE ReleaseVersion(o)
  <2> PICK p \in Prod : op' = [op EXCEPT ![o].kind = "release", ![o].id = p]
    BY <1>8 DEF ReleaseVersion
  <2> DEFINE r == [op[o] EXCEPT !.kind = "release", !.id = p]
  <2>1. r.kind = "release" /\ r.id = p /\ r.live = op[o].live
    BY <1>0 DEF Request
  <2>2. RequestSound(op[o], status') /\ op[o].kind = "sourced"
    BY <1>0, <1>8, RequestKept DEF ReleaseVersion
  <2>3. op' = [op EXCEPT ![o] = r]
    BY <1>0
  <2> HIDE DEF r
  <2>4. RequestSound(r, status')
    BY <2>1, <2>2 DEF RequestSound
  <2> QED  BY <1>1, <2>3, <2>4
<1>9. ASSUME NEW e \in Endpoints, EnableRead(o, e)
      PROVE  RequestsSound'
  <2> DEFINE r == [NoOp EXCEPT !.kind = "enable", !.parts = {e}, !.live = epActive[e]]
  <2>1. r.kind = "enable"
    BY DEF NoOp
  <2>2. op' = [op EXCEPT ![o] = r]
    BY <1>9 DEF EnableRead
  <2> HIDE DEF r
  <2> QED  BY <1>1, <2>1, <2>2 DEF RequestSound
<1>10. CASE RollbackCommit(o) \/ ReleaseCommit(o) \/ ReleaseAbort(o) \/ EnableCommit(o)
             \/ RequestCrash(o)
  BY <1>1, <1>2, <1>10 DEF RollbackCommit, RollbackTransaction, ReleaseCommit, ReleaseAbort,
              EnableCommit, RequestCrash
<1> QED
  BY <1>3, <1>4, <1>5, <1>6, <1>7, <1>8, <1>9, <1>10 DEF RequestStep

LEMMA RequestBuild ==
  ASSUME IInv, NEW o \in Operators, RequestStep(o)
  PROVE  BuildSound'
<1>1. Monotone /\ UNCHANGED worker
  BY RequestRows
  DEF RequestStep, DeployRead, DeployCommit, Enqueue, RollbackRead, RollbackCommit,
      RollbackTransaction, ReleaseRead, ReleaseVersion, ReleaseCommit, ReleaseAbort,
      EnableRead, EnableCommit, RequestCrash
<1>2. CASE UNCHANGED job
  BY <1>1, <1>2, BuildKept
<1>3. ASSUME NEW x \in Parts, Enqueue(o, x)
      PROVE  BuildSound'
  <2>1. op[o].id \in Dev /\ status[op[o].id] # "none" /\ UNCHANGED status
    BY <1>3 DEF Enqueue, IInv, Lifecycle, RequestsSound, RequestSound, rows
  <2>2. job \in [Projects -> [Parts -> Job]]
    BY DEF IInv, TypeInv, TypeOK
  <2>3. \A p \in Projects, y \in Parts :
          job'[p][y].state # "none" => job[p][y].state # "none" \/ p = op[o].id
    BY <1>3, <2>1, <2>2, ConstantFacts DEF Enqueue
  <2> QED
    BY <1>1, <2>1, <2>3, ConstantFacts DEF IInv, Lifecycle, BuildSound
<1> QED
  BY <1>2, <1>3
  DEF RequestStep, DeployRead, DeployCommit, RollbackRead, RollbackCommit,
      RollbackTransaction, ReleaseRead, ReleaseVersion, ReleaseCommit, ReleaseAbort,
      EnableRead, EnableCommit, RequestCrash

(* Workers write the rows of the deployment whose job they run. *)
LEMMA BuildRows ==
  ASSUME IInv, NEW w \in Workers, BuildStep(w)
  PROVE  RowsLifecycle' /\ Monotone
<1> DEFINE p == worker[w].id
<1>1. worker[w].pc # "idle"
  BY DEF BuildStep, ResolveEndpoint, ResolveSchedule, MarkEndpointBuilding, StoreArtifact,
      FinalizeArtifact, FinalizeFails, BuildFails, MarkFailed, FinalizeFailure,
      JobCompletes, JobRejects
<1>2. p \in Projects /\ status[p] # "none"
  BY <1>1, ConstantFacts DEF IInv, Lifecycle, BuildSound
<1>3. CASE Finalize(p)
  BY <1>2, <1>3, FinalizeRows
<1>4. CASE MarkProjectBuilding(p) /\ UNCHANGED <<completed, pointer, epActive>>
  BY <1>2, <1>4, BuildingRows
<1>5. CASE UNCHANGED <<status, completed, pointer, epActive>>
  BY <1>5, StatusKept DEF IInv, Lifecycle
<1> QED
  BY <1>3, <1>4, <1>5
  DEF BuildStep, ResolveEndpoint, ResolveSchedule, MarkEndpointBuilding, StoreArtifact,
      FinalizeArtifact, FinalizeFails, BuildFails, MarkFailed, FinalizeFailure,
      JobCompletes, JobRejects, rows

(* No build step starts work on another deployment or creates a job. *)
LEMMA BuildStepKeeps ==
  ASSUME IInv, NEW w \in Workers, BuildStep(w)
  PROVE  /\ \A v \in Workers : worker'[v].pc # "idle" =>
               worker[v].pc # "idle" /\ worker'[v].id = worker[v].id
         /\ \A p \in Projects, x \in Parts : job'[p][x].state # "none" =>
               job[p][x].state # "none"
<1>0. /\ worker \in [Workers -> Slot] /\ worker[w] \in Slot
      /\ job \in [Projects -> [Parts -> Job]]
  BY DEF IInv, TypeInv, TypeOK
<1>1. worker[w].pc # "idle"
  BY DEF BuildStep, ResolveEndpoint, ResolveSchedule, MarkEndpointBuilding, StoreArtifact,
      FinalizeArtifact, FinalizeFails, BuildFails, MarkFailed, FinalizeFailure,
      JobCompletes, JobRejects
<1>2. \/ \E r : worker' = [worker EXCEPT ![w].pc = r]
      \/ \E r, d : worker' = [worker EXCEPT ![w].pc = r, ![w].seen = d]
      \/ worker' = [worker EXCEPT ![w] = Resting]
  BY DEF BuildStep, ResolveEndpoint, ResolveSchedule, MarkEndpointBuilding, StoreArtifact,
      FinalizeArtifact, FinalizeFails, BuildFails, MarkFailed, FinalizeFailure,
      JobCompletes, JobRejects, Goto
<1>3. ASSUME NEW v \in Workers, worker'[v].pc # "idle"
      PROVE  worker[v].pc # "idle" /\ worker'[v].id = worker[v].id
  <2>1. ASSUME NEW r, worker' = [worker EXCEPT ![w].pc = r]
        PROVE  worker[v].pc # "idle" /\ worker'[v].id = worker[v].id
    BY <1>0, <1>1, <1>3, <2>1 DEF Slot
  <2>2. ASSUME NEW r, NEW d, worker' = [worker EXCEPT ![w].pc = r, ![w].seen = d]
        PROVE  worker[v].pc # "idle" /\ worker'[v].id = worker[v].id
    <3>1. worker' = [worker EXCEPT ![w] = [worker[w] EXCEPT !.pc = r, !.seen = d]]
      BY <1>0, <2>2
    <3>2. [worker[w] EXCEPT !.pc = r, !.seen = d].id = worker[w].id
      BY <1>0 DEF Slot
    <3> QED  BY <1>0, <1>1, <1>3, <3>1, <3>2
  <2>3. CASE worker' = [worker EXCEPT ![w] = Resting]
    BY <1>0, <1>3, <2>3 DEF Resting
  <2> QED  BY <1>2, <2>1, <2>2, <2>3
<1>4. ASSUME NEW p \in Projects, NEW x \in Parts, job'[p][x].state # "none"
      PROVE  job[p][x].state # "none"
  <2> DEFINE q == worker[w].id
             y == worker[w].part
  <2>1. CASE UNCHANGED job
    BY <1>4, <2>1
  <2>2. CASE (JobCompletes(w) \/ JobRejects(w)) /\ job[q][y].owner = w
    <3>1. p = q /\ x = y => job[p][x].state = "active"
      <4>1. ASSUME p = q, x = y PROVE job[p][x].state = "active"
        BY <2>2, <4>1, ConstantFacts DEF IInv, TypeInv, JobOK
      <4> QED  BY <4>1
    <3>2. ASSUME p # q \/ x # y PROVE job'[p][x] = job[p][x]
      <4>1. CASE JobCompletes(w)
        BY <1>0, <2>2, <3>2, <4>1 DEF JobCompletes
      <4>2. CASE JobRejects(w)
        BY <1>0, <2>2, <3>2, <4>2 DEF JobRejects
      <4> QED  BY <2>2, <4>1, <4>2
    <3> QED  BY <1>4, <3>1, <3>2
  <2> QED
    BY <2>1, <2>2
    DEF BuildStep, ResolveEndpoint, ResolveSchedule, MarkEndpointBuilding, StoreArtifact,
        FinalizeArtifact, FinalizeFails, BuildFails, MarkFailed, FinalizeFailure,
        JobCompletes, JobRejects
<1> QED
  BY <1>3, <1>4

LEMMA QueueKeeps ==
  ASSUME IInv, QueueStep
  PROVE  BuildSound'
<1>0. /\ worker \in [Workers -> Slot] /\ job \in [Projects -> [Parts -> Job]]
  BY DEF IInv, TypeInv, TypeOK
<1>1. UNCHANGED status
  BY DEF QueueStep, TakeJob, JobStalls, WorkerCrash, rows
<1>2. ASSUME NEW w \in Workers, NEW p \in Dev, NEW x \in Parts, TakeJob(w, p, x)
      PROVE  BuildSound'
  <2>1. job[p][x].state # "none" /\ status[p] # "none"
    BY <1>2, ConstantFacts DEF TakeJob, IInv, Lifecycle, BuildSound
  <2>2. \A v \in Workers : worker'[v].pc # "idle" =>
           \/ worker[v].pc # "idle" /\ worker'[v].id = worker[v].id
           \/ worker'[v].id = p
    BY <1>0, <1>2 DEF TakeJob
  <2>3. \A q \in Projects, y \in Parts : job'[q][y].state # "none" => job[q][y].state # "none"
    BY <1>0, <1>2, <2>1, ConstantFacts DEF TakeJob
  <2> QED
    BY <1>1, <2>1, <2>2, <2>3 DEF IInv, Lifecycle, BuildSound
<1>3. ASSUME NEW p \in Dev, NEW x \in Parts, JobStalls(p, x)
      PROVE  BuildSound'
  <2> DEFINE old == job[p][x]
             new == IF old.stalls < MaxStalls
                    THEN [old EXCEPT !.state = "waiting", !.stalls = old.stalls + 1, !.owner = None]
                    ELSE [old EXCEPT !.state = "failed", !.owner = None]
  <2>1. job' = [job EXCEPT ![p][x] = new] /\ UNCHANGED worker /\ old.state # "none"
    BY <1>3 DEF JobStalls
  <2> HIDE DEF new
  <2>2. \A q \in Projects, y \in Parts : job'[q][y].state # "none" => job[q][y].state # "none"
    BY <1>0, <2>1, ConstantFacts
  <2> QED
    BY <1>1, <2>1, <2>2 DEF IInv, Lifecycle, BuildSound
<1>4. ASSUME NEW w \in Workers, WorkerCrash(w)
      PROVE  BuildSound'
  <2>1. \A v \in Workers : worker'[v].pc # "idle" => worker'[v] = worker[v]
    BY <1>0, <1>4 DEF WorkerCrash, Resting
  <2> QED
    BY <1>1, <1>4, <2>1 DEF WorkerCrash, IInv, Lifecycle, BuildSound
<1> QED
  BY <1>2, <1>3, <1>4 DEF QueueStep

LEMMA NextLifecycle == IInv /\ [Next]_vars => IInv'
<1> SUFFICES ASSUME IInv, [Next]_vars PROVE Lifecycle'
  BY NextType DEF IInv
<1>1. ASSUME NEW o \in Operators, RequestStep(o)
      PROVE  Lifecycle'
  BY <1>1, RequestRows, RequestHolds, RequestBuild DEF Lifecycle
<1>2. ASSUME NEW w \in Workers, BuildStep(w)
      PROVE  Lifecycle'
  <2>1. RowsLifecycle' /\ Monotone
    BY <1>2, BuildRows
  <2>2. UNCHANGED op
    BY <1>2
    DEF BuildStep, ResolveEndpoint, ResolveSchedule, MarkEndpointBuilding, StoreArtifact,
        FinalizeArtifact, FinalizeFails, BuildFails, MarkFailed, FinalizeFailure,
        JobCompletes, JobRejects
  <2>3. RequestsSound'
    BY <2>1, <2>2, RequestKept DEF RequestsSound
  <2>4. BuildSound'
    BY <1>2, <2>1, BuildStepKeeps, ConstantFacts DEF BuildSound, Monotone, IInv, Lifecycle
  <2> QED  BY <2>1, <2>3, <2>4 DEF Lifecycle
<1>3. CASE UNCHANGED <<status, completed, pointer, epActive, op>>
  <2>1. RowsLifecycle' /\ Monotone
    BY <1>3, StatusKept DEF IInv, Lifecycle
  <2>2. RequestsSound'
    BY <1>3, <2>1, RequestKept DEF RequestsSound
  <2>3. CASE QueueStep
    BY <2>1, <2>2, <2>3, QueueKeeps DEF Lifecycle
  <2>4. CASE UNCHANGED <<worker, job>>
    BY <2>1, <2>2, <2>4, BuildKept DEF Lifecycle
  <2>5. ASSUME NEW w \in Workers, BuildStep(w)
        PROVE  Lifecycle'
    BY <1>2, <2>5
  <2>6. ASSUME NEW o \in Operators, RequestStep(o)
        PROVE  Lifecycle'
    BY <1>1, <2>6
  <2> QED
    BY <2>3, <2>4, <2>5, <2>6 DEF Next, SaveDraft, Disable, Archive, vars
<1> QED
  BY <1>1, <1>2, <1>3
  DEF Next, SaveDraft, Disable, Archive, QueueStep, TakeJob, JobStalls, WorkerCrash, vars, rows

THEOREM LifecycleHolds == Spec => []IInv
<1>1. Init => IInv
  BY InitType, InitLifecycle DEF IInv
<1> QED
  BY <1>1, NextLifecycle, PTL DEF Spec

(* The environment's pointer names a deployment whose row says active,      *)
(* although rollbacks, releases and activations act on stale readings.      *)
THEOREM LiveStaysActive == Spec => []LiveIsActive
<1>1. IInv => LiveIsActive
  BY DEF IInv, Lifecycle, RowsLifecycle, LiveIsActive
<1> QED
  BY <1>1, LifecycleHolds, PTL

(* Neither an environment nor an endpoint serves a failed or an unfinished  *)
(* deployment, whatever is delivered twice, crashes or is retried.          *)
THEOREM ServedWereActivated == Spec => []OnlyActivatedServed
<1>1. IInv => OnlyActivatedServed
  <2> SUFFICES ASSUME IInv PROVE OnlyActivatedServed
    OBVIOUS
  <2>1. \A v \in Envs : pointer[v] # None => status[pointer[v]] # "failed"
    BY DEF IInv, Lifecycle, RowsLifecycle
  <2>2. ASSUME NEW e \in Endpoints, epActive[e] # None
        PROVE  completed[epActive[e]] /\ status[epActive[e]] \in {"active", "rolled_back"}
    <3>1. epActive[e] \in Projects
      BY <2>2 DEF IInv, TypeInv, TypeOK, RowsTypeOK, Ref
    <3>2. status[epActive[e]] \in Activated
      BY <2>2 DEF IInv, Lifecycle, RowsLifecycle
    <3> QED
      BY <3>1, <3>2 DEF IInv, Lifecycle, RowsLifecycle, Activated, Done
  <2> QED  BY <2>1, <2>2 DEF OnlyActivatedServed
<1> QED
  BY <1>1, LifecycleHolds, PTL

-----------------------------------------------------------------------------
(* ProjectDeployment implements ActivationLedger.                           *)
LedgerStep == [Ledger!Next]_<<Fate, frozen, pointer>>

LEMMA LedgerStutter ==
  ASSUME UNCHANGED <<status, completed, frozen, pointer>>
  PROVE  LedgerStep
<1>1. Fate' = Fate
  BY DEF Fate
<1> QED
  BY <1>1 DEF LedgerStep

(* A deployment's fate, and how a new fate of one deployment is shown. *)
LEMMA FateOf ==
  /\ \A p \in Projects :
       Fate[p] = IF status[p] = "none" THEN "unborn"
                 ELSE IF ~completed[p] THEN "pending"
                 ELSE IF status[p] = "failed" THEN "failed" ELSE "sealed"
  /\ \A p \in Projects : \A f :
       (\A q \in Projects : Fate'[q] = IF q = p THEN f ELSE Fate[q])
         => Fate' = [Fate EXCEPT ![p] = f]
  /\ (\A q \in Projects : Fate'[q] = Fate[q]) => Fate' = Fate
  BY DEF Fate

LEMMA FateOfNext ==
  \A p \in Projects :
    Fate'[p] = IF status'[p] = "none" THEN "unborn"
               ELSE IF ~completed'[p] THEN "pending"
               ELSE IF status'[p] = "failed" THEN "failed" ELSE "sealed"
  BY DEF Fate

(* completedAt is set exactly in the final statuses, so the status decides. *)
LEMMA FateByStatus ==
  ASSUME \A p \in Projects : completed[p] <=> status[p] \in Done,
         \A p \in Projects : completed'[p] <=> status'[p] \in Done
  PROVE  \A p \in Projects :
           /\ status[p] \in Activated => Fate[p] = "sealed"
           /\ status'[p] \in Activated => Fate'[p] = "sealed"
           /\ status'[p] = status[p] => Fate'[p] = Fate[p]
<1> TAKE p \in Projects
<1>1. status[p] \in Activated => completed[p] /\ status[p] \notin {"none", "failed"}
  BY DEF Activated, Done
<1>2. status'[p] \in Activated => completed'[p] /\ status'[p] \notin {"none", "failed"}
  BY DEF Activated, Done
<1>3. status'[p] = status[p] => (completed'[p] <=> completed[p])
  OBVIOUS
<1> QED
  BY <1>1, <1>2, <1>3, FateOf, FateOfNext

LEMMA DeployIsQueue ==
  ASSUME IInv, NEW o \in Operators, DeployCommit(o)
  PROVE  LedgerStep
<1> USE ConstantFacts DEF IInv, TypeInv, TypeOK, RowsTypeOK
<1>1. CASE UNCHANGED status
  BY <1>1, LedgerStutter DEF DeployCommit
<1>2. CASE VersionsFree(o) /\ status' = [status EXCEPT ![op[o].id] = "queued"]
  <2> DEFINE p == op[o].id
  <2>1. p \in Projects /\ status[p] = "none" /\ ~completed[p]
    BY <1>2 DEF DeployCommit, VersionsFree, Lifecycle, RequestsSound, RequestSound,
                RowsLifecycle, Done
  <2>2. UNCHANGED <<completed, frozen, pointer>>
    BY DEF DeployCommit
  <2>3. \A q \in Projects : Fate'[q] = IF q = p THEN "pending" ELSE Fate[q]
    BY <1>2, <2>1, <2>2, FateOf, FateOfNext
  <2>4. Fate' = [Fate EXCEPT ![p] = "pending"] /\ Fate[p] = "unborn"
    BY <2>1, <2>3, FateOf
  <2>5. Ledger!Queue(p)
    BY <2>2, <2>4 DEF Ledger!Queue
  <2> QED
    BY <2>1, <2>5 DEF LedgerStep, Ledger!Next
<1> QED
  BY <1>1, <1>2 DEF DeployCommit

LEMMA RollbackIsRestore ==
  ASSUME IInv, NEW o \in Operators, RollbackCommit(o)
  PROVE  LedgerStep
<1> USE ConstantFacts DEF IInv, TypeInv, TypeOK, RowsTypeOK
<1> DEFINE target == op[o].id
           old == op[o].live
<1>1. /\ target \in Projects /\ status[target] \in Activated
      /\ old # None => status[old] \in Activated
      /\ old \in Ref
  BY DEF RollbackCommit, RollbackTransaction, Lifecycle, RequestsSound, RequestSound, Request
<1>2. /\ \A p \in Projects : status'[p] = IF p = target THEN "active"
                                          ELSE IF p = old THEN "rolled_back" ELSE status[p]
      /\ UNCHANGED <<completed, frozen>>
      /\ pointer' = [pointer EXCEPT ![target[1]] = target]
  BY DEF RollbackCommit, RollbackTransaction, EnvOf
<1> HIDE DEF target, old
<1>3. /\ \A p \in Projects : completed[p] <=> status[p] \in Done
      /\ \A p \in Projects : completed'[p] <=> status'[p] \in Done
  BY RollbackRows DEF Lifecycle, RowsLifecycle
<1>4. ASSUME NEW p \in Projects
      PROVE  Fate'[p] = Fate[p]
  <2>1. \/ status[p] \in Activated /\ status'[p] \in Activated
        \/ status'[p] = status[p]
    BY <1>1, <1>2 DEF Activated
  <2> QED  BY <1>3, <2>1, FateByStatus
<1>5. Fate[target] = "sealed"
  BY <1>1, <1>3, FateByStatus
<1>6. Ledger!Restore(target)
  BY <1>2, <1>4, <1>5, FateOf DEF Ledger!Restore
<1> QED
  BY <1>1, <1>6 DEF LedgerStep, Ledger!Next

LEMMA ReleaseIsSeal ==
  ASSUME IInv, NEW o \in Operators, ReleaseCommit(o)
  PROVE  LedgerStep
<1> USE ConstantFacts DEF IInv, TypeInv, TypeOK, RowsTypeOK
<1> DEFINE new == op[o].id
           old == op[o].live
<1>1. /\ new \in Prod /\ status[new] = "none"
      /\ old # None => old \in Prod /\ status[old] \in Activated
      /\ op[o].copy \in [Parts -> Built]
  BY DEF ReleaseCommit, Lifecycle, RequestsSound, RequestSound, Request
<1>2. /\ \A p \in Projects : status'[p] = IF p = new THEN "active"
                                          ELSE IF p = old THEN "rolled_back" ELSE status[p]
      /\ completed' = [completed EXCEPT ![new] = TRUE]
      /\ frozen' = [frozen EXCEPT ![new] = op[o].copy]
      /\ pointer' = [pointer EXCEPT ![new[1]] = new]
  BY <1>1 DEF ReleaseCommit, EnvOf
<1> HIDE DEF new, old
<1>3. /\ \A p \in Projects : completed[p] <=> status[p] \in Done
      /\ \A p \in Projects : completed'[p] <=> status'[p] \in Done
  BY ReleaseRows DEF Lifecycle, RowsLifecycle
<1>4. ASSUME NEW p \in Projects
      PROVE  Fate'[p] = IF p = new THEN "sealed" ELSE Fate[p]
  <2>1. CASE p = new
    BY <1>2, <1>3, <2>1, FateByStatus DEF Activated
  <2>2. CASE p # new
    <3>1. \/ status[p] \in Activated /\ status'[p] \in Activated
          \/ status'[p] = status[p]
      BY <1>1, <1>2, <2>2 DEF Activated
    <3> QED  BY <1>3, <2>2, <3>1, FateByStatus
  <2> QED  BY <2>1, <2>2
<1>5. Fate' = [Fate EXCEPT ![new] = "sealed"] /\ Fate[new] = "unborn"
  BY <1>1, <1>4, FateOf
<1>6. Ledger!Seal(new)
  BY <1>1, <1>2, <1>5 DEF Ledger!Seal
<1> QED
  BY <1>1, <1>6 DEF LedgerStep, Ledger!Next

LEMMA BuildingIsStutter ==
  ASSUME IInv, NEW p \in Projects, MarkProjectBuilding(p),
         UNCHANGED <<completed, frozen, pointer>>
  PROVE  LedgerStep
<1>1. \A q \in Projects : status'[q] = IF q = p /\ status[q] = "queued" THEN "building" ELSE status[q]
  BY DEF MarkProjectBuilding, IInv, TypeInv, TypeOK, RowsTypeOK
<1>2. \A q \in Projects : Fate'[q] = Fate[q]
  BY <1>1, FateOf, FateOfNext
<1> QED
  BY <1>2, FateOf DEF LedgerStep

LEMMA FinalizeIsSealOrAbandon ==
  ASSUME IInv, NEW p \in Projects, status[p] # "none", Finalize(p)
  PROVE  LedgerStep
<1> USE ConstantFacts DEF IInv, TypeInv, TypeOK, RowsTypeOK
<1>0. \A q \in Projects : completed[q] <=> status[q] \in Done
  BY DEF Lifecycle, RowsLifecycle
<1>1. CASE LeaveProject(p)
  BY <1>1, LedgerStutter DEF LeaveProject, rows
<1>2. CASE FailProject(p)
  <2>1. /\ ~completed[p] /\ status' = [status EXCEPT ![p] = "failed"]
        /\ completed' = [completed EXCEPT ![p] = TRUE]
        /\ UNCHANGED <<frozen, pointer>>
    BY <1>2 DEF FailProject
  <2>2. \A q \in Projects : Fate'[q] = IF q = p THEN "failed" ELSE Fate[q]
    BY <2>1, FateOf, FateOfNext
  <2>3. Fate' = [Fate EXCEPT ![p] = "failed"] /\ Fate[p] = "pending"
    BY <2>1, <2>2, FateOf
  <2>4. Ledger!Abandon(p)
    BY <2>1, <2>3 DEF Ledger!Abandon
  <2> QED
    BY <2>4 DEF LedgerStep, Ledger!Next
<1>3. CASE ActivateProject(p)
  <2>1. /\ ~completed[p]
        /\ \A q \in Projects : status'[q] = IF q = p THEN "active"
                                 ELSE IF EnvOf(q) = EnvOf(p) /\ status[q] = "active"
                                 THEN "rolled_back" ELSE status[q]
        /\ completed' = [completed EXCEPT ![p] = TRUE]
        /\ frozen' = [frozen EXCEPT ![p] = content[p]]
        /\ pointer' = [pointer EXCEPT ![p[1]] = p]
    BY <1>3 DEF ActivateProject, Snapshot, CompletedAfter, Superseded, EnvOf
  <2>a. \A q \in Projects : completed'[q] <=> status'[q] \in Done
    BY FinalizeRows DEF RowsLifecycle
  <2>2. ASSUME NEW q \in Projects
        PROVE  Fate'[q] = IF q = p THEN "sealed" ELSE Fate[q]
    <3>1. CASE q = p
      BY <1>0, <2>a, <2>1, <3>1, FateByStatus DEF Activated
    <3>2. CASE q # p
      <4>1. \/ status[q] \in Activated /\ status'[q] \in Activated
            \/ status'[q] = status[q]
        BY <2>1, <3>2 DEF Activated
      <4> QED  BY <1>0, <2>a, <3>2, <4>1, FateByStatus
    <3> QED  BY <3>1, <3>2
  <2>3. Fate' = [Fate EXCEPT ![p] = "sealed"] /\ Fate[p] = "pending"
    BY <2>1, <2>2, FateOf
  <2>4. Ledger!Seal(p)
    BY <2>1, <2>3 DEF Ledger!Seal
  <2> QED
    BY <2>4 DEF LedgerStep, Ledger!Next
<1> QED
  BY <1>1, <1>2, <1>3 DEF Finalize

LEMMA StepImplements == IInv /\ [Next]_vars => LedgerStep
<1> SUFFICES ASSUME IInv, [Next]_vars PROVE LedgerStep
  OBVIOUS
<1>1. CASE UNCHANGED <<status, completed, frozen, pointer>>
  BY <1>1, LedgerStutter
<1>2. ASSUME NEW o \in Operators, RequestStep(o)
      PROVE  LedgerStep
  BY <1>1, <1>2, DeployIsQueue, RollbackIsRestore, ReleaseIsSeal
  DEF RequestStep, DeployRead, Enqueue, RollbackRead, ReleaseRead, ReleaseVersion,
      ReleaseAbort, EnableRead, EnableCommit, RequestCrash, rows
<1>3. ASSUME NEW w \in Workers, BuildStep(w)
      PROVE  LedgerStep
  <2> DEFINE p == worker[w].id
  <2>1. worker[w].pc # "idle"
    BY <1>3
    DEF BuildStep, ResolveEndpoint, ResolveSchedule, MarkEndpointBuilding, StoreArtifact,
        FinalizeArtifact, FinalizeFails, BuildFails, MarkFailed, FinalizeFailure,
        JobCompletes, JobRejects
  <2>2. p \in Projects /\ status[p] # "none"
    BY <2>1, ConstantFacts DEF IInv, Lifecycle, BuildSound
  <2>3. CASE Finalize(p)
    BY <2>2, <2>3, FinalizeIsSealOrAbandon
  <2>4. CASE MarkProjectBuilding(p) /\ UNCHANGED <<completed, frozen, pointer>>
    BY <2>2, <2>4, BuildingIsStutter
  <2> QED
    BY <1>1, <1>3, <2>3, <2>4
    DEF BuildStep, ResolveEndpoint, ResolveSchedule, MarkEndpointBuilding, StoreArtifact,
        FinalizeArtifact, FinalizeFails, BuildFails, MarkFailed, FinalizeFailure,
        JobCompletes, JobRejects, rows
<1> QED
  BY <1>1, <1>2, <1>3
  DEF Next, SaveDraft, Disable, Archive, QueueStep, TakeJob, JobStalls, WorkerCrash, vars, rows

(* The deployment protocol implements the ledger: nothing observes more     *)
(* than deployments that fail for good or are sealed with their content in  *)
(* the step that makes them live.                                           *)
THEOREM DeploymentImplementsLedger == Spec => ImplementsLedger
<1>1. Init => Ledger!Init
  <2> SUFFICES ASSUME Init PROVE Ledger!Init
    OBVIOUS
  <2>1. Fate = [p \in Projects |-> "unborn"]
    BY DEF Init, Fate
  <2>2. frozen = [p \in Projects |-> [x \in Parts |-> 0]] /\ pointer = [v \in Envs |-> None]
    BY DEF Init
  <2>3. Envs = Ledger!Envs
    BY DEF Envs, Ledger!Envs
  <2> QED
    BY <2>1, <2>2, <2>3 DEF Ledger!Init
<1>2. IInv /\ [Next]_vars => [Ledger!Next]_<<Fate, frozen, pointer>>
  BY StepImplements DEF LedgerStep
<1> QED
  BY <1>1, <1>2, LifecycleHolds, PTL DEF Spec, ImplementsLedger, Ledger!Spec
=============================================================================
