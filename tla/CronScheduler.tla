----------------------------- MODULE CronScheduler -----------------------------
(***************************************************************************)
(* Cron bindings of one environment.  Workers reconcile BullMQ's job       *)
(* schedulers with the active schedule artifact, and process the jobs they *)
(* and the "Run now" button create: claim a durable run, take the          *)
(* binding's overlap lock, have the runtime invoke the Function, record    *)
(* the outcome, release the lock.  A periodic sweep settles abandoned runs.*)
(*                                                                         *)
(* Time is measured in units of the misfire grace (60 s): rows, jobs and   *)
(* invocations have an age, capped where the code stops telling ages apart.*)
(***************************************************************************)
EXTENDS Naturals

CONSTANTS
  Bindings,      \* cron bindings
  Deployments,   \* schedule artifacts
  Enabled,       \* Enabled[d]: the bindings enabled in artifact d
  MaxTicks,      \* bound: cron ticks of a binding
  Manual,        \* "Run now" requests
  Workers,       \* slots of the "schedules" worker
  Reconcilers,   \* concurrent reconciliations
  None,
  CronTimeout,   \* CRON_INVOCATION_TIMEOUT_MS, in units
  MaxFaults,     \* bound: faults
  Faults         \* the faults this instance exhibits

FaultKinds == {"workerCrash", "runtimeCrash", "dbError", "redisError", "slow", "rebuild"}

ASSUME ScheduleAssumption ==
  /\ CronTimeout \in Nat \ {0}
  /\ {MaxTicks, MaxFaults} \subseteq Nat
  /\ Enabled \in [Deployments -> SUBSET Bindings]
  /\ None \notin Deployments
  /\ Manual \cap (1..MaxTicks) = {}
  /\ Faults \subseteq FaultKinds

Grace == 1                              \* the misfire grace, and the lease's margin

(* Mutant: the lock lives no longer than an invocation *)
OverlapLockShort == CronTimeout
OverlapLock == CronTimeout + Grace      \* SCHEDULE_OVERLAP_LOCK_MS

StaleCutoff == CronTimeout + Grace      \* SCHEDULE_JOB_LOCK_DURATION_MS
OldAge == StaleCutoff + 1

Ticks == 1..MaxTicks
Runs  == Bindings \X Deployments \X (Ticks \cup Manual)

BindingOf(r)    == r[1]
DeploymentOf(r) == r[2]
IsManual(r)     == r[3] \in Manual

ASSUME NamesAssumption == None \notin Runs

VARIABLES
  live,       \* Environment.activeProjectDeploymentId, as its schedule artifact
  row,        \* ScheduleDeployment.status is "active"
  scheduler,  \* BullMQ job scheduler of each binding: its artifact, or None
  job,        \* BullMQ's jobs: state, and age since scheduledAt
  run,        \* ScheduledRun: status, and age since createdAt or triggeredAt
  lock,       \* Redis overlap lock of each binding: holder and time left
  exec,       \* the runtime's invocation for each run
  worker,     \* what every worker slot is doing
  rec,        \* what every reconciliation is doing
  faults      \* faults so far

vars == <<live, row, scheduler, job, run, lock, exec, worker, rec, faults>>

Open  == {"scheduled", "running"}
Final == {"success", "failed", "missed", "skipped"}

Job   == [state : {"none", "waiting", "active", "settled"}, age : 0..Grace + 1]
Run   == [status : {"none"} \cup Open \cup Final, age : 0..OldAge]
Lock  == [holder : Runs \cup {None}, left : 0..OverlapLock]
Exec  == [state : {"none", "running", "ended"}, age : 0..CronTimeout]
Slot  == [pc : {"idle", "taken", "claimed", "locked", "calling", "waiting", "succeeded",
                "refused", "errored", "releasing", "done"},
          run : Runs \cup {None}]
Pass  == [pc : {"idle", "recovered", "read", "applying"},
          want : [Bindings -> Deployments \cup {None}], todo : SUBSET Bindings]

Closed(status) == [status |-> status, age |-> 0]

NoJob   == [state |-> "none", age |-> 0]
NoRun   == [status |-> "none", age |-> 0]
NoLock  == [holder |-> None, left |-> 0]
Over    == [state |-> "ended", age |-> 0]
NoExec  == [state |-> "none", age |-> 0]
Resting == [pc |-> "idle", run |-> None]
NoPass  == [pc |-> "idle", want |-> [b \in Bindings |-> None], todo |-> {}]

TypeOK ==
  /\ live \in Deployments \cup {None}
  /\ row \in [Deployments -> BOOLEAN]
  /\ scheduler \in [Bindings -> Deployments \cup {None}]
  /\ job \in [Runs -> Job]
  /\ run \in [Runs -> Run]
  /\ lock \in [Bindings -> Lock]
  /\ exec \in [Runs -> Exec]
  /\ worker \in [Workers -> Slot]
  /\ rec \in [Reconcilers -> Pass]
  /\ faults \in 0..MaxFaults

Init ==
  /\ live = None
  /\ row = [d \in Deployments |-> FALSE]
  /\ scheduler = [b \in Bindings |-> None]
  /\ job = [r \in Runs |-> NoJob]
  /\ run = [r \in Runs |-> NoRun]
  /\ lock = [b \in Bindings |-> NoLock]
  /\ exec = [r \in Runs |-> NoExec]
  /\ worker = [w \in Workers |-> Resting]
  /\ rec = [p \in Reconcilers |-> NoPass]
  /\ faults = 0

Fault(kind) ==
  /\ kind \in Faults
  /\ faults < MaxFaults
  /\ faults' = faults + 1

-----------------------------------------------------------------------------
(* The environment's active deployment changes (ProjectDeployment).         *)

Activate(d) ==
  /\ d # live
  /\ live' = d
  /\ row' = [e \in Deployments |-> IF e = d THEN TRUE ELSE IF e = live THEN FALSE ELSE row[e]]
  /\ UNCHANGED <<scheduler, job, run, lock, exec, worker, rec, faults>>

(* The schedule build job is delivered again after activation and sets the   *)
(* artifact's row to building and deploying; finalization then leaves a      *)
(* completed deployment alone.                                               *)
RebuildArtifact(d) ==
  /\ Fault("rebuild")
  /\ row[d]
  /\ row' = [row EXCEPT ![d] = FALSE]
  /\ UNCHANGED <<live, scheduler, job, run, lock, exec, worker, rec>>

-----------------------------------------------------------------------------
(* reconcileSchedulers: once a minute in every worker, after every build and *)
(* on request.                                                               *)

(* Mutant: a claimed run that was never started is not recovered *)
AbandonedRunning(r) == run[r].status = "running" /\ run[r].age > StaleCutoff
Abandoned(r) == run[r].status \in Open /\ run[r].age > StaleCutoff

RecoverStaleRuns(p) ==
  /\ rec[p].pc = "idle"
  /\ run' = [r \in Runs |->
               IF ~Abandoned(r) THEN run[r]
               ELSE Closed(IF run[r].status = "scheduled" THEN "missed" ELSE "failed")]
  /\ rec' = [rec EXCEPT ![p].pc = "recovered"]
  /\ UNCHANGED <<live, row, scheduler, job, lock, exec, worker, faults>>

Wanted(b) ==
  IF live # None /\ row[live] /\ b \in Enabled[live] THEN live ELSE None

ReadArtifacts(p) ==
  /\ rec[p].pc = "recovered"
  /\ rec' = [rec EXCEPT ![p] = [pc |-> "read", want |-> [b \in Bindings |-> Wanted(b)],
                                todo |-> {}]]
  /\ UNCHANGED <<live, row, scheduler, job, run, lock, exec, worker, faults>>

(* Mutant: the schedulers of bindings that are gone are not removed *)
ToUpsert(p) == {b \in Bindings : rec[p].want[b] # None}
ToChange(p) == {b \in Bindings : rec[p].want[b] # None \/ scheduler[b] # None}

ListSchedulers(p) ==
  /\ rec[p].pc = "read"
  /\ rec' = [rec EXCEPT ![p].pc = "applying", ![p].todo = ToChange(p)]
  /\ UNCHANGED <<live, row, scheduler, job, run, lock, exec, worker, faults>>

(* removeJobScheduler for all that are not wanted, then upsertJobScheduler *)
ApplyScheduler(p, b) ==
  /\ rec[p].pc = "applying"
  /\ b \in rec[p].todo
  /\ rec[p].want[b] # None => \A c \in rec[p].todo : rec[p].want[c] # None
  /\ scheduler' = [scheduler EXCEPT ![b] = rec[p].want[b]]
  /\ rec' = [rec EXCEPT ![p].todo = rec[p].todo \ {b}]
  /\ UNCHANGED <<live, row, job, run, lock, exec, worker, faults>>

(* Done, or given up at the first query or command that throws *)
EndReconcile(p) ==
  /\ \/ /\ rec[p].pc = "applying"
        /\ rec[p].todo = {}
        /\ UNCHANGED faults
     \/ /\ rec[p].pc # "idle"
        /\ Fault("dbError") \/ Fault("redisError")
  /\ rec' = [rec EXCEPT ![p] = NoPass]
  /\ UNCHANGED <<live, row, scheduler, job, run, lock, exec, worker>>

-----------------------------------------------------------------------------
(* BullMQ: a job scheduler adds its ticks in order; a job is delivered at   *)
(* least once.                                                              *)

Fired(b) == {k \in Ticks : \E d \in Deployments : job[<<b, d, k>>].state # "none"}

FireScheduler(r) ==
  /\ r[3] \in Ticks \ Fired(BindingOf(r))
  /\ \A k \in 1..r[3] - 1 : k \in Fired(BindingOf(r))
  /\ scheduler[BindingOf(r)] = DeploymentOf(r)
  /\ job' = [job EXCEPT ![r].state = "waiting"]
  /\ UNCHANGED <<live, row, scheduler, run, lock, exec, worker, rec, faults>>

(* POST /api/cron-bindings/:id/run *)
RunNow(r) ==
  /\ IsManual(r)
  /\ \A q \in Runs : q[3] = r[3] => job[q].state = "none"
  /\ live = DeploymentOf(r)
  /\ BindingOf(r) \in Enabled[live]
  /\ job' = [job EXCEPT ![r].state = "waiting"]
  /\ UNCHANGED <<live, row, scheduler, run, lock, exec, worker, rec, faults>>

TakeJob(w, r) ==
  /\ worker[w].pc = "idle"
  /\ job[r].state = "waiting"
  /\ job' = [job EXCEPT ![r].state = "active"]
  /\ worker' = [worker EXCEPT ![w] = [pc |-> "taken", run |-> r]]
  /\ UNCHANGED <<live, row, scheduler, run, lock, exec, rec, faults>>

(* The worker that ran an active job is gone, or lost the job's lock *)
Redeliver(r) ==
  /\ job[r].state = "active"
  /\ \A w \in Workers : worker[w].run # r
  /\ job' = [job EXCEPT ![r].state = "waiting"]
  /\ UNCHANGED <<live, row, scheduler, run, lock, exec, worker, rec, faults>>

(* Success or failure: one attempt *)
SettleJob(w) ==
  /\ worker[w].pc = "done"
  /\ job' = [job EXCEPT ![worker[w].run].state = "settled"]
  /\ worker' = [worker EXCEPT ![w] = Resting]
  /\ UNCHANGED <<live, row, scheduler, run, lock, exec, rec, faults>>

(* The invocation goes on until the runtime notices *)
WorkerCrash(w) ==
  /\ Fault("workerCrash")
  /\ worker[w].pc # "idle"
  /\ worker' = [worker EXCEPT ![w] = Resting]
  /\ UNCHANGED <<live, row, scheduler, job, run, lock, exec, rec>>

-----------------------------------------------------------------------------
(* processScheduleJob.                                                      *)

Goto(w, pc) == worker' = [worker EXCEPT ![w].pc = pc]
Close(r, status) == run' = [run EXCEPT ![r] = Closed(status)]

ClaimRun(w) ==
  /\ worker[w].pc = "taken"
  /\ LET r == worker[w].run
         to == IF live = DeploymentOf(r) THEN "scheduled" ELSE "missed"
     IN  IF run[r].status # "none" THEN Goto(w, "done") /\ UNCHANGED run
         ELSE /\ run' = [run EXCEPT ![r] = [status |-> to, age |-> 0]]
              /\ Goto(w, IF to = "scheduled" THEN "claimed" ELSE "done")
  /\ UNCHANGED <<live, row, scheduler, job, lock, exec, rec, faults>>

IsMisfire(r) == ~IsManual(r) /\ job[r].age > Grace

(* The update asks for status "running", which a fresh claim never has *)
Misfire(w) ==
  /\ worker[w].pc = "claimed"
  /\ LET r == worker[w].run
     IN  /\ IsMisfire(r)
         /\ run' = [run EXCEPT ![r] = IF @.status = "running" THEN Closed("missed") ELSE @]
  /\ Goto(w, "done")
  /\ UNCHANGED <<live, row, scheduler, job, lock, exec, rec, faults>>

(* Mutant: SET without NX *)
HeldNever(b) == FALSE
Held(b) == lock[b].holder # None

TakeLock(w) ==
  /\ worker[w].pc = "claimed"
  /\ LET r == worker[w].run
         b == BindingOf(r)
     IN  /\ ~IsMisfire(r)
         /\ \/ /\ ~Held(b)
               /\ lock' = [lock EXCEPT ![b] = [holder |-> r, left |-> OverlapLock]]
               /\ Goto(w, "locked")
               /\ UNCHANGED run
            \/ /\ Held(b)
               /\ Close(r, "skipped")
               /\ Goto(w, "done")
               /\ UNCHANGED lock
  /\ UNCHANGED <<live, row, scheduler, job, exec, rec, faults>>

(* A query or command that throws before the try block ends the job *)
ClaimFails(w) ==
  /\ \/ worker[w].pc = "taken" /\ Fault("dbError")
     \/ worker[w].pc = "claimed" /\ Fault("redisError")
  /\ Goto(w, "done")
  /\ UNCHANGED <<live, row, scheduler, job, run, lock, exec, rec>>

StartRun(w) ==
  /\ worker[w].pc = "locked"
  /\ \/ /\ run' = [run EXCEPT ![worker[w].run] = [status |-> "running", age |-> 0]]
        /\ Goto(w, "calling")
        /\ UNCHANGED faults
     \/ /\ Fault("dbError")
        /\ Goto(w, "errored")
        /\ UNCHANGED run
  /\ UNCHANGED <<live, row, scheduler, job, lock, exec, rec>>

(* POST /internal/cron-runs/:runId/invoke *)
MayInvoke(r) ==
  /\ run[r].status = "running"
  /\ live = DeploymentOf(r)
  /\ BindingOf(r) \in Enabled[DeploymentOf(r)]

CallRuntime(w) ==
  /\ worker[w].pc = "calling"
  /\ LET r == worker[w].run IN
       \/ /\ MayInvoke(r)
          /\ exec' = [exec EXCEPT ![r] = [state |-> "running", age |-> 0]]
          /\ Goto(w, "waiting")
          /\ UNCHANGED faults
       \/ /\ ~MayInvoke(r)
          /\ Goto(w, "refused")
          /\ UNCHANGED <<exec, faults>>
       \/ /\ Fault("runtimeCrash")
          /\ Goto(w, "errored")
          /\ UNCHANGED exec
  /\ UNCHANGED <<live, row, scheduler, job, run, lock, rec>>

(* The Function returns, fails or is aborted, and the runtime answers *)
InvocationEnds(r) ==
  /\ exec[r].state = "running"
  /\ exec' = [exec EXCEPT ![r] = Over]
  /\ \E answer \in {"succeeded", "refused"} :
       worker' = [w \in Workers |-> IF worker[w].run = r /\ worker[w].pc = "waiting"
                                    THEN [worker[w] EXCEPT !.pc = answer] ELSE worker[w]]
  /\ UNCHANGED <<live, row, scheduler, job, run, lock, rec, faults>>

(* The fetch times out, or the runtime dies: its invocation ends unanswered *)
CallFails(w) ==
  /\ worker[w].pc = "waiting"
  /\ \/ exec[worker[w].run].age >= CronTimeout /\ UNCHANGED faults
     \/ Fault("runtimeCrash")
  /\ exec' = [exec EXCEPT ![worker[w].run] = Over]
  /\ Goto(w, "errored")
  /\ UNCHANGED <<live, row, scheduler, job, run, lock, rec>>

RecordRun(w) ==
  /\ worker[w].pc \in {"succeeded", "refused"}
  /\ \/ /\ Close(worker[w].run, IF worker[w].pc = "succeeded" THEN "success" ELSE "failed")
        /\ Goto(w, "releasing")
        /\ UNCHANGED faults
     \/ /\ Fault("dbError")
        /\ Goto(w, "errored")
        /\ UNCHANGED run
  /\ UNCHANGED <<live, row, scheduler, job, lock, exec, rec>>

(* catch: only a run that is still running is failed *)
FailRun(w) ==
  /\ worker[w].pc = "errored"
  /\ \/ /\ run' = [run EXCEPT ![worker[w].run] =
                     IF @.status = "running" THEN Closed("failed") ELSE @]
        /\ UNCHANGED faults
     \/ Fault("dbError") /\ UNCHANGED run
  /\ Goto(w, "releasing")
  /\ UNCHANGED <<live, row, scheduler, job, lock, exec, rec>>

(* finally: the lock is deleted if it still holds this worker's token *)
ReleaseLock(w) ==
  /\ worker[w].pc = "releasing"
  /\ LET b == BindingOf(worker[w].run) IN
       \/ /\ lock' = IF lock[b].holder = worker[w].run
                     THEN [lock EXCEPT ![b] = NoLock] ELSE lock
          /\ UNCHANGED faults
       \/ Fault("redisError") /\ UNCHANGED lock
  /\ Goto(w, "done")
  /\ UNCHANGED <<live, row, scheduler, job, run, exec, rec>>

-----------------------------------------------------------------------------
(* Time.  A worker's steps between two waits take no time unless it is slow; *)
(* an invocation never outlives CronTimeout.                                 *)

Prompt ==
  /\ "slow" \in Faults \/ \A w \in Workers : worker[w].pc \in {"idle", "taken", "waiting"}
  /\ \A r \in Runs : exec[r].state = "running" => exec[r].age < CronTimeout

Older(n, cap) == IF n < cap THEN n + 1 ELSE cap

Tick ==
  /\ Prompt
  /\ job' = [r \in Runs |-> IF job[r].state \in {"waiting", "active"} /\ ~IsManual(r)
                            THEN [job[r] EXCEPT !.age = Older(job[r].age, Grace + 1)]
                            ELSE job[r]]
  /\ run' = [r \in Runs |-> IF run[r].status \in Open
                            THEN [run[r] EXCEPT !.age = Older(run[r].age, OldAge)]
                            ELSE run[r]]
  /\ lock' = [b \in Bindings |-> IF lock[b].left > 1
                                 THEN [lock[b] EXCEPT !.left = lock[b].left - 1]
                                 ELSE NoLock]
  /\ exec' = [r \in Runs |-> IF exec[r].state = "running"
                             THEN [exec[r] EXCEPT !.age = exec[r].age + 1]
                             ELSE exec[r]]
  /\ UNCHANGED <<live, row, scheduler, worker, rec, faults>>

-----------------------------------------------------------------------------
Reconcile(p) ==
  \/ RecoverStaleRuns(p) \/ ReadArtifacts(p) \/ ListSchedulers(p)
  \/ \E b \in Bindings : ApplyScheduler(p, b)
  \/ EndReconcile(p)

Process(w) ==
  \/ ClaimRun(w) \/ Misfire(w) \/ TakeLock(w) \/ ClaimFails(w) \/ StartRun(w)
  \/ CallRuntime(w) \/ CallFails(w) \/ RecordRun(w) \/ FailRun(w)
  \/ ReleaseLock(w) \/ SettleJob(w)

Deliver ==
  \/ \E r \in Runs : FireScheduler(r) \/ RunNow(r) \/ Redeliver(r)
  \/ \E w \in Workers, r \in Runs : TakeJob(w, r)

Next ==
  \/ \E d \in Deployments : Activate(d) \/ RebuildArtifact(d)
  \/ \E p \in Reconcilers : Reconcile(p)
  \/ Deliver
  \/ \E w \in Workers : Process(w) \/ WorkerCrash(w)
  \/ \E r \in Runs : InvocationEnds(r)
  \/ Tick

Spec == Init /\ [][Next]_vars

(* Time passes, workers run their steps and BullMQ delivers; the timer starts *)
(* a reconciliation every minute and each one runs to its end.  Nobody is     *)
(* obliged to deploy, to press "Run now" or to fail.                          *)
Fairness ==
  /\ WF_vars(Tick)
  /\ \A p \in Reconcilers : WF_vars(Reconcile(p))
  /\ \A w \in Workers : WF_vars(Process(w))
  /\ \A r \in Runs : WF_vars(InvocationEnds(r)) /\ WF_vars(Redeliver(r))
  /\ WF_vars(\E w \in Workers, r \in Runs : TakeJob(w, r))

FairSpec == Spec /\ Fairness

-----------------------------------------------------------------------------
(* "Each binding permits one active run": two invocations of one binding    *)
(* never overlap, whatever their origin or deployment, although a worker    *)
(* may die holding the lock while the runtime goes on with its invocation   *)
(* (scheduler.ts, SCHEDULE_OVERLAP_LOCK_MS).                                *)
OneActiveRun ==
  \A q, r \in Runs :
    BindingOf(q) = BindingOf(r) /\ exec[q].state = "running" /\ exec[r].state = "running"
      => q = r

(* "Queue redelivery is durably deduplicated": the invocation of a run      *)
(* begins at most once, even with slow workers that lose their lock.        *)
NoRestart ==
  \A r \in Runs : exec[r].state # "none" /\ exec'[r].state = "running"
    => exec[r].state = "running" /\ exec'[r].age >= exec[r].age
RunsAtMostOnce == [][NoRestart]_vars

(* A run's recorded outcome is final: recovery and the worker never         *)
(* overwrite each other.                                                    *)
KeepsFinal == \A r \in Runs : run[r].status \in Final => run'[r].status = run[r].status
OutcomeFinal == [][KeepsFinal]_vars

(* Every claimed run gets a final status: workers that die or lose the      *)
(* database leave it to the sweep.                                          *)
RunsSettle == \A r \in Runs : run[r].status \in Open ~> run[r].status \in Final

(* Once an environment's deployment stays, the job schedulers become and    *)
(* stay those of its artifact, although a reconciliation that read an older *)
(* one may still be writing.                                                *)
InForce(d) == \A b \in Bindings : scheduler[b] = IF b \in Enabled[d] THEN d ELSE None
SchedulersConverge ==
  \A d \in Deployments : <>[](live = d /\ row[d]) => <>[]InForce(d)

(* The runs implement the ledger: claimed once, executed at most once and    *)
(* alone, closed only when over.                                             *)
RunFate == [r \in Runs |-> IF run[r].status = "none" THEN "new"
                           ELSE IF run[r].status \in Open THEN "open" ELSE "closed"]
Stage == [r \in Runs |-> IF exec[r].state = "none" THEN "unstarted"
                         ELSE IF exec[r].state = "running" THEN "executing" ELSE "executed"]
Ledger == INSTANCE RunLedger WITH Binding <- BindingOf, fate <- RunFate, stage <- Stage
ImplementsRunLedger == Ledger!Spec
=============================================================================
