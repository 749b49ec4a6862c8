-------------------------- MODULE CronSchedulerProofs --------------------------
(* Theorems about CronScheduler, for every value of its constants. *)
EXTENDS CronScheduler, TLAPS

(* A slot that is not idle works on a run. *)
SlotsBusy == \A w \in Workers : worker[w].pc # "idle" => worker[w].run \in Runs

TypeInv == TypeOK /\ SlotsBusy

LEMMA ConstantFacts ==
  /\ CronTimeout \in Nat /\ CronTimeout >= 1
  /\ Grace = 1 /\ OverlapLock = CronTimeout + 1 /\ StaleCutoff = CronTimeout + 1
  /\ OldAge = CronTimeout + 2
  /\ MaxFaults \in Nat
  /\ None \notin Deployments /\ None \notin Runs
  BY ScheduleAssumption, NamesAssumption
  DEF Grace, OverlapLock, StaleCutoff, OldAge

LEMMA RunFacts ==
  ASSUME NEW r \in Runs
  PROVE  BindingOf(r) \in Bindings /\ DeploymentOf(r) \in Deployments
  BY DEF Runs, BindingOf, DeploymentOf

LEMMA RecordFacts ==
  /\ NoJob \in Job /\ NoRun \in Run /\ NoLock \in Lock /\ NoExec \in Exec /\ Over \in Exec
  /\ Resting \in Slot /\ NoPass \in Pass
  /\ \A s \in Final : Closed(s) \in Run
  BY ConstantFacts
  DEF NoJob, Job, NoRun, Run, NoLock, Lock, NoExec, Over, Exec, Resting, Slot, NoPass, Pass,
      Closed, Open, Final

LEMMA InitType == Init => TypeInv
<1> SUFFICES ASSUME Init PROVE TypeInv
  OBVIOUS
<1> QED
  BY RecordFacts, ConstantFacts DEF Init, TypeInv, TypeOK, SlotsBusy, Resting

(* What the updates of one slot and of one run's records do. *)
LEMMA Moved ==
  ASSUME TypeInv, NEW w \in Workers, NEW pc, Goto(w, pc)
  PROVE  /\ worker' = [worker EXCEPT ![w] = [worker[w] EXCEPT !.pc = pc]]
         /\ \A v \in Workers : /\ worker'[v].run = worker[v].run
                               /\ worker'[v].pc = IF v = w THEN pc ELSE worker[v].pc
         /\ pc \in {"taken", "claimed", "locked", "calling", "waiting", "succeeded",
                    "refused", "errored", "releasing", "done"} /\ worker[w].pc # "idle"
              => worker' \in [Workers -> Slot] /\ SlotsBusy'
  BY DEF TypeInv, TypeOK, SlotsBusy, Goto, Slot

LEMMA ReconcileType ==
  ASSUME TypeInv, NEW p \in Reconcilers, Reconcile(p)
  PROVE  TypeInv'
<1>1. UNCHANGED <<live, row, job, lock, exec, worker>>
  BY DEF Reconcile, RecoverStaleRuns, ReadArtifacts, ListSchedulers, ApplyScheduler, EndReconcile
<1>2. run' \in [Runs -> Run]
  <2>1. CASE RecoverStaleRuns(p)
    BY <2>1, RecordFacts DEF RecoverStaleRuns, TypeInv, TypeOK, Final
  <2>2. CASE UNCHANGED run
    BY <2>2 DEF TypeInv, TypeOK
  <2> QED
    BY <2>1, <2>2
    DEF Reconcile, ReadArtifacts, ListSchedulers, ApplyScheduler, EndReconcile
<1>3. scheduler' \in [Bindings -> Deployments \cup {None}]
  BY DEF TypeInv, TypeOK, Pass, Reconcile, RecoverStaleRuns, ReadArtifacts, ListSchedulers,
         ApplyScheduler, EndReconcile
<1>4. rec' \in [Reconcilers -> Pass]
  <2>1. rec \in [Reconcilers -> Pass] /\ rec[p] \in Pass
    BY DEF TypeInv, TypeOK
  <2>2. [b \in Bindings |-> Wanted(b)] \in [Bindings -> Deployments \cup {None}]
    BY DEF Wanted, TypeInv, TypeOK
  <2>3. \A S \in SUBSET Bindings :
          /\ [rec EXCEPT ![p].todo = S] \in [Reconcilers -> Pass]
          /\ [rec EXCEPT ![p].pc = "applying", ![p].todo = S] \in [Reconcilers -> Pass]
    BY <2>1 DEF Pass
  <2>4. [rec EXCEPT ![p].pc = "recovered"] \in [Reconcilers -> Pass]
    BY <2>1 DEF Pass
  <2>5. [pc |-> "read", want |-> [b \in Bindings |-> Wanted(b)], todo |-> {}] \in Pass
    BY <2>2 DEF Pass
  <2>6. CASE ReadArtifacts(p)
    BY <2>1, <2>5, <2>6 DEF ReadArtifacts
  <2>7. ASSUME NEW b \in Bindings, ApplyScheduler(p, b)
        PROVE  rec' \in [Reconcilers -> Pass]
    <3>1. rec[p].todo \ {b} \in SUBSET Bindings
      BY <2>1 DEF Pass
    <3> QED  BY <2>3, <2>7, <3>1 DEF ApplyScheduler
  <2>8. CASE ListSchedulers(p)
    <3>1. ToChange(p) \in SUBSET Bindings
      BY DEF ToChange
    <3> QED  BY <2>3, <2>8, <3>1 DEF ListSchedulers
  <2> QED
    BY <2>1, <2>4, <2>6, <2>7, <2>8, RecordFacts
    DEF Reconcile, RecoverStaleRuns, EndReconcile
<1>5. faults' \in 0..MaxFaults
  BY ConstantFacts DEF TypeInv, TypeOK, Fault, Reconcile, RecoverStaleRuns, ReadArtifacts,
                       ListSchedulers, ApplyScheduler, EndReconcile
<1> QED
  BY <1>1, <1>2, <1>3, <1>4, <1>5 DEF TypeInv, TypeOK, SlotsBusy

LEMMA DeliverType ==
  ASSUME TypeInv, Deliver
  PROVE  TypeInv'
<1>1. UNCHANGED <<live, row, scheduler, run, lock, exec, rec, faults>>
  BY DEF Deliver, FireScheduler, RunNow, TakeJob, Redeliver
<1>2. job' \in [Runs -> Job]
  <2>1. \A r \in Runs, st \in {"none", "waiting", "active", "settled"} :
          [job EXCEPT ![r].state = st] \in [Runs -> Job]
    BY DEF TypeInv, TypeOK, Job
  <2>2. \E r \in Runs, st \in {"waiting", "active"} : job' = [job EXCEPT ![r].state = st]
    BY DEF Deliver, FireScheduler, RunNow, TakeJob, Redeliver
  <2>3. PICK r \in Runs, st \in {"waiting", "active"} : job' = [job EXCEPT ![r].state = st]
    BY <2>2
  <2> QED
    BY <2>1, <2>3
<1>3. worker' \in [Workers -> Slot] /\ SlotsBusy'
  <2>1. CASE UNCHANGED worker
    BY <2>1 DEF TypeInv, TypeOK, SlotsBusy
  <2>2. ASSUME NEW w \in Workers, NEW r \in Runs, TakeJob(w, r)
        PROVE  worker' \in [Workers -> Slot] /\ SlotsBusy'
    <3>1. [pc |-> "taken", run |-> r] \in Slot
      BY DEF Slot
    <3> QED  BY <2>2, <3>1 DEF TakeJob, TypeInv, TypeOK, SlotsBusy
  <2> QED
    BY <2>1, <2>2 DEF Deliver, FireScheduler, RunNow, Redeliver
<1> QED
  BY <1>1, <1>2, <1>3 DEF TypeInv, TypeOK

(* A step of processScheduleJob touches its run, its binding's lock and the *)
(* run's invocation and job.                                                *)
LEMMA ProcessType ==
  ASSUME TypeInv, NEW w \in Workers, Process(w)
  PROVE  TypeInv'
<1> DEFINE r == worker[w].run
           b == BindingOf(r)
<1>1. UNCHANGED <<live, row, scheduler, rec>>
  BY DEF Process, ClaimRun, Misfire, TakeLock, ClaimFails, StartRun, CallRuntime, CallFails,
         RecordRun, FailRun, ReleaseLock, SettleJob
<1>2. r \in Runs /\ b \in Bindings /\ worker[w].pc # "idle"
  <2>1. worker[w].pc # "idle"
    BY DEF Process, ClaimRun, Misfire, TakeLock, ClaimFails, StartRun, CallRuntime, CallFails,
           RecordRun, FailRun, ReleaseLock, SettleJob
  <2> QED  BY <2>1, RunFacts DEF TypeInv, SlotsBusy
<1>3. worker' \in [Workers -> Slot] /\ SlotsBusy'
  <2>1. CASE SettleJob(w)
    BY <2>1, RecordFacts DEF SettleJob, TypeInv, TypeOK, SlotsBusy, Resting
  <2>2. CASE ~SettleJob(w)
    <3>1. \E pc \in {"claimed", "locked", "calling", "waiting", "refused", "errored",
                      "releasing", "done"} : Goto(w, pc)
      BY <2>2 DEF Process, ClaimRun, Misfire, TakeLock, ClaimFails, StartRun, CallRuntime,
                  CallFails, RecordRun, FailRun, ReleaseLock
    <3> QED  BY <1>2, <3>1, Moved
  <2> QED  BY <2>1, <2>2
<1>4. run' \in [Runs -> Run]
  <2>1. \A st \in Open : [status |-> st, age |-> 0] \in Run
    BY ConstantFacts DEF Run, Open
  <2>2. \A x \in Run : [run EXCEPT ![r] = x] \in [Runs -> Run]
    BY DEF TypeInv, TypeOK
  <2>3. \A st \in Open \cup Final : [run EXCEPT ![r] = [status |-> st, age |-> 0]] \in [Runs -> Run]
    BY <2>1, <2>2, RecordFacts DEF Closed
  <2>4. run \in [Runs -> Run] /\ run[r] \in Run
    BY <1>2 DEF TypeInv, TypeOK
  <2>5. CASE UNCHANGED run
    BY <2>4, <2>5
  <2>6. CASE \E st \in Open \cup Final : run' = [run EXCEPT ![r] = [status |-> st, age |-> 0]]
    BY <2>3, <2>6
  <2>7. CASE Misfire(w) \/ FailRun(w)
    <3>1. \A x \in {Closed("missed"), Closed("failed"), run[r]} : x \in Run
      BY <2>4, RecordFacts DEF Final
    <3>2. \/ UNCHANGED run
          \/ \E x \in {Closed("missed"), Closed("failed"), run[r]} : run' = [run EXCEPT ![r] = x]
      BY <2>4, <2>7 DEF Misfire, FailRun
    <3> QED  BY <2>2, <2>4, <3>1, <3>2
  <2> QED
    BY <2>5, <2>6, <2>7
    DEF Process, ClaimRun, TakeLock, ClaimFails, StartRun, CallRuntime, CallFails,
        RecordRun, ReleaseLock, SettleJob, Close, Closed, Open, Final
<1>5. lock' \in [Bindings -> Lock]
  <2>1. [holder |-> r, left |-> OverlapLock] \in Lock
    BY <1>2, ConstantFacts DEF Lock
  <2> QED
    BY <1>2, <2>1, RecordFacts
    DEF TypeInv, TypeOK, Process, ClaimRun, Misfire, TakeLock, ClaimFails, StartRun,
        CallRuntime, CallFails, RecordRun, FailRun, ReleaseLock, SettleJob
<1>6. exec' \in [Runs -> Exec]
  <2>1. [state |-> "running", age |-> 0] \in Exec
    BY ConstantFacts DEF Exec
  <2> QED
    BY <1>2, <2>1, RecordFacts
    DEF TypeInv, TypeOK, Process, ClaimRun, Misfire, TakeLock, ClaimFails, StartRun,
        CallRuntime, CallFails, RecordRun, FailRun, ReleaseLock, SettleJob
<1>7. job' \in [Runs -> Job]
  <2>1. [job EXCEPT ![r].state = "settled"] \in [Runs -> Job]
    BY <1>2 DEF TypeInv, TypeOK, Job
  <2> QED
    BY <2>1 DEF TypeInv, TypeOK, Process, ClaimRun, Misfire, TakeLock, ClaimFails, StartRun,
                CallRuntime, CallFails, RecordRun, FailRun, ReleaseLock, SettleJob
<1>8. faults' \in 0..MaxFaults
  BY ConstantFacts
  DEF Fault, TypeInv, TypeOK, Process, ClaimRun, Misfire, TakeLock, ClaimFails, StartRun,
      CallRuntime, CallFails, RecordRun, FailRun, ReleaseLock, SettleJob
<1> QED
  BY <1>1, <1>3, <1>4, <1>5, <1>6, <1>7, <1>8 DEF TypeInv, TypeOK

LEMMA TickType ==
  ASSUME TypeInv, Tick
  PROVE  TypeInv'
<1>1. \A cap \in Nat : \A n \in 0..cap : Older(n, cap) \in 0..cap
  BY DEF Older
<1>2. job' \in [Runs -> Job]
  <2>1. ASSUME NEW r \in Runs
        PROVE  [job[r] EXCEPT !.age = Older(job[r].age, Grace + 1)] \in Job /\ job[r] \in Job
    <3>1. job[r] \in Job /\ job[r].age \in 0..Grace + 1
      BY DEF TypeInv, TypeOK, Job
    <3>2. Older(job[r].age, Grace + 1) \in 0..Grace + 1
      <4>1. Grace + 1 \in Nat
        BY ConstantFacts
      <4> QED  BY <1>1, <3>1, <4>1
    <3> QED  BY <3>1, <3>2 DEF Job
  <2> QED  BY <2>1 DEF Tick
<1>3. run' \in [Runs -> Run]
  <2>1. ASSUME NEW r \in Runs
        PROVE  [run[r] EXCEPT !.age = Older(run[r].age, OldAge)] \in Run /\ run[r] \in Run
    <3>1. run[r] \in Run /\ run[r].age \in 0..OldAge /\ OldAge \in Nat
      BY ConstantFacts DEF TypeInv, TypeOK, Run
    <3>2. Older(run[r].age, OldAge) \in 0..OldAge
      BY <1>1, <3>1
    <3> QED  BY <3>1, <3>2 DEF Run
  <2> QED  BY <2>1 DEF Tick
<1>4. lock' \in [Bindings -> Lock]
  <2>1. ASSUME NEW b \in Bindings, lock[b].left > 1
        PROVE  [lock[b] EXCEPT !.left = lock[b].left - 1] \in Lock
    BY <2>1, ConstantFacts DEF TypeInv, TypeOK, Lock
  <2> QED  BY <2>1, RecordFacts DEF Tick
<1>5. exec' \in [Runs -> Exec]
  <2>1. ASSUME NEW r \in Runs, exec[r].state = "running"
        PROVE  [exec[r] EXCEPT !.age = exec[r].age + 1] \in Exec
    <3>1. exec[r].age < CronTimeout
      BY <2>1 DEF Tick, Prompt
    <3> QED  BY <2>1, <3>1, ConstantFacts DEF TypeInv, TypeOK, Exec
  <2> QED  BY <2>1 DEF Tick, TypeInv, TypeOK
<1> QED
  BY <1>2, <1>3, <1>4, <1>5 DEF Tick, TypeInv, TypeOK, SlotsBusy

LEMMA RuntimeType ==
  ASSUME TypeInv, NEW r \in Runs, InvocationEnds(r)
  PROVE  TypeInv'
<1>1. exec' \in [Runs -> Exec]
  BY RecordFacts DEF InvocationEnds, TypeInv, TypeOK
<1>2. worker' \in [Workers -> Slot] /\ SlotsBusy'
  <2>1. PICK answer \in {"succeeded", "refused"} :
          worker' = [w \in Workers |-> IF worker[w].run = r /\ worker[w].pc = "waiting"
                                       THEN [worker[w] EXCEPT !.pc = answer] ELSE worker[w]]
    BY DEF InvocationEnds
  <2>2. \A w \in Workers : [worker[w] EXCEPT !.pc = answer] \in Slot /\ worker[w] \in Slot
    BY DEF TypeInv, TypeOK, Slot
  <2>3. \A w \in Workers : worker'[w].run = worker[w].run /\ (worker'[w].pc # "idle" => worker[w].pc # "idle")
    BY <2>1 DEF TypeInv, TypeOK, Slot
  <2> QED  BY <2>1, <2>2, <2>3 DEF TypeInv, SlotsBusy
<1> QED
  BY <1>1, <1>2 DEF InvocationEnds, TypeInv, TypeOK

LEMMA NextType == TypeInv /\ [Next]_vars => TypeInv'
<1> SUFFICES ASSUME TypeInv, [Next]_vars PROVE TypeInv'
  OBVIOUS
<1>1. ASSUME NEW d \in Deployments, Activate(d) \/ RebuildArtifact(d)
      PROVE  TypeInv'
  <2>1. live' \in Deployments \cup {None} /\ row' \in [Deployments -> BOOLEAN]
    BY <1>1 DEF Activate, RebuildArtifact, TypeInv, TypeOK
  <2>2. faults' \in 0..MaxFaults
    <3>1. UNCHANGED faults \/ (faults < MaxFaults /\ faults' = faults + 1)
      BY <1>1 DEF Activate, RebuildArtifact, Fault
    <3> QED  BY <3>1, ConstantFacts DEF TypeInv, TypeOK
  <2>3. UNCHANGED <<scheduler, job, run, lock, exec, worker, rec>>
    BY <1>1 DEF Activate, RebuildArtifact
  <2> QED
    BY <2>1, <2>2, <2>3 DEF TypeInv, TypeOK, SlotsBusy
<1>2. ASSUME NEW w \in Workers, WorkerCrash(w)
      PROVE  TypeInv'
  BY <1>2, ConstantFacts, RecordFacts
  DEF WorkerCrash, Fault, TypeInv, TypeOK, SlotsBusy, Resting
<1>3. CASE UNCHANGED vars
  BY <1>3 DEF vars, TypeInv, TypeOK, SlotsBusy
<1> QED
  BY <1>1, <1>2, <1>3, ReconcileType, DeliverType, ProcessType, TickType, RuntimeType DEF Next

(* All state stays inside its bounds; an invocation never outlives          *)
(* CRON_INVOCATION_TIMEOUT_MS, on which the lock and the cutoff rely.       *)
THEOREM TypeCorrect == Spec => []TypeOK
<1>1. TypeInv => TypeOK
  BY DEF TypeInv
<1> QED
  BY <1>1, InitType, NextType, PTL DEF Spec

-----------------------------------------------------------------------------
(* A run begins at most once, with workers as slow as they like.  A claim   *)
(* needs a run without a row and rows never go away, so at most one slot    *)
(* is past the claim of a run; it calls the runtime once.                   *)

Claimed == {"claimed", "locked", "calling", "waiting",
            "succeeded", "refused", "errored", "releasing"}
Before  == {"claimed", "locked", "calling"}
After   == {"succeeded", "refused", "errored", "releasing"}

OneClaim ==
  \A v, w \in Workers :
    worker[v].pc \in Claimed /\ worker[w].pc \in Claimed /\ worker[v].run = worker[w].run
      => v = w

SlotSound(slot) ==
  LET r == slot.run IN
    /\ slot.pc \in Claimed => run[r].status # "none"
    /\ slot.pc \in Before => exec[r].state = "none"
    /\ slot.pc = "waiting" => exec[r].state = "running"
    /\ slot.pc \in After => exec[r].state # "running"

SlotsSound == \A w \in Workers : SlotSound(worker[w])

BegunClaimed == \A r \in Runs : exec[r].state # "none" => run[r].status # "none"

Claims == OneClaim /\ SlotsSound /\ BegunClaimed

LEMMA InitClaims == Init => Claims
  BY DEF Init, Claims, OneClaim, SlotsSound, SlotSound, BegunClaimed, Resting, Claimed, Before,
         After, NoExec

(* Steps that only close runs and leave slots and invocations alone. *)
LEMMA ClosingKeepsClaims ==
  ASSUME TypeInv, Claims, UNCHANGED <<exec, worker>>,
         \A r \in Runs : run[r].status # "none" => run'[r].status # "none"
  PROVE  Claims'
<1>1. OneClaim'
  BY DEF Claims, OneClaim
<1>2. \A w \in Workers : worker[w].pc \in Claimed => worker[w].run \in Runs
  BY DEF TypeInv, SlotsBusy, Claimed
<1>3. SlotsSound'
  BY <1>2 DEF Claims, SlotsSound, SlotSound
<1>4. BegunClaimed'
  BY DEF Claims, BegunClaimed
<1> QED
  BY <1>1, <1>3, <1>4 DEF Claims

(* A step of one slot that touches the records of its own run only. *)
LEMMA SlotStepKeepsClaims ==
  ASSUME TypeInv, Claims, NEW w \in Workers, NEW r \in Runs, worker[w].run = r,
         \A v \in Workers \ {w} : worker'[v] = worker[v],
         worker'[w].run \in {r, None},
         worker'[w].pc \in Claimed => worker'[w].run = r,
         \A q \in Runs \ {r} : run'[q] = run[q] /\ exec'[q] = exec[q],
         run[r].status # "none" => run'[r].status # "none",
         worker'[w].pc \in Claimed => worker[w].pc \in Claimed \/ run[r].status = "none",
         worker[w].pc \in Claimed \/ exec' = exec,
         SlotSound(worker[w])',
         exec'[r].state # "none" => run'[r].status # "none"
  PROVE  Claims'
<1>1. OneClaim'
  <2> SUFFICES ASSUME NEW u \in Workers, NEW v \in Workers,
                      worker'[u].pc \in Claimed, worker'[v].pc \in Claimed,
                      worker'[u].run = worker'[v].run, u # v
               PROVE  FALSE
    BY DEF OneClaim
  <2>1. CASE u # w /\ v # w
    BY <2>1 DEF Claims, OneClaim
  <2>2. ASSUME NEW o \in Workers \ {w}, worker'[o].pc \in Claimed, worker'[o].run = worker'[w].run,
               worker'[w].pc \in Claimed
        PROVE  FALSE
    <3>1. worker[o].pc \in Claimed /\ worker[o].run = r
      BY <2>2
    <3>2. run[r].status # "none"
      BY <3>1 DEF Claims, SlotsSound, SlotSound
    <3> QED
      BY <2>2, <3>1, <3>2 DEF Claims, OneClaim
  <2> QED
    BY <2>1, <2>2
<1>2. SlotsSound'
  <2> SUFFICES ASSUME NEW v \in Workers PROVE SlotSound(worker[v])'
    BY DEF SlotsSound
  <2>1. CASE v = w
    BY <2>1
  <2>2. CASE v # w /\ worker[v].pc \notin Claimed
    BY <2>2 DEF SlotSound, Claimed, Before, After
  <2>3. CASE v # w /\ worker[v].pc \in Claimed
    <3>1. worker'[v] = worker[v] /\ worker[v].run \in Runs /\ SlotSound(worker[v])
      BY <2>3 DEF TypeInv, SlotsBusy, Claims, SlotsSound, Claimed
    <3>2. exec'[worker[v].run] = exec[worker[v].run]
      BY <2>3, <3>1 DEF Claims, OneClaim
    <3>3. run[worker[v].run].status # "none" => run'[worker[v].run].status # "none"
      BY <3>1
    <3> QED
      BY <3>1, <3>2, <3>3 DEF SlotSound
  <2> QED
    BY <2>1, <2>2, <2>3
<1>3. BegunClaimed'
  BY DEF Claims, BegunClaimed
<1> QED
  BY <1>1, <1>2, <1>3 DEF Claims

LEMMA ProcessKeepsClaims ==
  ASSUME TypeInv, Claims, NEW w \in Workers, Process(w)
  PROVE  Claims'
<1> DEFINE r == worker[w].run
<1>1. worker[w].pc # "idle" /\ r \in Runs
  BY DEF Process, ClaimRun, Misfire, TakeLock, ClaimFails, StartRun, CallRuntime, CallFails,
         RecordRun, FailRun, ReleaseLock, SettleJob, TypeInv, SlotsBusy
<1>2. SlotSound(worker[w]) /\ worker \in [Workers -> Slot] /\ run \in [Runs -> Run]
        /\ exec \in [Runs -> Exec]
  BY DEF Claims, SlotsSound, TypeInv, TypeOK
<1>3. \A pc : Goto(w, pc) =>
         /\ \A v \in Workers \ {w} : worker'[v] = worker[v]
         /\ worker'[w].run = r /\ worker'[w].pc = pc
  BY <1>2 DEF Goto, Slot
<1>4. ASSUME ClaimRun(w) \/ ClaimFails(w)
      PROVE  Claims'
  <2>1. exec' = exec /\ worker[w].pc \in {"taken", "claimed"}
    BY <1>4 DEF ClaimRun, ClaimFails
  <2>2. \E pc \in {"claimed", "done"} : Goto(w, pc) /\ (pc = "claimed" => run[r].status = "none")
    BY <1>4 DEF ClaimRun, ClaimFails
  <2>3. \A q \in Runs \ {r} : run'[q] = run[q]
    BY <1>2, <1>4 DEF ClaimRun, ClaimFails
  <2>4. run[r].status # "none" => run'[r].status # "none"
    BY <1>4 DEF ClaimRun, ClaimFails
  <2>5. worker'[w].pc = "claimed" => run'[r].status # "none" /\ exec[r].state = "none"
    BY <1>1, <1>2, <1>3, <1>4 DEF ClaimRun, ClaimFails, Claims, BegunClaimed
  <2>6. SlotSound(worker[w])'
    BY <1>3, <2>1, <2>2, <2>5 DEF SlotSound, Claimed, Before, After
  <2>7. exec'[r].state # "none" => run'[r].status # "none"
    BY <1>1, <2>1, <2>4 DEF Claims, BegunClaimed
  <2>8. worker'[w].pc \in Claimed => run[r].status = "none"
    BY <1>3, <2>2 DEF Claimed
  <2> QED
    BY <1>1, <1>3, <2>1, <2>2, <2>3, <2>4, <2>6, <2>7, <2>8, SlotStepKeepsClaims
<1>5. ASSUME Misfire(w) \/ TakeLock(w) \/ StartRun(w) \/ RecordRun(w) \/ FailRun(w)
               \/ ReleaseLock(w)
      PROVE  Claims'
  <2>1. exec' = exec /\ worker[w].pc \in Claimed \ {"calling", "waiting"}
    BY <1>5 DEF Misfire, TakeLock, StartRun, RecordRun, FailRun, ReleaseLock, Claimed
  <2>2. \E pc \in {"locked", "calling", "errored", "releasing", "done"} :
          /\ Goto(w, pc)
          /\ pc \in {"locked", "calling"} => worker[w].pc \in Before
    BY <1>5 DEF Misfire, TakeLock, StartRun, RecordRun, FailRun, ReleaseLock, Before
  <2>3. \A q \in Runs \ {r} : run'[q] = run[q]
    BY <1>1, <1>2, <1>5 DEF Misfire, TakeLock, StartRun, RecordRun, FailRun, ReleaseLock, Close
  <2>4. run[r].status # "none" /\ run'[r].status # "none"
    <3>1. run[r].status # "none"
      BY <1>2, <2>1 DEF SlotSound
    <3> QED
      BY <1>1, <1>2, <1>5, <3>1
      DEF Misfire, TakeLock, StartRun, RecordRun, FailRun, ReleaseLock, Close, Closed
  <2>5. SlotSound(worker[w])'
    BY <1>2, <1>3, <2>1, <2>2, <2>4 DEF SlotSound, Claimed, Before, After
  <2> QED
    BY <1>1, <1>3, <2>1, <2>2, <2>3, <2>4, <2>5, SlotStepKeepsClaims
<1>6. ASSUME CallRuntime(w) \/ CallFails(w)
      PROVE  Claims'
  <2>1. run' = run /\ worker[w].pc \in {"calling", "waiting"}
    BY <1>6 DEF CallRuntime, CallFails
  <2>2. \E pc \in {"waiting", "refused", "errored"} :
          /\ Goto(w, pc)
          /\ pc = "waiting" => exec'[r].state = "running"
          /\ pc # "waiting" => exec'[r].state # "running"
    BY <1>1, <1>2, <1>6 DEF CallRuntime, CallFails, SlotSound, Before, Over
  <2>3. \A q \in Runs \ {r} : exec'[q] = exec[q]
    BY <1>2, <1>6 DEF CallRuntime, CallFails
  <2>4. run[r].status # "none"
    BY <1>2, <2>1 DEF SlotSound, Claimed
  <2>5. SlotSound(worker[w])'
    BY <1>3, <2>1, <2>2, <2>4 DEF SlotSound, Claimed, Before, After
  <2> QED
    BY <1>1, <1>3, <2>1, <2>2, <2>3, <2>4, <2>5, SlotStepKeepsClaims DEF Claimed
<1>7. ASSUME SettleJob(w)
      PROVE  Claims'
  <2>1. UNCHANGED <<run, exec>> /\ worker' = [worker EXCEPT ![w] = Resting]
    BY <1>7 DEF SettleJob
  <2>2. worker'[w] = Resting /\ \A v \in Workers \ {w} : worker'[v] = worker[v]
    BY <1>2, <2>1
  <2>3. SlotSound(worker[w])'
    BY <2>2 DEF SlotSound, Resting, Claimed, Before, After
  <2> QED
    BY <1>1, <2>1, <2>2, <2>3, SlotStepKeepsClaims DEF Resting, Claimed, Claims, BegunClaimed
<1> QED
  BY <1>4, <1>5, <1>6, <1>7 DEF Process

LEMMA ReconcileCloses ==
  ASSUME TypeInv, NEW p \in Reconcilers, Reconcile(p)
  PROVE  /\ UNCHANGED <<job, lock, exec, worker>>
         /\ \A r \in Runs : run[r].status # "none" => run'[r].status # "none"
  BY DEF Reconcile, RecoverStaleRuns, ReadArtifacts, ListSchedulers, ApplyScheduler,
         EndReconcile, Closed

LEMMA OthersKeepClaims ==
  ASSUME TypeInv, Claims
  PROVE  /\ Deliver => Claims'
         /\ \A w \in Workers : WorkerCrash(w) => Claims'
         /\ \A r \in Runs : InvocationEnds(r) => Claims'
         /\ Tick => Claims'
<1>1. ASSUME Deliver PROVE Claims'
  <2>1. UNCHANGED <<run, exec>>
    BY <1>1 DEF Deliver, FireScheduler, RunNow, TakeJob, Redeliver
  <2>2. CASE UNCHANGED worker
    BY <2>1, <2>2, ClosingKeepsClaims
  <2>3. ASSUME NEW w \in Workers, NEW r \in Runs, TakeJob(w, r)
        PROVE  Claims'
    <3>1. \A v \in Workers : worker'[v] = IF v = w THEN [pc |-> "taken", run |-> r] ELSE worker[v]
      BY <2>3 DEF TakeJob, TypeInv, TypeOK
    <3> QED
      BY <2>1, <3>1 DEF Claims, OneClaim, SlotsSound, SlotSound, BegunClaimed, Claimed, Before, After
  <2> QED
    BY <1>1, <2>2, <2>3 DEF Deliver, FireScheduler, RunNow, Redeliver
<1>2. ASSUME NEW w \in Workers, WorkerCrash(w) PROVE Claims'
  <2>1. \A v \in Workers : worker'[v] = IF v = w THEN Resting ELSE worker[v]
    BY <1>2 DEF WorkerCrash, TypeInv, TypeOK
  <2>2. UNCHANGED <<run, exec>>
    BY <1>2 DEF WorkerCrash
  <2> QED
    BY <2>1, <2>2
    DEF Claims, OneClaim, SlotsSound, SlotSound, BegunClaimed, Claimed, Before, After, Resting
<1>3. ASSUME NEW r \in Runs, InvocationEnds(r) PROVE Claims'
  <2>1. /\ exec[r].state = "running" /\ UNCHANGED run
        /\ \A q \in Runs : exec'[q] = IF q = r THEN Over ELSE exec[q]
    BY <1>3 DEF InvocationEnds, TypeInv, TypeOK
  <2>2. PICK answer \in {"succeeded", "refused"} :
          worker' = [w \in Workers |-> IF worker[w].run = r /\ worker[w].pc = "waiting"
                                       THEN [worker[w] EXCEPT !.pc = answer] ELSE worker[w]]
    BY <1>3 DEF InvocationEnds
  <2>3. \A w \in Workers :
          /\ worker'[w].run = worker[w].run
          /\ worker'[w].pc = IF worker[w].run = r /\ worker[w].pc = "waiting"
                             THEN answer ELSE worker[w].pc
    BY <2>2 DEF TypeInv, TypeOK, Slot
  <2>4. \A w \in Workers : worker'[w].pc \in Claimed <=> worker[w].pc \in Claimed
    BY <2>3 DEF Claimed
  <2>5. OneClaim'
    BY <2>3, <2>4 DEF Claims, OneClaim
  <2>6. SlotsSound'
    <3> SUFFICES ASSUME NEW w \in Workers PROVE SlotSound(worker[w])'
      BY DEF SlotsSound
    <3>1. SlotSound(worker[w]) /\ (worker[w].pc \in Claimed => worker[w].run \in Runs)
      BY DEF Claims, SlotsSound, TypeInv, SlotsBusy, Claimed
    <3>2. CASE worker[w].run = r
      BY <2>1, <2>3, <3>1, <3>2 DEF SlotSound, Claimed, Before, After, Over
    <3>3. CASE worker[w].run # r
      BY <2>1, <2>3, <3>1, <3>3 DEF SlotSound, Claimed, Before, After
    <3> QED  BY <3>2, <3>3
  <2>7. BegunClaimed'
    BY <2>1 DEF Claims, BegunClaimed
  <2> QED
    BY <2>5, <2>6, <2>7 DEF Claims
<1>4. ASSUME Tick PROVE Claims'
  <2>1. UNCHANGED worker
    BY <1>4 DEF Tick
  <2>2. \A r \in Runs : run'[r].status = run[r].status /\ exec'[r].state = exec[r].state
    BY <1>4 DEF Tick, TypeInv, TypeOK, Run, Exec
  <2>3. \A w \in Workers : worker[w].pc \in Claimed => worker[w].run \in Runs
    BY DEF TypeInv, SlotsBusy, Claimed
  <2> QED
    BY <2>1, <2>2, <2>3
    DEF Claims, OneClaim, SlotsSound, SlotSound, BegunClaimed, Claimed, Before, After
<1> QED
  BY <1>1, <1>2, <1>3, <1>4

LEMMA NextClaims == TypeInv /\ Claims /\ [Next]_vars => Claims'
<1> SUFFICES ASSUME TypeInv, Claims, [Next]_vars PROVE Claims'
  OBVIOUS
<1>1. CASE UNCHANGED <<run, exec, worker>>
  BY <1>1, ClosingKeepsClaims
<1>2. ASSUME NEW p \in Reconcilers, Reconcile(p) PROVE Claims'
  BY <1>2, ReconcileCloses, ClosingKeepsClaims
<1> QED
  BY <1>1, <1>2, ProcessKeepsClaims, OthersKeepClaims
  DEF Next, Activate, RebuildArtifact, vars

THEOREM ClaimsHold == Spec => [](TypeInv /\ Claims)
  BY InitType, NextType, InitClaims, NextClaims, PTL DEF Spec

(* What a step does to the invocations.                                     *)
LEMMA ExecSteps ==
  ASSUME TypeInv, Claims, [Next]_vars
  PROVE  \/ UNCHANGED exec
         \/ Tick
         \/ \E w \in Workers : worker[w].run \in Runs /\ (CallRuntime(w) \/ CallFails(w))
         \/ \E r \in Runs : InvocationEnds(r)
<1>1. ASSUME NEW p \in Reconcilers, Reconcile(p) PROVE UNCHANGED exec
  BY <1>1, ReconcileCloses
<1>2. ASSUME NEW w \in Workers, Process(w), ~UNCHANGED exec
      PROVE  worker[w].run \in Runs /\ (CallRuntime(w) \/ CallFails(w))
  BY <1>2 DEF Process, ClaimRun, Misfire, TakeLock, ClaimFails, StartRun, CallRuntime, CallFails,
              RecordRun, FailRun, ReleaseLock, SettleJob, TypeInv, SlotsBusy
<1> QED
  BY <1>1, <1>2
  DEF Next, Activate, RebuildArtifact, Deliver, FireScheduler, RunNow, TakeJob, Redeliver,
      WorkerCrash, vars

(* "Queue redelivery is durably deduplicated": no invocation of a run       *)
(* begins a second time, whatever is delivered again, crashes or is slow.   *)
THEOREM RunsBeginOnce == Spec => RunsAtMostOnce
<1>1. TypeInv /\ Claims /\ [Next]_vars => NoRestart
  <2> SUFFICES ASSUME TypeInv, Claims, [Next]_vars,
                      NEW r \in Runs, exec[r].state # "none", exec'[r].state = "running"
               PROVE  exec[r].state = "running" /\ exec'[r].age >= exec[r].age
    BY DEF NoRestart
  <2>0. exec \in [Runs -> Exec] /\ exec[r].age \in Nat
    BY ConstantFacts DEF TypeInv, TypeOK, Exec
  <2>1. CASE UNCHANGED exec
    BY <2>0, <2>1
  <2>2. CASE Tick
    BY <2>0, <2>2 DEF Tick, Exec
  <2>3. ASSUME NEW w \in Workers, worker[w].run \in Runs, CallRuntime(w)
        PROVE  UNCHANGED exec \/ (worker[w].run # r /\ exec'[r] = exec[r])
    <3>1. exec[worker[w].run].state = "none"
      BY <2>3 DEF CallRuntime, Claims, SlotsSound, SlotSound, Before
    <3> QED
      BY <2>0, <2>3, <3>1 DEF CallRuntime
  <2>4. ASSUME NEW w \in Workers, CallFails(w) PROVE exec'[r] = exec[r]
    BY <2>0, <2>4 DEF CallFails, Over
  <2>5. ASSUME NEW q \in Runs, InvocationEnds(q) PROVE exec'[r] = exec[r]
    BY <2>0, <2>5 DEF InvocationEnds, Over
  <2> QED
    BY <2>0, <2>1, <2>2, <2>3, <2>4, <2>5, ExecSteps
<1> QED
  BY <1>1, ClaimsHold, PTL DEF Spec, RunsAtMostOnce

-----------------------------------------------------------------------------
(* Two invocations of one binding never overlap while workers are prompt.   *)
(* The lock is a lease that a dead worker does not give back: what protects *)
(* an invocation is that its age and the lease's rest always add up to the  *)
(* whole lease, which is longer than an invocation may get.                 *)

SlotLease(slot) ==
  LET r == slot.run IN
    /\ slot.pc \in {"locked", "calling"}
         => lock[BindingOf(r)].holder = r /\ lock[BindingOf(r)].left = OverlapLock
    /\ slot.pc \in {"claimed", "locked"} => run[r].status = "scheduled" /\ run[r].age = 0
    /\ slot.pc = "calling" => run[r].status = "running" /\ run[r].age = 0
    /\ slot.pc \in {"succeeded", "refused"}
         => run[r].status = "running" /\ run[r].age <= CronTimeout

RunLease(r) ==
  exec[r].state = "running" =>
    /\ lock[BindingOf(r)].holder = r
    /\ lock[BindingOf(r)].left + exec[r].age >= OverlapLock
    /\ run[r].status = "running"
    /\ run[r].age <= exec[r].age

Leases ==
  /\ \A w \in Workers : SlotLease(worker[w])
  /\ \A r \in Runs : RunLease(r)

IInv == TypeInv /\ Claims /\ Leases

LEMMA InitLeases == Init => Leases
  BY DEF Init, Leases, SlotLease, RunLease, Resting, NoExec

LEMMA SlotStepKeepsLeases ==
  ASSUME TypeInv, Claims, Leases, NEW w \in Workers, NEW r \in Runs, worker[w].run = r,
         \A v \in Workers \ {w} : worker'[v] = worker[v],
         \A q \in Runs \ {r} : run'[q] = run[q] /\ exec'[q] = exec[q],
         \A q \in Runs \ {r} : lock[BindingOf(q)].holder = q
                                => lock'[BindingOf(q)] = lock[BindingOf(q)],
         worker[w].pc \in Claimed \/ run[r].status = "none" \/ UNCHANGED <<run, lock>>,
         SlotLease(worker[w])',
         RunLease(r)'
  PROVE  Leases'
<1>1. ASSUME NEW q \in Runs PROVE RunLease(q)'
  <2>1. CASE q = r
    BY <2>1
  <2>2. CASE q # r
    BY <2>2 DEF Leases, RunLease
  <2> QED  BY <2>1, <2>2
<1>2. ASSUME NEW v \in Workers PROVE SlotLease(worker[v])'
  <2>1. CASE v = w
    BY <2>1
  <2>2. CASE v # w /\ worker[v].pc \notin Claimed
    BY <2>2 DEF SlotLease, Claimed
  <2>3. CASE v # w /\ worker[v].pc \in Claimed
    <3>1. worker'[v] = worker[v] /\ worker[v].run \in Runs /\ SlotLease(worker[v])
      BY <2>3 DEF TypeInv, SlotsBusy, Leases, Claimed
    <3>2. CASE worker[v].run = r
      <4>1. UNCHANGED <<run, lock>>
        BY <2>3, <3>2 DEF Claims, OneClaim, SlotsSound, SlotSound
      <4> QED
        BY <3>1, <4>1 DEF SlotLease
    <3>3. CASE worker[v].run # r
      BY <3>1, <3>3 DEF SlotLease
    <3> QED  BY <3>2, <3>3
  <2> QED
    BY <2>1, <2>2, <2>3
<1> QED
  BY <1>1, <1>2 DEF Leases

LEMMA ProcessKeepsLeases ==
  ASSUME TypeInv, Claims, Leases, NEW w \in Workers, Process(w)
  PROVE  Leases'
<1>0. worker[w].pc # "idle" /\ worker[w].run \in Runs
  <2>1. worker[w].pc # "idle"
    BY DEF Process, ClaimRun, Misfire, TakeLock, ClaimFails, StartRun, CallRuntime, CallFails,
           RecordRun, FailRun, ReleaseLock, SettleJob
  <2> QED  BY <2>1 DEF TypeInv, SlotsBusy
<1>r. PICK r \in Runs : worker[w].run = r
  BY <1>0
<1> DEFINE b == BindingOf(r)
<1>1. worker[w].run = r /\ worker[w].pc # "idle" /\ r \in Runs /\ b \in Bindings
  BY <1>0, <1>r, RunFacts
<1>2. SlotSound(worker[w]) /\ SlotLease(worker[w]) /\ RunLease(r)
  BY <1>1 DEF Claims, SlotsSound, Leases
<1>3. /\ worker \in [Workers -> Slot] /\ run \in [Runs -> Run] /\ exec \in [Runs -> Exec]
      /\ lock \in [Bindings -> Lock]
  BY DEF TypeInv, TypeOK
<1>4. \A pc : Goto(w, pc) =>
         /\ \A v \in Workers \ {w} : worker'[v] = worker[v]
         /\ worker'[w].run = r /\ worker'[w].pc = pc
  BY <1>1, <1>3 DEF Goto, Slot
<1>5. ASSUME ClaimRun(w) \/ ClaimFails(w)
      PROVE  Leases'
  <2>1. exec' = exec /\ lock' = lock
    BY <1>1, <1>5 DEF ClaimRun, ClaimFails
  <2>2. \E pc \in {"claimed", "done"} :
          /\ Goto(w, pc)
          /\ pc = "claimed" => run'[r].status = "scheduled" /\ run'[r].age = 0
    BY <1>1, <1>3, <1>5 DEF ClaimRun, ClaimFails
  <2>3. UNCHANGED run \/ (run[r].status = "none" /\ \A q \in Runs \ {r} : run'[q] = run[q])
    BY <1>1, <1>3, <1>5 DEF ClaimRun, ClaimFails
  <2>4. SlotLease(worker[w])'
    BY <1>1, <1>4, <2>2 DEF SlotLease
  <2>5. RunLease(r)'
    BY <1>1, <1>2, <2>1, <2>3 DEF RunLease, Claims, BegunClaimed
  <2> QED
    BY <1>1, <1>4, <2>1, <2>2, <2>3, <2>4, <2>5, SlotStepKeepsLeases
<1>6. ASSUME Misfire(w) \/ TakeLock(w) \/ StartRun(w)
      PROVE  Leases'
  <2>1. exec' = exec /\ worker[w].pc \in {"claimed", "locked"} /\ exec[r].state = "none"
    BY <1>1, <1>2, <1>6 DEF Misfire, TakeLock, StartRun, SlotSound, Before
  <2>2. \A q \in Runs \ {r} : run'[q] = run[q]
    BY <1>1, <1>3, <1>6 DEF Misfire, TakeLock, StartRun, Close
  <2>3. ASSUME NEW q \in Runs \ {r}, lock[BindingOf(q)].holder = q
        PROVE  lock'[BindingOf(q)] = lock[BindingOf(q)]
    <3>1. lock[BindingOf(q)].holder # None /\ BindingOf(q) \in Bindings
      BY <1>1, <2>3, ConstantFacts, RunFacts
    <3> QED
      BY <1>1, <1>3, <1>6, <3>1 DEF Misfire, TakeLock, StartRun, Held
  <2>4. SlotLease(worker[w])'
    <3>1. CASE Misfire(w)
      BY <1>1, <1>4, <3>1 DEF Misfire, SlotLease
    <3>2. CASE TakeLock(w)
      <4>1. \/ Goto(w, "done")
            \/ Goto(w, "locked") /\ lock' = [lock EXCEPT ![b] = [holder |-> r, left |-> OverlapLock]]
                 /\ UNCHANGED run
        BY <1>1, <3>2 DEF TakeLock
      <4> QED
        BY <1>1, <1>2, <1>3, <1>4, <2>1, <3>2, <4>1 DEF TakeLock, SlotLease
    <3>3. CASE StartRun(w)
      BY <1>1, <1>2, <1>3, <1>4, <3>3 DEF StartRun, SlotLease
    <3> QED  BY <1>1, <1>6, <3>1, <3>2, <3>3
  <2>5. RunLease(r)'
    BY <1>1, <2>1 DEF RunLease
  <2>6. \E pc \in {"locked", "calling", "errored", "done"} : Goto(w, pc)
    BY <1>1, <1>6 DEF Misfire, TakeLock, StartRun
  <2> QED
    BY <1>1, <1>4, <2>1, <2>2, <2>3, <2>4, <2>5, <2>6, SlotStepKeepsLeases DEF Claimed
<1>7. ASSUME CallRuntime(w) \/ CallFails(w)
      PROVE  Leases'
  <2>1. run' = run /\ lock' = lock /\ worker[w].pc \in {"calling", "waiting"}
    BY <1>1, <1>7 DEF CallRuntime, CallFails
  <2>2. \A q \in Runs \ {r} : exec'[q] = exec[q]
    BY <1>1, <1>3, <1>7 DEF CallRuntime, CallFails
  <2>3. \E pc \in {"waiting", "refused", "errored"} :
          Goto(w, pc) /\ (pc = "refused" => worker[w].pc = "calling")
    BY <1>1, <1>7 DEF CallRuntime, CallFails
  <2>4. SlotLease(worker[w])'
    BY <1>1, <1>2, <1>4, <2>1, <2>3, ConstantFacts DEF SlotLease
  <2>5. RunLease(r)'
    <3>1. \/ exec'[r].state # "running"
          \/ worker[w].pc = "calling" /\ exec'[r] = [state |-> "running", age |-> 0]
      BY <1>1, <1>2, <1>3, <1>7 DEF CallRuntime, CallFails, Over, SlotSound, Before
    <3>2. worker[w].pc = "calling" =>
            /\ lock'[b].holder = r /\ lock'[b].left = OverlapLock
            /\ run'[r].status = "running" /\ run'[r].age = 0
      BY <1>1, <1>2, <2>1 DEF SlotLease
    <3> QED
      BY <1>1, <3>1, <3>2, ConstantFacts DEF RunLease
  <2> QED
    BY <1>1, <1>4, <2>1, <2>2, <2>3, <2>4, <2>5, SlotStepKeepsLeases DEF Claimed
<1>8. ASSUME RecordRun(w) \/ FailRun(w) \/ ReleaseLock(w)
      PROVE  Leases'
  <2>1. exec' = exec /\ worker[w].pc \in After /\ exec[r].state # "running"
    BY <1>1, <1>2, <1>8 DEF RecordRun, FailRun, ReleaseLock, SlotSound, After
  <2>2. \A q \in Runs \ {r} : run'[q] = run[q]
    BY <1>1, <1>3, <1>8 DEF RecordRun, FailRun, ReleaseLock, Close
  <2>3. \A q \in Runs \ {r} : lock[BindingOf(q)].holder = q
                                => lock'[BindingOf(q)] = lock[BindingOf(q)]
    BY <1>1, <1>3, <1>8, RunFacts DEF RecordRun, FailRun, ReleaseLock
  <2>4. \E pc \in {"errored", "releasing", "done"} : Goto(w, pc)
    BY <1>1, <1>8 DEF RecordRun, FailRun, ReleaseLock
  <2>5. SlotLease(worker[w])'
    BY <1>1, <1>4, <2>4 DEF SlotLease
  <2>6. RunLease(r)'
    BY <1>1, <2>1 DEF RunLease
  <2> QED
    BY <1>1, <1>4, <2>1, <2>2, <2>3, <2>4, <2>5, <2>6, SlotStepKeepsLeases DEF Claimed, After
<1>9. ASSUME SettleJob(w)
      PROVE  Leases'
  <2>1. UNCHANGED <<run, exec, lock>> /\ worker' = [worker EXCEPT ![w] = Resting]
    BY <1>1, <1>9 DEF SettleJob
  <2>2. worker'[w] = Resting /\ \A v \in Workers \ {w} : worker'[v] = worker[v]
    BY <1>1, <1>3, <2>1
  <2>3. SlotLease(worker[w])'
    BY <1>1, <2>2 DEF SlotLease, Resting
  <2>4. RunLease(r)'
    BY <1>1, <1>2, <2>1 DEF RunLease
  <2> QED
    BY <1>1, <2>1, <2>2, <2>3, <2>4, SlotStepKeepsLeases
<1> QED
  BY <1>1, <1>5, <1>6, <1>7, <1>8, <1>9 DEF Process

(* The sweep passes over a run whose lease is in force.                     *)
LEMMA ReconcileKeepsLeases ==
  ASSUME TypeInv, Claims, Leases, NEW p \in Reconcilers, Reconcile(p)
  PROVE  Leases'
<1>1. UNCHANGED <<lock, exec, worker>>
  BY DEF Reconcile, RecoverStaleRuns, ReadArtifacts, ListSchedulers, ApplyScheduler, EndReconcile
<1>2. \A r \in Runs : ~Abandoned(r) => run'[r] = run[r]
  <2>1. CASE RecoverStaleRuns(p)
    BY <2>1 DEF RecoverStaleRuns
  <2>2. CASE UNCHANGED run
    BY <2>2
  <2> QED
    BY <2>1, <2>2
    DEF Reconcile, ReadArtifacts, ListSchedulers, ApplyScheduler, EndReconcile
<1>3. \A r \in Runs : run[r].age \in Nat /\ exec[r].age \in 0..CronTimeout
  BY ConstantFacts DEF TypeInv, TypeOK, Run, Exec
<1>4. \A r \in Runs : run[r].age <= CronTimeout => ~Abandoned(r)
  BY <1>3, ConstantFacts DEF Abandoned
<1>5. ASSUME NEW w \in Workers PROVE SlotLease(worker[w])'
  <2>1. SlotLease(worker[w]) /\ (worker[w].pc # "idle" => worker[w].run \in Runs)
    BY DEF Leases, TypeInv, SlotsBusy
  <2>2. worker[w].pc \in {"claimed", "locked", "calling", "succeeded", "refused"}
          => run'[worker[w].run] = run[worker[w].run]
    <3> SUFFICES ASSUME worker[w].pc \in {"claimed", "locked", "calling", "succeeded", "refused"}
                 PROVE  run'[worker[w].run] = run[worker[w].run]
      OBVIOUS
    <3>1. worker[w].run \in Runs
      BY <2>1
    <3>2. run[worker[w].run].age <= CronTimeout
      BY <2>1, ConstantFacts DEF SlotLease
    <3> QED
      BY <3>1, <3>2, <1>2, <1>4
  <2> QED
    BY <1>1, <2>1, <2>2 DEF SlotLease
<1>6. ASSUME NEW r \in Runs PROVE RunLease(r)'
  <2>1. RunLease(r)
    BY DEF Leases
  <2>2. exec[r].state = "running" => run'[r] = run[r]
    BY <2>1, <1>2, <1>3, <1>4, ConstantFacts DEF RunLease
  <2> QED
    BY <1>1, <2>1, <2>2 DEF RunLease
<1> QED
  BY <1>5, <1>6 DEF Leases

(* Without slow workers time passes only while every slot is idle, has yet  *)
(* to claim, or waits for its invocation.                                   *)
LEMMA TickKeepsLeases ==
  ASSUME TypeInv, Claims, Leases, "slow" \notin Faults, Tick
  PROVE  Leases'
<1>1. \A w \in Workers : worker[w].pc \in {"idle", "taken", "waiting"} /\ worker'[w] = worker[w]
  BY DEF Tick, Prompt
<1>2. \A w \in Workers : SlotLease(worker[w])'
  BY <1>1 DEF SlotLease
<1>3. ASSUME NEW r \in Runs PROVE RunLease(r)'
  <2> SUFFICES ASSUME exec'[r].state = "running" PROVE RunLease(r)'
    BY DEF RunLease
  <2>1. PICK b \in Bindings : b = BindingOf(r)
    BY RunFacts
  <2>2. /\ lock[b] \in Lock /\ run[r] \in Run /\ exec[r] \in Exec
        /\ lock[b].left \in Nat /\ run[r].age \in Nat /\ exec[r].age \in Nat
    BY ConstantFacts DEF TypeInv, TypeOK, Lock, Run, Exec
  <2>3. exec[r].state = "running"
    BY <2>2 DEF Tick, Exec
  <2>4. exec[r].age < CronTimeout /\ exec'[r].age = exec[r].age + 1
    BY <2>2, <2>3 DEF Tick, Prompt, Exec
  <2>5. /\ lock[b].holder = r /\ lock[b].left + exec[r].age >= OverlapLock
        /\ run[r].status = "running" /\ run[r].age <= exec[r].age
    BY <2>1, <2>3 DEF Leases, RunLease
  <2>6. lock[b].left > 1
    BY <2>2, <2>4, <2>5, ConstantFacts
  <2>7. lock'[b].holder = r /\ lock'[b].left = lock[b].left - 1
    BY <2>2, <2>5, <2>6 DEF Tick, Lock
  <2>8. run'[r].status = "running" /\ run'[r].age <= run[r].age + 1
    BY <2>2, <2>5, ConstantFacts DEF Tick, Older, Run, Open
  <2>9. run'[r].age \in Nat
    BY <2>2, <2>5, ConstantFacts DEF Tick, Older, Run, Open
  <2> QED
    BY <2>1, <2>2, <2>4, <2>5, <2>7, <2>8, <2>9, ConstantFacts DEF RunLease
<1> QED
  BY <1>2, <1>3 DEF Leases

LEMMA RuntimeKeepsLeases ==
  ASSUME TypeInv, Claims, Leases, NEW r \in Runs, InvocationEnds(r)
  PROVE  Leases'
<1>1. run' = run /\ lock' = lock /\ exec' = [exec EXCEPT ![r] = Over]
  BY DEF InvocationEnds
<1>2. exec \in [Runs -> Exec] /\ worker \in [Workers -> Slot] /\ exec[r].age <= CronTimeout
  BY ConstantFacts DEF TypeInv, TypeOK, Exec
<1>3. PICK answer \in {"succeeded", "refused"} :
        worker' = [w \in Workers |-> IF worker[w].run = r /\ worker[w].pc = "waiting"
                                     THEN [worker[w] EXCEPT !.pc = answer] ELSE worker[w]]
  BY DEF InvocationEnds
<1>4. ASSUME NEW w \in Workers PROVE SlotLease(worker[w])'
  <2>1. CASE worker[w].run = r /\ worker[w].pc = "waiting"
    <3>1. worker'[w].run = r /\ worker'[w].pc = answer
      BY <1>2, <1>3, <2>1 DEF Slot
    <3>2. run[r].status = "running" /\ run[r].age <= exec[r].age
      BY DEF Leases, RunLease, InvocationEnds
    <3>3. run[r].age <= CronTimeout
      BY <1>2, <3>2, ConstantFacts DEF TypeInv, TypeOK, Exec, Run
    <3> QED
      BY <1>1, <3>1, <3>2, <3>3 DEF SlotLease
  <2>2. CASE ~(worker[w].run = r /\ worker[w].pc = "waiting")
    <3>1. worker'[w] = worker[w] /\ SlotLease(worker[w])
      BY <1>3, <2>2 DEF Leases
    <3> QED
      BY <1>1, <3>1 DEF SlotLease
  <2> QED
    BY <2>1, <2>2
<1>5. ASSUME NEW q \in Runs PROVE RunLease(q)'
  <2>1. CASE q = r
    BY <1>1, <1>2, <2>1 DEF RunLease, Over
  <2>2. CASE q # r
    <3>1. exec'[q] = exec[q] /\ RunLease(q)
      BY <1>1, <1>2, <2>2 DEF Leases
    <3> QED
      BY <1>1, <3>1 DEF RunLease
  <2> QED
    BY <2>1, <2>2
<1> QED
  BY <1>4, <1>5 DEF Leases

LEMMA NextLeases ==
  ASSUME "slow" \notin Faults
  PROVE  IInv /\ [Next]_vars => IInv'
<1> SUFFICES ASSUME TypeInv, Claims, Leases, [Next]_vars PROVE Leases'
  BY NextType, NextClaims DEF IInv
<1>1. CASE UNCHANGED <<run, exec, lock, worker>>
  BY <1>1 DEF Leases, SlotLease, RunLease
<1>2. ASSUME NEW w \in Workers, NEW slot, worker' = [worker EXCEPT ![w] = slot],
             slot.pc \in {"idle", "taken"}, UNCHANGED <<run, exec, lock>>
      PROVE  Leases'
  <2>1. \A v \in Workers : worker'[v] = IF v = w THEN slot ELSE worker[v]
    BY <1>2 DEF TypeInv, TypeOK
  <2>2. ASSUME NEW v \in Workers PROVE SlotLease(worker[v])'
    <3>1. CASE v = w
      BY <1>2, <2>1, <3>1 DEF SlotLease
    <3>2. CASE v # w
      BY <1>2, <2>1, <3>2 DEF SlotLease, Leases
    <3> QED  BY <3>1, <3>2
  <2> QED
    BY <1>2, <2>2 DEF Leases, RunLease
<1>3. CASE Deliver
  <2>1. CASE UNCHANGED worker
    BY <1>1, <1>3, <2>1 DEF Deliver, FireScheduler, RunNow, Redeliver, TakeJob
  <2>2. ASSUME NEW w \in Workers, NEW r \in Runs, TakeJob(w, r)
        PROVE  Leases'
    BY <1>2, <2>2 DEF TakeJob
  <2> QED
    BY <1>3, <2>1, <2>2 DEF Deliver, FireScheduler, RunNow, Redeliver
<1>4. ASSUME NEW w \in Workers, WorkerCrash(w) PROVE Leases'
  BY <1>2, <1>4 DEF WorkerCrash, Resting
<1> QED
  BY <1>1, <1>3, <1>4, ReconcileKeepsLeases, TickKeepsLeases, RuntimeKeepsLeases,
     ProcessKeepsLeases
  DEF Next, Activate, RebuildArtifact, vars

LEMMA LeasesHold ==
  ASSUME "slow" \notin Faults
  PROVE  Spec => []IInv
<1>1. Init => IInv
  BY InitType, InitClaims, InitLeases DEF IInv
<1>2. IInv /\ [Next]_vars => IInv'
  BY NextLeases
<1> QED
  BY <1>1, <1>2, PTL DEF Spec

(* "Each binding permits one active run": while workers do not stall        *)
(* between two steps, two invocations of one binding never overlap,         *)
(* although workers and the runtime die at any moment.                      *)
THEOREM OneRunPerBinding ==
  ASSUME "slow" \notin Faults
  PROVE  Spec => []OneActiveRun
<1>1. IInv => OneActiveRun
  BY DEF IInv, Leases, RunLease, OneActiveRun
<1> QED
  BY <1>1, LeasesHold, PTL

(* What a step does to the runs, given what the leases say of its slot.     *)
LEMMA RunSteps ==
  ASSUME IInv, [Next]_vars
  PROVE  \/ UNCHANGED run
         \/ Tick
         \/ \E p \in Reconcilers : RecoverStaleRuns(p)
         \/ \E r \in Runs, status \in {"scheduled", "running"} \cup Final :
              /\ run' = [run EXCEPT ![r] = [status |-> status, age |-> 0]]
              /\ exec' = exec
              /\ \/ run[r].status = "none" /\ status \in {"scheduled", "missed"}
                 \/ run[r].status = "scheduled" /\ status = "running"
                 \/ run[r].status \in Open /\ status \in Final /\ exec[r].state # "running"
<1>1. ASSUME NEW w \in Workers, Process(w), ~UNCHANGED run
      PROVE  \E r \in Runs, status \in {"scheduled", "running"} \cup Final :
              /\ run' = [run EXCEPT ![r] = [status |-> status, age |-> 0]]
              /\ exec' = exec
              /\ \/ run[r].status = "none" /\ status \in {"scheduled", "missed"}
                 \/ run[r].status = "scheduled" /\ status = "running"
                 \/ run[r].status \in Open /\ status \in Final /\ exec[r].state # "running"
  <2>1. PICK r \in Runs : worker[w].run = r
    BY <1>1 DEF Process, ClaimRun, Misfire, TakeLock, ClaimFails, StartRun, CallRuntime, CallFails,
         RecordRun, FailRun, ReleaseLock, SettleJob, IInv, TypeInv, SlotsBusy
  <2>2. SlotSound(worker[w]) /\ SlotLease(worker[w]) /\ run \in [Runs -> Run]
    BY DEF IInv, Claims, SlotsSound, Leases, TypeInv, TypeOK
  <2>3. CASE ClaimRun(w)
    <3>1. /\ exec' = exec /\ run[r].status = "none"
          /\ \/ run' = [run EXCEPT ![r] = [status |-> "scheduled", age |-> 0]]
             \/ run' = [run EXCEPT ![r] = [status |-> "missed", age |-> 0]]
      BY <1>1, <2>1, <2>3 DEF ClaimRun
    <3> QED  BY <3>1 DEF Final
  <2>4. CASE TakeLock(w)
    <3>1. /\ exec' = exec /\ run[r].status = "scheduled" /\ exec[r].state # "running"
          /\ run' = [run EXCEPT ![r] = [status |-> "skipped", age |-> 0]]
      BY <1>1, <2>1, <2>2, <2>4
      DEF TakeLock, Close, Closed, SlotLease, SlotSound, Before
    <3> QED  BY <3>1 DEF Final, Open
  <2>5. CASE StartRun(w)
    <3>1. /\ exec' = exec /\ run[r].status = "scheduled"
          /\ run' = [run EXCEPT ![r] = [status |-> "running", age |-> 0]]
      BY <1>1, <2>1, <2>2, <2>5 DEF StartRun, SlotLease
    <3> QED  BY <3>1
  <2>6. CASE RecordRun(w)
    <3>1. /\ exec' = exec /\ run[r].status = "running" /\ exec[r].state # "running"
          /\ \E status \in {"success", "failed"} :
               run' = [run EXCEPT ![r] = [status |-> status, age |-> 0]]
      BY <1>1, <2>1, <2>2, <2>6
      DEF RecordRun, Close, Closed, SlotLease, SlotSound, After
    <3> QED  BY <3>1 DEF Final, Open
  <2>7. CASE Misfire(w) \/ FailRun(w)
    <3>1. /\ exec' = exec
          /\ \E status \in {"missed", "failed"} :
               run' = [run EXCEPT ![r] = IF run[r].status = "running"
                                         THEN [status |-> status, age |-> 0] ELSE run[r]]
      BY <1>1, <2>1, <2>7 DEF Misfire, FailRun, Closed
    <3>2. run[r].status = "running"
      BY <1>1, <2>2, <3>1
    <3>3. exec[r].state # "running"
      BY <2>1, <2>2, <2>7 DEF Misfire, FailRun, SlotSound, Before, After
    <3> QED  BY <3>1, <3>2, <3>3 DEF Final, Open
  <2> QED
    BY <1>1, <2>3, <2>4, <2>5, <2>6, <2>7
    DEF Process, ClaimFails, CallRuntime, CallFails, ReleaseLock, SettleJob
<1> QED
  BY <1>1
  DEF Next, Activate, RebuildArtifact, Reconcile, ReadArtifacts, ListSchedulers, ApplyScheduler,
      EndReconcile, Deliver, FireScheduler, RunNow, TakeJob, Redeliver, WorkerCrash,
      InvocationEnds, vars

(* A run's recorded outcome is final: the worker that ran it, the job that  *)
(* is delivered again and the sweep never overwrite one another.            *)
THEOREM OutcomesStay ==
  ASSUME "slow" \notin Faults
  PROVE  Spec => OutcomeFinal
<1>1. IInv /\ [Next]_vars => KeepsFinal
  <2> SUFFICES ASSUME IInv, [Next]_vars, NEW r \in Runs, run[r].status \in Final
               PROVE  run'[r].status = run[r].status
    BY DEF KeepsFinal
  <2>1. run \in [Runs -> Run] /\ run[r].status \notin Open \cup {"none"}
    BY DEF IInv, TypeInv, TypeOK, Final, Open
  <2>2. CASE Tick
    BY <2>1, <2>2 DEF Tick
  <2>3. ASSUME NEW p \in Reconcilers, RecoverStaleRuns(p) PROVE run'[r] = run[r]
    BY <2>1, <2>3 DEF RecoverStaleRuns, Abandoned
  <2> QED
    BY <2>1, <2>2, <2>3, RunSteps DEF Open
<1> QED
  BY <1>1, LeasesHold, PTL DEF Spec, OutcomeFinal

-----------------------------------------------------------------------------
(* The runs implement the ledger.                                           *)

Fate(status) == IF status = "none" THEN "new" ELSE IF status \in Open THEN "open" ELSE "closed"
Progress(state) ==
  IF state = "none" THEN "unstarted" ELSE IF state = "running" THEN "executing" ELSE "executed"

LEMMA LedgerFunctions ==
  /\ RunFate = [r \in Runs |-> Fate(run[r].status)]
  /\ Stage = [r \in Runs |-> Progress(exec[r].state)]
  BY DEF RunFate, Stage, Fate, Progress

LEMMA LedgerInit == Init => Ledger!Init
  BY DEF Init, Ledger!Init, RunFate, Stage, NoRun, NoExec

(* One run gets a status and no invocation begins or ends.                  *)
LEMMA LedgerRecords ==
  ASSUME IInv, NEW r \in Runs, NEW status \in {"scheduled", "running"} \cup Final,
         run' = [run EXCEPT ![r] = [status |-> status, age |-> 0]], exec' = exec,
         \/ run[r].status = "none" /\ status \in {"scheduled", "missed"}
         \/ run[r].status = "scheduled" /\ status = "running"
         \/ run[r].status \in Open /\ status \in Final /\ exec[r].state # "running"
  PROVE  [Ledger!Next]_<<RunFate, Stage>>
<1>1. run \in [Runs -> Run] /\ Stage' = Stage
  BY DEF IInv, TypeInv, TypeOK, Stage
<1>2. RunFate' = [RunFate EXCEPT ![r] = Fate(status)]
  BY <1>1 DEF RunFate, Fate
<1>3. RunFate[r] = Fate(run[r].status) /\ Stage[r] = Progress(exec[r].state)
  BY DEF RunFate, Stage, Fate, Progress
<1>4. CASE run[r].status = "none" /\ status \in {"scheduled", "missed"}
  <2>1. RunFate[r] = "new" /\ Fate(status) \in {"open", "closed"}
    BY <1>3, <1>4 DEF Fate, Open
  <2>2. Ledger!Claim(r, "open") \/ Ledger!Claim(r, "closed")
    BY <1>1, <1>2, <2>1 DEF Ledger!Claim
  <2> QED
    BY <2>2 DEF Ledger!Next
<1>5. CASE run[r].status = "scheduled" /\ status = "running"
  <2>1. RunFate' = RunFate
    BY <1>2, <1>3, <1>5 DEF RunFate, Fate, Open
  <2> QED
    BY <1>1, <2>1
<1>6. CASE run[r].status \in Open /\ status \in Final /\ exec[r].state # "running"
  <2>1. RunFate[r] = "open" /\ Stage[r] # "executing" /\ Fate(status) = "closed"
    BY <1>3, <1>6 DEF Fate, Progress, Open, Final
  <2>2. {r} \in SUBSET Ledger!Over
    BY <2>1 DEF Ledger!Over
  <2>3. RunFate' = [q \in Runs |-> IF q \in {r} THEN "closed" ELSE RunFate[q]]
    BY <1>2, <2>1 DEF RunFate
  <2>4. Ledger!Close({r})
    BY <1>1, <2>2, <2>3 DEF Ledger!Close
  <2> QED
    BY <2>2, <2>4 DEF Ledger!Next
<1> QED
  BY <1>4, <1>5, <1>6

LEMMA LedgerSweeps ==
  ASSUME IInv, NEW p \in Reconcilers, RecoverStaleRuns(p)
  PROVE  [Ledger!Next]_<<RunFate, Stage>>
<1> DEFINE S == {r \in Runs : Abandoned(r)}
<1>1. ASSUME NEW r \in S
      PROVE  RunFate[r] = "open" /\ Stage[r] # "executing"
  <2>1. run[r].status \in Open /\ run[r].age > StaleCutoff
    BY DEF Abandoned
  <2>2. run[r].age \in Nat /\ exec[r].age \in 0..CronTimeout
    BY ConstantFacts DEF IInv, TypeInv, TypeOK, Run, Exec
  <2>3. exec[r].state # "running"
    BY <2>1, <2>2, ConstantFacts DEF IInv, Leases, RunLease
  <2> QED
    BY <2>1, <2>3 DEF RunFate, Stage, Open
<1>2. S \in SUBSET Ledger!Over
  BY <1>1 DEF Ledger!Over
<1>3. RunFate' = [r \in Runs |-> IF r \in S THEN "closed" ELSE RunFate[r]]
  <2>1. ASSUME NEW r \in Runs
        PROVE  Fate(run'[r].status) = IF r \in S THEN "closed" ELSE RunFate[r]
    <3>1. CASE r \in S
      BY <3>1 DEF RecoverStaleRuns, Closed, Fate, Open
    <3>2. CASE r \notin S
      BY <3>2 DEF RecoverStaleRuns, RunFate, Fate
    <3> QED  BY <3>1, <3>2
  <2> QED
    BY <2>1 DEF RunFate, Fate
<1>4. Stage' = Stage
  BY DEF RecoverStaleRuns, Stage
<1>5. Ledger!Close(S)
  BY <1>2, <1>3, <1>4 DEF Ledger!Close
<1> QED
  BY <1>2, <1>5 DEF Ledger!Next

(* The lease makes Begin's guard true: whoever executes holds the lock.     *)
LEMMA LedgerBegins ==
  ASSUME IInv, NEW w \in Workers, worker[w].run \in Runs, CallRuntime(w)
  PROVE  [Ledger!Next]_<<RunFate, Stage>>
<1>1. PICK r \in Runs : worker[w].run = r
  OBVIOUS
<1>2. run' = run /\ RunFate' = RunFate /\ exec \in [Runs -> Exec]
  BY DEF CallRuntime, RunFate, IInv, TypeInv, TypeOK
<1>3. CASE UNCHANGED exec
  BY <1>2, <1>3 DEF Stage
<1>4. CASE exec' = [exec EXCEPT ![r] = [state |-> "running", age |-> 0]]
  <2>1. /\ exec[r].state = "none" /\ run[r].status = "running"
        /\ lock[BindingOf(r)].holder = r
    BY <1>1 DEF CallRuntime, IInv, Claims, SlotsSound, SlotSound, Before, Leases, SlotLease
  <2>2. RunFate[r] = "open" /\ Stage[r] = "unstarted"
    BY <2>1 DEF RunFate, Stage, Open
  <2>3. ASSUME NEW q \in Runs, BindingOf(q) = BindingOf(r) PROVE Stage[q] # "executing"
    <3>1. exec[q].state # "running"
      BY <2>1, <2>3 DEF IInv, Leases, RunLease
    <3> QED
      BY <3>1 DEF Stage
  <2>4. Stage' = [Stage EXCEPT ![r] = "executing"]
    BY <1>2, <1>4 DEF Stage
  <2>5. Ledger!Begin(r)
    BY <1>2, <2>2, <2>3, <2>4 DEF Ledger!Begin
  <2> QED
    BY <2>5 DEF Ledger!Next
<1> QED
  BY <1>1, <1>3, <1>4 DEF CallRuntime

LEMMA LedgerEnds ==
  ASSUME IInv, NEW r \in Runs, exec[r].state = "running",
         exec' = [exec EXCEPT ![r] = Over], run' = run
  PROVE  [Ledger!Next]_<<RunFate, Stage>>
<1>1. exec \in [Runs -> Exec]
  BY DEF IInv, TypeInv, TypeOK
<1>2. RunFate' = RunFate /\ Stage[r] = "executing" /\ Stage' = [Stage EXCEPT ![r] = "executed"]
  BY <1>1 DEF RunFate, Stage, Over
<1>3. Ledger!End(r)
  BY <1>2 DEF Ledger!End
<1> QED
  BY <1>3 DEF Ledger!Next

LEMMA LedgerNext == IInv /\ [Next]_vars => [Ledger!Next]_<<RunFate, Stage>>
<1> SUFFICES ASSUME IInv, [Next]_vars PROVE [Ledger!Next]_<<RunFate, Stage>>
  OBVIOUS
<1>1. CASE Tick
  <2>1. \A r \in Runs : run'[r].status = run[r].status /\ exec'[r].state = exec[r].state
    BY <1>1 DEF Tick, IInv, TypeInv, TypeOK, Run, Exec
  <2> QED
    BY <2>1 DEF RunFate, Stage
<1>2. ASSUME NEW w \in Workers, worker[w].run \in Runs, CallFails(w)
      PROVE  [Ledger!Next]_<<RunFate, Stage>>
  <2>1. exec[worker[w].run].state = "running"
    BY <1>2 DEF CallFails, IInv, Claims, SlotsSound, SlotSound
  <2> QED
    BY <1>2, <2>1, LedgerEnds DEF CallFails
<1>3. ASSUME NEW r \in Runs, InvocationEnds(r)
      PROVE  [Ledger!Next]_<<RunFate, Stage>>
  BY <1>3, LedgerEnds DEF InvocationEnds
<1>4. CASE UNCHANGED <<run, exec>>
  BY <1>4 DEF RunFate, Stage
<1>5. TypeInv /\ Claims
  BY DEF IInv
<1>6. CASE UNCHANGED exec
  BY <1>1, <1>4, <1>6, RunSteps, LedgerRecords, LedgerSweeps
<1> QED
  BY <1>1, <1>2, <1>3, <1>5, <1>6, ExecSteps, LedgerBegins

(* Whatever crashes, is delivered again or is closed by the sweep: a run is *)
(* claimed once, executes at most once, alone in its binding and only while *)
(* it is open, and is closed only when it is over.                          *)
THEOREM RunsImplementLedger ==
  ASSUME "slow" \notin Faults
  PROVE  Spec => ImplementsRunLedger
<1>1. Init => Ledger!Init
  BY LedgerInit
<1>2. IInv /\ [Next]_vars => [Ledger!Next]_<<RunFate, Stage>>
  BY LedgerNext
<1> QED
  BY <1>1, <1>2, LeasesHold, PTL DEF Spec, ImplementsRunLedger, Ledger!Spec
=============================================================================
