------------------------------- MODULE Invocation -------------------------------
(***************************************************************************)
(* Function invocations of one runtime process.  A request takes a         *)
(* capacity slot and invokes a Function; the invoker writes an execution   *)
(* row, has an executor run the compiled code in a child process, records  *)
(* the outcome and answers.  The code may call further Functions, each an  *)
(* invocation of its own, linked to its caller by an abort signal.  A      *)
(* sweep settles executions whose process died.                            *)
(*                                                                         *)
(* Timers fire at any moment: how long a Function takes is left open.      *)
(***************************************************************************)
EXTENDS Naturals, Sequences, FiniteSets

CONSTANTS
  Executions,    \* executions that may be begun
  Capacity,      \* RUNTIME_CONCURRENCY
  MaxDepth,      \* internal calls nest this deep (8 in the code)
  MaxInbox,      \* bound: unhandled messages of a child process
  Provider,      \* "local" or "container"
  MaxFaults,     \* bound: faults
  Faults         \* the faults this instance exhibits

FaultKinds == {"dbError", "lostAck", "heartbeat", "crash", "exit"}

ASSUME RuntimeAssumption ==
  /\ {MaxDepth, MaxInbox, MaxFaults} \subseteq Nat
  /\ Capacity \in Nat \ {0}
  /\ Provider \in {"local", "container"}
  /\ Faults \subseteq FaultKinds

VARIABLES
  lineage,    \* an execution and its callers up to the root
  depth,      \* InvokeRequest.internalDepth
  row,        \* FunctionExecution.status
  stale,      \* FunctionExecution.heartbeatAt is older than the cutoff
  pc,         \* where the invoker is
  outcome,    \* executionStatus
  aborted,    \* the invocation's AbortController has fired
  linked,     \* it still follows its caller's signal
  exe,        \* the executor: not started, its child is up, or its result
  cancel,     \* the executor holds a cancellationResult
  inbox,      \* messages of the child that the executor has not handled
  holding,    \* requests in the capacity's WeakSet
  active,     \* the capacity's counter
  swept,      \* what the sweep has read
  faults      \* faults so far

invoker  == <<lineage, depth, pc, outcome>>
signals  == <<aborted, linked>>
executor == <<exe, cancel, inbox>>
rows     == <<row, stale>>
slots    == <<holding, active>>
vars == <<invoker, signals, executor, rows, slots, swept, faults>>

Outcomes == {"success", "denied", "timeout", "error"}
Working  == {"beginning", "starting", "executing", "recording", "auditing", "failing", "denying"}
Ended    == {"answered", "rejected", "dead"}
Messages == {"call", "result", "error", "denied", "timeout"}

TypeOK ==
  /\ lineage \in [Executions -> SUBSET Executions]
  /\ depth \in [Executions -> 0..MaxDepth]
  /\ row \in [Executions -> {"none", "running"} \cup Outcomes]
  /\ stale \in [Executions -> BOOLEAN]
  /\ pc \in [Executions -> {"none"} \cup Working \cup Ended]
  /\ outcome \in [Executions -> {"none"} \cup Outcomes]
  /\ aborted \in [Executions -> BOOLEAN]
  /\ linked \in [Executions -> BOOLEAN]
  /\ exe \in [Executions -> {"none", "up"} \cup Outcomes]
  /\ cancel \in [Executions -> BOOLEAN]
  /\ inbox \in [Executions -> Seq(Messages)]
  /\ \A e \in Executions : Len(inbox[e]) <= MaxInbox
  /\ holding \subseteq Executions
  /\ active \in 0..Capacity
  /\ swept \subseteq Executions
  /\ faults \in 0..MaxFaults

Init ==
  /\ lineage = [e \in Executions |-> {}]
  /\ depth = [e \in Executions |-> 0]
  /\ row = [e \in Executions |-> "none"]
  /\ stale = [e \in Executions |-> FALSE]
  /\ pc = [e \in Executions |-> "none"]
  /\ outcome = [e \in Executions |-> "none"]
  /\ aborted = [e \in Executions |-> FALSE]
  /\ linked = [e \in Executions |-> FALSE]
  /\ exe = [e \in Executions |-> "none"]
  /\ cancel = [e \in Executions |-> FALSE]
  /\ inbox = [e \in Executions |-> << >>]
  /\ holding = {}
  /\ active = 0
  /\ swept = {}
  /\ faults = 0

Fault(kind) ==
  /\ kind \in Faults
  /\ faults < MaxFaults
  /\ faults' = faults + 1

Goto(e, where) == pc' = [pc EXCEPT ![e] = where]

-----------------------------------------------------------------------------
(* Requests and capacity (server.ts).                                       *)

(* Mutant: the count goes down for a request that holds no slot any more *)
ReleaseTwice(e) ==
  /\ holding' = holding \ {e}
  /\ active' = IF active > 0 THEN active - 1 ELSE 0

Release(e) ==
  /\ holding' = holding \ {e}
  /\ active' = IF e \in holding THEN active - 1 ELSE active

(* Mutant: a call does not look at a signal that has already fired *)
EnterUnaborted(e, caller) ==
  /\ pc[e] = "none"
  /\ Goto(e, "beginning")
  /\ lineage' = [lineage EXCEPT ![e] = {e} \cup (IF caller = e THEN {} ELSE lineage[caller])]
  /\ depth' = [depth EXCEPT ![e] = IF caller = e THEN 0 ELSE depth[caller] + 1]
  /\ linked' = [linked EXCEPT ![e] = TRUE]
  /\ UNCHANGED <<aborted, outcome, rows>>

(* invoke: the new controller follows the caller's signal; a root's caller   *)
(* is its request, written as the root itself.                               *)
Enter(e, caller) ==
  /\ pc[e] = "none"
  /\ Goto(e, "beginning")
  /\ lineage' = [lineage EXCEPT ![e] = {e} \cup (IF caller = e THEN {} ELSE lineage[caller])]
  /\ depth' = [depth EXCEPT ![e] = IF caller = e THEN 0 ELSE depth[caller] + 1]
  /\ linked' = [linked EXCEPT ![e] = TRUE]
  /\ aborted' = [aborted EXCEPT ![e] = aborted[caller]]
  /\ UNCHANGED <<outcome, rows>>

(* A request beyond the capacity is answered at once *)
Arrive(e) ==
  /\ active < Capacity
  /\ holding' = holding \cup {e}
  /\ active' = active + 1
  /\ Enter(e, e)
  /\ UNCHANGED <<executor, swept, faults>>

(* The abort event of e's controller reaches the calls below it, as far as   *)
(* they are still linked, and the executors that listen.                     *)
Reached(e) ==
  {d \in Executions : e \in lineage[d] /\ \A c \in lineage[d] \ lineage[e] : linked[c]}

Abort(e) ==
  /\ aborted' = [d \in Executions |-> aborted[d] \/ d \in Reached(e)]
  /\ cancel' = [d \in Executions |->
                  \/ cancel[d]
                  \/ d \in Reached(e) /\ ~aborted[d] /\ exe[d] = "up"]

(* The client closes its connection: the slot is free at once *)
ClientAborts(e) ==
  /\ e \in holding
  /\ Release(e)
  /\ Abort(e)
  /\ UNCHANGED <<invoker, linked, exe, inbox, rows, swept, faults>>

-----------------------------------------------------------------------------
(* RuntimeInvoker.invoke.                                                   *)

Finish(e, how) ==
  /\ Goto(e, how)
  /\ linked' = [linked EXCEPT ![e] = FALSE]
  /\ IF lineage[e] = {e} THEN Release(e) ELSE UNCHANGED slots

Stay(e, where) ==
  /\ Goto(e, where)
  /\ UNCHANGED <<linked, slots>>

(* Statements that succeed, that fail, or whose acknowledgement is lost *)
Written(e, status) ==
  /\ row' = [row EXCEPT ![e] = status]
  /\ UNCHANGED faults

Thrown(e, status) ==
  \/ Fault("dbError") /\ UNCHANGED row
  \/ Fault("lostAck") /\ row' = [row EXCEPT ![e] = status]

Begin(e) ==
  /\ pc[e] = "beginning"
  /\ \/ Written(e, "running") /\ Stay(e, "starting")
     \/ Thrown(e, "running") /\ Finish(e, "rejected")
  /\ stale' = [stale EXCEPT ![e] = FALSE]
  /\ UNCHANGED <<lineage, depth, outcome, aborted, executor, swept>>

(* Permissions (not of internal calls), input schema, secrets, a child that  *)
(* cannot be started                                                         *)
Refuse(e) ==
  /\ pc[e] = "starting"
  /\ \E why \in {"denied", "error"} :
       /\ why = "denied" => depth[e] = 0
       /\ outcome' = [outcome EXCEPT ![e] = why]
  /\ Goto(e, "failing")
  /\ UNCHANGED <<lineage, depth, signals, executor, rows, slots, swept, faults>>

(* executor.execute listens for the abort event from here on *)
Start(e) ==
  /\ pc[e] = "starting"
  /\ Goto(e, "executing")
  /\ exe' = [exe EXCEPT ![e] = "up"]
  /\ UNCHANGED <<lineage, depth, outcome, signals, cancel, inbox, rows, slots, swept, faults>>

(* An output may still fail its schema or mapping *)
TakeResult(e) ==
  /\ pc[e] = "executing"
  /\ exe[e] \in Outcomes
  /\ \/ exe[e] = "success" /\ Goto(e, "recording") /\ outcome' = [outcome EXCEPT ![e] = "success"]
     \/ exe[e] = "success" /\ Goto(e, "failing") /\ outcome' = [outcome EXCEPT ![e] = "error"]
     \/ exe[e] # "success" /\ Goto(e, "failing") /\ outcome' = [outcome EXCEPT ![e] = exe[e]]
  /\ UNCHANGED <<lineage, depth, signals, executor, rows, slots, swept, faults>>

RecordSuccess(e) ==
  /\ pc[e] = "recording"
  /\ \/ Written(e, "success") /\ Stay(e, "auditing") /\ UNCHANGED outcome
     \/ /\ Thrown(e, "success")
        /\ Stay(e, "failing")
        /\ outcome' = [outcome EXCEPT ![e] = "error"]
  /\ UNCHANGED <<lineage, depth, aborted, executor, stale, swept>>

(* Mutant: an audit event that cannot be written is answered as a failure without recording it *)
AuditForgets(e) ==
  /\ pc[e] = "auditing"
  /\ \/ Finish(e, "answered") /\ UNCHANGED <<outcome, faults>>
     \/ /\ Fault("dbError")
        /\ Finish(e, "answered")
        /\ outcome' = [outcome EXCEPT ![e] = "error"]
  /\ UNCHANGED <<lineage, depth, aborted, executor, rows, swept>>

(* An audit event that cannot be written turns the success into an error *)
AuditSuccess(e) ==
  /\ pc[e] = "auditing"
  /\ \/ Finish(e, "answered") /\ UNCHANGED <<outcome, faults>>
     \/ /\ Fault("dbError")
        /\ Stay(e, "failing")
        /\ outcome' = [outcome EXCEPT ![e] = "error"]
  /\ UNCHANGED <<lineage, depth, aborted, executor, rows, swept>>

(* catch: what fails here rejects the invocation *)
RecordFailure(e) ==
  /\ pc[e] = "failing"
  /\ \/ Written(e, outcome[e]) /\ outcome[e] = "denied" /\ Stay(e, "denying")
     \/ Written(e, outcome[e]) /\ outcome[e] # "denied" /\ Finish(e, "answered")
     \/ Thrown(e, outcome[e]) /\ Finish(e, "rejected")
  /\ UNCHANGED <<lineage, depth, outcome, aborted, executor, stale, swept>>

AuditDenial(e) ==
  /\ pc[e] = "denying"
  /\ \/ Finish(e, "answered") /\ UNCHANGED faults
     \/ Fault("dbError") /\ Finish(e, "rejected")
  /\ UNCHANGED <<lineage, depth, outcome, aborted, executor, rows, swept>>

-----------------------------------------------------------------------------
(* The executor and the code it runs (executor.ts, container-executor.ts).  *)

(* The code reports its end once; it calls Functions whenever it likes *)
Said(e) == {inbox[e][i] : i \in DOMAIN inbox[e]}

Send(e, message) ==
  /\ exe[e] = "up"
  /\ Len(inbox[e]) < MaxInbox
  /\ message = "call" => Provider = "local"
  /\ message # "call" => Said(e) \subseteq {"call"}
  /\ inbox' = [inbox EXCEPT ![e] = Append(inbox[e], message)]
  /\ UNCHANGED <<invoker, signals, exe, cancel, rows, slots, swept, faults>>

(* Mutant: a result counts although another one is in *)
SettleAgain(e, result) ==
  /\ exe' = [exe EXCEPT ![e] = result]
  /\ UNCHANGED cancel

(* finish(cancellationResult ?? result), unless it has settled *)
Settle(e, result) ==
  /\ exe' = [exe EXCEPT ![e] = IF exe[e] # "up" THEN exe[e]
                               ELSE IF cancel[e] THEN "timeout" ELSE result]
  /\ UNCHANGED cancel

(* Messages that are read after the executor has settled are handled, too;   *)
(* the container's lines are closed by then.                                 *)
Ends(message) == IF message = "result" THEN "success" ELSE message

HandleEnd(e) ==
  /\ inbox[e] # << >>
  /\ Head(inbox[e]) # "call"
  /\ Settle(e, Ends(Head(inbox[e])))
  /\ inbox' = [inbox EXCEPT ![e] = Tail(inbox[e])]
  /\ UNCHANGED <<invoker, signals, rows, slots, swept, faults>>

MayCall(e) == depth[e] < MaxDepth

HandleCall(e, callee) ==
  /\ inbox[e] # << >>
  /\ Head(inbox[e]) = "call"
  /\ MayCall(e)
  /\ Enter(callee, e)
  /\ inbox' = [inbox EXCEPT ![e] = Tail(inbox[e])]
  /\ UNCHANGED <<exe, cancel, slots, swept, faults>>

(* Too deep, or not in the deployment *)
RefuseCall(e) ==
  /\ inbox[e] # << >>
  /\ Head(inbox[e]) = "call"
  /\ inbox' = [inbox EXCEPT ![e] = Tail(inbox[e])]
  /\ UNCHANGED <<invoker, signals, exe, cancel, rows, slots, swept, faults>>

(* The time limit aborts the invocation and what it has called *)
TimerFires(e) ==
  /\ exe[e] = "up"
  /\ ~cancel[e]
  /\ aborted' = [d \in Executions |-> aborted[d] \/ d \in Reached(e)]
  /\ cancel' = [d \in Executions |->
                  \/ cancel[d] \/ d = e
                  \/ d \in Reached(e) /\ ~aborted[d] /\ exe[d] = "up"]
  /\ UNCHANGED <<invoker, linked, exe, inbox, rows, slots, swept, faults>>

(* Mutant: a cancelled child is only ended when it has reported something *)
GraceNeedsReport(e) ==
  /\ exe[e] = "up"
  /\ cancel[e]
  /\ inbox[e] # << >>
  /\ Settle(e, "timeout")
  /\ UNCHANGED <<invoker, signals, inbox, rows, slots, swept, faults>>

(* The grace period after a cancellation is over: the child is killed *)
GraceEnds(e) ==
  /\ exe[e] = "up"
  /\ cancel[e]
  /\ Settle(e, "timeout")
  /\ UNCHANGED <<invoker, signals, inbox, rows, slots, swept, faults>>

(* The child dies by itself; the local executor then forgets a cancellation *)
ChildExits(e) ==
  /\ exe[e] = "up"
  /\ Fault("exit")
  /\ exe' = [exe EXCEPT ![e] = IF Provider = "container" /\ cancel[e] THEN "timeout" ELSE "error"]
  /\ UNCHANGED <<invoker, signals, cancel, inbox, rows, slots, swept>>

-----------------------------------------------------------------------------
(* Heartbeats, and the sweep of executions whose process died.              *)

Beating == {"starting", "executing", "recording", "auditing", "failing", "denying"}

Heartbeat(e) ==
  /\ pc[e] \in Beating
  /\ row[e] = "running"
  /\ stale' = [stale EXCEPT ![e] = FALSE]
  /\ UNCHANGED <<invoker, signals, executor, row, slots, swept, faults>>

(* 90 s without a heartbeat, which a live invocation sends every 15 s *)
GoStale(e) ==
  /\ row[e] = "running"
  /\ ~stale[e]
  /\ pc[e] \in Beating => Fault("heartbeat")
  /\ pc[e] \notin Beating => UNCHANGED faults
  /\ stale' = [stale EXCEPT ![e] = TRUE]
  /\ UNCHANGED <<invoker, signals, executor, row, slots, swept>>

(* Mutant: the sweep closes what it has read, whatever its status is now *)
SweepBlindly ==
  /\ swept # {}
  /\ row' = [e \in Executions |-> IF e \in swept THEN "error" ELSE row[e]]
  /\ swept' = {}
  /\ UNCHANGED <<invoker, signals, executor, stale, slots, faults>>

SweepReads ==
  /\ swept = {}
  /\ swept' = {e \in Executions : row[e] = "running" /\ stale[e]}
  /\ UNCHANGED <<invoker, signals, executor, rows, slots, faults>>

SweepWrites ==
  /\ swept # {}
  /\ row' = [e \in Executions |-> IF e \in swept /\ row[e] = "running" THEN "error" ELSE row[e]]
  /\ swept' = {}
  /\ UNCHANGED <<invoker, signals, executor, stale, slots, faults>>

(* The runtime process dies with all its invocations and starts again *)
Crash ==
  /\ Fault("crash")
  /\ pc' = [e \in Executions |-> IF pc[e] \in Working THEN "dead" ELSE pc[e]]
  /\ exe' = [e \in Executions |-> "none"]
  /\ cancel' = [e \in Executions |-> FALSE]
  /\ inbox' = [e \in Executions |-> << >>]
  /\ linked' = [e \in Executions |-> FALSE]
  /\ holding' = {}
  /\ active' = 0
  /\ UNCHANGED <<lineage, depth, outcome, aborted, rows, swept>>

-----------------------------------------------------------------------------
Invoke(e) ==
  \/ Begin(e) \/ Refuse(e) \/ Start(e) \/ TakeResult(e)
  \/ RecordSuccess(e) \/ AuditSuccess(e) \/ RecordFailure(e) \/ AuditDenial(e)

Handle(e) == HandleEnd(e) \/ RefuseCall(e) \/ \E callee \in Executions : HandleCall(e, callee)

Execute(e) ==
  \/ \E message \in Messages : Send(e, message)
  \/ Handle(e) \/ TimerFires(e) \/ GraceEnds(e) \/ ChildExits(e)

Sweep == SweepReads \/ SweepWrites

Next ==
  \/ \E e \in Executions :
       Arrive(e) \/ ClientAborts(e) \/ Invoke(e) \/ Execute(e) \/ Heartbeat(e) \/ GoStale(e)
  \/ Sweep
  \/ Crash

Spec == Init /\ [][Next]_vars

(* The event loop runs what is ready, timers fire, and some replica sweeps.  *)
(* The code need not end, call or report anything.                           *)
Fairness ==
  /\ \A e \in Executions :
       /\ WF_vars(Invoke(e)) /\ WF_vars(Handle(e))
       /\ WF_vars(TimerFires(e)) /\ WF_vars(GraceEnds(e))
       /\ WF_vars(GoStale(e) /\ pc[e] \notin Beating)
  /\ WF_vars(SweepWrites) /\ WF_vars(SweepReads /\ swept' # {})

FairSpec == Spec /\ Fairness

-----------------------------------------------------------------------------
(* What the caller is told is what the execution history says, although     *)
(* outcomes are revised when they cannot be audited and the sweep may close *)
(* an execution that is still running.                                      *)
AnswerRecorded == \A e \in Executions : pc[e] = "answered" => row[e] = outcome[e]

(* The executor resolves once: a late result, the end of the grace period   *)
(* and the exit of the child do not change its result.                      *)
KeepsResult ==
  \A e \in Executions : exe[e] \in Outcomes => exe'[e] \in {exe[e], "none"}
SettlesOnce == [][KeepsResult]_vars

(* A Function that has exceeded its time limit never counts as successful,  *)
(* even when it reports its result within the grace period.                 *)
LateIsTimeout == \A e \in Executions : cancel[e] => exe[e] # "success"

(* An abort reaches every linked call below: one that was under way when it *)
(* fired and one that begins afterwards.                                    *)
AbortReaches ==
  \A e, d \in Executions : aborted[e] /\ d \in Reached(e) => aborted[d]

(* The counter is the number of requests that hold a slot, although a       *)
(* request may end by its response, by an error and by an abort.            *)
SlotsExact == active = Cardinality(holding)

(* Every execution that is begun ends: its row gets an outcome, its child   *)
(* is gone and its slot is free, whatever the code does.                    *)
ExecutionsEnd ==
  \A e \in Executions : pc[e] # "none" ~> pc[e] \in Ended /\ row[e] # "running" /\ exe[e] # "up"
                                            /\ e \notin holding

(* The executions implement the history.                                    *)
Fate == [e \in Executions |->
           IF pc[e] \in {"none", "beginning"} THEN "unopened"
           ELSE IF pc[e] \in Ended /\ row[e] # "running" THEN "closed" ELSE "open"]
History == INSTANCE ExecutionLedger WITH fate <- Fate, status <- row
ImplementsExecutionLedger == History!Spec
=============================================================================
