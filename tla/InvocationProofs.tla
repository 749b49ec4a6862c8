---------------------------- MODULE InvocationProofs ----------------------------
(* Theorems about Invocation, for every value of its constants. *)
EXTENDS Invocation, FiniteSetTheorems, TLAPS

(* The slots are counted, and held by requests. *)
Counted == IsFiniteSet(holding) /\ SlotsExact
Holders == \A e \in holding : pc[e] # "none"

TypeInv == TypeOK /\ Counted /\ Holders

(* How far an invocation is, what its row, its outcome and its executor say. *)
Progress(e) ==
  /\ pc[e] \in {"none", "beginning"} => row[e] = "none"
  /\ pc[e] \in {"none", "beginning", "starting"} => exe[e] = "none"
  /\ pc[e] \in Working \ {"beginning"} => row[e] # "none"
  /\ pc[e] = "recording" => outcome[e] = "success"
  /\ pc[e] = "auditing" => outcome[e] = "success" /\ row[e] = "success"
  /\ pc[e] = "failing" => outcome[e] \in Outcomes
  /\ pc[e] \in {"denying", "answered"} => outcome[e] \in Outcomes /\ row[e] = outcome[e]
  /\ cancel[e] => exe[e] # "success"
Recorded == \A e \in Executions : Progress(e)

LEMMA ConstantFacts ==
  /\ MaxDepth \in Nat /\ MaxInbox \in Nat /\ MaxFaults \in Nat
  /\ Capacity \in Nat /\ Capacity >= 1
  BY RuntimeAssumption

LEMMA InitType == Init => TypeInv
<1> SUFFICES ASSUME Init PROVE TypeInv
  OBVIOUS
<1>1. IsFiniteSet({}) /\ Cardinality({}) = 0
  BY FS_EmptySet
<1>2. \A e \in Executions : inbox[e] \in Seq(Messages) /\ Len(inbox[e]) <= MaxInbox
  BY ConstantFacts DEF Init
<1> QED
  BY <1>1, <1>2, ConstantFacts DEF Init, TypeInv, TypeOK, Counted, SlotsExact, Holders

(* What taking and releasing a slot does to the count. *)
SlotsTyped == holding \subseteq Executions /\ active \in 0..Capacity /\ Counted

LEMMA ReleaseCounts ==
  ASSUME TypeInv, NEW e \in Executions, Release(e)
  PROVE  SlotsTyped'
<1>1. IsFiniteSet(holding) /\ active = Cardinality(holding) /\ active \in 0..Capacity
  BY DEF TypeInv, TypeOK, Counted, SlotsExact
<1>2. IsFiniteSet(holding \ {e})
      /\ Cardinality(holding \ {e}) = IF e \in holding THEN Cardinality(holding) - 1
                                                       ELSE Cardinality(holding)
  BY <1>1, FS_RemoveElement
<1>3. Cardinality(holding \ {e}) \in Nat
  BY <1>2, FS_CardinalityType
<1> QED
  BY <1>1, <1>2, <1>3, ConstantFacts DEF Release, SlotsTyped, Counted, SlotsExact, TypeInv, TypeOK

LEMMA ArriveCounts ==
  ASSUME TypeInv, NEW e \in Executions, e \notin holding, active < Capacity,
         holding' = holding \cup {e}, active' = active + 1
  PROVE  SlotsTyped'
<1>1. IsFiniteSet(holding) /\ active = Cardinality(holding) /\ active \in 0..Capacity
  BY DEF TypeInv, TypeOK, Counted, SlotsExact
<1>2. IsFiniteSet(holding \cup {e}) /\ Cardinality(holding \cup {e}) = Cardinality(holding) + 1
  BY <1>1, FS_AddElement
<1> QED
  BY <1>1, <1>2, ConstantFacts DEF SlotsTyped, Counted, SlotsExact, TypeInv, TypeOK

(* The invoker: it moves on, and its request may give its slot back. *)
LEMMA FinishType ==
  ASSUME TypeInv, NEW e \in Executions, NEW how \in Ended, Finish(e, how)
  PROVE  /\ SlotsTyped' /\ Holders'
         /\ pc' \in [Executions -> {"none"} \cup Working \cup Ended]
         /\ linked' \in [Executions -> BOOLEAN]
<1>1. SlotsTyped
  BY DEF SlotsTyped, TypeInv, TypeOK
<1>2. SlotsTyped'
  <2>1. CASE UNCHANGED slots
    BY <1>1, <2>1 DEF SlotsTyped, Counted, SlotsExact, slots
  <2> QED
    BY <2>1, ReleaseCounts DEF Finish
<1>3. holding' \subseteq holding
  BY DEF Finish, Release, slots
<1> QED
  BY <1>2, <1>3 DEF Finish, Goto, TypeInv, TypeOK, Holders, Ended

LEMMA StayType ==
  ASSUME TypeInv, NEW e \in Executions, NEW where \in Working, Stay(e, where)
  PROVE  /\ SlotsTyped' /\ Holders'
         /\ pc' \in [Executions -> {"none"} \cup Working \cup Ended]
         /\ linked' \in [Executions -> BOOLEAN]
BY DEF Stay, Goto, slots, SlotsTyped, Counted, SlotsExact, Holders, TypeInv, TypeOK, Working

LEMMA WriteType ==
  ASSUME TypeInv, NEW e \in Executions, NEW status \in {"running"} \cup Outcomes,
         Written(e, status) \/ Thrown(e, status)
  PROVE  /\ row' \in [Executions -> {"none", "running"} \cup Outcomes]
         /\ faults' \in 0..MaxFaults
<1>1. row' = row \/ row' = [row EXCEPT ![e] = status]
  BY DEF Written, Thrown
<1>2. faults' = faults \/ (faults < MaxFaults /\ faults' = faults + 1)
  BY DEF Written, Thrown, Fault
<1>3. row \in [Executions -> {"none", "running"} \cup Outcomes] /\ faults \in 0..MaxFaults
  BY DEF TypeInv, TypeOK
<1>4. row' \in [Executions -> {"none", "running"} \cup Outcomes]
  BY <1>1, <1>3
<1> QED
  BY <1>2, <1>3, <1>4, ConstantFacts

LEMMA InvokeType ==
  ASSUME TypeInv, Recorded, NEW e \in Executions, Invoke(e)
  PROVE  TypeInv'
<1> USE DEF Outcomes, Working, Ended
<1>1. UNCHANGED <<lineage, depth, aborted, swept>>
  BY DEF Invoke, Begin, Refuse, Start, TakeResult, RecordSuccess, AuditSuccess, RecordFailure,
         AuditDenial, signals
<1>2. /\ SlotsTyped' /\ Holders'
      /\ pc' \in [Executions -> {"none"} \cup Working \cup Ended]
      /\ linked' \in [Executions -> BOOLEAN]
  <2>1. CASE Goto(e, "failing") /\ UNCHANGED <<linked, slots>>
    BY <2>1, StayType DEF Stay
  <2>2. CASE Goto(e, "executing") /\ UNCHANGED <<linked, slots>>
    BY <2>2, StayType DEF Stay
  <2>3. CASE Goto(e, "recording") /\ UNCHANGED <<linked, slots>>
    BY <2>3, StayType DEF Stay
  <2>4. CASE \E how \in Ended : Finish(e, how)
    BY <2>4, FinishType
  <2>5. CASE \E where \in Working : Stay(e, where)
    BY <2>5, StayType
  <2> QED
    BY <2>1, <2>2, <2>3, <2>4, <2>5
    DEF Invoke, Begin, Refuse, Start, TakeResult, RecordSuccess, AuditSuccess, RecordFailure,
        AuditDenial, signals
<1>3. outcome' \in [Executions -> {"none"} \cup Outcomes]
  BY DEF Invoke, Begin, Refuse, Start, TakeResult, RecordSuccess, AuditSuccess, RecordFailure,
         AuditDenial, TypeInv, TypeOK
<1>4. row' \in [Executions -> {"none", "running"} \cup Outcomes] /\ faults' \in 0..MaxFaults
  <2>1. CASE UNCHANGED row
    BY <2>1, ConstantFacts
    DEF Invoke, Begin, Refuse, Start, TakeResult, RecordSuccess, AuditSuccess, RecordFailure,
        AuditDenial, Written, Thrown, Fault, TypeInv, TypeOK
  <2>2. CASE \E status \in {"running"} \cup Outcomes : Written(e, status) \/ Thrown(e, status)
    BY <2>2, WriteType
  <2>3. pc[e] = "failing" => outcome[e] \in Outcomes
    BY DEF Recorded, Progress
  <2> QED
    BY <2>1, <2>2, <2>3
    DEF Invoke, Begin, Refuse, Start, TakeResult, RecordSuccess, AuditSuccess, RecordFailure,
        AuditDenial, rows
<1>5. /\ stale' \in [Executions -> BOOLEAN]
      /\ exe' \in [Executions -> {"none", "up"} \cup Outcomes]
      /\ UNCHANGED <<cancel, inbox>>
  BY DEF Invoke, Begin, Refuse, Start, TakeResult, RecordSuccess, AuditSuccess, RecordFailure,
         AuditDenial, TypeInv, TypeOK, rows, executor
<1> QED
  BY <1>1, <1>2, <1>3, <1>4, <1>5 DEF TypeInv, TypeOK, SlotsTyped

LEMMA EnterType ==
  ASSUME TypeInv, NEW e \in Executions, NEW caller \in Executions, Enter(e, caller),
         caller = e \/ MayCall(caller)
  PROVE  /\ lineage' \in [Executions -> SUBSET Executions]
         /\ depth' \in [Executions -> 0..MaxDepth]
         /\ pc' \in [Executions -> {"none"} \cup Working \cup Ended]
         /\ aborted' \in [Executions -> BOOLEAN]
         /\ linked' \in [Executions -> BOOLEAN]
         /\ \A d \in Executions : pc[d] # "none" => pc'[d] # "none"
<1>1. lineage' \in [Executions -> SUBSET Executions]
  BY DEF TypeInv, TypeOK, Enter
<1>2. (IF caller = e THEN 0 ELSE depth[caller] + 1) \in 0..MaxDepth
  BY ConstantFacts DEF TypeInv, TypeOK, MayCall
<1>3. depth' \in [Executions -> 0..MaxDepth]
  BY <1>2 DEF TypeInv, TypeOK, Enter
<1>4. pc' \in [Executions -> {"none"} \cup Working \cup Ended]
      /\ \A d \in Executions : pc[d] # "none" => pc'[d] # "none"
  BY DEF TypeInv, TypeOK, Enter, Goto, Working
<1> QED
  BY <1>1, <1>3, <1>4 DEF TypeInv, TypeOK, Enter

LEMMA ArriveType ==
  ASSUME TypeInv, NEW e \in Executions, Arrive(e)
  PROVE  TypeInv'
<1>1. e \notin holding
  BY DEF Arrive, Enter, TypeInv, Holders
<1>2. SlotsTyped'
  BY <1>1, ArriveCounts DEF Arrive
<1>3. Holders'
  BY EnterType DEF Arrive, Holders, TypeInv, TypeOK, Enter, Goto
<1> QED
  BY <1>2, <1>3, EnterType
  DEF Arrive, SlotsTyped, TypeInv, TypeOK, Enter, rows, executor

(* A message is read, or written within the bound. *)
LEMMA InboxType ==
  ASSUME TypeInv, NEW e \in Executions, NEW message \in Messages,
         \/ inbox[e] # << >> /\ inbox' = [inbox EXCEPT ![e] = Tail(inbox[e])]
         \/ Len(inbox[e]) < MaxInbox /\ inbox' = [inbox EXCEPT ![e] = Append(inbox[e], message)]
  PROVE  /\ inbox' \in [Executions -> Seq(Messages)]
         /\ \A d \in Executions : Len(inbox'[d]) <= MaxInbox
<1>1. inbox \in [Executions -> Seq(Messages)] /\ \A d \in Executions : Len(inbox[d]) <= MaxInbox
  BY DEF TypeInv, TypeOK
<1>2. inbox'[e] \in Seq(Messages) /\ Len(inbox'[e]) <= MaxInbox
  <2>1. CASE inbox[e] # << >> /\ inbox' = [inbox EXCEPT ![e] = Tail(inbox[e])]
    BY <1>1, <2>1, ConstantFacts
  <2>2. CASE Len(inbox[e]) < MaxInbox /\ inbox' = [inbox EXCEPT ![e] = Append(inbox[e], message)]
    BY <1>1, <2>2, ConstantFacts
  <2> QED
    BY <2>1, <2>2
<1>3. \A d \in Executions : d # e => inbox'[d] = inbox[d]
  BY <1>1
<1>4. DOMAIN inbox' = Executions /\ inbox' = [d \in Executions |-> inbox'[d]]
  BY <1>1
<1> QED
  BY <1>1, <1>2, <1>3, <1>4

LEMMA EndsType ==
  ASSUME TypeInv, NEW e \in Executions, inbox[e] # << >>, Head(inbox[e]) # "call"
  PROVE  Ends(Head(inbox[e])) \in Outcomes
<1>1. Head(inbox[e]) \in Messages
  BY DEF TypeInv, TypeOK
<1> QED
  BY <1>1 DEF Messages, Ends, Outcomes

LEMMA SettleType ==
  ASSUME TypeInv, NEW e \in Executions, NEW result \in Outcomes, Settle(e, result)
  PROVE  exe' \in [Executions -> {"none", "up"} \cup Outcomes] /\ UNCHANGED cancel
BY DEF Settle, TypeInv, TypeOK, Outcomes

LEMMA ExecuteType ==
  ASSUME TypeInv, NEW e \in Executions, Execute(e)
  PROVE  TypeInv'
<1>1. ASSUME NEW message \in Messages, Send(e, message) PROVE TypeInv'
  BY <1>1, InboxType
  DEF Send, TypeInv, TypeOK, Counted, SlotsExact, Holders, invoker, signals, rows, slots
<1>2. CASE HandleEnd(e)
  <2>1. "call" \in Messages
    BY DEF Messages
  <2> QED
    BY <1>2, <2>1, InboxType, EndsType, SettleType
    DEF HandleEnd, TypeInv, TypeOK, Counted, SlotsExact, Holders, invoker, signals, rows, slots
<1>3. CASE RefuseCall(e)
  <2>1. "call" \in Messages
    BY DEF Messages
  <2> QED
    BY <1>3, <2>1, InboxType
    DEF RefuseCall, TypeInv, TypeOK, Counted, SlotsExact, Holders, invoker, signals, rows, slots
<1>4. ASSUME NEW callee \in Executions, HandleCall(e, callee) PROVE TypeInv'
  <2>1. "call" \in Messages
    BY DEF Messages
  <2>2. Holders' /\ UNCHANGED <<outcome, row, stale>>
    BY <1>4, EnterType DEF HandleCall, TypeInv, Holders, slots, Enter, rows, TypeOK
  <2> QED
    BY <1>4, <2>1, <2>2, InboxType, EnterType
    DEF HandleCall, TypeInv, TypeOK, Counted, SlotsExact, slots
<1>5. CASE TimerFires(e)
  BY <1>5
  DEF TimerFires, TypeInv, TypeOK, Counted, SlotsExact, Holders, invoker, rows, slots
<1>6. CASE GraceEnds(e)
  BY <1>6, SettleType
  DEF GraceEnds, TypeInv, TypeOK, Counted, SlotsExact, Holders, invoker, signals, rows, slots,
      Outcomes
<1>7. CASE ChildExits(e)
  BY <1>7, ConstantFacts
  DEF ChildExits, Fault, TypeInv, TypeOK, Counted, SlotsExact, Holders, invoker, signals, rows,
      slots, Outcomes
<1> QED
  BY <1>1, <1>2, <1>3, <1>4, <1>5, <1>6, <1>7 DEF Execute, Handle

LEMMA OthersType ==
  ASSUME TypeInv,
         \/ \E e \in Executions : ClientAborts(e) \/ Heartbeat(e) \/ GoStale(e)
         \/ Sweep \/ Crash
  PROVE  TypeInv'
<1>1. ASSUME NEW e \in Executions, ClientAborts(e) PROVE TypeInv'
  <2>1. SlotsTyped' /\ Holders'
    BY <1>1, ReleaseCounts DEF ClientAborts, Release, TypeInv, Holders, invoker
  <2> QED
    BY <1>1, <2>1
    DEF ClientAborts, Abort, TypeInv, TypeOK, SlotsTyped, invoker, rows
<1>2. ASSUME NEW e \in Executions, Heartbeat(e) PROVE TypeInv'
  BY <1>2
  DEF Heartbeat, TypeInv, TypeOK, Counted, SlotsExact, Holders, invoker, signals, executor, slots
<1>3. ASSUME NEW e \in Executions, GoStale(e) PROVE TypeInv'
  <2>1. faults' \in 0..MaxFaults
    BY <1>3, ConstantFacts DEF GoStale, Fault, TypeInv, TypeOK
  <2> QED
    BY <1>3, <2>1
    DEF GoStale, TypeInv, TypeOK, Counted, SlotsExact, Holders, invoker, signals, executor, slots
<1>4. CASE SweepReads
  BY <1>4
  DEF SweepReads, TypeInv, TypeOK, Counted, SlotsExact, Holders, invoker, signals, executor, rows,
      slots
<1>5. CASE SweepWrites
  BY <1>5
  DEF SweepWrites, TypeInv, TypeOK, Counted, SlotsExact, Holders, invoker, signals, executor,
      slots, Outcomes
<1>6. CASE Crash
  <2>1. Counted' /\ Holders' /\ holding' = {} /\ active' = 0
    BY <1>6, FS_EmptySet DEF Crash, Counted, SlotsExact, Holders
  <2>2. \A d \in Executions : inbox'[d] \in Seq(Messages) /\ Len(inbox'[d]) <= MaxInbox
    BY <1>6, ConstantFacts DEF Crash
  <2>3. inbox' \in [Executions -> Seq(Messages)]
    BY <1>6 DEF Crash
  <2> QED
    BY <1>6, <2>1, <2>2, <2>3, ConstantFacts
    DEF Crash, Fault, TypeInv, TypeOK, rows, Working, Ended
<1> QED
  BY <1>1, <1>2, <1>3, <1>4, <1>5, <1>6 DEF Sweep

LEMMA TypeStep ==
  ASSUME TypeInv, Recorded, [Next]_vars
  PROVE  TypeInv'
<1>1. CASE UNCHANGED vars
  BY <1>1
  DEF vars, invoker, signals, executor, rows, slots, TypeInv, TypeOK, Counted, SlotsExact, Holders
<1> QED
  BY <1>1, ArriveType, OthersType, InvokeType, ExecuteType DEF Next

-----------------------------------------------------------------------------
(* What is recorded and what is answered.                                   *)

LEMMA InitRecorded == Init => Recorded
  BY DEF Init, Recorded, Progress, Working, Outcomes

(* Executions that a step leaves alone keep their progress. *)
Rests(d) ==
  /\ pc'[d] = pc[d] /\ row'[d] = row[d] /\ exe'[d] = exe[d]
  /\ outcome'[d] = outcome[d] /\ cancel'[d] = cancel[d]

LEMMA RestsRecorded ==
  ASSUME Recorded, NEW d \in Executions, Rests(d)
  PROVE  Progress(d)'
  BY DEF Recorded, Progress, Rests

LEMMA InvokeRecorded ==
  ASSUME TypeInv, Recorded, NEW e \in Executions, Invoke(e)
  PROVE  Recorded'
<1> USE DEF Finish, Stay, Goto
<1>1. \A d \in Executions : d # e => Rests(d)
  BY DEF TypeInv, TypeOK, Rests, Invoke, Begin, Refuse, Start, TakeResult, RecordSuccess,
         AuditSuccess, RecordFailure, AuditDenial, executor, rows, Written, Thrown
<1>2. Progress(e)
  BY DEF Recorded
<1>3. UNCHANGED cancel
  BY DEF Invoke, Begin, Refuse, Start, TakeResult, RecordSuccess, AuditSuccess, RecordFailure,
         AuditDenial, executor
<1>4. Progress(e)'
  <2> USE <1>2, <1>3 DEF TypeInv, TypeOK, Progress, Working, Outcomes, executor
  <2>1. CASE Begin(e)
    BY <2>1 DEF Begin, Written, Thrown
  <2>2. CASE Refuse(e)
    BY <2>2 DEF Refuse, rows
  <2>3. CASE Start(e)
    BY <2>3 DEF Start, rows
  <2>4. CASE TakeResult(e)
    BY <2>4 DEF TakeResult, rows
  <2>5. CASE RecordSuccess(e)
    BY <2>5 DEF RecordSuccess, Written, Thrown
  <2>6. CASE AuditSuccess(e)
    BY <2>6 DEF AuditSuccess, rows
  <2>7. CASE RecordFailure(e)
    BY <2>7 DEF RecordFailure, Written, Thrown
  <2>8. CASE AuditDenial(e)
    BY <2>8 DEF AuditDenial, rows
  <2> QED
    BY <2>1, <2>2, <2>3, <2>4, <2>5, <2>6, <2>7, <2>8 DEF Invoke
<1> QED
  BY <1>1, <1>4, RestsRecorded DEF Recorded

(* The executor's result and its cancellation, step by step. *)
LEMMA SettleKeeps ==
  ASSUME TypeInv, Recorded, NEW e \in Executions, NEW result \in Outcomes, Settle(e, result)
  PROVE  /\ UNCHANGED cancel
         /\ \A d \in Executions : d # e \/ exe[d] # "up" => exe'[d] = exe[d]
         /\ exe[e] = "up" => exe'[e] \in Outcomes
         /\ exe[e] = "up" /\ cancel[e] => exe'[e] = "timeout"
  BY DEF Settle, TypeInv, TypeOK, Outcomes

LEMMA ExecuteKeeps ==
  ASSUME TypeInv, Recorded, NEW e \in Executions, Execute(e)
  PROVE  \A d \in Executions :
           /\ exe[d] # "up" => exe'[d] = exe[d]
           /\ cancel'[d] /\ ~cancel[d] => exe'[d] = "up"
           /\ exe[d] = "up" => exe'[d] \in {"up"} \cup Outcomes
           /\ exe[d] = "up" /\ cancel[d] => exe'[d] # "success"
<1> USE DEF invoker, signals, executor, rows, slots
<1>1. CASE UNCHANGED <<exe, cancel>>
  BY <1>1
<1>2. ASSUME NEW result \in Outcomes, Settle(e, result)
      PROVE  \A d \in Executions :
               /\ exe[d] # "up" => exe'[d] = exe[d]
               /\ cancel'[d] /\ ~cancel[d] => exe'[d] = "up"
               /\ exe[d] = "up" => exe'[d] \in {"up"} \cup Outcomes
               /\ exe[d] = "up" /\ cancel[d] => exe'[d] # "success"
  BY <1>2, SettleKeeps
<1>3. CASE TimerFires(e)
  BY <1>3 DEF TimerFires, TypeInv, TypeOK
<1>4. CASE ChildExits(e)
  BY <1>4 DEF ChildExits, TypeInv, TypeOK, Outcomes
<1>5. "timeout" \in Outcomes
  BY DEF Outcomes
<1> QED
  BY <1>1, <1>2, <1>3, <1>4, <1>5, EndsType
  DEF Execute, Handle, Send, HandleEnd, RefuseCall, HandleCall, GraceEnds

LEMMA ExecuteRecorded ==
  ASSUME TypeInv, Recorded, NEW e \in Executions, Execute(e)
  PROVE  Recorded'
<1> SUFFICES ASSUME NEW d \in Executions PROVE Progress(d)'
  BY DEF Recorded
<1>1. /\ exe[d] # "up" => exe'[d] = exe[d]
      /\ cancel'[d] /\ ~cancel[d] => exe'[d] = "up"
      /\ exe[d] = "up" /\ cancel[d] => exe'[d] # "success"
  BY ExecuteKeeps
<1>2. UNCHANGED <<row, outcome>>
  BY DEF Execute, Send, Handle, HandleEnd, RefuseCall, HandleCall, TimerFires, GraceEnds,
         ChildExits, Enter, rows, invoker
<1>3. pc'[d] = pc[d] \/ (pc[d] = "none" /\ pc'[d] = "beginning")
  BY DEF Execute, Send, Handle, HandleEnd, RefuseCall, HandleCall, TimerFires, GraceEnds,
         ChildExits, Enter, Goto, invoker, TypeInv, TypeOK
<1>4. Progress(d)
  BY DEF Recorded
<1>5. cancel[d] \in BOOLEAN /\ cancel'[d] \in BOOLEAN
  BY ExecuteType DEF TypeInv, TypeOK
<1> QED
  BY <1>1, <1>2, <1>3, <1>4, <1>5 DEF Progress, Working

LEMMA OthersRecorded ==
  ASSUME TypeInv, Recorded,
         \/ \E e \in Executions : Arrive(e) \/ ClientAborts(e) \/ Heartbeat(e) \/ GoStale(e)
         \/ Sweep \/ Crash
  PROVE  Recorded'
<1> SUFFICES ASSUME NEW d \in Executions PROVE Progress(d)'
  BY DEF Recorded
<1> USE DEF invoker, signals, executor, rows, slots
<1>0. Progress(d)
  BY DEF Recorded
<1>1. ASSUME NEW e \in Executions, Arrive(e) PROVE Progress(d)'
  <2>1. UNCHANGED <<row, exe, outcome, cancel>>
    BY <1>1 DEF Arrive, Enter
  <2>2. pc'[d] = pc[d] \/ (pc[d] = "none" /\ pc'[d] = "beginning")
    BY <1>1 DEF Arrive, Enter, Goto, TypeInv, TypeOK
  <2> QED
    BY <1>0, <2>1, <2>2 DEF Progress, Working
<1>2. ASSUME NEW e \in Executions, ClientAborts(e) PROVE Progress(d)'
  <2>1. UNCHANGED <<row, exe, outcome, pc>>
    BY <1>2 DEF ClientAborts
  <2>2. cancel'[d] => cancel[d] \/ exe[d] = "up"
    BY <1>2 DEF ClientAborts, Abort
  <2> QED
    BY <1>0, <2>1, <2>2 DEF Progress
<1>3. CASE (\E e \in Executions : Heartbeat(e) \/ GoStale(e)) \/ SweepReads
  BY <1>3, RestsRecorded DEF Heartbeat, GoStale, SweepReads, Rests
<1>4. CASE SweepWrites
  <2>1. UNCHANGED <<pc, exe, outcome, cancel>>
    BY <1>4 DEF SweepWrites
  <2>2. row'[d] = row[d] \/ (row[d] = "running" /\ row'[d] = "error")
    BY <1>4 DEF SweepWrites
  <2> QED
    BY <1>0, <2>1, <2>2 DEF Progress, Outcomes, Working
<1>5. CASE Crash
  <2>1. UNCHANGED <<row, outcome>> /\ exe'[d] = "none" /\ cancel'[d] = FALSE
        /\ pc'[d] = IF pc[d] \in Working THEN "dead" ELSE pc[d]
    BY <1>5 DEF Crash
  <2> QED
    BY <1>0, <2>1 DEF Progress, Working
<1> QED
  BY <1>1, <1>2, <1>3, <1>4, <1>5 DEF Sweep

LEMMA RecordedStep ==
  ASSUME TypeInv, Recorded, [Next]_vars
  PROVE  Recorded'
<1>1. CASE UNCHANGED vars
  BY <1>1, RestsRecorded DEF vars, invoker, signals, executor, rows, Rests, Recorded
<1> QED
  BY <1>1, OthersRecorded, InvokeRecorded, ExecuteRecorded DEF Next

IInv == TypeInv /\ Recorded

LEMMA InvariantHolds == Spec => []IInv
<1>1. Init => IInv
  BY InitType, InitRecorded DEF IInv
<1>2. IInv /\ [Next]_vars => IInv'
  BY TypeStep, RecordedStep DEF IInv
<1> QED
  BY <1>1, <1>2, PTL DEF Spec

(* Every variable keeps its type: the count of slots never exceeds the      *)
(* capacity, calls never nest deeper than allowed.                          *)
THEOREM TypeCorrect == Spec => []TypeOK
<1>1. IInv => TypeOK
  BY DEF IInv, TypeInv
<1> QED
  BY <1>1, InvariantHolds, PTL

(* However a request ends - response, error, abort or several of them - its *)
(* slot is given back once.                                                 *)
THEOREM SlotsAreCounted == Spec => []SlotsExact
<1>1. IInv => SlotsExact
  BY DEF IInv, TypeInv, Counted
<1> QED
  BY <1>1, InvariantHolds, PTL

(* An answer agrees with the execution history, whatever database errors,   *)
(* lost acknowledgements and sweeps came between.                           *)
THEOREM AnswersAreRecorded == Spec => []AnswerRecorded
<1>1. IInv => AnswerRecorded
  BY DEF IInv, Recorded, Progress, AnswerRecorded
<1> QED
  BY <1>1, InvariantHolds, PTL

(* A Function that exceeded its time limit never counts as successful.      *)
THEOREM LateNeverSucceeds == Spec => []LateIsTimeout
<1>1. IInv => LateIsTimeout
  BY DEF IInv, Recorded, Progress, LateIsTimeout
<1> QED
  BY <1>1, InvariantHolds, PTL

LEMMA ResultStays ==
  ASSUME IInv, [Next]_vars
  PROVE  KeepsResult
<1> SUFFICES ASSUME NEW d \in Executions, exe[d] \in Outcomes PROVE exe'[d] \in {exe[d], "none"}
  BY DEF KeepsResult
<1>1. TypeInv /\ Recorded /\ Progress(d)
  BY DEF IInv, Recorded
<1>2. exe[d] # "up" /\ exe[d] # "none"
  BY DEF Outcomes
<1>3. ASSUME NEW e \in Executions, Execute(e) PROVE exe'[d] = exe[d]
  BY <1>1, <1>2, <1>3, ExecuteKeeps
<1>4. ASSUME NEW e \in Executions, Start(e) PROVE exe'[d] = exe[d]
  BY <1>1, <1>2, <1>4 DEF Start, Progress, TypeInv, TypeOK
<1>5. CASE Crash
  BY <1>5 DEF Crash
<1>6. CASE UNCHANGED exe
  BY <1>6
<1> QED
  BY <1>3, <1>4, <1>5, <1>6
  DEF Next, vars, executor, Arrive, ClientAborts, Invoke, Begin, Refuse, TakeResult,
      RecordSuccess, AuditSuccess, RecordFailure, AuditDenial, Heartbeat, GoStale, Sweep,
      SweepReads, SweepWrites

(* The executor resolves once, whichever of result, error, end of the grace *)
(* period and exit of the child come later.                                 *)
THEOREM ExecutorSettlesOnce == Spec => SettlesOnce
<1>1. IInv /\ [Next]_vars => [KeepsResult]_vars
  BY ResultStays
<1> QED
  BY <1>1, InvariantHolds, PTL DEF SettlesOnce, Spec

-----------------------------------------------------------------------------
(* Aborts.                                                                  *)

(* A lineage contains the lineages of its members, all of them begun.       *)
Descent ==
  \A d \in Executions : \A e \in lineage[d] : pc[e] # "none" /\ lineage[e] \subseteq lineage[d]

LEMMA EnterDescent ==
  ASSUME TypeInv, Descent, NEW e \in Executions, NEW caller \in Executions, Enter(e, caller)
  PROVE  Descent'
<1>1. \A d \in Executions : e \notin lineage[d]
  BY DEF Descent, Enter
<1>2. \A d \in Executions : d # e => lineage'[d] = lineage[d]
  BY DEF Enter, TypeInv, TypeOK
<1>3. lineage'[e] = {e} \cup (IF caller = e THEN {} ELSE lineage[caller])
  BY DEF Enter, TypeInv, TypeOK
<1>4. \A d \in Executions : pc[d] # "none" \/ d = e => pc'[d] # "none"
  BY DEF Enter, Goto, TypeInv, TypeOK
<1>5. \A d \in Executions : lineage[d] \subseteq Executions
  BY DEF TypeInv, TypeOK
<1>6. ASSUME NEW d \in Executions, d # e, NEW x \in lineage'[d]
      PROVE  pc'[x] # "none" /\ lineage'[x] \subseteq lineage'[d]
  BY <1>1, <1>2, <1>4, <1>5, <1>6 DEF Descent
<1>7. ASSUME NEW x \in lineage'[e]
      PROVE  pc'[x] # "none" /\ lineage'[x] \subseteq lineage'[e]
  <2>1. CASE x = e
    BY <1>4, <2>1
  <2>2. CASE x # e
    <3>1. caller # e /\ x \in lineage[caller] /\ x \in Executions
      BY <1>3, <1>5, <1>7, <2>2
    <3> QED
      BY <1>2, <1>3, <1>4, <2>2, <3>1 DEF Descent
  <2> QED
    BY <2>1, <2>2
<1> QED
  BY <1>6, <1>7 DEF Descent

LEMMA DescentStep ==
  ASSUME TypeInv, Descent, [Next]_vars
  PROVE  Descent'
<1>1. ASSUME NEW e \in Executions, NEW caller \in Executions, Enter(e, caller) PROVE Descent'
  BY <1>1, EnterDescent
<1>2. ASSUME UNCHANGED lineage, \A d \in Executions : pc[d] # "none" => pc'[d] # "none"
      PROVE  Descent'
  BY <1>2 DEF Descent, TypeInv, TypeOK
<1>3. CASE UNCHANGED <<lineage, pc>>
  BY <1>2, <1>3
<1>4. ASSUME NEW e \in Executions, Invoke(e) PROVE Descent'
  <2>1. UNCHANGED lineage
    BY <1>4 DEF Invoke, Begin, Refuse, Start, TakeResult, RecordSuccess, AuditSuccess,
                RecordFailure, AuditDenial
  <2>2. \E where \in Working \cup Ended : Goto(e, where)
    BY <1>4 DEF Invoke, Begin, Refuse, Start, TakeResult, RecordSuccess, AuditSuccess,
                RecordFailure, AuditDenial, Finish, Stay, Working, Ended
  <2> QED
    BY <1>2, <2>1, <2>2 DEF Goto, TypeInv, TypeOK, Working, Ended
<1>5. CASE Crash
  BY <1>2, <1>5 DEF Crash
<1> QED
  BY <1>1, <1>3, <1>4, <1>5
  DEF Next, vars, invoker, Arrive, ClientAborts, Execute, Send, Handle, HandleEnd, RefuseCall,
      HandleCall, TimerFires, GraceEnds, ChildExits, Heartbeat, GoStale, Sweep, SweepReads,
      SweepWrites

(* Whoever is reached from what is reached is reached. *)
LEMMA ReachedTransitive ==
  ASSUME TypeInv, Descent, NEW f \in Executions, NEW e \in Reached(f), NEW d \in Reached(e)
  PROVE  d \in Reached(f)
<1>1. e \in lineage[d] /\ lineage[e] \subseteq lineage[d] /\ f \in lineage[e]
  BY DEF Reached, Descent
<1> QED
  BY <1>1 DEF Reached

LEMMA EnterReaches ==
  ASSUME TypeInv, Descent, AbortReaches,
         NEW e \in Executions, NEW caller \in Executions, Enter(e, caller)
  PROVE  AbortReaches'
<1> SUFFICES ASSUME NEW x \in Executions, NEW d \in Executions, aborted'[x], d \in Reached(x)'
             PROVE  aborted'[d]
  BY DEF AbortReaches
<1>1. \A y \in Executions : e \notin lineage[y]
  BY DEF Descent, Enter
<1>2. /\ \A y \in Executions \ {e} : /\ lineage'[y] = lineage[y]
                                     /\ linked'[y] = linked[y]
                                     /\ aborted'[y] = aborted[y]
      /\ lineage'[e] = {e} \cup (IF caller = e THEN {} ELSE lineage[caller])
      /\ aborted'[e] = aborted[caller]
  BY DEF Enter, TypeInv, TypeOK
<1>3. \A y \in Executions : lineage[y] \subseteq Executions
  BY DEF TypeInv, TypeOK
<1>4. x \in lineage'[d] /\ \A c \in lineage'[d] \ lineage'[x] : linked'[c]
  BY DEF Reached
<1>5. CASE x = d
  BY <1>5
<1>6. CASE x # d /\ d # e
  <2>1. x # e
    BY <1>1, <1>2, <1>4, <1>6
  <2>2. d \in Reached(x)
    BY <1>1, <1>2, <1>3, <1>4, <1>6, <2>1 DEF Reached
  <2> QED
    BY <1>2, <1>6, <2>1, <2>2 DEF AbortReaches
<1>7. CASE x # d /\ d = e
  <2>1. caller # e /\ x \in lineage[caller] /\ x # e
    BY <1>2, <1>4, <1>7
  <2>2. caller \in Reached(x)
    BY <1>1, <1>2, <1>3, <1>4, <1>7, <2>1 DEF Reached
  <2> QED
    BY <1>2, <1>7, <2>1, <2>2 DEF AbortReaches
<1> QED
  BY <1>5, <1>6, <1>7

LEMMA AbortEventReaches ==
  ASSUME TypeInv, Descent, AbortReaches, NEW f \in Executions,
         aborted' = [d \in Executions |-> aborted[d] \/ d \in Reached(f)],
         UNCHANGED <<lineage, linked>>
  PROVE  AbortReaches'
<1> SUFFICES ASSUME NEW e \in Executions, NEW d \in Executions, aborted'[e], d \in Reached(e)'
             PROVE  aborted'[d]
  BY DEF AbortReaches
<1>1. d \in Reached(e)
  BY DEF Reached
<1>2. CASE aborted[e]
  BY <1>1, <1>2 DEF AbortReaches
<1>3. CASE e \in Reached(f)
  BY <1>1, <1>3, ReachedTransitive
<1> QED
  BY <1>2, <1>3

LEMMA UnlinkReaches ==
  ASSUME TypeInv, AbortReaches, UNCHANGED <<lineage, aborted>>,
         \A d \in Executions : linked'[d] => linked[d]
  PROVE  AbortReaches'
<1>1. \A e, d \in Executions : d \in Reached(e)' => d \in Reached(e)
  <2> SUFFICES ASSUME NEW e \in Executions, NEW d \in Executions, d \in Reached(e)'
               PROVE  d \in Reached(e)
    OBVIOUS
  <2>1. e \in lineage[d] /\ \A c \in lineage[d] \ lineage[e] : linked'[c]
    BY DEF Reached
  <2>2. lineage[d] \subseteq Executions
    BY DEF TypeInv, TypeOK
  <2> QED
    BY <2>1, <2>2 DEF Reached
<1> QED
  BY <1>1 DEF AbortReaches

LEMMA ReachesStep ==
  ASSUME TypeInv, Descent, AbortReaches, [Next]_vars
  PROVE  AbortReaches'
<1>1. ASSUME NEW e \in Executions, NEW caller \in Executions, Enter(e, caller)
      PROVE  AbortReaches'
  BY <1>1, EnterReaches
<1>2. ASSUME NEW e \in Executions, ClientAborts(e) \/ TimerFires(e) PROVE AbortReaches'
  BY <1>2, AbortEventReaches DEF ClientAborts, Abort, TimerFires, invoker
<1>3. CASE UNCHANGED <<lineage, aborted, linked>>
  BY <1>3, UnlinkReaches
<1>4. ASSUME NEW e \in Executions, Invoke(e) PROVE AbortReaches'
  <2>1. UNCHANGED <<lineage, aborted>>
    BY <1>4 DEF Invoke, Begin, Refuse, Start, TakeResult, RecordSuccess, AuditSuccess,
                RecordFailure, AuditDenial, signals
  <2>2. linked' = linked \/ linked' = [linked EXCEPT ![e] = FALSE]
    BY <1>4 DEF Invoke, Begin, Refuse, Start, TakeResult, RecordSuccess, AuditSuccess,
                RecordFailure, AuditDenial, signals, Finish, Stay
  <2>3. \A d \in Executions : linked'[d] => linked[d]
    BY <2>2 DEF TypeInv, TypeOK
  <2> QED
    BY <2>1, <2>3, UnlinkReaches
<1>5. CASE Crash
  BY <1>5, UnlinkReaches DEF Crash
<1> QED
  BY <1>1, <1>2, <1>3, <1>4, <1>5
  DEF Next, vars, invoker, signals, Arrive, Execute, Send, Handle, HandleEnd, RefuseCall,
      HandleCall, GraceEnds, ChildExits, Heartbeat, GoStale, Sweep, SweepReads, SweepWrites

(* An abort reaches every linked call below, however deep, and calls that   *)
(* begin after it.                                                          *)
THEOREM AbortsReach == Spec => []AbortReaches
<1>1. Init => Descent /\ AbortReaches
  BY DEF Init, Descent, AbortReaches, Reached
<1>2. IInv /\ Descent /\ AbortReaches /\ [Next]_vars => Descent' /\ AbortReaches'
  BY DescentStep, ReachesStep DEF IInv
<1> QED
  BY <1>1, <1>2, InvariantHolds, PTL DEF Spec

-----------------------------------------------------------------------------
(* The executions implement the history.                                    *)

(* How one execution moves in ExecutionLedger. *)
Moves(e) ==
  History!Open(e) \/ History!Refuse(e) \/ History!Revise(e) \/ History!Close(e) \/ History!Rest(e)

LEMMA FateTyped ==
  ASSUME TypeInv
  PROVE  Fate \in [Executions -> {"unopened", "open", "closed"}]
  BY DEF Fate

LEMMA RestsMoves ==
  ASSUME NEW d \in Executions, pc'[d] = pc[d], row'[d] = row[d]
  PROVE  Moves(d)
  BY DEF Moves, History!Rest, Fate

LEMMA InvokeMoves ==
  ASSUME IInv, NEW e \in Executions, Invoke(e), NEW d \in Executions
  PROVE  Moves(d)
<1> USE DEF Finish, Stay, Goto
<1>1. Progress(e) /\ Progress(e)' /\ TypeInv /\ Recorded
  BY InvokeRecorded DEF IInv, Recorded
<1>2. CASE d # e
  <2>1. pc'[d] = pc[d] /\ row'[d] = row[d]
    BY <1>1, <1>2 DEF TypeInv, TypeOK, Invoke, Begin, Refuse, Start, TakeResult, RecordSuccess,
         AuditSuccess, RecordFailure, AuditDenial, executor, rows, Written, Thrown
  <2> QED
    BY <2>1, RestsMoves
<1>3. CASE d = e
  <2> USE <1>1, <1>3 DEF TypeInv, TypeOK, Progress, Working, Ended, Outcomes, Moves, Fate,
          History!Rest
  <2>1. CASE Begin(e)
    BY <2>1 DEF Begin, Written, Thrown, History!Open, History!Refuse
  <2>2. CASE Refuse(e) \/ Start(e) \/ TakeResult(e)
    BY <2>2 DEF Refuse, Start, TakeResult, rows
  <2>3. CASE RecordSuccess(e)
    BY <2>3 DEF RecordSuccess, Written, Thrown, History!Revise
  <2>4. CASE AuditSuccess(e)
    BY <2>4 DEF AuditSuccess, rows, History!Close
  <2>5. CASE RecordFailure(e)
    BY <2>5 DEF RecordFailure, Written, Thrown, History!Revise, History!Close
  <2>6. CASE AuditDenial(e)
    BY <2>6 DEF AuditDenial, rows, History!Close
  <2> QED
    BY <2>1, <2>2, <2>3, <2>4, <2>5, <2>6 DEF Invoke
<1> QED
  BY <1>2, <1>3

LEMMA OthersMove ==
  ASSUME IInv, NEW d \in Executions,
         \/ \E e \in Executions : \/ Arrive(e) \/ ClientAborts(e) \/ Heartbeat(e) \/ GoStale(e)
                                  \/ Execute(e)
         \/ Sweep \/ Crash \/ UNCHANGED vars
  PROVE  Moves(d)
<1> USE DEF invoker, signals, executor, rows, slots
<1>1. Progress(d) /\ TypeInv
  BY DEF IInv, Recorded
<1>2. CASE \E e, caller \in Executions : Enter(e, caller)
  <2>1. row'[d] = row[d] /\ (pc'[d] = pc[d] \/ (pc[d] = "none" /\ pc'[d] = "beginning"))
    BY <1>1, <1>2 DEF Enter, Goto, TypeInv, TypeOK
  <2> QED
    BY <2>1 DEF Moves, History!Rest, Fate
<1>3. CASE UNCHANGED <<pc, row>>
  BY <1>3, RestsMoves
<1>4. CASE SweepWrites
  <2>1. pc'[d] = pc[d] /\ (row'[d] = row[d] \/ (row[d] = "running" /\ row'[d] = "error"))
    BY <1>4 DEF SweepWrites
  <2>2. CASE row[d] = "running" /\ row'[d] = "error"
    BY <1>1, <2>1, <2>2
    DEF Progress, TypeInv, TypeOK, Moves, History!Revise, History!Close, Fate, Outcomes,
        Working, Ended
  <2> QED
    BY <2>1, <2>2, RestsMoves
<1>5. CASE Crash
  <2>1. row'[d] = row[d] /\ pc'[d] = IF pc[d] \in Working THEN "dead" ELSE pc[d]
    BY <1>5 DEF Crash
  <2> QED
    BY <1>1, <2>1
    DEF Progress, TypeInv, TypeOK, Moves, History!Refuse, History!Close, History!Rest, Fate,
        Outcomes, Working, Ended
<1> QED
  BY <1>2, <1>3, <1>4, <1>5
  DEF vars, Arrive, ClientAborts, Execute, Send, Handle, HandleEnd, RefuseCall, HandleCall,
      TimerFires, GraceEnds, ChildExits, Heartbeat, GoStale, Sweep, SweepReads

(* Executions are opened once, revised while open, closed once, and never   *)
(* change afterwards: not by a late answer, not by the sweep.               *)
THEOREM ExecutionsImplementLedger == Spec => ImplementsExecutionLedger
<1>1. Init => History!Init
  BY DEF Init, History!Init, Fate
<1>2. ASSUME IInv, IInv', [Next]_vars PROVE [History!Next]_<<Fate, row>>
  <2>1. \A d \in Executions : Moves(d)
    BY <1>2, InvokeMoves, OthersMove DEF Next
  <2>2. Fate' \in [Executions -> {"unopened", "open", "closed"}]
        /\ row' \in [Executions -> {"none", "running"} \cup Outcomes]
    BY <1>2 DEF Fate, IInv, TypeInv, TypeOK
  <2>3. History!Next
    BY <2>1, <2>2 DEF History!Next, Moves
  <2> QED
    BY <2>3
<1> QED
  BY <1>1, <1>2, InvariantHolds, PTL DEF Spec, ImplementsExecutionLedger, History!Spec
=============================================================================
