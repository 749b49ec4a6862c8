---------------------------- MODULE RuntimeLogs ----------------------------
(***************************************************************************)
(* The log of one environment: invocations stream their events, save them  *)
(* all once more when they end, and prune; members page through what is    *)
(* there.  apps/runtime/src/{invoke,execution-repository}.ts,              *)
(* apps/api/src/observability-routes.ts.                                   *)
(*                                                                         *)
(* An event's id stands for its time and id, by which rows are ordered.    *)
(* Every statement is a step; since only records what has happened to the  *)
(* rows a pruning counted.                                                 *)
(***************************************************************************)
EXTENDS CapabilityCalls, FiniteSetsExt

CONSTANTS Bytes,               \* sizes of the events, in their order
          MaxEntries, MaxBytes,\* logRetentionMaxEntries and -MaxBytes
          Batch,               \* rows that a round of shrinking finds (1000 in the code)
          LogLimits,           \* page sizes
          MaxAged              \* bound: events that grow too old

ASSUME LogsAssumption ==
  /\ Bytes \in Seq(Nat) /\ {MaxEntries, MaxBytes, MaxAged} \subseteq Nat
  /\ Batch \in Nat \ {0} /\ LogLimits \subseteq Nat \ {0}

VARIABLES logs,    \* RuntimeLog rows
          events,  \* events so far
          expired, \* rows up to this one are older than logRetentionDays
          run,     \* run[c]: the caller's invocation
          listing  \* listing[c]: the caller's way through the pages

logVars == <<logs, events, expired, run, listing>>

MaxEvents == Len(Bytes)
NoListing == [state |-> "none"]
Size(rows) == MapThenSumSet(LAMBDA row : row.bytes, rows)
Newer(row, rows) == {r \in rows : r.id > row.id}
Older(row, rows) == {r \in rows : r.id < row.id}
Oldest(rows, n) == {row \in rows : Cardinality(Older(row, rows)) < n}

Run(op, said, streamed) ==
  [op |-> op, said |-> said, streamed |-> streamed, awaits |-> 0, take |-> 0, total |-> 0,
   found |-> {}, since |-> {}]

Pruning == {"find", "overflow", "size", "shrink", "drop"}

Goes(c, r) == run' = [run EXCEPT ![c] = r]
Keeps == UNCHANGED <<logs, listing>>

\* The caller goes on; those who prune meanwhile have counted too early.
Meanwhile(c, r, what) ==
  run' = [d \in Callers |->
            IF d = c THEN r
            ELSE IF run[d].op \in Pruning THEN [run[d] EXCEPT !.since = @ \cup what]
            ELSE run[d]]

Inserts(c, rows, r) ==
  /\ logs' = logs \cup rows
  /\ Meanwhile(c, [r EXCEPT !.since = @ \cup IF rows \subseteq logs THEN {} ELSE {"inserted"}],
               IF rows \subseteq logs THEN {} ELSE {"inserted"})
  /\ UNCHANGED listing

\* Rows that are gone cannot be listed any more.
Removes(c, rows, r) ==
  /\ logs' = logs \ rows
  /\ Meanwhile(c, r, IF logs \cap rows = {} THEN {} ELSE {"removed"})
  /\ listing' = [d \in Callers |-> IF listing[d].state = "none" THEN listing[d]
                                   ELSE [listing[d] EXCEPT !.steady = @ \ rows]]

-----------------------------------------------------------------------------
(* Invocations. *)

Ended(c) == run[c].op \in {"none", "over", "failed"}

BeginRun(c) ==
  /\ Makes("logs") /\ Ended(c)
  /\ Goes(c, Run("running", <<>>, 0))
  /\ Keeps /\ UNCHANGED <<events, expired>>

\* The code logs, also after its invocation has ended: what it had asked of a
\* local executor is handled nevertheless.
Log(c) ==
  /\ run[c].op # "none" /\ events < MaxEvents
  /\ events' = events + 1
  /\ Goes(c, [run[c] EXCEPT !.said = Append(@, [id |-> events + 1, bytes |-> Bytes[events + 1]])])
  /\ Keeps /\ UNCHANGED <<expired, boundVars>>

\* One event after the other; one that cannot be saved is skipped.
Stream(c) ==
  /\ run[c].op # "none" /\ run[c].streamed < Len(run[c].said)
  /\ \E rows \in {{}, {run[c].said[run[c].streamed + 1]}} :
       Inserts(c, rows, [run[c] EXCEPT !.streamed = @ + 1])
  /\ UNCHANGED <<events, expired, boundVars>>

\* What has been said by now is streamed before all of it is saved.
Complete(c) ==
  /\ run[c].op = "running"
  /\ Goes(c, [run[c] EXCEPT !.op = "save", !.awaits = Len(run[c].said)])
  /\ Keeps /\ UNCHANGED <<events, expired, boundVars>>

\* Rows that are there already are left alone.
SaveAll(c) ==
  /\ run[c].op = "save" /\ run[c].streamed >= run[c].awaits
  /\ Inserts(c, {run[c].said[n] : n \in DOMAIN run[c].said},
             [run[c] EXCEPT !.op = "age", !.awaits = 0])
  /\ UNCHANGED <<events, expired, boundVars>>

PruneAge(c) ==
  /\ run[c].op = "age"
  /\ Removes(c, {row \in logs : row.id <= expired}, [run[c] EXCEPT !.op = "count"])
  /\ UNCHANGED <<events, expired, boundVars>>

\* Mutant: one row too many.
SurplusAndOne(n) == IF n > MaxEntries THEN n - MaxEntries + 1 ELSE 0

Surplus(n) == IF n > MaxEntries THEN n - MaxEntries ELSE 0

PruneCount(c) ==
  LET surplus == Surplus(Cardinality(logs)) IN
  /\ run[c].op = "count"
  /\ Goes(c, [run[c] EXCEPT !.op = IF surplus > 0 THEN "find" ELSE "size",
                            !.take = surplus, !.since = {}])
  /\ Keeps /\ UNCHANGED <<events, expired, boundVars>>

PruneFind(c) ==
  /\ run[c].op = "find"
  /\ Goes(c, [run[c] EXCEPT !.op = "overflow", !.take = 0,
                            !.found = Oldest(logs, run[c].take)])
  /\ Keeps /\ UNCHANGED <<events, expired, boundVars>>

PruneOverflow(c) ==
  /\ run[c].op = "overflow"
  /\ Removes(c, run[c].found, [run[c] EXCEPT !.op = "size", !.found = {}])
  /\ UNCHANGED <<events, expired, boundVars>>

\* On, or over when what is left is within the limit.
Shrunk(c, total) ==
  IF total > MaxBytes
    THEN [run[c] EXCEPT !.op = "shrink", !.total = total, !.found = {},
                        !.since = IF run[c].op = "size" THEN @ \ {"removed"} ELSE @]
    ELSE Run("over", run[c].said, run[c].streamed)

PruneSize(c) ==
  /\ run[c].op = "size"
  /\ Goes(c, Shrunk(c, Size(logs)))
  /\ Keeps /\ UNCHANGED <<events, expired, boundVars>>

\* A batch of the oldest rows, until the total is within the limit.
ShrinkFind(c) ==
  LET found == {row \in Oldest(logs, Batch) :
                  run[c].total - Size(Older(row, logs)) > MaxBytes} IN
  /\ run[c].op = "shrink"
  /\ Goes(c, IF logs = {} THEN Shrunk(c, 0)
             ELSE [run[c] EXCEPT !.op = "drop", !.found = found, !.total = @ - Size(found)])
  /\ Keeps /\ UNCHANGED <<events, expired, boundVars>>

ShrinkDrop(c) ==
  /\ run[c].op = "drop"
  /\ Removes(c, run[c].found, Shrunk(c, run[c].total))
  /\ UNCHANGED <<events, expired, boundVars>>

\* A statement fails, or the process dies.
RunFails(c) ==
  /\ ~Ended(c) /\ run[c].op # "running"
  /\ Goes(c, Run("failed", run[c].said, run[c].streamed))
  /\ Keeps /\ UNCHANGED <<events, expired, boundVars>>

Age ==
  /\ expired < Least(events, MaxAged)
  /\ expired' = expired + 1
  /\ Keeps /\ UNCHANGED <<events, run, boundVars>>

-----------------------------------------------------------------------------
(* GET /api/logs, newest first; the cursor is the last row of the page       *)
(* before. Prisma starts at the cursor's row, and answers nothing when it is *)
(* gone.                                                                     *)

ListLogs(c, limit) ==
  /\ Makes("logs") /\ listing[c].state # "paging"
  /\ listing' = [listing EXCEPT ![c] =
       [state |-> "paging", limit |-> limit, cursor |-> 0,
        found |-> [i \in 1 .. MaxEvents |-> 0], steady |-> logs, cut |-> FALSE]]
  /\ UNCHANGED <<logs, events, expired, run>>

LogPage(c) ==
  LET s == listing[c]
      gone == s.cursor # 0 /\ ~ \E row \in logs : row.id = s.cursor
      rows == IF gone THEN {} ELSE {row \in logs : s.cursor = 0 \/ row.id < s.cursor}
      page == {row \in rows : Cardinality(Newer(row, rows)) < s.limit}
      more == Cardinality(rows) > s.limit
  IN
  /\ s.state = "paging"
  /\ listing' = [listing EXCEPT ![c] =
       [s EXCEPT !.state = IF more THEN "paging" ELSE "done",
                 !.cursor = IF more THEN Min({row.id : row \in page}) ELSE @,
                 !.cut = gone,
                 !.found = [i \in 1 .. MaxEvents |->
                              @[i] + Cardinality({row \in page : row.id = i})]]]
  /\ UNCHANGED <<logs, events, expired, run, boundVars>>

LogsInit ==
  /\ logs = {} /\ events = 0 /\ expired = 0
  /\ run = [c \in Callers |-> Quiet]
  /\ listing = [c \in Callers |-> NoListing]

LogsNext ==
  \/ Age
  \/ \E c \in Callers :
       \/ BeginRun(c) \/ Log(c) \/ Stream(c) \/ Complete(c) \/ SaveAll(c) \/ PruneAge(c)
       \/ PruneCount(c) \/ PruneFind(c) \/ PruneOverflow(c) \/ PruneSize(c)
       \/ ShrinkFind(c) \/ ShrinkDrop(c) \/ RunFails(c) \/ LogPage(c)
       \/ \E limit \in LogLimits : ListLogs(c, limit)

-----------------------------------------------------------------------------
LogsTypeOK ==
  /\ \A row \in logs : row.id \in 1 .. events /\ row.bytes = Bytes[row.id]
  /\ events \in 0 .. MaxEvents /\ expired \in 0 .. events

\* The step is a pruning's, from a count that others have outdated.
PrunesOutdated(c) ==
  run[c].op \in {"overflow", "drop"} /\ run'[c].op # run[c].op /\ "removed" \in run[c].since

Beyond(row) ==
  \/ Cardinality(Newer(row, logs)) >= MaxEntries
  \/ Size(Newer(row, logs) \cup {row}) > MaxBytes

(* Pruning removes a row only if it is too old, or newer ones fill one of    *)
(* the environment's limits, except where two prunings overlap and the       *)
(* second counts what the first has removed; and when a pruning ends with    *)
(* nothing logged since it counted, the log is within its limits             *)
(* (execution-repository.ts, pruneRuntimeLogs).                              *)
RetentionKeepsNewest ==
  [][/\ \A row \in logs \ logs' :
          \/ row.id <= expired
          \/ Beyond(row)
          \/ \E c \in Callers : PrunesOutdated(c)
     /\ \A c \in Callers :
          run[c].op \in {"size", "drop"} /\ run'[c].op = "over" /\ "inserted" \notin run[c].since
            => Cardinality(logs') <= MaxEntries /\ Size(logs') <= MaxBytes]_logVars

(* Page after page, members see every row that stays in the log once, unless *)
(* the row the next page starts from is pruned.                              *)
LogPagesComplete ==
  \A c \in Callers : listing[c].state # "none" =>
    \A row \in listing[c].steady :
      /\ listing[c].found[row.id] <= 1
      /\ listing[c].state = "done" /\ ~listing[c].cut => listing[c].found[row.id] = 1
=============================================================================
