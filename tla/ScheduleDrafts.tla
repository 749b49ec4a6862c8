--------------------------- MODULE ScheduleDrafts ---------------------------
(***************************************************************************)
(* The cron bindings of one Project. apps/api/src/{routes-cron-bindings,   *)
(* platform-mcp-cron}.ts. Manual runs of a binding are in CronScheduler.   *)
(*                                                                         *)
(* Whether the Function's permissions and input schema admit the binding   *)
(* is not modelled: the schedule build asks again.                         *)
(***************************************************************************)
EXTENDS FunctionDrafts

CONSTANTS Names,
          Schedules \* expressions, time zones, permissions and network policies

VARIABLE crons      \* CronBinding rows with their NetworkPolicy, never removed

CronBinding == [id : 1 .. MaxRequests, env : Environments, name : Names, fn : Functions,
                schedule : Schedules, enabled : BOOLEAN, deleted : BOOLEAN]

CronFields == {"env", "name", "fn", "schedule", "enabled"}

\* The unique key counts deleted rows, too.
NameFree(env, name, id) == ~ \E c \in crons : c.env = env /\ c.name = name /\ c.id # id

CreateCron(env, name, f, schedule, enabled) ==
  LET id == Cardinality(crons) + 1 IN
  /\ AtOnce("crons")
  /\ f \in Existing /\ NameFree(env, name, id)
  /\ crons' = crons \cup {[id |-> id, env |-> env, name |-> name, fn |-> f,
                           schedule |-> schedule, enabled |-> enabled, deleted |-> FALSE]}
  /\ UNCHANGED draftVars

CreateCronByMcp(env, name, f, schedule, enabled) == CreateCron(env, name, f, schedule, enabled)

\* The fields left out are taken from the row that was read.
CronRead(r, c, field, value) ==
  LET merged == [c EXCEPT ![field] = value] IN
  /\ c \in crons /\ ~c.deleted /\ merged.fn \in Existing
  /\ Begin(r, "crons", [op |-> "cron", read |-> c, field |-> field, merged |-> merged])
  /\ UNCHANGED <<draftVars, crons>>

PatchCronRead(r, c, field, value) == CronRead(r, c, field, value)

EditCronRead(r, c, field, value) ==
  /\ LET merged == [c EXCEPT ![field] = value] IN NameFree(merged.env, merged.name, c.id)
  /\ CronRead(r, c, field, value)

CronFits(q) == NameFree(q.merged.env, q.merged.name, q.read.id)

\* Every field is written, a deletion in between stays.
Merged(q, c) == [q.merged EXCEPT !.deleted = c.deleted]

WriteCron(r) ==
  LET q == req[r] IN
  /\ q.op = "cron" /\ CronFits(q)
  /\ crons' = {IF c.id = q.read.id THEN Merged(q, c) ELSE c : c \in crons}
  /\ End(r)
  /\ UNCHANGED draftVars

CronFails(r) ==
  /\ Fails(r, "cron") /\ ~CronFits(req[r])
  /\ UNCHANGED <<draftVars, crons>>

DeleteCron(c) ==
  /\ AtOnce("crons") /\ c \in crons /\ ~c.deleted
  /\ crons' = (crons \ {c}) \cup {[c EXCEPT !.enabled = FALSE, !.deleted = TRUE]}
  /\ UNCHANGED draftVars

DeleteCronByMcp(c) == DeleteCron(c)

ScheduleInit == crons = {}

ValuesOf(field) ==
  CASE field = "env" -> Environments [] field = "name" -> Names [] field = "fn" -> Functions
    [] field = "schedule" -> Schedules [] OTHER -> BOOLEAN

ScheduleNext ==
  \/ \E env \in Environments, name \in Names, f \in Functions, s \in Schedules, on \in BOOLEAN :
       CreateCron(env, name, f, s, on) \/ CreateCronByMcp(env, name, f, s, on)
  \/ \E c \in crons : DeleteCron(c) \/ DeleteCronByMcp(c)
  \/ \E r \in Requests :
       \/ \E c \in crons, field \in CronFields : \E v \in ValuesOf(field) :
            PatchCronRead(r, c, field, v) \/ EditCronRead(r, c, field, v)
       \/ WriteCron(r) \/ CronFails(r)

(* The names of an environment's bindings are unique (schema.prisma).        *)
ScheduleTypeOK ==
  /\ crons \subseteq CronBinding
  /\ \A b, c \in crons : b.id = c.id \/ (b.env = c.env /\ b.name = c.name) => b = c
=============================================================================
