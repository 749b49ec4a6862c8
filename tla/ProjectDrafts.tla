---------------------------- MODULE ProjectDrafts ----------------------------
(***************************************************************************)
(* Everything a Project's members and their agents edit between            *)
(* deployments, composed: Functions, libraries, Secrets and connections,   *)
(* the bindings and policies of an endpoint, reviewed queries and cron     *)
(* bindings, each in the module of its name.                               *)
(***************************************************************************)
EXTENDS EndpointDrafts, QueryDrafts, ScheduleDrafts

vars == <<draftVars, requestVars, endpointVars, queryVars, crons>>

Init == RequestsInit /\ DraftsInit /\ EndpointInit /\ QueryInit /\ ScheduleInit

Next ==
  \/ DraftsNext /\ UNCHANGED <<endpointVars, queryVars, crons>>
  \/ EndpointNext /\ UNCHANGED <<queryVars, crons>>
  \/ QueryNext /\ UNCHANGED <<endpointVars, crons>>
  \/ ScheduleNext /\ UNCHANGED <<endpointVars, queryVars>>

Spec == Init /\ [][Next]_vars

-----------------------------------------------------------------------------
(* The rows of every part satisfy the keys and foreign keys of               *)
(* prisma/schema.prisma.                                                     *)
TypeOK == DraftsTypeOK /\ EndpointTypeOK /\ QueryTypeOK /\ ScheduleTypeOK

Subjects ==
  {"function"} \X Functions \cup {"library"} \X Libraries \cup {"query"} \X Definitions

Ledger == INSTANCE VersionLedger WITH
  Subjects <- Subjects, Contents <- Codes,
  history <- [s \in Subjects |-> CASE s[1] = "function" -> versions[s[2]]
                                    [] s[1] = "library" -> library[s[2]]
                                    [] OTHER -> query[s[2]]]

(* Whatever saves, edits, templates, new library and query versions overlap, *)
(* the history of every Function, library and query is numbered without gaps *)
(* and no version in it is ever changed or removed (FunctionVersion,         *)
(* ProjectLibrary, ReviewedQueryVersion and their unique keys).              *)
ImplementsVersionLedger == Ledger!LedgerSpec

\* The draft is the newest version, which tests run and deployments build.
Current(f) ==
  f \in Existing => /\ fn[f].version = Newest(versions[f])
                    /\ fn[f].code = Deployed(f) /\ Deployed(f) = Tested(f)

\* A save that leaves the code alone, computed from a draft that has changed.
StaleMetadata(r, f) ==
  LET q == req[r] IN
  \/ q.op = "patch" /\ q.of = f /\ q.code = None /\ q.version # fn[f].version
  \/ q.op = "edit" /\ q.of = f /\ q.code = q.was /\ q.was # fn[f].code

(* A draft that is the newest version stays so, through overlapping saves of *)
(* code from the editor and from agents, until a save that leaves the code   *)
(* alone writes back the version it read (routes-functions.ts:171).          *)
OnlyStaleMetadataUnversions ==
  [][\A f \in Functions :
       Current(f) => Current(f)' \/ \E r \in Requests : StaleMetadata(r, f) /\ req'[r] = Idle]_vars

\* The request asks for the field, or writes whole rows from an older reading.
Asked(r, b, field) ==
  LET q == req[r] IN
  \/ q.op \in {"patch_binding", "edit_binding"} /\ q.read.id = b.id /\ q.field = field
  \/ q.op = "edit_binding" /\ q.read.id = b.id /\ q.read # b
  \/ q.op = "manifest"

AskedCron(r, c, field) ==
  LET q == req[r] IN
  q.op = "cron" /\ q.read.id = c.id /\ (q.field = field \/ q.read # c)

(* Overlapping edits of one binding do not undo each other: a field changes  *)
(* only by a request that asks for it, or by a manifest. The exceptions are  *)
(* binding_edit and the edits of cron bindings, which write every field,     *)
(* when their reading is out of date; and not even those bring a deleted     *)
(* cron binding back (routes-bindings.ts, platform-mcp.ts,                   *)
(* routes-cron-bindings.ts, platform-mcp-cron.ts).                           *)
EditsMerge ==
  [][/\ \A b \in bindings, c \in bindings' : c.id = b.id =>
          \A field \in {"key", "fn", "text"} :
            c[field] # b[field] => \E r \in Requests : Asked(r, b, field) /\ req'[r] = Idle
     /\ \A b \in crons, c \in crons' : c.id = b.id =>
          /\ b.deleted => c.deleted
          /\ \A field \in CronFields :
               c[field] # b[field] => \/ field = "enabled" /\ c.deleted # b.deleted
                                      \/ \E r \in Requests : AskedCron(r, b, field) /\ req'[r] = Idle]_vars

Ordered == \A p, q \in Assigned : p # q => assigned[p].position # assigned[q].position

StaleOrder(r) ==
  LET q == req[r] IN
  \/ q.op \in {"assign", "insert_policy"} /\ q.position # NextPosition
  \/ q.op = "reorder" /\ DOMAIN q.order # Assigned

(* Callers are tried against the policies of an endpoint in one order: two   *)
(* policies come to share a position only by a request that computed it      *)
(* from assignments that have changed since (routes-endpoint-auth.ts).       *)
TiesComeFromStaleRequests ==
  [][Ordered => Ordered' \/ \E r \in Requests : StaleOrder(r) /\ req'[r] = Idle]_vars
=============================================================================
