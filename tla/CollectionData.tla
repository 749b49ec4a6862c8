--------------------------- MODULE CollectionData ---------------------------
(***************************************************************************)
(* One data collection of a Project: its numbered definitions, the grant   *)
(* of a Function, what deployments pin of both, and the records that       *)
(* Functions, the console and agents read, replace, delete and page        *)
(* through.  apps/runtime/src/collections.ts, apps/api/src/{routes-        *)
(* storage,storage-support,platform-mcp-storage}.ts, apps/worker/src/      *)
(* {builder,schedule-builder,collection-indexes}.ts.                       *)
(*                                                                         *)
(* A record's data is the value of one optional field; a definition says   *)
(* whether the field is required and whether it has a unique index.        *)
(*                                                                         *)
(* A behaviour is about one member of Subjects and makes at most           *)
(* MaxCalls[subject] calls; log, found and steady only record what         *)
(* happened.                                                               *)
(***************************************************************************)
EXTENDS CapabilityCalls

CONSTANTS Ids,       \* record ids, which are ordered
          Values,    \* values of the field, ordered too
          Orders,    \* the orderBy of a query
          Limits,    \* page sizes
          Grants     \* permissions that grants give

ASSUME CollectionAssumption ==
  /\ Ids \subseteq Nat /\ IsFiniteSet(Ids) /\ Values \subseteq Nat /\ None \notin Values
  /\ None \notin [values : Seq(Values \cup Nat \cup {None}), id : Nat]
  /\ Limits \subseteq Nat \ {0}
  /\ Grants \subseteq (SUBSET {"read", "write", "delete"}) \ {{}}
  /\ \A order \in Orders : order \in Seq([field : {"value", "createdAt", "id"},
                                          direction : {"asc", "desc"}])

VARIABLES definitions, \* DataCollectionVersion rows, by number
          permissions, \* of the FunctionCollectionGrant, empty when there is none
          built,       \* what the last build pinned, not active yet
          active,      \* what the active deployment pins
          unique,      \* a unique index on the field exists
          records,     \* records[i]: CollectionRecord row
          pinned,      \* pinned[c]: what the caller works under
          call,        \* call[c]: a call between two of its steps
          shown,       \* shown[c][i]: the revision of i the caller saw last
          scan,        \* scan[c]: query, cursor and what the pages returned
          log          \* log[i]: the values record i has had

definitionVars == <<definitions, permissions, built, active, unique>>
recordVars == <<records, log>>
callerVars == <<pinned, call, shown, scan>>
collectionVars == <<definitionVars, recordVars, callerVars>>

Field == Values \cup {None}
Definition == [required : BOOLEAN, unique : BOOLEAN]
Permissions == {"read", "write", "delete"}
Pin == [version : Nat, permissions : SUBSET Permissions]
NoPin == [version |-> 0, permissions |-> {}]
NoScan == [state |-> "none"]

Existing == DOMAIN records

-----------------------------------------------------------------------------
(* Definitions, the grant and deployments. *)

Newest == definitions[Len(definitions)]

\* No field becomes required that was not.
Compatible(previous, next) == next.required => previous.required

CreateCollection(d) ==
  /\ Makes("definitions")
  /\ definitions = <<>> /\ definitions' = <<d>>
  /\ UNCHANGED <<permissions, built, active, unique, recordVars, callerVars>>

CreateCollectionByMcp(d) == CreateCollection(d)

\* The latest definition and the number of records are read before the
\* version is written under its unique number.
VersionRead(c, d) ==
  /\ Makes("definitions")
  /\ call[c] = Quiet /\ definitions # <<>>
  /\ Existing # {} => Compatible(Newest, d)
  /\ call' = [call EXCEPT ![c] = [op |-> "version", number |-> Len(definitions) + 1,
                                  definition |-> d]]
  /\ UNCHANGED <<definitionVars, recordVars, pinned, shown, scan>>

VersionReadByMcp(c, d) == VersionRead(c, d)

CreateVersion(c) ==
  /\ call[c].op = "version"
  /\ definitions' = IF call[c].number > Len(definitions)
                      THEN Append(definitions, call[c].definition) ELSE definitions
  /\ call' = [call EXCEPT ![c] = Quiet]
  /\ UNCHANGED <<permissions, built, active, unique, recordVars, pinned, shown, scan, boundVars>>

CreateVersionByMcp(c) == CreateVersion(c)

SetGrant(granted) ==
  /\ Makes("definitions")
  /\ definitions # <<>> /\ permissions' = granted
  /\ UNCHANGED <<definitions, built, active, unique, recordVars, callerVars>>

SetGrantByMcp(granted) == SetGrant(granted)

DeleteGrant ==
  /\ Makes("definitions")
  /\ permissions # {} /\ permissions' = {}
  /\ UNCHANGED <<definitions, built, active, unique, recordVars, callerVars>>

DeleteGrantByMcp == DeleteGrant

Duplicates == \E i, j \in Existing : i # j /\ records[i].value = records[j].value
                                     /\ records[i].value # None

\* The artifact pins the newest definition, and its indexes are created on the
\* records at once; with duplicates the build fails.
Build ==
  /\ Makes("definitions")
  /\ IF permissions = {} THEN built' = NoPin /\ UNCHANGED unique
     ELSE /\ Newest.unique /\ ~unique => ~Duplicates
          /\ unique' = (unique \/ Newest.unique)
          /\ built' = [version |-> Len(definitions), permissions |-> permissions]
  /\ UNCHANGED <<definitions, permissions, active, recordVars, callerVars>>

\* Activation, release or rollback.
Activate ==
  /\ active # built
  /\ active' = built
  /\ UNCHANGED <<definitions, permissions, built, unique, recordVars, callerVars, boundVars>>

-----------------------------------------------------------------------------
(* Records. *)

\* The endpoint an invocation runs, or the definition of a control plane call,
\* is read once, before what follows.
Begin(c) ==
  /\ Makes("records")
  /\ call[c] = Quiet /\ active # NoPin /\ pinned[c] # active
  /\ pinned' = [pinned EXCEPT ![c] = active]
  /\ UNCHANGED <<definitionVars, recordVars, call, shown, scan>>

Allowed(c, permission) == permission \in pinned[c].permissions
Pinned(c) == pinned[c].version > 0

\* The definition's schema and the unique indexes.
Valid(c, value) == definitions[pinned[c].version].required => value # None
NoClash(i, value) ==
  unique /\ value # None => \A j \in Existing \ {i} : records[j].value # value

Create(c, i, value) ==
  /\ Makes("records")
  /\ call[c] = Quiet /\ Pinned(c) /\ Valid(c, value) /\ NoClash(i, value)
  /\ log[i] = <<>>
  /\ records' = [j \in Existing \cup {i} |->
                   IF j # i THEN records[j]
                   ELSE [value |-> value, revision |-> 1, version |-> pinned[c].version,
                         createdAt |-> calls]]
  /\ log' = [log EXCEPT ![i] = <<value>>]
  /\ shown' = [shown EXCEPT ![c][i] = 1]
  /\ UNCHANGED <<definitionVars, pinned, call, scan>>

FunctionCreate(c, i, value) == Allowed(c, "write") /\ Create(c, i, value)
ConsoleCreate(c, i, value) == Create(c, i, value)
AgentCreate(c, i, value) == Create(c, i, value)

Get(c, i) ==
  /\ Makes("records")
  /\ call[c] = Quiet /\ Pinned(c) /\ Allowed(c, "read") /\ i \in Existing
  /\ shown' = [shown EXCEPT ![c][i] = records[i].revision]
  /\ UNCHANGED <<definitionVars, recordVars, pinned, call, scan>>

OrderedBy(order) == {order[n].field : n \in DOMAIN order} \cup {"id"}

\* Mutant: whoever knows the record may write it.
AnyRevision(c, i) == i \in Existing /\ shown[c][i] > 0

\* Writes name the revision the caller was shown.
Matches(c, i) == i \in Existing /\ shown[c][i] = records[i].revision

\* The scans in whose order the record may change its place.
Unsteady(i, by) ==
  [c \in Callers |-> IF scan[c].state # "none" /\ by \cap OrderedBy(scan[c].order) # {}
                       THEN [scan[c] EXCEPT !.steady = @ \ {i}] ELSE scan[c]]

Replaced(c, row, value) ==
  [row EXCEPT !.value = value, !.revision = @ + 1, !.version = pinned[c].version]

\* The update is one statement; the row the caller is answered with is read
\* after it.
Update(c, i, value) ==
  /\ Makes("records")
  /\ call[c] = Quiet /\ Pinned(c) /\ Valid(c, value) /\ NoClash(i, value)
  /\ Matches(c, i)
  /\ records' = [records EXCEPT ![i] = Replaced(c, @, value)]
  /\ log' = [log EXCEPT ![i] = Append(@, value)]
  /\ call' = [call EXCEPT ![c] = [op |-> "updated", id |-> i]]
  /\ scan' = IF value = records[i].value THEN scan ELSE Unsteady(i, {"value"})
  /\ UNCHANGED <<definitionVars, pinned, shown>>

FunctionUpdate(c, i, value) == Allowed(c, "write") /\ Update(c, i, value)
ConsoleUpdate(c, i, value) == Update(c, i, value)
AgentUpdate(c, i, value) == Update(c, i, value)

UpdateAnswer(c) ==
  /\ call[c].op = "updated"
  /\ shown' = IF call[c].id \in Existing
                THEN [shown EXCEPT ![c][call[c].id] = records[call[c].id].revision] ELSE shown
  /\ call' = [call EXCEPT ![c] = Quiet]
  /\ UNCHANGED <<definitionVars, recordVars, pinned, scan, boundVars>>

Delete(c, i) ==
  /\ Makes("records")
  /\ call[c] = Quiet /\ Pinned(c) /\ Matches(c, i)
  /\ records' = [j \in Existing \ {i} |-> records[j]]
  /\ scan' = Unsteady(i, {"value", "createdAt", "id"})
  /\ UNCHANGED <<definitionVars, log, pinned, call, shown>>

FunctionDelete(c, i) == Allowed(c, "delete") /\ Delete(c, i)
ConsoleDelete(c, i) == Delete(c, i)
AgentDelete(c, i) == Delete(c, i)

-----------------------------------------------------------------------------
(* Queries. *)

DefaultOrder == <<[field |-> "createdAt", direction |-> "asc"]>>
OrderOf(order) == IF order = <<>> THEN DefaultOrder ELSE order

FieldOf(row, field) == CASE field = "value" -> row.value
                         [] field = "createdAt" -> row.createdAt
                         [] field = "id" -> row.id
RowOf(i) == [id |-> i, value |-> records[i].value, createdAt |-> records[i].createdAt]

Greater(a, b, direction) == IF direction = "asc" THEN a > b ELSE a < b

\* ORDER BY each field, nulls last, and then the id.
AfterIn(item, a, b) ==
  LET x == FieldOf(a, item.field)  y == FieldOf(b, item.field)
  IN  x # y /\ (x = None \/ (y # None /\ Greater(x, y, item.direction)))

RowAfter(order, a, b) ==
  \/ \E n \in DOMAIN order :
       /\ \A m \in 1 .. n - 1 : FieldOf(a, order[m].field) = FieldOf(b, order[m].field)
       /\ AfterIn(order[n], a, b)
  \/ /\ \A m \in DOMAIN order : FieldOf(a, order[m].field) = FieldOf(b, order[m].field)
     /\ a.id > b.id

\* Mutant: a row without the field does not follow one that has it.
PastWithoutNulls(item, row, value) ==
  /\ value # None /\ FieldOf(row, item.field) # None
  /\ Greater(FieldOf(row, item.field), value, item.direction)

\* The comparison of a cursor's value: FALSE for null, and null follows.
Past(item, row, value) ==
  /\ value # None
  /\ \/ FieldOf(row, item.field) = None
     \/ Greater(FieldOf(row, item.field), value, item.direction)

\* WHERE: equal in the fields before one that is past the cursor's, or equal in
\* all and a greater id.
PastCursor(order, row, cursor) ==
  \E n \in 1 .. Len(order) + 1 :
    /\ \A m \in 1 .. n - 1 : FieldOf(row, order[m].field) = cursor.values[m]
    /\ IF n = Len(order) + 1 THEN row.id > cursor.id
       ELSE Past(order[n], row, cursor.values[n])

\* The rows that match, and the first of them.
Matching(order, cursor) ==
  {row \in {RowOf(i) : i \in Existing} : cursor = None \/ PastCursor(order, row, cursor)}

Page(order, rows, limit) ==
  {row \in rows : Cardinality({r \in rows : RowAfter(order, row, r)}) < limit}

LastOf(order, page) == CHOOSE row \in page : ~ \E r \in page : RowAfter(order, r, row)

CursorAfter(order, row) ==
  [values |-> [n \in DOMAIN order |-> FieldOf(row, order[n].field)], id |-> row.id]

StartScan(c, order, limit) ==
  /\ Makes("paging")
  /\ call[c] = Quiet /\ Pinned(c) /\ scan[c].state # "paging"
  /\ scan' = [scan EXCEPT ![c] =
                [state |-> "paging", order |-> OrderOf(order), limit |-> limit,
                 cursor |-> None, found |-> [i \in Ids |-> 0], steady |-> Existing]]
  /\ UNCHANGED <<definitionVars, recordVars, pinned, call, shown>>

Query(c) ==
  LET s == scan[c]
      rows == Matching(s.order, s.cursor)
      page == Page(s.order, rows, s.limit)
      more == Cardinality(rows) > s.limit
      returned == {row.id : row \in page}
  IN
  /\ s.state = "paging" /\ call[c] = Quiet
  /\ scan' = [scan EXCEPT ![c] =
       [s EXCEPT !.state = IF more THEN "paging" ELSE "done",
                 !.cursor = IF more THEN CursorAfter(s.order, LastOf(s.order, page)) ELSE @,
                 !.found = [i \in Ids |-> @[i] + (IF i \in returned THEN 1 ELSE 0)]]]
  /\ shown' = [shown EXCEPT ![c] = [i \in Ids |->
                 IF i \in returned THEN records[i].revision ELSE @[i]]]
  /\ UNCHANGED <<definitionVars, recordVars, pinned, call, boundVars>>

FunctionQuery(c) == Allowed(c, "read") /\ Query(c)
ConsoleQuery(c) == Query(c)
AgentQuery(c) == Query(c)

-----------------------------------------------------------------------------
CollectionInit ==
  /\ call = [c \in Callers |-> Quiet]
  /\ scan = [c \in Callers |-> NoScan]
  /\ IF "definitions" \in subject \/ "records" \notin subject
       THEN /\ definitions = <<>> /\ permissions = {}
            /\ built = NoPin /\ active = NoPin /\ unique = FALSE
            /\ pinned = [c \in Callers |-> NoPin]
            /\ log = [i \in Ids |-> <<>>]
       ELSE \* deployed, with records a Function wrote and the callers have been shown
            /\ \E d \in Definition : definitions = <<d>> /\ unique = d.unique
            /\ permissions = UNION Grants
            /\ built = [version |-> 1, permissions |-> permissions] /\ active = built
            /\ pinned = [c \in Callers |-> active]
            /\ \E there \in IF "paging" \in subject THEN {j \in SUBSET Ids : Cardinality(Ids \ j) = 1}
                          ELSE {{CHOOSE j \in Ids : TRUE}} :
               \E value \in [there -> Field] :
                 /\ definitions[1].required => \A i \in there : value[i] # None
                 /\ unique => \A i, j \in there : value[i] = value[j] /\ value[i] # None => i = j
                 /\ log = [i \in Ids |-> IF i \in there THEN <<value[i]>> ELSE <<>>]
  /\ records \in [{i \in Ids : log[i] # <<>>} ->
                    [value : Field, revision : {1}, version : {1}, createdAt : {0}]]
  /\ \A i \in Existing : records[i].value = log[i][1]
  /\ shown = [c \in Callers |-> [i \in Ids |-> Len(log[i])]]

CollectionNext ==
  \/ \E d \in Definition : CreateCollection(d) \/ CreateCollectionByMcp(d)
  \/ \E granted \in Grants : SetGrant(granted) \/ SetGrantByMcp(granted)
  \/ DeleteGrant \/ DeleteGrantByMcp \/ Build \/ Activate
  \/ \E c \in Callers :
       \/ \E d \in Definition : VersionRead(c, d) \/ VersionReadByMcp(c, d)
       \/ CreateVersion(c) \/ CreateVersionByMcp(c) \/ Begin(c) \/ UpdateAnswer(c)
       \/ FunctionQuery(c) \/ ConsoleQuery(c) \/ AgentQuery(c)
       \/ \E order \in Orders, limit \in Limits : StartScan(c, order, limit)
       \/ \E i \in Ids :
            \/ Get(c, i)
            \/ FunctionDelete(c, i) \/ ConsoleDelete(c, i) \/ AgentDelete(c, i)
            \/ \E value \in Field :
                 \/ FunctionCreate(c, i, value) \/ ConsoleCreate(c, i, value)
                 \/ AgentCreate(c, i, value) \/ FunctionUpdate(c, i, value)
                 \/ ConsoleUpdate(c, i, value) \/ AgentUpdate(c, i, value)
-----------------------------------------------------------------------------
(* Every variable has its type; a record's revision counts the values it     *)
(* has had, the last of which it holds (schema.prisma, CollectionRecord).    *)
CollectionTypeOK ==
  /\ definitions \in Seq(Definition) /\ permissions \subseteq Permissions
  /\ \A pin \in {built, active} \cup {pinned[c] : c \in Callers} :
       pin \in Pin /\ pin.version <= Len(definitions)
  /\ unique \in BOOLEAN
  /\ log \in [Ids -> Seq(Field)]
  /\ Existing \subseteq {i \in Ids : log[i] # <<>>}
  /\ \A i \in Existing : /\ records[i].revision = Len(log[i])
                          /\ records[i].value = log[i][Len(log[i])]
                          /\ records[i].version \in 1 .. Len(definitions)
  /\ shown \in [Callers -> [Ids -> Nat]]

Removed == {i \in Ids : log[i] # <<>>} \ Existing

RecordHistory == INSTANCE RecordLedger WITH
  Contents <- Field, history <- log, removed <- Removed

(* Of the callers who replace and delete the records of a collection,        *)
(* through Functions, the console and agents at once, each replaces or       *)
(* deletes only what it has been shown, so no update is lost                 *)
(* (collections.ts, update and delete; routes-storage.ts).                   *)
ImplementsRecordLedger == RecordHistory!LedgerSpec

(* Page after page, in any order and while records come, change and go, a    *)
(* query returns every record that keeps its place exactly once: none is     *)
(* skipped or repeated at a page boundary, records without the field that    *)
(* orders them included (collections.ts, query and compileCursor).           *)
RecordPagesComplete ==
  \A c \in Callers : scan[c].state # "none" =>
    \A i \in scan[c].steady :
      /\ scan[c].found[i] <= 1
      /\ scan[c].state = "done" => scan[c].found[i] = 1
=============================================================================
