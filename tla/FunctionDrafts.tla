--------------------------- MODULE FunctionDrafts ---------------------------
(***************************************************************************)
(* The drafts of one Project that are code: Functions with their immutable *)
(* versions, Project libraries, and the Secrets that Functions are granted *)
(* and database connections use. apps/api/src/{routes-functions,           *)
(* routes-secrets,routes-libraries-templates,reviewed-database-routes,     *)
(* platform-mcp,platform-mcp-secrets}.ts.                                  *)
(*                                                                         *)
(* A handler reads rows and checks them in one step and writes in a later  *)
(* transaction; other handlers run in between. A handler whose checks the  *)
(* database repeats in its transaction (a unique key) is one step.         *)
(*                                                                         *)
(* A behaviour's requests all belong to one member of Areas, and there are *)
(* at most MaxRequests of them.                                            *)
(***************************************************************************)
EXTENDS Integers, FiniteSets

CONSTANTS Functions,   \* slugs
          Libraries,   \* import paths
          Secrets,     \* names
          Connections, \* names of database connections
          Codes,       \* sources
          Requests,    \* requests under way at one time
          Areas, MaxRequests,
          None

ASSUME DraftsAssumption == MaxRequests \in Nat /\ None \notin Codes

VARIABLES fn,       \* fn[f]: the row, version 0 when there is none
          versions, \* versions[f]: the code of each FunctionVersion
          library,  \* library[l]: the code of each ProjectLibrary version
          secrets,  \* Secret rows: name and environment
          grants,   \* SecretGrant rows: Function and Secret name
          connections, \* DatabaseConnection rows
          area,     \* what this behaviour's requests are about
          req,      \* req[r]: what a request under way has read
          started   \* requests so far

draftVars == <<fn, versions, library, secrets, grants, connections>>
requestVars == <<area, req, started>>

Environments == {"development", "production"}
Numbers == 0 .. MaxRequests + 1

FunctionRow == [version : Numbers, code : Codes \cup {None}]
NoFunction == [version |-> 0, code |-> None]

Idle == [op |-> "idle"]

Existing == {f \in Functions : fn[f].version # 0}
Named == {s[1] : s \in secrets}

\* The unique key on the version number: a row is added, never replaced.
With(history, version, code) ==
  [v \in DOMAIN history \cup {version} |->
     IF v \in DOMAIN history THEN history[v] ELSE code]

Newest(history) == CHOOSE v \in DOMAIN history : \A w \in DOMAIN history : w <= v

-----------------------------------------------------------------------------
(* Requests. *)

Open(about) == about \in area /\ started < MaxRequests /\ started' = started + 1

\* A handler of one step.
AtOnce(about) == Open(about) /\ UNCHANGED <<area, req>>

Begin(r, about, read) ==
  /\ Open(about) /\ req[r] = Idle
  /\ req' = [req EXCEPT ![r] = read]
  /\ UNCHANGED area

End(r) == req' = [req EXCEPT ![r] = Idle] /\ UNCHANGED <<area, started>>

\* The transaction fails and the handler answers with an error.
Fails(r, op) == req[r].op = op /\ End(r)

-----------------------------------------------------------------------------
(* Functions and their versions. *)

Insert(f, code) ==
  /\ fn[f] = NoFunction
  /\ fn' = [fn EXCEPT ![f] = [version |-> 1, code |-> code]]
  /\ versions' = [versions EXCEPT ![f] = With(versions[f], 1, code)]

CreateFunction(f, code) ==
  /\ AtOnce("functions")
  /\ Insert(f, code)
  /\ \E granted \in SUBSET Named :
       grants' = grants \cup {f} \X granted
  /\ UNCHANGED <<library, secrets, connections>>

CreateFunctionByMcp(f, code) ==
  /\ AtOnce("functions")
  /\ Insert(f, code)
  /\ UNCHANGED <<library, secrets, grants, connections>>

\* code and granted are None when the body leaves them out.
PatchRead(r, f, code, granted) ==
  /\ f \in Existing
  /\ Begin(r, "functions", [op |-> "patch", of |-> f, version |-> fn[f].version,
                            code |-> code, granted |-> granted])
  /\ UNCHANGED draftVars

\* Mutants: a save without code counts too, and the version has no unique key.
NextVersionAlways(q) == q.version + 1
PatchFitsAnyVersion(q) == q.granted # None => q.granted \subseteq Named

NextVersion(q) == q.version + (IF q.code = None THEN 0 ELSE 1)

PatchFits(q) ==
  /\ q.code # None => NextVersion(q) \notin DOMAIN versions[q.of]
  /\ q.granted # None => q.granted \subseteq Named

Patch(r) ==
  LET q == req[r] IN
  /\ q.op = "patch" /\ PatchFits(q)
  /\ fn' = [fn EXCEPT ![q.of] =
              [version |-> NextVersion(q),
               code |-> IF q.code = None THEN @.code ELSE q.code]]
  /\ versions' = IF q.code = None THEN versions
                 ELSE [versions EXCEPT ![q.of] = With(@, NextVersion(q), q.code)]
  /\ grants' = IF q.granted = None THEN grants
               ELSE {g \in grants : g[1] # q.of} \cup {q.of} \X q.granted
  /\ End(r)
  /\ UNCHANGED <<library, secrets, connections>>

PatchFails(r) ==
  /\ Fails(r, "patch") /\ ~PatchFits(req[r])
  /\ UNCHANGED draftVars

\* function_edit: the caller names the version and the checksum it was shown,
\* and both are the current ones. Its code may be the one it was shown.
EditRead(r, f, code) ==
  /\ f \in Existing
  /\ Begin(r, "functions", [op |-> "edit", of |-> f, version |-> fn[f].version,
                            was |-> fn[f].code, code |-> code])
  /\ UNCHANGED draftVars

EditedVersion(q) == q.version + (IF q.code = q.was THEN 0 ELSE 1)

EditFits(q) ==
  /\ fn[q.of].version = q.version
  /\ q.code # q.was => EditedVersion(q) \notin DOMAIN versions[q.of]

Edit(r) ==
  LET q == req[r] IN
  /\ q.op = "edit" /\ EditFits(q)
  /\ fn' = [fn EXCEPT ![q.of] = [version |-> EditedVersion(q), code |-> q.code]]
  /\ versions' = IF q.code = q.was THEN versions
                 ELSE [versions EXCEPT ![q.of] = With(@, EditedVersion(q), q.code)]
  /\ End(r)
  /\ UNCHANGED <<library, secrets, grants, connections>>

EditConflicts(r) ==
  /\ Fails(r, "edit") /\ ~EditFits(req[r])
  /\ UNCHANGED draftVars

\* What a test runs: the newest version; and what a deployment builds: the
\* version the row names.
Tested(f) == versions[f][Newest(versions[f])]
Deployed(f) == versions[f][fn[f].version]

-----------------------------------------------------------------------------
(* Project libraries. *)

\* The largest version of the import path, 0 when there is none.
LatestVersion(l) == IF DOMAIN library[l] = {} THEN 0 ELSE Newest(library[l])

LibraryRead(r, l, code) ==
  /\ Begin(r, "libraries", [op |-> "library", of |-> l, code |-> code,
                            version |-> LatestVersion(l) + 1])
  /\ UNCHANGED draftVars

\* library_create_version: the row it found by import path or by the id of an
\* older version.
LibraryReadByMcp(r, l, code) ==
  /\ \E found \in DOMAIN library[l] :
       Begin(r, "libraries", [op |-> "library", of |-> l, code |-> code,
                              version |-> found + 1])
  /\ UNCHANGED draftVars

LibraryFits(q) == q.version \notin DOMAIN library[q.of]

CreateLibrary(r) ==
  LET q == req[r] IN
  /\ q.op = "library" /\ LibraryFits(q)
  /\ library' = [library EXCEPT ![q.of] = With(@, q.version, q.code)]
  /\ End(r)
  /\ UNCHANGED <<fn, versions, secrets, grants, connections>>

LibraryFails(r) ==
  /\ Fails(r, "library") /\ ~LibraryFits(req[r])
  /\ UNCHANGED draftVars

-----------------------------------------------------------------------------
(* Secrets and grants. *)

CreateSecret(s, e) ==
  /\ AtOnce("secrets") /\ <<s, e>> \notin secrets
  /\ secrets' = secrets \cup {<<s, e>>}
  /\ UNCHANGED <<fn, versions, library, grants, connections>>

\* Creates the row of an environment that has none and replaces the value of
\* the other.
SyncSecret(s) ==
  /\ AtOnce("secrets")
  /\ secrets' = secrets \cup {s} \X Environments
  /\ UNCHANGED <<fn, versions, library, grants, connections>>

CreateSecretByMcp(s) == s \notin Named /\ SyncSecret(s)

DeletionRead(r, s, rows) ==
  /\ rows \cap secrets # {}
  /\ ~ \E g \in grants : g[2] = s
  /\ ~ \E c \in connections : c.secret \in rows
  /\ Begin(r, "secrets", [op |-> "delete_secret", rows |-> rows])
  /\ UNCHANGED draftVars

DeleteSecretRead(r, s, e) == DeletionRead(r, s, {<<s, e>>})
DeleteSecretsRead(r, s) == DeletionRead(r, s, {s} \X Environments)
DeleteSecretsReadByMcp(r, s) == DeleteSecretsRead(r, s)

\* A connection's foreign key keeps its Secret; a grant has none.
DeletionFits(q) == ~ \E c \in connections : c.secret \in q.rows

DeleteSecret(r) ==
  /\ req[r].op = "delete_secret" /\ DeletionFits(req[r])
  /\ secrets' = secrets \ req[r].rows
  /\ End(r)
  /\ UNCHANGED <<fn, versions, library, grants, connections>>

DeleteSecretFails(r) ==
  /\ Fails(r, "delete_secret") /\ ~DeletionFits(req[r])
  /\ UNCHANGED draftVars

GrantsRead(r, f, names) ==
  /\ f \in Existing /\ names \subseteq Named
  /\ Begin(r, "secrets", [op |-> "grants", of |-> f, names |-> names])
  /\ UNCHANGED draftVars

SetGrants(r) ==
  LET q == req[r] IN
  /\ q.op = "grants"
  /\ grants' = {g \in grants : g[1] # q.of} \cup {q.of} \X q.names
  /\ End(r)
  /\ UNCHANGED <<fn, versions, library, secrets, connections>>

\* The foreign key repeats the check for the Secret of the same environment.
CreateConnection(c, secret) ==
  /\ AtOnce("secrets") /\ secret \in secrets
  /\ ~ \E row \in connections : row.name = c /\ row.secret[2] = secret[2]
  /\ connections' = connections \cup {[name |-> c, secret |-> secret, enabled |-> TRUE]}
  /\ UNCHANGED <<fn, versions, library, secrets, grants>>

DisableConnection(row) ==
  /\ AtOnce("secrets") /\ row \in connections
  /\ connections' = (connections \ {row}) \cup {[row EXCEPT !.enabled = FALSE]}
  /\ UNCHANGED <<fn, versions, library, secrets, grants>>

-----------------------------------------------------------------------------
RequestsInit ==
  /\ area \in Areas
  /\ req = [r \in Requests |-> Idle]
  /\ started = 0

FunctionsInit ==
  \E present \in SUBSET Functions, code \in Codes :
    /\ fn = [f \in Functions |->
               IF f \in present THEN [version |-> 1, code |-> code] ELSE NoFunction]
    /\ versions = [f \in Functions |-> [v \in (IF f \in present THEN {1} ELSE {}) |-> code]]

\* Some Functions are there, and a Secret may be in both environments.
DraftsInit ==
  /\ FunctionsInit
  /\ library = [l \in Libraries |-> [v \in {} |-> None]]
  /\ secrets \in {{}, IF "database" \in area THEN Secrets \X Environments ELSE {}}
  /\ grants = {}
  /\ connections \in
       {{}, {[name |-> c, secret |-> s, enabled |-> TRUE] : c \in Connections,
             s \in {x \in secrets : x[2] = "development"}}}

DraftsNext ==
  \/ \E f \in Functions, c \in Codes : CreateFunction(f, c) \/ CreateFunctionByMcp(f, c)
  \/ \E s \in Secrets : \/ SyncSecret(s) \/ CreateSecretByMcp(s)
                         \/ \E e \in Environments : CreateSecret(s, e)
  \/ \E c \in Connections, s \in secrets : CreateConnection(c, s)
  \/ \E row \in connections : DisableConnection(row)
  \/ \E r \in Requests :
       \/ \E f \in Functions, c \in Codes : EditRead(r, f, c)
       \/ \E f \in Functions, c \in Codes \cup {None}, g \in (SUBSET Named) \cup {None} :
            PatchRead(r, f, c, g)
       \/ Patch(r) \/ PatchFails(r) \/ Edit(r) \/ EditConflicts(r)
       \/ \E l \in Libraries, c \in Codes : LibraryRead(r, l, c) \/ LibraryReadByMcp(r, l, c)
       \/ CreateLibrary(r) \/ LibraryFails(r)
       \/ \E s \in Secrets : \/ DeleteSecretsRead(r, s) \/ DeleteSecretsReadByMcp(r, s)
                              \/ \E e \in Environments : DeleteSecretRead(r, s, e)
       \/ DeleteSecret(r) \/ DeleteSecretFails(r)
       \/ \E f \in Functions, names \in SUBSET Named : GrantsRead(r, f, names)
       \/ SetGrants(r)

(* A Function's row names a version that exists, a connection's Secret is    *)
(* there (schema.prisma).                                                    *)
DraftsTypeOK ==
  /\ fn \in [Functions -> FunctionRow]
  /\ \A f \in Existing : fn[f].version \in DOMAIN versions[f]
  /\ secrets \subseteq Secrets \X Environments /\ grants \subseteq Functions \X Secrets
  /\ connections \subseteq [name : Connections, secret : secrets, enabled : BOOLEAN]
  /\ area \in Areas /\ started \in 0 .. MaxRequests /\ DOMAIN req = Requests
=============================================================================
