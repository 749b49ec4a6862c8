--------------------------- MODULE PlatformTools ---------------------------
(***************************************************************************)
(* The tools of the platform's MCP server, on top of the grants and the    *)
(* sessions of module PlatformAccess: apps/api/src/{platform-mcp,          *)
(* platform-mcp-secrets,platform-mcp-policies,platform-mcp-observability,  *)
(* platform-mcp-cron,platform-mcp-storage,development-deployment}.ts.      *)
(*                                                                         *)
(* A tool call reads the grant with its user, then the session, then the   *)
(* Project, and does its work with what it read. What the work is belongs  *)
(* to the modules of the drafts and the data; here a tool is its           *)
(* description, what it asks of the caller, and when it writes its audit   *)
(* row: with the change in one transaction, after it, before it or never.  *)
(***************************************************************************)
EXTENDS PlatformAccess

CONSTANT MaxTools \* the tool calls of a behaviour that starts with "tools"

ASSUME ToolsAssumption == MaxTools \in Nat

VARIABLES work,    \* work[c]: the tool call a client waits for
          planned, \* planned[c]: the plan of its last deployment preview
          edits,   \* edits[p]: changes so far that a deployment plan shows
          tools    \* how many more tool calls there will be

toolVars == <<work, planned, edits, tools>>
vars == <<accountVars, platformVars, toolVars>>

-----------------------------------------------------------------------------
(* The tools, by what their descriptions and their handlers have in common. *)

\* The tools described as read-only.
FunctionReads == {"function_get", "function_validate"}
ProjectReads == {"project_get", "functions_list", "libraries_list", "library_get",
                 "endpoints_list", "endpoint_get"} \cup FunctionReads

SecretReads == {"secrets_list"}
GrantReads == {"function_secret_grants_get"}
PolicyReads == {"auth_policies_list", "auth_policy_get"}
NetworkReads == {"network_policy_get"}
EndpointReads == {"endpoint_discover", "deployment_status"}
                   \cup SecretReads \cup GrantReads \cup PolicyReads \cup NetworkReads

DeploymentReads == {"deployments_list", "deployment_get", "deployment_logs"}
ObservabilityReads == {"executions_list", "execution_get", "execution_logs"} \cup DeploymentReads

BindingReads == {"cron_bindings_list", "cron_binding_get"}
CronReads == {"cron_binding_runs"} \cup BindingReads

CacheReads == {"storage_cache_list"}
StorageReads == {"storage_collections_list", "storage_collection_get", "storage_records_query"}
                  \cup CacheReads

ReadOnly == ProjectReads \cup EndpointReads \cup ObservabilityReads \cup CronReads
              \cup StorageReads

\* The tools that change something, by the roles they ask for.
FunctionEdits == {"function_create", "function_edit", "library_create_version"}
BindingEdits == {"binding_create", "binding_edit"}

SecretValues == {"secret_set_value"}
SecretDeletes == {"secret_delete"}
SecretEdits == {"secret_create"} \cup SecretValues \cup SecretDeletes

PolicyRewrites == {"auth_policy_edit"}
PolicyDeletes == {"auth_policy_delete"}
NetworkEdits == {"network_policy_edit"}
PolicyEdits == {"auth_policy_create", "endpoint_auth_assign"}
                 \cup PolicyRewrites \cup PolicyDeletes \cup NetworkEdits

CronEdits == {"cron_binding_create", "cron_binding_edit", "cron_binding_delete"}
CollectionEdits == {"storage_collection_create", "storage_collection_version_create"}
StorageEdits ==
  {"storage_collection_grant_set", "storage_collection_grant_delete",
   "storage_record_create", "storage_record_update", "storage_record_delete",
   "storage_cache_delete"}

DeveloperTools == FunctionEdits \cup BindingEdits \cup CronEdits \cup CollectionEdits
                    \cup {"function_secret_grants_set"}
ManagerTools == SecretEdits \cup PolicyEdits \cup StorageEdits \cup {"storage_cache_reveal"}
Writers == DeveloperTools \cup ManagerTools

\* The tools that run a Function or start a deployment.
Tests == {"function_test"}
CronRuns == {"cron_binding_run"}
Deploys == {"development_deploy"}

Tools == ReadOnly \cup Writers \cup Tests \cup CronRuns \cup Deploys

\* The tools with a dryRun argument, which is true when it is left out.
Previewed == Tools \ (ReadOnly \cup SecretEdits \cup PolicyEdits
                        \cup {"function_secret_grants_set", "storage_cache_reveal"})

\* Whether the description calls the tool read-only, the scope and the roles
\* it asks for beside the scope to read, and when it writes its audit row.
ScopeOf(t) ==
  CASE t \in Writers \cup Tests -> "write"
    [] t \in CronRuns \cup Deploys -> "deploy"
    [] OTHER -> "read"

RolesOf(t) ==
  CASE t \in ManagerTools \cup {"storage_records_query"} \cup CacheReads ->
         {"owner", "admin"}
    [] t \in DeveloperTools -> {"owner", "admin", "developer"}
    [] t \in CronRuns -> {"owner", "admin", "operator"}
    [] t \in Tests \cup Deploys -> Roles \ {"viewer"}
    [] OTHER -> Roles

AuditOf(t) ==
  CASE t \in {"function_create", "function_edit", "function_secret_grants_set"} \cup Deploys
              \cup SecretEdits \cup PolicyEdits \cup CronEdits \cup CollectionEdits -> "with"
    [] t \in {"library_create_version"} \cup CronRuns \cup BindingEdits \cup StorageEdits -> "after"
    [] t = "storage_cache_reveal" -> "before"
    [] OTHER -> "never"

\* What the checksum of a deployment plan covers.
Planned == FunctionEdits \cup BindingEdits \cup CronEdits \cup {"endpoint_auth_assign"}

\* Changes outside the database, which no foreign key refuses.
Outside == CronRuns \cup {"storage_cache_delete", "storage_cache_reveal"}

Kind(t) == [hint |-> t \in ReadOnly, scope |-> ScopeOf(t), roles |-> RolesOf(t),
            audit |-> AuditOf(t), previewed |-> t \in Previewed, planned |-> t \in Planned,
            deploys |-> t \in Deploys, outside |-> t \in Outside]
Kinds == {Kind(t) : t \in Tools}

Plan == [of : Projects, at : 0 .. MaxCalls]

-----------------------------------------------------------------------------
(* A call.                                                                  *)

At(c, stage) == work[c] # None /\ work[c].stage = stage
Stage(c, stage) == work' = [work EXCEPT ![c].stage = stage] /\ UNCHANGED call
Ended(c) == Answer(c) /\ work' = [work EXCEPT ![c] = None]

NotAccess == UNCHANGED <<accountVars, approval, code, grant, remembered, mcp, calls, redeemed>>

\* since tells whether anything the call depends on has changed since it
\* began, known what the drafts were then; kind is the tool, from where it
\* makes a difference.
ToolCall(c, g, s) ==
  /\ call[c] = NoCall /\ tools > 0 /\ Authenticated(g)
  /\ call' = [call EXCEPT ![c] = [kind |-> "tool", user |-> grant[g].user, of |-> g,
                                  rotation |-> 0, seen |-> None]]
  /\ work' = [work EXCEPT ![c] =
       [kind |-> None, stage |-> "session", session |-> s,
        role |-> user[grant[g].user].role, scopes |-> grant[g].scopes,
        dry |-> FALSE, audited |-> FALSE, since |-> FALSE, known |-> edits]]
  /\ tools' = tools - 1
  /\ NotAccess /\ UNCHANGED <<planned, edits>>

\* The session belongs to the user and has a Project; every tool asks for the
\* scope to read.
SessionRead(c) ==
  LET s == mcp[work[c].session] IN
  /\ At(c, "session")
  /\ IF s # None /\ s.user = call[c].user /\ s.project # None /\ "read" \in work[c].scopes
       THEN /\ call' = [call EXCEPT ![c].seen = s.project]
            /\ work' = [work EXCEPT ![c].stage = "project"]
       ELSE Ended(c)
  /\ NotAccess /\ UNCHANGED <<planned, edits, tools>>

ProjectRead(c) ==
  /\ At(c, "project")
  /\ IF Active(call[c].seen) THEN Stage(c, "ask") ELSE Ended(c)
  /\ NotAccess /\ UNCHANGED <<planned, edits, tools>>

\* Mutant: the scopes of the consent stand for the role.
PermittedByScope(w, kind) == kind.scope \in w.scopes

Permitted(w, kind) == w.role \in kind.roles /\ kind.scope \in w.scopes

\* Reads answer, previews answer with the plan; a deployment needs the plan its
\* client has seen to be the plan of now.
Ask(c, kind, dry) ==
  LET w == work[c]
      p == call[c].seen
      plan == [of |-> p, at |-> edits[p]]
  IN  /\ At(c, "ask") /\ (dry => kind.previewed)
      /\ IF /\ Permitted(w, kind) /\ kind.audit # "never" /\ ~dry
            /\ kind.deploys => planned[c] = plan
           THEN /\ work' = [work EXCEPT ![c].kind = kind, ![c].dry = dry, ![c].stage =
                             IF kind.audit = "before" THEN "audit" ELSE "change"]
                /\ UNCHANGED call
           ELSE Ended(c)
      /\ planned' = IF Permitted(w, kind) /\ dry /\ kind.deploys
                      THEN [planned EXCEPT ![c] = plan] ELSE planned
      /\ NotAccess /\ UNCHANGED <<edits, tools>>

\* The foreign key of the Project refuses rows once it is gone.
Gone(c) == project[call[c].seen] = "deleted"

Change(c) ==
  /\ At(c, "change") /\ (Gone(c) => work[c].kind.outside)
  /\ edits' = IF work[c].kind.planned THEN [edits EXCEPT ![call[c].seen] = @ + 1] ELSE edits
  /\ IF work[c].kind.audit = "after" THEN Stage(c, "audit") ELSE Ended(c)
  /\ NotAccess /\ UNCHANGED <<planned, tools>>

Audit(c) ==
  /\ At(c, "audit") /\ ~Gone(c)
  /\ IF work[c].kind.audit = "before"
       THEN /\ work' = [work EXCEPT ![c].audited = TRUE, ![c].stage = "change"]
            /\ UNCHANGED call
       ELSE Ended(c)
  /\ NotAccess /\ UNCHANGED <<planned, edits, tools>>

\* A check of the handler refuses, a write fails or the process dies.
CutOff(c) ==
  /\ work[c] # None
  /\ Ended(c)
  /\ NotAccess /\ UNCHANGED <<planned, edits, tools>>

ToolStep ==
  \E c \in Clients :
    \/ \E g \in Grants, s \in McpSessions : ToolCall(c, g, s)
    \/ SessionRead(c) \/ ProjectRead(c)
    \/ \E kind \in Kinds, dry \in BOOLEAN : Ask(c, kind, dry)
    \/ Change(c) \/ Audit(c) \/ CutOff(c)

-----------------------------------------------------------------------------
(* The composition.                                                         *)

\* What a call depends on: the account, the grant and the Project.
Authority(c) ==
  LET u == user[call[c].user] IN
  <<u.role, u.active, grant[call[c].of].revoked,
    IF call[c].seen = None THEN project ELSE project[call[c].seen]>>

AccessStep ==
  /\ AccessNext
  /\ work' = [c \in Clients |->
       IF work[c] = None THEN None
       ELSE [work[c] EXCEPT !.since = @ \/ Authority(c)' # Authority(c)]]
  /\ UNCHANGED <<planned, edits, tools>>

Init ==
  /\ \E budget \in Budgets :
       /\ AccessInit(budget)
       /\ tools = IF budget[1] = "tools" THEN MaxTools ELSE 0
  /\ work = [c \in Clients |-> None]
  /\ planned = [c \in Clients |-> None]
  /\ edits = [p \in Projects |-> 0]

Next == AccessStep \/ ToolStep

Spec == Init /\ [][Next]_vars

\* The tools that change what callers may do, the code that runs, or show data.
Sensitive(kind) ==
  kind \in {Kind(t) : t \in SecretEdits \cup PolicyEdits \cup
               {"function_create", "function_edit", "function_secret_grants_set",
                "storage_cache_reveal", "development_deploy"}}

Entitled(c) ==
  LET w == work[c]
      p == call[c].seen
  IN  /\ user[call[c].user].active /\ user[call[c].user].role \in w.kind.roles
      /\ ~grant[call[c].of].revoked
      /\ Active(p)

(* However calls, role changes, revocations and the ends of Projects          *)
(* overtake each other: what a tool changes, its caller was entitled to when  *)
(* the call began, and only calls already under way are finished after that  *)
(* is over; no tool described as read-only and no preview changes anything;   *)
(* a deployment is one of the drafts its client was shown, or of newer ones   *)
(* only by edits that overtake the call itself; and Secrets, policies,        *)
(* Functions, deployments and revealed cache values are never without their   *)
(* audit row (platform-mcp.ts:571, 645, 1592).                                *)
ToolsAnswerable ==
  [][\A c \in Clients : Change(c) =>
       /\ work[c].since \/ Entitled(c)
       /\ ~work[c].kind.hint /\ ~work[c].dry
       /\ work[c].kind.deploys => /\ planned[c].of = call[c].seen
                                  /\ planned[c].at >= work[c].known[call[c].seen]
       /\ Sensitive(work[c].kind) => work[c].audited \/ work[c].kind.audit = "with"]_vars
=============================================================================
