-------------------------- MODULE PlatformAccess --------------------------
(***************************************************************************)
(* The OAuth server of the platform and the sessions of its MCP server, on *)
(* top of the users and Projects of module Accounts:                       *)
(* apps/api/src/{oauth,routes-oauth,platform-mcp,                          *)
(* platform-mcp-project-selection}.ts.                                     *)
(*                                                                         *)
(* A refresh token is <<grant, rotation>>: every exchange writes the hash  *)
(* of its successor over the hash in the row, so the tokens of one grant   *)
(* are numbered. A client may present any credential it was ever given, as *)
(* often as it likes: retries, lost answers and two requests at once.      *)
(*                                                                         *)
(* A budget is where a behaviour starts and how many requests and calls it *)
(* makes.                                                                  *)
(***************************************************************************)
EXTENDS Accounts

CONSTANTS Approvals, Codes, Grants, \* numbers in the order of creation
          McpSessions,
          Clients,   \* each has one call at a time
          MaxCalls,  \* the most calls of one behaviour
          Budgets

ASSUME PlatformAssumption ==
  /\ Approvals \subseteq Nat /\ Codes \subseteq Nat /\ Grants \subseteq Nat
  /\ MaxCalls \in Nat
  /\ Budgets \subseteq Starts \X (0 .. MaxRequests) \X (0 .. MaxCalls)
  /\ None \notin Approvals \cup Codes \cup Grants \cup McpSessions

VARIABLES approval,   \* approval[a]: the Redis entry of a consent page
          code,       \* code[k]: the authorization code row
          grant,      \* grant[g]: the grant row
          remembered, \* remembered[u]: User.lastPlatformMcpProjectId
          mcp,        \* mcp[s]: the Redis entry of an MCP session
          call,       \* call[c]: the call a client waits for
          calls,      \* how many more calls there will be
          redeemed    \* the credentials that were exchanged

platformVars == <<approval, code, grant, remembered, mcp, call, calls, redeemed>>
accessVars == <<accountVars, platformVars>>

Scopes == {"read", "write", "deploy"}

\* allowedScopesForRole
AllowedScopes(role) ==
  IF role \in {"owner", "admin", "developer"} THEN Scopes
  ELSE IF role = "operator" THEN {"read", "deploy"} ELSE {"read"}

Approval == [state : {"open", "gone"}, scopes : SUBSET Scopes]
CodeRow == [state : {"issued", "consumed", "expired"}, user : Users,
            scopes : SUBSET Scopes]
GrantRow == [user : Users, scopes : SUBSET Scopes, rotation : 0 .. MaxCalls,
             access : BOOLEAN, refresh : BOOLEAN, revoked : BOOLEAN]
McpSession == [user : Users, project : Projects \cup {None}]

CallOf ==
  [kind : {"exchange", "refresh", "initialize", "forget", "open", "select", "save",
           "tool"},
   user : Users, of : Codes \cup Grants \cup McpSessions \cup {None},
   rotation : 0 .. MaxCalls, seen : Projects \cup {None}]

ASSUME RowsAssumption == None \notin Approval \cup CodeRow \cup GrantRow \cup CallOf

Unused(row, S) == {x \in S : row[x] = None}
IsNext(x, row, S) == x \in Unused(row, S) /\ \A y \in Unused(row, S) : x <= y

\* The row whose access token the client presents is found, valid and of an
\* active user; an older token of the grant has another hash.
Authenticated(g) ==
  /\ grant[g] # None
  /\ grant[g].access /\ ~grant[g].revoked
  /\ user[grant[g].user].active

\* A refresh token that the first query of the token route accepts.
Refreshable(g, rotation) ==
  /\ grant[g] # None
  /\ grant[g].rotation = rotation
  /\ grant[g].refresh /\ ~grant[g].revoked

NoCall == None
Free(c) == call[c] = NoCall /\ calls > 0
Calls(c, kind) == call[c] # NoCall /\ call[c].kind = kind
Answer(c) == call' = [call EXCEPT ![c] = NoCall]

\* of is the code, grant or session the call is about, rotation the number of
\* the token, seen the Project it read.
Begin(c, kind, owner, of, rotation, seen) ==
  /\ call' = [call EXCEPT ![c] = [kind |-> kind, user |-> owner, of |-> of,
                                  rotation |-> rotation, seen |-> seen]]
  /\ calls' = calls - 1

-----------------------------------------------------------------------------
(* Consent in the browser.                                                 *)

\* The authorization page reads the signed cookie only.
Authorize(b) ==
  /\ Idle(b) /\ requests > 0 /\ cookie[b] # None
  /\ \E a \in Approvals, asked \in SUBSET Scopes :
       /\ IsNext(a, approval, Approvals)
       /\ approval' = [approval EXCEPT ![a] =
            [state |-> "open",
             scopes |-> (asked \cap AllowedScopes(cookie[b].role)) \cup {"read"}]]
  /\ requests' = requests - 1
  /\ UNCHANGED <<user, project, installed, founders, cookie, req,
                 code, grant, remembered, mcp, call, calls, redeemed>>

DecideRead(b) ==
  /\ Unchecked(b, "decide")
  /\ \E a \in Approvals :
       /\ approval[a] # None /\ approval[a].state = "open"
       /\ Passed(b, a)
  /\ UNCHANGED <<user, project, installed, founders, cookie, requests, platformVars>>

\* The entry is deleted whatever the decision is.
Decide(b) ==
  /\ Checked(b, "decide")
  /\ approval' = [approval EXCEPT ![req[b].of].state = "gone"]
  /\ \/ UNCHANGED code
     \/ \E k \in Codes :
          /\ IsNext(k, code, Codes)
          /\ code' = [code EXCEPT ![k] =
               [state |-> "issued", user |-> req[b].session.user,
                scopes |-> approval[req[b].of].scopes]]
  /\ Refused(b)
  /\ UNCHANGED <<user, project, installed, founders, cookie, requests,
                 grant, remembered, mcp, call, calls, redeemed>>

Revoke(b) ==
  /\ Unchecked(b, "revoke")
  /\ \E g \in Grants :
       /\ grant[g] # None /\ grant[g].user = req[b].session.user
       /\ grant' = [grant EXCEPT ![g].revoked = TRUE, ![g].refresh = FALSE]
  /\ Refused(b)
  /\ UNCHANGED <<user, project, installed, founders, cookie, requests,
                 approval, code, remembered, mcp, call, calls, redeemed>>

\* Redis drops entries, and the rows of codes and tokens run out.
Expire ==
  /\ \/ \E a \in Approvals :
          /\ approval[a] # None
          /\ approval' = [approval EXCEPT ![a].state = "gone"]
          /\ UNCHANGED <<code, grant, mcp>>
     \/ \E k \in Codes :
          /\ code[k] # None /\ code[k].state = "issued"
          /\ code' = [code EXCEPT ![k].state = "expired"]
          /\ UNCHANGED <<approval, grant, mcp>>
     \/ \E g \in Grants, token \in {"access", "refresh"} :
          /\ grant[g] # None
          /\ grant' = [grant EXCEPT ![g] = IF token = "access"
                         THEN [@ EXCEPT !.access = FALSE]
                         ELSE [@ EXCEPT !.refresh = FALSE]]
          /\ UNCHANGED <<approval, code, mcp>>
     \/ \E s \in McpSessions :
          /\ mcp[s] # None
          /\ mcp' = [mcp EXCEPT ![s] = None]
          /\ UNCHANGED <<approval, code, grant>>
  /\ UNCHANGED <<accountVars, remembered, call, calls, redeemed>>

-----------------------------------------------------------------------------
(* The token route: a query, and a conditional update later.               *)

ExchangeRead(c, k) ==
  /\ Free(c)
  /\ code[k] # None /\ code[k].state = "issued"
  /\ Begin(c, "exchange", code[k].user, k, 0, None)
  /\ UNCHANGED <<accountVars, approval, code, grant, remembered, mcp, redeemed>>

(* Mutant: the update does not look at the code again *)
ConsumableAgain(k) == TRUE

Consumable(k) == code[k].state = "issued"

Exchange(c) ==
  LET k == call[c].of
  IN  /\ Calls(c, "exchange")
      /\ IF Consumable(k)
           THEN \E g \in Grants :
                  /\ IsNext(g, grant, Grants)
                  /\ code' = [code EXCEPT ![k].state = "consumed"]
                  /\ grant' = [grant EXCEPT ![g] =
                       [user |-> code[k].user, scopes |-> code[k].scopes, rotation |-> 0,
                        access |-> TRUE, refresh |-> TRUE, revoked |-> FALSE]]
                  /\ redeemed' = redeemed \cup {<<"code", k, 0>>}
           ELSE UNCHANGED <<code, grant, redeemed>>
      /\ Answer(c)
      /\ UNCHANGED <<accountVars, approval, remembered, mcp, calls>>

RefreshRead(c, g, rotation) ==
  /\ Free(c)
  /\ Refreshable(g, rotation)
  /\ Begin(c, "refresh", grant[g].user, g, rotation, None)
  /\ UNCHANGED <<accountVars, approval, code, grant, remembered, mcp, redeemed>>

Rotatable(g, rotation) == grant[g].rotation = rotation /\ ~grant[g].revoked

Refresh(c) ==
  LET g == call[c].of
  IN  /\ Calls(c, "refresh")
      /\ IF Rotatable(g, call[c].rotation)
           THEN /\ grant' = [grant EXCEPT ![g].rotation = @ + 1, ![g].access = TRUE]
                /\ redeemed' = redeemed \cup {<<"refresh", g, call[c].rotation>>}
           ELSE UNCHANGED <<grant, redeemed>>
      /\ Answer(c)
      /\ UNCHANGED <<accountVars, approval, code, remembered, mcp, calls>>

-----------------------------------------------------------------------------
(* The MCP server. The user row is read with the grant, the remembered     *)
(* Project later.                                                          *)

Initialize(c, g) ==
  /\ Free(c) /\ Authenticated(g)
  /\ Begin(c, "initialize", grant[g].user, None, 0, remembered[grant[g].user])
  /\ UNCHANGED <<accountVars, approval, code, grant, remembered, mcp, redeemed>>

Look(c) ==
  /\ Calls(c, "initialize")
  /\ call' = [call EXCEPT ![c].kind =
       IF call[c].seen # None /\ ~Active(call[c].seen) THEN "forget" ELSE "open"]
  /\ UNCHANGED <<accountVars, approval, code, grant, remembered, mcp, calls, redeemed>>

(* Mutant: whatever Project is remembered now is forgotten *)
ForgottenAny(u, p) == None

\* Only the Project that was found inactive is forgotten.
Forgotten(u, p) == IF remembered[u] = p THEN None ELSE remembered[u]

Forget(c) ==
  /\ Calls(c, "forget")
  /\ remembered' = [remembered EXCEPT ![call[c].user] =
       Forgotten(call[c].user, call[c].seen)]
  /\ call' = [call EXCEPT ![c].kind = "open", ![c].seen = None]
  /\ UNCHANGED <<accountVars, approval, code, grant, mcp, calls, redeemed>>

OpenSession(c) ==
  /\ Calls(c, "open")
  /\ \E s \in McpSessions :
       /\ mcp[s] = None
       /\ mcp' = [mcp EXCEPT ![s] = [user |-> call[c].user, project |-> call[c].seen]]
  /\ Answer(c)
  /\ UNCHANGED <<accountVars, approval, code, grant, remembered, calls, redeemed>>

\* project_select: the session is loaded and the Project found active, the user
\* row is written, then the session.
SelectRead(c, g, s, p) ==
  /\ Free(c) /\ Authenticated(g)
  /\ mcp[s] # None /\ mcp[s].user = grant[g].user
  /\ Active(p)
  /\ Begin(c, "select", grant[g].user, s, 0, p)
  /\ UNCHANGED <<accountVars, approval, code, grant, remembered, mcp, redeemed>>

\* The foreign key refuses a Project that is gone.
Remember(c) ==
  /\ Calls(c, "select")
  /\ IF project[call[c].seen] = "deleted"
       THEN Answer(c) /\ UNCHANGED remembered
       ELSE /\ remembered' = [remembered EXCEPT ![call[c].user] = call[c].seen]
            /\ call' = [call EXCEPT ![c].kind = "save"]
  /\ UNCHANGED <<accountVars, approval, code, grant, mcp, calls, redeemed>>

SaveSession(c) ==
  /\ Calls(c, "save")
  /\ mcp' = [mcp EXCEPT ![call[c].of] = [user |-> call[c].user, project |-> call[c].seen]]
  /\ Answer(c)
  /\ UNCHANGED <<accountVars, approval, code, grant, remembered, calls, redeemed>>

EndSession(c, g, s) ==
  /\ Free(c) /\ Authenticated(g) /\ mcp[s] # None
  /\ mcp' = [mcp EXCEPT ![s] = None]
  /\ calls' = calls - 1
  /\ UNCHANGED <<accountVars, approval, code, grant, remembered, call, redeemed>>

-----------------------------------------------------------------------------
(* The composition.                                                        *)

\* ON DELETE SET NULL of User.lastPlatformMcpProjectId
ForeignKeys ==
  remembered' = [u \in Users |->
    IF remembered[u] # None /\ project'[remembered[u]] = "deleted" THEN None
    ELSE remembered[u]]

AccountStep ==
  /\ AccountsNext
  /\ ForeignKeys
  /\ UNCHANGED <<approval, code, grant, mcp, call, calls, redeemed>>

ConsentStep ==
  \E b \in Browsers :
    \/ \E op \in {"revoke", "decide"} : Accept(b, op) /\ UNCHANGED platformVars
    \/ Authorize(b) \/ DecideRead(b) \/ Decide(b) \/ Revoke(b)

ClientStep ==
  \E c \in Clients :
    \/ \E k \in Codes : ExchangeRead(c, k)
    \/ Exchange(c)
    \/ \E g \in Grants, rotation \in 0 .. MaxCalls : RefreshRead(c, g, rotation)
    \/ Refresh(c)
    \/ \E g \in Grants : Initialize(c, g)
    \/ Look(c) \/ Forget(c) \/ OpenSession(c)
    \/ \E g \in Grants, s \in McpSessions, p \in Projects : SelectRead(c, g, s, p)
    \/ Remember(c) \/ SaveSession(c)
    \/ \E g \in Grants, s \in McpSessions : EndSession(c, g, s)

\* A client that was connected before, with one grant, one session and some
\* remembered Project; the code it exchanged then stays consumed. fresh tells
\* whether its refresh token is still valid.
Connected(granted, fresh) ==
  LET k == Oldest(Codes)
      g == Oldest(Grants)
  IN  \E u \in founders, p \in Projects, s \in McpSessions :
        /\ code = [j \in Codes |-> IF j # k THEN None
                     ELSE [state |-> "consumed", user |-> u, scopes |-> {"read"}]]
        /\ grant = [h \in Grants |-> IF h # g THEN None
                     ELSE [user |-> u, scopes |-> granted, rotation |-> 0,
                           access |-> TRUE, refresh |-> fresh, revoked |-> FALSE]]
        /\ remembered = [v \in Users |-> IF v = u THEN p ELSE None]
        /\ mcp = [t \in McpSessions |->
             IF t = s THEN [user |-> u, project |-> p] ELSE None]
        /\ redeemed = {<<"code", k, 0>>}

Unconnected ==
  /\ code = [k \in Codes |-> None]
  /\ grant = [g \in Grants |-> None]
  /\ remembered = [u \in Users |-> None]
  /\ mcp = [s \in McpSessions |-> None]
  /\ redeemed = {}

AccessInit(budget) ==
  /\ AccountsInit(budget[1])
  /\ CASE budget[1] = "connected" -> Connected({"read"}, TRUE)
       [] budget[1] = "tools" -> \E granted \in {{"read"}, Scopes} : Connected(granted, FALSE)
       [] OTHER -> Unconnected
  /\ approval = [a \in Approvals |-> None]
  /\ call = [c \in Clients |-> NoCall]
  /\ requests = budget[2] /\ calls = budget[3]

AccessNext == AccountStep \/ ConsentStep \/ ClientStep \/ Expire

(***************************************************************************)
(* Properties.                                                             *)
(***************************************************************************)
\* The rows, Redis entries and calls have the values the code gives them.
TypeOK ==
  /\ AccountsTypeOK
  /\ req \in [Browsers -> Request(Users \cup Projects \cup Approvals) \cup {None}]
  /\ approval \in [Approvals -> Approval \cup {None}]
  /\ code \in [Codes -> CodeRow \cup {None}]
  /\ grant \in [Grants -> GrantRow \cup {None}]
  /\ remembered \in [Users -> Projects \cup {None}]
  /\ mcp \in [McpSessions -> McpSession \cup {None}]
  /\ call \in [Clients -> CallOf \cup {NoCall}]
  /\ calls \in 0 .. MaxCalls

\* docs/app/platform-mcp.md: the selected Project is remembered, and forgotten
\* only when it is no longer active, however a select and the opening of another
\* session of the user overtake each other
\* (platform-mcp-project-selection.ts:13).
RememberedUntilInactive ==
  [][\A u \in Users :
       remembered[u] # None /\ remembered'[u] = None
         => project'[remembered[u]] # "active"]_accessVars

\* Each code and each refresh token is exchanged at most once, for one
\* successor, and never after it was revoked (routes-oauth.ts:209, 259, 310).
CodeCredentials == {<<"code", k, 0>> : k \in Codes}
Credentials == CodeCredentials \cup ({"refresh"} \X Grants \X (0 .. MaxCalls))

Issued == {k \in Codes : code[k] # None /\ code[k].state = "issued"}
Lapsed == {k \in Codes : code[k] # None /\ code[k].state = "expired"}
Revoked == {g \in Grants : grant[g] # None /\ grant[g].revoked}
Unrevoked == {g \in Grants : grant[g] # None /\ ~grant[g].revoked}

CodesOf(S) == {<<"code", k, 0>> : k \in S}
TokensOf(S) == {<<"refresh", g, grant[g].rotation>> : g \in S}

Ledger == INSTANCE CredentialLedger WITH
  Roots <- CodeCredentials,
  live <- CodesOf(Issued) \cup TokensOf(Unrevoked),
  void <- CodesOf(Lapsed) \cup TokensOf(Revoked)

ImplementsCredentialLedger == Ledger!LedgerSpec
=============================================================================
