-------------------------- MODULE PlatformAccessProofs --------------------------
(* Theorems about accounts, the OAuth server and the tools of the platform's  *)
(* MCP server, for any number of users, browsers, clients, grants and calls.   *)
EXTENDS PlatformTools, FiniteSetTheorems, WellFoundedInduction, TLAPS

-----------------------------------------------------------------------------
(* Accounts. A session carries the version its user had when it was written; *)
(* whatever changes the authority of a user makes the version grow.          *)
Row == [role : Roles \cup {"none"}, active : BOOLEAN, temporary : BOOLEAN,
        sessionVersion : Nat]

Signed == [user : Users, role : Roles \cup {"none"}, sessionVersion : Nat,
           project : Projects]

Asked == [op : Operations, session : Signed \cup {None}, checked : BOOLEAN,
          of : Users \cup Projects \cup Approvals \cup {None},
          change : Changes \cup {None}, replacement : Projects \cup {None}]

Stages == {"absent", "active", "archived", "deleted"}

SessionFits(s) == s \in Signed /\ s.sessionVersion <= user[s.user].sessionVersion

RequestFits(q) ==
  /\ q \in Asked
  /\ IF q.op = "setup" THEN q.session = None ELSE SessionFits(q.session)
  /\ q.checked =>
       /\ q.op \in {"update_user", "password"} => q.of \in Users /\ Exists(q.of)
       /\ q.op = "update_user" => q.change \in Changes
       /\ q.op = "delete_selected" => q.replacement \in Projects
       /\ q.op = "decide" => q.of \in Approvals /\ approval[q.of] # None

Founded ==
  /\ ~installed => founders = {}
  /\ founders = {} \/ \E u \in Users : founders = {u}

AccountsInv ==
  /\ user \in [Users -> Row] /\ project \in [Projects -> Stages]
  /\ \A u \in Users : ~Exists(u) => user[u] = NoUser
  /\ cookie = [b \in Browsers |-> cookie[b]] /\ req = [b \in Browsers |-> req[b]]
  /\ \A b \in Browsers : cookie[b] # None => SessionFits(cookie[b])
  /\ \A b \in Browsers : req[b] # None => RequestFits(req[b])
  /\ Founded

-----------------------------------------------------------------------------
(* The OAuth server. What was redeemed is consumed, or older than what the  *)
(* grant's row holds, and the calls that are left bound the rotations.       *)

\* A Project that was looked at exists; one that is to be forgotten is no longer
\* active, and will not be again.
CallFits(q) ==
  /\ q \in CallOf
  /\ q.kind = "exchange" => q.of \in Codes /\ code[q.of] # None
  /\ q.kind = "refresh" => q.of \in Grants /\ grant[q.of] # None
  /\ q.kind \in {"initialize", "select"} /\ q.seen # None => project[q.seen] # "absent"
  /\ q.kind = "select" => q.seen # None
  /\ q.kind = "forget" =>
       q.seen # None /\ project[q.seen] \in {"archived", "deleted"}

RowsTyped ==
  /\ approval \in [Approvals -> Approval \cup {None}]
  /\ code \in [Codes -> CodeRow \cup {None}]
  /\ grant \in [Grants -> GrantRow \cup {None}]
  /\ remembered \in [Users -> Projects \cup {None}]
  /\ mcp = [s \in McpSessions |-> mcp[s]]
  /\ \A s \in McpSessions : mcp[s] # None => mcp[s] \in McpSession
  /\ call = [c \in Clients |-> call[c]]
  /\ \A c \in Clients : call[c] # None => CallFits(call[c])
  /\ \A u \in Users : remembered[u] # None => project[remembered[u]] # "absent"

Refreshing == {c \in Clients : Calls(c, "refresh")}

RotationsLeft ==
  /\ calls \in Nat /\ IsFiniteSet(Refreshing)
  /\ calls + Cardinality(Refreshing) <= MaxCalls
  /\ \A g \in Grants : grant[g] # None =>
       grant[g].rotation + calls + Cardinality(Refreshing) <= MaxCalls

SpentOnce ==
  /\ \A k \in Codes : <<"code", k, 0>> \in redeemed =>
       code[k] # None /\ code[k].state = "consumed"
  /\ \A g \in Grants, n \in 0 .. MaxCalls : <<"refresh", g, n>> \in redeemed =>
       grant[g] # None /\ n < grant[g].rotation

-----------------------------------------------------------------------------
(* The tools. What a call has checked still holds unless since says that    *)
(* something it depends on has changed.                                      *)
Work == [kind : Kinds \cup {None}, stage : {"session", "project", "ask", "change", "audit"},
         session : McpSessions, role : Roles \cup {"none"}, scopes : SUBSET Scopes,
         dry : BOOLEAN, audited : BOOLEAN, since : BOOLEAN, known : [Projects -> Nat]]

Checks(w, q, plan) ==
  /\ w \in Work
  /\ q # None /\ q.kind = "tool" /\ q.of \in Grants /\ grant[q.of] # None
  /\ \A p \in Projects : w.known[p] <= edits[p]
  /\ ~w.since => /\ user[q.user].active /\ user[q.user].role = w.role
                 /\ ~grant[q.of].revoked
  /\ w.stage # "session" => q.seen \in Projects
  /\ w.stage \in {"ask", "change", "audit"} /\ ~w.since => Active(q.seen)
  /\ w.stage \in {"change", "audit"} =>
       /\ w.kind \in Kinds /\ w.role \in w.kind.roles
       /\ w.kind.audit # "never" /\ ~w.dry
       /\ w.kind.deploys => plan.of = q.seen /\ plan.at >= w.known[q.seen]
  /\ w.stage = "change" /\ w.kind.audit = "before" => w.audited

ToolsInv ==
  /\ edits \in [Projects -> Nat]
  /\ work = [c \in Clients |-> work[c]]
  /\ planned = [c \in Clients |-> planned[c]]
  /\ \A c \in Clients : work[c] # None => Checks(work[c], call[c], planned[c])

AccessInv == AccountsInv /\ RowsTyped /\ RotationsLeft /\ SpentOnce /\ ToolsInv
-----------------------------------------------------------------------------
(* What a step may do to users, Projects and approvals: a change of the role *)
(* or of the access makes the version grow, a Project only ages, and the      *)
(* entry of a consent page is not taken back.                                  *)
ApprovalsStay == \A a \in Approvals : approval[a] # None => approval'[a] # None

UsersGrow ==
  /\ user' \in [Users -> Row]
  /\ \A u \in Users :
       /\ \/ /\ user'[u].role = user[u].role /\ user'[u].active = user[u].active
             /\ user'[u].sessionVersion = user[u].sessionVersion
          \/ user'[u].sessionVersion > user[u].sessionVersion
       /\ user'[u].role # "none" \/ user'[u] = user[u]

ProjectsAge ==
  /\ project' \in [Projects -> Stages]
  /\ \A p \in Projects :
       /\ project[p] # "absent" => project'[p] # "absent"
       /\ project[p] \in {"archived", "deleted"} => project'[p] \in {"archived", "deleted"}

LEMMA Least ==
  ASSUME NEW T, T \subseteq Nat, T # {}
  PROVE  Oldest(T) \in T
<1> DEFINE R == OpToRel(<, Nat)
<1>1. IsWellFoundedOn(R, Nat)
  BY NatLessThanWellFounded
<1>2. \A a, b \in Nat : a < b => <<a, b>> \in R
  BY DEF OpToRel
<1> HIDE DEF R
<1>3. PICK x \in T : \A y \in T : ~(<<y, x>> \in R)
  BY <1>1, WFMin
<1>4. ASSUME NEW j \in T PROVE x <= j
  <2>1. x \in Nat /\ j \in Nat
    OBVIOUS
  <2>2. ~(j < x)
    BY <1>2, <1>3, <2>1
  <2> QED BY <2>1, <2>2
<1>5. \E p \in T : \A q \in T : p <= q
  BY <1>4
<1> QED BY <1>5 DEF Oldest

LEMMA SessionsAge ==
  ASSUME AccountsInv, UsersGrow, NEW s, SessionFits(s)
  PROVE  SessionFits(s)'
<1>1. s.user \in Users /\ s.sessionVersion \in Nat
  BY DEF SessionFits, Signed
<1>2. user[s.user].sessionVersion \in Nat /\ user'[s.user].sessionVersion \in Nat
  BY <1>1 DEF AccountsInv, UsersGrow, Row
<1> QED BY <1>1, <1>2 DEF SessionFits, UsersGrow

LEMMA RequestsAge ==
  ASSUME AccountsInv, ApprovalsStay, UsersGrow, NEW q, RequestFits(q)
  PROVE  RequestFits(q)'
<1>1. \A u \in Users : Exists(u) => Exists(u)'
  BY DEF UsersGrow, Exists
<1>2. SessionFits(q.session) => SessionFits(q.session)'
  BY SessionsAge
<1> QED BY <1>1, <1>2 DEF RequestFits, ApprovalsStay

LEMMA AccountsKept ==
  ASSUME AccountsInv, ApprovalsStay, UsersGrow, ProjectsAge, Founded',
         cookie' = [b \in Browsers |-> cookie'[b]],
         req' = [b \in Browsers |-> req'[b]],
         \A b \in Browsers : \/ cookie'[b] \in {None, cookie[b]}
                             \/ SessionFits(cookie[b])',
         \A b \in Browsers : \/ req'[b] \in {None, req[b]}
                             \/ RequestFits(req[b])'
  PROVE  AccountsInv'
<1>1. \A u \in Users : ~Exists(u)' => user'[u] = NoUser
  BY DEF AccountsInv, UsersGrow, Exists
<1>2. ASSUME NEW b \in Browsers, cookie'[b] # None PROVE SessionFits(cookie[b])'
  <2>1. CASE cookie'[b] = cookie[b]
    <3>1. SessionFits(cookie[b])
      BY <1>2, <2>1 DEF AccountsInv
    <3>2. PICK s : s = cookie[b]
      OBVIOUS
    <3>3. SessionFits(s)'
      BY <3>1, <3>2, SessionsAge
    <3> QED BY <2>1, <3>2, <3>3
  <2> QED BY <1>2, <2>1
<1>3. ASSUME NEW b \in Browsers, req'[b] # None PROVE RequestFits(req[b])'
  <2>1. CASE req'[b] = req[b]
    <3>1. RequestFits(req[b])
      BY <1>3, <2>1 DEF AccountsInv
    <3>2. PICK q : q = req[b]
      OBVIOUS
    <3>3. RequestFits(q)'
      BY <3>1, <3>2, RequestsAge
    <3> QED BY <2>1, <3>2, <3>3
  <2> QED BY <1>3, <2>1
<1> QED BY <1>1, <1>2, <1>3 DEF AccountsInv, UsersGrow, ProjectsAge

LEMMA UsersSame ==
  ASSUME AccountsInv, UNCHANGED user
  PROVE  UsersGrow
BY DEF AccountsInv, UsersGrow

LEMMA ProjectsSame ==
  ASSUME AccountsInv, UNCHANGED project
  PROVE  ProjectsAge
BY DEF AccountsInv, ProjectsAge

(* A step that only moves the request of one browser.                       *)
LEMMA RequestMoved ==
  ASSUME AccountsInv, ApprovalsStay, NEW b \in Browsers, NEW q, q = None \/ RequestFits(q),
         req' = [req EXCEPT ![b] = q],
         UNCHANGED <<user, project, installed, founders, cookie>>
  PROVE  AccountsInv' /\ UsersGrow /\ ProjectsAge
<1>1. UsersGrow /\ ProjectsAge
  BY UsersSame, ProjectsSame
<1>2. Founded'
  BY DEF AccountsInv, Founded
<1>3. req' = [d \in Browsers |-> req'[d]]
  BY DEF AccountsInv
<1>4. \A d \in Browsers : req'[d] \in {None, req[d]} \/ RequestFits(req[d])'
  <2>1. q = None \/ RequestFits(q)'
    BY <1>1, RequestsAge
  <2>2. \A d \in Browsers : req'[d] = (IF d = b THEN q ELSE req[d])
    BY DEF AccountsInv
  <2> QED BY <2>1, <2>2
<1>5. cookie' = [d \in Browsers |-> cookie'[d]]
  BY DEF AccountsInv
<1>6. \A d \in Browsers : cookie'[d] \in {None, cookie[d]} \/ SessionFits(cookie[d])'
  OBVIOUS
<1> QED BY <1>1, <1>2, <1>3, <1>4, <1>5, <1>6, AccountsKept

(* A step that answers the request of a browser, who may get a new session. *)
LEMMA RequestAnswered ==
  ASSUME AccountsInv, ApprovalsStay, NEW b \in Browsers, NEW s, UsersGrow, ProjectsAge,
         req' \in {req, [req EXCEPT ![b] = None]},
         cookie' \in {cookie, [cookie EXCEPT ![b] = s]},
         s = None \/ SessionFits(s)', Founded'
  PROVE  AccountsInv'
<1>1. req' = [d \in Browsers |-> req'[d]] /\ cookie' = [d \in Browsers |-> cookie'[d]]
  BY DEF AccountsInv
<1>2. \A d \in Browsers : req'[d] \in {None, req[d]}
  BY DEF AccountsInv
<1>3. \A d \in Browsers : cookie'[d] \in {s, cookie[d]}
  BY DEF AccountsInv
<1>4. \A d \in Browsers : cookie'[d] \in {None, cookie[d]} \/ SessionFits(cookie[d])'
  BY <1>3
<1> QED BY <1>1, <1>2, <1>4, AccountsKept

\* The session of a request whose handler runs.
LEMMA HandlerFits ==
  ASSUME AccountsInv, NEW b \in Browsers, NEW op, Runs(b, op)
  PROVE  /\ RequestFits(req[b]) /\ req[b].op = op
         /\ op # "setup" => SessionFits(req[b].session)
BY DEF AccountsInv, Runs, Idle, RequestFits

LEMMA PassedFits ==
  ASSUME NEW q, RequestFits(q), NEW row \in Users \cup Projects \cup Approvals,
         q.op = "password" => row \in Users /\ Exists(row),
         q.op = "decide" => row \in Approvals /\ approval[row] # None,
         q.op \notin {"update_user", "delete_selected"}
  PROVE  RequestFits([q EXCEPT !.checked = TRUE, !.of = row])
<1>1. PICK new : new = [q EXCEPT !.checked = TRUE, !.of = row]
  OBVIOUS
<1>2. q = [op |-> q.op, session |-> q.session, checked |-> q.checked, of |-> q.of,
           change |-> q.change, replacement |-> q.replacement]
  BY DEF RequestFits, Asked
<1>3. new = [op |-> q.op, session |-> q.session, checked |-> TRUE, of |-> row,
             change |-> q.change, replacement |-> q.replacement]
  BY <1>1, <1>2, Zenon
<1>4. /\ q.op \in Operations /\ q.session \in Signed \cup {None}
      /\ q.change \in Changes \cup {None} /\ q.replacement \in Projects \cup {None}
  BY DEF RequestFits, Asked
<1>5. new \in Asked
  BY <1>3, <1>4 DEF Asked
<1>6. RequestFits(new)
  BY <1>3, <1>5 DEF RequestFits
<1> QED BY <1>1, <1>6

LEMMA NewFits ==
  ASSUME NEW op \in Operations, NEW s,
         IF op = "setup" THEN s = None ELSE SessionFits(s)
  PROVE  RequestFits(NewRequest(op, s))
<1>1. NewRequest(op, s) \in Asked
  BY DEF NewRequest, Asked, SessionFits
<1>2. /\ NewRequest(op, s).op = op /\ NewRequest(op, s).session = s
      /\ NewRequest(op, s).checked = FALSE
  BY DEF NewRequest
<1> QED BY <1>1, <1>2 DEF RequestFits
-----------------------------------------------------------------------------
(* The steps of the account routes.                                          *)
\* Steps that only read, or refuse.
LEMMA ReadsKeepAccounts ==
  ASSUME AccountsInv, ApprovalsStay, NEW b \in Browsers,
         \/ SetupCheck(b) \/ UpdateRead(b) \/ PasswordRead(b) \/ ArchiveRead(b)
         \/ DeleteRead(b) \/ DeleteSelectedRead(b) \/ RefuseRequest(b) \/ DecideRead(b)
         \/ \E op \in Operations \ {"setup"} : Accept(b, op)
  PROVE  AccountsInv' /\ UsersGrow /\ ProjectsAge
<1>1. CASE SetupCheck(b)
  <2>1. RequestFits(NewRequest("setup", None))
    BY NewFits DEF Operations
  <2> QED BY <1>1, <2>1, RequestMoved DEF SetupCheck
<1>2. CASE UpdateRead(b)
  <2>1. PICK u \in {v \in Users : Exists(v)}, change \in Changes :
          req' = [req EXCEPT ![b].checked = TRUE, ![b].of = u, ![b].change = change]
    BY <1>2 DEF UpdateRead
  <2>2. PICK q : q = req[b]
    OBVIOUS
  <2>3. RequestFits(q) /\ q.op = "update_user"
    BY <1>2, <2>2, HandlerFits DEF UpdateRead, Unchecked
  <2>4. q = [op |-> q.op, session |-> q.session, checked |-> q.checked, of |-> q.of,
             change |-> q.change, replacement |-> q.replacement]
    BY <2>3 DEF RequestFits, Asked
  <2>5. PICK new : new = [q EXCEPT !.checked = TRUE, !.of = u, !.change = change]
    OBVIOUS
  <2>6. new = [op |-> q.op, session |-> q.session, checked |-> TRUE, of |-> u,
               change |-> change, replacement |-> q.replacement]
    BY <2>4, <2>5, Zenon
  <2>7. RequestFits(new)
    BY <2>3, <2>6 DEF RequestFits, Asked
  <2>8. req' = [req EXCEPT ![b] = new]
    BY <2>1, <2>2, <2>5 DEF AccountsInv
  <2> QED BY <1>2, <2>7, <2>8, RequestMoved DEF UpdateRead
<1>3. CASE PasswordRead(b)
  <2>1. RequestFits(req[b]) /\ req[b].op = "password" /\ SessionFits(req[b].session)
    BY <1>3, HandlerFits DEF PasswordRead, Unchecked
  <2>2. req[b].session.user \in Users
    BY <2>1 DEF SessionFits, Signed
  <2>3. Exists(req[b].session.user)
    BY <1>3, <2>2 DEF PasswordRead, AccountsInv, NoUser
  <2>4. RequestFits([req[b] EXCEPT !.checked = TRUE, !.of = req[b].session.user])
    BY <2>1, <2>2, <2>3, PassedFits
  <2>5. req' = [req EXCEPT ![b] = [req[b] EXCEPT !.checked = TRUE,
                                                 !.of = req[b].session.user]]
    BY <1>3 DEF PasswordRead, Passed, AccountsInv
  <2> QED BY <1>3, <2>4, <2>5, RequestMoved DEF PasswordRead
<1>4. CASE ArchiveRead(b) \/ DeleteRead(b) \/ DecideRead(b)
  <2>1. PICK row \in Users \cup Projects \cup Approvals :
          Passed(b, row) /\ (DecideRead(b) => row \in Approvals /\ approval[row] # None)
    BY <1>4 DEF ArchiveRead, DeleteRead, DecideRead, OtherProjectRead
  <2>2. /\ RequestFits(req[b]) /\ req[b].op \in {"archive", "delete", "decide"}
        /\ req[b].op = "decide" => DecideRead(b)
    BY <1>4, HandlerFits DEF ArchiveRead, DeleteRead, DecideRead, OtherProjectRead, Unchecked
  <2>3. RequestFits([req[b] EXCEPT !.checked = TRUE, !.of = row])
    BY <2>1, <2>2, PassedFits
  <2>4. req' = [req EXCEPT ![b] = [req[b] EXCEPT !.checked = TRUE, !.of = row]]
    BY <2>1 DEF Passed, AccountsInv
  <2>5. UNCHANGED <<user, project, installed, founders, cookie>>
    BY <1>4 DEF ArchiveRead, DeleteRead, DecideRead, OtherProjectRead
  <2> QED BY <2>3, <2>4, <2>5, RequestMoved
<1>5. CASE DeleteSelectedRead(b)
  <2> DEFINE others == {p \in Projects : Active(p)} \ {req[b].session.project}
  <2>1. PICK row, other : row = req[b].session.project /\ other = Oldest(others)
    OBVIOUS
  <2>2. others \subseteq Nat /\ others # {}
    BY <1>5, ConstantsAssumption DEF DeleteSelectedRead
  <2>3. other \in Projects
    <3>1. other \in others
      <4> HIDE DEF others
      <4> QED BY <2>1, <2>2, Least
    <3> QED BY <3>1
  <2>4. PICK q : q = req[b]
    OBVIOUS
  <2>5. RequestFits(q) /\ q.op = "delete_selected" /\ SessionFits(q.session)
    BY <1>5, <2>4, HandlerFits DEF DeleteSelectedRead, Unchecked
  <2>6. row \in Projects
    BY <2>1, <2>4, <2>5 DEF SessionFits, Signed
  <2>7. q = [op |-> q.op, session |-> q.session, checked |-> q.checked, of |-> q.of,
             change |-> q.change, replacement |-> q.replacement]
    BY <2>5 DEF RequestFits, Asked
  <2>8. PICK new : new = [q EXCEPT !.checked = TRUE, !.of = row, !.replacement = other]
    OBVIOUS
  <2>9. new = [op |-> q.op, session |-> q.session, checked |-> TRUE, of |-> row,
               change |-> q.change, replacement |-> other]
    BY <2>7, <2>8, Zenon
  <2>10. RequestFits(new)
    BY <2>3, <2>5, <2>6, <2>9 DEF RequestFits, Asked
  <2>11. req' = [req EXCEPT ![b].checked = TRUE, ![b].of = row, ![b].replacement = other]
    BY <1>5, <2>1 DEF DeleteSelectedRead
  <2>12. req' = [req EXCEPT ![b] = new]
    BY <2>4, <2>8, <2>11 DEF AccountsInv
  <2> QED BY <1>5, <2>10, <2>12, RequestMoved DEF DeleteSelectedRead
<1>6. CASE RefuseRequest(b)
  BY <1>6, RequestMoved DEF RefuseRequest, Refused
<1>7. ASSUME NEW op \in Operations \ {"setup"}, Accept(b, op)
      PROVE  AccountsInv' /\ UsersGrow /\ ProjectsAge
  <2>1. SessionFits(cookie[b])
    BY <1>7 DEF Accept, AccountsInv
  <2>2. RequestFits(NewRequest(op, cookie[b]))
    BY <2>1, NewFits
  <2> QED BY <1>7, <2>2, RequestMoved DEF Accept
<1> QED BY <1>1, <1>2, <1>3, <1>4, <1>5, <1>6, <1>7

\* Steps that write users.
LEMMA UserWritesKeepAccounts ==
  ASSUME AccountsInv, ApprovalsStay, NEW b \in Browsers,
         CreateUser(b) \/ UpdateCommit(b) \/ PasswordCommit(b)
  PROVE  AccountsInv' /\ UsersGrow /\ ProjectsAge
<1>1. ProjectsAge /\ Founded'
  BY ProjectsSame DEF CreateUser, UpdateCommit, PasswordCommit, AccountsInv, Founded
<1>2. CASE CreateUser(b)
  <2>1. PICK u \in {v \in Users : ~Exists(v)}, r \in GivenRoles :
          user' = [user EXCEPT ![u] = [role |-> r, active |-> TRUE, temporary |-> TRUE,
                                       sessionVersion |-> 1]]
    BY <1>2 DEF CreateUser
  <2>2. r \in Roles
    BY ConstantsAssumption
  <2>3. user[u].sessionVersion = 0
    BY DEF AccountsInv, NoUser
  <2>4. UsersGrow
    <3>1. PICK new : new = [role |-> r, active |-> TRUE, temporary |-> TRUE,
                            sessionVersion |-> 1]
      OBVIOUS
    <3>2. new \in Row /\ new.role # "none" /\ new.sessionVersion > user[u].sessionVersion
      BY <2>2, <2>3, <3>1 DEF Row, Roles
    <3>3. user' = [user EXCEPT ![u] = new]
      BY <2>1, <3>1
    <3> QED BY <3>2, <3>3 DEF UsersGrow, AccountsInv
  <2>5. AccountsInv'
    BY <1>1, <1>2, <2>4, RequestAnswered DEF CreateUser, Refused
  <2> QED BY <1>1, <2>4, <2>5
<1>3. CASE UpdateCommit(b)
  <2>1. PICK u, change : u = req[b].of /\ change = req[b].change
    OBVIOUS
  <2>2. u \in Users /\ Exists(u) /\ change \in Changes
    BY <1>3, <2>1, HandlerFits DEF UpdateCommit, Checked, RequestFits
  <2>3. user' = [user EXCEPT ![u] = Updated(user[u], change)]
    BY <1>3, <2>1 DEF UpdateCommit
  <2>4. user[u] \in Row /\ user[u].role # "none"
    BY <2>2 DEF AccountsInv, Exists
  <2>5. PICK role, active :
          /\ role = IF change.role = Keep THEN user[u].role ELSE change.role
          /\ active = IF change.active = Keep THEN user[u].active ELSE change.active = "yes"
    OBVIOUS
  <2>6. role \in Roles
    BY <2>2, <2>4, <2>5, ConstantsAssumption DEF Changes, Row
  <2>7. active \in BOOLEAN
    BY <2>4, <2>5 DEF Row
  <2>8. PICK version \in Nat : version = user[u].sessionVersion + 1
    BY <2>4 DEF Row
  <2>9. Updated(user[u], change) = [user[u] EXCEPT !.role = role, !.active = active,
                                                   !.sessionVersion = version]
    BY <2>5, <2>8, Zenon DEF Updated
  <2>10. user[u] = [role |-> user[u].role, active |-> user[u].active,
                    temporary |-> user[u].temporary,
                    sessionVersion |-> user[u].sessionVersion]
    BY <2>4 DEF Row
  <2>11. PICK new : new = Updated(user[u], change)
    OBVIOUS
  <2>12. new = [role |-> role, active |-> active, temporary |-> user[u].temporary,
                sessionVersion |-> version]
    BY <2>9, <2>10, <2>11, Zenon
  <2>13. new \in Row /\ new.role # "none"
         /\ new.sessionVersion > user[u].sessionVersion
    BY <2>4, <2>6, <2>7, <2>8, <2>12 DEF Row, Roles
  <2>14. user' = [user EXCEPT ![u] = new]
    BY <2>3, <2>11
  <2>15. UsersGrow
    BY <2>2, <2>13, <2>14 DEF UsersGrow, AccountsInv
  <2>16. AccountsInv'
    BY <1>1, <1>3, <2>15, RequestAnswered DEF UpdateCommit, Refused
  <2> QED BY <1>1, <2>15, <2>16
<1>4. CASE PasswordCommit(b)
  <2>1. PICK u : u = req[b].of
    OBVIOUS
  <2>2. u \in Users /\ Exists(u)
    BY <1>4, <2>1, HandlerFits DEF PasswordCommit, Checked, RequestFits
  <2>3. user[u] \in Row /\ user[u].role # "none"
    BY <2>2 DEF AccountsInv, Exists
  <2>4. PICK version \in Nat : version = user[u].sessionVersion + 1
    BY <2>3 DEF Row
  <2>5. PICK new : new = [user[u] EXCEPT !.temporary = FALSE, !.sessionVersion = version]
    OBVIOUS
  <2>6. user[u] = [role |-> user[u].role, active |-> user[u].active,
                   temporary |-> user[u].temporary,
                   sessionVersion |-> user[u].sessionVersion]
    BY <2>3 DEF Row
  <2>7. new = [role |-> user[u].role, active |-> user[u].active, temporary |-> FALSE,
               sessionVersion |-> version]
    BY <2>5, <2>6, Zenon
  <2>8. new \in Row /\ new.role # "none" /\ new.sessionVersion > user[u].sessionVersion
    BY <2>3, <2>4, <2>7 DEF Row
  <2>9. user' = [user EXCEPT ![u] = new]
    BY <1>4, <2>1, <2>2, <2>4, <2>5 DEF PasswordCommit, AccountsInv
  <2>10. UsersGrow
    BY <2>2, <2>8, <2>9 DEF UsersGrow, AccountsInv
  <2>11. AccountsInv'
    BY <1>1, <1>4, <2>10, RequestAnswered DEF PasswordCommit, Refused
  <2> QED BY <1>1, <2>10, <2>11
<1> QED BY <1>2, <1>3, <1>4

\* A session that is written again with another Project.
LEMMA ReselectedFits ==
  ASSUME NEW s, SessionFits(s), NEW p \in Projects
  PROVE  SessionFits([s EXCEPT !.project = p])
<1>1. PICK new : new = [s EXCEPT !.project = p]
  OBVIOUS
<1>2. new \in Signed /\ new.user = s.user /\ new.sessionVersion = s.sessionVersion
  BY <1>1 DEF SessionFits, Signed
<1>3. SessionFits(new)
  BY <1>2 DEF SessionFits
<1> QED BY <1>1, <1>3

\* Steps that write Projects or sessions.
LEMMA ProjectWritesKeepAccounts ==
  ASSUME AccountsInv, ApprovalsStay, NEW b \in Browsers,
         \/ CreateProject(b) \/ Select(b) \/ ArchiveProject(b) \/ DeleteProject(b)
         \/ DeleteSelected(b) \/ Logout(b) \/ \E u \in Users : Login(b, u)
  PROVE  AccountsInv' /\ UsersGrow /\ ProjectsAge
<1>1. UsersGrow
  <2>1. UNCHANGED user
    BY DEF CreateProject, Select, ArchiveProject, DeleteProject, DeleteSelected, Logout, Login
  <2> QED BY <2>1, UsersSame
<1>2. Founded'
  <2>1. UNCHANGED <<installed, founders>>
    BY DEF CreateProject, Select, ArchiveProject, DeleteProject, DeleteSelected, Logout, Login
  <2> QED BY <2>1 DEF AccountsInv, Founded
<1>3. ProjectsAge
  <2>1. \/ UNCHANGED project
        \/ \E p \in Projects : project[p] = "absent"
                               /\ project' = [project EXCEPT ![p] = "active"]
        \/ \E p : project' = [project EXCEPT ![p] = "deleted"]
        \/ \E p : project[p] # "deleted" /\ project' = [project EXCEPT ![p] = "archived"]
    BY DEF CreateProject, Select, ArchiveProject, DeleteProject, DeleteSelected, Logout, Login
  <2> QED BY <2>1 DEF ProjectsAge, AccountsInv, Stages
<1>4. req' \in {req, [req EXCEPT ![b] = None]}
  BY DEF CreateProject, Select, ArchiveProject, DeleteProject, DeleteSelected, Logout, Login,
         Refused
<1>5. ASSUME NEW s, s = None \/ SessionFits(s),
             cookie' \in {cookie, [cookie EXCEPT ![b] = s]}
      PROVE  AccountsInv'
  <2>1. s = None \/ SessionFits(s)'
    BY <1>1, <1>5, SessionsAge
  <2> QED BY <1>1, <1>2, <1>3, <1>4, <1>5, <2>1, RequestAnswered
<1>6. AccountsInv'
  <2>1. CASE UNCHANGED cookie \/ Logout(b)
    <3>1. cookie' \in {cookie, [cookie EXCEPT ![b] = None]}
      BY <2>1 DEF Logout
    <3> QED BY <1>5, <3>1
  <2>2. CASE Select(b)
    <3>1. PICK p \in Projects :
            cookie' = [cookie EXCEPT ![b] = [req[b].session EXCEPT !.project = p]]
      BY <2>2 DEF Select
    <3>2. SessionFits(req[b].session)
      BY <2>2, HandlerFits DEF Select, Unchecked
    <3>3. SessionFits([req[b].session EXCEPT !.project = p])
      BY <3>2, ReselectedFits
    <3> QED BY <1>5, <3>1, <3>3
  <2>3. CASE DeleteSelected(b) /\ ~UNCHANGED cookie
    <3>1. cookie' = [cookie EXCEPT ![b] =
            [req[b].session EXCEPT !.project = req[b].replacement]]
      BY <2>3 DEF DeleteSelected
    <3>2. SessionFits(req[b].session) /\ req[b].replacement \in Projects
      BY <2>3, HandlerFits DEF DeleteSelected, Checked, RequestFits
    <3>3. SessionFits([req[b].session EXCEPT !.project = req[b].replacement])
      BY <3>2, ReselectedFits
    <3> QED BY <1>5, <3>1, <3>3
  <2>4. ASSUME NEW u \in Users, Login(b, u) PROVE AccountsInv'
    <3> DEFINE active == {p \in Projects : Active(p)}
               s == [user |-> u, role |-> user[u].role,
                     sessionVersion |-> user[u].sessionVersion, project |-> Oldest(active)]
    <3>1. active \subseteq Nat /\ active # {} /\ active \subseteq Projects
      BY <2>4, ConstantsAssumption DEF Login
    <3>2. Oldest(active) \in Projects
      <4> HIDE DEF active
      <4> QED BY <3>1, Least
    <3>3. user[u] \in Row
      BY DEF AccountsInv
    <3>4. SessionFits(s)
      <4> HIDE DEF active
      <4> QED BY <3>2, <3>3 DEF SessionFits, Signed, Row
    <3>5. cookie' = [cookie EXCEPT ![b] = s]
      BY <2>4 DEF Login
    <3> HIDE DEF s
    <3> QED BY <1>5, <3>4, <3>5
  <2>5. CASE CreateProject(b) \/ ArchiveProject(b) \/ DeleteProject(b)
    BY <2>1, <2>5 DEF CreateProject, ArchiveProject, DeleteProject
  <2> QED BY <2>1, <2>2, <2>3, <2>4, <2>5
<1> QED BY <1>1, <1>3, <1>6

LEMMA SetupKeepsAccounts ==
  ASSUME AccountsInv, ApprovalsStay, NEW b \in Browsers, SetupCommit(b)
  PROVE  AccountsInv' /\ UsersGrow /\ ProjectsAge
<1>1. CASE installed
  <2>1. UNCHANGED <<user, project, installed, founders, cookie>>
    BY <1>1 DEF SetupCommit, RowTaken
  <2> QED BY <2>1, RequestMoved DEF SetupCommit, Refused
<1>2. CASE ~installed
  <2> DEFINE s(u, p) == [user |-> u, role |-> "owner", sessionVersion |-> 1, project |-> p]
  <2>1. PICK u \in {v \in Users : ~Exists(v)}, p \in {q \in Projects : project[q] = "absent"} :
          /\ user' = [user EXCEPT ![u] = [role |-> "owner", active |-> TRUE,
                                          temporary |-> FALSE, sessionVersion |-> 1]]
          /\ project' = [project EXCEPT ![p] = "active"]
          /\ installed' = TRUE
          /\ founders' = founders \cup {u}
          /\ cookie' = [cookie EXCEPT ![b] = s(u, p)]
    BY <1>2 DEF SetupCommit, RowTaken
  <2>2. user[u].sessionVersion = 0
    BY DEF AccountsInv, NoUser
  <2>3. UsersGrow
    <3>1. PICK new : new = [role |-> "owner", active |-> TRUE, temporary |-> FALSE,
                            sessionVersion |-> 1]
      OBVIOUS
    <3>2. new \in Row /\ new.role # "none" /\ new.sessionVersion > user[u].sessionVersion
      BY <2>2, <3>1 DEF Row, Roles
    <3>3. user' = [user EXCEPT ![u] = new]
      BY <2>1, <3>1
    <3> QED BY <3>2, <3>3 DEF UsersGrow, AccountsInv
  <2>4. ProjectsAge
    BY <2>1 DEF ProjectsAge, AccountsInv, Stages
  <2>5. Founded'
    BY <1>2, <2>1 DEF Founded, AccountsInv
  <2>6. SessionFits(s(u, p))'
    <3>1. user'[u].sessionVersion = 1
      BY <2>1 DEF AccountsInv
    <3> QED BY <3>1 DEF SessionFits, Signed, Roles
  <2>7. AccountsInv'
    BY <2>1, <2>3, <2>4, <2>5, <2>6, RequestAnswered DEF SetupCommit, Refused
  <2> QED BY <2>3, <2>4, <2>7
<1> QED BY <1>1, <1>2

LEMMA AccountsStep ==
  ASSUME AccountsInv, ApprovalsStay, AccountsNext
  PROVE  AccountsInv' /\ UsersGrow /\ ProjectsAge
<1>1. AccountOperations \subseteq Operations \ {"setup"}
  BY DEF AccountOperations, Operations
<1> QED BY <1>1, ReadsKeepAccounts, UserWritesKeepAccounts, ProjectWritesKeepAccounts,
           SetupKeepsAccounts DEF AccountsNext
-----------------------------------------------------------------------------
(* The accounts along a behaviour of the whole control plane.               *)
LEMMA RunningInit ==
  ASSUME NEW founder \in Users, NEW members \in SUBSET Users, founder \in members,
         NEW active \in SUBSET Projects, active # {},
         Running(founder, members, active), req = [b \in Browsers |-> None]
  PROVE  AccountsInv
<1>1. PICK given \in [members \ {founder} -> GivenRoles] :
        user = [u \in Users |->
          IF u \notin members THEN NoUser
          ELSE [role |-> IF u = founder THEN "owner" ELSE given[u], active |-> TRUE,
                temporary |-> FALSE, sessionVersion |-> IF u = founder THEN 1 ELSE 2]]
  BY DEF Running
<1>2. PICK holder \in [Browsers -> members \cup {None}] :
        cookie = [b \in Browsers |->
          IF holder[b] = None THEN None
          ELSE [user |-> holder[b], role |-> user[holder[b]].role,
                sessionVersion |-> user[holder[b]].sessionVersion,
                project |-> Oldest(active)]]
  BY DEF Running
<1>3. GivenRoles \subseteq Roles
  BY ConstantsAssumption
<1>4. ASSUME NEW u \in Users
      PROVE  user[u] \in Row /\ (user[u].role = "none" => user[u] = NoUser)
  <2>1. CASE u \notin members
    BY <1>1, <2>1 DEF NoUser, Row
  <2>2. CASE u \in members
    <3>1. PICK role, version :
            /\ role = IF u = founder THEN "owner" ELSE given[u]
            /\ version = IF u = founder THEN 1 ELSE 2
      OBVIOUS
    <3>2. role \in Roles /\ version \in Nat
      BY <1>3, <2>2, <3>1 DEF Roles
    <3>3. user[u] = [role |-> role, active |-> TRUE, temporary |-> FALSE,
                     sessionVersion |-> version]
      BY <1>1, <2>2, <3>1
    <3> QED BY <3>2, <3>3 DEF Row, Roles
  <2> QED BY <2>1, <2>2
<1>5. Oldest(active) \in Projects
  BY ConstantsAssumption, Least
<1>6. ASSUME NEW b \in Browsers, cookie[b] # None PROVE SessionFits(cookie[b])
  <2>1. PICK u \in members : u = holder[b]
    BY <1>2, <1>6
  <2>2. cookie[b] = [user |-> u, role |-> user[u].role,
                     sessionVersion |-> user[u].sessionVersion,
                     project |-> Oldest(active)]
    BY <1>2, <1>6, <2>1
  <2>3. user[u] \in Row
    BY <1>4
  <2> QED BY <1>5, <2>2, <2>3 DEF SessionFits, Signed, Row
<1>7. user = [u \in Users |-> user[u]] /\ cookie = [b \in Browsers |-> cookie[b]]
  BY <1>1, <1>2
<1>8. project \in [Projects -> Stages] /\ Founded
  BY DEF Running, Stages, Founded
<1> QED BY <1>4, <1>6, <1>7, <1>8 DEF AccountsInv, Exists

LEMMA AccountsInitially ==
  ASSUME NEW start, AccountsInit(start)
  PROVE  AccountsInv
<1>1. req = [b \in Browsers |-> None]
  BY DEF AccountsInit
<1>2. CASE EmptyDatabase
  BY <1>1, <1>2 DEF EmptyDatabase, AccountsInv, NoUser, Row, Stages, Founded
<1>3. Oldest(Projects) \in Projects /\ Projects # {}
  BY ConstantsAssumption, Least
<1>4. CASE \E u \in Users : \/ Running(u, {u}, {Oldest(Projects)})
                            \/ Running(u, Users, Projects)
                            \/ Running(u, {u}, Projects)
  BY <1>1, <1>3, <1>4, RunningInit
<1> QED BY <1>2, <1>4 DEF AccountsInit, Seeded, Established, Supervised, Alone

LEMMA AccessAccounts ==
  ASSUME AccountsInv, ApprovalsStay, [Next]_vars
  PROVE  AccountsInv' /\ UsersGrow /\ ProjectsAge
<1>1. CASE UNCHANGED accountVars
  <2>1. UsersGrow /\ ProjectsAge
    BY <1>1, UsersSame, ProjectsSame DEF accountVars
  <2>2. Founded'
    BY <1>1 DEF AccountsInv, Founded, accountVars
  <2>3. /\ cookie' = [b \in Browsers |-> cookie'[b]] /\ req' = [b \in Browsers |-> req'[b]]
        /\ cookie' = cookie /\ req' = req
    BY <1>1 DEF AccountsInv, accountVars
  <2> QED BY <2>1, <2>2, <2>3, AccountsKept
<1>2. CASE AccountsNext
  BY <1>2, AccountsStep
<1>3. ASSUME NEW b \in Browsers,
             \/ \E op \in {"revoke", "decide"} : Accept(b, op)
             \/ DecideRead(b)
      PROVE  AccountsInv' /\ UsersGrow /\ ProjectsAge
  BY <1>3, ReadsKeepAccounts DEF Operations
<1>4. ASSUME NEW b \in Browsers, Decide(b) \/ Revoke(b)
      PROVE  AccountsInv' /\ UsersGrow /\ ProjectsAge
  BY <1>4, RequestMoved DEF Decide, Revoke, Refused
<1>5. ASSUME NEW b \in Browsers, Authorize(b)
      PROVE  AccountsInv' /\ UsersGrow /\ ProjectsAge
  <2>1. UNCHANGED <<user, project, installed, founders, cookie, req>>
    BY <1>5 DEF Authorize
  <2>2. UsersGrow /\ ProjectsAge
    BY <2>1, UsersSame, ProjectsSame
  <2>3. Founded'
    BY <2>1 DEF AccountsInv, Founded
  <2>4. cookie' = [d \in Browsers |-> cookie'[d]] /\ req' = [d \in Browsers |-> req'[d]]
    BY <2>1 DEF AccountsInv
  <2> QED BY <2>1, <2>2, <2>3, <2>4, AccountsKept
<1>6. CASE ClientStep
  BY <1>1, <1>6 DEF ClientStep, ExchangeRead, Exchange, RefreshRead, Refresh, Initialize,
     Look, Forget, OpenSession, SelectRead, Remember, SaveSession, EndSession
<1>7. CASE Expire
  BY <1>1, <1>7 DEF Expire
<1>8. CASE ToolStep
  <2>1. NotAccess
    BY <1>8, ZenonT(30) DEF ToolStep, ToolCall, SessionRead, ProjectRead, Ask, Change, Audit, CutOff
  <2> QED BY <1>1, <2>1 DEF NotAccess
<1>9. CASE UNCHANGED vars
  BY <1>1, <1>9 DEF vars
<1> QED BY <1>2, <1>3, <1>4, <1>5, <1>6, <1>7, <1>8, <1>9
        DEF Next, AccessStep, AccessNext, AccountStep, ConsentStep
-----------------------------------------------------------------------------
(* Which steps write what.                                                   *)
LEMMA WhoWrites ==
  ASSUME [Next]_vars
  PROVE  /\ UNCHANGED approval \/ (\E b \in Browsers : Authorize(b) \/ Decide(b)) \/ Expire
         /\ UNCHANGED code \/ (\E b \in Browsers : Decide(b)) \/ Expire
              \/ \E c \in Clients : Exchange(c)
         /\ UNCHANGED grant \/ (\E b \in Browsers : Revoke(b)) \/ Expire
              \/ \E c \in Clients : Exchange(c) \/ Refresh(c)
         /\ UNCHANGED remembered \/ ForeignKeys \/ \E c \in Clients : Forget(c) \/ Remember(c)
         /\ UNCHANGED mcp \/ Expire \/ \E c \in Clients :
              OpenSession(c) \/ SaveSession(c) \/ \E g \in Grants, s \in McpSessions : EndSession(c, g, s)
         /\ UNCHANGED redeemed \/ \E c \in Clients : Exchange(c) \/ Refresh(c)
         /\ UNCHANGED <<call, calls>> \/ ClientStep \/ ToolStep
<1>1. CASE AccountStep
  BY <1>1 DEF AccountStep
<1>2. CASE ConsentStep
  BY <1>2 DEF ConsentStep, platformVars, Authorize, DecideRead, Decide, Revoke
<1>3. CASE ClientStep
  BY <1>3, ZenonT(30) DEF ClientStep, ExchangeRead, Exchange, RefreshRead, Refresh, Initialize,
     Look, Forget, OpenSession, SelectRead, Remember, SaveSession, EndSession
<1>4. CASE Expire
  BY <1>4 DEF Expire
<1>5. CASE ToolStep
  <2>1. NotAccess
    BY <1>5, ZenonT(30) DEF ToolStep, ToolCall, SessionRead, ProjectRead, Ask, Change, Audit, CutOff
  <2> QED BY <1>5, <2>1 DEF NotAccess
<1>6. CASE UNCHANGED vars
  BY <1>6 DEF vars, platformVars
<1> QED BY <1>1, <1>2, <1>3, <1>4, <1>5, <1>6 DEF Next, AccessStep, AccessNext

CodesAge ==
  \A k \in Codes : code[k] # None =>
    code'[k] # None /\ (code[k].state = "consumed" => code'[k].state = "consumed")

GrantsAge ==
  \A g \in Grants : grant[g] # None =>
    /\ grant'[g] # None /\ grant'[g].rotation >= grant[g].rotation
    /\ grant'[g].user = grant[g].user

LEMMA ApprovalsTyped ==
  ASSUME AccountsInv, RowsTyped, [Next]_vars
  PROVE  approval' \in [Approvals -> Approval \cup {None}] /\ ApprovalsStay
<1>1. CASE UNCHANGED approval
  BY <1>1 DEF RowsTyped, ApprovalsStay
<1>2. ASSUME NEW a \in Approvals, NEW new \in Approval,
             approval' = [approval EXCEPT ![a] = new]
      PROVE  approval' \in [Approvals -> Approval \cup {None}] /\ ApprovalsStay
  <2>1. new # None
    BY RowsAssumption
  <2> QED BY <1>2, <2>1 DEF RowsTyped, ApprovalsStay
<1>3. ASSUME NEW a, approval[a] # None,
             approval' = [approval EXCEPT ![a].state = "gone"]
      PROVE  approval' \in [Approvals -> Approval \cup {None}] /\ ApprovalsStay
  <2>1. CASE a \in Approvals
    <3>1. PICK new : new = [approval[a] EXCEPT !.state = "gone"]
      OBVIOUS
    <3>2. new \in Approval
      BY <1>3, <2>1, <3>1 DEF RowsTyped, Approval
    <3>3. approval' = [approval EXCEPT ![a] = new]
      BY <1>3, <3>1
    <3> QED BY <1>2, <2>1, <3>2, <3>3
  <2>2. CASE a \notin Approvals
    BY <1>1, <1>3, <2>2 DEF RowsTyped
  <2> QED BY <2>1, <2>2
<1>4. ASSUME NEW b \in Browsers, Authorize(b)
      PROVE  approval' \in [Approvals -> Approval \cup {None}] /\ ApprovalsStay
  <2>1. PICK a \in Approvals, asked \in SUBSET Scopes :
          approval' = [approval EXCEPT ![a] =
            [state |-> "open",
             scopes |-> (asked \cap AllowedScopes(cookie[b].role)) \cup {"read"}]]
    BY <1>4 DEF Authorize
  <2>2. [state |-> "open", scopes |-> (asked \cap AllowedScopes(cookie[b].role)) \cup {"read"}]
          \in Approval
    BY DEF Approval, Scopes
  <2> QED BY <1>2, <2>1, <2>2
<1>5. CASE Expire
  BY <1>1, <1>3, <1>5 DEF Expire
<1>6. ASSUME NEW b \in Browsers, Decide(b)
      PROVE  approval' \in [Approvals -> Approval \cup {None}] /\ ApprovalsStay
  <2>1. req[b].of \in Approvals /\ approval[req[b].of] # None
    BY <1>6, HandlerFits DEF Decide, Checked, RequestFits
  <2> QED BY <1>3, <1>6, <2>1 DEF Decide
<1> QED BY <1>1, <1>4, <1>5, <1>6, WhoWrites

LEMMA CodesTyped ==
  ASSUME AccountsInv, RowsTyped, [Next]_vars
  PROVE  code' \in [Codes -> CodeRow \cup {None}] /\ CodesAge
<1>1. CASE UNCHANGED code
  BY <1>1 DEF RowsTyped, CodesAge
<1>2. ASSUME NEW k \in Codes, NEW new \in CodeRow, code' = [code EXCEPT ![k] = new],
             code[k] # None /\ code[k].state = "consumed" => new.state = "consumed"
      PROVE  code' \in [Codes -> CodeRow \cup {None}] /\ CodesAge
  <2>1. new # None
    BY RowsAssumption
  <2> QED BY <1>2, <2>1 DEF RowsTyped, CodesAge
<1>3. ASSUME NEW k \in Codes, code[k] # None, code[k].state # "consumed",
             NEW state \in {"expired", "consumed"},
             code' = [code EXCEPT ![k].state = state]
      PROVE  code' \in [Codes -> CodeRow \cup {None}] /\ CodesAge
  <2>1. PICK new : new = [code[k] EXCEPT !.state = state]
    OBVIOUS
  <2>2. new \in CodeRow
    BY <1>3, <2>1 DEF RowsTyped, CodeRow
  <2>3. code' = [code EXCEPT ![k] = new]
    BY <1>3, <2>1
  <2> QED BY <1>2, <1>3, <2>2, <2>3
<1>4. CASE Expire
  <2>1. UNCHANGED code \/ \E k \in Codes : /\ code[k] # None /\ code[k].state = "issued"
                                           /\ code' = [code EXCEPT ![k].state = "expired"]
    BY <1>4 DEF Expire
  <2> QED BY <1>1, <1>3, <2>1
<1>5. ASSUME NEW c \in Clients, Exchange(c)
      PROVE  code' \in [Codes -> CodeRow \cup {None}] /\ CodesAge
  <2>1. CASE UNCHANGED code
    BY <1>1, <2>1
  <2>2. CASE ~UNCHANGED code
    <3>1. /\ call[c].of \in Codes /\ code[call[c].of] # None
          /\ code[call[c].of].state = "issued"
          /\ code' = [code EXCEPT ![call[c].of].state = "consumed"]
      BY <1>5, <2>2 DEF Exchange, RowsTyped, Consumable, Calls, CallFits, NoCall
    <3> QED BY <1>3, <3>1
  <2> QED BY <2>1, <2>2
<1>6. ASSUME NEW b \in Browsers, Decide(b)
      PROVE  code' \in [Codes -> CodeRow \cup {None}] /\ CodesAge
  <2>1. CASE UNCHANGED code
    BY <1>1, <2>1
  <2>2. ASSUME NEW k \in Codes, code[k] = None,
               code' = [code EXCEPT ![k] =
                 [state |-> "issued", user |-> req[b].session.user,
                  scopes |-> approval[req[b].of].scopes]]
        PROVE  code' \in [Codes -> CodeRow \cup {None}] /\ CodesAge
    <3>1. /\ req[b].of \in Approvals /\ approval[req[b].of] # None
          /\ req[b].session.user \in Users
      BY <1>6, HandlerFits DEF Decide, Checked, RequestFits, SessionFits, Signed
    <3>2. approval[req[b].of].scopes \in SUBSET Scopes
      BY <3>1 DEF RowsTyped, Approval
    <3>3. [state |-> "issued", user |-> req[b].session.user,
           scopes |-> approval[req[b].of].scopes] \in CodeRow
      BY <3>1, <3>2 DEF CodeRow
    <3> QED BY <1>2, <2>2, <3>3
  <2> QED BY <1>6, <2>1, <2>2 DEF Decide, IsNext, Unused
<1> QED BY <1>1, <1>4, <1>5, <1>6, WhoWrites

\* A rotation that is granted was one of the calls that were left.
LEMMA RotationBound ==
  ASSUME RotationsLeft, NEW c \in Refreshing, NEW g \in Grants, grant[g] # None,
         grant[g].rotation \in Nat
  PROVE  grant[g].rotation + 1 \in 0 .. MaxCalls
<1>1. Cardinality(Refreshing) \in Nat /\ Cardinality(Refreshing) # 0
  BY FS_CardinalityType, FS_EmptySet DEF RotationsLeft
<1> QED BY <1>1, PlatformAssumption DEF RotationsLeft

\* Rows of the grant that is old, but for its rotation, its end and its tokens.
Like(old, rotation, revoked) ==
  {new \in GrantRow : /\ new.user = old.user /\ new.scopes = old.scopes
                      /\ new.rotation = rotation /\ new.revoked = revoked}

LEMMA GrantRewritten ==
  ASSUME NEW old \in GrantRow, NEW n \in 0 .. MaxCalls
  PROVE  /\ [old EXCEPT !.revoked = TRUE, !.refresh = FALSE] \in Like(old, old.rotation, TRUE)
         /\ [old EXCEPT !.access = FALSE] \in Like(old, old.rotation, old.revoked)
         /\ [old EXCEPT !.refresh = FALSE] \in Like(old, old.rotation, old.revoked)
         /\ [old EXCEPT !.rotation = n, !.access = TRUE] \in Like(old, n, old.revoked)
<1>1. old = [user |-> old.user, scopes |-> old.scopes, rotation |-> old.rotation,
             access |-> old.access, refresh |-> old.refresh, revoked |-> old.revoked]
  BY DEF GrantRow
<1>2. /\ old.user \in Users /\ old.scopes \in SUBSET Scopes /\ old.rotation \in 0 .. MaxCalls
      /\ old.access \in BOOLEAN /\ old.refresh \in BOOLEAN /\ old.revoked \in BOOLEAN
  BY DEF GrantRow
<1>3. [old EXCEPT !.revoked = TRUE, !.refresh = FALSE] \in Like(old, old.rotation, TRUE)
  <2>1. PICK new : new = [old EXCEPT !.revoked = TRUE, !.refresh = FALSE]
    OBVIOUS
  <2>2. new = [user |-> old.user, scopes |-> old.scopes, rotation |-> old.rotation,
               access |-> old.access, refresh |-> FALSE, revoked |-> TRUE]
    BY <1>1, <2>1, Zenon
  <2>3. new \in Like(old, old.rotation, TRUE)
    BY <1>2, <2>2 DEF GrantRow, Like
  <2> QED BY <2>1, <2>3
<1>4. [old EXCEPT !.access = FALSE] \in Like(old, old.rotation, old.revoked)
  <2>1. PICK new : new = [old EXCEPT !.access = FALSE]
    OBVIOUS
  <2>2. new = [user |-> old.user, scopes |-> old.scopes, rotation |-> old.rotation,
               access |-> FALSE, refresh |-> old.refresh, revoked |-> old.revoked]
    BY <1>1, <2>1, Zenon
  <2>3. new \in Like(old, old.rotation, old.revoked)
    BY <1>2, <2>2 DEF GrantRow, Like
  <2> QED BY <2>1, <2>3
<1>5. [old EXCEPT !.refresh = FALSE] \in Like(old, old.rotation, old.revoked)
  <2>1. PICK new : new = [old EXCEPT !.refresh = FALSE]
    OBVIOUS
  <2>2. new = [user |-> old.user, scopes |-> old.scopes, rotation |-> old.rotation,
               access |-> old.access, refresh |-> FALSE, revoked |-> old.revoked]
    BY <1>1, <2>1, Zenon
  <2>3. new \in Like(old, old.rotation, old.revoked)
    BY <1>2, <2>2 DEF GrantRow, Like
  <2> QED BY <2>1, <2>3
<1>6. [old EXCEPT !.rotation = n, !.access = TRUE] \in Like(old, n, old.revoked)
  <2>1. PICK new : new = [old EXCEPT !.rotation = n, !.access = TRUE]
    OBVIOUS
  <2>2. new = [user |-> old.user, scopes |-> old.scopes, rotation |-> n,
               access |-> TRUE, refresh |-> old.refresh, revoked |-> old.revoked]
    BY <1>1, <2>1, Zenon
  <2>3. new \in Like(old, n, old.revoked)
    BY <1>2, <2>2 DEF GrantRow, Like
  <2> QED BY <2>1, <2>3
<1> QED BY <1>3, <1>4, <1>5, <1>6

\* What a step writes to a grant: a new row, or the old one rewritten.
GrantWritten(g, new) == grant' = [grant EXCEPT ![g] = new]

LEMMA WhoWritesGrants ==
  ASSUME AccountsInv, RowsTyped, RotationsLeft, [Next]_vars
  PROVE  \/ UNCHANGED grant
         \/ \E g \in Grants : grant[g] # None /\ \E new :
              /\ GrantWritten(g, new)
              /\ \/ Expire /\ new \in Like(grant[g], grant[g].rotation, grant[g].revoked)
                 \/ /\ \E b \in Browsers : Revoke(b)
                    /\ new \in Like(grant[g], grant[g].rotation, TRUE)
                 \/ /\ \E c \in Clients : Refresh(c) /\ g = call[c].of
                    /\ new \in Like(grant[g], grant[g].rotation + 1, grant[g].revoked)
         \/ \E c \in Clients, g \in Grants, new \in GrantRow :
              /\ Exchange(c) /\ grant[g] = None /\ GrantWritten(g, new)
              /\ new.rotation = 0 /\ ~new.revoked
<1> DEFINE rewritten ==
      \E g \in Grants : grant[g] # None /\ \E new :
        /\ GrantWritten(g, new)
        /\ \/ Expire /\ new \in Like(grant[g], grant[g].rotation, grant[g].revoked)
           \/ /\ \E b \in Browsers : Revoke(b)
              /\ new \in Like(grant[g], grant[g].rotation, TRUE)
           \/ /\ \E c \in Clients : Refresh(c) /\ g = call[c].of
              /\ new \in Like(grant[g], grant[g].rotation + 1, grant[g].revoked)
<1>1. ASSUME NEW g \in Grants, grant[g] # None PROVE grant[g] \in GrantRow
  BY <1>1 DEF RowsTyped
<1>2. 0 \in 0 .. MaxCalls
  BY PlatformAssumption
<1>3. ASSUME NEW b \in Browsers, Revoke(b) PROVE rewritten
  <2>1. PICK g \in Grants :
          grant[g] # None /\ grant' = [grant EXCEPT ![g].revoked = TRUE, ![g].refresh = FALSE]
    BY <1>3 DEF Revoke
  <2>2. PICK new : new = [grant[g] EXCEPT !.revoked = TRUE, !.refresh = FALSE]
    OBVIOUS
  <2>3. GrantWritten(g, new)
    BY <2>1, <2>2 DEF RowsTyped, GrantWritten
  <2>4. new \in Like(grant[g], grant[g].rotation, TRUE)
    BY <1>1, <1>2, <2>1, <2>2, GrantRewritten
  <2> QED BY <1>3, <2>1, <2>3, <2>4
<1>4. ASSUME Expire, ~UNCHANGED grant PROVE rewritten
  <2>1. PICK g \in Grants :
          /\ grant[g] # None
          /\ \/ grant' = [grant EXCEPT ![g] = [grant[g] EXCEPT !.access = FALSE]]
             \/ grant' = [grant EXCEPT ![g] = [grant[g] EXCEPT !.refresh = FALSE]]
    BY <1>4 DEF Expire
  <2>2. PICK new : /\ new \in {[grant[g] EXCEPT !.access = FALSE],
                               [grant[g] EXCEPT !.refresh = FALSE]}
                   /\ GrantWritten(g, new)
    BY <2>1 DEF GrantWritten
  <2>3. new \in Like(grant[g], grant[g].rotation, grant[g].revoked)
    BY <1>1, <1>2, <2>1, <2>2, GrantRewritten
  <2> QED BY <1>4, <2>1, <2>2, <2>3
<1>5. ASSUME NEW c \in Clients, Refresh(c), ~UNCHANGED grant PROVE rewritten
  <2>1. PICK g : g = call[c].of
    OBVIOUS
  <2>2. g \in Grants /\ grant[g] # None /\ c \in Refreshing
    BY <1>5, <2>1 DEF Refresh, RowsTyped, Calls, CallFits, Refreshing, NoCall
  <2>3. grant' = [grant EXCEPT ![g].rotation = @ + 1, ![g].access = TRUE]
    BY <1>5, <2>1 DEF Refresh
  <2>4. grant[g].rotation \in Nat
    BY <1>1, <2>2 DEF GrantRow
  <2>5. PICK next \in 0 .. MaxCalls : next = grant[g].rotation + 1
    BY <2>2, <2>4, RotationBound
  <2>6. PICK new : new = [grant[g] EXCEPT !.rotation = next, !.access = TRUE]
    OBVIOUS
  <2>7. GrantWritten(g, new)
    BY <2>2, <2>3, <2>5, <2>6 DEF RowsTyped, GrantWritten
  <2>8. new \in Like(grant[g], next, grant[g].revoked)
    BY <1>1, <2>2, <2>5, <2>6, GrantRewritten
  <2> QED BY <1>5, <2>1, <2>2, <2>5, <2>7, <2>8
<1>6. ASSUME NEW c \in Clients, Exchange(c), ~UNCHANGED grant
      PROVE  \E g \in Grants, new \in GrantRow :
               /\ Exchange(c) /\ grant[g] = None /\ GrantWritten(g, new)
               /\ new.rotation = 0 /\ ~new.revoked
  <2>1. PICK k : k = call[c].of
    OBVIOUS
  <2>2. PICK g \in Grants :
          /\ grant[g] = None
          /\ grant' = [grant EXCEPT ![g] =
               [user |-> code[k].user, scopes |-> code[k].scopes, rotation |-> 0,
                access |-> TRUE, refresh |-> TRUE, revoked |-> FALSE]]
    BY <1>6, <2>1 DEF Exchange, IsNext, Unused
  <2>3. k \in Codes /\ code[k] # None
    BY <1>6, <2>1 DEF Exchange, RowsTyped, Calls, CallFits, NoCall
  <2>4. code[k].user \in Users /\ code[k].scopes \in SUBSET Scopes
    BY <2>3 DEF RowsTyped, CodeRow
  <2>5. PICK new : new = [user |-> code[k].user, scopes |-> code[k].scopes, rotation |-> 0,
                          access |-> TRUE, refresh |-> TRUE, revoked |-> FALSE]
    OBVIOUS
  <2>6. new \in GrantRow /\ new.rotation = 0 /\ ~new.revoked
    BY <1>2, <2>4, <2>5 DEF GrantRow
  <2>7. GrantWritten(g, new)
    BY <2>2, <2>5 DEF GrantWritten
  <2> QED BY <1>6, <2>2, <2>6, <2>7
<1> HIDE DEF rewritten
<1>7. UNCHANGED grant \/ rewritten \/ \E c \in Clients, g \in Grants, new \in GrantRow :
        /\ Exchange(c) /\ grant[g] = None /\ GrantWritten(g, new)
        /\ new.rotation = 0 /\ ~new.revoked
  BY <1>3, <1>4, <1>5, <1>6, WhoWrites
<1> QED BY <1>7 DEF rewritten

LEMMA GrantsTyped ==
  ASSUME AccountsInv, RowsTyped, RotationsLeft, [Next]_vars
  PROVE  grant' \in [Grants -> GrantRow \cup {None}] /\ GrantsAge
<1>1. CASE UNCHANGED grant
  BY <1>1 DEF RowsTyped, GrantsAge, GrantRow
<1>2. ASSUME NEW g \in Grants, NEW new \in GrantRow, GrantWritten(g, new),
             grant[g] # None => new.rotation >= grant[g].rotation /\ new.user = grant[g].user
      PROVE  grant' \in [Grants -> GrantRow \cup {None}] /\ GrantsAge
  <2>1. new # None
    BY RowsAssumption
  <2> QED BY <1>2, <2>1 DEF RowsTyped, GrantsAge, GrantRow, GrantWritten
<1>3. ASSUME NEW g \in Grants, grant[g] # None, NEW new, GrantWritten(g, new),
             \/ new \in Like(grant[g], grant[g].rotation, grant[g].revoked)
             \/ new \in Like(grant[g], grant[g].rotation, TRUE)
             \/ new \in Like(grant[g], grant[g].rotation + 1, grant[g].revoked)
      PROVE  grant' \in [Grants -> GrantRow \cup {None}] /\ GrantsAge
  <2>1. grant[g].rotation \in Nat
    BY <1>3 DEF RowsTyped, GrantRow
  <2>2. new \in GrantRow /\ new.rotation >= grant[g].rotation /\ new.user = grant[g].user
    BY <1>3, <2>1 DEF Like
  <2> QED BY <1>2, <1>3, <2>2
<1> QED BY <1>1, <1>2, <1>3, WhoWritesGrants
-----------------------------------------------------------------------------
(* Calls.                                                                    *)
CallWritten(c, new) == call' = [call EXCEPT ![c] = new]

LEMMA CallsAge ==
  ASSUME CodesAge, GrantsAge, ProjectsAge, NEW q, CallFits(q)
  PROVE  CallFits(q)'
<1>1. q.seen \in Projects \cup {None}
  BY DEF CallFits, CallOf
<1> QED BY <1>1 DEF CallFits, CodesAge, GrantsAge, ProjectsAge

LEMMA CallRewritten ==
  ASSUME NEW q, CallFits(q)
  PROVE  /\ \A kind \in {"forget", "open", "save", "tool"} :
              /\ [q EXCEPT !.kind = kind] \in CallOf
              /\ [q EXCEPT !.kind = kind].kind = kind
              /\ [q EXCEPT !.kind = kind].seen = q.seen
         /\ [q EXCEPT !.kind = "open", !.seen = None] \in CallOf
         /\ [q EXCEPT !.kind = "open", !.seen = None].kind = "open"
         /\ \A p \in Projects : /\ [q EXCEPT !.seen = p] \in CallOf
                                /\ [q EXCEPT !.seen = p].kind = q.kind
<1>1. q = [kind |-> q.kind, user |-> q.user, of |-> q.of, rotation |-> q.rotation,
           seen |-> q.seen]
  BY DEF CallFits, CallOf
<1>2. /\ q.user \in Users /\ q.of \in Codes \cup Grants \cup McpSessions \cup {None}
      /\ q.rotation \in 0 .. MaxCalls /\ q.seen \in Projects \cup {None}
  BY DEF CallFits, CallOf
<1>3. ASSUME NEW kind \in {"forget", "open", "save", "tool"}
      PROVE  /\ [q EXCEPT !.kind = kind] \in CallOf
             /\ [q EXCEPT !.kind = kind].kind = kind
             /\ [q EXCEPT !.kind = kind].seen = q.seen
  <2>1. PICK new : new = [q EXCEPT !.kind = kind]
    OBVIOUS
  <2>2. new = [kind |-> kind, user |-> q.user, of |-> q.of, rotation |-> q.rotation,
               seen |-> q.seen]
    BY <1>1, <2>1, Zenon
  <2>3. new \in CallOf /\ new.kind = kind /\ new.seen = q.seen
    BY <1>2, <2>2 DEF CallOf
  <2> QED BY <2>1, <2>3
<1>4. /\ [q EXCEPT !.kind = "open", !.seen = None] \in CallOf
      /\ [q EXCEPT !.kind = "open", !.seen = None].kind = "open"
  <2>1. PICK new : new = [q EXCEPT !.kind = "open", !.seen = None]
    OBVIOUS
  <2>2. new = [kind |-> "open", user |-> q.user, of |-> q.of, rotation |-> q.rotation,
               seen |-> None]
    BY <1>1, <2>1, Zenon
  <2>3. new \in CallOf /\ new.kind = "open"
    BY <1>2, <2>2 DEF CallOf
  <2> QED BY <2>1, <2>3
<1>5. ASSUME NEW p \in Projects
      PROVE  [q EXCEPT !.seen = p] \in CallOf /\ [q EXCEPT !.seen = p].kind = q.kind
  <2>1. PICK new : new = [q EXCEPT !.seen = p]
    OBVIOUS
  <2>2. new = [kind |-> q.kind, user |-> q.user, of |-> q.of, rotation |-> q.rotation,
               seen |-> p]
    BY <1>1, <2>1, Zenon
  <2>3. q.kind \in {"exchange", "refresh", "initialize", "forget", "open", "select", "save",
                    "tool"}
    BY DEF CallFits, CallOf
  <2>4. new \in CallOf /\ new.kind = q.kind
    BY <1>2, <2>2, <2>3 DEF CallOf
  <2> QED BY <2>1, <2>4
<1> QED BY <1>3, <1>4, <1>5

\* The calls of the OAuth clients: a new call is one of those that are left, and
\* only a new call can be a refresh.
Spends(c, new) ==
  /\ CallWritten(c, new)
  /\ new = None \/ CallFits(new)
  /\ calls' \in Nat
  /\ \/ call[c] = None /\ calls' = calls - 1
     \/ calls' = calls /\ ~(new # None /\ new.kind = "refresh")

LEMMA ClientCalls ==
  ASSUME AccountsInv, RowsTyped, calls \in Nat, ClientStep
  PROVE  \/ UNCHANGED call /\ calls' \in Nat /\ calls' <= calls
         \/ \E c \in Clients : \E new : Spends(c, new) /\ ~Calls(c, "tool")
<1>0. 0 \in 0 .. MaxCalls
  BY PlatformAssumption
<1>1. ASSUME NEW c \in Clients, NEW kind, NEW owner, NEW of, NEW rotation, NEW seen,
             Free(c), Begin(c, kind, owner, of, rotation, seen),
             CallFits([kind |-> kind, user |-> owner, of |-> of, rotation |-> rotation,
                       seen |-> seen])
      PROVE  \E new : Spends(c, new) /\ ~Calls(c, "tool")
  <2>1. PICK new : new = [kind |-> kind, user |-> owner, of |-> of, rotation |-> rotation,
                          seen |-> seen]
    OBVIOUS
  <2>2. Spends(c, new) /\ ~Calls(c, "tool")
    BY <1>1, <2>1 DEF Free, Begin, Spends, CallWritten, NoCall, Calls
  <2> QED BY <2>2
<1>2. ASSUME NEW c \in Clients, Answer(c), calls' = calls, ~Calls(c, "tool")
      PROVE  \E new : Spends(c, new) /\ ~Calls(c, "tool")
  BY <1>2 DEF Answer, Spends, CallWritten, NoCall
<1>3. ASSUME NEW c \in Clients, NEW k \in Codes, ExchangeRead(c, k)
      PROVE  \E new : Spends(c, new) /\ ~Calls(c, "tool")
  <2>1. code[k] \in CodeRow
    BY <1>3 DEF ExchangeRead, RowsTyped
  <2>2. CallFits([kind |-> "exchange", user |-> code[k].user, of |-> k, rotation |-> 0,
                  seen |-> None])
    BY <1>0, <1>3, <2>1 DEF ExchangeRead, CallFits, CallOf, CodeRow
  <2> QED BY <1>1, <1>3, <2>2 DEF ExchangeRead
<1>4. ASSUME NEW c \in Clients, NEW g \in Grants, NEW rotation \in 0 .. MaxCalls,
             RefreshRead(c, g, rotation)
      PROVE  \E new : Spends(c, new) /\ ~Calls(c, "tool")
  <2>1. grant[g] \in GrantRow
    BY <1>4 DEF RefreshRead, Refreshable, RowsTyped
  <2>2. CallFits([kind |-> "refresh", user |-> grant[g].user, of |-> g,
                  rotation |-> rotation, seen |-> None])
    BY <1>4, <2>1 DEF RefreshRead, Refreshable, CallFits, CallOf, GrantRow
  <2> QED BY <1>1, <1>4, <2>2 DEF RefreshRead
<1>5. ASSUME NEW c \in Clients, NEW g \in Grants, Initialize(c, g)
      PROVE  \E new : Spends(c, new) /\ ~Calls(c, "tool")
  <2>1. grant[g].user \in Users
    BY <1>5 DEF Initialize, Authenticated, RowsTyped, GrantRow
  <2>2. PICK seen \in Projects \cup {None} : seen = remembered[grant[g].user]
    BY <2>1 DEF RowsTyped
  <2>3. seen # None => project[seen] # "absent"
    BY <2>1, <2>2 DEF RowsTyped
  <2>4. CallFits([kind |-> "initialize", user |-> grant[g].user, of |-> None,
                  rotation |-> 0, seen |-> seen])
    BY <1>0, <2>1, <2>3 DEF CallFits, CallOf
  <2> QED BY <1>1, <1>5, <2>2, <2>4 DEF Initialize
<1>6. ASSUME NEW c \in Clients, NEW g \in Grants, NEW s \in McpSessions, NEW p \in Projects,
             SelectRead(c, g, s, p)
      PROVE  \E new : Spends(c, new) /\ ~Calls(c, "tool")
  <2>1. grant[g].user \in Users
    BY <1>6 DEF SelectRead, Authenticated, RowsTyped, GrantRow
  <2>2. CallFits([kind |-> "select", user |-> grant[g].user, of |-> s, rotation |-> 0,
                  seen |-> p])
    BY <1>0, <1>6, <2>1, ConstantsAssumption DEF SelectRead, Active, CallFits, CallOf
  <2> QED BY <1>1, <1>6, <2>2 DEF SelectRead
<1>7. ASSUME NEW c \in Clients, NEW new, CallWritten(c, new), CallFits(new),
             new.kind \in {"forget", "open", "save"}, calls' = calls, ~Calls(c, "tool")
      PROVE  \E d \in Clients : \E n : Spends(d, n) /\ ~Calls(d, "tool")
  <2>1. Spends(c, new)
    BY <1>7 DEF Spends
  <2> QED BY <1>7, <2>1
<1>8. ASSUME NEW c \in Clients, Look(c)
      PROVE  \E d \in Clients : \E new : Spends(d, new) /\ ~Calls(d, "tool")
  <2>1. PICK q : q = call[c]
    OBVIOUS
  <2>2. CallFits(q) /\ q.kind = "initialize"
    BY <1>8, <2>1 DEF Look, Calls, NoCall, RowsTyped
  <2>3. PICK kind \in {"forget", "open"} :
          kind = IF q.seen # None /\ ~Active(q.seen) THEN "forget" ELSE "open"
    OBVIOUS
  <2>4. PICK new : new = [q EXCEPT !.kind = kind]
    OBVIOUS
  <2>5. new \in CallOf /\ new.kind = kind /\ new.seen = q.seen
    <3>1. \A k \in {"forget", "open", "save", "tool"} :
            /\ [q EXCEPT !.kind = k] \in CallOf
            /\ [q EXCEPT !.kind = k].kind = k
            /\ [q EXCEPT !.kind = k].seen = q.seen
      BY <2>2, CallRewritten, Zenon
    <3>2. kind \in {"forget", "open", "save", "tool"}
      BY <2>3
    <3> QED BY <2>4, <3>1, <3>2, Zenon
  <2>6. CallWritten(c, new)
    BY <1>8, <2>1, <2>3, <2>4 DEF Look, CallWritten, RowsTyped
  <2>7. kind = "forget" => q.seen # None /\ project[q.seen] \in {"archived", "deleted"}
    <3>1. q.seen \in Projects \cup {None}
      BY <2>2 DEF CallFits, CallOf
    <3> QED BY <2>2, <2>3, <3>1 DEF CallFits, Active, AccountsInv, Stages
  <2>8. CallFits(new)
    BY <2>3, <2>5, <2>7 DEF CallFits
  <2>9. calls' = calls /\ ~Calls(c, "tool")
    BY <1>8 DEF Look, Calls
  <2> QED BY <1>7, <2>3, <2>5, <2>6, <2>8, <2>9
<1>9. ASSUME NEW c \in Clients, Forget(c)
      PROVE  \E d \in Clients : \E new : Spends(d, new) /\ ~Calls(d, "tool")
  <2>1. CallFits(call[c])
    BY <1>9 DEF Forget, Calls, NoCall, RowsTyped
  <2>2. PICK new : new = [call[c] EXCEPT !.kind = "open", !.seen = None]
    OBVIOUS
  <2>3. CallWritten(c, new)
    BY <1>9, <2>2 DEF Forget, CallWritten, RowsTyped
  <2>4. new.kind = "open" /\ CallFits(new)
    BY <2>1, <2>2, CallRewritten DEF CallFits
  <2> QED BY <1>7, <1>9, <2>3, <2>4 DEF Forget, Calls
<1>10. ASSUME NEW c \in Clients, Remember(c)
       PROVE  \E d \in Clients : \E new : Spends(d, new) /\ ~Calls(d, "tool")
  <2>1. CASE Answer(c)
    BY <1>2, <1>10, <2>1 DEF Remember, Calls
  <2>2. CASE call' = [call EXCEPT ![c].kind = "save"]
    <3>1. CallFits(call[c])
      BY <1>10 DEF Remember, Calls, NoCall, RowsTyped
    <3>2. PICK new : new = [call[c] EXCEPT !.kind = "save"]
      OBVIOUS
    <3>3. CallWritten(c, new)
      BY <2>2, <3>2 DEF CallWritten, RowsTyped
    <3>4. new.kind = "save" /\ CallFits(new)
      BY <3>1, <3>2, CallRewritten DEF CallFits
    <3> QED BY <1>7, <1>10, <3>3, <3>4 DEF Remember, Calls
  <2> QED BY <1>10, <2>1, <2>2 DEF Remember
<1>11. ASSUME NEW c \in Clients, Exchange(c) \/ Refresh(c) \/ OpenSession(c) \/ SaveSession(c)
       PROVE  \E new : Spends(c, new) /\ ~Calls(c, "tool")
  BY <1>2, <1>11 DEF Exchange, Refresh, OpenSession, SaveSession, Calls
<1>12. ASSUME NEW c \in Clients, NEW g \in Grants, NEW s \in McpSessions, EndSession(c, g, s)
       PROVE  UNCHANGED call /\ calls' \in Nat /\ calls' <= calls
  BY <1>12 DEF EndSession, Free
<1> QED BY <1>3, <1>4, <1>5, <1>6, <1>8, <1>9, <1>10, <1>11, <1>12 DEF ClientStep

\* The calls of the tools' clients.
LEMMA ToolCalls ==
  ASSUME AccountsInv, RowsTyped, ToolsInv, ToolStep
  PROVE  /\ calls' = calls
         /\ \/ UNCHANGED call
            \/ \E c \in Clients : \E new :
                 /\ CallWritten(c, new) /\ (call[c] = None \/ Calls(c, "tool"))
                 /\ new = None \/ (CallFits(new) /\ new.kind = "tool")
<1>0. 0 \in 0 .. MaxCalls
  BY PlatformAssumption
<1>1. NotAccess
  BY ZenonT(30) DEF ToolStep, ToolCall, SessionRead, ProjectRead, Ask, Change, Audit, CutOff
<1>2. ASSUME NEW c \in Clients, NEW g \in Grants, NEW s \in McpSessions, ToolCall(c, g, s)
      PROVE  \E new : /\ CallWritten(c, new) /\ (call[c] = None \/ Calls(c, "tool"))
                      /\ new = None \/ (CallFits(new) /\ new.kind = "tool")
  <2>1. grant[g].user \in Users
    BY <1>2 DEF ToolCall, Authenticated, RowsTyped, GrantRow
  <2>2. PICK new : new = [kind |-> "tool", user |-> grant[g].user, of |-> g,
                          rotation |-> 0, seen |-> None]
    OBVIOUS
  <2>3. CallFits(new) /\ new.kind = "tool"
    BY <1>0, <2>1, <2>2 DEF CallFits, CallOf
  <2>4. CallWritten(c, new) /\ call[c] = None
    BY <1>2, <2>2 DEF ToolCall, CallWritten, NoCall
  <2> QED BY <2>3, <2>4
<1>3. ASSUME NEW c \in Clients, work[c] # None
      PROVE  Calls(c, "tool") /\ CallFits(call[c]) /\ work[c].session \in McpSessions
  BY <1>3 DEF ToolsInv, Checks, Work, Calls, RowsTyped, NoCall
<1>4. ASSUME NEW c \in Clients, Ended(c), work[c] # None
      PROVE  \E new : /\ CallWritten(c, new) /\ (call[c] = None \/ Calls(c, "tool"))
                      /\ new = None \/ (CallFits(new) /\ new.kind = "tool")
  BY <1>3, <1>4 DEF Ended, Answer, CallWritten, NoCall
<1>5. ASSUME NEW c \in Clients, SessionRead(c)
      PROVE  \E new : /\ CallWritten(c, new) /\ (call[c] = None \/ Calls(c, "tool"))
                      /\ new = None \/ (CallFits(new) /\ new.kind = "tool")
  <2>1. work[c] # None
    BY <1>5 DEF SessionRead, At
  <2>2. CASE Ended(c)
    BY <1>4, <2>1, <2>2
  <2>3. CASE ~Ended(c)
    <3>1. PICK s : s = mcp[work[c].session]
      OBVIOUS
    <3>2. s # None /\ s.project # None /\ call' = [call EXCEPT ![c].seen = s.project]
      BY <1>5, <2>3, <3>1 DEF SessionRead
    <3>3. s.project \in Projects
      BY <1>3, <2>1, <3>1, <3>2 DEF RowsTyped, McpSession
    <3>4. PICK q : q = call[c]
      OBVIOUS
    <3>5. CallFits(q) /\ q.kind = "tool"
      BY <1>3, <2>1, <3>4 DEF Calls
    <3>6. PICK new : new = [q EXCEPT !.seen = s.project]
      OBVIOUS
    <3>7. new \in CallOf /\ new.kind = "tool"
      <4>1. \A p \in Projects : /\ [q EXCEPT !.seen = p] \in CallOf
                                /\ [q EXCEPT !.seen = p].kind = q.kind
        BY <3>5, CallRewritten, Zenon
      <4> QED BY <3>3, <3>5, <3>6, <4>1, Zenon
    <3>8. CallFits(new)
      BY <3>7 DEF CallFits
    <3>9. CallWritten(c, new)
      BY <3>2, <3>4, <3>6 DEF CallWritten, RowsTyped
    <3> QED BY <1>3, <2>1, <3>7, <3>8, <3>9
  <2> QED BY <2>2, <2>3
<1>6. ASSUME NEW c \in Clients,
             \/ ProjectRead(c) \/ Change(c) \/ Audit(c) \/ CutOff(c)
             \/ \E kind \in Kinds, dry \in BOOLEAN : Ask(c, kind, dry)
      PROVE  UNCHANGED call \/ (Ended(c) /\ work[c] # None)
  BY <1>6 DEF ProjectRead, Change, Audit, CutOff, Ask, At, Stage
<1> QED BY <1>1, <1>2, <1>4, <1>5, <1>6 DEF ToolStep, NotAccess

LEMMA AnyCall ==
  ASSUME AccountsInv, RowsTyped, ToolsInv, calls \in Nat, [Next]_vars
  PROVE  \/ UNCHANGED call /\ calls' \in Nat /\ calls' <= calls
         \/ \E c \in Clients : \E new : Spends(c, new)
<1>1. CASE ClientStep
  BY <1>1, ClientCalls
<1>2. CASE ToolStep
  <2>1. CASE UNCHANGED call
    BY <1>2, <2>1, ToolCalls
  <2>2. CASE ~UNCHANGED call
    <3>1. ASSUME NEW c \in Clients, NEW new, CallWritten(c, new), calls' = calls,
                 new = None \/ (CallFits(new) /\ new.kind = "tool")
          PROVE  \E d \in Clients : \E n : Spends(d, n)
      <4>1. Spends(c, new)
        BY <3>1 DEF Spends
      <4> QED BY <4>1
    <3> QED BY <1>2, <2>2, <3>1, ToolCalls
  <2> QED BY <2>1, <2>2
<1>3. CASE UNCHANGED <<call, calls>>
  BY <1>3
<1> QED BY <1>1, <1>2, <1>3, WhoWrites

LEMMA RefreshingBounds ==
  ASSUME RowsTyped, RotationsLeft, NEW c \in Clients, NEW new, Spends(c, new)
  PROVE  /\ IsFiniteSet(Refreshing')
         /\ calls' + Cardinality(Refreshing') <= calls + Cardinality(Refreshing)
<1>1. \A d \in Clients : call'[d] = (IF d = c THEN new ELSE call[d])
  BY DEF Spends, CallWritten, RowsTyped
<1>2. Cardinality(Refreshing) \in Nat /\ calls \in Nat /\ IsFiniteSet(Refreshing)
  BY FS_CardinalityType DEF RotationsLeft
<1>3. CASE call[c] = None /\ calls' = calls - 1
  <2>1. Refreshing' \subseteq Refreshing \cup {c}
    BY <1>1 DEF Refreshing, Calls
  <2>2. /\ IsFiniteSet(Refreshing \cup {c})
        /\ Cardinality(Refreshing \cup {c}) <= Cardinality(Refreshing) + 1
    <3>1. /\ IsFiniteSet(Refreshing \cup {c})
          /\ Cardinality(Refreshing \cup {c}) =
               IF c \in Refreshing THEN Cardinality(Refreshing) ELSE Cardinality(Refreshing) + 1
      BY <1>2, FS_AddElement, Zenon
    <3> QED BY <1>2, <3>1
  <2>3. /\ IsFiniteSet(Refreshing')
        /\ Cardinality(Refreshing') <= Cardinality(Refreshing \cup {c})
    BY <2>1, <2>2, FS_Subset
  <2>4. Cardinality(Refreshing') \in Nat /\ Cardinality(Refreshing \cup {c}) \in Nat
    BY <2>2, <2>3, FS_CardinalityType
  <2> QED BY <1>2, <1>3, <2>2, <2>3, <2>4
<1>4. CASE calls' = calls /\ ~(new # None /\ new.kind = "refresh")
  <2>1. Refreshing' \subseteq Refreshing
    BY <1>1, <1>4 DEF Refreshing, Calls, NoCall
  <2>2. /\ IsFiniteSet(Refreshing')
        /\ Cardinality(Refreshing') <= Cardinality(Refreshing)
    BY <1>2, <2>1, FS_Subset
  <2> QED BY <1>2, <1>4, <2>2, FS_CardinalityType
<1> QED BY <1>3, <1>4 DEF Spends

LEMMA RefreshAnswered ==
  ASSUME RowsTyped, RotationsLeft, NEW c \in Clients, Refresh(c)
  PROVE  calls' + Cardinality(Refreshing') + 1 <= calls + Cardinality(Refreshing)
<1>1. /\ \A d \in Clients : call'[d] = (IF d = c THEN None ELSE call[d])
      /\ c \in Refreshing /\ calls' = calls
  BY DEF Refresh, Answer, NoCall, RowsTyped, Refreshing
<1>2. Refreshing' = Refreshing \ {c}
  BY <1>1 DEF Refreshing, Calls, NoCall
<1>3. Cardinality(Refreshing') = Cardinality(Refreshing) - 1
  BY <1>1, <1>2, FS_RemoveElement DEF RotationsLeft
<1>4. Cardinality(Refreshing) \in Nat /\ calls \in Nat
  BY FS_CardinalityType DEF RotationsLeft
<1> QED BY <1>1, <1>3, <1>4

LEMMA RotationsStayLeft ==
  ASSUME AccountsInv, RowsTyped, RotationsLeft, ToolsInv, [Next]_vars
  PROVE  RotationsLeft'
<1>1. /\ calls' \in Nat /\ IsFiniteSet(Refreshing')
      /\ calls' + Cardinality(Refreshing') <= calls + Cardinality(Refreshing)
  <2>1. CASE UNCHANGED call /\ calls' \in Nat /\ calls' <= calls
    <3>1. Refreshing' = Refreshing
      BY <2>1 DEF Refreshing, Calls
    <3> QED BY <2>1, <3>1, FS_CardinalityType DEF RotationsLeft
  <2>2. ASSUME NEW c \in Clients, NEW new, Spends(c, new)
        PROVE  /\ calls' \in Nat /\ IsFiniteSet(Refreshing')
               /\ calls' + Cardinality(Refreshing') <= calls + Cardinality(Refreshing)
    BY <2>2, RefreshingBounds DEF Spends
  <2> QED BY <2>1, <2>2, AnyCall DEF RotationsLeft
<1>2. /\ Cardinality(Refreshing) \in Nat /\ Cardinality(Refreshing') \in Nat
      /\ calls \in Nat /\ MaxCalls \in Nat
  BY <1>1, FS_CardinalityType, PlatformAssumption DEF RotationsLeft
<1>3. ASSUME NEW h \in Grants, grant'[h] # None
      PROVE  grant'[h].rotation + calls' + Cardinality(Refreshing') <= MaxCalls
  <2>1. ASSUME grant'[h] = grant[h]
        PROVE  grant'[h].rotation + calls' + Cardinality(Refreshing') <= MaxCalls
    <3>1. grant[h].rotation \in Nat
      BY <1>3, <2>1 DEF RowsTyped, GrantRow
    <3> QED BY <1>1, <1>2, <1>3, <2>1, <3>1 DEF RotationsLeft
  <2>2. CASE UNCHANGED grant
    BY <2>1, <2>2
  <2>3. ASSUME NEW g \in Grants, grant[g] # None, NEW new, GrantWritten(g, new),
               \/ new.rotation = grant[g].rotation
               \/ new.rotation = grant[g].rotation + 1 /\ \E c \in Clients : Refresh(c)
        PROVE  grant'[h].rotation + calls' + Cardinality(Refreshing') <= MaxCalls
    <3>1. grant[g].rotation \in Nat
      BY <2>3 DEF RowsTyped, GrantRow
    <3>2. CASE h # g
      BY <2>1, <2>3, <3>2 DEF GrantWritten, RowsTyped
    <3>3. CASE h = g /\ new.rotation = grant[g].rotation
      BY <1>1, <1>2, <2>3, <3>1, <3>3 DEF GrantWritten, RowsTyped, RotationsLeft
    <3>4. CASE h = g /\ new.rotation = grant[g].rotation + 1 /\ \E c \in Clients : Refresh(c)
      <4>1. calls' + Cardinality(Refreshing') + 1 <= calls + Cardinality(Refreshing)
        BY <3>4, RefreshAnswered
      <4>2. grant'[h].rotation = grant[g].rotation + 1
        BY <2>3, <3>4 DEF GrantWritten, RowsTyped
      <4> QED BY <1>1, <1>2, <2>3, <3>1, <4>1, <4>2 DEF RotationsLeft
    <3> QED BY <2>3, <3>2, <3>3, <3>4
  <2>4. ASSUME NEW g \in Grants, NEW new, GrantWritten(g, new), new.rotation = 0
        PROVE  grant'[h].rotation + calls' + Cardinality(Refreshing') <= MaxCalls
    <3>1. CASE h # g
      BY <2>1, <2>4, <3>1 DEF GrantWritten, RowsTyped
    <3>2. CASE h = g
      <4>1. grant'[h].rotation = 0
        BY <2>4, <3>2 DEF GrantWritten, RowsTyped
      <4> QED BY <1>1, <1>2, <4>1 DEF RotationsLeft
    <3> QED BY <3>1, <3>2
  <2>5. CASE \E g \in Grants : grant[g] # None /\ \E new :
               /\ GrantWritten(g, new)
               /\ \/ new.rotation = grant[g].rotation
                  \/ new.rotation = grant[g].rotation + 1 /\ \E c \in Clients : Refresh(c)
    BY <2>3, <2>5
  <2> QED BY <2>2, <2>4, <2>5, WhoWritesGrants DEF Like
<1> QED BY <1>1, <1>2, <1>3 DEF RotationsLeft

LEMMA SpentStays ==
  ASSUME AccountsInv, RowsTyped, RotationsLeft, SpentOnce, CodesAge, GrantsAge, [Next]_vars
  PROVE  SpentOnce'
<1>1. CASE UNCHANGED redeemed
  <2>1. \A g \in Grants : /\ grant[g] # None => grant[g].rotation \in Nat
                          /\ grant'[g] # None => grant'[g].rotation \in Nat
    BY GrantsTyped DEF RowsTyped, GrantRow
  <2>2. ASSUME NEW g \in Grants, NEW n \in 0 .. MaxCalls, <<"refresh", g, n>> \in redeemed'
        PROVE  grant'[g] # None /\ n < grant'[g].rotation
    <3>1. grant[g] # None /\ n < grant[g].rotation
      BY <1>1, <2>2 DEF SpentOnce
    <3>2. grant'[g] # None /\ grant'[g].rotation >= grant[g].rotation
      BY <3>1 DEF GrantsAge
    <3> QED BY <2>1, <3>1, <3>2, PlatformAssumption
  <2> QED BY <1>1, <2>2 DEF SpentOnce, CodesAge
<1>2. ASSUME NEW c \in Clients, Exchange(c), ~UNCHANGED redeemed
      PROVE  SpentOnce'
  <2>1. PICK k : k = call[c].of
    OBVIOUS
  <2>2. PICK g \in Grants :
          /\ grant[g] = None /\ code' = [code EXCEPT ![k].state = "consumed"]
          /\ redeemed' = redeemed \cup {<<"code", k, 0>>}
          /\ \E new : grant' = [grant EXCEPT ![g] = new]
    BY <1>2, <2>1 DEF Exchange, IsNext, Unused
  <2>3. k \in Codes /\ code[k] # None
    BY <1>2, <2>1 DEF Exchange, RowsTyped, Calls, CallFits, NoCall
  <2>4. code'[k] # None /\ code'[k].state = "consumed"
    <3>1. code[k] \in CodeRow
      BY <2>3 DEF RowsTyped
    <3> QED BY <2>2, <2>3, <3>1 DEF CodesAge, RowsTyped, CodeRow
  <2>5. ASSUME NEW h \in Grants, NEW n \in 0 .. MaxCalls, <<"refresh", h, n>> \in redeemed'
        PROVE  grant'[h] # None /\ n < grant'[h].rotation
    <3>1. <<"refresh", h, n>> \in redeemed
      BY <2>2, <2>5
    <3>2. grant[h] # None /\ n < grant[h].rotation
      BY <3>1 DEF SpentOnce
    <3>3. grant'[h] = grant[h]
      BY <2>2, <3>2 DEF RowsTyped
    <3> QED BY <3>2, <3>3
  <2>6. ASSUME NEW j \in Codes, <<"code", j, 0>> \in redeemed'
        PROVE  code'[j] # None /\ code'[j].state = "consumed"
    BY <2>2, <2>4, <2>6 DEF SpentOnce, CodesAge
  <2> QED BY <2>5, <2>6 DEF SpentOnce
<1>3. ASSUME NEW c \in Clients, Refresh(c), ~UNCHANGED redeemed
      PROVE  SpentOnce'
  <2>1. PICK g : g = call[c].of
    OBVIOUS
  <2>2. /\ call[c].rotation = grant[g].rotation
        /\ grant' = [grant EXCEPT ![g].rotation = @ + 1, ![g].access = TRUE]
        /\ redeemed' = redeemed \cup {<<"refresh", g, call[c].rotation>>}
        /\ UNCHANGED code
    BY <1>3, <2>1 DEF Refresh, Rotatable
  <2>3. g \in Grants /\ grant[g] # None /\ c \in Refreshing
    BY <1>3, <2>1 DEF Refresh, RowsTyped, Calls, CallFits, NoCall, Refreshing
  <2>4. grant[g] \in GrantRow /\ grant[g].rotation \in Nat
    BY <2>3 DEF RowsTyped, GrantRow
  <2>5. PICK next \in 0 .. MaxCalls : next = grant[g].rotation + 1
    BY <2>3, <2>4, RotationBound
  <2>6. PICK new : new = [grant[g] EXCEPT !.rotation = next, !.access = TRUE]
    OBVIOUS
  <2>7. new.rotation = next
    BY <2>4, <2>5, <2>6, GrantRewritten, ZenonT(30) DEF Like
  <2>8. grant' = [grant EXCEPT ![g] = new]
    BY <2>2, <2>3, <2>5, <2>6 DEF RowsTyped
  <2>9. ASSUME NEW h \in Grants, NEW n \in 0 .. MaxCalls, <<"refresh", h, n>> \in redeemed'
        PROVE  grant'[h] # None /\ n < grant'[h].rotation
    <3>1. CASE h = g
      <4>1. n <= grant[g].rotation
        BY <2>2, <2>4, <2>9, <3>1, PlatformAssumption DEF SpentOnce
      <4>2. grant'[g].rotation = next /\ grant'[g] # None
        BY <2>3, <2>7, <2>8 DEF RowsTyped, GrantsAge
      <4> QED BY <2>4, <2>5, <3>1, <4>1, <4>2, PlatformAssumption
    <3>2. CASE h # g
      <4>1. <<"refresh", h, n>> \in redeemed
        BY <2>2, <2>9, <3>2
      <4>2. grant'[h] = grant[h]
        BY <2>8, <3>2 DEF RowsTyped
      <4> QED BY <4>1, <4>2 DEF SpentOnce
    <3> QED BY <3>1, <3>2
  <2> QED BY <2>2, <2>9 DEF SpentOnce
<1> QED BY <1>1, <1>2, <1>3, WhoWrites
-----------------------------------------------------------------------------
(* Remembered Projects, MCP sessions and all the rows together.               *)
LEMMA RememberedTyped ==
  ASSUME AccountsInv, RowsTyped, ProjectsAge, [Next]_vars
  PROVE  /\ remembered' \in [Users -> Projects \cup {None}]
         /\ \A u \in Users : remembered'[u] # None => project'[remembered'[u]] # "absent"
<1>1. CASE UNCHANGED remembered
  BY <1>1 DEF RowsTyped, ProjectsAge
<1>2. CASE ForeignKeys
  BY <1>2 DEF ForeignKeys, RowsTyped, ProjectsAge
<1>3. ASSUME NEW c \in Clients, Forget(c)
      PROVE  /\ remembered' \in [Users -> Projects \cup {None}]
             /\ \A u \in Users : remembered'[u] # None => project'[remembered'[u]] # "absent"
  <2>1. call[c].user \in Users
    BY <1>3 DEF Forget, Calls, NoCall, RowsTyped, CallFits, CallOf
  <2>2. PICK p : p = Forgotten(call[c].user, call[c].seen)
    OBVIOUS
  <2>3. p \in {None, remembered[call[c].user]}
    BY <2>2 DEF Forgotten
  <2>4. remembered' = [remembered EXCEPT ![call[c].user] = p]
    BY <1>3, <2>2 DEF Forget
  <2> QED BY <2>1, <2>3, <2>4 DEF RowsTyped, ProjectsAge
<1>4. ASSUME NEW c \in Clients, Remember(c)
      PROVE  /\ remembered' \in [Users -> Projects \cup {None}]
             /\ \A u \in Users : remembered'[u] # None => project'[remembered'[u]] # "absent"
  <2>1. CASE UNCHANGED remembered
    BY <1>1, <2>1
  <2>2. CASE ~UNCHANGED remembered
    <3>1. PICK p : p = call[c].seen
      OBVIOUS
    <3>2. remembered' = [remembered EXCEPT ![call[c].user] = p]
      BY <1>4, <2>2, <3>1 DEF Remember
    <3>3. p \in Projects \cup {None} /\ (p # None => project[p] # "absent")
      BY <1>4, <3>1 DEF Remember, Calls, NoCall, RowsTyped, CallFits, CallOf
    <3> QED BY <3>2, <3>3 DEF RowsTyped, ProjectsAge
  <2> QED BY <2>1, <2>2
<1> QED BY <1>1, <1>2, <1>3, <1>4, WhoWrites

LEMMA McpTyped ==
  ASSUME RowsTyped, [Next]_vars
  PROVE  /\ mcp' = [s \in McpSessions |-> mcp'[s]]
         /\ \A s \in McpSessions : mcp'[s] # None => mcp'[s] \in McpSession
<1>1. CASE UNCHANGED mcp
  BY <1>1 DEF RowsTyped
<1>2. ASSUME NEW s, NEW new \in McpSession \cup {None}, mcp' = [mcp EXCEPT ![s] = new]
      PROVE  /\ mcp' = [t \in McpSessions |-> mcp'[t]]
             /\ \A t \in McpSessions : mcp'[t] # None => mcp'[t] \in McpSession
  BY <1>2 DEF RowsTyped
<1>3. CASE Expire
  <2>1. UNCHANGED mcp \/ \E s \in McpSessions : mcp' = [mcp EXCEPT ![s] = None]
    BY <1>3 DEF Expire
  <2> QED BY <1>1, <1>2, <2>1
<1>4. ASSUME NEW c \in Clients, OpenSession(c) \/ SaveSession(c)
      PROVE  /\ mcp' = [t \in McpSessions |-> mcp'[t]]
             /\ \A t \in McpSessions : mcp'[t] # None => mcp'[t] \in McpSession
  <2>1. call[c] # None
    BY <1>4 DEF OpenSession, SaveSession, Calls, NoCall
  <2>2. PICK new : new = [user |-> call[c].user, project |-> call[c].seen]
    OBVIOUS
  <2>3. new \in McpSession
    BY <2>1, <2>2 DEF RowsTyped, CallFits, CallOf, McpSession
  <2>4. \E s : mcp' = [mcp EXCEPT ![s] = new]
    BY <1>4, <2>2 DEF OpenSession, SaveSession
  <2> QED BY <1>2, <2>3, <2>4
<1>5. ASSUME NEW c \in Clients, NEW g \in Grants, NEW s \in McpSessions, EndSession(c, g, s)
      PROVE  /\ mcp' = [t \in McpSessions |-> mcp'[t]]
             /\ \A t \in McpSessions : mcp'[t] # None => mcp'[t] \in McpSession
  BY <1>2, <1>5 DEF EndSession
<1> QED BY <1>1, <1>3, <1>4, <1>5, WhoWrites

LEMMA RowsStayTyped ==
  ASSUME AccountsInv, RowsTyped, RotationsLeft, ToolsInv, ProjectsAge, [Next]_vars
  PROVE  RowsTyped'
<1>1. CodesAge /\ GrantsAge
  BY CodesTyped, GrantsTyped
<1>2. \A q : CallFits(q) => CallFits(q)'
  BY <1>1, CallsAge
<1>3. /\ call' = [c \in Clients |-> call'[c]]
      /\ \A c \in Clients : call'[c] # None => CallFits(call[c])'
  <2>1. CASE UNCHANGED call
    <3>1. ASSUME NEW c \in Clients, call'[c] # None PROVE CallFits(call[c])'
      <4>1. PICK q : q = call[c]
        OBVIOUS
      <4>2. CallFits(q)'
        BY <1>2, <2>1, <3>1, <4>1 DEF RowsTyped
      <4> QED BY <2>1, <4>1, <4>2
    <3> QED BY <2>1, <3>1 DEF RowsTyped
  <2>2. ASSUME NEW c \in Clients, NEW new, Spends(c, new)
        PROVE  /\ call' = [d \in Clients |-> call'[d]]
               /\ \A d \in Clients : call'[d] # None => CallFits(call[d])'
    <3>1. \A d \in Clients : call'[d] = (IF d = c THEN new ELSE call[d])
      BY <2>2 DEF Spends, CallWritten, RowsTyped
    <3>2. ASSUME NEW d \in Clients, call'[d] # None PROVE CallFits(call[d])'
      <4>1. PICK q : q = IF d = c THEN new ELSE call[d]
        OBVIOUS
      <4>2. q = call'[d]
        BY <3>1, <4>1
      <4>3. CallFits(q)
        BY <2>2, <3>2, <4>1, <4>2 DEF Spends, RowsTyped
      <4>4. CallFits(q)'
        BY <1>2, <4>3
      <4> QED BY <4>2, <4>4
    <3>3. call' = [d \in Clients |-> call'[d]]
      BY <2>2 DEF Spends, CallWritten, RowsTyped
    <3> QED BY <3>2, <3>3
  <2> QED BY <2>1, <2>2, AnyCall DEF RotationsLeft
<1> QED BY <1>3, ApprovalsTyped, CodesTyped, GrantsTyped, RememberedTyped, McpTyped DEF RowsTyped
-----------------------------------------------------------------------------
(* The tools.                                                                *)
Remade(w, kind, stage, dry, audited, since) ==
  [kind |-> kind, stage |-> stage, session |-> w.session, role |-> w.role,
   scopes |-> w.scopes, dry |-> dry, audited |-> audited, since |-> since,
   known |-> w.known]

LEMMA WorkRewritten ==
  ASSUME NEW w \in Work, NEW stage, NEW since
  PROVE  /\ [w EXCEPT !.stage = stage] = Remade(w, w.kind, stage, w.dry, w.audited, w.since)
         /\ [w EXCEPT !.since = since] = Remade(w, w.kind, w.stage, w.dry, w.audited, since)
         /\ [w EXCEPT !.audited = TRUE, !.stage = stage]
              = Remade(w, w.kind, stage, w.dry, TRUE, w.since)
<1>1. w = [kind |-> w.kind, stage |-> w.stage, session |-> w.session, role |-> w.role,
           scopes |-> w.scopes, dry |-> w.dry, audited |-> w.audited, since |-> w.since,
           known |-> w.known]
  BY DEF Work
<1>2. [w EXCEPT !.stage = stage] = Remade(w, w.kind, stage, w.dry, w.audited, w.since)
  <2>1. PICK new : new = [w EXCEPT !.stage = stage]
    OBVIOUS
  <2>2. new = [kind |-> w.kind, stage |-> stage, session |-> w.session, role |-> w.role,
               scopes |-> w.scopes, dry |-> w.dry, audited |-> w.audited,
               since |-> w.since, known |-> w.known]
    BY <1>1, <2>1, Zenon
  <2> QED BY <2>1, <2>2 DEF Remade
<1>3. [w EXCEPT !.since = since] = Remade(w, w.kind, w.stage, w.dry, w.audited, since)
  <2>1. PICK new : new = [w EXCEPT !.since = since]
    OBVIOUS
  <2>2. new = [kind |-> w.kind, stage |-> w.stage, session |-> w.session, role |-> w.role,
               scopes |-> w.scopes, dry |-> w.dry, audited |-> w.audited,
               since |-> since, known |-> w.known]
    BY <1>1, <2>1, Zenon
  <2> QED BY <2>1, <2>2 DEF Remade
<1>4. [w EXCEPT !.audited = TRUE, !.stage = stage] = Remade(w, w.kind, stage, w.dry, TRUE, w.since)
  <2>1. PICK new : new = [w EXCEPT !.audited = TRUE, !.stage = stage]
    OBVIOUS
  <2>2. new = [kind |-> w.kind, stage |-> stage, session |-> w.session, role |-> w.role,
               scopes |-> w.scopes, dry |-> w.dry, audited |-> TRUE,
               since |-> w.since, known |-> w.known]
    BY <1>1, <2>1, Zenon
  <2> QED BY <2>1, <2>2 DEF Remade
<1> QED BY <1>2, <1>3, <1>4

LEMMA RemadeFits ==
  ASSUME NEW w \in Work, NEW kind \in Kinds \cup {None},
         NEW stage \in {"session", "project", "ask", "change", "audit"},
         NEW dry \in BOOLEAN, NEW audited \in BOOLEAN, NEW since \in BOOLEAN
  PROVE  Remade(w, kind, stage, dry, audited, since) \in Work
BY DEF Work, Remade

\* Without a change of the rest, what a call has checked stays so.
LEMMA ChecksStay ==
  ASSUME ToolsInv, NotAccess, edits' \in [Projects -> Nat],
         \A p \in Projects : edits[p] <= edits'[p],
         NEW w, NEW q, NEW plan, Checks(w, q, plan)
  PROVE  Checks(w, q, plan)'
<1>1. \A p \in Projects : w.known[p] \in Nat /\ edits[p] \in Nat /\ edits'[p] \in Nat
  BY DEF Checks, Work, ToolsInv
<1>2. \A p \in Projects : w.known[p] <= edits'[p]
  BY <1>1 DEF Checks
<1> QED BY <1>2 DEF Checks, NotAccess, accountVars, Active

LEMMA ToolMoved ==
  ASSUME ToolsInv, NotAccess, NEW c \in Clients, NEW w, NEW q, NEW plan,
         edits' \in [Projects -> Nat], \A p \in Projects : edits[p] <= edits'[p],
         work' = [work EXCEPT ![c] = w], call' = [call EXCEPT ![c] = q],
         planned' = [planned EXCEPT ![c] = plan], call = [d \in Clients |-> call[d]],
         w # None => Checks(w, q, plan)
  PROVE  ToolsInv'
<1>1. \A d \in Clients : /\ work'[d] = (IF d = c THEN w ELSE work[d])
                         /\ call'[d] = (IF d = c THEN q ELSE call[d])
                         /\ planned'[d] = (IF d = c THEN plan ELSE planned[d])
  BY DEF ToolsInv
<1>2. ASSUME NEW d \in Clients, work'[d] # None
      PROVE  Checks(work[d], call[d], planned[d])'
  <2>1. PICK v, r, n : /\ v = IF d = c THEN w ELSE work[d]
                       /\ r = IF d = c THEN q ELSE call[d]
                       /\ n = IF d = c THEN plan ELSE planned[d]
    OBVIOUS
  <2>2. Checks(v, r, n)
    BY <1>1, <1>2, <2>1 DEF ToolsInv
  <2>3. Checks(v, r, n)'
    BY <2>2, ChecksStay
  <2> QED BY <1>1, <2>1, <2>3
<1>3. /\ work' = [d \in Clients |-> work'[d]]
      /\ planned' = [d \in Clients |-> planned'[d]]
  BY DEF ToolsInv
<1> QED BY <1>2, <1>3 DEF ToolsInv

\* The call a step of a tool works on.
LEMMA ToolAtWork ==
  ASSUME RowsTyped, ToolsInv, NEW c \in Clients, work[c] # None
  PROVE  /\ Checks(work[c], call[c], planned[c])
         /\ call = [d \in Clients |-> call[d]]
         /\ planned = [planned EXCEPT ![c] = planned[c]]
         /\ call = [call EXCEPT ![c] = call[c]]
BY DEF RowsTyped, ToolsInv

LEMMA ToolEnds ==
  ASSUME RowsTyped, ToolsInv, NotAccess, NEW c \in Clients, work[c] # None, Ended(c),
         UNCHANGED planned, edits' \in [Projects -> Nat],
         \A p \in Projects : edits[p] <= edits'[p]
  PROVE  ToolsInv'
<1>1. /\ call = [d \in Clients |-> call[d]] /\ planned' = [planned EXCEPT ![c] = planned[c]]
      /\ work' = [work EXCEPT ![c] = None] /\ call' = [call EXCEPT ![c] = None]
  BY ToolAtWork DEF Ended, Answer, NoCall
<1> QED BY <1>1, ToolMoved

LEMMA ToolContinues ==
  ASSUME RowsTyped, ToolsInv, NotAccess, NEW c \in Clients, work[c] # None,
         NEW w, NEW q, Checks(w, q, planned[c]),
         work' = [work EXCEPT ![c] = w], call' = [call EXCEPT ![c] = q],
         UNCHANGED planned, edits' \in [Projects -> Nat],
         \A p \in Projects : edits[p] <= edits'[p]
  PROVE  ToolsInv'
<1>1. call = [d \in Clients |-> call[d]] /\ planned' = [planned EXCEPT ![c] = planned[c]]
  BY ToolAtWork
<1> QED BY <1>1, ToolMoved

LEMMA EditsSame ==
  ASSUME ToolsInv, UNCHANGED edits
  PROVE  edits' \in [Projects -> Nat] /\ \A p \in Projects : edits[p] <= edits'[p]
BY DEF ToolsInv

LEMMA ToolCallKeepsTools ==
  ASSUME AccountsInv, RowsTyped, ToolsInv, NEW c \in Clients, NEW g \in Grants,
         NEW s \in McpSessions, ToolCall(c, g, s)
  PROVE  ToolsInv'
<1>1. grant[g] \in GrantRow /\ grant[g] # None /\ user[grant[g].user] \in Row
  BY DEF ToolCall, Authenticated, RowsTyped, GrantRow, AccountsInv
<1>2. PICK u, role, scopes : u = grant[g].user /\ role = user[u].role /\ scopes = grant[g].scopes
  OBVIOUS
<1>3. PICK w : w =
        [kind |-> None, stage |-> "session", session |-> s, role |-> role, scopes |-> scopes,
         dry |-> FALSE, audited |-> FALSE, since |-> FALSE, known |-> edits]
  OBVIOUS
<1>4. PICK q : q = [kind |-> "tool", user |-> u, of |-> g, rotation |-> 0, seen |-> None]
  OBVIOUS
<1>5. w \in Work
  BY <1>1, <1>2, <1>3 DEF Work, Row, GrantRow, ToolsInv
<1>6. user[u].active /\ ~grant[g].revoked
  BY <1>2 DEF ToolCall, Authenticated
<1>7. Checks(w, q, planned[c])
  <2>1. /\ w.stage = "session" /\ w.role = role /\ w.known = edits /\ w.since = FALSE
        /\ q.kind = "tool" /\ q.of = g /\ q.user = u
    BY <1>3, <1>4
  <2>2. q # None
    <3>1. q \in CallOf
      BY <1>1, <1>2, <1>4, PlatformAssumption DEF CallOf, GrantRow
    <3> QED BY <3>1, RowsAssumption
  <2>3. \A p \in Projects : w.known[p] <= edits[p]
    BY <2>1 DEF ToolsInv
  <2> QED BY <1>1, <1>2, <1>5, <1>6, <2>1, <2>2, <2>3 DEF Checks
<1>8. /\ work' = [work EXCEPT ![c] = w] /\ call' = [call EXCEPT ![c] = q]
      /\ UNCHANGED <<planned, edits>> /\ NotAccess
  BY <1>2, <1>3, <1>4 DEF ToolCall
<1>9. planned' = [planned EXCEPT ![c] = planned[c]] /\ call = [d \in Clients |-> call[d]]
  BY <1>8 DEF ToolsInv, RowsTyped
<1> QED BY <1>7, <1>8, <1>9, EditsSame, ToolMoved

LEMMA ReadsKeepTools ==
  ASSUME RowsTyped, ToolsInv, NEW c \in Clients, SessionRead(c) \/ ProjectRead(c)
  PROVE  ToolsInv'
<1>1. work[c] # None /\ NotAccess /\ UNCHANGED <<planned, edits>>
  BY DEF SessionRead, ProjectRead, At
<1>2. PICK w, q : w = work[c] /\ q = call[c]
  OBVIOUS
<1>3. Checks(w, q, planned[c])
  BY <1>1, <1>2, ToolAtWork
<1>4. w \in Work
  BY <1>3 DEF Checks
<1>5. CASE Ended(c)
  BY <1>1, <1>5, EditsSame, ToolEnds
<1>6. CASE SessionRead(c) /\ ~Ended(c)
  <2>1. PICK s : s = mcp[w.session]
    OBVIOUS
  <2>2. /\ w.stage = "session" /\ s # None /\ s.project # None
        /\ call' = [call EXCEPT ![c].seen = s.project]
        /\ work' = [work EXCEPT ![c].stage = "project"]
    BY <1>2, <1>6, <2>1 DEF SessionRead, At
  <2>3. s.project \in Projects
    BY <1>4, <2>1, <2>2 DEF RowsTyped, McpSession, Work
  <2>4. PICK new : new = [q EXCEPT !.seen = s.project]
    OBVIOUS
  <2>5. /\ call' = [call EXCEPT ![c] = new]
        /\ work' = [work EXCEPT ![c] = Remade(w, w.kind, "project", w.dry, w.audited, w.since)]
    <3>1. [w EXCEPT !.stage = "project"] = Remade(w, w.kind, "project", w.dry, w.audited, w.since)
      BY <1>4, WorkRewritten
    <3> QED BY <1>1, <1>2, <2>2, <2>4, <3>1 DEF ToolsInv, RowsTyped
  <2>6. new.seen = s.project /\ new.kind = q.kind /\ new.of = q.of /\ new.user = q.user /\ new # None
    <3>1. CallFits(q)
      BY <1>2, <1>3 DEF Checks, RowsTyped
    <3>2. new \in CallOf
      <4>1. \A p \in Projects : [q EXCEPT !.seen = p] \in CallOf
        BY <3>1, CallRewritten, Zenon
      <4> QED BY <2>3, <2>4, <4>1, Zenon
    <3>3. new # None
      BY <3>2, RowsAssumption
    <3> QED BY <2>4, <3>1, <3>3 DEF CallFits, CallOf
  <2>7. PICK v : v = Remade(w, w.kind, "project", w.dry, w.audited, w.since)
    OBVIOUS
  <2>8. v \in Work
    BY <1>4, <2>7, RemadeFits DEF Work
  <2>9. Checks(v, new, planned[c])
    BY <1>3, <2>3, <2>6, <2>7, <2>8 DEF Checks, Remade
  <2> QED BY <1>1, <2>5, <2>7, <2>9, EditsSame, ToolContinues
<1>7. CASE ProjectRead(c) /\ ~Ended(c)
  <2>1. /\ w.stage = "project" /\ Active(q.seen) /\ UNCHANGED call
        /\ work' = [work EXCEPT ![c].stage = "ask"]
    BY <1>2, <1>7 DEF ProjectRead, At, Stage
  <2>2. PICK v : v = Remade(w, w.kind, "ask", w.dry, w.audited, w.since)
    OBVIOUS
  <2>3. v \in Work
    BY <1>4, <2>2, RemadeFits DEF Work
  <2>4. Checks(v, q, planned[c])
    BY <1>3, <2>1, <2>2, <2>3 DEF Checks, Remade
  <2>5. work' = [work EXCEPT ![c] = v] /\ call' = [call EXCEPT ![c] = q]
    <3>1. [w EXCEPT !.stage = "ask"] = v
      BY <1>4, <2>2, WorkRewritten
    <3> QED BY <1>1, <1>2, <2>1, <3>1 DEF ToolsInv, RowsTyped
  <2> QED BY <1>1, <2>4, <2>5, EditsSame, ToolContinues
<1> QED BY <1>5, <1>6, <1>7

LEMMA AskKeepsTools ==
  ASSUME RowsTyped, ToolsInv, NEW c \in Clients, NEW kind \in Kinds, NEW dry \in BOOLEAN,
         Ask(c, kind, dry)
  PROVE  ToolsInv'
<1>1. work[c] # None /\ NotAccess /\ UNCHANGED edits
  BY DEF Ask, At
<1>2. PICK w, q : w = work[c] /\ q = call[c]
  OBVIOUS
<1>3. Checks(w, q, planned[c])
  BY <1>1, <1>2, ToolAtWork
<1>4. w \in Work /\ w.stage = "ask" /\ q.seen \in Projects
  BY <1>2, <1>3 DEF Checks, Ask, At
<1>5. PICK plan : plan = [of |-> q.seen, at |-> edits[q.seen]]
  OBVIOUS
<1>6. CASE Ended(c)
  <2>1. PICK n : planned' = [planned EXCEPT ![c] = n]
    <3>1. planned' \in {planned, [planned EXCEPT ![c] = plan]}
      BY <1>2, <1>5 DEF Ask
    <3>2. planned = [planned EXCEPT ![c] = planned[c]]
      BY <1>1, ToolAtWork
    <3> QED BY <3>1, <3>2
  <2>2. call = [d \in Clients |-> call[d]] /\ work' = [work EXCEPT ![c] = None]
        /\ call' = [call EXCEPT ![c] = None]
    BY <1>1, <1>6, ToolAtWork DEF Ended, Answer, NoCall
  <2> QED BY <1>1, <2>1, <2>2, EditsSame, ToolMoved
<1>7. CASE ~Ended(c)
  <2>1. PICK stage \in {"audit", "change"} :
          /\ stage = IF kind.audit = "before" THEN "audit" ELSE "change"
          /\ work' = [work EXCEPT ![c].kind = kind, ![c].dry = dry, ![c].stage = stage]
    BY <1>7 DEF Ask
  <2>2. /\ Permitted(w, kind) /\ kind.audit # "never" /\ dry = FALSE
        /\ (kind.deploys => planned[c] = plan) /\ UNCHANGED <<call, planned>>
    BY <1>2, <1>5, <1>7 DEF Ask
  <2>3. PICK v : v = Remade(w, kind, stage, dry, w.audited, w.since)
    OBVIOUS
  <2>4. v \in Work
    BY <1>4, <2>1, <2>3, RemadeFits DEF Work
  <2>5. /\ v.stage = stage /\ v.kind = kind /\ v.dry = FALSE /\ v.since = w.since
        /\ v.role = w.role /\ v.known = w.known
    BY <2>2, <2>3 DEF Remade
  <2>6. kind.deploys => planned[c].of = q.seen /\ planned[c].at >= w.known[q.seen]
    <3>1. w.known[q.seen] \in Nat /\ edits[q.seen] \in Nat /\ w.known[q.seen] <= edits[q.seen]
      BY <1>3, <1>4 DEF Checks, ToolsInv, Work
    <3> QED BY <1>5, <2>2, <3>1
  <2>7. Checks(v, q, planned[c])
    BY <1>3, <1>4, <2>1, <2>2, <2>4, <2>5, <2>6 DEF Checks, Permitted
  <2>8. work' = [work EXCEPT ![c] = v] /\ call' = [call EXCEPT ![c] = q]
    <3>1. [w EXCEPT !.kind = kind, !.dry = dry, !.stage = stage] = v
      <4>1. w = [kind |-> w.kind, stage |-> w.stage, session |-> w.session, role |-> w.role,
                 scopes |-> w.scopes, dry |-> w.dry, audited |-> w.audited,
                 since |-> w.since, known |-> w.known]
        BY <1>4 DEF Work
      <4>2. PICK new : new = [w EXCEPT !.kind = kind, !.dry = dry, !.stage = stage]
        OBVIOUS
      <4>3. new = [kind |-> kind, stage |-> stage, session |-> w.session, role |-> w.role,
                   scopes |-> w.scopes, dry |-> dry, audited |-> w.audited,
                   since |-> w.since, known |-> w.known]
        BY <4>1, <4>2, Zenon
      <4> QED BY <2>3, <4>2, <4>3 DEF Remade
    <3>2. call = [call EXCEPT ![c] = call[c]]
      BY <1>1, ToolAtWork
    <3> QED BY <1>1, <1>2, <2>1, <2>2, <2>3, <3>1, <3>2 DEF ToolsInv
  <2> QED BY <1>1, <2>2, <2>7, <2>8, EditsSame, ToolContinues
<1> QED BY <1>6, <1>7

LEMMA ChangeKeepsTools ==
  ASSUME RowsTyped, ToolsInv, NEW c \in Clients, Change(c) \/ Audit(c) \/ CutOff(c)
  PROVE  ToolsInv'
<1>1. work[c] # None /\ NotAccess /\ UNCHANGED planned
  BY DEF Change, Audit, CutOff, At
<1>2. PICK w, q : w = work[c] /\ q = call[c]
  OBVIOUS
<1>3. Checks(w, q, planned[c]) /\ w \in Work
  BY <1>1, <1>2, ToolAtWork DEF Checks
<1>4. edits' \in [Projects -> Nat] /\ \A p \in Projects : edits[p] <= edits'[p]
  <2>1. UNCHANGED edits \/ \E p : edits' = [edits EXCEPT ![p] = @ + 1]
    BY DEF Change, Audit, CutOff
  <2>2. ASSUME NEW p, edits' = [edits EXCEPT ![p] = @ + 1]
        PROVE  edits' \in [Projects -> Nat] /\ \A r \in Projects : edits[r] <= edits'[r]
    <3>1. ASSUME NEW r \in Projects
          PROVE  edits'[r] = IF r = p THEN edits[r] + 1 ELSE edits[r]
      BY <2>2 DEF ToolsInv
    <3>2. edits \in [Projects -> Nat] /\ edits' = [r \in Projects |-> edits'[r]]
      BY <2>2 DEF ToolsInv
    <3> QED BY <3>1, <3>2
  <2> QED BY <2>1, <2>2, EditsSame
<1>5. CASE Ended(c)
  BY <1>1, <1>4, <1>5, ToolEnds
<1>6. CASE Change(c) /\ ~Ended(c)
  <2>1. /\ w.stage = "change" /\ w.kind.audit = "after" /\ UNCHANGED call
        /\ work' = [work EXCEPT ![c].stage = "audit"]
    BY <1>2, <1>6 DEF Change, At, Stage
  <2>2. PICK v : v = Remade(w, w.kind, "audit", w.dry, w.audited, w.since)
    OBVIOUS
  <2>3. v \in Work
    BY <1>3, <2>2, RemadeFits DEF Work
  <2>4. /\ v.stage = "audit" /\ v.kind = w.kind /\ v.dry = w.dry /\ v.since = w.since
        /\ v.role = w.role /\ v.known = w.known
    BY <2>2 DEF Remade
  <2>5. Checks(v, q, planned[c])
    BY <1>3, <2>1, <2>3, <2>4 DEF Checks
  <2>6. work' = [work EXCEPT ![c] = v] /\ call' = [call EXCEPT ![c] = q]
    <3>1. [w EXCEPT !.stage = "audit"] = v
      BY <1>3, <2>2, WorkRewritten
    <3> QED BY <1>1, <1>2, <2>1, <3>1, ToolAtWork DEF ToolsInv
  <2> QED BY <1>1, <1>4, <2>5, <2>6, ToolContinues
<1>7. CASE Audit(c) /\ ~Ended(c)
  <2>1. /\ w.stage = "audit" /\ w.kind.audit = "before" /\ UNCHANGED call
        /\ work' = [work EXCEPT ![c].audited = TRUE, ![c].stage = "change"]
    BY <1>2, <1>7 DEF Audit, At
  <2>2. PICK v : v = Remade(w, w.kind, "change", w.dry, TRUE, w.since)
    OBVIOUS
  <2>3. v \in Work
    <3>1. /\ w.kind \in Kinds \cup {None} /\ w.dry \in BOOLEAN /\ w.since \in BOOLEAN
          /\ TRUE \in BOOLEAN /\ w \in Work
      BY <1>3 DEF Work
    <3> QED BY <2>2, <3>1, RemadeFits
  <2>4. /\ v.stage = "change" /\ v.kind = w.kind /\ v.dry = w.dry /\ v.since = w.since
        /\ v.role = w.role /\ v.known = w.known /\ v.audited = TRUE
    BY <2>2 DEF Remade
  <2>5. Checks(v, q, planned[c])
    BY <1>3, <2>1, <2>3, <2>4 DEF Checks
  <2>6. work' = [work EXCEPT ![c] = v] /\ call' = [call EXCEPT ![c] = q]
    <3>1. [w EXCEPT !.audited = TRUE, !.stage = "change"] = v
      BY <1>3, <2>2, WorkRewritten
    <3> QED BY <1>1, <1>2, <2>1, <3>1, ToolAtWork DEF ToolsInv
  <2> QED BY <1>1, <1>4, <2>5, <2>6, ToolContinues
<1> QED BY <1>5, <1>6, <1>7 DEF CutOff

\* The steps of the routes leave the calls of the tools alone, and note when
\* something changes on which they depend.
LEMMA AccessKeepsTools ==
  ASSUME AccountsInv, RowsTyped, RotationsLeft, ToolsInv, GrantsAge, AccessStep
  PROVE  ToolsInv'
<1>1. UNCHANGED <<planned, edits>>
  BY DEF AccessStep
<1>2. ASSUME NEW c \in Clients, Calls(c, "tool") PROVE call'[c] = call[c]
  <2>1. CASE ClientStep
    <3>1. ASSUME NEW d \in Clients, NEW new, Spends(d, new), ~Calls(d, "tool")
          PROVE  call'[c] = call[c]
      BY <1>2, <3>1 DEF Spends, CallWritten, RowsTyped
    <3> QED BY <2>1, <3>1, ClientCalls DEF RotationsLeft
  <2>2. CASE UNCHANGED call
    BY <2>2
  <2> QED BY <2>1, <2>2 DEF AccessStep, AccessNext, AccountStep, ConsentStep, Authorize,
          DecideRead, Decide, Revoke, Expire, platformVars
<1>3. ASSUME NEW c \in Clients, work'[c] # None
      PROVE  Checks(work[c], call[c], planned[c])'
  <2>1. PICK w, q, n : w = work[c] /\ q = call[c] /\ n = planned[c]
    OBVIOUS
  <2>2. w # None /\ Checks(w, q, n)
    BY <1>3, <2>1 DEF ToolsInv, AccessStep
  <2>3. q = call'[c]
    BY <1>2, <2>1, <2>2 DEF Checks, Calls, NoCall
  <2>4. PICK since \in BOOLEAN :
          since = (w.since \/ Authority(c)' # Authority(c))
    BY <2>2 DEF Checks, Work
  <2>5. work'[c] = [w EXCEPT !.since = since]
    BY <2>1, <2>2, <2>4 DEF AccessStep
  <2>6. PICK v : v = Remade(w, w.kind, w.stage, w.dry, w.audited, since)
    OBVIOUS
  <2>7. v = work'[c] /\ v \in Work
    <3>1. /\ w.kind \in Kinds \cup {None} /\ w.dry \in BOOLEAN /\ w.audited \in BOOLEAN
          /\ w.stage \in {"session", "project", "ask", "change", "audit"} /\ w \in Work
      BY <2>2 DEF Checks, Work
    <3>2. v \in Work
      BY <2>6, <3>1, RemadeFits, ZenonT(30)
    <3>3. [w EXCEPT !.since = since] = v
      BY <2>6, <3>1, WorkRewritten
    <3> QED BY <2>5, <3>2, <3>3
  <2>8. /\ v.stage = w.stage /\ v.kind = w.kind /\ v.dry = w.dry /\ v.since = since
        /\ v.role = w.role /\ v.known = w.known /\ v.audited = w.audited
    BY <2>6 DEF Remade
  <2>9. ~since => /\ ~w.since /\ user'[q.user].role = user[q.user].role
                  /\ user'[q.user].active = user[q.user].active
                  /\ grant'[q.of].revoked = grant[q.of].revoked
                  /\ q.seen # None => project'[q.seen] = project[q.seen]
    BY <2>1, <2>3, <2>4 DEF Authority
  <2>10. grant'[q.of] # None
    BY <2>2 DEF Checks, GrantsAge
  <2>11. n = planned'[c] /\ edits' = edits
    BY <1>1, <2>1
  <2>12. q.seen \in Projects => q.seen # None
    BY ConstantsAssumption
  <2>13. v.stage \in {"ask", "change", "audit"} /\ ~v.since => Active(q.seen)'
    BY <2>2, <2>8, <2>9, <2>12 DEF Checks, Active
  <2>14. ~v.since => /\ user'[q.user].active /\ user'[q.user].role = v.role
                     /\ ~grant'[q.of].revoked
    BY <2>2, <2>8, <2>9 DEF Checks
  <2>15. Checks(v, q, n)'
    BY <2>2, <2>7, <2>8, <2>10, <2>11, <2>13, <2>14 DEF Checks
  <2> QED BY <2>3, <2>7, <2>11, <2>15
<1>4. work' = [c \in Clients |-> work'[c]]
  BY DEF AccessStep
<1> QED BY <1>1, <1>3, <1>4 DEF ToolsInv
-----------------------------------------------------------------------------
(* The invariant: it holds where a behaviour starts, and every step keeps it. *)
LEMMA CallsInitially ==
  ASSUME call = [c \in Clients |-> NoCall], calls \in 0 .. MaxCalls,
         \A g \in Grants : grant[g] # None => grant[g].rotation = 0
  PROVE  RotationsLeft
<1>1. Refreshing = {}
  BY DEF Refreshing, Calls
<1>2. IsFiniteSet(Refreshing) /\ Cardinality(Refreshing) = 0
  BY <1>1, FS_EmptySet
<1>3. MaxCalls \in Nat
  BY PlatformAssumption
<1> QED BY <1>2, <1>3 DEF RotationsLeft

LEMMA ConnectedInit ==
  ASSUME AccountsInv, \A p \in Projects : project[p] = "active",
         NEW granted \in SUBSET Scopes, NEW fresh \in BOOLEAN, Connected(granted, fresh),
         approval = [a \in Approvals |-> None], call = [c \in Clients |-> NoCall],
         calls \in 0 .. MaxCalls
  PROVE  RowsTyped /\ RotationsLeft /\ SpentOnce
<1> DEFINE k == Oldest(Codes)
<1> DEFINE g == Oldest(Grants)
<1>2. PICK u \in founders, p \in Projects, s \in McpSessions :
        /\ code = [j \in Codes |-> IF j # k THEN None
                     ELSE [state |-> "consumed", user |-> u, scopes |-> {"read"}]]
        /\ grant = [h \in Grants |-> IF h # g THEN None
                     ELSE [user |-> u, scopes |-> granted, rotation |-> 0,
                           access |-> TRUE, refresh |-> fresh, revoked |-> FALSE]]
        /\ remembered = [v \in Users |-> IF v = u THEN p ELSE None]
        /\ mcp = [t \in McpSessions |->
             IF t = s THEN [user |-> u, project |-> p] ELSE None]
        /\ redeemed = {<<"code", k, 0>>}
  BY DEF Connected
<1> HIDE DEF k, g
<1>3. u \in Users
  BY DEF AccountsInv, Founded
<1>4. PICK row : row = [state |-> "consumed", user |-> u, scopes |-> {"read"}]
  OBVIOUS
<1>5. row \in CodeRow /\ row.state = "consumed"
  BY <1>3, <1>4 DEF CodeRow, Scopes
<1>6. PICK given : given = [user |-> u, scopes |-> granted, rotation |-> 0,
                            access |-> TRUE, refresh |-> fresh, revoked |-> FALSE]
  OBVIOUS
<1>7. given \in GrantRow /\ given.rotation = 0
  BY <1>3, <1>6, PlatformAssumption DEF GrantRow
<1>8. row # None
  BY <1>5, RowsAssumption
<1>9. code = [j \in Codes |-> IF j # k THEN None ELSE row]
  BY <1>2, <1>4
<1>10. grant = [h \in Grants |-> IF h # g THEN None ELSE given]
  BY <1>2, <1>6
<1>11. RotationsLeft
  <2>1. \A h \in Grants : grant[h] # None => grant[h].rotation = 0
    BY <1>7, <1>10
  <2> QED BY <2>1, CallsInitially
<1>12. SpentOnce
  <2>1. ASSUME NEW j \in Codes, <<"code", j, 0>> \in redeemed
        PROVE  code[j] # None /\ code[j].state = "consumed"
    <3>1. j = k
      BY <1>2, <2>1
    <3> QED BY <1>5, <1>8, <1>9, <3>1
  <2>2. ASSUME NEW h \in Grants, NEW n \in 0 .. MaxCalls
        PROVE  <<"refresh", h, n>> \notin redeemed
    BY <1>2
  <2> QED BY <2>1, <2>2 DEF SpentOnce
<1>13. RowsTyped
  <2>1. code \in [Codes -> CodeRow \cup {None}] /\ grant \in [Grants -> GrantRow \cup {None}]
    BY <1>5, <1>7, <1>9, <1>10
  <2>2. /\ remembered \in [Users -> Projects \cup {None}]
        /\ \A v \in Users : remembered[v] # None => project[remembered[v]] # "absent"
    BY <1>2
  <2>3. /\ mcp = [t \in McpSessions |-> mcp[t]]
        /\ \A t \in McpSessions : mcp[t] # None => mcp[t] \in McpSession
    BY <1>2, <1>3 DEF McpSession
  <2>4. approval \in [Approvals -> Approval \cup {None}]
    OBVIOUS
  <2>5. call = [c \in Clients |-> call[c]] /\ \A c \in Clients : call[c] = None
    BY DEF NoCall
  <2> QED BY <2>1, <2>2, <2>3, <2>4, <2>5 DEF RowsTyped
<1> QED BY <1>11, <1>12, <1>13

LEMMA UnconnectedInit ==
  ASSUME Unconnected, approval = [a \in Approvals |-> None],
         call = [c \in Clients |-> NoCall], calls \in 0 .. MaxCalls
  PROVE  RowsTyped /\ RotationsLeft /\ SpentOnce
<1>1. RotationsLeft
  BY CallsInitially DEF Unconnected
<1> QED BY <1>1 DEF Unconnected, RowsTyped, SpentOnce, NoCall

LEMMA AccessInitially ==
  ASSUME Init
  PROVE  AccessInv
<1>1. PICK budget \in Budgets : AccessInit(budget)
  BY DEF Init
<1>2. budget[3] \in 0 .. MaxCalls
  BY PlatformAssumption
<1>3. AccountsInv
  BY <1>1, AccountsInitially DEF AccessInit
<1>4. /\ approval = [a \in Approvals |-> None] /\ call = [c \in Clients |-> NoCall]
      /\ calls \in 0 .. MaxCalls
  BY <1>1, <1>2 DEF AccessInit
<1>5. RowsTyped /\ RotationsLeft /\ SpentOnce
  <2>1. CASE budget[1] = "connected"
    <3>1. Connected({"read"}, TRUE)
      BY <1>1, <2>1 DEF AccessInit
    <3>2. \A p \in Projects : project[p] = "active"
      BY <1>1, <2>1 DEF AccessInit, AccountsInit, Alone, Running
    <3>3. {"read"} \in SUBSET Scopes
      BY DEF Scopes
    <3> QED BY <1>3, <1>4, <3>1, <3>2, <3>3, ConnectedInit
  <2>2. CASE budget[1] = "tools"
    <3>1. PICK granted \in {{"read"}, Scopes} : Connected(granted, FALSE)
      BY <1>1, <2>2 DEF AccessInit
    <3>2. \A p \in Projects : project[p] = "active"
      BY <1>1, <2>2 DEF AccessInit, AccountsInit, Supervised, Established, Running
    <3>3. granted \in SUBSET Scopes
      BY <3>1 DEF Scopes
    <3> QED BY <1>3, <1>4, <3>1, <3>2, <3>3, ConnectedInit
  <2>3. CASE budget[1] \notin {"connected", "tools"}
    <3>1. Unconnected
      BY <1>1, <2>3 DEF AccessInit
    <3> QED BY <1>4, <3>1, UnconnectedInit
  <2> QED BY <2>1, <2>2, <2>3
<1>6. ToolsInv
  BY DEF Init, ToolsInv
<1> QED BY <1>3, <1>5, <1>6 DEF AccessInv

LEMMA ToolStepKeepsTools ==
  ASSUME AccountsInv, RowsTyped, ToolsInv, ToolStep
  PROVE  ToolsInv'
BY ToolCallKeepsTools, ReadsKeepTools, AskKeepsTools, ChangeKeepsTools DEF ToolStep

LEMMA AccessSteps ==
  ASSUME AccessInv, [Next]_vars
  PROVE  AccessInv'
<1>1. AccountsInv /\ RowsTyped /\ RotationsLeft /\ SpentOnce /\ ToolsInv
  BY DEF AccessInv
<1>2. ApprovalsStay
  BY <1>1, ApprovalsTyped
<1>3. AccountsInv' /\ ProjectsAge
  BY <1>1, <1>2, AccessAccounts
<1>4. CodesAge /\ GrantsAge
  BY <1>1, CodesTyped, GrantsTyped
<1>5. RowsTyped' /\ RotationsLeft' /\ SpentOnce'
  BY <1>1, <1>3, <1>4, RowsStayTyped, RotationsStayLeft, SpentStays
<1>6. ToolsInv'
  <2>1. CASE AccessStep
    BY <1>1, <1>4, <2>1, AccessKeepsTools
  <2>2. CASE ToolStep
    BY <1>1, <2>2, ToolStepKeepsTools
  <2>3. CASE UNCHANGED vars
    BY <1>1, <2>3 DEF ToolsInv, Checks, Active, vars, accountVars, platformVars, toolVars
  <2> QED BY <2>1, <2>2, <2>3 DEF Next
<1> QED BY <1>3, <1>5, <1>6 DEF AccessInv

\* The inductive invariant of the accounts, the OAuth server and the tools.
THEOREM AccessStaysInvariant == Spec => []AccessInv
<1>1. Init => AccessInv
  BY AccessInitially
<1>2. AccessInv /\ [Next]_vars => AccessInv'
  BY AccessSteps
<1> QED BY <1>1, <1>2, PTL DEF Spec
-----------------------------------------------------------------------------
(* The theorems.                                                             *)
(* OneFounder: however many setups run at once, one of them founds the       *)
(* installation.                                                              *)
THEOREM OneFounds == Spec => []OneFounder
<1>1. AccountsInv => OneFounder
  <2>1. Cardinality({}) = 0
    BY FS_EmptySet
  <2>2. \A u : Cardinality({u}) = 1
    BY FS_Singleton
  <2> SUFFICES ASSUME AccountsInv PROVE Cardinality(founders) <= 1
    BY DEF OneFounder
  <2>3. CASE founders = {}
    BY <2>1, <2>3
  <2>4. ASSUME NEW u \in Users, founders = {u} PROVE Cardinality(founders) <= 1
    <3>1. Cardinality(founders) = 1
      BY <2>2, <2>4, Zenon
    <3> QED BY <3>1
  <2> QED BY <2>3, <2>4 DEF AccountsInv, Founded
<1>2. AccessInv => AccountsInv
  BY DEF AccessInv
<1> QED BY <1>1, <1>2, AccessStaysInvariant, PTL

(* AuthorityChangeEndsSessions: no session survives a change of the role or  *)
(* the access of its user, nor comes back when the change is undone.          *)
THEOREM AuthorityEndsSessions == Spec => AuthorityChangeEndsSessions
<1>1. ASSUME AccessInv, [Next]_vars
      PROVE  [\A s \in Sessions :
                \/ user'[s.user].role # user[s.user].role
                \/ user'[s.user].active # user[s.user].active
                \/ ~ValidSession(s)
                => ~ValidSession(s)']_accountVars
  <2>0. AccountsInv /\ ApprovalsStay
    BY <1>1, ApprovalsTyped DEF AccessInv
  <2>1. ASSUME NEW s \in Sessions PROVE SessionFits(s)
    <3>1. ASSUME NEW b \in Browsers, cookie[b] # None, s = cookie[b]
          PROVE  SessionFits(s)
      BY <2>0, <3>1 DEF AccountsInv
    <3>2. ASSUME NEW b \in Browsers, req[b] # None, req[b].session # None,
                 s = req[b].session
          PROVE  SessionFits(s)
      <4>1. RequestFits(req[b])
        BY <2>0, <3>2 DEF AccountsInv
      <4> QED BY <3>2, <4>1 DEF RequestFits
    <3> QED BY <2>1, <3>1, <3>2 DEF Sessions, Idle
  <2>2. UsersGrow
    BY <1>1, <2>0, AccessAccounts
  <2>3. ASSUME NEW s \in Sessions, ValidSession(s)'
        PROVE  /\ user'[s.user].role = user[s.user].role
               /\ user'[s.user].active = user[s.user].active
               /\ ValidSession(s)
    <3>1. s.user \in Users /\ s.sessionVersion \in Nat
          /\ s.sessionVersion <= user[s.user].sessionVersion
      BY <2>1 DEF SessionFits, Signed
    <3>2. user'[s.user].sessionVersion = s.sessionVersion
      BY <2>3 DEF ValidSession
    <3>3. user[s.user].sessionVersion \in Nat
      BY <2>0, <3>1 DEF AccountsInv, Row
    <3>4. /\ user'[s.user].role = user[s.user].role
          /\ user'[s.user].active = user[s.user].active
          /\ user'[s.user].sessionVersion = user[s.user].sessionVersion
      BY <2>2, <3>1, <3>2, <3>3 DEF UsersGrow
    <3> QED BY <2>3, <3>4 DEF ValidSession
  <2> QED BY <2>3
<1> QED BY <1>1, AccessStaysInvariant, PTL DEF Spec, AuthorityChangeEndsSessions

(* RememberedUntilInactive: a remembered Project is forgotten only when it is *)
(* no longer active, whatever selects and openings overtake each other.       *)
THEOREM RememberedStays == Spec => RememberedUntilInactive
<1>1. ASSUME AccessInv, [Next]_vars, NEW u \in Users, remembered[u] # None,
             remembered'[u] = None
      PROVE  project'[remembered[u]] # "active"
  <2>1. AccountsInv /\ RowsTyped
    BY <1>1 DEF AccessInv
  <2>2. CASE ForeignKeys
    BY <1>1, <2>2 DEF ForeignKeys
  <2>3. ASSUME NEW c \in Clients, Forget(c) PROVE project'[remembered[u]] # "active"
    <3>1. u = call[c].user /\ remembered[u] = call[c].seen
      BY <1>1, <2>1, <2>3 DEF Forget, Forgotten, RowsTyped
    <3>2. project[call[c].seen] \in {"archived", "deleted"}
      BY <2>1, <2>3 DEF Forget, Calls, NoCall, RowsTyped, CallFits
    <3>3. UNCHANGED project
      BY <2>3 DEF Forget, accountVars
    <3> QED BY <3>1, <3>2, <3>3
  <2>4. ASSUME NEW c \in Clients, Remember(c) PROVE FALSE
    <3>1. call[c].seen # None
      BY <2>1, <2>4 DEF Remember, Calls, NoCall, RowsTyped, CallFits
    <3> QED BY <1>1, <2>1, <2>4, <3>1 DEF Remember, RowsTyped
  <2> QED BY <1>1, <2>2, <2>3, <2>4, WhoWrites
<1>2. AccessInv /\ [Next]_vars =>
        [\A u \in Users : remembered[u] # None /\ remembered'[u] = None
           => project'[remembered[u]] # "active"]_accessVars
  BY <1>1
<1> QED BY <1>2, AccessStaysInvariant, PTL DEF Spec, RememberedUntilInactive

\* What a tool is told from: the ones that only read never write an audit row,
\* the sensitive ones always do, in time.
LEMMA ReadOnlyNeverAudit ==
  ASSUME NEW t \in ReadOnly
  PROVE  AuditOf(t) = "never"
<1> USE DEF SecretEdits, SecretValues, SecretDeletes, PolicyEdits, PolicyRewrites, PolicyDeletes,
            NetworkEdits, CronEdits, CollectionEdits, BindingEdits, StorageEdits, CronRuns, Deploys
<1>1. CASE t \in ProjectReads \cup ObservabilityReads
  BY <1>1 DEF ProjectReads, FunctionReads, ObservabilityReads, DeploymentReads, AuditOf
<1>2. CASE t \in EndpointReads
  BY <1>2 DEF EndpointReads, SecretReads, GrantReads, PolicyReads, NetworkReads, AuditOf
<1>3. CASE t \in CronReads \cup StorageReads
  BY <1>3 DEF CronReads, BindingReads, StorageReads, CacheReads, AuditOf
<1> QED BY <1>1, <1>2, <1>3 DEF ReadOnly

LEMMA SensitiveAudit ==
  ASSUME NEW kind, Sensitive(kind)
  PROVE  kind.audit \in {"with", "before"}
<1>1. PICK t \in SecretEdits \cup PolicyEdits \cup
              {"function_create", "function_edit", "function_secret_grants_set",
               "storage_cache_reveal", "development_deploy"} : kind = Kind(t)
  BY DEF Sensitive
<1>2. AuditOf(t) \in {"with", "before"}
  BY DEF AuditOf, SecretEdits, SecretValues, SecretDeletes, PolicyEdits, PolicyRewrites,
     PolicyDeletes, NetworkEdits, CronEdits, CollectionEdits, BindingEdits, StorageEdits,
     CronRuns, Deploys
<1> QED BY <1>1, <1>2 DEF Kind

(* ToolsAnswerable: no interleaving of tool calls with role changes,          *)
(* revocations, archivings and deletions lets a tool change what its caller   *)
(* was never entitled to, deploy what its client was not shown, or go without *)
(* the audit row of a sensitive change.                                        *)
THEOREM ToolsAnswer == Spec => ToolsAnswerable
<1>1. ASSUME AccessInv, NEW c \in Clients, Change(c)
      PROVE  /\ work[c].since \/ Entitled(c)
             /\ ~work[c].kind.hint /\ ~work[c].dry
             /\ work[c].kind.deploys => /\ planned[c].of = call[c].seen
                                        /\ planned[c].at >= work[c].known[call[c].seen]
             /\ Sensitive(work[c].kind) => work[c].audited \/ work[c].kind.audit = "with"
  <2>1. work[c] # None /\ work[c].stage = "change"
    BY <1>1 DEF Change, At
  <2>2. Checks(work[c], call[c], planned[c])
    BY <1>1, <2>1 DEF AccessInv, ToolsInv
  <2>3. work[c].since \/ Entitled(c)
    BY <2>1, <2>2 DEF Checks, Entitled
  <2>4. ~work[c].kind.hint
    <3>1. PICK t \in Tools : work[c].kind = Kind(t)
      BY <2>1, <2>2 DEF Checks, Kinds
    <3>2. AuditOf(t) # "never"
      BY <2>1, <2>2, <3>1 DEF Checks, Kind
    <3>3. t \notin ReadOnly
      BY <3>2, ReadOnlyNeverAudit
    <3>4. Kind(t).hint = (t \in ReadOnly)
      BY Zenon DEF Kind
    <3> QED BY <3>1, <3>3, <3>4, Zenon
  <2>5. Sensitive(work[c].kind) => work[c].audited \/ work[c].kind.audit = "with"
    BY <2>1, <2>2, SensitiveAudit DEF Checks
  <2> QED BY <2>1, <2>2, <2>3, <2>4, <2>5 DEF Checks
<1>2. AccessInv => [\A c \in Clients : Change(c) =>
        /\ work[c].since \/ Entitled(c)
        /\ ~work[c].kind.hint /\ ~work[c].dry
        /\ work[c].kind.deploys => /\ planned[c].of = call[c].seen
                                   /\ planned[c].at >= work[c].known[call[c].seen]
        /\ Sensitive(work[c].kind) => work[c].audited \/ work[c].kind.audit = "with"]_vars
  BY <1>1
<1> QED BY <1>2, AccessStaysInvariant, PTL DEF ToolsAnswerable

(* The codes and refresh tokens. Of a grant, the rotation in the row is the   *)
(* only token that can still be exchanged.                                     *)
Live == CodesOf(Issued) \cup TokensOf(Unrevoked)
Void == CodesOf(Lapsed) \cup TokensOf(Revoked)

LEMMA LiveAre ==
  /\ \A k : <<"code", k, 0>> \in Live <=> k \in Issued
  /\ \A g, n : <<"refresh", g, n>> \in Live <=> g \in Unrevoked /\ n = grant[g].rotation
  /\ \A k : <<"code", k, 0>> \in Void <=> k \in Lapsed
  /\ \A g, n : <<"refresh", g, n>> \in Void <=> g \in Revoked /\ n = grant[g].rotation
BY DEF Live, Void, CodesOf, TokensOf

LEMMA CodesChange ==
  ASSUME UNCHANGED grant
  PROVE  /\ Live' = CodesOf(Issued') \cup TokensOf(Unrevoked)
         /\ Void' = CodesOf(Lapsed') \cup TokensOf(Revoked)
BY DEF Live, Void, CodesOf, TokensOf, Unrevoked, Revoked

LEMMA CodeMoves ==
  ASSUME NEW S, NEW k
  PROVE  /\ CodesOf(S \cup {k}) = CodesOf(S) \cup {<<"code", k, 0>>}
         /\ CodesOf(S \ {k}) = CodesOf(S) \ {<<"code", k, 0>>}
BY DEF CodesOf

LEMMA TokensAreNoCodes ==
  ASSUME NEW S, NEW T, NEW k
  PROVE  /\ (CodesOf(S) \cup TokensOf(T)) \ {<<"code", k, 0>>}
              = (CodesOf(S) \ {<<"code", k, 0>>}) \cup TokensOf(T)
         /\ \A g, n : (CodesOf(S) \cup TokensOf(T)) \ {<<"refresh", g, n>>}
              = CodesOf(S) \cup (TokensOf(T) \ {<<"refresh", g, n>>})
<1>1. \A x \in TokensOf(T) : x # <<"code", k, 0>>
  BY DEF TokensOf
<1>2. \A g, n : \A x \in CodesOf(S) : x # <<"refresh", g, n>>
  BY DEF CodesOf
<1> QED BY <1>1, <1>2

LEMMA IsFresh ==
  ASSUME SpentOnce,
         NEW x, x \in Credentials, x \notin redeemed, x \notin Live, x \notin Void
  PROVE  Ledger!Fresh(x)
BY DEF Ledger!Fresh, Live, Void

\* A code is issued, runs out or is exchanged.
LEMMA CodeGranted ==
  ASSUME SpentOnce, code = [j \in Codes |-> code[j]], NEW k \in Codes, code[k] = None,
         NEW new, new # None, new.state = "issued", code' = [code EXCEPT ![k] = new],
         UNCHANGED <<grant, redeemed>>
  PROVE  Ledger!LedgerNext
<1>1. Issued' = Issued \cup {k} /\ Lapsed' = Lapsed
  BY DEF Issued, Lapsed
<1>2. PICK x : x = <<"code", k, 0>>
  OBVIOUS
<1>3. x \in CodeCredentials /\ x \in Credentials
  BY <1>2 DEF CodeCredentials, Credentials
<1>4. x \notin redeemed
  BY <1>2 DEF SpentOnce
<1>5. x \notin Live /\ x \notin Void
  BY <1>2, LiveAre DEF Issued, Lapsed
<1>6. Ledger!Fresh(x)
  BY <1>3, <1>4, <1>5, IsFresh
<1>7. Live' = Live \cup {x} /\ Void' = Void
  <2>1. Live' = CodesOf(Issued') \cup TokensOf(Unrevoked)
        /\ Void' = CodesOf(Lapsed') \cup TokensOf(Revoked)
    BY CodesChange
  <2>2. CodesOf(Issued \cup {k}) = CodesOf(Issued) \cup {x}
    BY <1>2, CodeMoves
  <2>3. Void' = Void
    BY <1>1, <2>1 DEF Void
  <2>4. Live' = Live \cup {x}
    BY <1>1, <2>1, <2>2 DEF Live
  <2> QED BY <2>3, <2>4
<1>8. Ledger!Grant(x)
  BY <1>3, <1>6, <1>7 DEF Ledger!Grant, Live, Void
<1> QED BY <1>3, <1>8 DEF Ledger!LedgerNext

LEMMA CodeLapses ==
  ASSUME code = [j \in Codes |-> code[j]], NEW k \in Issued,
         NEW new, new # None, new.state = "expired", code' = [code EXCEPT ![k] = new],
         UNCHANGED <<grant, redeemed>>
  PROVE  Ledger!LedgerNext
<1>1. Issued' = Issued \ {k} /\ Lapsed' = Lapsed \cup {k}
  BY DEF Issued, Lapsed
<1>2. PICK x : x = <<"code", k, 0>>
  OBVIOUS
<1>3. x \in Credentials /\ x \in Live
  BY <1>2, LiveAre DEF CodeCredentials, Credentials, Issued
<1>4. Live' = Live \ {x} /\ Void' = Void \cup {x}
  <2>1. Live' = (CodesOf(Issued) \ {x}) \cup TokensOf(Unrevoked)
    BY <1>1, <1>2, CodesChange, CodeMoves
  <2>2. Live \ {x} = (CodesOf(Issued) \ {x}) \cup TokensOf(Unrevoked)
    BY <1>2, TokensAreNoCodes DEF Live
  <2>3. Void' = Void \cup {x}
    <3>1. Void' = CodesOf(Lapsed') \cup TokensOf(Revoked)
      BY CodesChange
    <3>2. CodesOf(Lapsed \cup {k}) = CodesOf(Lapsed) \cup {x}
      BY <1>2, CodeMoves
    <3> QED BY <1>1, <3>1, <3>2 DEF Void
  <2> QED BY <2>1, <2>2, <2>3
<1>5. Ledger!Withdraw(x)
  BY <1>3, <1>4 DEF Ledger!Withdraw, Live, Void
<1> QED BY <1>3, <1>5 DEF Ledger!LedgerNext

\* What a rewritten grant does to the tokens, with the codes unchanged.
LEMMA TokenRevoked ==
  ASSUME RowsTyped, NEW g \in Unrevoked,
         NEW new \in Like(grant[g], grant[g].rotation, TRUE), GrantWritten(g, new),
         UNCHANGED <<code, redeemed>>
  PROVE  Ledger!LedgerNext
<1>1. g \in Grants /\ grant[g] # None /\ grant[g] \in GrantRow
  BY DEF Unrevoked, RowsTyped
<1>2. new # None /\ new.revoked = TRUE /\ new.rotation = grant[g].rotation
  BY RowsAssumption DEF Like
<1>3. \A h \in Grants : grant'[h] = (IF h = g THEN new ELSE grant[h])
  BY DEF GrantWritten, RowsTyped
<1>4. Issued' = Issued /\ Lapsed' = Lapsed
  BY DEF Issued, Lapsed
<1>5. Unrevoked' = Unrevoked \ {g} /\ Revoked' = Revoked \cup {g}
  BY <1>1, <1>2, <1>3 DEF Unrevoked, Revoked
<1>6. \A h \in Grants : h \in Unrevoked \cup Revoked => grant'[h].rotation = grant[h].rotation
  BY <1>2, <1>3
<1>7. PICK x : x = <<"refresh", g, grant[g].rotation>>
  OBVIOUS
<1>8. x \in Credentials /\ x \in Live
  BY <1>1, <1>7, LiveAre DEF Credentials, GrantRow
<1>9. Live' = Live \ {x}
  <2>1. TokensOf(Unrevoked)' = TokensOf(Unrevoked) \ {x}
    BY <1>1, <1>5, <1>6, <1>7 DEF TokensOf, Unrevoked
  <2>2. CodesOf(Issued)' = CodesOf(Issued)
    BY <1>4 DEF CodesOf
  <2>3. Live \ {x} = CodesOf(Issued) \cup (TokensOf(Unrevoked) \ {x})
    BY <1>7, TokensAreNoCodes DEF Live
  <2> QED BY <2>1, <2>2, <2>3 DEF Live
<1>10. Void' = Void \cup {x}
  <2>1. TokensOf(Revoked)' = TokensOf(Revoked) \cup {x}
    BY <1>1, <1>5, <1>6, <1>7 DEF TokensOf, Revoked
  <2>2. CodesOf(Lapsed)' = CodesOf(Lapsed)
    BY <1>4 DEF CodesOf
  <2> QED BY <2>1, <2>2 DEF Void
<1>11. Ledger!Withdraw(x)
  BY <1>8, <1>9, <1>10 DEF Ledger!Withdraw, Live, Void
<1> QED BY <1>8, <1>11 DEF Ledger!LedgerNext

LEMMA TokensSame ==
  ASSUME RowsTyped, NEW g \in Grants, grant[g] # None,
         NEW new \in Like(grant[g], grant[g].rotation, grant[g].revoked), GrantWritten(g, new),
         UNCHANGED <<code, redeemed>>
  PROVE  Live' = Live /\ Void' = Void
<1>1. new # None /\ new.revoked = grant[g].revoked /\ new.rotation = grant[g].rotation
  BY RowsAssumption DEF Like
<1>2. \A h \in Grants : grant'[h] = (IF h = g THEN new ELSE grant[h])
  BY DEF GrantWritten, RowsTyped
<1>3. Issued' = Issued /\ Lapsed' = Lapsed
  BY DEF Issued, Lapsed
<1>4. Unrevoked' = Unrevoked /\ Revoked' = Revoked
  BY <1>1, <1>2 DEF Unrevoked, Revoked
<1>5. \A h \in Grants : grant[h] # None => grant'[h].rotation = grant[h].rotation
  BY <1>1, <1>2
<1>6. TokensOf(Unrevoked)' = TokensOf(Unrevoked) /\ TokensOf(Revoked)' = TokensOf(Revoked)
  BY <1>4, <1>5 DEF TokensOf, Unrevoked, Revoked
<1>7. CodesOf(Issued)' = CodesOf(Issued) /\ CodesOf(Lapsed)' = CodesOf(Lapsed)
  BY <1>3 DEF CodesOf
<1> QED BY <1>6, <1>7 DEF Live, Void

LEMMA CodeExchanged ==
  ASSUME RowsTyped, SpentOnce, NEW k \in Issued, NEW new, new # None, new.state = "consumed",
         code' = [code EXCEPT ![k] = new],
         NEW g \in Grants, grant[g] = None, NEW row, row # None, row.rotation = 0,
         ~row.revoked, GrantWritten(g, row),
         redeemed' = redeemed \cup {<<"code", k, 0>>}
  PROVE  Ledger!LedgerNext
<1>1. Issued' = Issued \ {k} /\ Lapsed' = Lapsed
  BY DEF Issued, Lapsed, RowsTyped
<1>2. \A h \in Grants : grant'[h] = (IF h = g THEN row ELSE grant[h])
  BY DEF GrantWritten, RowsTyped
<1>3. Unrevoked' = Unrevoked \cup {g} /\ Revoked' = Revoked
  BY <1>2 DEF Unrevoked, Revoked
<1>4. PICK x, y : x = <<"code", k, 0>> /\ y = <<"refresh", g, 0>>
  OBVIOUS
<1>5. x \in Credentials /\ x \in Live
  BY <1>4, LiveAre DEF CodeCredentials, Credentials, Issued
<1>6. y \in Credentials
  <2>1. 0 \in 0 .. MaxCalls
    BY PlatformAssumption
  <2> QED BY <1>4, <2>1 DEF Credentials
<1>7. Ledger!Fresh(y)
  <2>1. y \notin redeemed
    BY <1>4, PlatformAssumption DEF SpentOnce
  <2>2. y \notin Live /\ y \notin Void
    BY <1>4, LiveAre DEF Unrevoked, Revoked
  <2> QED BY <1>6, <2>1, <2>2, IsFresh
<1>8. Void' = Void
  <2>1. TokensOf(Revoked)' = TokensOf(Revoked)
    BY <1>2, <1>3 DEF TokensOf, Revoked
  <2>2. CodesOf(Lapsed)' = CodesOf(Lapsed)
    BY <1>1 DEF CodesOf
  <2> QED BY <2>1, <2>2 DEF Void
<1>9. Live' = (Live \ {x}) \cup {y}
  <2>1. TokensOf(Unrevoked)' = TokensOf(Unrevoked) \cup {y}
    BY <1>2, <1>3, <1>4 DEF TokensOf, Unrevoked
  <2>2. CodesOf(Issued)' = CodesOf(Issued') /\ CodesOf(Issued \ {k}) = CodesOf(Issued) \ {x}
    BY <1>4, CodeMoves DEF CodesOf
  <2>3. Live \ {x} = (CodesOf(Issued) \ {x}) \cup TokensOf(Unrevoked)
    BY <1>4, TokensAreNoCodes DEF Live
  <2>4. Live' = (CodesOf(Issued) \ {x}) \cup (TokensOf(Unrevoked) \cup {y})
    BY <1>1, <2>1, <2>2 DEF Live
  <2> QED BY <2>3, <2>4
<1>10. Ledger!Redeem(x, y)
  BY <1>4, <1>5, <1>7, <1>8, <1>9 DEF Ledger!Redeem, Live, Void
<1> QED BY <1>5, <1>6, <1>10 DEF Ledger!LedgerNext

LEMMA TokenRotated ==
  ASSUME RowsTyped, SpentOnce, NEW g \in Unrevoked, NEW n, n = grant[g].rotation,
         n + 1 \in 0 .. MaxCalls, NEW row \in Like(grant[g], n + 1, grant[g].revoked),
         GrantWritten(g, row), UNCHANGED code,
         redeemed' = redeemed \cup {<<"refresh", g, n>>}
  PROVE  Ledger!LedgerNext
<1>1. g \in Grants /\ grant[g] # None /\ ~grant[g].revoked /\ n \in 0 .. MaxCalls
      /\ n \in Nat
  BY DEF Unrevoked, RowsTyped, GrantRow
<1>2. row # None /\ row.revoked = grant[g].revoked /\ row.rotation = n + 1
  BY RowsAssumption DEF Like
<1>3. \A h \in Grants : grant'[h] = (IF h = g THEN row ELSE grant[h])
  BY DEF GrantWritten, RowsTyped
<1>4. Issued' = Issued /\ Lapsed' = Lapsed
  BY DEF Issued, Lapsed
<1>5. Unrevoked' = Unrevoked /\ Revoked' = Revoked
  BY <1>1, <1>2, <1>3 DEF Unrevoked, Revoked
<1>6. PICK x, y : x = <<"refresh", g, n>> /\ y = <<"refresh", g, n + 1>>
  OBVIOUS
<1>7. x \in Credentials /\ y \in Credentials
  BY <1>1, <1>6 DEF Credentials
<1>8. x \in Live
  BY <1>6, LiveAre
<1>9. Ledger!Fresh(y)
  <2>1. y \notin redeemed
    BY <1>1, <1>6 DEF SpentOnce
  <2>2. y \notin Live /\ y \notin Void
    BY <1>1, <1>6, LiveAre
  <2> QED BY <1>7, <2>1, <2>2, IsFresh
<1>10. Void' = Void
  <2>1. \A h \in Revoked : grant'[h].rotation = grant[h].rotation
    BY <1>1, <1>3 DEF Revoked
  <2>2. TokensOf(Revoked)' = TokensOf(Revoked)
    BY <1>5, <2>1 DEF TokensOf
  <2>3. CodesOf(Lapsed)' = CodesOf(Lapsed)
    BY <1>4 DEF CodesOf
  <2> QED BY <2>2, <2>3 DEF Void
<1>11. Live' = (Live \ {x}) \cup {y}
  <2>1. TokensOf(Unrevoked)' = (TokensOf(Unrevoked) \ {x}) \cup {y}
    <3>1. /\ \A h \in Unrevoked : h # g => grant'[h].rotation = grant[h].rotation
          /\ grant'[g].rotation = n + 1
      BY <1>1, <1>2, <1>3 DEF Unrevoked
    <3> QED BY <1>5, <1>6, <3>1 DEF TokensOf
  <2>2. CodesOf(Issued)' = CodesOf(Issued)
    BY <1>4 DEF CodesOf
  <2>3. Live \ {x} = CodesOf(Issued) \cup (TokensOf(Unrevoked) \ {x})
    <3>1. \A z \in CodesOf(Issued) : z # <<"refresh", g, n>>
      BY DEF CodesOf
    <3> QED BY <1>6, <3>1 DEF Live
  <2> QED BY <2>1, <2>2, <2>3 DEF Live
<1>12. Ledger!Redeem(x, y)
  BY <1>6, <1>8, <1>9, <1>10, <1>11 DEF Ledger!Redeem, Live, Void
<1> QED BY <1>7, <1>12 DEF Ledger!LedgerNext

LEMMA LedgerSame ==
  ASSUME UNCHANGED <<code, grant, redeemed>>
  PROVE  Live' = Live /\ Void' = Void
BY DEF Live, Void, CodesOf, TokensOf, Issued, Lapsed, Unrevoked, Revoked

\* What a step does to the rows of codes and grants is one step of the ledger.
LEMMA LedgerSteps ==
  ASSUME AccessInv, [Next]_vars
  PROVE  Ledger!LedgerNext \/ (UNCHANGED redeemed /\ Live' = Live /\ Void' = Void)
<1>1. AccountsInv /\ RowsTyped /\ RotationsLeft /\ SpentOnce /\ ToolsInv
  BY DEF AccessInv
<1>2. CASE UNCHANGED <<code, grant, redeemed>>
  BY <1>2, LedgerSame
<1>3. ASSUME NEW b \in Browsers, Decide(b), ~UNCHANGED <<code, grant, redeemed>>
      PROVE  Ledger!LedgerNext
  <2>1. PICK k \in Codes :
          /\ code[k] = None
          /\ code' = [code EXCEPT ![k] =
               [state |-> "issued", user |-> req[b].session.user,
                scopes |-> approval[req[b].of].scopes]]
    BY <1>3 DEF Decide, IsNext, Unused
  <2>2. PICK new : new = [state |-> "issued", user |-> req[b].session.user,
                          scopes |-> approval[req[b].of].scopes]
    OBVIOUS
  <2>3. new # None /\ new.state = "issued"
    <3>1. code'[k] \in CodeRow \cup {None} /\ code'[k] = new
      BY <1>1, <2>1, <2>2, CodesTyped DEF RowsTyped
    <3>2. /\ req[b].of \in Approvals /\ approval[req[b].of] # None
          /\ req[b].session.user \in Users
      BY <1>1, <1>3, HandlerFits DEF Decide, Checked, RequestFits, SessionFits, Signed
    <3>3. approval[req[b].of].scopes \in SUBSET Scopes
      BY <1>1, <3>2 DEF RowsTyped, Approval
    <3>4. new \in CodeRow
      BY <2>2, <3>2, <3>3 DEF CodeRow
    <3> QED BY <2>2, <3>4, RowsAssumption
  <2> QED BY <1>1, <1>3, <2>1, <2>2, <2>3, CodeGranted DEF Decide, RowsTyped
<1>4. ASSUME Expire
      PROVE  Ledger!LedgerNext \/ (UNCHANGED redeemed /\ Live' = Live /\ Void' = Void)
  <2>1. UNCHANGED redeemed
    BY <1>4 DEF Expire
  <2>2. ASSUME NEW k \in Codes, code[k] # None, code[k].state = "issued",
               code' = [code EXCEPT ![k].state = "expired"], UNCHANGED grant
        PROVE  Ledger!LedgerNext
    <3>1. PICK new : new = [code[k] EXCEPT !.state = "expired"]
      OBVIOUS
    <3>2. new \in CodeRow /\ new.state = "expired"
      BY <1>1, <2>2, <3>1 DEF RowsTyped, CodeRow
    <3>3. new # None /\ k \in Issued /\ code' = [code EXCEPT ![k] = new]
      BY <2>2, <3>1, <3>2, RowsAssumption DEF Issued
    <3> QED BY <1>1, <2>1, <2>2, <3>2, <3>3, CodeLapses DEF RowsTyped
  <2>3. CASE ~UNCHANGED grant
    <3>1. PICK g \in Grants : grant[g] # None /\ \E new \in
            Like(grant[g], grant[g].rotation, grant[g].revoked) : GrantWritten(g, new)
      <4>1. PICK g \in Grants :
              /\ grant[g] # None
              /\ \/ grant' = [grant EXCEPT ![g] = [grant[g] EXCEPT !.access = FALSE]]
                 \/ grant' = [grant EXCEPT ![g] = [grant[g] EXCEPT !.refresh = FALSE]]
        BY <1>4, <2>3 DEF Expire
      <4>2. PICK new : /\ new \in {[grant[g] EXCEPT !.access = FALSE],
                                   [grant[g] EXCEPT !.refresh = FALSE]}
                       /\ GrantWritten(g, new)
        BY <4>1 DEF GrantWritten
      <4>3. grant[g] \in GrantRow /\ 0 \in 0 .. MaxCalls
        BY <1>1, <4>1, PlatformAssumption DEF RowsTyped
      <4>4. new \in Like(grant[g], grant[g].rotation, grant[g].revoked)
        BY <4>2, <4>3, GrantRewritten
      <4> QED BY <4>1, <4>2, <4>4
    <3>2. UNCHANGED code
      BY <1>4, <2>3 DEF Expire
    <3> QED BY <1>1, <2>1, <3>1, <3>2, TokensSame
  <2>4. UNCHANGED <<code, grant>> \/ ~UNCHANGED grant \/ \E k \in Codes :
          /\ code[k] # None /\ code[k].state = "issued"
          /\ code' = [code EXCEPT ![k].state = "expired"] /\ UNCHANGED grant
    BY <1>4 DEF Expire
  <2> QED BY <1>2, <2>1, <2>2, <2>3, <2>4
<1>5. ASSUME NEW b \in Browsers, Revoke(b)
      PROVE  Ledger!LedgerNext \/ (UNCHANGED redeemed /\ Live' = Live /\ Void' = Void)
  <2>1. PICK g \in Grants :
          grant[g] # None /\ grant' = [grant EXCEPT ![g].revoked = TRUE, ![g].refresh = FALSE]
    BY <1>5 DEF Revoke
  <2>2. PICK new : new = [grant[g] EXCEPT !.revoked = TRUE, !.refresh = FALSE]
    OBVIOUS
  <2>3. GrantWritten(g, new)
    BY <1>1, <2>1, <2>2 DEF RowsTyped, GrantWritten
  <2>4. grant[g] \in GrantRow /\ 0 \in 0 .. MaxCalls
    BY <1>1, <2>1, PlatformAssumption DEF RowsTyped
  <2>5. new \in Like(grant[g], grant[g].rotation, TRUE)
    BY <2>2, <2>4, GrantRewritten
  <2>6. UNCHANGED <<code, redeemed>>
    BY <1>5 DEF Revoke
  <2>7. CASE g \in Unrevoked
    BY <1>1, <2>3, <2>5, <2>6, <2>7, TokenRevoked
  <2>8. CASE g \notin Unrevoked
    <3>1. grant[g].revoked = TRUE
      BY <2>1, <2>4, <2>8 DEF Unrevoked, GrantRow
    <3> QED BY <1>1, <2>1, <2>3, <2>5, <2>6, <3>1, TokensSame
  <2> QED BY <2>7, <2>8
<1>6. ASSUME NEW c \in Clients, Exchange(c), ~UNCHANGED <<code, grant, redeemed>>
      PROVE  Ledger!LedgerNext
  <2>1. PICK k : k = call[c].of
    OBVIOUS
  <2>2. PICK g \in Grants :
          /\ grant[g] = None /\ code[k].state = "issued"
          /\ code' = [code EXCEPT ![k].state = "consumed"]
          /\ grant' = [grant EXCEPT ![g] =
               [user |-> code[k].user, scopes |-> code[k].scopes, rotation |-> 0,
                access |-> TRUE, refresh |-> TRUE, revoked |-> FALSE]]
          /\ redeemed' = redeemed \cup {<<"code", k, 0>>}
    BY <1>6, <2>1 DEF Exchange, Consumable, IsNext, Unused
  <2>3. k \in Codes /\ code[k] # None
    BY <1>1, <1>6, <2>1 DEF Exchange, RowsTyped, Calls, CallFits, NoCall
  <2>4. code[k] \in CodeRow
    BY <1>1, <2>3 DEF RowsTyped
  <2>5. PICK new : new = [code[k] EXCEPT !.state = "consumed"]
    OBVIOUS
  <2>6. new \in CodeRow /\ new.state = "consumed"
    BY <2>4, <2>5 DEF CodeRow
  <2>7. PICK row : row = [user |-> code[k].user, scopes |-> code[k].scopes, rotation |-> 0,
                          access |-> TRUE, refresh |-> TRUE, revoked |-> FALSE]
    OBVIOUS
  <2>8. row \in GrantRow /\ row.rotation = 0 /\ ~row.revoked
    BY <2>4, <2>7, PlatformAssumption DEF GrantRow, CodeRow
  <2>9. /\ new # None /\ row # None /\ k \in Issued
        /\ code' = [code EXCEPT ![k] = new] /\ GrantWritten(g, row)
    BY <2>2, <2>3, <2>5, <2>6, <2>7, <2>8, RowsAssumption DEF Issued, GrantWritten
  <2> QED BY <1>1, <2>2, <2>6, <2>8, <2>9, CodeExchanged
<1>7. ASSUME NEW c \in Clients, Refresh(c), ~UNCHANGED <<code, grant, redeemed>>
      PROVE  Ledger!LedgerNext
  <2>1. PICK g : g = call[c].of
    OBVIOUS
  <2>2. /\ call[c].rotation = grant[g].rotation /\ ~grant[g].revoked
        /\ grant' = [grant EXCEPT ![g].rotation = @ + 1, ![g].access = TRUE]
        /\ redeemed' = redeemed \cup {<<"refresh", g, call[c].rotation>>}
        /\ UNCHANGED code
    BY <1>7, <2>1 DEF Refresh, Rotatable
  <2>3. g \in Grants /\ grant[g] # None /\ c \in Refreshing
    BY <1>1, <1>7, <2>1 DEF Refresh, RowsTyped, Calls, CallFits, NoCall, Refreshing
  <2>4. grant[g] \in GrantRow /\ grant[g].rotation \in Nat
    BY <1>1, <2>3 DEF RowsTyped, GrantRow
  <2>5. PICK n : n = grant[g].rotation
    OBVIOUS
  <2>6. PICK next \in 0 .. MaxCalls : next = n + 1
    BY <1>1, <2>3, <2>4, <2>5, RotationBound
  <2>7. PICK row : row = [grant[g] EXCEPT !.rotation = next, !.access = TRUE]
    OBVIOUS
  <2>8. row \in Like(grant[g], n + 1, grant[g].revoked)
    BY <2>4, <2>6, <2>7, GrantRewritten
  <2>9. GrantWritten(g, row) /\ g \in Unrevoked
    BY <1>1, <2>2, <2>3, <2>5, <2>6, <2>7 DEF RowsTyped, GrantWritten, Unrevoked
  <2>10. redeemed' = redeemed \cup {<<"refresh", g, n>>} /\ n + 1 \in 0 .. MaxCalls
    BY <2>2, <2>5, <2>6
  <2> QED BY <1>1, <2>2, <2>5, <2>8, <2>9, <2>10, TokenRotated
<1> QED BY <1>2, <1>3, <1>4, <1>5, <1>6, <1>7, WhoWrites

(* ImplementsCredentialLedger: an authorization code or refresh token is      *)
(* exchanged at most once, for one successor, and never after it ran out or   *)
(* was revoked, however the requests that read it overtake each other.        *)
THEOREM CredentialsRefine == Spec => ImplementsCredentialLedger
<1>1. Init => Ledger!LedgerInit
  <2>1. ASSUME Init PROVE Live \cap redeemed = {}
    <3>1. AccessInv
      BY <2>1, AccessInitially
    <3>2. ASSUME NEW x \in Live, x \in redeemed PROVE FALSE
      <4>1. CASE x \in CodesOf(Issued)
        BY <3>1, <3>2, <4>1 DEF CodesOf, Issued, AccessInv, SpentOnce
      <4>2. CASE x \in TokensOf(Unrevoked)
        <5>1. PICK g \in Unrevoked : x = <<"refresh", g, grant[g].rotation>>
          BY <4>2 DEF TokensOf
        <5>2. grant[g].rotation \in 0 .. MaxCalls
          BY <3>1, <5>1 DEF AccessInv, RowsTyped, GrantRow, Unrevoked
        <5>3. grant[g].rotation < grant[g].rotation
          BY <3>1, <3>2, <5>1, <5>2 DEF AccessInv, SpentOnce, Unrevoked
        <5> QED BY <5>2, <5>3, PlatformAssumption
      <4> QED BY <3>2, <4>1, <4>2 DEF Live
    <3> QED BY <3>2
  <2>2. ASSUME Init PROVE Void = {}
    <3>1. (\E granted, fresh : fresh \in BOOLEAN /\ Connected(granted, fresh)) \/ Unconnected
      BY <2>2 DEF Init, AccessInit
    <3>2. CASE Unconnected
      BY <3>2 DEF Unconnected, Void, CodesOf, TokensOf, Lapsed, Revoked
    <3>3. ASSUME NEW granted, NEW fresh, Connected(granted, fresh) PROVE Void = {}
      <4>1. \A k \in Codes : code[k] # None => code[k].state = "consumed"
        BY <3>3 DEF Connected
      <4>2. \A g \in Grants : grant[g] # None => grant[g].revoked = FALSE
        BY <3>3 DEF Connected
      <4> QED BY <4>1, <4>2 DEF Void, CodesOf, TokensOf, Lapsed, Revoked
    <3> QED BY <3>1, <3>2, <3>3
  <2> QED BY <2>1, <2>2 DEF Ledger!LedgerInit, Live, Void
<1>2. AccessInv /\ [Next]_vars => [Ledger!LedgerNext]_(Ledger!ledger)
  BY LedgerSteps DEF Ledger!ledger, Live, Void
<1> QED BY <1>1, <1>2, AccessStaysInvariant, PTL
        DEF Spec, ImplementsCredentialLedger, Ledger!LedgerSpec
=============================================================================
