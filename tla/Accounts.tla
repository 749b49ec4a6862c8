---------------------------- MODULE Accounts ----------------------------
(***************************************************************************)
(* Users, browser sessions, first-run setup and Projects of the control    *)
(* plane: apps/api/src/{installation,application,auth,routes-auth,         *)
(* routes-users,routes-projects,routes-project-admin,                      *)
(* routes-project-settings}.ts.                                            *)
(*                                                                         *)
(* A handler is accepted by the preHandler hook, reads the database and    *)
(* writes in a later step; the session it works with is the signed cookie  *)
(* it was accepted with. Every browser has one request at a time.          *)
(*                                                                         *)
(* requests bounds the number of requests a behaviour makes.               *)
(***************************************************************************)
EXTENDS Integers, FiniteSets

CONSTANTS Users,       \* e-mail addresses
          Projects,    \* numbers in the order of creation
          Browsers,
          GivenRoles,  \* the roles owners hand out
          MaxRequests, \* the most requests of one behaviour
          None

Roles == {"owner", "admin", "developer", "operator", "viewer"}

ASSUME ConstantsAssumption ==
  /\ Projects \subseteq Nat /\ Projects # {}
  /\ GivenRoles \subseteq Roles
  /\ MaxRequests \in Nat \ {0}
  /\ None \notin Users \cup Projects

VARIABLES user,      \* user[u]: the row, role "none" when there is none
          project,   \* project[p]: absent, active, archived or deleted
          installed, \* whether the Installation row exists
          founders,  \* the users that setup created
          cookie,    \* cookie[b]: the signed session of a browser
          req,       \* req[b]: the request a browser waits for
          requests   \* how many more requests there will be

accountVars == <<user, project, installed, founders, cookie, req, requests>>

-----------------------------------------------------------------------------
(* Rows, sessions and requests. *)

Versions == 0 .. MaxRequests + 1

UserRow == [role : Roles \cup {"none"}, active : BOOLEAN, temporary : BOOLEAN,
            sessionVersion : Versions]

NoUser == [role |-> "none", active |-> FALSE, temporary |-> FALSE, sessionVersion |-> 0]

Session == [user : Users, role : Roles, sessionVersion : Versions,
            project : Projects]

\* An update sets the role, the access or both.
Keep == "keep"
Changes == [role : GivenRoles \cup {Keep}, active : {"yes", "no", Keep}]
             \ {[role |-> Keep, active |-> Keep]}

Operations == {"setup", "create_user", "update_user", "password", "create_project",
               "select", "archive", "delete", "delete_selected", "revoke", "decide"}

\* of is the user, Project or other row the request is about, replacement the
\* Project that is selected instead of a deleted one.
Request(Rows) ==
  [op : Operations, session : Session \cup {None}, checked : BOOLEAN,
   of : Rows \cup {None}, change : Changes \cup {None},
   replacement : Projects \cup {None}]

Exists(u) == user[u].role # "none"
Active(p) == project[p] = "active"
ActiveOwners == {u \in Users : user[u].role = "owner" /\ user[u].active}

Oldest(S) == CHOOSE p \in S : \A q \in S : p <= q

\* The check of the preHandler hook.
ValidSession(s) ==
  /\ user[s.user].active
  /\ user[s.user].sessionVersion = s.sessionVersion
  /\ user[s.user].role = s.role

Idle(b) == req[b] = None
Runs(b, op) == ~Idle(b) /\ req[b].op = op
Unchecked(b, op) == Runs(b, op) /\ ~req[b].checked
Checked(b, op) == Runs(b, op) /\ req[b].checked

NewRequest(op, session) ==
  [op |-> op, session |-> session, checked |-> FALSE, of |-> None,
   change |-> None, replacement |-> None]

Refused(b) == req' = [req EXCEPT ![b] = None]

\* A handler whose reads let it continue with the row it is about.
Passed(b, row) == req' = [req EXCEPT ![b].checked = TRUE, ![b].of = row]

-----------------------------------------------------------------------------
EmptyDatabase ==
  /\ user = [u \in Users |-> NoUser]
  /\ project = [p \in Projects |-> "absent"]
  /\ installed = FALSE
  /\ founders = {}
  /\ cookie = [b \in Browsers |-> None]

(***************************************************************************)
(* An installation with its founder, as the seed script leaves it, or one  *)
(* whose other users have changed their temporary passwords, with whatever *)
(* sessions the browsers hold.                                             *)
(***************************************************************************)
Running(founder, members, active) ==
  /\ \E given \in [members \ {founder} -> GivenRoles] :
       user = [u \in Users |->
         IF u \notin members THEN NoUser
         ELSE [role |-> IF u = founder THEN "owner" ELSE given[u], active |-> TRUE,
               temporary |-> FALSE, sessionVersion |-> IF u = founder THEN 1 ELSE 2]]
  /\ project = [p \in Projects |-> IF p \in active THEN "active" ELSE "absent"]
  /\ installed = TRUE
  /\ founders = {founder}
  /\ \E holder \in [Browsers -> members \cup {None}] :
       cookie = [b \in Browsers |->
         IF holder[b] = None THEN None
         ELSE [user |-> holder[b], role |-> user[holder[b]].role,
               sessionVersion |-> user[holder[b]].sessionVersion,
               project |-> Oldest(active)]]

Seeded == \E u \in Users : Running(u, {u}, {Oldest(Projects)})
Established == \E u \in Users : Running(u, Users, Projects)
Alone == \E u \in Users : Running(u, {u}, Projects)

\* Only owners, one of whom is logged in who did not set the system up.
Supervised ==
  /\ Established
  /\ \A u \in Users : user[u].role = "owner"
  /\ Cardinality({b \in Browsers : cookie[b] # None}) = 1
  /\ \A b \in Browsers : cookie[b] # None => cookie[b].user \notin founders

Starts == {"empty", "seeded", "established", "connected", "tools"}

AccountsInit(start) ==
  /\ \/ start = "empty" /\ EmptyDatabase
     \/ start = "seeded" /\ Seeded
     \/ start = "established" /\ Established
     \/ start = "tools" /\ Supervised
     \/ start = "connected" /\ Alone
  /\ req = [b \in Browsers |-> None]

(***************************************************************************)
(* Setup looks whether there is an installation, hashes the password and   *)
(* creates everything in one transaction, where the key of the             *)
(* Installation row is unique.                                             *)
(***************************************************************************)
SetupCheck(b) ==
  /\ Idle(b) /\ requests > 0
  /\ ~installed /\ \A u \in Users : ~Exists(u)
  /\ req' = [req EXCEPT ![b] = NewRequest("setup", None)]
  /\ requests' = requests - 1
  /\ UNCHANGED <<user, project, installed, founders, cookie>>

(* Mutant: the key of the row is not unique *)
RowNeverTaken == FALSE

RowTaken == installed

SetupCommit(b) ==
  /\ Runs(b, "setup")
  /\ Refused(b)
  /\ IF RowTaken
       THEN UNCHANGED <<user, project, installed, founders, cookie>>
       ELSE \E u \in {v \in Users : ~Exists(v)} :
            \E p \in {q \in Projects : project[q] = "absent"} :
              /\ \A q \in Projects : project[q] = "absent" => p <= q
              /\ user' = [user EXCEPT ![u] =
                   [role |-> "owner", active |-> TRUE, temporary |-> FALSE,
                    sessionVersion |-> 1]]
              /\ project' = [project EXCEPT ![p] = "active"]
              /\ installed' = TRUE
              /\ founders' = founders \cup {u}
              /\ cookie' = [cookie EXCEPT ![b] =
                   [user |-> u, role |-> "owner", sessionVersion |-> 1, project |-> p]]
  /\ UNCHANGED requests

(***************************************************************************)
(* Sessions. A login selects the oldest active Project and is refused      *)
(* without one.                                                            *)
(***************************************************************************)
Login(b, u) ==
  LET active == {p \in Projects : Active(p)}
  IN  /\ Idle(b) /\ requests > 0 /\ cookie[b] = None
      /\ Exists(u) /\ user[u].active /\ active # {}
      /\ cookie' = [cookie EXCEPT ![b] =
           [user |-> u, role |-> user[u].role,
            sessionVersion |-> user[u].sessionVersion, project |-> Oldest(active)]]
      /\ requests' = requests - 1
      /\ UNCHANGED <<user, project, installed, founders, req>>

\* Logout, the end of the eight hours, and a request with an invalid session.
Logout(b) ==
  /\ Idle(b) /\ cookie[b] # None
  /\ cookie' = [cookie EXCEPT ![b] = None]
  /\ UNCHANGED <<user, project, installed, founders, req, requests>>

\* Users with a temporary password may only change it.
Accept(b, op) ==
  /\ Idle(b) /\ requests > 0
  /\ cookie[b] # None /\ ValidSession(cookie[b])
  /\ user[cookie[b].user].temporary => op = "password"
  /\ req' = [req EXCEPT ![b] = NewRequest(op, cookie[b])]
  /\ requests' = requests - 1
  /\ UNCHANGED <<user, project, installed, founders, cookie>>

(***************************************************************************)
(* Users. Creating one is a single insert; an update reads the row and the *)
(* number of active owners before it writes.                               *)
(***************************************************************************)
CreateUser(b) ==
  /\ Unchecked(b, "create_user") /\ req[b].session.role = "owner"
  /\ \E u \in {v \in Users : ~Exists(v)}, r \in GivenRoles :
       user' = [user EXCEPT ![u] =
         [role |-> r, active |-> TRUE, temporary |-> TRUE, sessionVersion |-> 1]]
  /\ Refused(b)
  /\ UNCHANGED <<project, installed, founders, cookie, requests>>

RemovesOwner(u, change) ==
  /\ user[u].role = "owner"
  /\ change.active = "no" \/ change.role \notin {Keep, "owner"}

LastOwner(u, change) == RemovesOwner(u, change) /\ Cardinality(ActiveOwners) <= 1

UpdateRead(b) ==
  /\ Unchecked(b, "update_user") /\ req[b].session.role = "owner"
  /\ \E u \in {v \in Users : Exists(v)}, change \in Changes :
       /\ ~(u = req[b].session.user /\ change.active = "no")
       /\ ~LastOwner(u, change)
       /\ req' = [req EXCEPT ![b].checked = TRUE, ![b].of = u, ![b].change = change]
  /\ UNCHANGED <<user, project, installed, founders, cookie, requests>>

(* Mutant: only a change of the role ends the sessions *)
UpdatedRoleOnly(row, change) ==
  [row EXCEPT !.role = IF change.role = Keep THEN @ ELSE change.role,
              !.active = IF change.active = Keep THEN @ ELSE change.active = "yes",
              !.sessionVersion = IF change.role = Keep THEN @ ELSE @ + 1]

Updated(row, change) ==
  [row EXCEPT !.role = IF change.role = Keep THEN @ ELSE change.role,
              !.active = IF change.active = Keep THEN @ ELSE change.active = "yes",
              !.sessionVersion = @ + 1]

UpdateCommit(b) ==
  /\ Checked(b, "update_user")
  /\ user' = [user EXCEPT ![req[b].of] = Updated(@, req[b].change)]
  /\ Refused(b)
  /\ UNCHANGED <<project, installed, founders, cookie, requests>>

\* The current password was right; hashing the new one takes its time.
PasswordRead(b) ==
  /\ Unchecked(b, "password")
  /\ user[req[b].session.user].active
  /\ Passed(b, req[b].session.user)
  /\ UNCHANGED <<user, project, installed, founders, cookie, requests>>

PasswordCommit(b) ==
  /\ Checked(b, "password")
  /\ user' = [user EXCEPT ![req[b].of].temporary = FALSE,
                          ![req[b].of].sessionVersion = @ + 1]
  /\ cookie' = [cookie EXCEPT ![b] = None]
  /\ Refused(b)
  /\ UNCHANGED <<project, installed, founders, requests>>

(***************************************************************************)
(* Projects. Owners and admins create, archive and delete them; whether a  *)
(* Project still has endpoints, which refuses the delete, is not state of  *)
(* this module.                                                            *)
(***************************************************************************)
MayManageProjects(b) == req[b].session.role \in {"owner", "admin"}

CreateProject(b) ==
  /\ Unchecked(b, "create_project") /\ MayManageProjects(b)
  /\ \E p \in {q \in Projects : project[q] = "absent"} :
       /\ \A q \in Projects : project[q] = "absent" => p <= q
       /\ project' = [project EXCEPT ![p] = "active"]
  /\ Refused(b)
  /\ UNCHANGED <<user, installed, founders, cookie, requests>>

\* The new session repeats what the old one said of the user.
Select(b) ==
  /\ Unchecked(b, "select")
  /\ \E p \in {q \in Projects : Active(q)} :
       cookie' = [cookie EXCEPT ![b] = [req[b].session EXCEPT !.project = p]]
  /\ Refused(b)
  /\ UNCHANGED <<user, project, installed, founders, requests>>

OtherProjectRead(b, op) ==
  /\ Unchecked(b, op) /\ MayManageProjects(b)
  /\ \E p \in {q \in Projects : project[q] \in {"active", "archived"}} :
       /\ p # req[b].session.project
       /\ Passed(b, p)
  /\ UNCHANGED <<user, project, installed, founders, cookie, requests>>

ArchiveRead(b) == OtherProjectRead(b, "archive")
DeleteRead(b) == OtherProjectRead(b, "delete")

\* Updating or deleting a row that is gone fails and undoes the transaction.
ArchiveProject(b) ==
  /\ Checked(b, "archive")
  /\ project' = IF project[req[b].of] = "deleted" THEN project
                ELSE [project EXCEPT ![req[b].of] = "archived"]
  /\ Refused(b)
  /\ UNCHANGED <<user, installed, founders, cookie, requests>>

DeleteProject(b) ==
  /\ Checked(b, "delete")
  /\ project' = [project EXCEPT ![req[b].of] = "deleted"]
  /\ Refused(b)
  /\ UNCHANGED <<user, installed, founders, cookie, requests>>

\* Deleting the selected Project needs another active one, which becomes
\* the selected one.
DeleteSelectedRead(b) ==
  LET others == {p \in Projects : Active(p)} \ {req[b].session.project}
  IN  /\ Unchecked(b, "delete_selected") /\ MayManageProjects(b)
      /\ project[req[b].session.project] # "deleted"
      /\ others # {}
      /\ req' = [req EXCEPT ![b].checked = TRUE, ![b].of = req[b].session.project,
                            ![b].replacement = Oldest(others)]
      /\ UNCHANGED <<user, project, installed, founders, cookie, requests>>

DeleteSelected(b) ==
  /\ Checked(b, "delete_selected")
  /\ IF project[req[b].of] = "deleted"
       THEN UNCHANGED <<project, cookie>>
       ELSE /\ project' = [project EXCEPT ![req[b].of] = "deleted"]
            /\ cookie' = [cookie EXCEPT ![b] =
                 [req[b].session EXCEPT !.project = req[b].replacement]]
  /\ Refused(b)
  /\ UNCHANGED <<user, installed, founders, requests>>

\* A handler that refuses, for its role, a check or a unique key.
RefuseRequest(b) ==
  /\ ~Idle(b) /\ req[b].op # "setup" /\ ~req[b].checked
  /\ Refused(b)
  /\ UNCHANGED <<user, project, installed, founders, cookie, requests>>

-----------------------------------------------------------------------------
AccountOperations == Operations \ {"setup", "revoke", "decide"}

AccountsNext ==
  \E b \in Browsers :
    \/ SetupCheck(b) \/ SetupCommit(b)
    \/ \E u \in Users : Login(b, u)
    \/ Logout(b)
    \/ \E op \in AccountOperations : Accept(b, op)
    \/ CreateUser(b)
    \/ UpdateRead(b) \/ UpdateCommit(b)
    \/ PasswordRead(b) \/ PasswordCommit(b)
    \/ CreateProject(b) \/ Select(b)
    \/ ArchiveRead(b) \/ ArchiveProject(b)
    \/ DeleteRead(b) \/ DeleteProject(b)
    \/ DeleteSelectedRead(b) \/ DeleteSelected(b)
    \/ RefuseRequest(b)

(***************************************************************************)
(* Properties.                                                             *)
(***************************************************************************)

\* The rows, sessions and requests have the values the schema allows.
AccountsTypeOK ==
  /\ user \in [Users -> UserRow]
  /\ project \in [Projects -> {"absent", "active", "archived", "deleted"}]
  /\ installed \in BOOLEAN
  /\ founders \subseteq Users
  /\ cookie \in [Browsers -> Session \cup {None}]
  /\ requests \in 0 .. MaxRequests

\* However many setups pass the check for an installation before one of them
\* commits, one of them founds the installation (installation.ts:25, 48).
OneFounder == Cardinality(founders) <= 1

Sessions ==
  {cookie[b] : b \in {h \in Browsers : cookie[h] # None}}
    \cup {req[b].session : b \in {h \in Browsers : ~Idle(h) /\ req[h].session # None}}

\* When the role or the access of a user changes, no session that exists then,
\* in a browser or in a request that will write it back, is accepted afterwards,
\* not even when the change is taken back later (routes-users.ts:100,
\* application.ts:112).
AuthorityChangeEndsSessions ==
  [][\A s \in Sessions :
       \/ user'[s.user].role # user[s.user].role
       \/ user'[s.user].active # user[s.user].active
       \/ ~ValidSession(s)
       => ~ValidSession(s)']_accountVars
=============================================================================
