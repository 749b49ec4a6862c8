--------------------------- MODULE EndpointDrafts ---------------------------
(***************************************************************************)
(* The drafts of one runtime endpoint, beside those of FunctionDrafts: its *)
(* tool or route bindings, the authentication policies assigned to it in   *)
(* the order callers are tried against them, manifests and templates.      *)
(* apps/api/src/{routes-bindings,routes-endpoint-auth,routes-auth-         *)
(* policies,routes-endpoints,routes-manifests,routes-libraries-templates,  *)
(* platform-mcp,platform-mcp-policies}.ts.                                 *)
(***************************************************************************)
EXTENDS FunctionDrafts

CONSTANTS Keys,     \* tool names, or methods with paths
          Texts,    \* titles, descriptions, mappings
          Policies  \* authentication policies, by name

ASSUME EndpointAssumption == IsFiniteSet(Keys) /\ IsFiniteSet(Policies)

VARIABLES kind,      \* the endpoint's protocol
          bindings,  \* McpToolBinding or HttpRouteBinding rows
          policy,    \* policy[p]: none, live or deleted
          assigned,  \* assigned[p]: position and row of an EndpointAuthPolicy
          default,   \* defaultAuthPolicyId of the endpoint
          rows       \* rows created so far, the source of row ids

policyVars == <<policy, assigned, default>>
endpointVars == <<kind, bindings, policyVars, rows>>
Ids == 1 .. MaxRequests * (Cardinality(Keys) + Cardinality(Policies)) + 1
Binding == [id : Ids, key : Keys, fn : Functions, text : Texts]
Positions == 0 .. MaxRequests + Cardinality(Policies)

Assigned == DOMAIN assigned
Live == {p \in Policies : policy[p] = "live"}
KeysOf(rowsOf) == {b.key : b \in rowsOf}

LastPosition == CHOOSE n \in {assigned[p].position : p \in Assigned} :
                  \A p \in Assigned : assigned[p].position <= n

\* Mutant: the last position itself.
LastAgain == IF Assigned = {} THEN 0 ELSE LastPosition

NextPosition == IF Assigned = {} THEN 0 ELSE LastPosition + 1

-----------------------------------------------------------------------------
(* Bindings. *)

\* The check for the key is repeated by the unique key.
CreateBinding(f, key, text) ==
  /\ AtOnce("bindings")
  /\ f \in Existing /\ key \notin KeysOf(bindings)
  /\ bindings' = bindings \cup {[id |-> rows + 1, key |-> key, fn |-> f, text |-> text]}
  /\ rows' = rows + 1
  /\ UNCHANGED <<kind, policyVars, draftVars>>

CreateBindingByMcp(f, key, text) == CreateBinding(f, key, text)

DeleteBinding(b) ==
  /\ AtOnce("bindings")
  /\ bindings' = bindings \ {b}
  /\ UNCHANGED <<kind, policyVars, rows, draftVars>>

Free(key, id, table) == ~ \E b \in table : b.key = key /\ b.id # id

BindingRead(r, op, b, field, value) ==
  LET candidate == [b EXCEPT ![field] = value] IN
  /\ candidate.fn \in Existing
  /\ Free(candidate.key, b.id, bindings)
  /\ Begin(r, "bindings", [op |-> op, read |-> b, field |-> field,
                           value |-> value, candidate |-> candidate])
  /\ UNCHANGED <<endpointVars, draftVars>>

PatchBindingRead(r, b, field, value) == BindingRead(r, "patch_binding", b, field, value)
EditBindingRead(r, b, field, value) == BindingRead(r, "edit_binding", b, field, value)

\* PATCH writes the field it was given, binding_edit the candidate it checked.
\* Mutant: both write the candidate.
RewrittenWhole(q, b) == q.candidate

Rewritten(q, b) ==
  IF q.op = "patch_binding" THEN [b EXCEPT ![q.field] = q.value] ELSE q.candidate

Written(q) == {b \in bindings : b.id = q.read.id}

BindingFits(q) == \E b \in Written(q) : Free(Rewritten(q, b).key, b.id, bindings)

WriteBinding(r) ==
  LET q == req[r] IN
  /\ q.op \in {"patch_binding", "edit_binding"} /\ BindingFits(q)
  /\ bindings' = (bindings \ Written(q)) \cup {Rewritten(q, b) : b \in Written(q)}
  /\ End(r)
  /\ UNCHANGED <<kind, policyVars, rows, draftVars>>

BindingFails(r) ==
  /\ \E op \in {"patch_binding", "edit_binding"} : Fails(r, op)
  /\ ~BindingFits(req[r])
  /\ UNCHANGED <<endpointVars, draftVars>>

\* desired[key] is the Function of every binding the manifest names.
ManifestRead(r, desired, p) ==
  /\ \A key \in DOMAIN desired : desired[key] \in Existing
  /\ p \in Live \cup {None}
  /\ Begin(r, "bindings", [op |-> "manifest", desired |-> desired, default |-> p,
                           read |-> bindings])
  /\ UNCHANGED <<endpointVars, draftVars>>

\* Tools go by the names in the table now, routes by the rows that were read.
Undesired(q) ==
  IF kind = "mcp" THEN {b \in bindings : b.key \notin DOMAIN q.desired}
  ELSE {b \in bindings : \E old \in q.read : old.id = b.id /\ old.key \notin DOMAIN q.desired}

ManifestFits(q) == q.default \in Live \cup {None}

\* The bindings a manifest adds are numbered by ids.
ApplyManifest(r, text, ids) ==
  LET q == req[r]
      kept == bindings \ Undesired(q)
      added == DOMAIN q.desired \ KeysOf(kept)
  IN
  /\ q.op = "manifest" /\ ManifestFits(q)
  /\ ids \in [added -> rows + 1 .. rows + Cardinality(added)]
  /\ \A j, k \in added : ids[j] = ids[k] => j = k
  /\ bindings' =
       {IF b.key \in DOMAIN q.desired
          THEN [b EXCEPT !.fn = q.desired[b.key], !.text = text] ELSE b : b \in kept}
         \cup {[id |-> ids[key], key |-> key, fn |-> q.desired[key], text |-> text] :
                 key \in added}
  /\ rows' = rows + Cardinality(added)
  /\ default' = q.default
  /\ End(r)
  /\ UNCHANGED <<kind, policy, assigned, draftVars>>

ManifestFails(r) ==
  /\ Fails(r, "manifest") /\ ~ManifestFits(req[r])
  /\ UNCHANGED <<endpointVars, draftVars>>

\* A template brings a Function, its grants, a binding and for a webhook the
\* endpoint's policy.
TemplateRead(r, f, granted, key, p) ==
  /\ f \notin Existing /\ granted \subseteq Named /\ p \in Live \cup {None}
  /\ Begin(r, "bindings", [op |-> "template", of |-> f, granted |-> granted,
                           key |-> key, default |-> p])
  /\ UNCHANGED <<endpointVars, draftVars>>

TemplateFits(q) ==
  /\ q.of \notin Existing /\ q.granted \subseteq Named
  /\ q.key \notin KeysOf(bindings)
  /\ q.default \in Live \cup {None}

InstallTemplate(r, code, text) ==
  LET q == req[r] IN
  /\ q.op = "template" /\ TemplateFits(q)
  /\ Insert(q.of, code)
  /\ grants' = grants \cup {q.of} \X q.granted
  /\ bindings' = bindings \cup
       {[id |-> rows + 1, key |-> q.key, fn |-> q.of, text |-> text]}
  /\ rows' = rows + 1
  /\ default' = IF q.default = None THEN default ELSE q.default
  /\ End(r)
  /\ UNCHANGED <<kind, policy, assigned, library, secrets, connections>>

TemplateFails(r) ==
  /\ Fails(r, "template") /\ ~TemplateFits(req[r])
  /\ UNCHANGED <<endpointVars, draftVars>>

-----------------------------------------------------------------------------
(* Authentication policies. *)

CreatePolicy(p) ==
  /\ AtOnce("policies") /\ policy[p] = "none"
  /\ policy' = [policy EXCEPT ![p] = "live"]
  /\ UNCHANGED <<kind, bindings, assigned, default, rows, draftVars>>

CreatePolicyByMcp(p) == CreatePolicy(p)

\* No assignment has it, and for the platform tool no endpoint's default.
DeletePolicyRead(r, p) ==
  /\ p \in Live \ Assigned
  /\ Begin(r, "policies", [op |-> "delete_policy", of |-> p])
  /\ UNCHANGED <<endpointVars, draftVars>>

DeletePolicyReadByMcp(r, p) == p # default /\ DeletePolicyRead(r, p)

Restricted(table, left) == [p \in left |-> table[p]]

\* The assignment goes with it, the endpoint's default becomes null.
DeletePolicy(r) ==
  LET p == req[r].of IN
  /\ req[r].op = "delete_policy"
  /\ policy' = [policy EXCEPT ![p] = "deleted"]
  /\ assigned' = Restricted(assigned, Assigned \ {p})
  /\ default' = IF default = p THEN None ELSE default
  /\ End(r)
  /\ UNCHANGED <<kind, bindings, rows, draftVars>>

Appended(p, position) ==
  [x \in Assigned \cup {p} |->
     IF x = p THEN [position |-> position, row |-> rows + 1] ELSE assigned[x]]

\* A policy created for the endpoint: the endpoint is read, then in one
\* transaction the last position, then the rows are written.
AddPolicyRead(r, p) ==
  /\ policy[p] = "none"
  /\ Begin(r, "policies", [op |-> "add_policy", of |-> p, default |-> default])
  /\ UNCHANGED <<endpointVars, draftVars>>

AddPolicyCount(r) ==
  /\ req[r].op = "add_policy"
  /\ req' = [req EXCEPT ![r] = [op |-> "insert_policy", of |-> @.of, default |-> @.default,
                                position |-> NextPosition]]
  /\ UNCHANGED <<area, started, endpointVars, draftVars>>

AddPolicy(r) ==
  LET q == req[r] IN
  /\ q.op = "insert_policy" /\ policy[q.of] = "none"
  /\ policy' = [policy EXCEPT ![q.of] = "live"]
  /\ assigned' = Appended(q.of, q.position)
  /\ default' = IF q.default = None THEN q.of ELSE default
  /\ rows' = rows + 1
  /\ End(r)
  /\ UNCHANGED <<kind, bindings, draftVars>>

AddPolicyFails(r) ==
  /\ Fails(r, "insert_policy") /\ policy[req[r].of] # "none"
  /\ UNCHANGED <<endpointVars, draftVars>>

\* An existing policy goes behind the others; the default stays what it is.
AssignRead(r, p) ==
  /\ p \in Live \ Assigned
  /\ Begin(r, "policies", [op |-> "assign", of |-> p, position |-> NextPosition])
  /\ UNCHANGED <<endpointVars, draftVars>>

AssignFits(q) == q.of \in Live \ Assigned

Assign(r) ==
  LET q == req[r] IN
  /\ q.op = "assign" /\ AssignFits(q)
  /\ assigned' = Appended(q.of, q.position)
  /\ rows' = rows + 1
  /\ End(r)
  /\ UNCHANGED <<kind, bindings, policy, default, draftVars>>

AssignFails(r) ==
  /\ Fails(r, "assign") /\ ~AssignFits(req[r])
  /\ UNCHANGED <<endpointVars, draftVars>>

\* Ways to number some policies from 0 on without passing over a lower number.
Numberings(ps, position) ==
  {n \in [ps -> 0 .. Cardinality(ps) - 1] :
     \A p, q \in ps : p # q => n[p] # n[q] /\ (position[p] < position[q] => n[p] < n[q])}

First(order) == IF \E p \in DOMAIN order : order[p] = 0
                THEN CHOOSE p \in DOMAIN order : order[p] = 0 ELSE None

\* order numbers every policy that is assigned.
ReorderRead(r, order) ==
  /\ Assigned # {} /\ order \in Numberings(Assigned, [p \in Assigned |-> 0])
  /\ Begin(r, "policies", [op |-> "reorder", order |-> order])
  /\ UNCHANGED <<endpointVars, draftVars>>

ReorderFits(q) == DOMAIN q.order \subseteq Assigned

Reorder(r) ==
  LET q == req[r] IN
  /\ q.op = "reorder" /\ ReorderFits(q)
  /\ assigned' = [p \in Assigned |->
                    IF p \in DOMAIN q.order
                      THEN [assigned[p] EXCEPT !.position = q.order[p]] ELSE assigned[p]]
  /\ default' = First(q.order)
  /\ End(r)
  /\ UNCHANGED <<kind, bindings, policy, rows, draftVars>>

ReorderFails(r) ==
  /\ Fails(r, "reorder") /\ ~ReorderFits(req[r])
  /\ UNCHANGED <<endpointVars, draftVars>>

RemoveRead(r, p) ==
  /\ p \in Assigned
  /\ Begin(r, "policies", [op |-> "remove", of |-> p, row |-> assigned[p].row])
  /\ UNCHANGED <<endpointVars, draftVars>>

RemoveFits(q) == q.of \in Assigned /\ assigned[q.of].row = q.row

\* Those that remain are numbered anew in their order; equals in either order.
Remove(r, order) ==
  LET q == req[r]
      left == Assigned \ {q.of}
  IN
  /\ q.op = "remove" /\ RemoveFits(q)
  /\ order \in Numberings(left, [p \in left |-> assigned[p].position])
  /\ assigned' = [p \in left |-> [assigned[p] EXCEPT !.position = order[p]]]
  /\ default' = First(order)
  /\ End(r)
  /\ UNCHANGED <<kind, bindings, policy, rows, draftVars>>

RemoveFails(r) ==
  /\ Fails(r, "remove") /\ ~RemoveFits(req[r])
  /\ UNCHANGED <<endpointVars, draftVars>>

\* endpoint_auth_assign replaces every assignment.
ReplaceRead(r, ps, order) ==
  /\ ps \subseteq Live /\ order \in Numberings(ps, [p \in ps |-> 0])
  /\ Begin(r, "policies", [op |-> "replace", order |-> order])
  /\ UNCHANGED <<endpointVars, draftVars>>

ReplaceFits(q) == DOMAIN q.order \subseteq Live

Replace(r) ==
  LET q == req[r] IN
  /\ q.op = "replace" /\ ReplaceFits(q)
  /\ assigned' = [p \in DOMAIN q.order |->
                    [position |-> q.order[p], row |-> rows + 1 + q.order[p]]]
  /\ default' = First(q.order)
  /\ rows' = rows + Cardinality(DOMAIN q.order)
  /\ End(r)
  /\ UNCHANGED <<kind, bindings, policy, draftVars>>

ReplaceFails(r) ==
  /\ Fails(r, "replace") /\ ~ReplaceFits(req[r])
  /\ UNCHANGED <<endpointVars, draftVars>>

-----------------------------------------------------------------------------
\* The endpoint was created with the oldest policy as its default and only
\* assignment when there was one. The other areas' requests see none of this.
EndpointInit ==
  /\ kind \in {"mcp", "http"}
  /\ "bindings" \notin area => kind = "mcp"
  /\ bindings = {}
  /\ \E live \in SUBSET (IF "policies" \in area THEN Policies ELSE {}) :
       /\ policy = [p \in Policies |-> IF p \in live THEN "live" ELSE "none"]
       /\ default \in (IF live = {} THEN {None} ELSE live)
  /\ assigned = [p \in {default} \ {None} |-> [position |-> 0, row |-> 1]]
  /\ rows = 1

BindingsNext ==
  \/ \E f \in Functions, key \in Keys, text \in Texts :
       CreateBinding(f, key, text) \/ CreateBindingByMcp(f, key, text)
  \/ \E b \in bindings : DeleteBinding(b)
  \/ \E r \in Requests :
       \/ \E b \in bindings, v \in Functions \cup Keys \cup Texts, field \in {"key", "fn", "text"} :
            /\ v \in (CASE field = "key" -> Keys [] field = "fn" -> Functions [] OTHER -> Texts)
            /\ PatchBindingRead(r, b, field, v) \/ EditBindingRead(r, b, field, v)
       \/ WriteBinding(r) \/ BindingFails(r)
       \/ \E ks \in SUBSET Keys : \E d \in [ks -> Functions], p \in Policies \cup {None} :
            ManifestRead(r, d, p)
       \/ \E text \in Texts, ks \in SUBSET Keys : \E ids \in [ks -> rows + 1 .. rows + Cardinality(ks)] :
            ApplyManifest(r, text, ids)
       \/ ManifestFails(r)
       \/ \E f \in Functions, g \in SUBSET Named, key \in Keys, p \in Policies \cup {None} :
            TemplateRead(r, f, g, key, p)
       \/ \E code \in Codes, text \in Texts : InstallTemplate(r, code, text)
       \/ TemplateFails(r)

Positionings == UNION {[ps -> 0 .. Cardinality(ps) - 1] : ps \in SUBSET Policies}

PoliciesNext ==
  \/ \E p \in Policies : CreatePolicy(p) \/ CreatePolicyByMcp(p)
  \/ \E r \in Requests :
       \/ \E p \in Policies : \/ DeletePolicyRead(r, p) \/ DeletePolicyReadByMcp(r, p)
                              \/ AddPolicyRead(r, p) \/ AssignRead(r, p) \/ RemoveRead(r, p)
       \/ DeletePolicy(r) \/ AddPolicyCount(r) \/ AddPolicy(r) \/ AddPolicyFails(r)
       \/ Assign(r) \/ AssignFails(r) \/ RemoveFails(r)
       \/ \E order \in Positionings : \/ ReorderRead(r, order) \/ Remove(r, order)
                                      \/ ReplaceRead(r, DOMAIN order, order)
       \/ Reorder(r) \/ ReorderFails(r) \/ Replace(r) \/ ReplaceFails(r)

EndpointNext == BindingsNext \/ PoliciesNext

(* The keys of bindings are unique, and only live policies are assigned     *)
(* (schema.prisma).                                                         *)
EndpointTypeOK ==
  /\ bindings \subseteq Binding
  /\ \A b, c \in bindings : b.id = c.id \/ b.key = c.key => b = c
  /\ Assigned \subseteq Live /\ default \in Live \cup {None}
  /\ \A p \in Assigned : assigned[p].position \in Positions
=============================================================================
