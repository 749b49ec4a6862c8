---------------------------- MODULE QueryDrafts ----------------------------
(***************************************************************************)
(* The reviewed database queries of one Project: definitions on a          *)
(* connection, their immutable versions and the grants of Functions.       *)
(* apps/api/src/reviewed-database-routes.ts.                               *)
(***************************************************************************)
EXTENDS FunctionDrafts

CONSTANTS QueryIds

VARIABLES query,       \* query[d]: the SQL of each ReviewedQueryVersion
          off,         \* disabled versions: definition and number
          queryGrants  \* FunctionQueryGrant rows

queryVars == <<query, off, queryGrants>>

\* A definition: connection, environment and query id.
Definitions == Connections \X Environments \X QueryIds
Defined == {d \in Definitions : query[d] # <<>>}

QueryGrant == [fn : Functions, of : Definitions, version : Numbers, enabled : BOOLEAN]

ConnectionEnabled(d) ==
  \E c \in connections : c.name = d[1] /\ c.secret[2] = d[2] /\ c.enabled

QueryRead(r, d, code) ==
  /\ ConnectionEnabled(d)
  /\ Begin(r, "database", [op |-> "query", of |-> d, code |-> code, version |-> 1])
  /\ UNCHANGED <<draftVars, queryVars>>

\* The connection and the latest version are read before the transaction.
QueryVersionRead(r, d, code) ==
  /\ d \in Defined /\ ConnectionEnabled(d)
  /\ Begin(r, "database", [op |-> "query", of |-> d, code |-> code,
                           version |-> Newest(query[d]) + 1])
  /\ UNCHANGED <<draftVars, queryVars>>

\* Unique keys: query ids of a connection, version numbers of a definition.
QueryFits(q) == q.version \notin DOMAIN query[q.of]

CreateQueryVersion(r) ==
  LET q == req[r] IN
  /\ q.op = "query" /\ QueryFits(q)
  /\ query' = [query EXCEPT ![q.of] = With(@, q.version, q.code)]
  /\ End(r)
  /\ UNCHANGED <<draftVars, off, queryGrants>>

QueryFails(r) ==
  /\ Fails(r, "query") /\ ~QueryFits(req[r])
  /\ UNCHANGED <<draftVars, queryVars>>

DisableQueryVersion(d, v) ==
  /\ AtOnce("database") /\ v \in DOMAIN query[d]
  /\ off' = off \cup {<<d, v>>}
  /\ UNCHANGED <<draftVars, query, queryGrants>>

GrantQueryRead(r, f, d, v) ==
  /\ f \in Existing /\ v \in DOMAIN query[d] /\ <<d, v>> \notin off
  /\ ConnectionEnabled(d)
  /\ Begin(r, "database", [op |-> "grant_query", fn |-> f, of |-> d, version |-> v])
  /\ UNCHANGED <<draftVars, queryVars>>

\* One grant of a definition to a Function, moved to the version.
Others(f, d) == {g \in queryGrants : g.fn # f \/ g.of # d}

GrantQuery(r) ==
  LET q == req[r] IN
  /\ q.op = "grant_query"
  /\ queryGrants' = Others(q.fn, q.of) \cup
       {[fn |-> q.fn, of |-> q.of, version |-> q.version, enabled |-> TRUE]}
  /\ End(r)
  /\ UNCHANGED <<draftVars, query, off>>

RevokeQuery(g) ==
  /\ AtOnce("database") /\ g \in queryGrants
  /\ queryGrants' = Others(g.fn, g.of) \cup {[g EXCEPT !.enabled = FALSE]}
  /\ UNCHANGED <<draftVars, query, off>>

\* Some connections may have a query already.
QueryInit ==
  /\ \E there \in {{}, {d \in Definitions : ConnectionEnabled(d)}}, code \in Codes :
       query = [d \in Definitions |-> IF d \in there THEN <<code>> ELSE <<>>]
  /\ off = {} /\ queryGrants = {}

QueryNext ==
  \/ \E r \in Requests :
       \/ \E d \in Definitions, c \in Codes : QueryRead(r, d, c) \/ QueryVersionRead(r, d, c)
       \/ CreateQueryVersion(r) \/ QueryFails(r)
       \/ \E f \in Functions, d \in Definitions, v \in Numbers : GrantQueryRead(r, f, d, v)
       \/ GrantQuery(r)
  \/ \E d \in Definitions, v \in Numbers : DisableQueryVersion(d, v)
  \/ \E g \in queryGrants : RevokeQuery(g)

(* A Function has one grant of a definition, of a version that exists.       *)
QueryTypeOK ==
  /\ queryGrants \subseteq QueryGrant
  /\ \A g \in queryGrants : g.version \in DOMAIN query[g.of]
  /\ \A g, h \in queryGrants : g.fn = h.fn /\ g.of = h.of => g = h
  /\ \A x \in off : x[2] \in DOMAIN query[x[1]]
=============================================================================
