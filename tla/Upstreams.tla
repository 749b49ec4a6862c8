----------------------------- MODULE Upstreams -----------------------------
(***************************************************************************)
(* What a Function's code reaches outside the platform: reviewed database  *)
(* queries and HTTP requests.  apps/runtime/src/reviewed-database.ts,      *)
(* packages/sandbox/src/network.ts.                                        *)
(*                                                                         *)
(* Whether SQL is a safe SELECT and whether values satisfy a schema are    *)
(* choices; a row is its size in bytes, a URL is a model value that the    *)
(* network policy admits or not, after its name has been resolved.         *)
(***************************************************************************)
EXTENDS CapabilityCalls, FiniteSetsExt

CONSTANTS RowSizes,            \* of the rows of the database
          MaxRows, MaxResult,  \* maxRows and maxBytes of a query version
          Radix,               \* of the numbers in a result (10 in the code)
          Urls, Admitted,      \* assertAllowedUrl
          MaxRedirects         \* 3 in the code

ASSUME UpstreamsAssumption ==
  /\ RowSizes \subseteq Nat \ {0} /\ {MaxRows, MaxResult, MaxRedirects} \subseteq Nat
  /\ Admitted \subseteq Urls /\ Radix \in Nat \ {0, 1}

VARIABLES aborted, \* aborted[c]: the invocation's signal
          query,   \* query[c]: the reviewed query under way
          http     \* http[c]: the HTTP request under way

upstreamVars == <<aborted, query, http>>

NoQuery == [op |-> "none", rows |-> <<>>, result |-> <<>>, truncated |-> FALSE, error |-> "none",
            connection |-> "none", transaction |-> FALSE, audits |-> {}, unaudited |-> FALSE]
NoRequest == [op |-> "none", url |-> None, sent |-> <<>>]

QueryBecomes(c, q) == query' = [query EXCEPT ![c] = q]

Abort(c) ==
  /\ "upstreams" \in subject /\ ~aborted[c] /\ aborted' = [aborted EXCEPT ![c] = TRUE]
  /\ UNCHANGED <<query, http, boundVars>>

-----------------------------------------------------------------------------
(* SnapshotReviewedDatabase.query. *)

\* A request, an SQL text or parameters that are not valid.
Refused == [NoQuery EXCEPT !.op = "answered", !.error = "refused"]

\* Disabled, not granted, not a safe SELECT, or bad parameters: nothing is
\* resolved, opened or audited.
Refuse(c) ==
  /\ Makes("upstreams") /\ query[c].op \in {"none", "answered"}
  /\ QueryBecomes(c, Refused)
  /\ UNCHANGED <<aborted, http>>

QueryBegin(c) ==
  /\ Makes("upstreams") /\ query[c].op \in {"none", "answered"}
  /\ QueryBecomes(c, IF aborted[c] THEN Refused ELSE [NoQuery EXCEPT !.op = "resolve"])
  /\ UNCHANGED <<aborted, http>>

Step(c, op) ==
  /\ query[c].op = op
  /\ UNCHANGED <<aborted, http, boundVars>>

Fails(c) == IF aborted[c] THEN "timeout" ELSE "upstream"

\* The Secret of the connection may be gone, or be no connection string.
Resolve(c) ==
  /\ Step(c, "resolve")
  /\ QueryBecomes(c, [query[c] EXCEPT !.op = "connect", !.connection = "opening"])
     \/ QueryBecomes(c, [query[c] EXCEPT !.op = "failing", !.error = "configuration"])

\* An abort does not wait for the connection.
Connect(c) ==
  /\ Step(c, "connect")
  /\ \/ ~aborted[c] /\ QueryBecomes(c, [query[c] EXCEPT !.op = "begin", !.connection = "open"])
     \/ QueryBecomes(c, [query[c] EXCEPT !.op = "end", !.error = Fails(c)])

BeginTransaction(c) ==
  /\ Step(c, "begin")
  /\ \/ QueryBecomes(c, [query[c] EXCEPT !.op = "limit", !.transaction = TRUE])
     \/ QueryBecomes(c, [query[c] EXCEPT !.op = "end", !.error = Fails(c)])

LimitTime(c) ==
  /\ Step(c, "limit")
  /\ \/ QueryBecomes(c, [query[c] EXCEPT !.op = "query"])
     \/ QueryBecomes(c, [query[c] EXCEPT !.op = "undo", !.error = Fails(c)])

\* The database answers one row more than allowed, at most; an abort closes
\* the connection under a query that runs.
RunQuery(c) ==
  /\ Step(c, "query")
  /\ \/ \E n \in 0 .. MaxRows + 1 : \E rows \in [1 .. n -> RowSizes] :
          ~aborted[c] /\ QueryBecomes(c, [query[c] EXCEPT !.op = "rollback", !.rows = rows])
     \/ ~aborted[c] /\ QueryBecomes(c, [query[c] EXCEPT !.op = "undo", !.error = "upstream"])
     \/ aborted[c] /\ \E connection \in {"open", "closed"} :
          QueryBecomes(c, [query[c] EXCEPT !.op = "undo", !.error = "timeout",
                                      !.connection = connection])

Rollback(c) ==
  /\ Step(c, "rollback")
  /\ \/ QueryBecomes(c, [query[c] EXCEPT !.op = "end", !.transaction = FALSE])
     \/ QueryBecomes(c, [query[c] EXCEPT !.op = "undo", !.error = Fails(c)])

\* finally: failures of these two are ignored.
Undo(c) ==
  /\ Step(c, "undo")
  /\ QueryBecomes(c, [query[c] EXCEPT !.op = "end", !.transaction = FALSE])

\* Mutant: a query that failed keeps its connection.
EndOnSuccess(c) ==
  /\ Step(c, "end")
  /\ QueryBecomes(c, IF query[c].error = "none" THEN [query[c] EXCEPT !.op = "cap", !.connection = "closed"]
              ELSE [query[c] EXCEPT !.op = "failing"])

End(c) ==
  /\ Step(c, "end")
  /\ QueryBecomes(c, [query[c] EXCEPT !.op = IF query[c].error = "none" THEN "cap" ELSE "failing",
                               !.connection = "closed"])

\* How long a number is that is not 0.
Digits(n) == Cardinality({k \in 0 .. n : Radix ^ k <= n})

\* The size of a result in JSON, as far as it varies: rows, the commas between
\* them, their number, and "true" or "false".
SizeOf(rows, truncated) ==
  MapThenSumSet(LAMBDA n : rows[n] + (IF n > 1 THEN 1 ELSE 0), DOMAIN rows)
    + Digits(Len(rows)) + (IF truncated THEN 4 ELSE 5)

First(rows, n) == SubSeq(rows, 1, n)

\* One row after the other, up to maxRows, until one does not fit.
CapResult(rows) ==
  LET candidates == Least(Len(rows), MaxRows)
      Fits(n) == SizeOf(First(rows, n), Len(rows) > MaxRows \/ candidates > n) <= MaxResult
      accepted == CHOOSE n \in 0 .. candidates :
                    /\ \A m \in 1 .. n : Fits(m)
                    /\ n = candidates \/ ~Fits(n + 1)
  IN  [rows |-> First(rows, accepted), truncated |-> accepted < Len(rows)]

\* A result that does not satisfy its schema is an error, too.
Cap(c) ==
  LET capped == CapResult(query[c].rows) IN
  /\ Step(c, "cap")
  /\ \/ QueryBecomes(c, [query[c] EXCEPT !.op = "auditing", !.result = capped.rows,
                                  !.truncated = capped.truncated])
     \/ QueryBecomes(c, [query[c] EXCEPT !.op = "failing", !.error = "upstream"])

\* An audit event that cannot be written, although it may be there, turns the
\* success into a failure.
AuditSuccess(c) ==
  LET q == query[c] IN
  /\ Step(c, "auditing")
  /\ \/ QueryBecomes(c, [q EXCEPT !.op = "answered", !.audits = @ \cup {"executed"}])
     \/ \E written \in {{}, {"executed"}} :
          QueryBecomes(c, [q EXCEPT !.op = "failing", !.error = Fails(c), !.audits = @ \cup written])

AuditFailure(c) ==
  LET q == query[c] IN
  /\ Step(c, "failing")
  /\ \/ QueryBecomes(c, [q EXCEPT !.op = "answered", !.audits = @ \cup {"failed"}])
     \/ QueryBecomes(c, [q EXCEPT !.op = "answered", !.unaudited = TRUE])

-----------------------------------------------------------------------------
(* PolicyHttpClient.request. The signal is the invocation's or a timeout of  *)
(* the request's own, which spans its redirects.                             *)

Asks(c, r) == http' = [http EXCEPT ![c] = r]
Concludes(c) == Asks(c, [http[c] EXCEPT !.op = "answered"])

Request(c, url) ==
  /\ Makes("upstreams") /\ http[c].op \in {"none", "answered"}
  /\ Asks(c, [NoRequest EXCEPT !.op = "check", !.url = url])
  /\ UNCHANGED <<aborted, query>>

\* The method is not allowed.
RefuseRequest(c) ==
  /\ Makes("upstreams") /\ http[c].op \in {"none", "answered"}
  /\ Asks(c, [NoRequest EXCEPT !.op = "answered"])
  /\ UNCHANGED <<aborted, query>>

Check(c) ==
  /\ http[c].op = "check"
  /\ \/ http[c].url \in Admitted /\ Asks(c, [http[c] EXCEPT !.op = "send"])
     \/ Concludes(c)
  /\ UNCHANGED <<aborted, query, boundVars>>

\* No request when its TLS setting is not admitted or the signal has fired.
Send(c) ==
  /\ http[c].op = "send"
  /\ \/ Concludes(c)
     \/ ~aborted[c] /\ Asks(c, [http[c] EXCEPT !.op = "wait", !.sent = Append(@, http[c].url)])
  /\ UNCHANGED <<aborted, query, boundVars>>

\* A redirect is checked like the first URL, and repeats method and body.
Redirected(c, url) ==
  /\ http[c].op = "wait" /\ ~aborted[c]
  /\ IF Len(http[c].sent) > MaxRedirects THEN Concludes(c)
     ELSE Asks(c, [http[c] EXCEPT !.op = "check", !.url = url])
  /\ UNCHANGED <<aborted, query, boundVars>>

\* A response, read up to its limit, an error, an abort or a timeout.
Responds(c) ==
  /\ http[c].op = "wait"
  /\ Concludes(c)
  /\ UNCHANGED <<aborted, query, boundVars>>

UpstreamsInit ==
  /\ aborted = [c \in Callers |-> FALSE]
  /\ query = [c \in Callers |-> NoQuery]
  /\ http = [c \in Callers |-> NoRequest]

UpstreamsNext ==
  \E c \in Callers :
    \/ Abort(c) \/ Refuse(c) \/ QueryBegin(c) \/ Resolve(c) \/ Connect(c)
    \/ BeginTransaction(c) \/ LimitTime(c) \/ RunQuery(c) \/ Rollback(c) \/ Undo(c) \/ End(c)
    \/ Cap(c) \/ AuditSuccess(c) \/ AuditFailure(c)
    \/ RefuseRequest(c) \/ Check(c) \/ Send(c) \/ Responds(c)
    \/ \E url \in Urls : Request(c, url) \/ Redirected(c, url)

-----------------------------------------------------------------------------
UpstreamsTypeOK ==
  /\ aborted \in [Callers -> BOOLEAN]
  /\ \A c \in Callers : query[c].connection \in {"none", "opening", "open", "closed"}
                        /\ http[c].url \in Urls \cup {None}

\* The longest result within the limits, which says whether it is all.
Longest(rows, result, truncated) ==
  /\ result = First(rows, Len(result))
  /\ truncated <=> Len(result) < Len(rows)
  /\ Len(result) <= MaxRows
  /\ result # <<>> => SizeOf(result, truncated) <= MaxResult
  /\ Len(result) < Least(Len(rows), MaxRows) =>
       ~ (SizeOf(First(rows, Len(result) + 1), Len(result) + 1 < Len(rows)) <= MaxResult)

(* However a reviewed query ends, its connection is closed and its           *)
(* transaction over; rows are answered only by queries that are audited as   *)
(* executed, errors are audited unless no audit event can be written, and    *)
(* the rows are the longest result within the limits of the query version.   *)
(* An HTTP request, with what it is redirected to, is sent at most           *)
(* MaxRedirects + 1 times, to URLs the policy admits                         *)
(* (reviewed-database.ts, network.ts).                                       *)
UpstreamsAccounted ==
  \A c \in Callers :
    LET q == query[c]  h == http[c] IN
    /\ q.op \in {"cap", "auditing", "failing", "answered"} =>
         q.connection \in {"none", "closed"} /\ ~q.transaction
    /\ q.op = "answered" =>
         CASE q.error = "none" -> q.audits = {"executed"} /\ Longest(q.rows, q.result, q.truncated)
           [] q.error = "refused" -> q.audits = {}
           [] OTHER -> "failed" \in q.audits \/ q.unaudited
    /\ \A n \in DOMAIN h.sent : h.sent[n] \in Admitted
    /\ Len(h.sent) <= MaxRedirects + 1
=============================================================================
