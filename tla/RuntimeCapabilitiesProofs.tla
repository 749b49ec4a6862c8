----------------------- MODULE RuntimeCapabilitiesProofs -----------------------
(* Theorems about what a runtime gives the code of a Function: the sandbox    *)
(* that contains it, its entries in storage and cache, the answers of its     *)
(* upstreams, the history of its records and what pruning leaves of its log.  *)
EXTENDS RuntimeCapabilities, FiniteSetTheorems, WellFoundedInduction, TLAPS

-----------------------------------------------------------------------------
(* The sandbox.  A cancellation that the executor has sent is unread in the *)
(* channel or remembered by the runner, which never runs code on a live     *)
(* signal once it remembers one; and a container that may still be created  *)
(* after its removal is never started, for its client is dead.              *)
Message == [type : {"execute", "cancel"}] \cup [type : {"answer"}, id : 1 .. MaxRpcs]

CancelUnread(channel) == \E n \in DOMAIN channel : channel[n].type = "cancel"

HostAndClient ==
  /\ host \in {"idle", "files", "running", "cleaning", "awaiting", "removing", "done", "failed"}
  /\ client = "none" <=> host \in {"idle", "files", "failed"}
  /\ client = "up" <=> host = "running"
  /\ client = "dead" <=> host \in {"cleaning", "awaiting", "removing", "done"}
  /\ host = "failed" => faulty
  /\ host = "done" => files = {}

LocalChild ==
  Local => /\ box = "none" /\ docker = {} /\ host \notin {"cleaning", "awaiting"}
           /\ client = "dead" => code = "ended"

Container ==
  /\ host \in {"idle", "files", "failed"} => docker = {}
  /\ client = "none" => box = "none" /\ code = "none"
  /\ "create" \in docker => box = "none" /\ "start" \notin docker
  /\ "start" \in docker => box \in {"created", "running", "gone"}
  /\ host \in {"removing", "done"} /\ ~faulty /\ ~Local =>
       box # "running" /\ (box = "created" => "start" \notin docker)

CancelKept ==
  /\ toCode \in Seq(Message)
  /\ pending \in BOOLEAN /\ signal \in {"none", "live", "aborted"}
  /\ host \in {"idle", "files"} => ~cancelled
  /\ Running /\ cancelled => pending \/ CancelUnread(toCode)
  /\ pending => signal # "live"
  /\ code = "executing" => signal # "none"

SandboxInv == HostAndClient /\ LocalChild /\ Container /\ CancelKept

-----------------------------------------------------------------------------
(* Upstreams.  What a query holds in each of its steps: its connection, its *)
(* transaction, its error and its audit events.                             *)
Errors == {"configuration", "timeout", "upstream"}

QueryRecord ==
  [op : {"none", "resolve", "connect", "begin", "limit", "query", "rollback", "undo", "end",
         "cap", "auditing", "failing", "answered"},
   rows : Seq(Nat), result : Seq(Nat), truncated : BOOLEAN,
   error : {"none", "refused"} \cup Errors,
   connection : {"none", "opening", "open", "closed"}, transaction : BOOLEAN,
   audits : SUBSET {"executed", "failed"}, unaudited : BOOLEAN]

QueryStage(q) ==
  \/ q.op \in {"none", "resolve"} /\ q.error = "none" /\ q.connection = "none" /\ ~q.transaction
     /\ q.audits = {}
  \/ q.op \in {"connect", "begin"} /\ q.error = "none" /\ ~q.transaction /\ q.audits = {}
  \/ q.op \in {"limit", "query", "rollback"} /\ q.error = "none" /\ q.audits = {}
  \/ q.op = "undo" /\ q.error \in Errors /\ q.audits = {}
  \/ q.op = "end" /\ q.error \in Errors \cup {"none"} /\ ~q.transaction /\ q.audits = {}
  \/ /\ q.op \in {"cap", "auditing", "failing", "answered"}
     /\ q.connection \in {"none", "closed"} /\ ~q.transaction
     /\ q.op = "cap" => q.error = "none" /\ q.audits = {}
     /\ q.op = "auditing" => /\ q.error = "none" /\ q.audits = {}
                             /\ Longest(q.rows, q.result, q.truncated)
     /\ q.op = "failing" => q.error \in Errors
     /\ q.op = "answered" =>
          \/ q.error = "none" /\ q.audits = {"executed"} /\ Longest(q.rows, q.result, q.truncated)
          \/ q.error = "refused" /\ q.audits = {}
          \/ q.error \in Errors /\ ("failed" \in q.audits \/ q.unaudited)

HttpStage(h) ==
  /\ h \in [op : {"none", "check", "send", "wait", "answered"}, url : Urls \cup {None},
            sent : Seq(Admitted)]
  /\ Len(h.sent) <= MaxRedirects + 1
  /\ h.op \in {"check", "send"} => Len(h.sent) <= MaxRedirects
  /\ h.op = "send" => h.url \in Admitted

UpstreamsInv ==
  /\ query = [c \in Callers |-> query[c]] /\ http = [c \in Callers |-> http[c]]
  /\ \A c \in Callers :
       query[c] \in QueryRecord /\ QueryStage(query[c]) /\ HttpStage(http[c])

-----------------------------------------------------------------------------
(* Storage and cache.  An entry holds what the last set of its key asked    *)
(* for; the ids that deletions have found are never given again, for each   *)
(* call that may create an entry carries a number of its own.               *)
Ask == [ttl : Ttls \cup {None}, value : Contents, at : Nat, id : Nat]

Creating(q) == q.op \in {"namespace", "run"}

Found(q) == CASE q.op = "delete" -> q.ids [] q.op = "answered" -> q.due [] OTHER -> {}

Operation(q) ==
  \/ q = Quiet
  \/ /\ Creating(q)
     /\ q = [do |-> q.do, op |-> q.op, at |-> q.at]
     /\ q.do \in StorageOps /\ q.at \in Nat
  \/ q.op = "delete" /\ q = [op |-> "delete", ids |-> q.ids, keys |-> q.keys, strict |-> q.strict]
  \/ q.op = "answered" /\ q = Answered(q.due, q.answer)
  \/ /\ q.op = "produce"
     /\ q = [op |-> "produce", key |-> q.key, value |-> q.value, ttl |-> q.ttl]
     /\ q.key \in Keys /\ q.value \in Contents /\ q.ttl \in Ttls
  \/ q.op = "purge" /\ q = [op |-> "purge", keys |-> q.keys]

AskedFor ==
  /\ now \in Nat
  /\ asked \in [{"storage", "cache"} -> [Keys -> Ask \cup {None}]]
  /\ Stored = {k \in Keys : asked["storage"][k] # None}
  /\ \A k \in Stored : LET a == asked["storage"][k] IN
       /\ entries[k] = [id |-> a.id, value |-> a.value,
                        expires |-> IF a.ttl \in {None, 0} THEN None ELSE a.at + a.ttl]
  /\ Cached = {k \in Keys : Due("cache", k)}
  /\ \A k \in Cached : LET a == asked["cache"][k] IN cache[k].expires = a.at + Ttl(a.ttl)

IdsSpent ==
  /\ calls \in Nat
  /\ kv = [c \in Callers |-> kv[c]]
  /\ \A c \in Callers : Operation(kv[c]) /\ (Creating(kv[c]) => kv[c].at <= calls)
  /\ \A c, d \in Callers : Creating(kv[c]) /\ Creating(kv[d]) /\ c # d => kv[c].at # kv[d].at
  /\ \A k \in Stored : /\ entries[k].id \in Nat /\ entries[k].id <= calls
                       /\ \A c \in Callers : Creating(kv[c]) => kv[c].at # entries[k].id
  /\ \A c \in Callers : \A n \in Found(kv[c]) :
       /\ n \in Nat /\ n <= calls
       /\ \A d \in Callers : Creating(kv[d]) => kv[d].at # n
  /\ \A c \in Callers : kv[c].op = "answered" => \A k \in Stored : entries[k].id \notin kv[c].due

StorageInv == AskedFor /\ IdsSpent

-----------------------------------------------------------------------------
(* Records.  A record's revision is the number of values it has had, and    *)
(* nobody has been shown more of them than there are.                       *)
Row(row) == row = [value |-> row.value, revision |-> row.revision, version |-> row.version,
                   createdAt |-> row.createdAt]

RecordsInv ==
  /\ log \in [Ids -> Seq(Field)]
  /\ Existing \subseteq {i \in Ids : log[i] # <<>>}
  /\ \A i \in Existing : /\ Row(records[i])
                         /\ records[i].revision = Len(log[i])
  /\ shown \in [Callers -> [Ids -> Nat]]

-----------------------------------------------------------------------------
(* Pages of records.  A scan has returned, once, the steady records that    *)
(* are not past its cursor, and none of those that are.                     *)
OrderItem == [field : {"value", "createdAt", "id"}, direction : {"asc", "desc"}]
SortedRow == [id : Nat, value : Field, createdAt : Nat]

ScanRecord(s) ==
  s = [state |-> s.state, order |-> s.order, limit |-> s.limit, cursor |-> s.cursor,
       found |-> s.found, steady |-> s.steady]

Table == [i \in Existing |-> RowOf(i)]

Ahead(s, row) == s.cursor = None \/ PastCursor(s.order, row, s.cursor)

ScanStage(s, table) ==
  \/ s = NoScan
  \/ /\ s.state \in {"paging", "done"} /\ ScanRecord(s)
     /\ s.order \in Seq(OrderItem) /\ s.limit \in Nat \ {0} /\ s.found \in [Ids -> Nat]
     /\ s.steady \subseteq DOMAIN table
     /\ s.cursor = None \/ \E row \in SortedRow : s.cursor = CursorAfter(s.order, row)
     /\ \A i \in s.steady :
          s.found[i] = IF s.state = "paging" /\ Ahead(s, table[i]) THEN 0 ELSE 1

PagesInv ==
  /\ calls \in Nat /\ Existing \subseteq Ids
  /\ \A i \in Existing : RowOf(i) \in SortedRow
  /\ scan = [c \in Callers |-> scan[c]]
  /\ \A c \in Callers : ScanStage(scan[c], Table)

-----------------------------------------------------------------------------
(* Pages of the log.  A row is determined by its id; a listing has shown,   *)
(* once, the steady rows from its cursor on.                                *)
LogRow == {[id |-> n, bytes |-> Bytes[n]] : n \in 1 .. MaxEvents}

Logging(r) == r = Quiet \/ /\ {"said", "streamed"} \subseteq DOMAIN r
                           /\ r.said \in Seq(LogRow) /\ r.streamed \in Nat

ListingStage(s, rows) ==
  \/ s = NoListing
  \/ /\ s.state \in {"paging", "done"}
     /\ s = [state |-> s.state, limit |-> s.limit, cursor |-> s.cursor, found |-> s.found,
             steady |-> s.steady, cut |-> s.cut]
     /\ s.limit \in Nat \ {0} /\ s.cursor \in Nat /\ s.found \in [1 .. MaxEvents -> Nat]
     /\ s.steady \subseteq rows
     /\ s.state = "paging" =>
          \A row \in s.steady :
            s.found[row.id] = IF s.cursor # 0 /\ row.id >= s.cursor THEN 1 ELSE 0
     /\ s.state = "done" =>
          \A row \in s.steady : s.found[row.id] <= 1 /\ (~s.cut => s.found[row.id] = 1)

ListingsInv ==
  /\ events \in Nat /\ logs \subseteq LogRow
  /\ run = [c \in Callers |-> run[c]] /\ \A c \in Callers : Logging(run[c])
  /\ listing = [c \in Callers |-> listing[c]] /\ \A c \in Callers : ListingStage(listing[c], logs)

-----------------------------------------------------------------------------
(* Channels.                                                                 *)
LEMMA CancelSent ==
  ASSUME NEW s \in Seq(Message), NEW t \in Seq(Message)
  PROVE  /\ CancelUnread(s) => CancelUnread(s \o t)
         /\ CancelUnread(t) => CancelUnread(s \o t)
  <1>1. /\ \A n \in 1 .. Len(s) : (s \o t)[n] = s[n]
        /\ \A n \in 1 .. Len(t) : (s \o t)[Len(s) + n] = t[n]
        /\ DOMAIN s = 1 .. Len(s) /\ DOMAIN t = 1 .. Len(t) /\ Len(s) \in Nat /\ Len(t) \in Nat
        /\ DOMAIN (s \o t) = 1 .. Len(s) + Len(t)
    OBVIOUS
  <1>2. ASSUME CancelUnread(s) PROVE CancelUnread(s \o t)
    <2>1. PICK n \in 1 .. Len(s) : s[n].type = "cancel"
      BY <1>1, <1>2 DEF CancelUnread
    <2>2. n \in 1 .. Len(s) + Len(t) /\ (s \o t)[n].type = "cancel"
      BY <1>1, <2>1
    <2> QED  BY <1>1, <2>2 DEF CancelUnread
  <1>3. ASSUME CancelUnread(t) PROVE CancelUnread(s \o t)
    <2>1. PICK n \in 1 .. Len(t) : t[n].type = "cancel"
      BY <1>1, <1>3 DEF CancelUnread
    <2>2. Len(s) + n \in 1 .. Len(s) + Len(t) /\ (s \o t)[Len(s) + n].type = "cancel"
      BY <1>1, <2>1
    <2> QED  BY <1>1, <2>2 DEF CancelUnread
  <1> QED  BY <1>2, <1>3

LEMMA CancelReadOrKept ==
  ASSUME NEW s \in Seq(Message), s # <<>>
  PROVE  /\ Head(s) \in Message /\ Tail(s) \in Seq(Message)
         /\ CancelUnread(s) => Head(s).type = "cancel" \/ CancelUnread(Tail(s))
  <1>1. /\ Head(s) = s[1] /\ Head(s) \in Message /\ Tail(s) \in Seq(Message)
        /\ DOMAIN s = 1 .. Len(s) /\ DOMAIN Tail(s) = 1 .. Len(s) - 1 /\ Len(s) \in Nat
        /\ \A n \in 1 .. Len(s) - 1 : Tail(s)[n] = s[n + 1]
    OBVIOUS
  <1>2. ASSUME CancelUnread(s), Head(s).type # "cancel" PROVE CancelUnread(Tail(s))
    <2>1. PICK n \in 1 .. Len(s) : s[n].type = "cancel"
      BY <1>1, <1>2 DEF CancelUnread
    <2>2. n # 1
      BY <1>1, <1>2, <2>1
    <2>3. n - 1 \in 1 .. Len(s) - 1 /\ Tail(s)[n - 1].type = "cancel"
      <3>1. n - 1 \in 1 .. Len(s) - 1 /\ (n - 1) + 1 = n
        BY <2>1, <2>2, <1>1
      <3>2. Tail(s)[n - 1] = s[(n - 1) + 1]
        BY <3>1, <1>1, Zenon
      <3> QED  BY <3>1, <3>2, <2>1
    <2> QED  BY <1>1, <2>3 DEF CancelUnread
  <1> QED  BY <1>1, <1>2

LEMMA SandboxInit0 == SandboxInit => SandboxInv
  <1> SUFFICES ASSUME SandboxInit PROVE SandboxInv
    OBVIOUS
  <1>1. HostAndClient
    BY DEF SandboxInit, HostAndClient
  <1>2. LocalChild
    BY DEF SandboxInit, LocalChild
  <1>3. Container
    BY DEF SandboxInit, Container
  <1>4. CancelKept
    <2>1. toCode \in Seq(Message)
      BY DEF SandboxInit
    <2>2. pending = FALSE /\ signal = "none" /\ code = "none" /\ host = "idle" /\ ~cancelled
      BY DEF SandboxInit
    <2> QED  BY <2>1, <2>2, Zenon DEF CancelKept, Running
  <1> QED  BY <1>1, <1>2, <1>3, <1>4 DEF SandboxInv

\* Steps that leave the messages to the code alone, and what the runner has
\* made of those it has read.
LEMMA CancelKeptQuietly ==
  ASSUME CancelKept, UNCHANGED <<toCode, signal, pending, cancelled>>,
         host' \in {"idle", "files", "running"} => host' = host,
         code' = "executing" => code = "executing"
  PROVE  CancelKept'
  BY DEF CancelKept, Running, CancelUnread

\* Steps that send the code messages.
LEMMA CancelKeptSending ==
  ASSUME CancelKept, NEW t \in Seq(Message), toCode' = toCode \o t,
         UNCHANGED <<signal, pending, host, code>>,
         cancelled' => cancelled \/ (Running /\ CancelUnread(t))
  PROVE  CancelKept'
  <1>1. /\ toCode' \in Seq(Message)
        /\ CancelUnread(toCode) \/ CancelUnread(t) => CancelUnread(toCode')
    <2>1. toCode \in Seq(Message)
      BY DEF CancelKept
    <2>2. toCode \o t \in Seq(Message)
      BY <2>1
    <2>3. CancelUnread(toCode) \/ CancelUnread(t) => CancelUnread(toCode \o t)
      BY <2>1, CancelSent, Zenon
    <2>4. PICK s : s = toCode \o t
      OBVIOUS
    <2>5. toCode' = s
      BY <2>4
    <2> QED  BY <2>2, <2>3, <2>4, <2>5 DEF CancelUnread
  <1>2. Running' /\ cancelled' => pending' \/ CancelUnread(toCode)'
    BY <1>1, Zenon DEF CancelKept, Running, CancelUnread
  <1> QED  BY <1>1, <1>2 DEF CancelKept, Running

LEMMA SandboxStep ==
  ASSUME SandboxInv, SandboxNext
  PROVE  SandboxInv'
  <1>1. ASSUME NEW p \in Providers, Execute(p) PROVE SandboxInv'
    <2>1. HostAndClient' /\ LocalChild' /\ Container'
      BY <1>1 DEF Execute, HostAndClient, LocalChild, Container
    <2>2. toCode' \in Seq(Message) /\ pending' = FALSE /\ signal' = "none" /\ code' = "none"
          /\ host' = "files" /\ ~cancelled'
      BY <1>1 DEF Execute
    <2>3. CancelKept'
      BY <2>2, Zenon DEF CancelKept, Running
    <2> QED  BY <2>1, <2>3 DEF SandboxInv
  <1>2. CASE WriteFile \/ RequestRemoval \/ RemovalFails \/ RemoveFiles
    <2>1. HostAndClient' /\ LocalChild' /\ Container'
      BY <1>2 DEF SandboxInv, WriteFile, RequestRemoval, RemovalFails, RemoveFiles, channels,
                  runner, HostAndClient, LocalChild, Container, Local
    <2>2. CancelKept'
      BY <1>2, CancelKeptQuietly
      DEF SandboxInv, WriteFile, RequestRemoval, RemovalFails, RemoveFiles, channels, runner
    <2> QED  BY <2>1, <2>2 DEF SandboxInv
  <1>3. CASE Spawn
    <2>1. HostAndClient' /\ LocalChild' /\ Container'
      BY <1>3 DEF SandboxInv, Spawn, channels, HostAndClient, LocalChild, Container, Local
    <2>2. CancelKept'
      <3>1. ~cancelled' /\ host' = "running" /\ UNCHANGED <<toCode, signal, pending>>
        BY <1>3 DEF SandboxInv, CancelKept, Spawn, channels
      <3>2. code' # "executing"
        BY <1>3 DEF Spawn
      <3> QED  BY <3>1, <3>2, Zenon DEF SandboxInv, CancelKept, Running
    <2> QED  BY <2>1, <2>2 DEF SandboxInv
  <1>4. CASE DaemonCreates \/ ClientStarts \/ DaemonStarts \/ DaemonRemoves \/ ClientExits
    <2>1. HostAndClient'
      BY <1>4 DEF SandboxInv, DaemonCreates, ClientStarts, DaemonStarts, DaemonRemoves,
         ClientExits, Finishes, Running, HostAndClient
    <2>2. LocalChild'
      BY <1>4 DEF SandboxInv, DaemonCreates, ClientStarts, DaemonStarts, DaemonRemoves,
         ClientExits, Finishes, Running, HostAndClient, LocalChild, Local
    <2>3. Container'
      BY <1>4 DEF SandboxInv, DaemonCreates, ClientStarts, DaemonStarts, DaemonRemoves,
         ClientExits, Finishes, Running, HostAndClient, LocalChild, Container, Local
    <2>4. CancelKept'
      BY <1>4, CancelKeptQuietly
      DEF SandboxInv, DaemonCreates, ClientStarts, DaemonStarts, DaemonRemoves, ClientExits,
          Finishes, channels, runner, Running, Local
    <2> QED  BY <2>1, <2>2, <2>3, <2>4 DEF SandboxInv
  <1>5. CASE Boot \/ CallCapability \/ CodeEnds \/ HandleRpc \/ HandleEnd \/ GraceEnds
    <2>1. HostAndClient' /\ LocalChild' /\ Container'
      BY <1>5 DEF SandboxInv, Boot, CallCapability, Rpc, CodeEnds, HandleRpc, HandleEnd, GraceEnds,
         Finishes, outside, runner, channels, Running, HostAndClient, LocalChild, Container, Local
    <2>2. CancelKept'
      BY <1>5, CancelKeptQuietly
      DEF SandboxInv, Boot, CallCapability, Rpc, CodeEnds, HandleRpc, HandleEnd, GraceEnds,
          Finishes, outside, runner, channels, Running, Local
    <2> QED  BY <2>1, <2>2 DEF SandboxInv
  <1>6. ASSUME NEW t \in Seq(Message), SendToCode(t),
               UNCHANGED <<outside, host, client, code, signal, pending>>,
               cancelled' => cancelled \/ (Running /\ CancelUnread(t))
        PROVE  SandboxInv'
    <2>1. HostAndClient' /\ LocalChild' /\ Container'
      BY <1>6 DEF SandboxInv, outside, HostAndClient, LocalChild, Container, Local
    <2>2. CancelKept'
      BY <1>6, CancelKeptSending DEF SandboxInv, SendToCode
    <2> QED  BY <2>1, <2>2 DEF SandboxInv
  <1>7. ASSUME UNCHANGED <<outside, host, client, toCode, runner, cancelled>>
        PROVE  SandboxInv'
    <2>1. HostAndClient' /\ LocalChild' /\ Container'
      BY <1>7 DEF SandboxInv, outside, runner, HostAndClient, LocalChild, Container, Local
    <2>2. CancelKept'
      BY <1>7, CancelKeptQuietly DEF SandboxInv, runner
    <2> QED  BY <2>1, <2>2 DEF SandboxInv
  <1>8. CASE HandleReady
    <2>1. CASE client = "up"
      <3> DEFINE t == <<[type |-> "execute"]>> \o
                       (IF Local /\ cancelled THEN <<[type |-> "cancel"]>> ELSE <<>>)
      <3>1. t \in Seq(Message)
        <4>1. [type |-> "execute"] \in Message /\ [type |-> "cancel"] \in Message
          BY DEF Message
        <4> QED  BY <4>1
      <3>2. SendToCode(t) /\ UNCHANGED <<outside, host, client, code, signal, pending, cancelled>>
        BY <1>8, <2>1, Zenon DEF HandleReady, runner
      <3> QED  BY <1>6, <3>1, <3>2
    <2>2. CASE client # "up"
      BY <1>7, <1>8, <2>2 DEF HandleReady
    <2> QED  BY <2>1, <2>2
  <1>9. ASSUME NEW id \in 1 .. MaxRpcs, AnswerRpc(id) PROVE SandboxInv'
    <2>1. CASE client = "up"
      <3>1. <<[type |-> "answer", id |-> id]>> \in Seq(Message)
        <4>1. [type |-> "answer", id |-> id] \in Message
          BY DEF Message
        <4> QED  BY <4>1
      <3>2. SendToCode(<<[type |-> "answer", id |-> id]>>)
            /\ UNCHANGED <<outside, host, client, code, signal, pending, cancelled>>
        BY <1>9, <2>1, Zenon DEF AnswerRpc, runner
      <3> QED  BY <1>6, <3>1, <3>2
    <2>2. CASE client # "up"
      BY <1>7, <1>9, <2>2 DEF AnswerRpc
    <2> QED  BY <2>1, <2>2
  <1>10. CASE Cancel
    <2>1. <<[type |-> "cancel"]>> \in Seq(Message)
      <3>1. [type |-> "cancel"] \in Message
        BY DEF Message
      <3> QED  BY <3>1
    <2>2. CancelUnread(<<[type |-> "cancel"]>>)
      BY DEF CancelUnread
    <2>3. SendToCode(<<[type |-> "cancel"]>>) /\ Running
          /\ UNCHANGED <<outside, host, client, code, signal, pending>>
      BY <1>10, Zenon DEF Cancel, runner
    <2> QED  BY <1>6, <2>1, <2>2, <2>3
  <1>11. CASE ReadByCode
    <2> DEFINE m == Head(toCode)
    <2>1. /\ m \in Message /\ toCode' = Tail(toCode) /\ Tail(toCode) \in Seq(Message)
          /\ CancelUnread(toCode) => m.type = "cancel" \/ CancelUnread(Tail(toCode))
      <3>1. toCode \in Seq(Message) /\ toCode # <<>> /\ toCode' = Tail(toCode)
        BY <1>11, Zenon DEF SandboxInv, CancelKept, ReadByCode
      <3> QED  BY <3>1, CancelReadOrKept, Zenon
    <2>2. /\ UNCHANGED <<outside, host, client, toHost, working, cancelled, boundVars>>
          /\ client = "up"
          /\ \/ /\ m.type = "execute" /\ code' = "executing" /\ signal' = SignalAtStart
                /\ UNCHANGED <<pending, waiting>>
             \/ /\ m.type = "cancel" /\ pending' = TRUE
                /\ signal' = IF signal = "none" THEN "none" ELSE "aborted"
                /\ UNCHANGED <<code, waiting>>
             \/ m.type \notin {"execute", "cancel"} /\ UNCHANGED <<code, signal, pending>>
      BY <1>11, Zenon DEF ReadByCode, Connected
    <2>3. HostAndClient' /\ LocalChild' /\ Container'
      BY <2>2 DEF SandboxInv, outside, HostAndClient, LocalChild, Container, Local
    <2>4. /\ CancelUnread(toCode)' <=> CancelUnread(Tail(toCode))
          /\ toCode' \in Seq(Message) /\ (Running' <=> Running) /\ UNCHANGED <<host, cancelled>>
      BY <2>1, <2>2 DEF CancelUnread, Running
    <2> HIDE DEF m
    <2>5. CancelKept
      BY DEF SandboxInv
    <2>6. pending' \in BOOLEAN /\ signal' \in {"none", "live", "aborted"}
          /\ (pending' => signal' # "live")
      <3>1. CASE m.type = "execute"
        <4>1. pending' = pending /\ signal' = IF pending THEN "aborted" ELSE "live"
          BY <2>2, <3>1 DEF SignalAtStart
        <4> QED  BY <4>1, <2>5 DEF CancelKept
      <3>2. CASE m.type = "cancel"
        <4>1. pending' = TRUE /\ signal' = IF signal = "none" THEN "none" ELSE "aborted"
          BY <2>2, <3>2
        <4> QED  BY <4>1
      <3>3. CASE m.type \notin {"execute", "cancel"}
        BY <2>2, <2>5, <3>3 DEF CancelKept
      <3> QED  BY <3>1, <3>2, <3>3
    <2>7. code' = "executing" => signal' # "none"
      BY <2>2, <2>5 DEF CancelKept, SignalAtStart
    <2>8. pending' \/ (pending' = pending /\ m.type # "cancel")
      <3>1. "execute" # "cancel"
        OBVIOUS
      <3> QED  BY <2>2, <3>1, Zenon
    <2>9. Running' /\ cancelled' => pending' \/ CancelUnread(toCode)'
      BY <2>1, <2>4, <2>5, <2>8, Zenon DEF CancelKept
    <2>10. CancelKept'
      BY <2>4, <2>5, <2>6, <2>7, <2>9 DEF CancelKept
    <2> QED  BY <2>3, <2>10 DEF SandboxInv
  <1> QED  BY <1>1, <1>2, <1>3, <1>4, <1>5, <1>8, <1>9, <1>10, <1>11 DEF SandboxNext

LEMMA SandboxHolds == SandboxInv => SandboxContained
  <1> SUFFICES ASSUME SandboxInv PROVE SandboxContained
    OBVIOUS
  <1>1. host = "done" /\ ~faulty =>
          /\ files = {} /\ client = "dead" /\ box # "running" /\ (Local => code = "ended")
    BY DEF SandboxInv, HostAndClient, LocalChild, Container
  <1>2. ASSUME Running, cancelled, NothingUnread, code = "executing" PROVE signal = "aborted"
    <2>1. pending
      BY <1>2 DEF SandboxInv, CancelKept, CancelUnread, NothingUnread
    <2> QED  BY <1>2, <2>1 DEF SandboxInv, CancelKept
  <1> QED  BY <1>1, <1>2 DEF SandboxContained

-----------------------------------------------------------------------------
(* Upstreams.                                                                *)
LEMMA QueryMoves ==
  ASSUME UpstreamsInv, NEW c \in Callers, NEW q, QueryBecomes(c, q), UNCHANGED http,
         q \in QueryRecord, QueryStage(q)
  PROVE  UpstreamsInv'
  <1>1. query' = [d \in Callers |-> IF d = c THEN q ELSE query[d]]
    BY DEF UpstreamsInv, QueryBecomes
  <1>2. query' = [d \in Callers |-> query[d]'] /\ http' = [d \in Callers |-> http[d]']
    BY <1>1 DEF UpstreamsInv
  <1>3. ASSUME NEW d \in Callers
        PROVE  query'[d] \in QueryRecord /\ QueryStage(query'[d]) /\ HttpStage(http'[d])
    <2>1. http'[d] = http[d] /\ HttpStage(http[d])
      BY DEF UpstreamsInv
    <2>2. CASE d = c
      <3>1. query'[d] = q
        BY <1>1, <2>2
      <3> QED  BY <2>1, <3>1
    <2>3. CASE d # c
      <3>1. query'[d] = query[d]
        BY <1>1, <2>3
      <3> QED  BY <2>1, <3>1 DEF UpstreamsInv
    <2> QED  BY <2>2, <2>3
  <1> QED  BY <1>2, <1>3, Zenon DEF UpstreamsInv

LEMMA HttpMoves ==
  ASSUME UpstreamsInv, NEW c \in Callers, NEW h, Asks(c, h), UNCHANGED query, HttpStage(h)
  PROVE  UpstreamsInv'
  <1>1. http' = [d \in Callers |-> IF d = c THEN h ELSE http[d]]
    BY DEF UpstreamsInv, Asks
  <1>2. http' = [d \in Callers |-> http[d]'] /\ query' = [d \in Callers |-> query[d]']
    BY <1>1 DEF UpstreamsInv
  <1>3. ASSUME NEW d \in Callers
        PROVE  query'[d] \in QueryRecord /\ QueryStage(query'[d]) /\ HttpStage(http'[d])
    <2>1. query'[d] = query[d] /\ query[d] \in QueryRecord /\ QueryStage(query[d])
      BY DEF UpstreamsInv
    <2>2. CASE d = c
      <3>1. http'[d] = h
        BY <1>1, <2>2
      <3> QED  BY <2>1, <3>1
    <2>3. CASE d # c
      <3>1. http'[d] = http[d]
        BY <1>1, <2>3
      <3> QED  BY <2>1, <3>1 DEF UpstreamsInv
    <2> QED  BY <2>2, <2>3
  <1> QED  BY <1>2, <1>3, Zenon DEF UpstreamsInv

LEMMA ResolveStep ==
  ASSUME UpstreamsInv, NEW c \in Callers, Resolve(c)
  PROVE  UpstreamsInv'
  <1> DEFINE q == query[c]
  <1>1. q \in QueryRecord /\ QueryStage(q) /\ q.op = "resolve"
    BY DEF UpstreamsInv, Resolve, Step
  <1>2. CASE QueryBecomes(c, [q EXCEPT !.op = "connect", !.connection = "opening"])
    <2> DEFINE r == [q EXCEPT !.op = "connect", !.connection = "opening"]
    <2>1. r \in QueryRecord
      BY <1>1 DEF QueryRecord, Errors
    <2>2. QueryStage(r)
      BY <1>1 DEF QueryRecord, QueryStage
    <2> QED  BY <1>2, <2>1, <2>2, QueryMoves DEF Resolve, Step
  <1>3. CASE QueryBecomes(c, [q EXCEPT !.op = "failing", !.error = "configuration"])
    <2> DEFINE r == [q EXCEPT !.op = "failing", !.error = "configuration"]
    <2>1. r \in QueryRecord
      BY <1>1 DEF QueryRecord, Errors
    <2>2. QueryStage(r)
      BY <1>1 DEF QueryRecord, QueryStage, Errors
    <2> QED  BY <1>3, <2>1, <2>2, QueryMoves DEF Resolve, Step
  <1> QED  BY <1>2, <1>3 DEF Resolve

LEMMA ConnectStep ==
  ASSUME UpstreamsInv, NEW c \in Callers, Connect(c)
  PROVE  UpstreamsInv'
  <1> DEFINE q == query[c]
  <1>1. q \in QueryRecord /\ QueryStage(q) /\ q.op = "connect"
    BY DEF UpstreamsInv, Connect, Step
  <1>2. CASE QueryBecomes(c, [q EXCEPT !.op = "begin", !.connection = "open"])
    <2> DEFINE r == [q EXCEPT !.op = "begin", !.connection = "open"]
    <2>1. r \in QueryRecord
      BY <1>1 DEF QueryRecord, Errors, Fails
    <2>2. QueryStage(r)
      BY <1>1 DEF QueryRecord, QueryStage, Errors, Fails
    <2> QED  BY <1>2, <2>1, <2>2, QueryMoves DEF Connect, Step
  <1>3. CASE QueryBecomes(c, [q EXCEPT !.op = "end", !.error = Fails(c)])
    <2> DEFINE r == [q EXCEPT !.op = "end", !.error = Fails(c)]
    <2>1. r \in QueryRecord
      BY <1>1 DEF QueryRecord, Errors, Fails
    <2>2. QueryStage(r)
      BY <1>1 DEF QueryRecord, QueryStage, Errors, Fails
    <2> QED  BY <1>3, <2>1, <2>2, QueryMoves DEF Connect, Step
  <1> QED  BY <1>2, <1>3 DEF Connect

LEMMA BeginTransactionStep ==
  ASSUME UpstreamsInv, NEW c \in Callers, BeginTransaction(c)
  PROVE  UpstreamsInv'
  <1> DEFINE q == query[c]
  <1>1. q \in QueryRecord /\ QueryStage(q) /\ q.op = "begin"
    BY DEF UpstreamsInv, BeginTransaction, Step
  <1>2. CASE QueryBecomes(c, [q EXCEPT !.op = "limit", !.transaction = TRUE])
    <2> DEFINE r == [q EXCEPT !.op = "limit", !.transaction = TRUE]
    <2>1. r \in QueryRecord
      BY <1>1 DEF QueryRecord, Errors, Fails
    <2>2. QueryStage(r)
      BY <1>1 DEF QueryRecord, QueryStage, Errors, Fails
    <2> QED  BY <1>2, <2>1, <2>2, QueryMoves DEF BeginTransaction, Step
  <1>3. CASE QueryBecomes(c, [q EXCEPT !.op = "end", !.error = Fails(c)])
    <2> DEFINE r == [q EXCEPT !.op = "end", !.error = Fails(c)]
    <2>1. r \in QueryRecord
      BY <1>1 DEF QueryRecord, Errors, Fails
    <2>2. QueryStage(r)
      BY <1>1 DEF QueryRecord, QueryStage, Errors, Fails
    <2> QED  BY <1>3, <2>1, <2>2, QueryMoves DEF BeginTransaction, Step
  <1> QED  BY <1>2, <1>3 DEF BeginTransaction

LEMMA LimitTimeStep ==
  ASSUME UpstreamsInv, NEW c \in Callers, LimitTime(c)
  PROVE  UpstreamsInv'
  <1> DEFINE q == query[c]
  <1>1. q \in QueryRecord /\ QueryStage(q) /\ q.op = "limit"
    BY DEF UpstreamsInv, LimitTime, Step
  <1>2. CASE QueryBecomes(c, [q EXCEPT !.op = "query"])
    <2> DEFINE r == [q EXCEPT !.op = "query"]
    <2>1. r \in QueryRecord
      BY <1>1 DEF QueryRecord, Errors, Fails
    <2>2. QueryStage(r)
      BY <1>1 DEF QueryRecord, QueryStage, Errors, Fails
    <2> QED  BY <1>2, <2>1, <2>2, QueryMoves DEF LimitTime, Step
  <1>3. CASE QueryBecomes(c, [q EXCEPT !.op = "undo", !.error = Fails(c)])
    <2> DEFINE r == [q EXCEPT !.op = "undo", !.error = Fails(c)]
    <2>1. r \in QueryRecord
      BY <1>1 DEF QueryRecord, Errors, Fails
    <2>2. QueryStage(r)
      BY <1>1 DEF QueryRecord, QueryStage, Errors, Fails
    <2> QED  BY <1>3, <2>1, <2>2, QueryMoves DEF LimitTime, Step
  <1> QED  BY <1>2, <1>3 DEF LimitTime

LEMMA RollbackStep ==
  ASSUME UpstreamsInv, NEW c \in Callers, Rollback(c)
  PROVE  UpstreamsInv'
  <1> DEFINE q == query[c]
  <1>1. q \in QueryRecord /\ QueryStage(q) /\ q.op = "rollback"
    BY DEF UpstreamsInv, Rollback, Step
  <1>2. CASE QueryBecomes(c, [q EXCEPT !.op = "end", !.transaction = FALSE])
    <2> DEFINE r == [q EXCEPT !.op = "end", !.transaction = FALSE]
    <2>1. r \in QueryRecord
      BY <1>1 DEF QueryRecord, Errors, Fails
    <2>2. QueryStage(r)
      BY <1>1 DEF QueryRecord, QueryStage, Errors, Fails
    <2> QED  BY <1>2, <2>1, <2>2, QueryMoves DEF Rollback, Step
  <1>3. CASE QueryBecomes(c, [q EXCEPT !.op = "undo", !.error = Fails(c)])
    <2> DEFINE r == [q EXCEPT !.op = "undo", !.error = Fails(c)]
    <2>1. r \in QueryRecord
      BY <1>1 DEF QueryRecord, Errors, Fails
    <2>2. QueryStage(r)
      BY <1>1 DEF QueryRecord, QueryStage, Errors, Fails
    <2> QED  BY <1>3, <2>1, <2>2, QueryMoves DEF Rollback, Step
  <1> QED  BY <1>2, <1>3 DEF Rollback

LEMMA UndoStep ==
  ASSUME UpstreamsInv, NEW c \in Callers, Undo(c)
  PROVE  UpstreamsInv'
  <1> DEFINE q == query[c]
  <1>1. q \in QueryRecord /\ QueryStage(q) /\ q.op = "undo"
    BY DEF UpstreamsInv, Undo, Step
  <1>2. CASE QueryBecomes(c, [q EXCEPT !.op = "end", !.transaction = FALSE])
    <2> DEFINE r == [q EXCEPT !.op = "end", !.transaction = FALSE]
    <2>1. r \in QueryRecord
      BY <1>1 DEF QueryRecord, Errors, Fails
    <2>2. QueryStage(r)
      BY <1>1 DEF QueryRecord, QueryStage, Errors, Fails
    <2> QED  BY <1>2, <2>1, <2>2, QueryMoves DEF Undo, Step
  <1> QED  BY <1>2 DEF Undo

LEMMA AuditFailureStep ==
  ASSUME UpstreamsInv, NEW c \in Callers, AuditFailure(c)
  PROVE  UpstreamsInv'
  <1> DEFINE q == query[c]
  <1>1. q \in QueryRecord /\ QueryStage(q) /\ q.op = "failing"
    BY DEF UpstreamsInv, AuditFailure, Step
  <1>2. CASE QueryBecomes(c, [q EXCEPT !.op = "answered", !.audits = @ \cup {"failed"}])
    <2> DEFINE r == [q EXCEPT !.op = "answered", !.audits = @ \cup {"failed"}]
    <2>1. r \in QueryRecord
      BY <1>1 DEF QueryRecord, Errors, Fails
    <2>2. QueryStage(r)
      BY <1>1 DEF QueryRecord, QueryStage, Errors, Fails
    <2> QED  BY <1>2, <2>1, <2>2, QueryMoves DEF AuditFailure, Step
  <1>3. CASE QueryBecomes(c, [q EXCEPT !.op = "answered", !.unaudited = TRUE])
    <2> DEFINE r == [q EXCEPT !.op = "answered", !.unaudited = TRUE]
    <2>1. r \in QueryRecord
      BY <1>1 DEF QueryRecord, Errors, Fails
    <2>2. QueryStage(r)
      BY <1>1 DEF QueryRecord, QueryStage, Errors, Fails
    <2> QED  BY <1>3, <2>1, <2>2, QueryMoves DEF AuditFailure, Step
  <1> QED  BY <1>2, <1>3 DEF AuditFailure

LEMMA RefuseStep ==
  ASSUME UpstreamsInv, NEW c \in Callers, Refuse(c) \/ QueryBegin(c)
  PROVE  UpstreamsInv'
  <1> DEFINE begun == [NoQuery EXCEPT !.op = "resolve"]
  <1>1. Refused \in QueryRecord /\ QueryStage(Refused) /\ begun \in QueryRecord /\ QueryStage(begun)
    <2>1. NoQuery \in QueryRecord /\ NoQuery.op = "none" /\ NoQuery.error = "none"
          /\ NoQuery.connection = "none" /\ ~NoQuery.transaction /\ NoQuery.audits = {}
      BY DEF NoQuery, QueryRecord
    <2> QED  BY <2>1 DEF Refused, QueryRecord, QueryStage, Errors
  <1>2. UNCHANGED http /\ (QueryBecomes(c, Refused) \/ QueryBecomes(c, begun))
    BY DEF Refuse, QueryBegin
  <1> QED  BY <1>1, <1>2, QueryMoves

LEMMA RunQueryStep ==
  ASSUME UpstreamsInv, NEW c \in Callers, RunQuery(c)
  PROVE  UpstreamsInv'
  <1> DEFINE q == query[c]
  <1>1. q \in QueryRecord /\ QueryStage(q) /\ q.op = "query" /\ UNCHANGED http
    BY DEF UpstreamsInv, RunQuery, Step
  <1>2. ASSUME NEW n \in 0 .. MaxRows + 1, NEW rows \in [1 .. n -> RowSizes],
               QueryBecomes(c, [q EXCEPT !.op = "rollback", !.rows = rows])
        PROVE  UpstreamsInv'
    <2> DEFINE r == [q EXCEPT !.op = "rollback", !.rows = rows]
    <2>1. rows \in Seq(Nat)
      <3>1. n \in Nat
        BY UpstreamsAssumption
      <3>2. rows \in [1 .. n -> Nat]
        <4>1. RowSizes \subseteq Nat
          BY UpstreamsAssumption
        <4> QED  BY <4>1
      <3> QED  BY <3>1, <3>2
    <2>2. r \in QueryRecord
      BY <1>1, <2>1 DEF QueryRecord, Errors
    <2>3. QueryStage(r)
      BY <1>1 DEF QueryRecord, QueryStage, Errors
    <2> QED  BY <1>1, <1>2, <2>2, <2>3, QueryMoves
  <1>3. CASE QueryBecomes(c, [q EXCEPT !.op = "undo", !.error = "upstream"])
    <2> DEFINE r == [q EXCEPT !.op = "undo", !.error = "upstream"]
    <2>1. r \in QueryRecord /\ QueryStage(r)
      BY <1>1 DEF QueryRecord, QueryStage, Errors
    <2> QED  BY <1>1, <1>3, <2>1, QueryMoves
  <1>4. ASSUME NEW connection \in {"open", "closed"},
               QueryBecomes(c, [q EXCEPT !.op = "undo", !.error = "timeout",
                                         !.connection = connection])
        PROVE  UpstreamsInv'
    <2> DEFINE r == [q EXCEPT !.op = "undo", !.error = "timeout", !.connection = connection]
    <2>1. r \in QueryRecord /\ QueryStage(r)
      BY <1>1 DEF QueryRecord, QueryStage, Errors
    <2> QED  BY <1>1, <1>4, <2>1, QueryMoves
  <1> QED  BY <1>2, <1>3, <1>4 DEF RunQuery

LEMMA EndStep ==
  ASSUME UpstreamsInv, NEW c \in Callers, End(c)
  PROVE  UpstreamsInv'
  <1> DEFINE q == query[c]
             r == [q EXCEPT !.op = IF q.error = "none" THEN "cap" ELSE "failing",
                            !.connection = "closed"]
  <1>1. q \in QueryRecord /\ QueryStage(q) /\ q.op = "end" /\ UNCHANGED http /\ QueryBecomes(c, r)
    BY DEF UpstreamsInv, End, Step
  <1>2. CASE q.error = "none"
    <2>1. r = [q EXCEPT !.op = "cap", !.connection = "closed"]
      BY <1>2
    <2>2. r \in QueryRecord /\ QueryStage(r)
      BY <1>1, <1>2, <2>1 DEF QueryRecord, QueryStage, Errors
    <2> QED  BY <1>1, <2>2, QueryMoves
  <1>3. CASE q.error # "none"
    <2>1. r = [q EXCEPT !.op = "failing", !.connection = "closed"]
      BY <1>3
    <2>2. r \in QueryRecord /\ QueryStage(r)
      BY <1>1, <1>3, <2>1 DEF QueryRecord, QueryStage, Errors
    <2> QED  BY <1>1, <2>2, QueryMoves
  <1> QED  BY <1>2, <1>3

LEMMA AuditSuccessStep ==
  ASSUME UpstreamsInv, NEW c \in Callers, AuditSuccess(c)
  PROVE  UpstreamsInv'
  <1> DEFINE q == query[c]
  <1>1. q \in QueryRecord /\ QueryStage(q) /\ q.op = "auditing" /\ UNCHANGED http
    BY DEF UpstreamsInv, AuditSuccess, Step
  <1>2. CASE QueryBecomes(c, [q EXCEPT !.op = "answered", !.audits = @ \cup {"executed"}])
    <2> DEFINE r == [q EXCEPT !.op = "answered", !.audits = @ \cup {"executed"}]
    <2>1. r \in QueryRecord
      BY <1>1 DEF QueryRecord, Errors
    <2>2. /\ r.op = "answered" /\ r.error = "none" /\ r.audits = {"executed"}
          /\ r.connection \in {"none", "closed"} /\ ~r.transaction
      BY <1>1 DEF QueryRecord, QueryStage
    <2>3. r.rows = q.rows /\ r.result = q.result /\ (r.truncated <=> q.truncated)
      BY <1>1 DEF QueryRecord
    <2>4. r.truncated = q.truncated
      BY <1>1, <2>1, <2>3 DEF QueryRecord
    <2>5. Longest(q.rows, q.result, q.truncated)
      BY <1>1 DEF QueryStage
    <2> HIDE DEF r
    <2>6. Longest(r.rows, r.result, r.truncated)
      BY <2>3, <2>4, <2>5
    <2>7. QueryStage(r)
      BY <2>2, <2>6 DEF QueryStage
    <2> QED  BY <1>1, <1>2, <2>1, <2>7, QueryMoves DEF r
  <1>3. ASSUME NEW written \in {{}, {"executed"}},
               QueryBecomes(c, [q EXCEPT !.op = "failing", !.error = Fails(c),
                                         !.audits = @ \cup written])
        PROVE  UpstreamsInv'
    <2> DEFINE r == [q EXCEPT !.op = "failing", !.error = Fails(c), !.audits = @ \cup written]
    <2>1. r \in QueryRecord
      BY <1>1 DEF QueryRecord, Errors, Fails
    <2>2. QueryStage(r)
      BY <1>1 DEF QueryRecord, QueryStage, Errors, Fails
    <2> QED  BY <1>1, <1>3, <2>1, <2>2, QueryMoves
  <1> QED  BY <1>2, <1>3 DEF AuditSuccess

LEMMA LeastOf ==
  ASSUME NEW T, T \subseteq Nat, T # {}
  PROVE  \E n \in T : \A m \in T : n <= m
  <1> DEFINE R == OpToRel(<, Nat)
  <1>1. IsWellFoundedOn(R, Nat)
    BY NatLessThanWellFounded
  <1>2. \A a, b \in Nat : a < b => <<a, b>> \in R
    BY DEF OpToRel
  <1> HIDE DEF R
  <1>3. PICK n \in T : \A m \in T : ~ (<<m, n>> \in R)
    BY <1>1, WFMin
  <1>4. ASSUME NEW m \in T PROVE n <= m
    <2>1. n \in Nat /\ m \in Nat
      OBVIOUS
    <2>2. ~ (m < n)
      BY <1>2, <1>3, <2>1
    <2> QED  BY <2>1, <2>2
  <1> QED  BY <1>4

\* Whatever rows and limits are, the loop of capResult ends with the longest
\* prefix within the limits.
LEMMA CapIsLongest ==
  ASSUME NEW rows \in Seq(Nat)
  PROVE  /\ CapResult(rows).rows \in Seq(Nat) /\ CapResult(rows).truncated \in BOOLEAN
         /\ Longest(rows, CapResult(rows).rows, CapResult(rows).truncated)
  <1> DEFINE candidates == Least(Len(rows), MaxRows)
             Fits(n) == SizeOf(First(rows, n), Len(rows) > MaxRows \/ candidates > n) <= MaxResult
             Stops(n) == /\ \A m \in 1 .. n : Fits(m)
                         /\ n = candidates \/ ~Fits(n + 1)
             accepted == CHOOSE n \in 0 .. candidates : Stops(n)
  <1>1. CapResult(rows) = [rows |-> First(rows, accepted), truncated |-> accepted < Len(rows)]
    BY DEF CapResult
  <1>2. /\ MaxRows \in Nat /\ Len(rows) \in Nat /\ candidates \in Nat
        /\ candidates <= Len(rows) /\ candidates <= MaxRows
        /\ candidates \in {Len(rows), MaxRows}
    BY UpstreamsAssumption DEF Least
  <1> HIDE DEF Fits, candidates
  <1>3. \E n \in 0 .. candidates : Stops(n)
    <2> DEFINE T == {n \in 0 .. candidates : n = candidates \/ ~Fits(n + 1)}
    <2>1. T \subseteq Nat /\ candidates \in T
      BY <1>2
    <2>2. PICK n \in T : \A m \in T : n <= m
      BY <2>1, LeastOf
    <2>3. ASSUME NEW m \in 1 .. n PROVE Fits(m)
      <3>1. m - 1 \in 0 .. candidates /\ m - 1 # candidates /\ ~ (n <= m - 1) /\ (m - 1) + 1 = m
        BY <1>2, <2>1, <2>2
      <3>2. m - 1 \notin T
        BY <2>2, <3>1
      <3>3. Fits((m - 1) + 1)
        BY <3>1, <3>2
      <3> QED  BY <3>1, <3>3
    <2> QED  BY <2>2, <2>3
  <1>4. accepted \in 0 .. candidates /\ Stops(accepted)
    BY <1>3
  <1> HIDE DEF accepted
  <1>5. /\ accepted \in Nat /\ accepted <= Len(rows) /\ accepted <= MaxRows
        /\ First(rows, accepted) \in Seq(Nat) /\ Len(First(rows, accepted)) = accepted
    BY <1>2, <1>4 DEF First
  <1>6. ASSUME First(rows, accepted) # <<>>
        PROVE  SizeOf(First(rows, accepted), accepted < Len(rows)) <= MaxResult
    <2>1. accepted \in 1 .. accepted
      BY <1>5, <1>6 DEF First
    <2>2. Fits(accepted)
      BY <1>4, <2>1
    <2>3. (Len(rows) > MaxRows \/ candidates > accepted) = (accepted < Len(rows))
      BY <1>2, <1>5
    <2> QED  BY <2>2, <2>3 DEF Fits
  <1>7. ASSUME accepted < candidates
        PROVE  ~ (SizeOf(First(rows, accepted + 1), accepted + 1 < Len(rows)) <= MaxResult)
    <2>1. ~Fits(accepted + 1)
      BY <1>2, <1>4, <1>5, <1>7
    <2>2. (Len(rows) > MaxRows \/ candidates > accepted + 1) = (accepted + 1 < Len(rows))
      BY <1>2, <1>5, <1>7
    <2> QED  BY <2>1, <2>2 DEF Fits
  <1>8. Longest(rows, First(rows, accepted), accepted < Len(rows))
    <2>1. First(rows, accepted) = First(rows, Len(First(rows, accepted)))
      BY <1>5
    <2> QED  BY <1>5, <1>6, <1>7, <2>1 DEF Longest, candidates
  <1> QED  BY <1>1, <1>5, <1>8

LEMMA CapStep ==
  ASSUME UpstreamsInv, NEW c \in Callers, Cap(c)
  PROVE  UpstreamsInv'
  <1> DEFINE q == query[c]
             capped == CapResult(q.rows)
  <1>1. q \in QueryRecord /\ QueryStage(q) /\ q.op = "cap" /\ UNCHANGED http
    BY DEF UpstreamsInv, Cap, Step
  <1>2. CASE QueryBecomes(c, [q EXCEPT !.op = "auditing", !.result = capped.rows,
                                       !.truncated = capped.truncated])
    <2> DEFINE r == [q EXCEPT !.op = "auditing", !.result = capped.rows,
                              !.truncated = capped.truncated]
    <2>1. /\ capped.rows \in Seq(Nat) /\ capped.truncated \in BOOLEAN
          /\ Longest(q.rows, capped.rows, capped.truncated)
      <3>1. q.rows \in Seq(Nat)
        BY <1>1 DEF QueryRecord
      <3> QED  BY <3>1, CapIsLongest
    <2> HIDE DEF capped
    <2>2. r \in QueryRecord
      BY <1>1, <2>1 DEF QueryRecord, Errors
    <2>3. /\ r.op = "auditing" /\ r.error = "none" /\ r.audits = {}
          /\ r.connection \in {"none", "closed"} /\ ~r.transaction
      BY <1>1 DEF QueryRecord, QueryStage
    <2>4. r.rows = q.rows /\ r.result = capped.rows /\ (r.truncated <=> capped.truncated)
      BY <1>1 DEF QueryRecord
    <2>5. r.truncated = capped.truncated
      BY <2>1, <2>2, <2>4 DEF QueryRecord
    <2> HIDE DEF r
    <2>6. Longest(r.rows, r.result, r.truncated)
      BY <2>1, <2>4, <2>5
    <2>7. QueryStage(r)
      BY <2>3, <2>6 DEF QueryStage
    <2> QED  BY <1>1, <1>2, <2>2, <2>7, QueryMoves DEF r, capped
  <1>3. CASE QueryBecomes(c, [q EXCEPT !.op = "failing", !.error = "upstream"])
    <2> DEFINE r == [q EXCEPT !.op = "failing", !.error = "upstream"]
    <2>1. r \in QueryRecord /\ QueryStage(r)
      BY <1>1 DEF QueryRecord, QueryStage, Errors
    <2> QED  BY <1>1, <1>3, <2>1, QueryMoves
  <1> QED  BY <1>2, <1>3 DEF Cap

LEMMA RequestStep ==
  ASSUME UpstreamsInv, NEW c \in Callers, NEW url \in Urls, Request(c, url) \/ RefuseRequest(c)
  PROVE  UpstreamsInv'
  <1> DEFINE asked0 == [NoRequest EXCEPT !.op = "check", !.url = url]
             refused == [NoRequest EXCEPT !.op = "answered"]
  <1>1. HttpStage(NoRequest) /\ NoRequest.sent = <<>>
    BY UpstreamsAssumption DEF NoRequest, HttpStage
  <1>2. HttpStage(refused)
    BY <1>1 DEF HttpStage
  <1>4. HttpStage(asked0)
    <2>1. asked0.op = "check" /\ asked0.sent = <<>>
          /\ asked0 \in [op : {"none", "check", "send", "wait", "answered"},
                        url : Urls \cup {None}, sent : Seq(Admitted)]
      BY <1>1 DEF HttpStage
    <2>2. Len(<<>>) <= MaxRedirects /\ Len(<<>>) <= MaxRedirects + 1
      BY UpstreamsAssumption
    <2> QED  BY <2>1, <2>2 DEF HttpStage
  <1>3. UNCHANGED query /\ (Asks(c, asked0) \/ Asks(c, refused))
    BY DEF Request, RefuseRequest
  <1> QED  BY <1>2, <1>3, <1>4, HttpMoves

LEMMA ConcludeStep ==
  ASSUME UpstreamsInv, NEW c \in Callers, Concludes(c), UNCHANGED query
  PROVE  UpstreamsInv'
  <1> DEFINE h == [http[c] EXCEPT !.op = "answered"]
  <1>1. HttpStage(http[c])
    BY DEF UpstreamsInv
  <1>2. HttpStage(h)
    BY <1>1 DEF HttpStage
  <1> QED  BY <1>2, HttpMoves DEF Concludes

LEMMA SendStep ==
  ASSUME UpstreamsInv, NEW c \in Callers,
         Check(c) \/ Send(c) \/ (\E url \in Urls : Redirected(c, url)) \/ Responds(c)
  PROVE  UpstreamsInv'
  <1> DEFINE h == http[c]
  <1>1. HttpStage(h)
    BY DEF UpstreamsInv
  <1>2. UNCHANGED query
    BY DEF Check, Send, Redirected, Responds
  <1>3. CASE Concludes(c)
    BY <1>2, <1>3, ConcludeStep
  <1>4. CASE h.op = "check" /\ h.url \in Admitted /\ Asks(c, [h EXCEPT !.op = "send"])
    <2>1. HttpStage([h EXCEPT !.op = "send"])
      BY <1>1, <1>4 DEF HttpStage
    <2> QED  BY <1>2, <1>4, <2>1, HttpMoves
  <1>5. CASE h.op = "send" /\ Asks(c, [h EXCEPT !.op = "wait", !.sent = Append(@, h.url)])
    <2> DEFINE r == [h EXCEPT !.op = "wait", !.sent = Append(@, h.url)]
    <2>1. PICK sent : sent = Append(h.sent, h.url)
      OBVIOUS
    <2>2. sent \in Seq(Admitted) /\ Len(sent) <= MaxRedirects + 1
      BY <1>1, <1>5, <2>1, UpstreamsAssumption DEF HttpStage
    <2>3. r = [h EXCEPT !.op = "wait", !.sent = sent]
      BY <1>1, <2>1 DEF HttpStage
    <2>4. HttpStage(r)
      BY <1>1, <2>2, <2>3 DEF HttpStage
    <2> QED  BY <1>2, <1>5, <2>4, HttpMoves
  <1>6. ASSUME NEW url \in Urls, ~ (Len(h.sent) > MaxRedirects),
               Asks(c, [h EXCEPT !.op = "check", !.url = url])
        PROVE  UpstreamsInv'
    <2> DEFINE r == [h EXCEPT !.op = "check", !.url = url]
    <2>1. Len(h.sent) \in Nat /\ MaxRedirects \in Nat
      BY <1>1, UpstreamsAssumption DEF HttpStage
    <2>2. r.op = "check" /\ r.sent = h.sent
          /\ r \in [op : {"none", "check", "send", "wait", "answered"},
                   url : Urls \cup {None}, sent : Seq(Admitted)]
      BY <1>1 DEF HttpStage
    <2>3. HttpStage(r)
      BY <1>6, <2>1, <2>2 DEF HttpStage
    <2> QED  BY <1>2, <1>6, <2>3, HttpMoves
  <1> QED  BY <1>3, <1>4, <1>5, <1>6 DEF Check, Send, Redirected, Responds

LEMMA UpstreamsQuiet == UpstreamsInv /\ UNCHANGED <<query, http>> => UpstreamsInv'
  BY DEF UpstreamsInv

LEMMA UpstreamsStep ==
  ASSUME UpstreamsInv, UpstreamsNext
  PROVE  UpstreamsInv'
  <1> PICK c \in Callers :
        \/ Abort(c) \/ Refuse(c) \/ QueryBegin(c) \/ Resolve(c) \/ Connect(c)
        \/ BeginTransaction(c) \/ LimitTime(c) \/ RunQuery(c) \/ Rollback(c) \/ Undo(c) \/ End(c)
        \/ Cap(c) \/ AuditSuccess(c) \/ AuditFailure(c)
        \/ RefuseRequest(c) \/ Check(c) \/ Send(c) \/ Responds(c)
        \/ \E url \in Urls : Request(c, url) \/ Redirected(c, url)
    BY DEF UpstreamsNext
  <1>1. CASE Abort(c)
    BY <1>1, UpstreamsQuiet DEF Abort
  <1>2. CASE RefuseRequest(c)
    <2>1. UNCHANGED query /\ Asks(c, [NoRequest EXCEPT !.op = "answered"])
      BY <1>2 DEF RefuseRequest
    <2>2. HttpStage([NoRequest EXCEPT !.op = "answered"])
      <3>1. HttpStage(NoRequest)
        BY UpstreamsAssumption DEF NoRequest, HttpStage
      <3> QED  BY <3>1 DEF HttpStage
    <2> QED  BY <2>1, <2>2, HttpMoves
  <1> QED  BY <1>1, <1>2, RefuseStep, ResolveStep, ConnectStep, BeginTransactionStep, LimitTimeStep,
              RunQueryStep, RollbackStep, UndoStep, EndStep, CapStep, AuditSuccessStep,
              AuditFailureStep, RequestStep, SendStep

LEMMA UpstreamsStart == UpstreamsInit => UpstreamsInv
  <1> SUFFICES ASSUME UpstreamsInit PROVE UpstreamsInv
    OBVIOUS
  <1>1. ASSUME NEW c \in Callers
        PROVE  query[c] \in QueryRecord /\ QueryStage(query[c]) /\ HttpStage(http[c])
    <2>1. query[c] = NoQuery /\ http[c] = NoRequest
      BY DEF UpstreamsInit
    <2>2. NoQuery \in QueryRecord /\ NoQuery.op = "none" /\ NoQuery.error = "none"
          /\ NoQuery.connection = "none" /\ ~NoQuery.transaction /\ NoQuery.audits = {}
      BY DEF NoQuery, QueryRecord
    <2>3. HttpStage(NoRequest)
      BY UpstreamsAssumption DEF NoRequest, HttpStage
    <2> QED  BY <2>1, <2>2, <2>3 DEF QueryStage
  <1> QED  BY <1>1 DEF UpstreamsInit, UpstreamsInv

LEMMA UpstreamsHolds == UpstreamsInv => UpstreamsAccounted
  <1> SUFFICES ASSUME UpstreamsInv, NEW c \in Callers
               PROVE  LET q == query[c]  h == http[c] IN
                      /\ q.op \in {"cap", "auditing", "failing", "answered"} =>
                           q.connection \in {"none", "closed"} /\ ~q.transaction
                      /\ q.op = "answered" =>
                           CASE q.error = "none" -> q.audits = {"executed"}
                                                    /\ Longest(q.rows, q.result, q.truncated)
                             [] q.error = "refused" -> q.audits = {}
                             [] OTHER -> "failed" \in q.audits \/ q.unaudited
                      /\ \A n \in DOMAIN h.sent : h.sent[n] \in Admitted
                      /\ Len(h.sent) <= MaxRedirects + 1
    BY Zenon DEF UpstreamsAccounted
  <1> DEFINE q == query[c]  h == http[c]
  <1>1. QueryStage(q) /\ HttpStage(h)
    BY DEF UpstreamsInv
  <1>2. q.op \in {"cap", "auditing", "failing", "answered"} =>
          q.connection \in {"none", "closed"} /\ ~q.transaction
    BY <1>1 DEF QueryStage
  <1>3. q.op = "answered" =>
          \/ q.error = "none" /\ q.audits = {"executed"} /\ Longest(q.rows, q.result, q.truncated)
          \/ q.error = "refused" /\ q.audits = {}
          \/ q.error \in Errors /\ ("failed" \in q.audits \/ q.unaudited)
    BY <1>1 DEF QueryStage
  <1>4. (\A n \in DOMAIN h.sent : h.sent[n] \in Admitted) /\ Len(h.sent) <= MaxRedirects + 1
    BY <1>1 DEF HttpStage
  <1> QED  BY <1>2, <1>3, <1>4 DEF Errors

-----------------------------------------------------------------------------
(* Storage and cache.                                                        *)
LEMMA IdsKept ==
  ASSUME IdsSpent, NEW c \in Callers, NEW op, Becomes(c, op), Operation(op),
         calls' \in {calls, calls + 1},
         Creating(op) => \/ op.at = calls + 1 /\ calls' = calls + 1
                         \/ Creating(kv[c]) /\ op.at = kv[c].at,
         \A n \in Found(op) :
           /\ n \in Nat /\ n <= calls
           /\ \A d \in Callers : Creating(kv[d]) /\ d # c => kv[d].at # n,
         \A k \in Stored' :
           \/ \E j \in Stored : entries'[k].id = entries[j].id
           \/ Creating(kv[c]) /\ ~Creating(op) /\ entries'[k].id = kv[c].at,
         op.op = "answered" => \A k \in Stored' : entries'[k].id \notin op.due
  PROVE  IdsSpent'
  <1>1. kv' = [d \in Callers |-> IF d = c THEN op ELSE kv[d]]
    BY DEF IdsSpent, Becomes
  <1>2. /\ calls \in Nat /\ calls' \in Nat /\ calls <= calls'
        /\ kv' = [d \in Callers |-> kv[d]'] /\ kv'[c] = op
        /\ \A d \in Callers : d # c => kv'[d] = kv[d]
    BY <1>1 DEF IdsSpent
  <1>3. ASSUME NEW d \in Callers
        PROVE  Operation(kv'[d]) /\ (Creating(kv'[d]) => kv'[d].at \in Nat /\ kv'[d].at <= calls')
    <2>1. Operation(kv[d]) /\ (Creating(kv[d]) => kv[d].at <= calls)
      BY DEF IdsSpent
    <2>2. Creating(kv[d]) => kv[d].at \in Nat
      BY <2>1 DEF Operation, Creating, Quiet, Answered
    <2>3. CASE d = c
      <3>1. Creating(op) => op.at \in Nat /\ op.at <= calls'
        BY <1>2, <2>1, <2>2, <2>3
      <3> QED  BY <1>2, <2>3, <3>1
    <2>4. CASE d # c
      <3>1. kv'[d] = kv[d]
        BY <1>2, <2>4
      <3>2. Creating(kv[d]) => kv[d].at <= calls'
        BY <1>2, <2>1, <2>2
      <3> QED  BY <2>1, <2>2, <3>1, <3>2
    <2> QED  BY <2>3, <2>4
  <1>4. ASSUME NEW d \in Callers, NEW e \in Callers, d # e,
               Creating(kv'[d]), Creating(kv'[e])
        PROVE  kv'[d].at # kv'[e].at
    <2>1. \A x \in Callers : Creating(kv[x]) => kv[x].at # calls + 1
      BY <1>2 DEF IdsSpent
    <2>2. CASE d # c /\ e # c
      BY <1>2, <1>4, <2>2 DEF IdsSpent
    <2>3. CASE d = c
      BY <1>2, <1>4, <2>1, <2>3 DEF IdsSpent
    <2>4. CASE e = c
      BY <1>2, <1>4, <2>1, <2>4 DEF IdsSpent
    <2> QED  BY <2>2, <2>3, <2>4
  <1>5. ASSUME NEW k \in Stored'
        PROVE  /\ entries'[k].id \in Nat /\ entries'[k].id <= calls
               /\ \A d \in Callers : Creating(kv'[d]) => kv'[d].at # entries'[k].id
    <2>1. CASE \E j \in Stored : entries'[k].id = entries[j].id
      <3> PICK j \in Stored : entries'[k].id = entries[j].id
        BY <2>1
      <3>1. /\ entries[j].id \in Nat /\ entries[j].id <= calls
            /\ \A d \in Callers : Creating(kv[d]) => kv[d].at # entries[j].id
        BY DEF IdsSpent
      <3>2. ASSUME NEW d \in Callers, Creating(kv'[d]) PROVE kv'[d].at # entries[j].id
        <4>1. CASE d = c
          BY <1>2, <3>1, <3>2, <4>1
        <4>2. CASE d # c
          BY <1>2, <3>1, <3>2, <4>2
        <4> QED  BY <4>1, <4>2
      <3> QED  BY <3>1, <3>2
    <2>2. CASE Creating(kv[c]) /\ ~Creating(op) /\ entries'[k].id = kv[c].at
      <3>1. Operation(kv[c]) /\ kv[c].at <= calls
        BY <2>2 DEF IdsSpent
      <3>2. kv[c].at \in Nat
        BY <2>2, <3>1 DEF Operation, Creating, Quiet, Answered
      <3>3. ASSUME NEW d \in Callers, Creating(kv'[d]) PROVE kv'[d].at # kv[c].at
        <4>1. d # c
          BY <1>2, <2>2, <3>3
        <4> QED  BY <1>2, <2>2, <3>3, <4>1 DEF IdsSpent
      <3> QED  BY <2>2, <3>1, <3>2, <3>3
    <2> QED  BY <2>1, <2>2
  <1>6. ASSUME NEW d \in Callers, NEW n \in Found(kv'[d])
        PROVE  /\ n \in Nat /\ n <= calls
               /\ \A e \in Callers : Creating(kv'[e]) => kv'[e].at # n
    <2>1. CASE d = c
      <3>1. n \in Found(op) /\ n \in Nat /\ n <= calls
            /\ \A e \in Callers : Creating(kv[e]) /\ e # c => kv[e].at # n
        BY <1>2, <1>6, <2>1
      <3>2. ~Creating(op)
        BY <3>1 DEF Creating, Found
      <3> QED  BY <1>2, <3>1, <3>2
    <2>2. CASE d # c
      <3>1. n \in Nat /\ n <= calls /\ \A e \in Callers : Creating(kv[e]) => kv[e].at # n
        BY <1>2, <1>6, <2>2 DEF IdsSpent
      <3>2. ASSUME NEW e \in Callers, Creating(kv'[e]) PROVE kv'[e].at # n
        <4>1. CASE e = c
          BY <1>2, <3>1, <3>2, <4>1
        <4>2. CASE e # c
          BY <1>2, <3>1, <3>2, <4>2
        <4> QED  BY <4>1, <4>2
      <3> QED  BY <3>1, <3>2
    <2> QED  BY <2>1, <2>2
  <1>7. ASSUME NEW d \in Callers, kv'[d].op = "answered", NEW k \in Stored'
        PROVE  entries'[k].id \notin kv'[d].due
    <2>1. CASE d = c
      BY <1>2, <1>7, <2>1
    <2>2. CASE d # c
      <3>1. kv'[d] = kv[d] /\ Found(kv[d]) = kv[d].due
        BY <1>2, <1>7, <2>2 DEF Found
      <3>2. \A j \in Stored : entries[j].id \notin kv[d].due
        BY <1>7, <3>1 DEF IdsSpent
      <3>3. Creating(kv[c]) => kv[c].at \notin kv[d].due
        BY <3>1 DEF IdsSpent
      <3> QED  BY <3>1, <3>2, <3>3
    <2> QED  BY <2>1, <2>2
  <1> QED  BY <1>2, <1>3, <1>4, <1>5, <1>6, <1>7 DEF IdsSpent

LEMMA AskedQuiet == AskedFor /\ UNCHANGED <<entries, cache, asked, now>> => AskedFor'
  BY DEF AskedFor, Stored, Cached, Due

\* Calls and answers that leave the entries alone.
LEMMA IdsQuiet ==
  ASSUME IdsSpent, NEW c \in Callers, NEW op, Becomes(c, op), Operation(op),
         UNCHANGED entries,
         calls' \in {calls, calls + 1},
         Creating(op) => \/ op.at = calls + 1 /\ calls' = calls + 1
                         \/ Creating(kv[c]) /\ op.at = kv[c].at,
         \A n \in Found(op) :
           /\ n \in Nat /\ n <= calls
           /\ \A d \in Callers : Creating(kv[d]) /\ d # c => kv[d].at # n,
         op.op = "answered" => \A k \in Stored : entries[k].id \notin op.due
  PROVE  IdsSpent'
  <1>1. Stored' = Stored
    BY DEF Stored
  <1> QED  BY <1>1, IdsKept

LEMMA TtlPositive ==
  ASSUME NEW ttl \in Ttls \cup {None} PROVE Ttl(ttl) \in Nat /\ Ttl(ttl) >= 1
  <1>1. DefaultTtl \in Nat /\ MaxTtl \in Nat /\ (ttl # None => ttl \in Nat)
    BY StorageAssumption
  <1> QED  BY <1>1 DEF Ttl, Greatest, Least

LEMMA DueInCache ==
  ASSUME NEW k
  PROVE  Due("cache", k) <=> /\ asked["cache"][k] # None
                             /\ now < asked["cache"][k].at + Ttl(asked["cache"][k].ttl)
  BY DEF Due, Ttl

LEMMA StorageStart == StorageInit /\ CallsInit => StorageInv
  <1> SUFFICES ASSUME StorageInit, CallsInit PROVE StorageInv
    OBVIOUS
  <1>1. PICK kept \in SUBSET Keys, value \in Contents :
          /\ entries = [k \in kept |-> [id |-> 0, value |-> value, expires |-> None]]
          /\ asked = [store \in {"storage", "cache"} |-> [k \in Keys |->
                        IF store = "storage" /\ k \in kept
                        THEN [ttl |-> None, value |-> value, at |-> 0, id |-> 0] ELSE None]]
          /\ cache = <<>> /\ kv = [c \in Callers |-> Quiet] /\ now = 0
    BY Zenon DEF StorageInit
  <1> DEFINE ask == [ttl |-> None, value |-> value, at |-> 0, id |-> 0]
  <1>2. ask \in Ask /\ ask # None
    BY StorageAssumption DEF Ask
  <1>3. ask.ttl = None /\ ask.value = value /\ ask.id = 0
    OBVIOUS
  <1>4. /\ asked["storage"] = [k \in Keys |-> IF k \in kept THEN ask ELSE None]
        /\ asked["cache"] = [k \in Keys |-> None] /\ DOMAIN asked = {"storage", "cache"}
        /\ asked = [store \in {"storage", "cache"} |-> asked[store]]
    BY <1>1
  <1> HIDE DEF ask
  <1>5. asked \in [{"storage", "cache"} -> [Keys -> Ask \cup {None}]]
    <2>1. \A store \in {"storage", "cache"} : asked[store] \in [Keys -> Ask \cup {None}]
      BY <1>2, <1>4
    <2> QED  BY <1>4, <2>1
  <1>6. Stored = kept /\ Cached = {} /\ calls = 0
    BY <1>1 DEF Stored, Cached, CallsInit
  <1>7. Stored = {k \in Keys : asked["storage"][k] # None}
    BY <1>2, <1>4, <1>6
  <1>8. \A k \in Keys : ~Due("cache", k)
    BY <1>4 DEF Due
  <1>9. AskedFor
    <2>1. ASSUME NEW k \in Stored
          PROVE  LET a == asked["storage"][k] IN
                 entries[k] = [id |-> a.id, value |-> a.value,
                               expires |-> IF a.ttl \in {None, 0} THEN None ELSE a.at + a.ttl]
      <3>1. asked["storage"][k] = ask
        BY <1>4, <1>6
      <3>2. entries[k] = [id |-> 0, value |-> value, expires |-> None]
        BY <1>1, <1>6
      <3> QED  BY <1>3, <3>1, <3>2
    <2>2. now \in Nat
      BY <1>1
    <2> QED  BY <1>5, <1>6, <1>7, <1>8, <2>1, <2>2 DEF AskedFor
  <1>10. IdsSpent
    <2>1. \A c \in Callers : kv[c] = Quiet
      BY <1>1
    <2>2. Operation(Quiet) /\ ~Creating(Quiet) /\ Found(Quiet) = {} /\ Quiet.op # "answered"
      BY DEF Operation, Creating, Found, Quiet
    <2>3. \A k \in Stored : entries[k].id = 0
      BY <1>1, <1>6
    <2> QED  BY <1>1, <1>6, <2>1, <2>2, <2>3 DEF IdsSpent
  <1> QED  BY <1>9, <1>10 DEF StorageInv

LEMMA StorageCallStep ==
  ASSUME StorageInv, NEW c \in Callers, NEW op \in StorageOps, StorageCall(c, op)
  PROVE  StorageInv'
  <1> DEFINE q == [do |-> op, op |-> IF namespace THEN "run" ELSE "namespace", at |-> calls + 1]
  <1>1. Becomes(c, q) /\ UNCHANGED <<entries, cache, asked, now>> /\ calls' = calls + 1
        /\ calls \in Nat
    BY DEF StorageCall, Makes, StorageInv, IdsSpent
  <1>2. Operation(q) /\ Creating(q) /\ Found(q) = {} /\ q.op # "answered" /\ q.at = calls + 1
    <2>1. q.op \in {"run", "namespace"}
      OBVIOUS
    <2> QED  BY <1>1, <2>1 DEF Operation, Creating, Found
  <1> HIDE DEF q
  <1>3. IdsSpent'
    BY <1>1, <1>2, IdsQuiet DEF StorageInv
  <1> QED  BY <1>1, <1>3, AskedQuiet DEF StorageInv

LEMMA CreateNamespaceStep ==
  ASSUME StorageInv, NEW c \in Callers, CreateNamespace(c)
  PROVE  StorageInv'
  <1> DEFINE q == [kv[c] EXCEPT !.op = "run"]
  <1>1. /\ UNCHANGED <<entries, cache, asked, now, calls>> /\ kv[c].op = "namespace"
        /\ Becomes(c, Quiet) \/ Becomes(c, q)
        /\ Operation(kv[c]) /\ Creating(kv[c])
    BY DEF CreateNamespace, boundVars, StorageInv, IdsSpent, Creating
  <1>2. Operation(q) /\ Creating(q) /\ Found(q) = {} /\ q.op # "answered" /\ q.at = kv[c].at
    <2>1. /\ kv[c] = [do |-> kv[c].do, op |-> kv[c].op, at |-> kv[c].at]
          /\ kv[c].do \in StorageOps /\ kv[c].at \in Nat
      BY <1>1 DEF Operation, Quiet, Answered
    <2>2. q = [do |-> kv[c].do, op |-> "run", at |-> kv[c].at]
      BY <2>1
    <2> QED  BY <2>1, <2>2 DEF Operation, Creating, Found
  <1>3. Operation(Quiet) /\ ~Creating(Quiet) /\ Found(Quiet) = {} /\ Quiet.op # "answered"
    BY DEF Operation, Creating, Found, Quiet
  <1> HIDE DEF q
  <1>4. IdsSpent'
    <2>1. CASE Becomes(c, Quiet)
      BY <1>1, <1>3, <2>1, IdsQuiet DEF StorageInv
    <2>2. CASE Becomes(c, q)
      BY <1>1, <1>2, <2>2, IdsQuiet DEF StorageInv
    <2> QED  BY <1>1, <2>1, <2>2
  <1> QED  BY <1>1, <1>4, AskedQuiet DEF StorageInv

\* An operation that only reads, and a cache read that finds its key or has
\* its producer run.
LEMMA ReadStep ==
  ASSUME StorageInv, NEW c \in Callers, NEW answer, Becomes(c, Answered({}, answer)),
         UNCHANGED <<entries, cache, asked, now>>, calls' \in {calls, calls + 1}
  PROVE  StorageInv'
  <1> DEFINE q == Answered({}, answer)
  <1>1. Operation(q) /\ ~Creating(q) /\ Found(q) = {} /\ q.due = {}
    BY DEF Operation, Creating, Found, Answered
  <1> HIDE DEF q
  <1>2. IdsSpent'
    BY <1>1, IdsQuiet DEF StorageInv, q
  <1> QED  BY <1>2, AskedQuiet DEF StorageInv

LEMMA ProduceStep ==
  ASSUME StorageInv, NEW c \in Callers, NEW k \in Keys, NEW value \in Contents, NEW ttl \in Ttls,
         GetOrSet(c, k, value, ttl)
  PROVE  StorageInv'
  <1> DEFINE q == [op |-> "produce", key |-> k, value |-> value, ttl |-> ttl]
  <1>1. /\ UNCHANGED <<entries, cache, asked, now>> /\ calls' = calls + 1
        /\ Becomes(c, q) \/ \E answer : Becomes(c, Answered({}, answer))
    BY DEF GetOrSet, Makes
  <1>2. Operation(q) /\ ~Creating(q) /\ Found(q) = {} /\ q.op # "answered"
    BY DEF Operation, Creating, Found
  <1> HIDE DEF q
  <1>3. CASE Becomes(c, q)
    <2>1. IdsSpent'
      BY <1>1, <1>2, <1>3, IdsQuiet DEF StorageInv
    <2> QED  BY <1>1, <2>1, AskedQuiet DEF StorageInv
  <1> QED  BY <1>1, <1>3, ReadStep

LEMMA DeleteFindStep ==
  ASSUME StorageInv, NEW c \in Callers, DeleteFind(c)
  PROVE  StorageInv'
  <1> DEFINE do == kv[c].do
             found == IF do.op = "delete" THEN {do.key} \cap Stored
                      ELSE FirstOf(do.pattern \cap Stored, do.limit)
             ids == {entries[k].id : k \in found}
             q == [op |-> "delete", ids |-> ids, keys |-> found, strict |-> do.op = "delete"]
  <1>1. /\ UNCHANGED <<entries, cache, asked, now, calls>>
        /\ Becomes(c, Answered({}, {})) \/ Becomes(c, q)
    BY DEF DeleteFind, boundVars
  <1>2. found \subseteq Stored
    BY DEF FirstOf
  <1>3. \A n \in ids : /\ n \in Nat /\ n <= calls
                       /\ \A d \in Callers : Creating(kv[d]) => kv[d].at # n
    <2> SUFFICES ASSUME NEW k \in found
                 PROVE  /\ entries[k].id \in Nat /\ entries[k].id <= calls
                        /\ \A d \in Callers : Creating(kv[d]) => kv[d].at # entries[k].id
      OBVIOUS
    <2>1. k \in Stored
      BY <1>2
    <2> QED  BY <2>1 DEF StorageInv, IdsSpent
  <1>4. Operation(q) /\ ~Creating(q) /\ Found(q) = ids /\ q.op # "answered"
    BY DEF Operation, Creating, Found
  <1> HIDE DEF q, ids
  <1>5. CASE Becomes(c, q)
    <2>1. IdsSpent'
      BY <1>1, <1>3, <1>4, <1>5, IdsQuiet DEF StorageInv
    <2> QED  BY <1>1, <2>1, AskedQuiet DEF StorageInv
  <1> QED  BY <1>1, <1>5, ReadStep

LEMMA StorageSetStep ==
  ASSUME StorageInv, NEW c \in Callers, StorageSet(c)
  PROVE  StorageInv'
  <1> DEFINE do == kv[c].do
             k == do.key
             id == IF k \in Stored THEN entries[k].id ELSE kv[c].at
             ask == [ttl |-> do.ttl, value |-> do.value, at |-> now, id |-> id]
             row == [id |-> id,
                     value |-> do.value, expires |-> ExpiresAt(k, do)]
  <1>1. /\ kv[c].op = "run" /\ do.op = "set" /\ Creating(kv[c]) /\ Operation(kv[c])
        /\ now \in Nat /\ AskedFor /\ IdsSpent
    BY DEF StorageSet, Runs, Creating, StorageInv, IdsSpent, AskedFor
  <1>2. k \in Keys /\ do.value \in Contents /\ do.ttl \in Ttls
    <2>1. do \in StorageOps
      BY <1>1 DEF Operation, Quiet, Answered
    <2> QED  BY <1>1, <2>1 DEF StorageOps
  <1>3. /\ entries' = Put(entries, k, row)
        /\ asked' = [asked EXCEPT !["storage"][k] = ask]
        /\ Becomes(c, Answered({}, {})) /\ UNCHANGED <<cache, now, calls>>
    BY ZenonT(30) DEF StorageSet, boundVars
  <1>4. ask \in Ask /\ ask # None
    <2>1. id \in Nat
      <3>1. Creating(kv[c]) => kv[c].at \in Nat
        BY <1>1 DEF Operation, Creating, Quiet, Answered
      <3> QED  BY <1>1, <3>1 DEF IdsSpent
    <2> HIDE DEF id
    <2> QED  BY <1>1, <1>2, <2>1, StorageAssumption DEF Ask
  <1>5. /\ row = [id |-> ask.id, value |-> ask.value,
                  expires |-> IF ask.ttl \in {None, 0} THEN None ELSE ask.at + ask.ttl]
        /\ row.id = IF k \in Stored THEN entries[k].id ELSE kv[c].at
    <2> HIDE DEF id
    <2>1. row = [id |-> ask.id, value |-> ask.value,
                 expires |-> IF ask.ttl \in {None, 0} THEN None ELSE ask.at + ask.ttl]
      BY DEF ExpiresAt
    <2>2. row.id = id
      OBVIOUS
    <2> QED  BY <2>1, <2>2 DEF id
  <1> HIDE DEF do, k, ask, row, id
  <1>6. /\ Stored' = Stored \cup {k} /\ entries'[k] = row
        /\ \A j \in Stored : j # k => entries'[j] = entries[j]
    BY <1>3 DEF Put, Stored
  <1>7. /\ asked' \in [{"storage", "cache"} -> [Keys -> Ask \cup {None}]]
        /\ asked'["storage"][k] = ask /\ asked'["cache"] = asked["cache"]
        /\ \A j \in Keys : j # k => asked'["storage"][j] = asked["storage"][j]
    BY <1>1, <1>2, <1>3, <1>4 DEF AskedFor
  <1>8. AskedFor'
    <2>1. Stored' = {j \in Keys : asked'["storage"][j] # None}
      BY <1>1, <1>2, <1>4, <1>6, <1>7 DEF AskedFor
    <2>2. ASSUME NEW j \in Stored'
          PROVE  LET a == asked'["storage"][j] IN
                 entries'[j] = [id |-> a.id, value |-> a.value,
                                expires |-> IF a.ttl \in {None, 0} THEN None ELSE a.at + a.ttl]
      <3>1. CASE j = k
        BY <1>5, <1>6, <1>7, <3>1
      <3>2. CASE j # k
        BY <1>1, <1>6, <1>7, <3>2 DEF AskedFor
      <3> QED  BY <3>1, <3>2
    <2>3. Cached' = Cached /\ \A j : Due("cache", j)' <=> Due("cache", j)
      BY <1>3, <1>7 DEF Cached, Due
    <2> QED  BY <1>1, <1>3, <1>7, <2>1, <2>2, <2>3 DEF AskedFor
  <1>9. IdsSpent'
    <2> DEFINE q == Answered({}, {})
    <2>1. Operation(q) /\ ~Creating(q) /\ Found(q) = {} /\ q.due = {}
      BY DEF Operation, Creating, Found, Answered
    <2> HIDE DEF q
    <2>2. \A j \in Stored' : \/ \E i \in Stored : entries'[j].id = entries[i].id
                             \/ Creating(kv[c]) /\ ~Creating(q) /\ entries'[j].id = kv[c].at
      BY <1>1, <1>5, <1>6, <2>1
    <2>3. Becomes(c, q) /\ calls' = calls
      BY <1>3 DEF q
    <2> QED  BY <1>1, <2>1, <2>2, <2>3, IdsKept
  <1> QED  BY <1>8, <1>9 DEF StorageInv

LEMMA DeleteFoundStep ==
  ASSUME StorageInv, NEW c \in Callers, DeleteFound(c)
  PROVE  StorageInv'
  <1> DEFINE gone == Gone(c)
  <1>1. kv[c].op = "delete" /\ UNCHANGED <<cache, now, calls>> /\ AskedFor /\ IdsSpent
    BY DEF DeleteFound, boundVars, StorageInv
  <1>2. Found(kv[c]) = kv[c].ids
    BY <1>1 DEF Found
  <1>g. gone = AskedOf(kv[c].ids) /\ gone \subseteq Stored
        /\ \A k \in Stored \ gone : entries[k].id \notin kv[c].ids
    <2>1. ASSUME NEW k \in Stored
          PROVE  k \in Keys /\ asked["storage"][k] # None /\ entries[k].id = asked["storage"][k].id
      <3>1. entries[k] = [id |-> asked["storage"][k].id, value |-> asked["storage"][k].value,
                          expires |-> IF asked["storage"][k].ttl \in {None, 0} THEN None
                                      ELSE asked["storage"][k].at + asked["storage"][k].ttl]
        BY <1>1 DEF AskedFor
      <3>2. entries[k].id = asked["storage"][k].id
        BY <3>1
      <3>3. k \in Keys /\ asked["storage"][k] # None
        BY <1>1 DEF AskedFor
      <3> QED  BY <3>2, <3>3
    <2>2. \A k \in Keys : asked["storage"][k] # None => k \in Stored
      BY <1>1 DEF AskedFor
    <2> QED  BY <2>1, <2>2 DEF Gone, AskedOf
  <1>3. CASE Becomes(c, Quiet) /\ UNCHANGED <<entries, asked>>
    <2>1. Operation(Quiet) /\ ~Creating(Quiet) /\ Found(Quiet) = {} /\ Quiet.op # "answered"
      BY DEF Operation, Creating, Found, Quiet
    <2>2. IdsSpent'
      BY <1>1, <1>3, <2>1, IdsQuiet
    <2> QED  BY <1>1, <1>3, <2>2, AskedQuiet DEF StorageInv
  <1>4. CASE /\ entries' = Without(entries, gone)
             /\ Forget("storage", gone)
             /\ Becomes(c, Answered(kv[c].ids, {}))
    <2> HIDE DEF gone
    <2> DEFINE q == Answered(kv[c].ids, {})
    <2>1. Operation(q) /\ ~Creating(q) /\ Found(q) = kv[c].ids /\ q.due = kv[c].ids
      BY DEF Operation, Creating, Found, Answered
    <2> HIDE DEF q
    <2>2. Stored' = Stored \ gone /\ \A k \in Stored' : entries'[k] = entries[k]
      BY <1>4 DEF Stored, Without
    <2>3. \A k \in Stored' : entries'[k].id \notin kv[c].ids
      BY <1>g, <2>2
    <2>4. IdsSpent'
      <3>1. Becomes(c, q) /\ calls' = calls
        BY <1>1, <1>4 DEF q
      <3>2. \A n \in Found(q) : /\ n \in Nat /\ n <= calls
                                /\ \A d \in Callers : Creating(kv[d]) => kv[d].at # n
        BY <1>1, <1>2, <2>1 DEF IdsSpent
      <3> QED  BY <1>1, <2>1, <2>2, <2>3, <3>1, <3>2, IdsKept
    <2>5. /\ asked' \in [{"storage", "cache"} -> [Keys -> Ask \cup {None}]]
          /\ asked'["cache"] = asked["cache"]
          /\ \A k \in Keys : asked'["storage"][k] = IF k \in gone THEN None ELSE asked["storage"][k]
      BY <1>1, <1>4 DEF Forget, AskedFor
    <2>6. AskedFor'
      <3>1. Stored' = {k \in Keys : asked'["storage"][k] # None}
        BY <1>1, <2>2, <2>5 DEF AskedFor
      <3>2. ASSUME NEW k \in Stored'
            PROVE  LET a == asked'["storage"][k] IN
                   entries'[k] = [id |-> a.id, value |-> a.value,
                                  expires |-> IF a.ttl \in {None, 0} THEN None ELSE a.at + a.ttl]
        <4>1. k \in Stored /\ k \notin gone /\ k \in Keys
          BY <1>1, <2>2 DEF AskedFor
        <4>2. entries'[k] = entries[k] /\ asked'["storage"][k] = asked["storage"][k]
          BY <2>2, <2>5, <4>1
        <4> QED  BY <1>1, <4>1, <4>2 DEF AskedFor
      <3>3. Cached' = Cached /\ \A k : Due("cache", k)' <=> Due("cache", k)
        BY <1>1, <2>5 DEF Cached, Due
      <3> QED  BY <1>1, <2>5, <3>1, <3>2, <3>3 DEF AskedFor
    <2> QED  BY <2>4, <2>6 DEF StorageInv
  <1> QED  BY <1>g, <1>3, <1>4, Zenon DEF DeleteFound

\* What the storage part of the invariant says does not depend on the cache.
LEMMA StoredKept ==
  ASSUME AskedFor, UNCHANGED <<entries, now>>, asked'["storage"] = asked["storage"],
         asked' \in [{"storage", "cache"} -> [Keys -> Ask \cup {None}]],
         Cached' = {k \in Keys : Due("cache", k)'},
         \A k \in Cached' : cache'[k].expires = asked'["cache"][k].at + Ttl(asked'["cache"][k].ttl)
  PROVE  AskedFor'
  BY DEF AskedFor, Stored

LEMMA CacheStoreStep ==
  ASSUME AskedFor, NEW k \in Keys, NEW value \in Contents, NEW ttl \in Ttls,
         CacheStore(k, value, ttl), UNCHANGED <<entries, now>>
  PROVE  AskedFor'
  <1> DEFINE ask == [ttl |-> ttl, value |-> value, at |-> now, id |-> 0]
             row == [value |-> value, expires |-> now + Ttl(ttl)]
  <1>1. /\ cache' = Put(cache, k, row)
        /\ asked' = [asked EXCEPT !["cache"][k] = ask]
    BY DEF CacheStore
  <1>2. now \in Nat /\ Ttl(ttl) \in Nat /\ Ttl(ttl) >= 1
    BY TtlPositive DEF AskedFor
  <1>3. ask \in Ask /\ ask # None /\ ask.at = now /\ ask.ttl = ttl
    BY <1>2, StorageAssumption DEF Ask
  <1>4. row.expires = now + Ttl(ttl)
    OBVIOUS
  <1> HIDE DEF ask, row
  <1>5. /\ asked' \in [{"storage", "cache"} -> [Keys -> Ask \cup {None}]]
        /\ asked'["storage"] = asked["storage"] /\ asked'["cache"][k] = ask
        /\ \A j \in Keys : j # k => asked'["cache"][j] = asked["cache"][j]
    BY <1>1, <1>3 DEF AskedFor
  <1>6. /\ Cached' = Cached \cup {k} /\ cache'[k] = row
        /\ \A j \in Cached : j # k => cache'[j] = cache[j]
    BY <1>1 DEF Put, Cached
  <1>7. ASSUME NEW j \in Keys
        PROVE  /\ j \in Cached' <=> Due("cache", j)'
               /\ j \in Cached' =>
                    cache'[j].expires = asked'["cache"][j].at + Ttl(asked'["cache"][j].ttl)
    <2>1. Due("cache", j)' <=> /\ asked'["cache"][j] # None
                               /\ now' < asked'["cache"][j].at + Ttl(asked'["cache"][j].ttl)
      BY DEF Due, Ttl
    <2>2. CASE j = k
      <3>1. now < now + Ttl(ttl)
        BY <1>2
      <3> QED  BY <1>3, <1>4, <1>5, <1>6, <2>1, <2>2, <3>1
    <2>3. CASE j # k
      <3>1. asked'["cache"][j] = asked["cache"][j] /\ (j \in Cached' <=> j \in Cached)
            /\ (j \in Cached => cache'[j] = cache[j])
        BY <1>5, <1>6, <2>3
      <3>2. (j \in Cached <=> Due("cache", j))
            /\ (j \in Cached => cache[j].expires
                                  = asked["cache"][j].at + Ttl(asked["cache"][j].ttl))
        BY DEF AskedFor
      <3> QED  BY <2>1, <3>1, <3>2, DueInCache
    <2> QED  BY <2>2, <2>3
  <1>8. Cached \subseteq Keys
    BY DEF AskedFor
  <1> QED  BY <1>5, <1>6, <1>7, <1>8, StoredKept

\* Keys dropped from the cache: by a deletion, or by a purge that matched them.
LEMMA CacheForgetStep ==
  ASSUME StorageInv, NEW c \in Callers, NEW ks, cache' = Without(cache, ks), Forget("cache", ks),
         Becomes(c, Answered({}, {})), UNCHANGED <<entries, now>>, calls' \in {calls, calls + 1}
  PROVE  StorageInv'
  <1>1. /\ cache' = Without(cache, ks) /\ Forget("cache", ks)
        /\ Becomes(c, Answered({}, {})) /\ UNCHANGED <<entries, now>> /\ AskedFor /\ IdsSpent
    BY DEF StorageInv
  <1>2. /\ asked' \in [{"storage", "cache"} -> [Keys -> Ask \cup {None}]]
        /\ asked'["storage"] = asked["storage"]
        /\ \A j \in Keys : asked'["cache"][j] = IF j \in ks THEN None ELSE asked["cache"][j]
    BY <1>1 DEF Forget, AskedFor
  <1>3. Cached' = Cached \ ks /\ \A j \in Cached' : cache'[j] = cache[j]
    BY <1>1 DEF Cached, Without
  <1>4. ASSUME NEW j \in Keys
        PROVE  /\ j \in Cached' <=> Due("cache", j)'
               /\ j \in Cached' =>
                    cache'[j].expires = asked'["cache"][j].at + Ttl(asked'["cache"][j].ttl)
    <2>1. Due("cache", j)' <=> /\ asked'["cache"][j] # None
                               /\ now' < asked'["cache"][j].at + Ttl(asked'["cache"][j].ttl)
      BY DEF Due, Ttl
    <2>2. CASE j \in ks
      BY <1>2, <1>3, <2>1, <2>2
    <2>3. CASE j \notin ks
      <3>1. asked'["cache"][j] = asked["cache"][j] /\ (j \in Cached' <=> j \in Cached)
            /\ (j \in Cached => cache'[j] = cache[j])
        BY <1>2, <1>3, <2>3
      <3>2. (j \in Cached <=> Due("cache", j))
            /\ (j \in Cached => cache[j].expires
                                  = asked["cache"][j].at + Ttl(asked["cache"][j].ttl))
        BY <1>1 DEF AskedFor
      <3> QED  BY <1>1, <2>1, <3>1, <3>2, DueInCache
    <2> QED  BY <2>2, <2>3
  <1>5. AskedFor'
    <2>1. Cached \subseteq Keys
      BY <1>1 DEF AskedFor
    <2> QED  BY <1>1, <1>2, <1>3, <1>4, <2>1, StoredKept
  <1>6. IdsSpent'
    <2> DEFINE q == Answered({}, {})
    <2>1. Operation(q) /\ ~Creating(q) /\ Found(q) = {} /\ q.due = {}
      BY DEF Operation, Creating, Found, Answered
    <2> HIDE DEF q
    <2> QED  BY <1>1, <2>1, IdsQuiet DEF q
  <1> QED  BY <1>5, <1>6 DEF StorageInv

LEMMA CacheDeleteStep ==
  ASSUME StorageInv, NEW c \in Callers, NEW k \in Keys, CacheDelete(c, k)
  PROVE  StorageInv'
  <1>1. /\ cache' = Without(cache, {k}) /\ Forget("cache", {k})
        /\ Becomes(c, Answered({}, {})) /\ UNCHANGED <<entries, now>> /\ calls' = calls + 1
    BY DEF CacheDelete, Makes
  <1> QED  BY <1>1, CacheForgetStep

LEMMA PurgeStep ==
  ASSUME StorageInv, NEW c \in Callers, Purge(c)
  PROVE  StorageInv'
  <1> DEFINE q == [op |-> "purge", keys |-> Cached]
  <1>1. Becomes(c, q) /\ UNCHANGED <<entries, cache, asked, now>> /\ calls' = calls + 1
    BY DEF Purge, MatchKeys, Makes
  <1>2. Operation(q) /\ ~Creating(q) /\ Found(q) = {} /\ q.op # "answered"
    BY DEF Operation, Creating, Found
  <1> HIDE DEF q
  <1>3. IdsSpent'
    BY <1>1, <1>2, IdsQuiet DEF StorageInv
  <1> QED  BY <1>1, <1>3, AskedQuiet DEF StorageInv

LEMMA PurgeUnlinkStep ==
  ASSUME StorageInv, NEW c \in Callers, PurgeUnlink(c)
  PROVE  StorageInv'
  <1> DEFINE ks == kv[c].keys
  <1>1. /\ cache' = Without(cache, ks) /\ Forget("cache", ks)
        /\ Becomes(c, Answered({}, {})) /\ UNCHANGED <<entries, now, calls>>
    BY DEF PurgeUnlink, boundVars
  <1> HIDE DEF ks
  <1> QED  BY <1>1, CacheForgetStep

LEMMA CacheSetStep ==
  ASSUME StorageInv, NEW c \in Callers, NEW k \in Keys, NEW value \in Contents, NEW ttl \in Ttls,
         CacheStore(k, value, ttl), NEW answer, Becomes(c, Answered({}, answer)),
         UNCHANGED <<entries, now>>, calls' \in {calls, calls + 1}
  PROVE  StorageInv'
  <1>1. AskedFor'
    BY CacheStoreStep DEF StorageInv
  <1>2. IdsSpent'
    <2> DEFINE q == Answered({}, answer)
    <2>1. Operation(q) /\ ~Creating(q) /\ Found(q) = {} /\ q.due = {}
      BY DEF Operation, Creating, Found, Answered
    <2> HIDE DEF q
    <2> QED  BY <2>1, IdsQuiet DEF q, StorageInv
  <1> QED  BY <1>1, <1>2 DEF StorageInv

LEMMA TickStep ==
  ASSUME StorageInv, Tick
  PROVE  StorageInv'
  <1>1. /\ now' = now + 1 /\ cache' = Without(cache, {k \in Cached : cache[k].expires <= now'})
        /\ UNCHANGED <<entries, kv, asked, calls>> /\ AskedFor /\ IdsSpent /\ now \in Nat
    BY DEF Tick, boundVars, StorageInv, AskedFor
  <1>2. /\ Cached' = {k \in Cached : ~ (cache[k].expires <= now')}
        /\ \A k \in Cached' : cache'[k] = cache[k]
    BY <1>1 DEF Cached, Without
  <1>3. ASSUME NEW k \in Keys
        PROVE  /\ k \in Cached' <=> Due("cache", k)'
               /\ k \in Cached' =>
                    cache'[k].expires = asked'["cache"][k].at + Ttl(asked'["cache"][k].ttl)
    <2>1. Due("cache", k)' <=> /\ asked'["cache"][k] # None
                               /\ now' < asked'["cache"][k].at + Ttl(asked'["cache"][k].ttl)
      BY DEF Due, Ttl
    <2>2. asked'["cache"][k] = asked["cache"][k] /\ now' = now + 1 /\ now \in Nat
      BY <1>1
    <2>3. /\ k \in Cached <=> /\ asked["cache"][k] # None
                              /\ now < asked["cache"][k].at + Ttl(asked["cache"][k].ttl)
          /\ k \in Cached => cache[k].expires
                               = asked["cache"][k].at + Ttl(asked["cache"][k].ttl)
      BY <1>1, DueInCache DEF AskedFor
    <2>4. CASE asked["cache"][k] = None
      BY <1>2, <2>1, <2>2, <2>3, <2>4
    <2>5. CASE asked["cache"][k] # None
      <3> DEFINE until == asked["cache"][k].at + Ttl(asked["cache"][k].ttl)
      <3>1. until \in Nat
        <4>1. asked["cache"][k] \in Ask
          BY <1>1, <2>5 DEF AskedFor
        <4>2. asked["cache"][k].ttl \in Ttls \cup {None} /\ asked["cache"][k].at \in Nat
          BY <4>1 DEF Ask
        <4> QED  BY <4>2, TtlPositive
      <3>2. /\ Due("cache", k)' <=> now + 1 < until
            /\ k \in Cached <=> now < until
            /\ k \in Cached => cache[k].expires = until
        BY <2>1, <2>2, <2>3, <2>5
      <3> HIDE DEF until
      <3>3. k \in Cached' <=> k \in Cached /\ ~ (until <= now + 1)
        BY <1>2, <2>2, <3>2
      <3>4. k \in Cached' => cache'[k].expires = until
        BY <1>2, <3>2
      <3> QED  BY <2>2, <3>1, <3>2, <3>3, <3>4 DEF until
    <2> QED  BY <2>4, <2>5
  <1>4. AskedFor'
    <2>1. Cached' \subseteq Keys
      BY <1>1, <1>2 DEF AskedFor
    <2>2. Stored' = Stored /\ now' \in Nat
      BY <1>1 DEF Stored
    <2> QED  BY <1>1, <1>3, <2>1, <2>2 DEF AskedFor
  <1>5. IdsSpent'
    BY <1>1 DEF IdsSpent, Stored
  <1> QED  BY <1>4, <1>5 DEF StorageInv

LEMMA ProducedStep ==
  ASSUME StorageInv, NEW c \in Callers, Produced(c)
  PROVE  StorageInv'
  <1> DEFINE q == kv[c]
  <1>1. /\ q.op = "produce" /\ CacheStore(q.key, q.value, q.ttl)
        /\ Becomes(c, Answered({}, {<<q.key, q.value>>})) /\ UNCHANGED <<entries, now, calls>>
    BY DEF Produced, boundVars
  <1>2. q.key \in Keys /\ q.value \in Contents /\ q.ttl \in Ttls
    <2>1. Operation(q)
      BY DEF StorageInv, IdsSpent
    <2> QED  BY <1>1, <2>1 DEF Operation, Creating, Quiet, Answered
  <1> HIDE DEF q
  <1> QED  BY <1>1, <1>2, CacheSetStep

LEMMA StorageStep ==
  ASSUME StorageInv, StorageNext
  PROVE  StorageInv'
  <1>1. CASE Tick
    BY <1>1, TickStep
  <1>2. ASSUME NEW c \in Callers, NEW op \in StorageOps, StorageCall(c, op) PROVE StorageInv'
    BY <1>2, StorageCallStep
  <1>3. ASSUME NEW c \in Callers,
               \/ CreateNamespace(c) \/ StorageGet(c) \/ StorageList(c) \/ StorageSet(c)
               \/ DeleteFind(c) \/ DeleteFound(c) \/ Produced(c)
               \/ Purge(c) \/ PurgeUnlink(c)
        PROVE  StorageInv'
    <2>1. CASE StorageGet(c)
      <3>1. /\ \E answer : Becomes(c, Answered({}, answer))
            /\ UNCHANGED <<entries, cache, asked, now>> /\ calls' = calls
        BY <2>1 DEF StorageGet, boundVars
      <3> QED  BY <3>1, ReadStep
    <2>2. CASE StorageList(c)
      <3>1. /\ \E answer : Becomes(c, Answered({}, answer))
            /\ UNCHANGED <<entries, cache, asked, now>> /\ calls' = calls
        BY <2>2 DEF StorageList, boundVars
      <3> QED  BY <3>1, ReadStep
    <2> QED  BY <1>3, <2>1, <2>2, CreateNamespaceStep, StorageSetStep, DeleteFindStep,
                DeleteFoundStep, ProducedStep, PurgeStep, PurgeUnlinkStep
  <1>4. ASSUME NEW c \in Callers, NEW k \in Keys, CacheGet(c, k) PROVE StorageInv'
    <2>1. /\ \E answer : Becomes(c, Answered({}, answer))
          /\ UNCHANGED <<entries, cache, asked, now>> /\ calls' = calls + 1
      BY <1>4 DEF CacheGet, Makes
    <2> QED  BY <2>1, ReadStep
  <1>5. ASSUME NEW c \in Callers, NEW k \in Keys, NEW value \in Contents, NEW ttl \in Ttls,
               CacheSet(c, k, value, ttl)
        PROVE  StorageInv'
    <2>1. /\ CacheStore(k, value, ttl) /\ Becomes(c, Answered({}, {}))
          /\ UNCHANGED <<entries, now>> /\ calls' = calls + 1
      BY <1>5 DEF CacheSet, Makes
    <2> QED  BY <2>1, CacheSetStep
  <1> QED  BY <1>1, <1>2, <1>3, <1>4, <1>5, CacheDeleteStep, ProduceStep
           DEF StorageNext, InspectorDelete, InspectorDeleteByMcp

LEMMA StorageQuiet ==
  ASSUME StorageInv, UNCHANGED storageVars, calls' \in {calls, calls + 1}
  PROVE  StorageInv'
  <1>1. AskedFor'
    BY AskedQuiet DEF StorageInv, storageVars
  <1>2. /\ calls \in Nat /\ calls' \in Nat /\ calls <= calls' /\ kv' = kv /\ entries' = entries
    BY DEF StorageInv, IdsSpent, storageVars
  <1>3. IdsSpent
    BY DEF StorageInv
  <1>4. ASSUME NEW c \in Callers, Creating(kv[c]) PROVE kv[c].at <= calls'
    <2>1. Operation(kv[c]) /\ kv[c].at <= calls
      BY <1>3, <1>4 DEF IdsSpent
    <2>2. kv[c].at \in Nat
      BY <1>4, <2>1 DEF Operation, Creating, Quiet, Answered
    <2> QED  BY <1>2, <2>1, <2>2
  <1>5. \A k \in Stored : entries[k].id \in Nat /\ entries[k].id <= calls'
    BY <1>2, <1>3 DEF IdsSpent
  <1>6. \A c \in Callers : \A n \in Found(kv[c]) : n \in Nat /\ n <= calls'
    BY <1>2, <1>3 DEF IdsSpent
  <1>7. Stored' = Stored
    BY <1>2 DEF Stored
  <1>8. IdsSpent'
    BY <1>2, <1>3, <1>4, <1>5, <1>6, <1>7 DEF IdsSpent
  <1> QED  BY <1>1, <1>8 DEF StorageInv

LEMMA StorageHolds == StorageInv => EntriesAsAsked
  <1> SUFFICES ASSUME StorageInv PROVE EntriesAsAsked
    OBVIOUS
  <1>1. AskedFor /\ IdsSpent
    BY DEF StorageInv
  <1>2. ASSUME NEW k \in Keys
        PROVE  /\ Alive(k) <=> Due("storage", k)
               /\ k \in Cached <=> Due("cache", k)
               /\ Alive(k) => entries[k].value = asked["storage"][k].value
    <2>1. CASE k \notin Stored
      BY <1>1, <2>1 DEF AskedFor, Alive, Due
    <2>2. CASE k \in Stored
      <3> DEFINE a == asked["storage"][k]
      <3>1. /\ a # None /\ a \in Ask /\ now \in Nat
            /\ entries[k] = [id |-> a.id, value |-> a.value,
                             expires |-> IF a.ttl \in {None, 0} THEN None ELSE a.at + a.ttl]
        BY <1>1, <2>2 DEF AskedFor
      <3>2. /\ entries[k].value = a.value
            /\ entries[k].expires = IF a.ttl \in {None, 0} THEN None ELSE a.at + a.ttl
        BY <3>1
      <3>3. a.at \in Nat /\ (a.ttl # None => a.ttl \in Nat) /\ None \notin Nat
        BY <3>1, StorageAssumption DEF Ask
      <3>4. Alive(k) <=> Due("storage", k)
        BY <2>2, <3>1, <3>2, <3>3 DEF Alive, Due
      <3> QED  BY <1>1, <3>2, <3>4 DEF AskedFor
    <2> QED  BY <2>1, <2>2
  <1>3. Stored \subseteq Keys
    BY <1>1 DEF AskedFor
  <1>4. ASSUME NEW c \in Callers, kv[c].op = "answered"
        PROVE  {entries[k].id : k \in Stored} \cap kv[c].due = {}
    BY <1>1, <1>4 DEF IdsSpent
  <1> QED  BY <1>2, <1>3, <1>4 DEF EntriesAsAsked

-----------------------------------------------------------------------------
(* Records.                                                                  *)
Ledger == <<log, Removed, shown>>
RecordStep == RecordsInv' /\ (RecordHistory!LedgerNext \/ UNCHANGED Ledger)

LEMMA RecordsStart == CollectionInit => RecordsInv /\ RecordHistory!LedgerInit
  <1> SUFFICES ASSUME CollectionInit PROVE RecordsInv /\ RecordHistory!LedgerInit
    OBVIOUS
  <1>1. log \in [Ids -> Seq(Field)] /\ \A i \in Ids : log[i] # <<>> => Len(log[i]) = 1
    <2>1. CASE "definitions" \in subject \/ "records" \notin subject
      <3>1. log = [i \in Ids |-> <<>>]
        BY <2>1, Zenon DEF CollectionInit
      <3> QED  BY <3>1
    <2>2. CASE ~ ("definitions" \in subject \/ "records" \notin subject)
      <3>1. PICK there, value :
              /\ value \in [there -> Field]
              /\ log = [i \in Ids |-> IF i \in there THEN <<value[i]>> ELSE <<>>]
        <4>1. \E there : \E value \in [there -> Field] :
                log = [i \in Ids |-> IF i \in there THEN <<value[i]>> ELSE <<>>]
          <5>1. \E there \in IF "paging" \in subject
                              THEN {j \in SUBSET Ids : Cardinality(Ids \ j) = 1}
                              ELSE {{CHOOSE j \in Ids : TRUE}} :
                \E value \in [there -> Field] :
                  /\ definitions[1].required => \A i \in there : value[i] # None
                  /\ unique => \A i, j \in there :
                       value[i] = value[j] /\ value[i] # None => i = j
                  /\ log = [i \in Ids |-> IF i \in there THEN <<value[i]>> ELSE <<>>]
            BY <2>2, Zenon DEF CollectionInit
          <5> QED  BY <5>1, ZenonT(30)
        <4> QED  BY <4>1, ZenonT(30)
      <3>2. ASSUME NEW i \in Ids
            PROVE  log[i] \in Seq(Field) /\ (log[i] # <<>> => Len(log[i]) = 1)
        BY <3>1
      <3> QED  BY <3>1, <3>2
    <2> QED  BY <2>1, <2>2
  <1>2. /\ records \in [{i \in Ids : log[i] # <<>>} ->
                         [value : Field, revision : {1}, version : {1}, createdAt : {0}]]
        /\ shown = [c \in Callers |-> [i \in Ids |-> Len(log[i])]]
    BY DEF CollectionInit
  <1>3. /\ Existing = {i \in Ids : log[i] # <<>>}
        /\ \A i \in Existing : Row(records[i]) /\ records[i].revision = 1
    BY <1>2 DEF Existing, Row
  <1>4. shown \in [Callers -> [Ids -> Nat]] /\ \A c \in Callers, i \in Ids : shown[c][i] <= Len(log[i])
    BY <1>1, <1>2
  <1>5. Removed = {}
    BY <1>3 DEF Removed
  <1> QED  BY <1>1, <1>3, <1>4, <1>5 DEF RecordsInv, RecordHistory!LedgerInit

LEMMA RecordsQuiet == RecordsInv /\ UNCHANGED <<records, log, shown>> => RecordStep
  BY DEF RecordsInv, RecordStep, Ledger, Removed, Existing

LEMMA CreateLedger ==
  ASSUME RecordsInv, NEW c \in Callers, NEW i \in Ids, NEW value \in Field, Create(c, i, value)
  PROVE  RecordStep
  <1> DEFINE row == [value |-> value, revision |-> 1, version |-> pinned[c].version,
                     createdAt |-> calls]
  <1>1. /\ records' = [j \in Existing \cup {i} |-> IF j # i THEN records[j] ELSE row]
        /\ log[i] = <<>> /\ log' = [log EXCEPT ![i] = <<value>>]
        /\ shown' = [shown EXCEPT ![c][i] = 1]
    BY DEF Create
  <1>2. Row(row) /\ row.revision = 1
    BY DEF Row
  <1> HIDE DEF row
  <1>3. /\ Existing' = Existing \cup {i} /\ records'[i] = row /\ i \notin Existing
        /\ \A j \in Existing : records'[j] = records[j]
    <2>1. i \notin Existing
      BY <1>1 DEF RecordsInv
    <2> QED  BY <1>1, <2>1 DEF Existing
  <1>4. /\ log' \in [Ids -> Seq(Field)] /\ log'[i] = <<value>>
        /\ \A j \in Ids \ {i} : log'[j] = log[j]
    BY <1>1 DEF RecordsInv
  <1>5. RecordsInv'
    <2>1. shown' \in [Callers -> [Ids -> Nat]]
      BY <1>1 DEF RecordsInv
    <2>2. ASSUME NEW j \in Existing'
          PROVE  /\ j \in Ids /\ log'[j] # <<>> /\ Row(records[j])'
                 /\ records'[j].revision = Len(log'[j])
      <3>1. CASE j = i
        <4>1. records'[j] = row /\ log'[j] = <<value>>
          BY <1>3, <1>4, <3>1
        <4>2. Row(records'[j])
          BY <1>2, <4>1
        <4> QED  BY <1>2, <4>1, <4>2, <3>1
      <3>2. CASE j # i
        BY <1>3, <1>4, <2>2, <3>2 DEF RecordsInv, Row
      <3> QED  BY <3>1, <3>2
    <2> QED  BY <1>4, <2>1, <2>2 DEF RecordsInv
  <1>6. Removed' = Removed
    <2>1. <<value>> # <<>>
      OBVIOUS
    <2> QED  BY <1>1, <1>3, <1>4, <2>1 DEF Removed
  <1>7. RecordHistory!AddAndLook(c, i, value)
    BY <1>1, <1>6 DEF RecordHistory!AddAndLook, RecordHistory!Add
  <1>8. RecordHistory!LedgerNext
    BY <1>7 DEF RecordHistory!LedgerNext
  <1> QED  BY <1>5, <1>8 DEF RecordStep

LEMMA UpdateLedger ==
  ASSUME RecordsInv, NEW c \in Callers, NEW i \in Ids, NEW value \in Field, Update(c, i, value)
  PROVE  RecordStep
  <1> DEFINE row == Replaced(c, records[i], value)
  <1>1. /\ i \in Existing /\ shown[c][i] = records[i].revision
        /\ records' = [records EXCEPT ![i] = row]
        /\ log' = [log EXCEPT ![i] = Append(@, value)] /\ UNCHANGED shown
    BY DEF Update, Matches
  <1>2. /\ records[i].revision = Len(log[i]) /\ log[i] # <<>> /\ log[i] \in Seq(Field)
        /\ Len(log[i]) \in Nat /\ Len(log[i]) > 0
    <2>1. records[i].revision = Len(log[i]) /\ log[i] # <<>> /\ log[i] \in Seq(Field)
      BY <1>1 DEF RecordsInv
    <2> QED  BY <2>1
  <1>3. Row(row) /\ row.revision = Len(log[i]) + 1
    <2>1. PICK old : old = records[i]
      OBVIOUS
    <2>2. old = [value |-> old.value, revision |-> old.revision, version |-> old.version,
                 createdAt |-> old.createdAt]
      BY <1>1, <2>1 DEF RecordsInv, Row
    <2>3. row = [value |-> value, revision |-> old.revision + 1, version |-> pinned[c].version,
                 createdAt |-> old.createdAt]
      <3>1. row = [old EXCEPT !.value = value, !.revision = old.revision + 1,
                              !.version = pinned[c].version]
        BY <2>1 DEF Replaced
      <3> HIDE DEF row
      <3> QED  BY <2>2, <3>1, Zenon
    <2> HIDE DEF row
    <2>4. Row(row) /\ row.revision = old.revision + 1
      BY <2>3 DEF Row
    <2> QED  BY <1>2, <2>1, <2>4
  <1> HIDE DEF row
  <1>4. /\ Existing' = Existing /\ records'[i] = row
        /\ \A j \in Existing : j # i => records'[j] = records[j]
    BY <1>1 DEF Existing
  <1>5. PICK new : new = Append(log[i], value)
    OBVIOUS
  <1>6. new \in Seq(Field) /\ new # <<>> /\ Len(new) = Len(log[i]) + 1
    BY <1>2, <1>5
  <1>7. /\ log' \in [Ids -> Seq(Field)] /\ log'[i] = new
        /\ \A j \in Ids \ {i} : log'[j] = log[j]
    BY <1>1, <1>5, <1>6 DEF RecordsInv
  <1>8. RecordsInv'
    <2>1. ASSUME NEW j \in Existing'
          PROVE  /\ j \in Ids /\ log'[j] # <<>> /\ Row(records[j])'
                 /\ records'[j].revision = Len(log'[j])
      <3>1. CASE j = i
        <4>1. records'[j] = row /\ log'[j] = new
          BY <1>4, <1>7, <3>1
        <4>2. Row(records'[j])
          BY <1>3, <4>1
        <4> QED  BY <1>3, <1>6, <3>1, <4>1, <4>2
      <3>2. CASE j # i
        <4>1. j \in Existing /\ j \in Ids /\ records'[j] = records[j]
          BY <1>4, <2>1, <3>2 DEF RecordsInv
        <4>2. log'[j] = log[j]
          BY <1>7, <3>2, <4>1
        <4>3. Row(records[j]) /\ log[j] # <<>> /\ records[j].revision = Len(log[j])
          BY <4>1 DEF RecordsInv
        <4> QED  BY <4>1, <4>2, <4>3 DEF Row
      <3> QED  BY <3>1, <3>2
    <2> QED  BY <1>1, <1>7, <2>1 DEF RecordsInv
  <1>9. Removed' = Removed /\ i \notin Removed
    BY <1>1, <1>2, <1>4, <1>6, <1>7 DEF Removed
  <1>10. RecordHistory!Replace(c, i, value)
    BY <1>1, <1>2, <1>9 DEF RecordHistory!Replace, RecordHistory!UpToDate
  <1>11. RecordHistory!LedgerNext
    BY <1>10 DEF RecordHistory!LedgerNext
  <1> QED  BY <1>8, <1>11 DEF RecordStep

LEMMA DeleteLedger ==
  ASSUME RecordsInv, NEW c \in Callers, NEW i \in Ids, Delete(c, i)
  PROVE  RecordStep
  <1>1. /\ i \in Existing /\ shown[c][i] = records[i].revision
        /\ records' = [j \in Existing \ {i} |-> records[j]] /\ UNCHANGED <<log, shown>>
    BY DEF Delete, Matches
  <1>2. records[i].revision = Len(log[i]) /\ log[i] # <<>> /\ Len(log[i]) > 0
    <2>1. records[i].revision = Len(log[i]) /\ log[i] # <<>> /\ log[i] \in Seq(Field)
      BY <1>1 DEF RecordsInv
    <2> QED  BY <2>1
  <1>3. Existing' = Existing \ {i} /\ \A j \in Existing' : records'[j] = records[j]
    BY <1>1 DEF Existing
  <1>4. RecordsInv'
    BY <1>1, <1>3 DEF RecordsInv, Row
  <1>5. Removed' = Removed \cup {i} /\ i \notin Removed
    BY <1>1, <1>2, <1>3 DEF Removed
  <1>6. RecordHistory!Remove(c, i)
    BY <1>1, <1>2, <1>5 DEF RecordHistory!Remove, RecordHistory!UpToDate
  <1>7. RecordHistory!LedgerNext
    BY <1>6 DEF RecordHistory!LedgerNext
  <1> QED  BY <1>4, <1>7 DEF RecordStep

\* Whoever is shown records that exist learns their newest revision.
LEMMA LookLedger ==
  ASSUME RecordsInv, NEW c \in Callers, NEW seen \in SUBSET Existing, UNCHANGED <<records, log>>,
         shown' = [shown EXCEPT ![c] = [i \in Ids |->
                     IF i \in seen THEN records[i].revision ELSE @[i]]]
  PROVE  RecordStep
  <1>1. \A i \in seen : i \in Ids /\ records[i].revision = Len(log[i]) /\ Len(log[i]) \in Nat
    <2> SUFFICES ASSUME NEW i \in seen
                 PROVE  i \in Ids /\ records[i].revision = Len(log[i]) /\ Len(log[i]) \in Nat
      OBVIOUS
    <2>1. i \in Ids /\ records[i].revision = Len(log[i]) /\ log[i] \in Seq(Field)
      BY DEF RecordsInv
    <2> QED  BY <2>1
  <1>2. shown' = [shown EXCEPT ![c] = [i \in Ids |-> IF i \in seen THEN Len(log[i]) ELSE @[i]]]
    BY <1>1
  <1>3. shown' \in [Callers -> [Ids -> Nat]]
    BY <1>1, <1>2 DEF RecordsInv
  <1>4. RecordsInv' /\ Removed' = Removed
    BY <1>3 DEF RecordsInv, Removed, Existing
  <1>5. seen \in SUBSET Ids /\ seen \subseteq Ids \ Removed
    BY <1>1 DEF Removed
  <1>6. RecordHistory!Look(c, seen)
    BY <1>2, <1>4, <1>5 DEF RecordHistory!Look
  <1>7. RecordHistory!LedgerNext
    BY <1>5, <1>6 DEF RecordHistory!LedgerNext
  <1> QED  BY <1>4, <1>7 DEF RecordStep

LEMMA ShowOne ==
  ASSUME RecordsInv, NEW c \in Callers, NEW i \in Existing, UNCHANGED <<records, log>>,
         shown' = [shown EXCEPT ![c][i] = records[i].revision]
  PROVE  RecordStep
  <1>1. i \in Ids /\ shown[c] \in [Ids -> Nat]
    BY DEF RecordsInv
  <1>2. shown' = [shown EXCEPT ![c] = [j \in Ids |->
                    IF j \in {i} THEN records[j].revision ELSE @[j]]]
    BY <1>1 DEF RecordsInv
  <1>3. {i} \in SUBSET Existing
    OBVIOUS
  <1> QED  BY <1>2, <1>3, LookLedger

LEMMA QueryLedger ==
  ASSUME RecordsInv, NEW c \in Callers, Query(c)
  PROVE  RecordStep
  <1> DEFINE s == scan[c]
             page == Page(s.order, Matching(s.order, s.cursor), s.limit)
             returned == {row.id : row \in page}
  <1>1. /\ UNCHANGED <<records, log>>
        /\ shown' = [shown EXCEPT ![c] = [i \in Ids |->
                       IF i \in returned THEN records[i].revision ELSE @[i]]]
    BY DEF Query, recordVars
  <1>2. returned \subseteq Existing
    <2>1. page \subseteq {RowOf(i) : i \in Existing}
      BY DEF Page, Matching
    <2>2. \A i : RowOf(i).id = i
      BY DEF RowOf
    <2> QED  BY <2>1, <2>2
  <1> HIDE DEF returned
  <1> QED  BY <1>1, <1>2, LookLedger

LEMMA RecordsStep ==
  ASSUME RecordsInv, CollectionNext
  PROVE  RecordStep
  <1>1. ASSUME NEW d \in Definition, CreateCollection(d) \/ CreateCollectionByMcp(d) PROVE RecordStep
    BY <1>1, RecordsQuiet
    DEF CreateCollection, CreateCollectionByMcp, recordVars, callerVars
  <1>2. ASSUME NEW granted \in Grants, SetGrant(granted) \/ SetGrantByMcp(granted) PROVE RecordStep
    BY <1>2, RecordsQuiet DEF SetGrant, SetGrantByMcp, recordVars, callerVars
  <1>3. CASE DeleteGrant \/ DeleteGrantByMcp \/ Build \/ Activate
    BY <1>3, RecordsQuiet DEF DeleteGrant, DeleteGrantByMcp, Build, Activate, recordVars, callerVars
  <1>4. ASSUME NEW c \in Callers, NEW d \in Definition, VersionRead(c, d) \/ VersionReadByMcp(c, d)
        PROVE  RecordStep
    BY <1>4, RecordsQuiet DEF VersionRead, VersionReadByMcp, recordVars
  <1>5. ASSUME NEW c \in Callers, CreateVersion(c) \/ CreateVersionByMcp(c) \/ Begin(c) PROVE RecordStep
    BY <1>5, RecordsQuiet DEF CreateVersion, CreateVersionByMcp, Begin, recordVars
  <1>6. ASSUME NEW c \in Callers, UpdateAnswer(c) PROVE RecordStep
    <2>1. CASE call[c].id \in Existing
      BY <1>6, <2>1, ShowOne DEF UpdateAnswer, recordVars
    <2>2. CASE call[c].id \notin Existing
      BY <1>6, <2>2, RecordsQuiet DEF UpdateAnswer, recordVars
    <2> QED  BY <2>1, <2>2
  <1>7. ASSUME NEW c \in Callers, FunctionQuery(c) \/ ConsoleQuery(c) \/ AgentQuery(c)
        PROVE  RecordStep
    BY <1>7, QueryLedger DEF FunctionQuery, ConsoleQuery, AgentQuery
  <1>8. ASSUME NEW c \in Callers, NEW order \in Orders, NEW limit \in Limits,
               StartScan(c, order, limit)
        PROVE  RecordStep
    BY <1>8, RecordsQuiet DEF StartScan, recordVars
  <1>9. ASSUME NEW c \in Callers, NEW i \in Ids, Get(c, i) PROVE RecordStep
    BY <1>9, ShowOne DEF Get, recordVars
  <1>10. ASSUME NEW c \in Callers, NEW i \in Ids,
                FunctionDelete(c, i) \/ ConsoleDelete(c, i) \/ AgentDelete(c, i)
         PROVE  RecordStep
    BY <1>10, DeleteLedger DEF FunctionDelete, ConsoleDelete, AgentDelete
  <1>11. ASSUME NEW c \in Callers, NEW i \in Ids, NEW value \in Field,
                \/ FunctionCreate(c, i, value) \/ ConsoleCreate(c, i, value)
                \/ AgentCreate(c, i, value)
         PROVE  RecordStep
    BY <1>11, CreateLedger DEF FunctionCreate, ConsoleCreate, AgentCreate
  <1>12. ASSUME NEW c \in Callers, NEW i \in Ids, NEW value \in Field,
                \/ FunctionUpdate(c, i, value) \/ ConsoleUpdate(c, i, value)
                \/ AgentUpdate(c, i, value)
         PROVE  RecordStep
    BY <1>12, UpdateLedger DEF FunctionUpdate, ConsoleUpdate, AgentUpdate
  <1> QED  BY <1>1, <1>2, <1>3, <1>4, <1>5, <1>6, <1>7, <1>8, <1>9, <1>10, <1>11, <1>12
           DEF CollectionNext

-----------------------------------------------------------------------------
(* Every step of a part counts at most one call.                             *)
Counts == calls' \in {calls, calls + 1}

LEMMA CollectionCounts == CollectionNext => Counts
  <1> SUFFICES ASSUME CollectionNext PROVE Counts
    OBVIOUS
  <1>1. (\A about : Makes(about) => Counts) /\ (UNCHANGED boundVars => Counts)
    BY DEF Makes, boundVars, Counts
  <1>2. \A d : CreateCollection(d) \/ CreateCollectionByMcp(d) => Counts
    BY <1>1 DEF CreateCollection, CreateCollectionByMcp
  <1>3. \A granted : SetGrant(granted) \/ SetGrantByMcp(granted) => Counts
    BY <1>1 DEF SetGrant, SetGrantByMcp
  <1>4. DeleteGrant \/ DeleteGrantByMcp \/ Build \/ Activate => Counts
    BY <1>1 DEF DeleteGrant, DeleteGrantByMcp, Build, Activate
  <1>5. \A c, d : VersionRead(c, d) \/ VersionReadByMcp(c, d) => Counts
    BY <1>1 DEF VersionRead, VersionReadByMcp
  <1>6. \A c : CreateVersion(c) \/ CreateVersionByMcp(c) \/ Begin(c) \/ UpdateAnswer(c) => Counts
    BY <1>1 DEF CreateVersion, CreateVersionByMcp, Begin, UpdateAnswer
  <1>7. \A c : FunctionQuery(c) \/ ConsoleQuery(c) \/ AgentQuery(c) => Counts
    BY <1>1 DEF FunctionQuery, ConsoleQuery, AgentQuery, Query
  <1>8. \A c, order, limit : StartScan(c, order, limit) => Counts
    BY <1>1 DEF StartScan
  <1>9. \A c, i : Get(c, i) \/ FunctionDelete(c, i) \/ ConsoleDelete(c, i) \/ AgentDelete(c, i)
                    => Counts
    BY <1>1 DEF Get, FunctionDelete, ConsoleDelete, AgentDelete, Delete
  <1>10. \A c, i, value :
           FunctionCreate(c, i, value) \/ ConsoleCreate(c, i, value) \/ AgentCreate(c, i, value)
             => Counts
    BY <1>1 DEF FunctionCreate, ConsoleCreate, AgentCreate, Create
  <1>11. \A c, i, value :
           FunctionUpdate(c, i, value) \/ ConsoleUpdate(c, i, value) \/ AgentUpdate(c, i, value)
             => Counts
    BY <1>1 DEF FunctionUpdate, ConsoleUpdate, AgentUpdate, Update
  <1> QED  BY <1>2, <1>3, <1>4, <1>5, <1>6, <1>7, <1>8, <1>9, <1>10, <1>11 DEF CollectionNext

LEMMA LogsCount == LogsNext => Counts
  BY DEF Counts, LogsNext, Makes, boundVars, Age, BeginRun, Log, Stream, Complete, SaveAll, PruneAge,
         PruneCount, PruneFind, PruneOverflow, PruneSize, ShrinkFind, ShrinkDrop, RunFails, LogPage,
         ListLogs

LEMMA UpstreamsCount == UpstreamsNext => Counts
  BY DEF Counts, UpstreamsNext, Makes, boundVars, Abort, Refuse, QueryBegin, Step, Resolve, Connect,
         BeginTransaction, LimitTime, RunQuery, Rollback, Undo, End, Cap, AuditSuccess,
         AuditFailure, RefuseRequest, Check, Send, Responds, Request, Redirected

LEMMA SandboxCounts == SandboxNext => Counts
  BY DEF Counts, SandboxNext, Makes, boundVars, Execute, WriteFile, Spawn, RequestRemoval,
         RemovalFails, RemoveFiles, DaemonCreates, ClientStarts, DaemonStarts, DaemonRemoves,
         ClientExits, Boot, ReadByCode, CallCapability, Rpc, CodeEnds, HandleReady, HandleRpc, HandleEnd,
         Cancel, GraceEnds, AnswerRpc

-----------------------------------------------------------------------------
(* The parts together: a step of one leaves the others' state alone.         *)
CapabilitiesInv == SandboxInv /\ UpstreamsInv /\ StorageInv /\ RecordsInv

LEMMA PartsQuiet ==
  /\ SandboxInv /\ UNCHANGED sandboxVars => SandboxInv'
  /\ UpstreamsInv /\ UNCHANGED upstreamVars => UpstreamsInv'
  /\ RecordsInv /\ UNCHANGED collectionVars => RecordStep
  <1>1. SandboxInv /\ UNCHANGED sandboxVars => SandboxInv'
    BY DEF sandboxVars, SandboxInv, HostAndClient, LocalChild, Container, CancelKept, Local,
           Running, CancelUnread
  <1>2. UpstreamsInv /\ UNCHANGED upstreamVars => UpstreamsInv'
    BY UpstreamsQuiet DEF upstreamVars
  <1>3. RecordsInv /\ UNCHANGED collectionVars => RecordStep
    BY RecordsQuiet DEF collectionVars, recordVars, callerVars
  <1> QED  BY <1>1, <1>2, <1>3

LEMMA CapabilitiesStart == Init => CapabilitiesInv /\ RecordHistory!LedgerInit
  BY SandboxInit0, UpstreamsStart, StorageStart, RecordsStart DEF Init, CapabilitiesInv

LEMMA CapabilitiesStep ==
  ASSUME CapabilitiesInv, [Next]_vars
  PROVE  CapabilitiesInv' /\ RecordStep
  <1>1. SandboxInv /\ UpstreamsInv /\ StorageInv /\ RecordsInv
    BY DEF CapabilitiesInv
  <1>2. CASE CollectionNext /\ UNCHANGED <<storageVars, logVars, upstreamVars, sandboxVars>>
    <2>1. UNCHANGED storageVars /\ UNCHANGED upstreamVars /\ UNCHANGED sandboxVars
      BY <1>2
    <2>2. calls' \in {calls, calls + 1}
      BY <1>2, CollectionCounts DEF Counts
    <2> QED  BY <1>1, <1>2, <2>1, <2>2, PartsQuiet, StorageQuiet, RecordsStep
             DEF CapabilitiesInv, RecordStep
  <1>3. CASE StorageNext /\ UNCHANGED <<collectionVars, logVars, upstreamVars, sandboxVars>>
    <2>1. UNCHANGED collectionVars /\ UNCHANGED upstreamVars /\ UNCHANGED sandboxVars
      BY <1>3
    <2> QED  BY <1>1, <1>3, <2>1, PartsQuiet, StorageStep DEF CapabilitiesInv, RecordStep
  <1>4. CASE LogsNext /\ UNCHANGED <<collectionVars, storageVars, upstreamVars, sandboxVars>>
    <2>1. /\ UNCHANGED collectionVars /\ UNCHANGED storageVars /\ UNCHANGED upstreamVars
          /\ UNCHANGED sandboxVars
      BY <1>4
    <2>2. calls' \in {calls, calls + 1}
      BY <1>4, LogsCount DEF Counts
    <2> QED  BY <1>1, <2>1, <2>2, PartsQuiet, StorageQuiet DEF CapabilitiesInv, RecordStep
  <1>5. CASE UpstreamsNext /\ UNCHANGED <<collectionVars, storageVars, logVars, sandboxVars>>
    <2>1. UNCHANGED collectionVars /\ UNCHANGED storageVars /\ UNCHANGED sandboxVars
      BY <1>5
    <2>2. calls' \in {calls, calls + 1}
      BY <1>5, UpstreamsCount DEF Counts
    <2> QED  BY <1>1, <1>5, <2>1, <2>2, PartsQuiet, StorageQuiet, UpstreamsStep
             DEF CapabilitiesInv, RecordStep
  <1>6. CASE SandboxNext /\ UNCHANGED <<collectionVars, storageVars, logVars, upstreamVars>>
    <2>1. UNCHANGED collectionVars /\ UNCHANGED storageVars /\ UNCHANGED upstreamVars
      BY <1>6
    <2>2. calls' \in {calls, calls + 1}
      BY <1>6, SandboxCounts DEF Counts
    <2> QED  BY <1>1, <1>6, <2>1, <2>2, PartsQuiet, StorageQuiet, SandboxStep
             DEF CapabilitiesInv, RecordStep
  <1>7. CASE UNCHANGED vars
    <2>1. /\ UNCHANGED collectionVars /\ UNCHANGED storageVars /\ UNCHANGED upstreamVars
          /\ UNCHANGED sandboxVars /\ calls' \in {calls, calls + 1}
      BY <1>7 DEF vars, boundVars
    <2> QED  BY <1>1, <2>1, PartsQuiet, StorageQuiet DEF CapabilitiesInv, RecordStep
  <1> QED  BY <1>2, <1>3, <1>4, <1>5, <1>6, <1>7 DEF Next

(* The four inductive invariants hold in every behaviour of the composed     *)
(* runtime, for every number of callers, calls, keys and records.            *)
THEOREM CapabilitiesStay == Spec => []CapabilitiesInv
  <1>1. Init => CapabilitiesInv
    BY CapabilitiesStart
  <1>2. CapabilitiesInv /\ [Next]_vars => CapabilitiesInv'
    BY CapabilitiesStep
  <1> QED  BY <1>1, <1>2, PTL DEF Spec

(* When the executor answers, nothing runs the Function's code any more and  *)
(* its files are gone, however the daemon's requests were interleaved, and   *)
(* code that a cancellation was sent to sees it                              *)
(* (executor.ts, container-executor.ts, runner.ts).                          *)
THEOREM SandboxStaysContained == Spec => []SandboxContained
  <1>1. CapabilitiesInv => SandboxContained
    BY SandboxHolds DEF CapabilitiesInv
  <1> QED  BY <1>1, CapabilitiesStay, PTL

(* Whatever fails on the way, a reviewed query closes its connection, ends   *)
(* its transaction, is audited as what it was and answers the longest result *)
(* within its limits, and HTTP requests stay with admitted URLs              *)
(* (reviewed-database.ts, network.ts).                                       *)
THEOREM UpstreamsStayAccounted == Spec => []UpstreamsAccounted
  <1>1. CapabilitiesInv => UpstreamsAccounted
    BY UpstreamsHolds DEF CapabilitiesInv
  <1> QED  BY <1>1, CapabilitiesStay, PTL

(* A key is found from the set that stored it for as long as that set asked  *)
(* for, or until a deletion; a deletion that answers has left none of the    *)
(* rows it found (storage-repository.ts, RedisCache).                        *)
THEOREM EntriesStayAsAsked == Spec => []EntriesAsAsked
  <1>1. CapabilitiesInv => EntriesAsAsked
    BY StorageHolds DEF CapabilitiesInv
  <1> QED  BY <1>1, CapabilitiesStay, PTL

(* Functions, the console and agents replace and delete only the revision    *)
(* they have been shown, so no update of a record is lost                    *)
(* (collections.ts, routes-storage.ts).                                      *)
THEOREM RecordsRefine == Spec => ImplementsRecordLedger
  <1>1. Init => CapabilitiesInv /\ RecordHistory!LedgerInit
    BY CapabilitiesStart
  <1>2. CapabilitiesInv /\ [Next]_vars => CapabilitiesInv'
    BY CapabilitiesStep
  <1>3. CapabilitiesInv /\ [Next]_vars => [RecordHistory!LedgerNext]_<<log, Removed, shown>>
    BY CapabilitiesStep DEF RecordStep, Ledger
  <1> QED  BY <1>1, <1>2, <1>3, PTL DEF Spec, ImplementsRecordLedger, RecordHistory!LedgerSpec

-----------------------------------------------------------------------------
(* Pages.  The first page of a finite set R whose rows follow those that are *)
(* before them: all of it when it fits, and otherwise what precedes the rest.*)
Lines(R, before) ==
  /\ before \in [R -> SUBSET R]
  /\ \A a \in R : a \notin before[a]
  /\ \A a, b \in R : a \in before[b] => before[a] \subseteq before[b]
  /\ \A a, b \in R : a = b \/ a \in before[b] \/ b \in before[a]

Front(page, R, before, n) ==
  page \in SUBSET R /\ \A r \in R : r \in page <=> Cardinality(before[r]) < n

LEMMA FirstPage ==
  ASSUME NEW R, IsFiniteSet(R), NEW before, Lines(R, before), NEW n \in Nat \ {0},
         NEW page, Front(page, R, before, n)
  PROVE  /\ Cardinality(R) <= n => page = R
         /\ R # {} => \E last \in page : /\ \A r \in page : r = last \/ r \in before[last]
                                         /\ \A r \in R \ page : last \in before[r]
  <1> USE DEF Lines, Front
  <1> DEFINE rank(r) == Cardinality(before[r])
  <1>1. \A r \in R : rank(r) \in Nat /\ rank(r) < Cardinality(R)
    <2> SUFFICES ASSUME NEW r \in R PROVE rank(r) \in Nat /\ rank(r) < Cardinality(R)
      OBVIOUS
    <2>1. before[r] \in SUBSET R /\ before[r] # R
      OBVIOUS
    <2>2. /\ IsFiniteSet(before[r]) /\ Cardinality(before[r]) <= Cardinality(R)
          /\ Cardinality(before[r]) # Cardinality(R)
      BY <2>1, FS_Subset
    <2>3. Cardinality(before[r]) \in Nat /\ Cardinality(R) \in Nat
      BY <2>2, FS_CardinalityType
    <2> QED  BY <2>2, <2>3
  <1>2. \A a, b \in R : a \in before[b] => rank(a) < rank(b)
    <2> SUFFICES ASSUME NEW a \in R, NEW b \in R, a \in before[b] PROVE rank(a) < rank(b)
      OBVIOUS
    <2>1. before[a] \in SUBSET before[b] /\ before[a] # before[b] /\ before[b] \in SUBSET R
      OBVIOUS
    <2>2. IsFiniteSet(before[b])
      BY <2>1, FS_Subset
    <2>3. /\ IsFiniteSet(before[a]) /\ Cardinality(before[a]) <= Cardinality(before[b])
          /\ Cardinality(before[a]) # Cardinality(before[b])
      BY <2>1, <2>2, FS_Subset
    <2>4. Cardinality(before[a]) \in Nat /\ Cardinality(before[b]) \in Nat
      BY <2>2, <2>3, FS_CardinalityType
    <2> QED  BY <2>3, <2>4
  <1>3. page = {r \in R : rank(r) < n}
    OBVIOUS
  <1>4. Cardinality(R) \in Nat
    BY FS_CardinalityType
  <1> HIDE DEF rank
  <1>5. Cardinality(R) <= n => page = R
    BY <1>1, <1>3, <1>4
  <1>6. ASSUME R # {}
        PROVE  \E last \in page : /\ \A r \in page : r = last \/ r \in before[last]
                                  /\ \A r \in R \ page : last \in before[r]
    <2> DEFINE ranks == {rank(r) : r \in R}
               left(r) == Cardinality(R) - rank(r)
               lefts == {k \in Nat : \E r \in page : k = left(r)}
    <2>1. ranks \subseteq Nat /\ ranks # {}
      BY <1>1, <1>6
    <2>2. PICK least \in ranks : \A m \in ranks : least <= m
      BY <2>1, LeastOf
    <2>3. PICK first \in R : least = rank(first)
      BY <2>2
    <2>4. \A q \in R : q \notin before[first]
      <3> SUFFICES ASSUME NEW q \in R, q \in before[first] PROVE FALSE
        OBVIOUS
      <3>1. rank(q) < rank(first) /\ rank(first) <= rank(q)
        BY <1>2, <2>2, <2>3
      <3>2. rank(q) \in Nat /\ rank(first) \in Nat
        BY <1>1
      <3> QED  BY <3>1, <3>2
    <2>5. rank(first) = 0
      <3>1. before[first] = {}
        BY <2>4
      <3> QED  BY <3>1, FS_EmptySet DEF rank
    <2>6. first \in page
      BY <1>3, <2>5
    <2>7. \A r \in page : r \in R /\ rank(r) \in Nat /\ left(r) \in Nat
      BY <1>1, <1>3, <1>4
    <2>8. lefts \subseteq Nat /\ lefts # {}
      <3>1. left(first) \in lefts
        BY <2>6, <2>7
      <3> QED  BY <3>1
    <2>9. PICK k \in lefts : \A m \in lefts : k <= m
      BY <2>8, LeastOf
    <2>10. PICK last \in page : k = left(last)
      BY <2>9
    <2>11. \A r \in page : rank(r) <= rank(last)
      <3> SUFFICES ASSUME NEW r \in page PROVE rank(r) <= rank(last)
        OBVIOUS
      <3>1. left(last) <= left(r)
        BY <2>7, <2>9, <2>10
      <3>2. rank(r) \in Nat /\ rank(last) \in Nat
        BY <2>7
      <3> QED  BY <1>4, <3>1, <3>2
    <2>12. ASSUME NEW r \in page PROVE r = last \/ r \in before[last]
      <3>1. last \notin before[r]
        <4> SUFFICES ASSUME last \in before[r] PROVE FALSE
          OBVIOUS
        <4>1. rank(last) < rank(r) /\ rank(r) <= rank(last)
          BY <1>2, <2>7, <2>11
        <4>2. rank(last) \in Nat /\ rank(r) \in Nat
          BY <2>7
        <4> QED  BY <4>1, <4>2
      <3> QED  BY <2>7, <3>1
    <2>13. ASSUME NEW r \in R \ page PROVE last \in before[r]
      <3>1. rank(last) < n /\ ~ (rank(r) < n) /\ rank(last) \in Nat /\ rank(r) \in Nat
        BY <1>1, <1>3
      <3>2. r # last /\ r \notin before[last]
        BY <1>2, <2>7, <3>1
      <3> QED  BY <2>7, <3>2
    <2> QED  BY <2>12, <2>13
  <1> QED  BY <1>5, <1>6

LEMMA LogRows ==
  /\ MaxEvents \in Nat /\ IsFiniteSet(LogRow)
  /\ \A n \in 1 .. MaxEvents : [id |-> n, bytes |-> Bytes[n]] \in LogRow
  /\ \A a \in LogRow : a.id \in 1 .. MaxEvents /\ a.id \in Nat /\ a.id # 0
  /\ \A a, b \in LogRow : a.id = b.id => a = b
  <1> DEFINE f == [n \in 1 .. MaxEvents |-> [id |-> n, bytes |-> Bytes[n]]]
  <1>1. MaxEvents \in Nat
    BY LogsAssumption DEF MaxEvents
  <1>2. f \in Surjection(1 .. MaxEvents, LogRow)
    BY DEF Surjection, LogRow
  <1>3. IsFiniteSet(LogRow)
    BY <1>1, <1>2, FS_Surjection, FS_Interval
  <1> QED  BY <1>1, <1>3 DEF LogRow

RunsTyped == run = [c \in Callers |-> run[c]] /\ \A c \in Callers : Logging(run[c])
ListingsTyped ==
  listing = [c \in Callers |-> listing[c]] /\ \A c \in Callers : ListingStage(listing[c], logs)

LEMMA LogRunGoes ==
  ASSUME RunsTyped, NEW c \in Callers, NEW r, Logging(r), Goes(c, r)
  PROVE  RunsTyped'
  <1>1. run' = [d \in Callers |-> IF d = c THEN r ELSE run[d]]
    BY DEF Goes, RunsTyped
  <1>2. \A d \in Callers : run'[d] = r \/ run'[d] = run[d]
    BY <1>1
  <1>3. run' = [d \in Callers |-> run'[d]]
    BY <1>1
  <1> QED  BY <1>2, <1>3 DEF RunsTyped

LEMMA LogRunMeanwhile ==
  ASSUME RunsTyped, NEW c \in Callers, NEW r, Logging(r), NEW what, Meanwhile(c, r, what)
  PROVE  RunsTyped'
  <1>1. run' = [d \in Callers |->
                  IF d = c THEN r
                  ELSE IF run[d].op \in Pruning THEN [run[d] EXCEPT !.since = @ \cup what]
                  ELSE run[d]]
    BY DEF Meanwhile
  <1>2. \A q : Logging(q) /\ q.op \in Pruning => Logging([q EXCEPT !.since = @ \cup what])
    <2> SUFFICES ASSUME NEW q, Logging(q), q.op \in Pruning
                 PROVE  Logging([q EXCEPT !.since = @ \cup what])
      OBVIOUS
    <2>1. q # Quiet
      BY DEF Quiet, Pruning
    <2>2. {"said", "streamed"} \subseteq DOMAIN q /\ q.said \in Seq(LogRow) /\ q.streamed \in Nat
      BY <2>1 DEF Logging
    <2> QED  BY <2>2 DEF Logging
  <1>3. \A d \in Callers : Logging(run'[d])
    BY <1>1, <1>2 DEF RunsTyped
  <1>4. run' = [d \in Callers |-> run'[d]]
    BY <1>1
  <1> QED  BY <1>3, <1>4 DEF RunsTyped

LEMMA ListingsKept ==
  ASSUME ListingsTyped, UNCHANGED listing, logs \subseteq logs'
  PROVE  ListingsTyped'
  <1>1. \A s : ListingStage(s, logs) => ListingStage(s, logs')
    BY DEF ListingStage
  <1> QED  BY <1>1 DEF ListingsTyped

\* A step that adds rows, and one that removes some.
LEMMA LogInserts ==
  ASSUME ListingsInv, NEW c \in Callers, NEW rows \in SUBSET LogRow, NEW r, Logging(r),
         r # Quiet,
         Inserts(c, rows, r), events' \in Nat
  PROVE  ListingsInv'
  <1> DEFINE what == IF rows \subseteq logs THEN {} ELSE {"inserted"}
             q == [r EXCEPT !.since = @ \cup what]
  <1>1. logs' = logs \cup rows /\ Meanwhile(c, q, what) /\ UNCHANGED listing
    BY DEF Inserts
  <1>2. Logging(q)
    BY DEF Logging
  <1> HIDE DEF what, q
  <1>3. RunsTyped /\ ListingsTyped
    BY DEF ListingsInv, RunsTyped, ListingsTyped
  <1>4. RunsTyped'
    BY <1>1, <1>2, <1>3, LogRunMeanwhile
  <1>5. ListingsTyped'
    BY <1>1, <1>3, ListingsKept
  <1>6. (logs \subseteq LogRow)'
    BY <1>1 DEF ListingsInv, LogRow
  <1> QED  BY <1>4, <1>5, <1>6 DEF ListingsInv, RunsTyped, ListingsTyped

LEMMA LogRemoves ==
  ASSUME ListingsInv, NEW c \in Callers, NEW rows, NEW r, Logging(r), Removes(c, rows, r),
         events' \in Nat
  PROVE  ListingsInv'
  <1> DEFINE what == IF logs \cap rows = {} THEN {} ELSE {"removed"}
  <1>1. /\ logs' = logs \ rows /\ Meanwhile(c, r, what)
        /\ listing' = [d \in Callers |-> IF listing[d].state = "none" THEN listing[d]
                                         ELSE [listing[d] EXCEPT !.steady = @ \ rows]]
    BY DEF Removes
  <1> HIDE DEF what
  <1>2. RunsTyped /\ ListingsTyped
    BY DEF ListingsInv, RunsTyped, ListingsTyped
  <1>3. RunsTyped'
    BY <1>1, <1>2, LogRunMeanwhile
  <1>4. ASSUME NEW d \in Callers PROVE ListingStage(listing'[d], logs')
    <2>1. ListingStage(listing[d], logs)
      BY <1>2 DEF ListingsTyped
    <2>2. CASE listing[d].state = "none"
      <3>1. listing[d] = NoListing
        BY <2>1, <2>2 DEF ListingStage
      <3>2. listing'[d] = NoListing
        BY <1>1, <2>2, <3>1
      <3> QED  BY <3>2 DEF ListingStage
    <2>3. CASE listing[d].state # "none"
      <3> PICK s : s = listing[d]
        OBVIOUS
      <3> PICK t : t = [s EXCEPT !.steady = s.steady \ rows]
        OBVIOUS
      <3>1. ListingStage(s, logs) /\ s # NoListing
        BY <2>1, <2>3 DEF NoListing
      <3>2. /\ s = [state |-> s.state, limit |-> s.limit, cursor |-> s.cursor,
                    found |-> s.found, steady |-> s.steady, cut |-> s.cut]
            /\ s.steady \subseteq logs
        BY <3>1 DEF ListingStage
      <3>3. t = [state |-> s.state, limit |-> s.limit, cursor |-> s.cursor, found |-> s.found,
                 steady |-> s.steady \ rows, cut |-> s.cut]
        BY <3>2, Zenon
      <3>4. t.steady \subseteq logs'
        BY <1>1, <3>2, <3>3
      <3>5. listing'[d] = t
        BY <1>1, <2>3
      <3>6. /\ t.state = s.state /\ t.limit = s.limit /\ t.cursor = s.cursor /\ t.found = s.found
            /\ t.steady = s.steady \ rows /\ t.cut = s.cut
            /\ t = [state |-> t.state, limit |-> t.limit, cursor |-> t.cursor,
                    found |-> t.found, steady |-> t.steady, cut |-> t.cut]
        BY <3>3
      <3>7. ListingStage(t, logs')
        BY <3>1, <3>4, <3>6 DEF ListingStage
      <3> QED  BY <3>5, <3>7
    <2> QED  BY <2>2, <2>3
  <1>5. ListingsTyped'
    BY <1>1, <1>4 DEF ListingsTyped
  <1>6. (logs \subseteq LogRow)'
    BY <1>1 DEF ListingsInv, LogRow
  <1> QED  BY <1>3, <1>5, <1>6 DEF ListingsInv, RunsTyped, ListingsTyped

\* The newest rows of a listing's page, where the next one starts, and how
\* often the page shows a row.
NewestPage(rows, limit) == {row \in rows : Cardinality(Newer(row, rows)) < limit}
NextCursor(page) == Min({row.id : row \in page})
Times(page, n) == Cardinality({row \in page : row.id = n})

LEMMA NewestRows ==
  ASSUME NEW rows \in SUBSET LogRow, NEW limit \in Nat \ {0}, NEW page,
         page = NewestPage(rows, limit)
  PROVE  /\ Cardinality(rows) \in Nat
         /\ Cardinality(rows) <= limit => page = rows
         /\ rows # {} => \E last \in page : /\ NextCursor(page) = last.id
                                            /\ \A r \in page : r.id >= last.id
                                            /\ \A r \in rows \ page : r.id < last.id
  <1>1. PICK before : before = [r \in rows |-> Newer(r, rows)]
    OBVIOUS
  <1>2. \A a, b \in rows : a \in before[b] <=> a.id > b.id
    BY <1>1 DEF Newer
  <1>3. before \in [rows -> SUBSET rows]
    BY <1>1 DEF Newer
  <1>4. Front(page, rows, before, limit)
    BY <1>1 DEF Front, NewestPage
  <1>5. \A a, b \in rows : a.id \in Nat /\ (a.id = b.id => a = b)
    BY LogRows
  <1>6. Lines(rows, before)
    <2>1. \A a, b, e \in rows : a.id > b.id /\ b.id > e.id => a.id > e.id
      BY <1>5
    <2> QED  BY <1>2, <1>3, <1>5, <2>1 DEF Lines
  <1>7. IsFiniteSet(rows) /\ Cardinality(rows) \in Nat
    BY LogRows, FS_Subset, FS_CardinalityType
  <1>8. /\ Cardinality(rows) <= limit => page = rows
        /\ rows # {} => \E last \in page : /\ \A r \in page : r = last \/ r \in before[last]
                                           /\ \A r \in rows \ page : last \in before[r]
    BY <1>4, <1>6, <1>7, FirstPage
  <1>9. ASSUME rows # {}
        PROVE  \E last \in page : /\ NextCursor(page) = last.id
                                  /\ \A r \in page : r.id >= last.id
                                  /\ \A r \in rows \ page : r.id < last.id
    <2>1. PICK last \in page : /\ \A r \in page : r = last \/ r \in before[last]
                               /\ \A r \in rows \ page : last \in before[r]
      BY <1>8, <1>9
    <2>2. page \subseteq rows
      BY DEF NewestPage
    <2>3. \A r \in page : r.id \in Nat /\ last.id \in Nat /\ r.id >= last.id
      <3> SUFFICES ASSUME NEW r \in page
                   PROVE  r.id \in Nat /\ last.id \in Nat /\ r.id >= last.id
        OBVIOUS
      <3>1. r \in rows /\ last \in rows /\ (r = last \/ r.id > last.id)
        BY <1>2, <2>1, <2>2
      <3>2. r.id \in Nat /\ last.id \in Nat
        BY <1>5, <3>1
      <3> QED  BY <3>1, <3>2
    <2>4. \A r \in rows \ page : r.id < last.id
      BY <1>2, <1>5, <2>1, <2>2
    <2>5. NextCursor(page) = last.id
      <3> DEFINE ids == {row.id : row \in page}
      <3>1. last.id \in ids
        OBVIOUS
      <3>2. \A n \in ids : n \in Nat /\ last.id <= n
        BY <2>3
      <3> HIDE DEF ids
      <3>3. \A n \in ids : (\A m \in ids : n <= m) => n = last.id
        BY <3>1, <3>2
      <3>4. Min(ids) = last.id
        BY <3>1, <3>2, <3>3 DEF Min
      <3> QED  BY <3>4 DEF ids, NextCursor
    <2> QED  BY <2>3, <2>4, <2>5
  <1> QED  BY <1>7, <1>8, <1>9

LEMMA RowsShown ==
  ASSUME NEW page \in SUBSET LogRow
  PROVE  /\ \A n : Times(page, n) \in Nat
         /\ \A row \in page : Times(page, row.id) = 1
         /\ \A row \in LogRow \ page : Times(page, row.id) = 0
  <1>1. ASSUME NEW n PROVE Times(page, n) \in Nat
    <2>1. IsFiniteSet({row \in page : row.id = n})
      BY LogRows, FS_Subset
    <2> QED  BY <2>1, FS_CardinalityType DEF Times
  <1>2. \A row \in page : {r \in page : r.id = row.id} = {row}
    BY LogRows
  <1>3. \A row \in LogRow \ page : {r \in page : r.id = row.id} = {}
    BY LogRows
  <1>4. \A row \in page : Times(page, row.id) = 1
    <2> SUFFICES ASSUME NEW row \in page PROVE Times(page, row.id) = 1
      OBVIOUS
    <2>1. {r \in page : r.id = row.id} = {row}
      BY <1>2
    <2>2. Cardinality({row}) = 1
      BY FS_Singleton
    <2> QED  BY <2>1, <2>2 DEF Times
  <1>5. \A row \in LogRow \ page : Times(page, row.id) = 0
    <2> SUFFICES ASSUME NEW row \in LogRow \ page PROVE Times(page, row.id) = 0
      OBVIOUS
    <2>1. {r \in page : r.id = row.id} = {}
      BY <1>3
    <2>2. Cardinality({}) = 0
      BY FS_EmptySet
    <2> QED  BY <2>1, <2>2 DEF Times
  <1> QED  BY <1>1, <1>4, <1>5

\* A step of a listing: the rows beyond its cursor, and its next page.
LEMMA LogPageStep ==
  ASSUME ListingsInv, NEW c \in Callers, LogPage(c)
  PROVE  ListingsInv'
  <1> DEFINE s == listing[c]
             gone == s.cursor # 0 /\ ~ \E row \in logs : row.id = s.cursor
             rows == IF gone THEN {} ELSE {row \in logs : s.cursor = 0 \/ row.id < s.cursor}
             page == NewestPage(rows, s.limit)
             more == Cardinality(rows) > s.limit
             found == [i \in 1 .. MaxEvents |-> s.found[i] + Times(page, i)]
             cursor == IF more THEN NextCursor(page) ELSE s.cursor
             t == [s EXCEPT !.state = IF more THEN "paging" ELSE "done", !.cursor = cursor,
                            !.cut = gone, !.found = found]
  <1>1. /\ s.state = "paging" /\ listing' = [listing EXCEPT ![c] = t]
        /\ UNCHANGED <<logs, events, run>>
    BY DEF LogPage, NewestPage, NextCursor, Times
  <1>2. ListingStage(s, logs) /\ logs \subseteq LogRow
    BY DEF ListingsInv
  <1>a. /\ gone => rows = {}
        /\ ~gone => rows = {row \in logs : s.cursor = 0 \/ row.id < s.cursor}
        /\ page = NewestPage(rows, s.limit)
        /\ more <=> Cardinality(rows) > s.limit
        /\ found = [i \in 1 .. MaxEvents |-> s.found[i] + Times(page, i)]
        /\ cursor = IF more THEN NextCursor(page) ELSE s.cursor
        /\ t = [s EXCEPT !.state = IF more THEN "paging" ELSE "done", !.cursor = cursor,
                         !.cut = gone, !.found = found]
    OBVIOUS
  <1> HIDE DEF s, gone, rows, page, more, found, cursor, t
  <1>3. /\ s = [state |-> s.state, limit |-> s.limit, cursor |-> s.cursor, found |-> s.found,
                steady |-> s.steady, cut |-> s.cut]
        /\ s.limit \in Nat \ {0} /\ s.cursor \in Nat /\ s.found \in [1 .. MaxEvents -> Nat]
        /\ s.steady \subseteq logs
        /\ \A row \in s.steady :
             s.found[row.id] = IF s.cursor # 0 /\ row.id >= s.cursor THEN 1 ELSE 0
    <2>1. s # NoListing
      BY <1>1 DEF NoListing
    <2> QED  BY <1>1, <1>2, <2>1 DEF ListingStage
  <1>4. rows \in SUBSET logs /\ rows \in SUBSET LogRow /\ page \in SUBSET LogRow
        /\ page \subseteq rows
    BY <1>2, <1>a DEF NewestPage
  <1>5. /\ Cardinality(rows) \in Nat
        /\ Cardinality(rows) <= s.limit => page = rows
        /\ rows # {} => \E last \in page : /\ NextCursor(page) = last.id
                                           /\ \A r \in page : r.id >= last.id
                                           /\ \A r \in rows \ page : r.id < last.id
    BY <1>3, <1>4, <1>a, NewestRows
  <1>6. \A row \in logs : row \in LogRow /\ row.id \in 1 .. MaxEvents
                          /\ row.id \in Nat /\ row.id # 0
    BY <1>2, LogRows
  <1>7. found \in [1 .. MaxEvents -> Nat]
    <2>1. \A n : Times(page, n) \in Nat
      BY <1>4, RowsShown
    <2>2. \A i \in 1 .. MaxEvents : s.found[i] + Times(page, i) \in Nat
      <3> SUFFICES ASSUME NEW i \in 1 .. MaxEvents PROVE s.found[i] + Times(page, i) \in Nat
        OBVIOUS
      <3>1. s.found[i] \in Nat
        BY <1>3
      <3>2. Times(page, i) \in Nat
        BY <2>1
      <3> QED  BY <3>1, <3>2
    <2>3. found = [i \in 1 .. MaxEvents |-> s.found[i] + Times(page, i)]
      BY <1>a
    <2> QED  BY <2>2, <2>3, Zenon
  <1>8. ASSUME NEW row \in logs
        PROVE  /\ s.found[row.id] \in Nat
               /\ row \in page => found[row.id] = s.found[row.id] + 1
               /\ row \notin page => found[row.id] = s.found[row.id]
    <2>1. s.found[row.id] \in Nat
      BY <1>3, <1>6
    <2>2. found[row.id] = s.found[row.id] + Times(page, row.id)
      BY <1>6, <1>a
    <2>3. /\ row \in page => Times(page, row.id) = 1
          /\ row \notin page => Times(page, row.id) = 0
      BY <1>4, <1>6, RowsShown
    <2> QED  BY <2>1, <2>2, <2>3
  <1>9. ~gone => \A row \in logs : row \in rows <=> s.cursor = 0 \/ row.id < s.cursor
    BY <1>a
  <1>10. gone => rows = {} /\ page = {} /\ ~more
    <2>1. gone => rows = {} /\ page = {}
      BY <1>4, <1>a
    <2>2. rows = {} => Cardinality(rows) = 0
      BY FS_EmptySet
    <2> QED  BY <1>3, <1>a, <2>1, <2>2
  <1>11. ~more => page = rows
    BY <1>3, <1>5, <1>a
  <1>12. ASSUME more
         PROVE  /\ cursor \in Nat /\ cursor # 0 /\ (s.cursor = 0 \/ cursor < s.cursor)
                /\ \A row \in page : row.id >= cursor
                /\ \A row \in rows \ page : row.id < cursor
    <2>1. rows # {}
      <3>1. rows = {} => Cardinality(rows) = 0
        BY FS_EmptySet
      <3> QED  BY <1>3, <1>a, <1>12, <3>1
    <2>2. PICK last \in page : /\ NextCursor(page) = last.id
                               /\ \A r \in page : r.id >= last.id
                               /\ \A r \in rows \ page : r.id < last.id
      BY <1>5, <2>1
    <2>3. cursor = last.id /\ last \in rows /\ last \in logs
      BY <1>4, <1>12, <1>a, <2>2
    <2>4. s.cursor = 0 \/ last.id < s.cursor
      BY <1>9, <1>10, <1>12, <2>3
    <2> QED  BY <1>6, <2>2, <2>3, <2>4
  <1>13. cursor \in Nat
    BY <1>3, <1>12, <1>a
  <1>14. ASSUME more, NEW row \in s.steady
         PROVE  found[row.id] = IF cursor # 0 /\ row.id >= cursor THEN 1 ELSE 0
    <2>1. row \in logs /\ ~gone
      BY <1>3, <1>10, <1>14
    <2>2. row.id \in Nat
      BY <1>6, <2>1
    <2>3. CASE row \in page
      <3>1. s.found[row.id] = 0
        BY <1>3, <1>4, <1>9, <2>1, <2>2, <2>3
      <3> QED  BY <1>8, <1>12, <1>14, <2>1, <2>3, <3>1
    <2>4. CASE row \in rows \ page
      <3>1. s.found[row.id] = 0
        BY <1>3, <1>9, <2>1, <2>2, <2>4
      <3>2. ~ (row.id >= cursor)
        BY <1>12, <1>13, <1>14, <2>2, <2>4
      <3> QED  BY <1>8, <2>1, <2>4, <3>1, <3>2
    <2>5. CASE row \notin rows
      <3>1. s.cursor # 0 /\ row.id >= s.cursor
        BY <1>3, <1>9, <2>1, <2>2, <2>5
      <3>2. s.found[row.id] = 1
        BY <1>3, <3>1
      <3>3. cursor # 0 /\ row.id >= cursor
        BY <1>3, <1>12, <1>13, <1>14, <2>2, <3>1
      <3> QED  BY <1>4, <1>8, <2>1, <2>5, <3>2, <3>3
    <2> QED  BY <2>3, <2>4, <2>5
  <1>15. ASSUME ~more, NEW row \in s.steady
         PROVE  found[row.id] <= 1 /\ (~gone => found[row.id] = 1)
    <2>1. row \in logs /\ row.id \in Nat
      BY <1>3, <1>6
    <2>2. s.found[row.id] = IF s.cursor # 0 /\ row.id >= s.cursor THEN 1 ELSE 0
      BY <1>3
    <2>3. gone => row \notin page
      BY <1>10
    <2>4. ~gone => (row \in page <=> s.cursor = 0 \/ row.id < s.cursor)
      BY <1>9, <1>11, <1>15, <2>1
    <2> QED  BY <1>3, <1>8, <2>1, <2>2, <2>3, <2>4
  <1>16. t = [state |-> IF more THEN "paging" ELSE "done", limit |-> s.limit, cursor |-> cursor,
              found |-> found, steady |-> s.steady, cut |-> gone]
    BY <1>3, <1>a, Zenon
  <1>17. ListingStage(t, logs')
    <2>1. /\ t.state = (IF more THEN "paging" ELSE "done") /\ t.limit = s.limit
          /\ t.cursor = cursor /\ t.found = found /\ t.steady = s.steady /\ (t.cut <=> gone)
          /\ t = [state |-> t.state, limit |-> t.limit, cursor |-> t.cursor, found |-> t.found,
                  steady |-> t.steady, cut |-> t.cut]
      BY <1>16
    <2>2. s.steady \subseteq logs'
      BY <1>1, <1>3
    <2>3. t.state \in {"paging", "done"}
      BY <2>1
    <2>4. t.state = "paging" =>
            \A row \in t.steady :
              t.found[row.id] = IF t.cursor # 0 /\ row.id >= t.cursor THEN 1 ELSE 0
      BY <1>14, <2>1
    <2>5. t.state = "done" =>
            \A row \in t.steady : t.found[row.id] <= 1 /\ (~t.cut => t.found[row.id] = 1)
      BY <1>15, <2>1
    <2> QED  BY <1>3, <1>7, <1>13, <2>1, <2>2, <2>3, <2>4, <2>5 DEF ListingStage
  <1>18. ListingsTyped'
    BY <1>1, <1>17 DEF ListingsInv, ListingsTyped
  <1> QED  BY <1>1, <1>18 DEF ListingsInv, ListingsTyped, LogRow, Logging

LEMMA ListLogsStep ==
  ASSUME ListingsInv, NEW c \in Callers, NEW limit \in LogLimits, ListLogs(c, limit)
  PROVE  ListingsInv'
  <1> DEFINE t == [state |-> "paging", limit |-> limit, cursor |-> 0,
                   found |-> [i \in 1 .. MaxEvents |-> 0], steady |-> logs, cut |-> FALSE]
  <1>1. listing' = [listing EXCEPT ![c] = t] /\ UNCHANGED <<logs, events, run>>
    BY DEF ListLogs
  <1>2. ListingStage(t, logs)
    <2>1. /\ t.state = "paging" /\ t.limit = limit /\ t.cursor = 0
          /\ t.found = [i \in 1 .. MaxEvents |-> 0] /\ t.steady = logs
          /\ t = [state |-> t.state, limit |-> t.limit, cursor |-> t.cursor, found |-> t.found,
                  steady |-> t.steady, cut |-> t.cut]
      OBVIOUS
    <2>2. \A row \in logs : row.id \in 1 .. MaxEvents
      BY LogRows DEF ListingsInv
    <2>3. limit \in Nat \ {0}
      BY LogsAssumption
    <2>4. t.found \in [1 .. MaxEvents -> Nat]
      BY <2>1
    <2>5. \A row \in t.steady :
            t.found[row.id] = IF t.cursor # 0 /\ row.id >= t.cursor THEN 1 ELSE 0
      BY <2>1, <2>2
    <2> HIDE DEF t
    <2>6. t.state # "done" /\ t.limit \in Nat \ {0} /\ t.cursor \in Nat /\ t.steady \subseteq logs
      BY <2>1, <2>3
    <2>7. t.state \in {"paging", "done"}
      BY <2>1
    <2> QED  BY <2>1, <2>4, <2>5, <2>6, <2>7 DEF ListingStage
  <1> HIDE DEF t
  <1>3. ListingsTyped'
    BY <1>1, <1>2 DEF ListingsInv, ListingsTyped
  <1> QED  BY <1>1, <1>3 DEF ListingsInv, ListingsTyped, LogRow, Logging

\* What a caller's run still says and has streamed.
LEMMA LoggingGoes ==
  ASSUME ListingsInv, NEW c \in Callers, NEW r, Logging(r), Goes(c, r), UNCHANGED <<logs, listing>>,
         events' \in Nat
  PROVE  ListingsInv'
  <1>1. RunsTyped /\ ListingsTyped
    BY DEF ListingsInv, RunsTyped, ListingsTyped
  <1>2. RunsTyped' /\ ListingsTyped'
    BY <1>1, LogRunGoes, ListingsKept
  <1> QED  BY <1>2 DEF ListingsInv, RunsTyped, ListingsTyped, LogRow

LEMMA LoggingRun ==
  ASSUME NEW op, NEW said \in Seq(LogRow), NEW streamed \in Nat
  PROVE  Logging(Run(op, said, streamed))
  BY DEF Logging, Run

LEMMA LoggingOf ==
  ASSUME ListingsInv, NEW c \in Callers, run[c].op # "none"
  PROVE  /\ run[c] # Quiet /\ Logging(run[c])
         /\ {"said", "streamed"} \subseteq DOMAIN run[c]
         /\ run[c].said \in Seq(LogRow) /\ run[c].streamed \in Nat
  <1>1. run[c] # Quiet
    BY DEF Quiet
  <1> QED  BY <1>1 DEF ListingsInv, Logging

LEMMA LogsStep ==
  ASSUME ListingsInv, LogsNext
  PROVE  ListingsInv'
  <1>1. events \in Nat /\ logs \subseteq LogRow
    BY DEF ListingsInv
  <1>2. CASE Age
    BY <1>1, <1>2, ListingsKept DEF Age, Keeps, ListingsInv, ListingsTyped, LogRow, Logging
  <1> SUFFICES ASSUME NEW c \in Callers,
                      \/ BeginRun(c) \/ Log(c) \/ Stream(c) \/ Complete(c) \/ SaveAll(c)
                      \/ PruneAge(c) \/ PruneCount(c) \/ PruneFind(c) \/ PruneOverflow(c)
                      \/ PruneSize(c) \/ ShrinkFind(c) \/ ShrinkDrop(c) \/ RunFails(c)
                      \/ LogPage(c) \/ \E limit \in LogLimits : ListLogs(c, limit)
               PROVE  ListingsInv'
    BY <1>2 DEF LogsNext
  <1>3. CASE BeginRun(c)
    <2>1. <<>> \in Seq(LogRow) /\ 0 \in Nat
      OBVIOUS
    <2>2. Logging(Run("running", <<>>, 0))
      BY <2>1, LoggingRun
    <2> QED  BY <1>1, <1>3, <2>2, LoggingGoes DEF BeginRun, Keeps
  <1>4. CASE Log(c)
    <2> DEFINE row == [id |-> events + 1, bytes |-> Bytes[events + 1]]
               r == [run[c] EXCEPT !.said = Append(@, row)]
    <2>1. run[c].op # "none" /\ events < MaxEvents /\ events' = events + 1 /\ Goes(c, r)
          /\ UNCHANGED <<logs, listing>>
      BY <1>4 DEF Log, Keeps
    <2>2. row \in LogRow
      BY <1>1, <2>1, LogRows
    <2> HIDE DEF row
    <2>3. Logging(r)
      BY <2>1, <2>2, LoggingOf DEF Logging
    <2> HIDE DEF r
    <2> QED  BY <1>1, <2>1, <2>3, LoggingGoes
  <1>5. CASE Complete(c)
    <2> DEFINE r == [run[c] EXCEPT !.op = "save", !.awaits = Len(run[c].said)]
    <2>1. run[c].op # "none" /\ Goes(c, r) /\ UNCHANGED <<logs, listing, events>>
      BY <1>5 DEF Complete, Keeps
    <2>2. Logging(r)
      BY <2>1, LoggingOf DEF Logging
    <2> HIDE DEF r
    <2> QED  BY <1>1, <2>1, <2>2, LoggingGoes
  <1>6. CASE PruneCount(c)
    <2> DEFINE surplus == Surplus(Cardinality(logs))
               r == [run[c] EXCEPT !.op = IF surplus > 0 THEN "find" ELSE "size",
                                   !.take = surplus, !.since = {}]
    <2>1. run[c].op # "none" /\ Goes(c, r) /\ UNCHANGED <<logs, listing, events>>
      BY <1>6 DEF PruneCount, Keeps
    <2> HIDE DEF surplus
    <2>2. Logging(r)
      BY <2>1, LoggingOf DEF Logging
    <2> HIDE DEF r
    <2> QED  BY <1>1, <2>1, <2>2, LoggingGoes
  <1>7. CASE PruneFind(c)
    <2> DEFINE oldest == Oldest(logs, run[c].take)
               r == [run[c] EXCEPT !.op = "overflow", !.take = 0, !.found = oldest]
    <2>1. run[c].op # "none" /\ Goes(c, r) /\ UNCHANGED <<logs, listing, events>>
      BY <1>7 DEF PruneFind, Keeps
    <2> HIDE DEF oldest
    <2>2. Logging(r)
      BY <2>1, LoggingOf DEF Logging
    <2> HIDE DEF r
    <2> QED  BY <1>1, <2>1, <2>2, LoggingGoes
  <1>8. \A total : run[c].op # "none" => Logging(Shrunk(c, total))
    <2> SUFFICES ASSUME NEW total, run[c].op # "none" PROVE Logging(Shrunk(c, total))
      OBVIOUS
    <2> DEFINE since == IF run[c].op = "size" THEN run[c].since \ {"removed"} ELSE run[c].since
    <2>1. Logging(Run("over", run[c].said, run[c].streamed))
      BY LoggingRun, LoggingOf
    <2>2. Logging([run[c] EXCEPT !.op = "shrink", !.total = total, !.found = {}, !.since = since])
      <3> HIDE DEF since
      <3> QED  BY LoggingOf DEF Logging
    <2> QED  BY <2>1, <2>2 DEF Shrunk
  <1>9. CASE PruneSize(c)
    <2>1. run[c].op # "none" /\ Goes(c, Shrunk(c, Size(logs))) /\ UNCHANGED <<logs, listing, events>>
      BY <1>9 DEF PruneSize, Keeps
    <2> QED  BY <1>1, <1>8, <2>1, LoggingGoes
  <1>10. CASE ShrinkFind(c)
    <2> DEFINE found == {row \in Oldest(logs, Batch) :
                          run[c].total - Size(Older(row, logs)) > MaxBytes}
               left == run[c].total - Size(found)
               r == [run[c] EXCEPT !.op = "drop", !.found = found, !.total = left]
    <2>1. run[c].op # "none" /\ UNCHANGED <<logs, listing, events>>
          /\ (Goes(c, Shrunk(c, 0)) \/ Goes(c, r))
      BY <1>10, Zenon DEF ShrinkFind, Keeps
    <2> HIDE DEF found, left
    <2>2. Logging(r)
      BY <2>1, LoggingOf DEF Logging
    <2> HIDE DEF r
    <2> QED  BY <1>1, <1>8, <2>1, <2>2, LoggingGoes
  <1>11. CASE RunFails(c)
    <2>1. run[c].op # "none" /\ Goes(c, Run("failed", run[c].said, run[c].streamed))
          /\ UNCHANGED <<logs, listing, events>>
      BY <1>11 DEF RunFails, Ended, Keeps
    <2>2. Logging(Run("failed", run[c].said, run[c].streamed))
      BY <2>1, LoggingOf, LoggingRun
    <2> QED  BY <1>1, <2>1, <2>2, LoggingGoes
  <1>12. CASE Stream(c)
    <2> DEFINE r == [run[c] EXCEPT !.streamed = @ + 1]
    <2>1. /\ run[c].op # "none" /\ run[c].streamed < Len(run[c].said) /\ UNCHANGED events
          /\ \E rows \in {{}, {run[c].said[run[c].streamed + 1]}} : Inserts(c, rows, r)
      BY <1>12 DEF Stream
    <2>2. run[c].said[run[c].streamed + 1] \in LogRow
      BY <2>1, LoggingOf
    <2>3. PICK rows \in SUBSET LogRow : Inserts(c, rows, r)
      BY <2>1, <2>2
    <2>4. Logging(r) /\ r # Quiet
      <3>1. run[c].streamed + 1 \in Nat
        BY <2>1, LoggingOf
      <3> QED  BY <2>1, <3>1, LoggingOf DEF Logging, Quiet
    <2> HIDE DEF r
    <2> QED  BY <1>1, <2>1, <2>3, <2>4, LogInserts
  <1>13. CASE SaveAll(c)
    <2> DEFINE r == [run[c] EXCEPT !.op = "age", !.awaits = 0]
               rows == {run[c].said[n] : n \in DOMAIN run[c].said}
    <2>1. run[c].op # "none" /\ UNCHANGED events /\ Inserts(c, rows, r)
      BY <1>13 DEF SaveAll
    <2>2. rows \in SUBSET LogRow
      BY <2>1, LoggingOf
    <2>3. Logging(r) /\ r # Quiet
      BY <2>1, LoggingOf DEF Logging, Quiet
    <2> HIDE DEF r, rows
    <2> QED  BY <1>1, <2>1, <2>2, <2>3, LogInserts
  <1>14. CASE PruneAge(c)
    <2> DEFINE r == [run[c] EXCEPT !.op = "count"]
    <2>1. /\ run[c].op # "none" /\ UNCHANGED events
          /\ Removes(c, {row \in logs : row.id <= expired}, r)
      BY <1>14 DEF PruneAge
    <2>2. Logging(r)
      BY <2>1, LoggingOf DEF Logging
    <2> HIDE DEF r
    <2> QED  BY <1>1, <2>1, <2>2, LogRemoves
  <1>15. CASE PruneOverflow(c)
    <2> DEFINE r == [run[c] EXCEPT !.op = "size", !.found = {}]
    <2>1. run[c].op # "none" /\ UNCHANGED events /\ Removes(c, run[c].found, r)
      BY <1>15 DEF PruneOverflow
    <2>2. Logging(r)
      BY <2>1, LoggingOf DEF Logging
    <2> HIDE DEF r
    <2> QED  BY <1>1, <2>1, <2>2, LogRemoves
  <1>16. CASE ShrinkDrop(c)
    <2>1. /\ run[c].op # "none" /\ UNCHANGED events
          /\ Removes(c, run[c].found, Shrunk(c, run[c].total))
      BY <1>16 DEF ShrinkDrop
    <2>2. Logging(Shrunk(c, run[c].total))
      BY <1>8, <2>1
    <2> QED  BY <1>1, <2>1, <2>2, LogRemoves
  <1> QED  BY <1>3, <1>4, <1>5, <1>6, <1>7, <1>9, <1>10, <1>11, <1>12, <1>13, <1>14, <1>15, <1>16,
              LogPageStep, ListLogsStep

-----------------------------------------------------------------------------
(* The order of a query's rows: two are even in a field, or one follows the *)
(* other; the id is the last field.                                         *)
Even(order, n, a, b) ==
  IF n = Len(order) + 1 THEN a.id = b.id
  ELSE FieldOf(a, order[n].field) = FieldOf(b, order[n].field)
Beats(order, n, a, b) == IF n = Len(order) + 1 THEN a.id > b.id ELSE AfterIn(order[n], a, b)

LEMMA FieldValues ==
  ASSUME NEW row \in SortedRow, NEW item \in OrderItem
  PROVE  FieldOf(row, item.field) \in Nat \cup {None}
  BY CollectionAssumption DEF SortedRow, OrderItem, FieldOf, Field

LEMMA BeatsOrders ==
  ASSUME NEW order \in Seq(OrderItem), NEW n \in 1 .. Len(order) + 1
  PROVE  /\ \A a, b \in SortedRow : Beats(order, n, a, b) => ~Even(order, n, a, b)
         /\ \A a, b \in SortedRow :
              Even(order, n, a, b) \/ Beats(order, n, a, b) \/ Beats(order, n, b, a)
         /\ \A a, b, c \in SortedRow :
              Beats(order, n, a, b) /\ Beats(order, n, b, c) => Beats(order, n, a, c)
         /\ \A a, b, c \in SortedRow :
              Beats(order, n, a, b) /\ Even(order, n, b, c) => Beats(order, n, a, c)
         /\ \A a, b, c \in SortedRow :
              Even(order, n, a, b) /\ Beats(order, n, b, c) => Beats(order, n, a, c)
         /\ \A a, b, c \in SortedRow :
              Even(order, n, a, b) /\ Even(order, n, b, c) => Even(order, n, a, c)
         /\ \A a, b \in SortedRow : Even(order, n, a, b) => Even(order, n, b, a)
  <1>1. None \notin Nat
    BY StorageAssumption
  <1>2. CASE n = Len(order) + 1
    <2>1. \A a \in SortedRow : a.id \in Nat
      BY DEF SortedRow
    <2> QED  BY <1>2, <2>1 DEF Even, Beats
  <1>3. CASE n # Len(order) + 1
    <2>1. order[n] \in OrderItem
      BY <1>3
    <2>2. PICK item \in OrderItem : item = order[n]
      BY <2>1
    <2> DEFINE v(a) == FieldOf(a, item.field)
    <2>3. \A a \in SortedRow : v(a) \in Nat \cup {None}
      BY FieldValues
    <2>4. \A a, b : Even(order, n, a, b) <=> v(a) = v(b)
      BY <1>3, <2>2 DEF Even
    <2>5. \A a, b : Beats(order, n, a, b) <=>
            v(a) # v(b) /\ (v(a) = None \/ (v(b) # None /\ Greater(v(a), v(b), item.direction)))
      BY <1>3, <2>2 DEF Beats, AfterIn
    <2> HIDE DEF v
    <2>6. \A x, y \in Nat : Greater(x, y, item.direction) <=>
                              IF item.direction = "asc" THEN x > y ELSE x < y
      BY DEF Greater
    <2> HIDE <2>2
    <2> QED  BY <1>1, <2>3, <2>4, <2>5, <2>6
  <1> QED  BY <1>2, <1>3

\* Both comparisons of the code are the lexicographic one.
Follows(order, a, b) ==
  \E n \in 1 .. Len(order) + 1 :
    (\A m \in 1 .. n - 1 : Even(order, m, a, b)) /\ Beats(order, n, a, b)

LEMMA AfterIsFollows ==
  ASSUME NEW order \in Seq(OrderItem), NEW a \in SortedRow, NEW b \in SortedRow
  PROVE  RowAfter(order, a, b) <=> Follows(order, a, b)
  <1>1. Len(order) \in Nat /\ DOMAIN order = 1 .. Len(order)
    OBVIOUS
  <1>2. \A n \in DOMAIN order :
          /\ Even(order, n, a, b) <=> FieldOf(a, order[n].field) = FieldOf(b, order[n].field)
          /\ Beats(order, n, a, b) <=> AfterIn(order[n], a, b)
    BY <1>1 DEF Even, Beats
  <1>3. Beats(order, Len(order) + 1, a, b) <=> a.id > b.id
    BY DEF Beats
  <1>4. \A n \in DOMAIN order :
          (\A m \in 1 .. n - 1 : FieldOf(a, order[m].field) = FieldOf(b, order[m].field))
            <=> \A m \in 1 .. n - 1 : Even(order, m, a, b)
    BY <1>1, <1>2
  <1>5. (\A m \in DOMAIN order : FieldOf(a, order[m].field) = FieldOf(b, order[m].field))
          <=> \A m \in 1 .. (Len(order) + 1) - 1 : Even(order, m, a, b)
    BY <1>1, <1>2
  <1>6. RowAfter(order, a, b) <=>
          \/ \E n \in DOMAIN order : (\A m \in 1 .. n - 1 : Even(order, m, a, b))
                                     /\ Beats(order, n, a, b)
          \/ /\ \A m \in 1 .. (Len(order) + 1) - 1 : Even(order, m, a, b)
             /\ Beats(order, Len(order) + 1, a, b)
    BY <1>2, <1>3, <1>4, <1>5 DEF RowAfter
  <1> QED  BY <1>1, <1>6 DEF Follows

LEMMA PastIsFollows ==
  ASSUME NEW order \in Seq(OrderItem), NEW a \in SortedRow, NEW b \in SortedRow
  PROVE  PastCursor(order, a, CursorAfter(order, b)) <=> Follows(order, a, b)
  <1>1. Len(order) \in Nat /\ DOMAIN order = 1 .. Len(order)
    OBVIOUS
  <1>2. PICK cursor : cursor = CursorAfter(order, b)
    OBVIOUS
  <1>3. /\ cursor.id = b.id
        /\ \A n \in DOMAIN order : cursor.values[n] = FieldOf(b, order[n].field)
    BY <1>2 DEF CursorAfter
  <1>4. ASSUME NEW n \in DOMAIN order
        PROVE  Past(order[n], a, cursor.values[n]) <=> Beats(order, n, a, b)
    <2>1. PICK item \in OrderItem : item = order[n]
      BY <1>1
    <2>2. PICK x, y : x = FieldOf(a, item.field) /\ y = FieldOf(b, item.field)
      OBVIOUS
    <2>3. x \in Nat \cup {None} /\ y \in Nat \cup {None}
      BY <2>2, FieldValues
    <2>4. Past(order[n], a, cursor.values[n]) <=>
            y # None /\ (x = None \/ Greater(x, y, item.direction))
      BY <1>3, <2>1, <2>2 DEF Past
    <2>5. Beats(order, n, a, b) <=>
            x # y /\ (x = None \/ (y # None /\ Greater(x, y, item.direction)))
      BY <1>1, <2>1, <2>2 DEF Beats, AfterIn
    <2>6. x \in Nat /\ y \in Nat /\ Greater(x, y, item.direction) => x # y
      BY DEF Greater
    <2> QED  BY <2>3, <2>4, <2>5, <2>6
  <1>5. \A n \in 1 .. Len(order) + 1 :
          /\ (\A m \in 1 .. n - 1 : FieldOf(a, order[m].field) = cursor.values[m])
               <=> \A m \in 1 .. n - 1 : Even(order, m, a, b)
          /\ (IF n = Len(order) + 1 THEN a.id > cursor.id ELSE Past(order[n], a, cursor.values[n]))
               <=> Beats(order, n, a, b)
    <2>1. \A m \in DOMAIN order :
            Even(order, m, a, b) <=> FieldOf(a, order[m].field) = cursor.values[m]
      BY <1>1, <1>3 DEF Even
    <2>2. \A n \in 1 .. Len(order) + 1 : \A m \in 1 .. n - 1 : m \in DOMAIN order
      BY <1>1
    <2>3. Beats(order, Len(order) + 1, a, b) <=> a.id > cursor.id
      BY <1>3 DEF Beats
    <2> QED  BY <1>1, <1>4, <2>1, <2>2, <2>3
  <1> QED  BY <1>2, <1>5 DEF PastCursor, Follows

LEMMA FollowsOrders ==
  ASSUME NEW order \in Seq(OrderItem)
  PROVE  /\ \A a \in SortedRow : ~Follows(order, a, a)
         /\ \A a, b, c \in SortedRow :
              Follows(order, a, b) /\ Follows(order, b, c) => Follows(order, a, c)
         /\ \A a, b \in SortedRow : a.id = b.id \/ Follows(order, a, b) \/ Follows(order, b, a)
  <1>1. Len(order) \in Nat
    OBVIOUS
  <1>2. ASSUME NEW a \in SortedRow PROVE ~Follows(order, a, a)
    <2>1. \A n \in 1 .. Len(order) + 1 : Even(order, n, a, a)
      BY DEF Even
    <2> QED  BY <2>1, BeatsOrders DEF Follows
  <1>3. ASSUME NEW a \in SortedRow, NEW b \in SortedRow, NEW c \in SortedRow,
               Follows(order, a, b), Follows(order, b, c)
        PROVE  Follows(order, a, c)
    <2>1. PICK j \in 1 .. Len(order) + 1 :
            (\A m \in 1 .. j - 1 : Even(order, m, a, b)) /\ Beats(order, j, a, b)
      BY <1>3 DEF Follows
    <2>2. PICK k \in 1 .. Len(order) + 1 :
            (\A m \in 1 .. k - 1 : Even(order, m, b, c)) /\ Beats(order, k, b, c)
      BY <1>3 DEF Follows
    <2>3. PICK n \in 1 .. Len(order) + 1 : n = IF j < k THEN j ELSE k
      OBVIOUS
    <2>4. Beats(order, n, a, c)
      <3>1. CASE j < k
        <4>1. Beats(order, n, a, b) /\ Even(order, n, b, c)
          BY <1>1, <2>1, <2>2, <2>3, <3>1
        <4> QED  BY <4>1, BeatsOrders
      <3>2. CASE j = k
        <4>1. Beats(order, n, a, b) /\ Beats(order, n, b, c)
          BY <1>1, <2>1, <2>2, <2>3, <3>2
        <4> QED  BY <4>1, BeatsOrders
      <3>3. CASE k < j
        <4>1. Even(order, n, a, b) /\ Beats(order, n, b, c)
          BY <1>1, <2>1, <2>2, <2>3, <3>3
        <4> QED  BY <4>1, BeatsOrders
      <3> QED  BY <1>1, <3>1, <3>2, <3>3
    <2>5. \A m \in 1 .. n - 1 : Even(order, m, a, c)
      <3> SUFFICES ASSUME NEW m \in 1 .. n - 1 PROVE Even(order, m, a, c)
        OBVIOUS
      <3>1. m \in 1 .. Len(order) + 1 /\ m \in 1 .. j - 1 /\ m \in 1 .. k - 1
        BY <1>1, <2>3
      <3>2. Even(order, m, a, b) /\ Even(order, m, b, c)
        BY <2>1, <2>2, <3>1
      <3> QED  BY <3>1, <3>2, BeatsOrders
    <2> QED  BY <2>4, <2>5 DEF Follows
  <1>4. ASSUME NEW a \in SortedRow, NEW b \in SortedRow, a.id # b.id
        PROVE  Follows(order, a, b) \/ Follows(order, b, a)
    <2> DEFINE T == {n \in 1 .. Len(order) + 1 : ~Even(order, n, a, b)}
    <2>1. Len(order) + 1 \in T
      BY <1>1, <1>4 DEF Even
    <2>2. T \subseteq Nat /\ T # {}
      BY <1>1, <2>1
    <2>3. PICK n \in T : \A m \in T : n <= m
      BY <2>2, LeastOf
    <2>4. n \in 1 .. Len(order) + 1 /\ ~Even(order, n, a, b)
      OBVIOUS
    <2>5. \A m \in 1 .. n - 1 : Even(order, m, a, b) /\ Even(order, m, b, a)
      <3> SUFFICES ASSUME NEW m \in 1 .. n - 1
                   PROVE  Even(order, m, a, b) /\ Even(order, m, b, a)
        OBVIOUS
      <3>1. m \in 1 .. Len(order) + 1 /\ ~ (n <= m)
        BY <1>1, <2>4
      <3>2. Even(order, m, a, b)
        BY <2>3, <3>1
      <3> QED  BY <3>1, <3>2, BeatsOrders
    <2>6. Beats(order, n, a, b) \/ Beats(order, n, b, a)
      BY <2>4, BeatsOrders
    <2> QED  BY <2>4, <2>5, <2>6 DEF Follows
  <1> QED  BY <1>2, <1>3, <1>4

\* The first rows of a query's page, and the one its cursor is made of.
LEMMA FirstRows ==
  ASSUME NEW order \in Seq(OrderItem), NEW rows \in SUBSET SortedRow, IsFiniteSet(rows),
         \A a, b \in rows : a.id = b.id => a = b,
         NEW limit \in Nat \ {0}, NEW page, page = Page(order, rows, limit)
  PROVE  /\ Cardinality(rows) \in Nat
         /\ page \subseteq rows
         /\ Cardinality(rows) <= limit => page = rows
         /\ rows # {} => /\ LastOf(order, page) \in page
                         /\ \A r \in page : ~RowAfter(order, r, LastOf(order, page))
                         /\ \A r \in rows \ page : RowAfter(order, r, LastOf(order, page))
  <1>1. PICK before : before = [a \in rows |-> {r \in rows : RowAfter(order, a, r)}]
    OBVIOUS
  <1>2. \A a, b \in rows : RowAfter(order, a, b) <=> Follows(order, a, b)
    BY AfterIsFollows
  <1>3. \A a, b \in rows : b \in before[a] <=> Follows(order, a, b)
    BY <1>1, <1>2
  <1>4. Lines(rows, before)
    <2>1. before \in [rows -> SUBSET rows]
      BY <1>1
    <2> QED  BY <1>3, <2>1, FollowsOrders DEF Lines
  <1>5. Front(page, rows, before, limit)
    <2>1. \A r \in rows : before[r] = {q \in rows : RowAfter(order, r, q)}
      BY <1>1
    <2> QED  BY <2>1 DEF Front, Page
  <1>6. page \subseteq rows
    BY <1>5 DEF Front
  <1>7. /\ Cardinality(rows) <= limit => page = rows
        /\ rows # {} => \E last \in page : /\ \A r \in page : r = last \/ r \in before[last]
                                           /\ \A r \in rows \ page : last \in before[r]
    BY <1>4, <1>5, FirstPage
  <1>8. ASSUME rows # {}
        PROVE  /\ LastOf(order, page) \in page
               /\ \A r \in page : ~RowAfter(order, r, LastOf(order, page))
               /\ \A r \in rows \ page : RowAfter(order, r, LastOf(order, page))
    <2>1. PICK last \in page : /\ \A r \in page : r = last \/ r \in before[last]
                               /\ \A r \in rows \ page : last \in before[r]
      BY <1>7, <1>8
    <2>2. \A r \in page : r = last \/ Follows(order, last, r)
      BY <1>3, <1>6, <2>1
    <2>3. \A r \in page : ~RowAfter(order, r, last)
      BY <1>2, <1>6, <2>2, FollowsOrders
    <2>4. \A r \in rows \ page : RowAfter(order, r, last)
      BY <1>2, <1>3, <1>6, <2>1
    <2>5. \A row \in page : (~ \E r \in page : RowAfter(order, r, row)) => row = last
      BY <1>2, <1>6, <2>2
    <2>6. LastOf(order, page) = last
      BY <2>3, <2>5 DEF LastOf
    <2> QED  BY <2>3, <2>4, <2>6
  <1>9. Cardinality(rows) \in Nat
    BY FS_CardinalityType
  <1> QED  BY <1>6, <1>7, <1>8, <1>9

LEMMA TableRows ==
  ASSUME PagesInv
  PROVE  /\ DOMAIN Table = Existing
         /\ \A i \in Existing : Table[i] = RowOf(i) /\ Table[i] \in SortedRow /\ Table[i].id = i
         /\ {RowOf(i) : i \in Existing} \subseteq SortedRow
         /\ IsFiniteSet({RowOf(i) : i \in Existing})
         /\ \A a, b \in {RowOf(i) : i \in Existing} : a.id = b.id => a = b
  <1>1. \A i \in Existing : RowOf(i) \in SortedRow /\ RowOf(i).id = i
    BY DEF PagesInv, RowOf
  <1>2. DOMAIN Table = Existing /\ \A i \in Existing : Table[i] = RowOf(i)
    BY DEF Table
  <1>3. IsFiniteSet(Existing)
    <2>1. Existing \in SUBSET Ids /\ IsFiniteSet(Ids)
      BY CollectionAssumption DEF PagesInv
    <2> QED  BY <2>1, FS_Subset
  <1>4. Table \in Surjection(Existing, {RowOf(i) : i \in Existing})
    BY DEF Surjection, Table
  <1>5. IsFiniteSet({RowOf(i) : i \in Existing})
    BY <1>3, <1>4, FS_Surjection
  <1> HIDE <1>4
  <1> QED  BY <1>1, <1>2, <1>5

\* A page's cursor, by the rows that follow its last.
LEMMA QueryStep ==
  ASSUME PagesInv, NEW c \in Callers, Query(c)
  PROVE  PagesInv'
  <1> DEFINE s == scan[c]
             rows == Matching(s.order, s.cursor)
             page == Page(s.order, rows, s.limit)
             more == Cardinality(rows) > s.limit
             returned == {row.id : row \in page}
             last == LastOf(s.order, page)
             cursor == IF more THEN CursorAfter(s.order, last) ELSE s.cursor
             found == [i \in Ids |-> s.found[i] + (IF i \in returned THEN 1 ELSE 0)]
             t == [s EXCEPT !.state = IF more THEN "paging" ELSE "done", !.cursor = cursor,
                            !.found = found]
  <1>1. /\ s.state = "paging" /\ scan' = [scan EXCEPT ![c] = t]
        /\ UNCHANGED <<records, calls>>
    BY DEF Query, recordVars, boundVars
  <1>2. ScanStage(s, Table)
    BY DEF PagesInv
  <1>3. /\ page = Page(s.order, rows, s.limit) /\ last = LastOf(s.order, page)
        /\ more <=> Cardinality(rows) > s.limit
        /\ cursor = IF more THEN CursorAfter(s.order, last) ELSE s.cursor
        /\ \A i : i \in returned <=> \E row \in page : row.id = i
        /\ rows = {row \in {RowOf(i) : i \in Existing} : Ahead(s, row)}
    BY DEF Matching, Ahead
  <1>4. /\ found = [i \in Ids |-> s.found[i] + (IF i \in returned THEN 1 ELSE 0)]
        /\ t = [s EXCEPT !.state = IF more THEN "paging" ELSE "done", !.cursor = cursor,
                         !.found = found]
    OBVIOUS
  <1> HIDE DEF s, rows, page, more, returned, last, cursor, found, t
  <1>5. /\ ScanRecord(s) /\ s.order \in Seq(OrderItem) /\ s.limit \in Nat \ {0}
        /\ s.found \in [Ids -> Nat] /\ s.steady \subseteq Existing /\ Existing \subseteq Ids
        /\ s.cursor = None \/ \E row \in SortedRow : s.cursor = CursorAfter(s.order, row)
        /\ \A i \in s.steady : s.found[i] = IF Ahead(s, Table[i]) THEN 0 ELSE 1
    <2>1. s # NoScan
      BY <1>1 DEF NoScan
    <2>2. DOMAIN Table = Existing /\ Existing \subseteq Ids
      BY TableRows DEF PagesInv
    <2> QED  BY <1>1, <1>2, <2>1, <2>2 DEF ScanStage
  <1>6. /\ rows \in SUBSET SortedRow /\ IsFiniteSet(rows)
        /\ \A a, b \in rows : a.id = b.id => a = b
    <2>1. rows \in SUBSET {RowOf(i) : i \in Existing}
      BY <1>3
    <2>2. IsFiniteSet(rows)
      BY <2>1, TableRows, FS_Subset
    <2> QED  BY <2>1, <2>2, TableRows
  <1>7. /\ Cardinality(rows) \in Nat
        /\ page \subseteq rows
        /\ Cardinality(rows) <= s.limit => page = rows
        /\ rows # {} => /\ last \in page
                        /\ \A r \in page : ~RowAfter(s.order, r, last)
                        /\ \A r \in rows \ page : RowAfter(s.order, r, last)
    <2>1. page = Page(s.order, rows, s.limit) /\ last = LastOf(s.order, page)
      BY <1>3
    <2>2. s.order \in Seq(OrderItem) /\ s.limit \in Nat \ {0}
      BY <1>5
    <2> QED  BY <1>6, <2>1, <2>2, FirstRows
  <1>8. \A i \in Existing : /\ Table[i] \in SortedRow
                            /\ Table[i] \in rows <=> Ahead(s, Table[i])
                            /\ i \in returned <=> Table[i] \in page
    <2> SUFFICES ASSUME NEW i \in Existing
                 PROVE  /\ Table[i] \in SortedRow
                        /\ Table[i] \in rows <=> Ahead(s, Table[i])
                        /\ i \in returned <=> Table[i] \in page
      OBVIOUS
    <2>1. Table[i] = RowOf(i) /\ Table[i] \in SortedRow /\ Table[i].id = i
      BY TableRows
    <2>2. Table[i] \in {RowOf(j) : j \in Existing}
      BY <2>1
    <2>3. \A row \in page : row.id = i => row = Table[i]
      BY <1>3, <1>7, <2>1, <2>2, TableRows
    <2> QED  BY <1>3, <2>1, <2>2, <2>3
  <1>9. ASSUME more
        PROVE  /\ last \in page /\ last \in rows /\ last \in SortedRow
               /\ cursor = CursorAfter(s.order, last) /\ cursor # None
               /\ \A r \in page : ~RowAfter(s.order, r, last)
               /\ \A r \in rows \ page : RowAfter(s.order, r, last)
    <2>1. rows # {}
      <3>1. rows = {} => Cardinality(rows) = 0
        BY FS_EmptySet
      <3> QED  BY <1>3, <1>5, <1>9, <3>1
    <2>2. last \in page /\ last \in rows /\ last \in SortedRow
      BY <1>6, <1>7, <2>1
    <2>3. cursor = CursorAfter(s.order, last)
      BY <1>3, <1>9
    <2>4. CursorAfter(s.order, last) \in [values : Seq(Values \cup Nat \cup {None}), id : Nat]
      <3>1. \A n \in DOMAIN s.order : FieldOf(last, s.order[n].field) \in Values \cup Nat \cup {None}
        <4> SUFFICES ASSUME NEW n \in DOMAIN s.order
                     PROVE  FieldOf(last, s.order[n].field) \in Values \cup Nat \cup {None}
          OBVIOUS
        <4>1. s.order[n] \in OrderItem
          BY <1>5
        <4> QED  BY <2>2, <4>1, FieldValues
      <3>2. [n \in DOMAIN s.order |-> FieldOf(last, s.order[n].field)]
              \in Seq(Values \cup Nat \cup {None})
        <4>1. DOMAIN s.order = 1 .. Len(s.order) /\ Len(s.order) \in Nat
          BY <1>5
        <4> QED  BY <3>1, <4>1
      <3>3. last.id \in Nat
        BY <2>2 DEF SortedRow
      <3> QED  BY <3>2, <3>3 DEF CursorAfter
    <2> QED  BY <1>7, <2>1, <2>2, <2>3, <2>4, CollectionAssumption
  <1>10. \A i \in s.steady : /\ i \in Ids /\ i \in Existing /\ s.found[i] \in {0, 1}
                             /\ found[i] = IF i \in returned THEN s.found[i] + 1 ELSE s.found[i]
    BY <1>4, <1>5
  <1>11. found \in [Ids -> Nat]
    BY <1>4, <1>5
  <1>12. ASSUME more, NEW i \in s.steady
         PROVE  found[i] = IF PastCursor(s.order, Table[i], cursor) THEN 0 ELSE 1
    <2>1. i \in Existing /\ Table[i] \in SortedRow
      BY <1>8, <1>10
    <2>2. PastCursor(s.order, Table[i], cursor) <=> RowAfter(s.order, Table[i], last)
      BY <1>5, <1>9, <1>12, <2>1, PastIsFollows, AfterIsFollows
    <2>3. CASE Table[i] \in page
      BY <1>5, <1>7, <1>8, <1>9, <1>10, <1>12, <2>1, <2>2, <2>3
    <2>4. CASE Table[i] \in rows \ page
      BY <1>5, <1>8, <1>9, <1>10, <1>12, <2>1, <2>2, <2>4
    <2>5. CASE Table[i] \notin rows
      <3>1. ~Ahead(s, Table[i]) /\ s.cursor # None /\ Ahead(s, last)
        BY <1>3, <1>8, <1>9, <1>12, <2>1, <2>5 DEF Ahead
      <3>2. PICK l \in SortedRow : s.cursor = CursorAfter(s.order, l)
        BY <1>5, <3>1
      <3>3. Follows(s.order, last, l) /\ ~Follows(s.order, Table[i], l)
        BY <1>5, <1>9, <1>12, <2>1, <3>1, <3>2, PastIsFollows DEF Ahead
      <3>4. ~RowAfter(s.order, Table[i], last)
        BY <1>5, <1>9, <1>12, <2>1, <3>3, AfterIsFollows, FollowsOrders
      <3>5. i \notin returned
        BY <1>7, <1>8, <2>1, <2>5
      <3> QED  BY <1>5, <1>10, <2>2, <3>1, <3>4, <3>5
    <2> QED  BY <2>3, <2>4, <2>5
  <1>13. ASSUME ~more, NEW i \in s.steady
         PROVE  found[i] = 1
    <2>1. page = rows
      BY <1>3, <1>5, <1>7, <1>13
    <2> QED  BY <1>5, <1>8, <1>10, <2>1
  <1>14. t = [state |-> IF more THEN "paging" ELSE "done", order |-> s.order, limit |-> s.limit,
              cursor |-> cursor, found |-> found, steady |-> s.steady]
    BY <1>4, <1>5, Zenon DEF ScanRecord
  <1>15. ScanStage(t, Table)
    <2>1. /\ t.state = (IF more THEN "paging" ELSE "done") /\ t.order = s.order
          /\ t.limit = s.limit /\ t.cursor = cursor /\ t.found = found /\ t.steady = s.steady
          /\ ScanRecord(t)
      BY <1>14 DEF ScanRecord
    <2>2. t.state \in {"paging", "done"} /\ (t.state = "paging" <=> more)
      BY <2>1
    <2>3. cursor = None \/ \E row \in SortedRow : cursor = CursorAfter(s.order, row)
      BY <1>3, <1>5, <1>9
    <2>4. \A i \in t.steady :
            t.found[i] = IF t.state = "paging" /\ Ahead(t, Table[i]) THEN 0 ELSE 1
      BY <1>9, <1>12, <1>13, <2>1, <2>2 DEF Ahead
    <2>5. t.steady \subseteq DOMAIN Table
      BY <1>5, <2>1, TableRows
    <2> QED  BY <1>5, <1>11, <2>1, <2>2, <2>3, <2>4, <2>5 DEF ScanStage
  <1>16. Table' = Table /\ Existing' = Existing
    BY <1>1 DEF Table, RowOf, Existing
  <1>17. \A d \in Callers : ScanStage(scan'[d], Table)
    BY <1>1, <1>15 DEF PagesInv
  <1>18. scan' = [d \in Callers |-> scan'[d]]
    BY <1>1 DEF PagesInv
  <1>19. calls' \in Nat /\ Existing' \subseteq Ids
         /\ \A i \in Existing' : (RowOf(i) \in SortedRow)'
    BY <1>1, <1>16 DEF PagesInv, RowOf, SortedRow
  <1>20. \A d \in Callers : ScanStage(scan[d], Table)'
    BY <1>16, <1>17 DEF ScanStage, ScanRecord, Ahead
  <1> QED  BY <1>18, <1>19, <1>20 DEF PagesInv

LEMMA TableGrows ==
  ASSUME NEW s, NEW t, NEW u, ScanStage(s, t), DOMAIN t \subseteq DOMAIN u,
         \A i \in DOMAIN t : u[i] = t[i]
  PROVE  ScanStage(s, u)
  BY DEF ScanStage

LEMMA PagesQuiet ==
  PagesInv /\ UNCHANGED <<records, scan>> /\ calls' \in {calls, calls + 1} => PagesInv'
  <1> SUFFICES ASSUME PagesInv, UNCHANGED <<records, scan>>, calls' \in {calls, calls + 1}
               PROVE  PagesInv'
    OBVIOUS
  <1>1. Table' = Table /\ Existing' = Existing
    BY DEF Table, RowOf, Existing
  <1>2. \A c \in Callers : ScanStage(scan[c], Table)'
    BY <1>1 DEF PagesInv, ScanStage, ScanRecord, Ahead
  <1>3. calls' \in Nat
    BY DEF PagesInv
  <1>4. \A i \in Existing' : (RowOf(i) \in SortedRow)'
    BY <1>1 DEF PagesInv, RowOf, SortedRow
  <1> QED  BY <1>1, <1>2, <1>3, <1>4 DEF PagesInv

\* How the invariant is kept, in terms of the new table.
LEMMA PagesKept ==
  ASSUME PagesInv, calls' \in {calls, calls + 1}, Existing' \subseteq Ids,
         \A i \in Existing' : Table'[i] \in SortedRow,
         scan' = [c \in Callers |-> scan'[c]],
         \A c \in Callers : ScanStage(scan'[c], Table')
  PROVE  PagesInv'
  <1>1. calls' \in Nat
    BY DEF PagesInv
  <1>2. \A i \in Existing' : (RowOf(i) \in SortedRow)'
    BY DEF Table, SortedRow
  <1>3. \A c \in Callers : ScanStage(scan[c], Table)'
    BY DEF ScanStage, ScanRecord, Ahead
  <1> QED  BY <1>1, <1>2, <1>3 DEF PagesInv

\* A record has changed or gone: the scans it is steady for see it as before.
LEMMA UnsteadyKeeps ==
  ASSUME PagesInv, NEW i, NEW by, NEW table,
         \A j \in Existing \ {i} : j \in DOMAIN table /\ table[j] = Table[j],
         \A order \in Seq(OrderItem) :
           by \cap OrderedBy(order) = {} /\ i \in Existing =>
             /\ i \in DOMAIN table
             /\ \A cursor : PastCursor(order, table[i], cursor) <=> PastCursor(order, Table[i], cursor)
  PROVE  \A c \in Callers : ScanStage(Unsteady(i, by)[c], table)
  <1> SUFFICES ASSUME NEW c \in Callers PROVE ScanStage(Unsteady(i, by)[c], table)
    OBVIOUS
  <1>1. PICK s : s = scan[c]
    OBVIOUS
  <1>2. ScanStage(s, Table) /\ DOMAIN Table = Existing
    BY <1>1, TableRows DEF PagesInv
  <1>3. Unsteady(i, by)[c] = IF s.state # "none" /\ by \cap OrderedBy(s.order) # {}
                               THEN [s EXCEPT !.steady = s.steady \ {i}] ELSE s
    BY <1>1 DEF Unsteady
  <1>4. CASE s = NoScan
    <2>1. Unsteady(i, by)[c] = NoScan
      BY <1>3, <1>4 DEF NoScan
    <2> QED  BY <2>1 DEF ScanStage
  <1>5. CASE s # NoScan
    <2>1. /\ s.state \in {"paging", "done"} /\ ScanRecord(s)
          /\ s.order \in Seq(OrderItem) /\ s.limit \in Nat \ {0} /\ s.found \in [Ids -> Nat]
          /\ s.steady \subseteq Existing
          /\ s.cursor = None \/ \E row \in SortedRow : s.cursor = CursorAfter(s.order, row)
          /\ \A j \in s.steady :
               s.found[j] = IF s.state = "paging" /\ Ahead(s, Table[j]) THEN 0 ELSE 1
      BY <1>2, <1>5 DEF ScanStage
    <2>2. CASE by \cap OrderedBy(s.order) # {}
      <3>1. PICK t : t = [s EXCEPT !.steady = s.steady \ {i}]
        OBVIOUS
      <3>2. t = [state |-> s.state, order |-> s.order, limit |-> s.limit, cursor |-> s.cursor,
                 found |-> s.found, steady |-> s.steady \ {i}]
        BY <2>1, <3>1, Zenon DEF ScanRecord
      <3>3. /\ t.state = s.state /\ t.order = s.order /\ t.limit = s.limit
            /\ t.cursor = s.cursor /\ t.found = s.found /\ t.steady = s.steady \ {i}
            /\ ScanRecord(t)
        BY <3>2 DEF ScanRecord
      <3>4. \A j \in t.steady : j \in DOMAIN table /\ table[j] = Table[j] /\ j \in s.steady
        BY <2>1, <3>3
      <3>5. ScanStage(t, table)
        BY <2>1, <3>3, <3>4 DEF ScanStage, Ahead
      <3>6. Unsteady(i, by)[c] = t
        BY <1>3, <2>1, <2>2, <3>1
      <3> QED  BY <3>5, <3>6
    <2>3. CASE by \cap OrderedBy(s.order) = {}
      <3>1. Unsteady(i, by)[c] = s
        BY <1>3, <2>3
      <3>2. \A j \in s.steady : j \in DOMAIN table /\ (Ahead(s, table[j]) <=> Ahead(s, Table[j]))
        BY <2>1, <2>3 DEF Ahead
      <3>3. ScanStage(s, table)
        BY <2>1, <3>2 DEF ScanStage
      <3> QED  BY <3>1, <3>3
    <2> QED  BY <2>2, <2>3
  <1> QED  BY <1>4, <1>5

LEMMA CreatePages ==
  ASSUME PagesInv, NEW c \in Callers, NEW i \in Ids, NEW value \in Field, Create(c, i, value),
         log[i] = <<>> => i \notin Existing
  PROVE  PagesInv'
  <1> DEFINE row(j) == IF j # i THEN records[j]
                       ELSE [value |-> value, revision |-> 1, version |-> pinned[c].version,
                             createdAt |-> calls]
  <1>1. /\ records' = [j \in Existing \cup {i} |-> row(j)] /\ log[i] = <<>>
        /\ UNCHANGED scan /\ calls' = calls + 1
    BY DEF Create, Makes
  <1>2. row(i).value = value /\ row(i).createdAt = calls /\ \A j : j # i => row(j) = records[j]
    OBVIOUS
  <1> HIDE DEF row
  <1>3. i \notin Existing /\ Existing' = Existing \cup {i}
    BY <1>1 DEF Existing
  <1>4. Table' = [j \in Existing \cup {i} |->
                    [id |-> j, value |-> row(j).value, createdAt |-> row(j).createdAt]]
    BY <1>1, <1>3 DEF Table, RowOf
  <1>5. Table'[i] \in SortedRow
    BY <1>2, <1>4, CollectionAssumption DEF SortedRow, PagesInv
  <1>6. \A j \in Existing : Table'[j] = Table[j] /\ Table[j] \in SortedRow
    BY <1>2, <1>3, <1>4, TableRows DEF RowOf
  <1>7. DOMAIN Table = Existing /\ DOMAIN (Table') = Existing'
    BY <1>3, <1>4, TableRows
  <1>8. \A d \in Callers : ScanStage(scan'[d], Table')
    BY <1>1, <1>3, <1>6, <1>7, TableGrows DEF PagesInv
  <1>9. scan' = [d \in Callers |-> scan'[d]] /\ Existing' \subseteq Ids
    BY <1>1, <1>3 DEF PagesInv
  <1> QED  BY <1>1, <1>3, <1>5, <1>6, <1>8, <1>9, PagesKept

LEMMA DeletePages ==
  ASSUME PagesInv, NEW c \in Callers, NEW i \in Ids, Delete(c, i)
  PROVE  PagesInv'
  <1>1. /\ records' = [j \in Existing \ {i} |-> records[j]]
        /\ scan' = Unsteady(i, {"value", "createdAt", "id"}) /\ calls' = calls + 1
    BY DEF Delete, Makes
  <1>2. Existing' = Existing \ {i}
    BY <1>1 DEF Existing
  <1>3. Table' = [j \in Existing \ {i} |-> RowOf(j)]
    BY <1>1, <1>2 DEF Table, RowOf
  <1>4. \A j \in Existing \ {i} : j \in DOMAIN (Table') /\ Table'[j] = Table[j]
    BY <1>3, TableRows
  <1>5. \A order : {"value", "createdAt", "id"} \cap OrderedBy(order) # {}
    BY DEF OrderedBy
  <1>6. \A d \in Callers : ScanStage(Unsteady(i, {"value", "createdAt", "id"})[d], Table')
    <2>1. PICK table : table = Table'
      OBVIOUS
    <2> QED  BY <1>4, <1>5, <2>1, UnsteadyKeeps
  <1>7. \A j \in Existing' : Table'[j] \in SortedRow
    BY <1>2, <1>4, TableRows
  <1>8. scan' = [d \in Callers |-> scan'[d]]
    BY <1>1 DEF Unsteady
  <1> QED  BY <1>1, <1>2, <1>6, <1>7, <1>8, PagesKept DEF PagesInv

\* A query that does not sort by the value compares two rows alike whose
\* other fields are the same.
LEMMA ValueUnseen ==
  ASSUME NEW order \in Seq(OrderItem), {"value"} \cap OrderedBy(order) = {},
         NEW a, NEW b, a.id = b.id, a.createdAt = b.createdAt, NEW cursor
  PROVE  PastCursor(order, a, cursor) <=> PastCursor(order, b, cursor)
  <1>1. Len(order) \in Nat /\ DOMAIN order = 1 .. Len(order)
    OBVIOUS
  <1>2. \A n \in DOMAIN order : order[n].field \in {"createdAt", "id"}
    <2> SUFFICES ASSUME NEW n \in DOMAIN order PROVE order[n].field \in {"createdAt", "id"}
      OBVIOUS
    <2>1. order[n] \in OrderItem
      BY <1>1
    <2>2. order[n].field \in OrderedBy(order)
      BY DEF OrderedBy
    <2> QED  BY <2>1, <2>2 DEF OrderItem
  <1>3. \A n \in DOMAIN order : FieldOf(a, order[n].field) = FieldOf(b, order[n].field)
    BY <1>2 DEF FieldOf
  <1>4. \A n \in DOMAIN order : \A value : Past(order[n], a, value) <=> Past(order[n], b, value)
    BY <1>3 DEF Past
  <1>5. \A n \in 1 .. Len(order) + 1 :
          /\ \A m \in 1 .. n - 1 : m \in DOMAIN order
          /\ n # Len(order) + 1 => n \in DOMAIN order
    BY <1>1
  <1>6. \A n \in 1 .. Len(order) + 1 :
          /\ (\A m \in 1 .. n - 1 : FieldOf(a, order[m].field) = cursor.values[m])
               <=> \A m \in 1 .. n - 1 : FieldOf(b, order[m].field) = cursor.values[m]
          /\ (IF n = Len(order) + 1 THEN a.id > cursor.id ELSE Past(order[n], a, cursor.values[n]))
               <=> IF n = Len(order) + 1 THEN b.id > cursor.id
                   ELSE Past(order[n], b, cursor.values[n])
    BY <1>3, <1>4, <1>5
  <1> QED  BY <1>6 DEF PastCursor

LEMMA UpdatePages ==
  ASSUME PagesInv, RecordsInv, NEW c \in Callers, NEW i \in Ids, NEW value \in Field,
         Update(c, i, value)
  PROVE  PagesInv'
  <1>1. /\ i \in Existing
        /\ records' = [records EXCEPT ![i] = Replaced(c, records[i], value)]
        /\ scan' = IF value = records[i].value THEN scan ELSE Unsteady(i, {"value"})
        /\ calls' = calls + 1
    BY DEF Update, Makes, Matches
  <1>2. PICK old : old = records[i]
    OBVIOUS
  <1>3. old = [value |-> old.value, revision |-> old.revision, version |-> old.version,
               createdAt |-> old.createdAt]
    BY <1>1, <1>2 DEF RecordsInv, Row
  <1>4. Replaced(c, old, value) = [value |-> value, revision |-> old.revision + 1,
                                   version |-> pinned[c].version, createdAt |-> old.createdAt]
    <2>1. PICK number, version : number = old.revision + 1 /\ version = pinned[c].version
      OBVIOUS
    <2>2. Replaced(c, old, value) = [old EXCEPT !.value = value, !.revision = number,
                                                !.version = version]
      BY <2>1 DEF Replaced
    <2> QED  BY <1>3, <2>1, <2>2, Zenon
  <1>5. PICK new : new = Replaced(c, old, value)
    OBVIOUS
  <1>6. new.value = value /\ new.createdAt = old.createdAt
    BY <1>4, <1>5
  <1>7. Existing' = Existing /\ records'[i] = new
        /\ \A j \in Existing \ {i} : records'[j] = records[j]
    BY <1>1, <1>2, <1>5 DEF Existing
  <1>8. Table' = [j \in Existing |-> [id |-> j, value |-> records'[j].value,
                                      createdAt |-> records'[j].createdAt]]
    BY <1>7 DEF Table, RowOf
  <1>9. \A j \in Existing \ {i} : j \in DOMAIN (Table') /\ Table'[j] = Table[j]
    BY <1>7, <1>8, TableRows DEF RowOf
  <1>10. /\ i \in DOMAIN (Table') /\ Table'[i] = [id |-> i, value |-> value, createdAt |-> old.createdAt]
         /\ Table[i] = [id |-> i, value |-> old.value, createdAt |-> old.createdAt]
    BY <1>1, <1>2, <1>6, <1>7, <1>8, TableRows DEF RowOf
  <1>11. \A j \in Existing' : Table'[j] \in SortedRow
    <2>1. Table[i] \in SortedRow
      BY <1>1, TableRows
    <2>2. Table'[i] \in SortedRow
      BY <1>10, <2>1 DEF SortedRow
    <2> QED  BY <1>7, <1>9, <2>2, TableRows
  <1>12. CASE value = records[i].value
    <2>1. Table'[i] = Table[i]
      BY <1>2, <1>10, <1>12
    <2>2. \A d \in Callers : ScanStage(scan'[d], Table')
      <3>1. \A j \in DOMAIN Table : Table'[j] = Table[j] /\ j \in DOMAIN (Table')
        BY <1>9, <1>10, <2>1, TableRows
      <3> QED  BY <1>1, <1>12, <3>1, TableGrows DEF PagesInv
    <2>3. scan' = [d \in Callers |-> scan'[d]]
      BY <1>1, <1>12 DEF PagesInv
    <2> QED  BY <1>1, <1>7, <1>11, <2>2, <2>3, PagesKept DEF PagesInv
  <1>13. CASE value # records[i].value
    <2>1. \A order \in Seq(OrderItem) : {"value"} \cap OrderedBy(order) = {} =>
            /\ i \in DOMAIN (Table')
            /\ \A cursor : PastCursor(order, Table'[i], cursor) <=> PastCursor(order, Table[i], cursor)
      <3>1. Table'[i].id = Table[i].id /\ Table'[i].createdAt = Table[i].createdAt
        BY <1>10
      <3>2. PICK a, b : a = Table'[i] /\ b = Table[i]
        OBVIOUS
      <3> QED  BY <1>10, <3>1, <3>2, ValueUnseen
    <2>2. \A d \in Callers : ScanStage(Unsteady(i, {"value"})[d], Table')
      <3>1. PICK table : table = Table'
        OBVIOUS
      <3> QED  BY <1>9, <2>1, <3>1, UnsteadyKeeps
    <2>3. scan' = [d \in Callers |-> scan'[d]]
      BY <1>1, <1>13 DEF Unsteady
    <2>4. \A d \in Callers : ScanStage(scan'[d], Table')
      BY <1>1, <1>13, <2>2
    <2> QED  BY <1>1, <1>7, <1>11, <2>3, <2>4, PagesKept DEF PagesInv
  <1> QED  BY <1>12, <1>13

LEMMA StartScanPages ==
  ASSUME PagesInv, NEW c \in Callers, NEW order \in Orders, NEW limit \in Limits,
         StartScan(c, order, limit)
  PROVE  PagesInv'
  <1> DEFINE t == [state |-> "paging", order |-> OrderOf(order), limit |-> limit,
                   cursor |-> None, found |-> [j \in Ids |-> 0], steady |-> Existing]
  <1>1. scan' = [scan EXCEPT ![c] = t] /\ calls' = calls + 1 /\ UNCHANGED records
    BY DEF StartScan, Makes, recordVars
  <1>2. OrderOf(order) \in Seq(OrderItem)
    <2>1. order \in Seq(OrderItem)
      BY CollectionAssumption DEF OrderItem
    <2>2. DefaultOrder \in Seq(OrderItem)
      BY DEF DefaultOrder, OrderItem
    <2> QED  BY <2>1, <2>2 DEF OrderOf
  <1>3. /\ t.state = "paging" /\ t.order = OrderOf(order) /\ t.limit = limit /\ t.cursor = None
        /\ t.found = [j \in Ids |-> 0] /\ t.steady = Existing /\ ScanRecord(t)
    BY DEF ScanRecord
  <1> HIDE DEF t
  <1>4. limit \in Nat \ {0}
    BY CollectionAssumption
  <1>5. \A j \in t.steady : t.found[j] = IF t.state = "paging" /\ Ahead(t, Table[j]) THEN 0 ELSE 1
    BY <1>3 DEF PagesInv, Ahead
  <1>6. ScanStage(t, Table)
    BY <1>2, <1>3, <1>4, <1>5, TableRows DEF ScanStage
  <1>7. Table' = Table /\ Existing' = Existing
    BY <1>1 DEF Table, RowOf, Existing
  <1>8. \A d \in Callers : ScanStage(scan'[d], Table')
    BY <1>1, <1>6, <1>7 DEF PagesInv
  <1>9. scan' = [d \in Callers |-> scan'[d]]
    BY <1>1 DEF PagesInv
  <1> QED  BY <1>1, <1>7, <1>8, <1>9, TableRows, PagesKept DEF PagesInv

LEMMA PagesStep ==
  ASSUME PagesInv, RecordsInv, CollectionNext
  PROVE  PagesInv'
  <1>1. calls' \in {calls, calls + 1}
    BY CollectionCounts DEF Counts
  <1>2. ASSUME NEW d \in Definition, CreateCollection(d) \/ CreateCollectionByMcp(d) PROVE PagesInv'
    BY <1>1, <1>2, PagesQuiet
    DEF CreateCollection, CreateCollectionByMcp, recordVars, callerVars
  <1>3. ASSUME NEW granted \in Grants, SetGrant(granted) \/ SetGrantByMcp(granted) PROVE PagesInv'
    BY <1>1, <1>3, PagesQuiet DEF SetGrant, SetGrantByMcp, recordVars, callerVars
  <1>4. CASE DeleteGrant \/ DeleteGrantByMcp \/ Build \/ Activate
    BY <1>1, <1>4, PagesQuiet
    DEF DeleteGrant, DeleteGrantByMcp, Build, Activate, recordVars, callerVars
  <1>5. ASSUME NEW c \in Callers, NEW d \in Definition, VersionRead(c, d) \/ VersionReadByMcp(c, d)
        PROVE  PagesInv'
    BY <1>1, <1>5, PagesQuiet DEF VersionRead, VersionReadByMcp, recordVars
  <1>6. ASSUME NEW c \in Callers, CreateVersion(c) \/ CreateVersionByMcp(c) \/ Begin(c) \/ UpdateAnswer(c) PROVE PagesInv'
    BY <1>1, <1>6, PagesQuiet DEF CreateVersion, CreateVersionByMcp, Begin, UpdateAnswer, recordVars
  <1>7. ASSUME NEW c \in Callers, FunctionQuery(c) \/ ConsoleQuery(c) \/ AgentQuery(c)
        PROVE  PagesInv'
    BY <1>7, QueryStep DEF FunctionQuery, ConsoleQuery, AgentQuery
  <1>8. ASSUME NEW c \in Callers, NEW order \in Orders, NEW limit \in Limits,
               StartScan(c, order, limit)
        PROVE  PagesInv'
    BY <1>8, StartScanPages
  <1>9. ASSUME NEW c \in Callers, NEW i \in Ids, Get(c, i) PROVE PagesInv'
    BY <1>1, <1>9, PagesQuiet DEF Get, recordVars
  <1>10. ASSUME NEW c \in Callers, NEW i \in Ids,
                FunctionDelete(c, i) \/ ConsoleDelete(c, i) \/ AgentDelete(c, i)
         PROVE  PagesInv'
    BY <1>10, DeletePages DEF FunctionDelete, ConsoleDelete, AgentDelete
  <1>11. ASSUME NEW c \in Callers, NEW i \in Ids, NEW value \in Field,
                \/ FunctionCreate(c, i, value) \/ ConsoleCreate(c, i, value)
                \/ AgentCreate(c, i, value)
         PROVE  PagesInv'
    <2>1. log[i] = <<>> => i \notin Existing
      BY DEF RecordsInv
    <2> QED  BY <1>11, <2>1, CreatePages DEF FunctionCreate, ConsoleCreate, AgentCreate
  <1>12. ASSUME NEW c \in Callers, NEW i \in Ids, NEW value \in Field,
                \/ FunctionUpdate(c, i, value) \/ ConsoleUpdate(c, i, value)
                \/ AgentUpdate(c, i, value)
         PROVE  PagesInv'
    BY <1>12, UpdatePages DEF FunctionUpdate, ConsoleUpdate, AgentUpdate
  <1> QED  BY <1>2, <1>3, <1>4, <1>5, <1>6, <1>7, <1>8, <1>9, <1>10, <1>11, <1>12
           DEF CollectionNext

LEMMA PagesStart == Init => PagesInv /\ ListingsInv
  <1> SUFFICES ASSUME Init PROVE PagesInv /\ ListingsInv
    OBVIOUS
  <1>1. calls = 0 /\ CollectionInit /\ LogsInit
    BY DEF Init, CallsInit
  <1>2. records \in [{i \in Ids : log[i] # <<>>} ->
                       [value : Field, revision : {1}, version : {1}, createdAt : {0}]]
    BY <1>1 DEF CollectionInit
  <1>3. Existing \subseteq Ids
    BY <1>2 DEF Existing
  <1>4. \A i \in Existing : RowOf(i) \in SortedRow
    <2> SUFFICES ASSUME NEW i \in Existing PROVE RowOf(i) \in SortedRow
      OBVIOUS
    <2>1. records[i] \in [value : Field, revision : {1}, version : {1}, createdAt : {0}]
      BY <1>2 DEF Existing
    <2>2. records[i].value \in Field /\ records[i].createdAt = 0 /\ i \in Nat
      BY <1>3, <2>1, CollectionAssumption
    <2> QED  BY <2>2 DEF RowOf, SortedRow
  <1>5. scan = [c \in Callers |-> NoScan]
    BY <1>1 DEF CollectionInit
  <1>6. PagesInv
    BY <1>1, <1>3, <1>4, <1>5 DEF PagesInv, ScanStage
  <1>7. ListingsInv
    BY <1>1 DEF LogsInit, ListingsInv, Logging, ListingStage
  <1> QED  BY <1>6, <1>7

LEMMA PagesHold ==
  ASSUME PagesInv, ListingsInv
  PROVE  PagesComplete
  <1>1. RecordPagesComplete
    <2> SUFFICES ASSUME NEW c \in Callers, scan[c].state # "none", NEW i \in scan[c].steady
                 PROVE  /\ scan[c].found[i] <= 1
                        /\ scan[c].state = "done" => scan[c].found[i] = 1
      BY DEF RecordPagesComplete
    <2>1. ScanStage(scan[c], Table) /\ scan[c] # NoScan
      BY DEF PagesInv, NoScan
    <2>2. scan[c].found[i] =
            IF scan[c].state = "paging" /\ Ahead(scan[c], Table[i]) THEN 0 ELSE 1
      BY <2>1 DEF ScanStage
    <2> QED  BY <2>2
  <1>2. LogPagesComplete
    <2> SUFFICES ASSUME NEW c \in Callers, listing[c].state # "none",
                        NEW row \in listing[c].steady
                 PROVE  /\ listing[c].found[row.id] <= 1
                        /\ listing[c].state = "done" /\ ~listing[c].cut
                             => listing[c].found[row.id] = 1
      BY DEF LogPagesComplete
    <2>1. ListingStage(listing[c], logs) /\ listing[c] # NoListing
      BY DEF ListingsInv, NoListing
    <2>2. /\ listing[c].state = "paging" =>
               listing[c].found[row.id] = IF listing[c].cursor # 0 /\ row.id >= listing[c].cursor
                                            THEN 1 ELSE 0
          /\ listing[c].state = "done" =>
               /\ listing[c].found[row.id] <= 1
               /\ ~listing[c].cut => listing[c].found[row.id] = 1
          /\ listing[c].state \in {"paging", "done"}
      BY <2>1 DEF ListingStage
    <2> QED  BY <2>2
  <1> QED  BY <1>1, <1>2 DEF PagesComplete

LEMMA ListingsQuiet == ListingsInv /\ UNCHANGED logVars => ListingsInv'
  <1> SUFFICES ASSUME ListingsInv, UNCHANGED logVars PROVE ListingsInv'
    OBVIOUS
  <1>1. UNCHANGED <<logs, events, run, listing>>
    BY DEF logVars
  <1>2. \A c \in Callers : ListingStage(listing[c], logs)'
    BY <1>1 DEF ListingsInv, ListingStage
  <1>3. \A c \in Callers : Logging(run[c])'
    BY <1>1 DEF ListingsInv, Logging, LogRow
  <1>4. events' \in Nat /\ logs' \subseteq LogRow
    BY <1>1 DEF ListingsInv
  <1>5. run' = [c \in Callers |-> run'[c]] /\ listing' = [c \in Callers |-> listing'[c]]
    BY <1>1 DEF ListingsInv
  <1> QED  BY <1>2, <1>3, <1>4, <1>5 DEF ListingsInv

LEMMA StorageCounts == StorageNext => Counts
  BY ZenonT(30) DEF Counts, StorageNext, Makes, boundVars, Tick, StorageCall, CreateNamespace, StorageGet,
         StorageList, StorageSet, DeleteFind, DeleteFound, Produced, CacheGet, CacheDelete,
         InspectorDelete, InspectorDeleteByMcp, Purge, PurgeUnlink, CacheSet, GetOrSet

LEMMA PagingStep ==
  ASSUME RecordsInv, PagesInv, ListingsInv, [Next]_vars
  PROVE  PagesInv' /\ ListingsInv'
  <1>1. CASE CollectionNext /\ UNCHANGED <<storageVars, logVars, upstreamVars, sandboxVars>>
    BY <1>1, PagesStep, ListingsQuiet
  <1>2. CASE LogsNext /\ UNCHANGED <<collectionVars, storageVars, upstreamVars, sandboxVars>>
    <2>1. UNCHANGED <<records, scan>> /\ calls' \in {calls, calls + 1}
      BY <1>2, LogsCount DEF Counts, collectionVars, recordVars, callerVars
    <2> QED  BY <1>2, <2>1, PagesQuiet, LogsStep
  <1>3. ASSUME UNCHANGED collectionVars, UNCHANGED logVars, calls' \in {calls, calls + 1}
        PROVE  PagesInv' /\ ListingsInv'
    <2>1. UNCHANGED <<records, scan>>
      BY <1>3 DEF collectionVars, recordVars, callerVars
    <2> QED  BY <1>3, <2>1, PagesQuiet, ListingsQuiet
  <1>4. CASE StorageNext /\ UNCHANGED <<collectionVars, logVars, upstreamVars, sandboxVars>>
    BY <1>3, <1>4, StorageCounts DEF Counts
  <1>5. CASE UpstreamsNext /\ UNCHANGED <<collectionVars, storageVars, logVars, sandboxVars>>
    BY <1>3, <1>5, UpstreamsCount DEF Counts
  <1>6. CASE SandboxNext /\ UNCHANGED <<collectionVars, storageVars, logVars, upstreamVars>>
    BY <1>3, <1>6, SandboxCounts DEF Counts
  <1>7. CASE UNCHANGED vars
    BY <1>3, <1>7 DEF vars, boundVars
  <1> QED  BY <1>1, <1>2, <1>4, <1>5, <1>6, <1>7 DEF Next

(* However many rows, callers and page sizes there are, and whatever the     *)
(* order asked for, those who page through records or the log while both     *)
(* change see each row that keeps its place exactly once, records without    *)
(* the field that orders them included (collections.ts, compileCursor;       *)
(* observability-routes.ts).                                                 *)
THEOREM PagesStayComplete == Spec => []PagesComplete
  <1> DEFINE Inv == CapabilitiesInv /\ PagesInv /\ ListingsInv
  <1>1. Init => Inv
    BY CapabilitiesStart, PagesStart
  <1>2. Inv /\ [Next]_vars => Inv'
    <2> SUFFICES ASSUME Inv, [Next]_vars PROVE Inv'
      OBVIOUS
    <2>1. CapabilitiesInv'
      BY CapabilitiesStep
    <2>2. PagesInv' /\ ListingsInv'
      BY PagingStep DEF CapabilitiesInv
    <2> QED  BY <2>1, <2>2
  <1>3. Inv => PagesComplete
    BY PagesHold
  <1> QED  BY <1>1, <1>2, <1>3, PTL DEF Spec

-----------------------------------------------------------------------------
(* Sums of sizes.  Size is a fold over a set by a chosen element at a time;  *)
(* that there is such a function, and that the order does not matter, follow *)
(* from a least counterexample.                                              *)
Any(s) == CHOOSE x \in s : TRUE

Totals(family, g) ==
  g = [s \in family |-> IF s = {} THEN 0 ELSE Any(s).bytes + g[s \ {Any(s)}]]

Sums(S) == CHOOSE g : Totals(SUBSET S, g)

Weighed(S) == IsFiniteSet(S) /\ \A x \in S : x.bytes \in Nat

LEMMA SizeIsSum ==
  ASSUME NEW S
  PROVE  Size(S) = Sums(S)[S]
  BY DEF Size, MapThenSumSet, MapThenFoldSet, Any, Totals, Sums

LEMMA WeighedParts ==
  ASSUME NEW S, Weighed(S), NEW s \in SUBSET S
  PROVE  /\ Weighed(s) /\ Cardinality(s) \in Nat /\ Cardinality(s) <= Cardinality(S)
         /\ s = {} <=> Cardinality(s) = 0
         /\ \A x \in s : /\ Cardinality(s \ {x}) = Cardinality(s) - 1
                         /\ x.bytes \in Nat
         /\ s # {} => Any(s) \in s
  <1>1. IsFiniteSet(s) /\ Cardinality(s) <= Cardinality(S)
    BY FS_Subset DEF Weighed
  <1>2. Cardinality(s) \in Nat /\ (s = {} <=> Cardinality(s) = 0)
    BY <1>1, FS_CardinalityType, FS_EmptySet
  <1>3. \A x \in s : Cardinality(s \ {x}) = Cardinality(s) - 1
    BY <1>1, FS_RemoveElement
  <1>4. s # {} => Any(s) \in s
    BY DEF Any
  <1> QED  BY <1>1, <1>2, <1>3, <1>4 DEF Weighed

\* Of all subsets up to some number of elements, and so of all.
Up(S, n) == {s \in SUBSET S : Cardinality(s) <= n}

LEMMA SumsGrow ==
  ASSUME NEW S, Weighed(S), NEW n \in Nat, NEW g, Totals(Up(S, n), g)
  PROVE  \E h : Totals(Up(S, n + 1), h)
  <1> DEFINE h == [s \in Up(S, n + 1) |-> IF s = {} THEN 0 ELSE Any(s).bytes + g[s \ {Any(s)}]]
  <1>1. ASSUME NEW s \in Up(S, n + 1), s # {}
        PROVE  s \ {Any(s)} \in Up(S, n) /\ s \ {Any(s)} \in Up(S, n + 1)
    <2>1. s \in SUBSET S /\ Cardinality(s) <= n + 1
      BY DEF Up
    <2>2. /\ Cardinality(s) \in Nat /\ Any(s) \in s
          /\ Cardinality(s \ {Any(s)}) = Cardinality(s) - 1
      BY <1>1, <2>1, WeighedParts
    <2>3. Cardinality(s \ {Any(s)}) <= n /\ Cardinality(s \ {Any(s)}) <= n + 1
      BY <2>1, <2>2
    <2> QED  BY <2>1, <2>3 DEF Up
  <1>2. \A s \in Up(S, n) : s \in Up(S, n + 1)
    <2> SUFFICES ASSUME NEW s \in Up(S, n) PROVE s \in Up(S, n + 1)
      OBVIOUS
    <2>1. s \in SUBSET S /\ Cardinality(s) <= n
      BY DEF Up
    <2>2. Cardinality(s) \in Nat
      BY <2>1, WeighedParts
    <2> QED  BY <2>1, <2>2 DEF Up
  <1>3. \A s \in Up(S, n) : g[s] = IF s = {} THEN 0 ELSE Any(s).bytes + g[s \ {Any(s)}]
    BY DEF Totals
  <1>4. \A s \in Up(S, n) : h[s] = g[s]
    BY <1>2, <1>3
  <1>5. h = [s \in Up(S, n + 1) |-> IF s = {} THEN 0 ELSE Any(s).bytes + h[s \ {Any(s)}]]
    <2>1. \A s \in Up(S, n + 1) :
            h[s] = IF s = {} THEN 0 ELSE Any(s).bytes + h[s \ {Any(s)}]
      BY <1>1, <1>4
    <2>2. h = [s \in Up(S, n + 1) |-> h[s]]
      OBVIOUS
    <2> HIDE DEF h
    <2> QED  BY <2>1, <2>2
  <1> QED  BY <1>5 DEF Totals

LEMMA SumsExist ==
  ASSUME NEW S, Weighed(S)
  PROVE  Totals(SUBSET S, Sums(S))
  <1> DEFINE Absent == {n \in Nat : ~ \E g : Totals(Up(S, n), g)}
  <1>1. \E g : Totals(Up(S, 0), g)
    <2> DEFINE g == [s \in Up(S, 0) |-> 0]
    <2>1. \A s \in Up(S, 0) : s = {}
      <3> SUFFICES ASSUME NEW s \in Up(S, 0) PROVE s = {}
        OBVIOUS
      <3>1. s \in SUBSET S /\ Cardinality(s) <= 0
        BY DEF Up
      <3>2. Cardinality(s) \in Nat /\ (s = {} <=> Cardinality(s) = 0)
        BY <3>1, WeighedParts
      <3> QED  BY <3>1, <3>2
    <2>2. g = [s \in Up(S, 0) |-> IF s = {} THEN 0 ELSE Any(s).bytes + g[s \ {Any(s)}]]
      BY <2>1
    <2> QED  BY <2>2 DEF Totals
  <1>2. Absent = {}
    <2> SUFFICES ASSUME Absent # {} PROVE FALSE
      OBVIOUS
    <2>1. PICK n \in Absent : \A m \in Absent : n <= m
      BY LeastOf
    <2>2. n \in Nat /\ n # 0
      BY <1>1, <2>1
    <2>3. n - 1 \in Nat /\ ~ (n <= n - 1) /\ (n - 1) + 1 = n
      BY <2>2
    <2>4. n - 1 \notin Absent
      BY <2>1, <2>3
    <2>5. PICK g : Totals(Up(S, n - 1), g)
      BY <2>3, <2>4
    <2>6. \E h : Totals(Up(S, n), h)
      BY <2>3, <2>5, SumsGrow
    <2> QED  BY <2>1, <2>6
  <1>3. Cardinality(S) \in Nat
    BY WeighedParts
  <1>4. Up(S, Cardinality(S)) = SUBSET S
    BY WeighedParts DEF Up
  <1>5. \E g : Totals(SUBSET S, g)
    <2> PICK n : n = Cardinality(S)
      OBVIOUS
    <2>1. n \in Nat /\ n \notin Absent
      BY <1>2, <1>3
    <2>2. PICK g : Totals(Up(S, n), g)
      BY <2>1
    <2>3. Up(S, n) = SUBSET S
      BY <1>4
    <2> HIDE DEF Absent
    <2> QED  BY <2>2, <2>3
  <1> QED  BY <1>5 DEF Sums

LEMMA SumsRecur ==
  ASSUME NEW S, Weighed(S), NEW s \in SUBSET S
  PROVE  Sums(S)[s] = IF s = {} THEN 0 ELSE Any(s).bytes + Sums(S)[s \ {Any(s)}]
  <1> PICK g : g = Sums(S)
    OBVIOUS
  <1>0. Totals(SUBSET S, g)
    BY SumsExist
  <1>1. g = [t \in SUBSET S |-> IF t = {} THEN 0 ELSE Any(t).bytes + g[t \ {Any(t)}]]
    BY <1>0 DEF Totals
  <1>2. g[s] = IF s = {} THEN 0 ELSE Any(s).bytes + g[s \ {Any(s)}]
    BY <1>1
  <1> QED  BY <1>2

(* The sum of a set does not depend on the set it is a part of.             *)
LEMMA SumsAgree ==
  ASSUME NEW S, Weighed(S), NEW T \in SUBSET S
  PROVE  \A s \in SUBSET T : Sums(T)[s] = Sums(S)[s]
  <1> DEFINE Apart == {s \in SUBSET T : Sums(T)[s] # Sums(S)[s]}
             sizes == {Cardinality(s) : s \in Apart}
  <1> SUFFICES ASSUME Apart # {} PROVE FALSE
    OBVIOUS
  <1>1. Weighed(T)
    BY WeighedParts
  <1>2. sizes \subseteq Nat /\ sizes # {}
    BY <1>1, WeighedParts
  <1>3. PICK n \in sizes : \A m \in sizes : n <= m
    BY <1>2, LeastOf
  <1>4. PICK s \in Apart : n = Cardinality(s)
    BY <1>3
  <1>5. s \in SUBSET T /\ s \in SUBSET S /\ Sums(T)[s] # Sums(S)[s]
    BY <1>4
  <1>6. /\ Sums(T)[s] = IF s = {} THEN 0 ELSE Any(s).bytes + Sums(T)[s \ {Any(s)}]
        /\ Sums(S)[s] = IF s = {} THEN 0 ELSE Any(s).bytes + Sums(S)[s \ {Any(s)}]
    BY <1>1, <1>5, SumsRecur
  <1>7. s # {}
    BY <1>5, <1>6
  <1> PICK t : t = s \ {Any(s)}
    OBVIOUS
  <1>8. t \in SUBSET T /\ Cardinality(t) = Cardinality(s) - 1 /\ Cardinality(s) \in Nat
    BY <1>1, <1>5, <1>7, WeighedParts
  <1>9. t \notin Apart
    <2> SUFFICES ASSUME t \in Apart PROVE FALSE
      OBVIOUS
    <2>1. Cardinality(t) \in sizes
      OBVIOUS
    <2>2. n <= Cardinality(t)
      BY <1>3, <2>1
    <2> QED  BY <1>4, <1>8, <2>2
  <1>10. Sums(T)[t] = Sums(S)[t]
    BY <1>8, <1>9
  <1> QED  BY <1>5, <1>6, <1>7, <1>10

LEMMA SizeByAny ==
  ASSUME NEW S, Weighed(S)
  PROVE  Size(S) = IF S = {} THEN 0 ELSE Any(S).bytes + Size(S \ {Any(S)})
  <1> PICK T : T = S \ {Any(S)}
    OBVIOUS
  <1>1. T \in SUBSET S /\ T \in SUBSET T /\ S \in SUBSET S
    OBVIOUS
  <1>2. Sums(T)[T] = Sums(S)[T]
    BY <1>1, SumsAgree
  <1>3. Sums(S)[S] = IF S = {} THEN 0 ELSE Any(S).bytes + Sums(S)[S \ {Any(S)}]
    BY <1>1, SumsRecur
  <1>4. Size(S) = Sums(S)[S] /\ Size(T) = Sums(T)[T]
    BY SizeIsSum
  <1> QED  BY <1>2, <1>3, <1>4

(* It is a number, and any element may be taken off first.                   *)
LEMMA SizeType ==
  ASSUME NEW S, Weighed(S)
  PROVE  Size(S) \in Nat
  <1> DEFINE Odd == {s \in SUBSET S : Size(s) \notin Nat}
             sizes == {Cardinality(s) : s \in Odd}
  <1> SUFFICES ASSUME Odd # {} PROVE FALSE
    OBVIOUS
  <1>1. sizes \subseteq Nat /\ sizes # {}
    BY WeighedParts
  <1>2. PICK n \in sizes : \A m \in sizes : n <= m
    BY <1>1, LeastOf
  <1>3. PICK s \in Odd : n = Cardinality(s)
    BY <1>2
  <1>4. s \in SUBSET S /\ Size(s) \notin Nat
    BY <1>3
  <1>5. Weighed(s) /\ s \in SUBSET s
    BY <1>4, WeighedParts
  <1>6. Size(s) = IF s = {} THEN 0 ELSE Any(s).bytes + Size(s \ {Any(s)})
    BY <1>5, SizeByAny
  <1>7. s # {} /\ Any(s) \in s
    BY <1>4, <1>5, <1>6, WeighedParts
  <1> PICK t : t = s \ {Any(s)}
    OBVIOUS
  <1>8. /\ t \in SUBSET S /\ Cardinality(t) = Cardinality(s) - 1 /\ Cardinality(s) \in Nat
        /\ Any(s).bytes \in Nat
    BY <1>4, <1>7, WeighedParts
  <1>9. t \notin Odd
    <2> SUFFICES ASSUME t \in Odd PROVE FALSE
      OBVIOUS
    <2>1. Cardinality(t) \in sizes
      OBVIOUS
    <2>2. n <= Cardinality(t)
      BY <1>2, <2>1
    <2> QED  BY <1>3, <1>8, <2>2
  <1>10. Size(t) \in Nat
    BY <1>8, <1>9
  <1>11. Size(s) = Any(s).bytes + Size(t)
    BY <1>6, <1>7
  <1> QED  BY <1>4, <1>8, <1>10, <1>11

LEMMA SizeTakes ==
  ASSUME NEW S, Weighed(S)
  PROVE  \A x \in S : Size(S) = x.bytes + Size(S \ {x})
  <1> DEFINE Odd == {s \in SUBSET S : \E x \in s : Size(s) # x.bytes + Size(s \ {x})}
             sizes == {Cardinality(s) : s \in Odd}
  <1> SUFFICES ASSUME Odd # {} PROVE FALSE
    OBVIOUS
  <1>1. sizes \subseteq Nat /\ sizes # {}
    BY WeighedParts
  <1>2. PICK n \in sizes : \A m \in sizes : n <= m
    BY <1>1, LeastOf
  <1>3. PICK s \in Odd : n = Cardinality(s)
    BY <1>2
  <1>4. PICK x \in s : Size(s) # x.bytes + Size(s \ {x})
    BY <1>3
  <1>5. s \in SUBSET S /\ Weighed(s)
    BY <1>3, WeighedParts
  <1>6. ASSUME NEW t \in SUBSET S, Cardinality(t) = Cardinality(s) - 1
        PROVE  \A y \in t : Size(t) = y.bytes + Size(t \ {y})
    <2>1. Cardinality(s) \in Nat
      BY <1>5, WeighedParts
    <2>2. t \notin Odd
      <3> SUFFICES ASSUME t \in Odd PROVE FALSE
        OBVIOUS
      <3>1. Cardinality(t) \in sizes
        OBVIOUS
      <3>2. n <= Cardinality(t)
        BY <1>2, <3>1
      <3> QED  BY <1>3, <1>6, <2>1, <3>2
    <2> QED  BY <2>2
  <1> HIDE DEF Odd, sizes
  <1> PICK a : a = Any(s)
    OBVIOUS
  <1>7. a \in s
    BY <1>5, WeighedParts
  <1>8. Size(s) = a.bytes + Size(s \ {a})
    BY <1>5, <1>7, SizeByAny
  <1>9. a # x
    BY <1>4, <1>8
  <1>10. /\ Cardinality(s \ {a}) = Cardinality(s) - 1
         /\ Cardinality(s \ {x}) = Cardinality(s) - 1
         /\ a.bytes \in Nat /\ x.bytes \in Nat
    BY <1>5, <1>7, WeighedParts
  <1> PICK rest : rest = s \ {a, x}
    OBVIOUS
  <1>11. (s \ {a}) \ {x} = rest /\ (s \ {x}) \ {a} = rest
    OBVIOUS
  <1>12. Size(s \ {a}) = x.bytes + Size(rest)
    <2>1. s \ {a} \in SUBSET S /\ x \in s \ {a}
      BY <1>5, <1>9
    <2> QED  BY <1>6, <1>10, <1>11, <2>1
  <1>13. Size(s \ {x}) = a.bytes + Size(rest)
    <2>1. s \ {x} \in SUBSET S /\ a \in s \ {x}
      BY <1>5, <1>7, <1>9
    <2> QED  BY <1>6, <1>10, <1>11, <2>1
  <1>14. Size(rest) \in Nat
    <2>1. rest \in SUBSET S
      BY <1>5
    <2> QED  BY <2>1, WeighedParts, SizeType
  <1> QED  BY <1>4, <1>8, <1>10, <1>12, <1>13, <1>14

(* Sizes of sets without a common row add up.                               *)
LEMMA SizeAdds ==
  ASSUME NEW A, NEW B, Weighed(A \cup B), A \cap B = {}
  PROVE  Size(A \cup B) = Size(A) + Size(B)
  <1> DEFINE Odd == {b \in SUBSET B : Size(A \cup b) # Size(A) + Size(b)}
             sizes == {Cardinality(b) : b \in Odd}
  <1> SUFFICES ASSUME Odd # {} PROVE FALSE
    OBVIOUS
  <1>1. Weighed(A) /\ Weighed(B)
    BY WeighedParts
  <1>2. sizes \subseteq Nat /\ sizes # {}
    <2>1. \A b \in SUBSET B : Cardinality(b) \in Nat
      BY <1>1, WeighedParts
    <2> QED  BY <2>1
  <1>3. PICK n \in sizes : \A m \in sizes : n <= m
    BY <1>2, LeastOf
  <1>4. PICK b \in Odd : n = Cardinality(b)
    BY <1>3
  <1>5. /\ b \in SUBSET B /\ Size(A \cup b) # Size(A) + Size(b)
        /\ Weighed(b) /\ Weighed(A \cup b)
    <2>1. b \in SUBSET B /\ A \cup b \in SUBSET (A \cup B)
      BY <1>4
    <2> QED  BY <1>1, <1>4, <2>1, WeighedParts
  <1>6. b # {}
    <2> SUFFICES ASSUME b = {} PROVE FALSE
      OBVIOUS
    <2>1. A \cup b = A /\ Size(b) = 0
      BY <1>5, SizeByAny
    <2>2. Size(A) \in Nat
      BY <1>1, SizeType
    <2> QED  BY <1>5, <2>1, <2>2
  <1>7. PICK x \in b : TRUE
    BY <1>6
  <1> PICK c : c = b \ {x}
    OBVIOUS
  <1>8. c \in SUBSET B /\ Cardinality(c) = Cardinality(b) - 1 /\ Cardinality(b) \in Nat
    BY <1>1, <1>5, <1>7, WeighedParts
  <1>9. c \notin Odd
    <2> SUFFICES ASSUME c \in Odd PROVE FALSE
      OBVIOUS
    <2>1. Cardinality(c) \in sizes
      OBVIOUS
    <2>2. n <= Cardinality(c)
      BY <1>3, <2>1
    <2> QED  BY <1>4, <1>8, <2>2
  <1>10. Size(A \cup c) = Size(A) + Size(c)
    BY <1>8, <1>9
  <1> HIDE DEF Odd, sizes
  <1>11. (A \cup b) \ {x} = A \cup c
    BY <1>5, <1>7
  <1>12. Size(b) = x.bytes + Size(c) /\ Size(A \cup b) = x.bytes + Size(A \cup c)
    BY <1>5, <1>7, <1>11, SizeTakes
  <1>13. x.bytes \in Nat /\ Size(A) \in Nat /\ Size(c) \in Nat
    BY <1>1, <1>7, <1>5, <1>8, WeighedParts, SizeType
  <1> QED  BY <1>5, <1>10, <1>12, <1>13

LEMMA SizeOfPart ==
  ASSUME NEW S, Weighed(S), NEW T \in SUBSET S
  PROVE  Size(S) = Size(T) + Size(S \ T) /\ Size(T) \in Nat /\ Size(S \ T) \in Nat
  <1>1. S = T \cup (S \ T) /\ T \cap (S \ T) = {}
    OBVIOUS
  <1>2. Weighed(T) /\ Weighed(S \ T)
    BY WeighedParts
  <1> QED  BY <1>1, <1>2, SizeAdds, SizeType

-----------------------------------------------------------------------------
(* Retention.  What a pruning has counted or found still bounds the log from *)
(* below as long as nothing has been removed since, and from above as long   *)
(* as nothing has been inserted.                                             *)
Counted(r, rows) ==
  /\ r.op = "find" => Cardinality(rows) >= r.take + MaxEntries
  /\ r.op = "overflow" =>
       /\ r.found \subseteq rows
       /\ \A row \in r.found : Cardinality(Newer(row, rows)) >= MaxEntries
  /\ r.op = "shrink" => r.total <= Size(rows)
  /\ r.op = "drop" =>
       /\ r.found \subseteq rows /\ r.total + Size(r.found) <= Size(rows)
       /\ \A row \in r.found : Size(Newer(row, rows) \cup {row}) > MaxBytes

Bounded(r, rows) ==
  /\ r.op = "find" => Cardinality(rows) <= r.take + MaxEntries
  /\ r.op = "overflow" => Cardinality(rows \ r.found) <= MaxEntries
  /\ r.op \in {"size", "shrink", "drop"} => Cardinality(rows) <= MaxEntries
  /\ r.op = "shrink" => Size(rows) <= r.total
  /\ r.op = "drop" => Size(rows \ r.found) <= r.total

Prunes(r, rows) ==
  r.op \in Pruning =>
    /\ "removed" \notin r.since => Counted(r, rows)
    /\ "inserted" \notin r.since => Bounded(r, rows)

Fields(r) ==
  /\ r = [op |-> r.op, said |-> r.said, streamed |-> r.streamed, awaits |-> r.awaits,
          take |-> r.take, total |-> r.total, found |-> r.found, since |-> r.since]
  /\ r.take \in Nat /\ r.total \in Int /\ r.found \subseteq LogRow

Shaped(r) == r = Quiet \/ Fields(r)

RetentionInv ==
  /\ run = [c \in Callers |-> run[c]]
  /\ \A c \in Callers : Shaped(run[c]) /\ Prunes(run[c], logs)

LEMMA LogWeighed ==
  ASSUME NEW rows \in SUBSET LogRow
  PROVE  Weighed(rows)
  <1>1. \A row \in LogRow : row.bytes \in Nat
    <2> SUFFICES ASSUME NEW n \in 1 .. MaxEvents PROVE Bytes[n] \in Nat
      BY DEF LogRow
    <2> QED  BY LogsAssumption DEF MaxEvents
  <1> QED  BY <1>1, LogRows, FS_Subset DEF Weighed

LEMMA RowsWithin ==
  ASSUME NEW rows \in SUBSET LogRow, NEW part \in SUBSET rows
  PROVE  /\ Cardinality(part) \in Nat /\ Cardinality(rows) \in Nat
         /\ Cardinality(part) <= Cardinality(rows)
         /\ Size(part) \in Nat /\ Size(rows) \in Nat /\ Size(rows \ part) \in Nat
         /\ Size(rows) = Size(part) + Size(rows \ part)
         /\ Size(part) <= Size(rows)
  <1>1. Weighed(rows)
    BY LogWeighed
  <1>2. Weighed(part) /\ Cardinality(part) \in Nat /\ Cardinality(part) <= Cardinality(rows)
    BY <1>1, WeighedParts
  <1>3. Cardinality(rows) \in Nat
    BY <1>1, WeighedParts
  <1>4. /\ Size(rows) = Size(part) + Size(rows \ part)
        /\ Size(part) \in Nat /\ Size(rows \ part) \in Nat
    BY <1>1, SizeOfPart
  <1>5. Size(part) <= Size(rows) /\ Size(rows) \in Nat
    BY <1>4
  <1> QED  BY <1>2, <1>3, <1>4, <1>5

\* A pruning that others overtake, or that goes on about something else.
LEMMA StillPrunes ==
  ASSUME NEW rows \in SUBSET LogRow, NEW later \in SUBSET LogRow, NEW r, NEW q,
         Fields(r), Prunes(r, rows), q.op = r.op, q.take = r.take, q.total = r.total, q.found = r.found,
         r.since \subseteq q.since,
         rows \subseteq later \/ "removed" \in q.since,
         later \subseteq rows \/ "inserted" \in q.since
  PROVE  Prunes(q, later)
  <1> SUFFICES ASSUME r.op \in Pruning
               PROVE  /\ "removed" \notin q.since => Counted(q, later)
                      /\ "inserted" \notin q.since => Bounded(q, later)
    BY DEF Prunes
  <1>1. r.take \in Nat /\ r.total \in Int /\ r.found \subseteq LogRow /\ MaxEntries \in Nat
    BY LogsAssumption DEF Fields
  <1>2. ASSUME "removed" \notin q.since PROVE Counted(q, later)
    <2>1. Counted(r, rows) /\ rows \subseteq later
      BY <1>2 DEF Prunes
    <2>2. /\ Cardinality(rows) \in Nat /\ Cardinality(later) \in Nat
          /\ Cardinality(rows) <= Cardinality(later)
          /\ Size(rows) \in Nat /\ Size(later) \in Nat /\ Size(rows) <= Size(later)
      BY <2>1, RowsWithin
    <2>3. ASSUME NEW row \in r.found
          PROVE  /\ Cardinality(Newer(row, rows)) \in Nat /\ Cardinality(Newer(row, later)) \in Nat
                 /\ Cardinality(Newer(row, rows)) <= Cardinality(Newer(row, later))
                 /\ Size(Newer(row, rows) \cup {row}) \in Nat
                 /\ Size(Newer(row, later) \cup {row}) \in Nat
                 /\ Size(Newer(row, rows) \cup {row}) <= Size(Newer(row, later) \cup {row})
      <3>1. /\ Newer(row, later) \in SUBSET LogRow
            /\ Newer(row, rows) \in SUBSET Newer(row, later)
            /\ Newer(row, later) \cup {row} \in SUBSET LogRow
            /\ Newer(row, rows) \cup {row} \in SUBSET (Newer(row, later) \cup {row})
        BY <1>1, <2>1 DEF Newer
      <3> QED  BY <3>1, RowsWithin
    <2>4. CASE r.op = "find"
      <3>1. Cardinality(rows) >= r.take + MaxEntries
        BY <2>1, <2>4 DEF Counted
      <3>2. Cardinality(later) >= r.take + MaxEntries
        BY <1>1, <2>2, <3>1
      <3> QED  BY <2>4, <3>2 DEF Counted
    <2>5. CASE r.op = "overflow"
      <3>1. r.found \subseteq rows /\ \A row \in r.found : Cardinality(Newer(row, rows)) >= MaxEntries
        BY <2>1, <2>5 DEF Counted
      <3>2. \A row \in r.found : Cardinality(Newer(row, later)) >= MaxEntries
        <4> SUFFICES ASSUME NEW row \in r.found PROVE Cardinality(Newer(row, later)) >= MaxEntries
          OBVIOUS
        <4> PICK a, b : a = Cardinality(Newer(row, rows)) /\ b = Cardinality(Newer(row, later))
          OBVIOUS
        <4>1. a >= MaxEntries /\ MaxEntries \in Nat
          BY <1>1, <3>1
        <4>2. a \in Nat /\ b \in Nat /\ a <= b
          BY <2>3
        <4>3. b >= MaxEntries
          BY <4>1, <4>2
        <4> QED  BY <4>3
      <3> QED  BY <2>1, <2>5, <3>1, <3>2 DEF Counted
    <2>6. CASE r.op = "shrink"
      <3>1. r.total <= Size(rows)
        BY <2>1, <2>6 DEF Counted
      <3>2. r.total <= Size(later)
        BY <1>1, <2>2, <3>1
      <3> QED  BY <2>6, <3>2 DEF Counted
    <2>7. CASE r.op = "drop"
      <3>1. /\ r.found \subseteq rows /\ r.total + Size(r.found) <= Size(rows)
            /\ \A row \in r.found : Size(Newer(row, rows) \cup {row}) > MaxBytes
        BY <2>1, <2>7 DEF Counted
      <3>2. Size(r.found) \in Nat
        BY <1>1, RowsWithin
      <3>3. r.total + Size(r.found) <= Size(later)
        BY <1>1, <2>2, <3>1, <3>2
      <3>4. \A row \in r.found : Size(Newer(row, later) \cup {row}) > MaxBytes
        <4> SUFFICES ASSUME NEW row \in r.found PROVE Size(Newer(row, later) \cup {row}) > MaxBytes
          OBVIOUS
        <4> PICK a, b : /\ a = Size(Newer(row, rows) \cup {row})
                        /\ b = Size(Newer(row, later) \cup {row})
          OBVIOUS
        <4>1. a > MaxBytes /\ MaxBytes \in Nat
          BY <3>1, LogsAssumption
        <4>2. a \in Nat /\ b \in Nat /\ a <= b
          BY <2>3
        <4>3. b > MaxBytes
          BY <4>1, <4>2
        <4> QED  BY <4>3
      <3> QED  BY <2>1, <2>7, <3>1, <3>3, <3>4 DEF Counted
    <2>8. CASE r.op = "size"
      BY <2>8 DEF Counted
    <2> QED  BY <2>4, <2>5, <2>6, <2>7, <2>8 DEF Pruning
  <1>3. ASSUME "inserted" \notin q.since PROVE Bounded(q, later)
    <2>1. Bounded(r, rows) /\ later \subseteq rows
      BY <1>3 DEF Prunes
    <2>2. later \ r.found \in SUBSET (rows \ r.found) /\ rows \ r.found \in SUBSET LogRow
      BY <2>1
    <2>3. /\ Cardinality(rows) \in Nat /\ Cardinality(later) \in Nat
          /\ Cardinality(later) <= Cardinality(rows)
          /\ Size(rows) \in Nat /\ Size(later) \in Nat /\ Size(later) <= Size(rows)
      BY <2>1, RowsWithin
    <2>4. /\ Cardinality(later \ r.found) \in Nat /\ Cardinality(rows \ r.found) \in Nat
          /\ Cardinality(later \ r.found) <= Cardinality(rows \ r.found)
          /\ Size(later \ r.found) \in Nat /\ Size(rows \ r.found) \in Nat
          /\ Size(later \ r.found) <= Size(rows \ r.found)
      BY <2>2, RowsWithin
    <2>5. r.op = "find" => Cardinality(later) <= r.take + MaxEntries
      BY <1>1, <2>1, <2>3 DEF Bounded
    <2>6. r.op = "overflow" => Cardinality(later \ r.found) <= MaxEntries
      BY <1>1, <2>1, <2>4 DEF Bounded
    <2>7. r.op \in {"size", "shrink", "drop"} => Cardinality(later) <= MaxEntries
      BY <1>1, <2>1, <2>3 DEF Bounded
    <2>8. r.op = "shrink" => Size(later) <= r.total
      BY <1>1, <2>1, <2>3 DEF Bounded
    <2>9. r.op = "drop" => Size(later \ r.found) <= r.total
      BY <1>1, <2>1, <2>4 DEF Bounded
    <2> QED  BY <2>5, <2>6, <2>7, <2>8, <2>9 DEF Bounded
  <1> QED  BY <1>2, <1>3

\* All but one caller stay where they are.
Others(c, r) == \A d \in Callers : run'[d].op = IF d = c THEN r.op ELSE run[d].op

LEMMA RetentionGoes ==
  ASSUME RetentionInv, NEW c \in Callers, NEW r, Shaped(r), Prunes(r, logs), Goes(c, r),
         UNCHANGED logs
  PROVE  RetentionInv' /\ Others(c, r)
  <1>1. run' = [d \in Callers |-> IF d = c THEN r ELSE run[d]]
    BY DEF Goes, RetentionInv
  <1>2. \A d \in Callers : run'[d] = r \/ run'[d] = run[d]
    BY <1>1
  <1>3. run' = [d \in Callers |-> run'[d]]
    BY <1>1
  <1>4. \A d \in Callers : Shaped(run'[d]) /\ Prunes(run'[d], logs)
    BY <1>2 DEF RetentionInv
  <1>5. \A d \in Callers : Shaped(run'[d]) /\ Prunes(run'[d], logs')
    BY <1>4
  <1>6. Others(c, r)
    BY <1>1 DEF Others
  <1> QED  BY <1>3, <1>5, <1>6 DEF RetentionInv

\* A caller that runs, and one whose rows have changed.
LEMMA ShapedFields ==
  ASSUME NEW r, Shaped(r), r.op # "none"
  PROVE  Fields(r)
  BY DEF Shaped, Quiet

LEMMA Outdated ==
  ASSUME NEW r, Fields(r), NEW what, NEW q, q = [r EXCEPT !.since = @ \cup what]
  PROVE  /\ Fields(q) /\ q.op = r.op /\ q.take = r.take /\ q.total = r.total
         /\ q.found = r.found /\ q.since = r.since \cup what
         /\ q.said = r.said /\ q.streamed = r.streamed
  <1>1. q = [op |-> r.op, said |-> r.said, streamed |-> r.streamed, awaits |-> r.awaits,
             take |-> r.take, total |-> r.total, found |-> r.found, since |-> r.since \cup what]
    BY DEF Fields
  <1> QED  BY <1>1 DEF Fields

LEMMA RetentionMeanwhile ==
  ASSUME RetentionInv, logs \subseteq LogRow, logs' \subseteq LogRow,
         NEW c \in Callers, NEW r, Shaped(r), Prunes(r, logs'), NEW what, Meanwhile(c, r, what),
         logs \subseteq logs' \/ "removed" \in what,
         logs' \subseteq logs \/ "inserted" \in what
  PROVE  RetentionInv' /\ Others(c, r)
  <1>1. run' = [d \in Callers |->
                  IF d = c THEN r
                  ELSE IF run[d].op \in Pruning THEN [run[d] EXCEPT !.since = @ \cup what]
                  ELSE run[d]]
    BY DEF Meanwhile
  <1>2. ASSUME NEW d \in Callers
        PROVE  /\ Shaped(run'[d]) /\ Prunes(run'[d], logs')
               /\ run'[d].op = IF d = c THEN r.op ELSE run[d].op
    <2>1. Shaped(run[d]) /\ Prunes(run[d], logs)
      BY DEF RetentionInv
    <2>2. CASE d = c
      <3>1. run'[d] = r
        BY <1>1, <2>2
      <3> QED  BY <2>2, <3>1
    <2>3. CASE d # c /\ run[d].op \notin Pruning
      <3>1. run'[d] = run[d]
        BY <1>1, <2>3
      <3> QED  BY <2>1, <2>3, <3>1 DEF Prunes
    <2>4. CASE d # c /\ run[d].op \in Pruning
      <3> PICK q : q = [run[d] EXCEPT !.since = @ \cup what]
        OBVIOUS
      <3> PICK s : s = run[d]
        OBVIOUS
      <3>1. s.op # "none"
        BY <2>4 DEF Pruning
      <3>2. Fields(s)
        BY <2>1, <3>1, ShapedFields
      <3>3. /\ Fields(q) /\ q.op = s.op /\ q.take = s.take /\ q.total = s.total
            /\ q.found = s.found /\ q.since = s.since \cup what
        BY <3>2, Outdated
      <3>4. Prunes(s, logs) /\ run'[d] = q
        BY <1>1, <2>1, <2>4
      <3>5. Prunes(q, logs')
        BY <3>2, <3>3, <3>4, StillPrunes
      <3>6. Shaped(q)
        BY <3>3 DEF Shaped
      <3>7. q.op = IF d = c THEN r.op ELSE run[d].op
        BY <2>4, <3>3
      <3> QED  BY <3>4, <3>5, <3>6, <3>7
    <2> QED  BY <2>2, <2>3, <2>4
  <1>3. run' = [d \in Callers |-> run'[d]]
    BY <1>1
  <1> QED  BY <1>2, <1>3 DEF RetentionInv, Others

-----------------------------------------------------------------------------
(* What a step may remove from the log, and where it may leave the log.      *)
Removable(row) ==
  row.id <= expired \/ Beyond(row) \/ \E c \in Callers : PrunesOutdated(c)

Ends(c) ==
  run[c].op \in {"size", "drop"} /\ run'[c].op = "over" /\ "inserted" \notin run[c].since

Retains ==
  /\ \A row \in logs \ logs' : Removable(row)
  /\ \A c \in Callers :
       Ends(c) => Cardinality(logs') <= MaxEntries /\ Size(logs') <= MaxBytes

EndsWith(c, r) ==
  run[c].op \in {"size", "drop"} /\ r.op = "over" /\ "inserted" \notin run[c].since

LEMMA Retained ==
  ASSUME NEW c \in Callers, NEW r, Others(c, r),
         \A row \in logs \ logs' : Removable(row),
         EndsWith(c, r) => Cardinality(logs') <= MaxEntries /\ Size(logs') <= MaxBytes
  PROVE  Retains
  <1> SUFFICES ASSUME NEW d \in Callers, Ends(d)
               PROVE  Cardinality(logs') <= MaxEntries /\ Size(logs') <= MaxBytes
    BY DEF Retains
  <1>1. d = c
    BY DEF Ends, Others
  <1>2. EndsWith(c, r)
    BY <1>1 DEF Ends, Others, EndsWith
  <1> QED  BY <1>2

\* A step of a caller's own, one that saves rows and one that removes some.
LEMMA RetentionAlone ==
  ASSUME RetentionInv, NEW c \in Callers, NEW r, Shaped(r), Prunes(r, logs), Goes(c, r),
         UNCHANGED logs,
         EndsWith(c, r) => Cardinality(logs) <= MaxEntries /\ Size(logs) <= MaxBytes
  PROVE  RetentionInv' /\ Retains
  <1>1. RetentionInv' /\ Others(c, r)
    BY RetentionGoes
  <1>2. \A row \in logs \ logs' : Removable(row)
    OBVIOUS
  <1>3. EndsWith(c, r) => Cardinality(logs') <= MaxEntries /\ Size(logs') <= MaxBytes
    OBVIOUS
  <1>4. Retains
    BY <1>1, <1>2, <1>3, Retained
  <1> QED  BY <1>1, <1>4

LEMMA RetentionInserts ==
  ASSUME RetentionInv, logs \subseteq LogRow, NEW c \in Callers, NEW rows \in SUBSET LogRow,
         NEW r, Fields(r), Prunes(r, logs), r.op = run[c].op \/ r.op = "age",
         Inserts(c, rows, r)
  PROVE  RetentionInv' /\ Retains
  <1> DEFINE what == IF rows \subseteq logs THEN {} ELSE {"inserted"}
  <1> PICK q : q = [r EXCEPT !.since = @ \cup what]
    OBVIOUS
  <1>1. logs' = logs \cup rows /\ Meanwhile(c, q, what)
    BY DEF Inserts
  <1>2. logs' \subseteq LogRow /\ logs \subseteq logs' /\ (logs' \subseteq logs \/ "inserted" \in what)
    BY <1>1
  <1> HIDE DEF what
  <1>3. /\ Fields(q) /\ q.op = r.op /\ q.take = r.take /\ q.total = r.total
        /\ q.found = r.found /\ q.since = r.since \cup what
    BY Outdated
  <1>4. Prunes(q, logs')
    BY <1>2, <1>3, StillPrunes
  <1>5. RetentionInv' /\ Others(c, q)
    BY <1>1, <1>2, <1>3, <1>4, RetentionMeanwhile DEF Shaped
  <1>6. ~ EndsWith(c, q)
    BY <1>3 DEF EndsWith
  <1>7. \A row \in logs \ logs' : Removable(row)
    BY <1>2
  <1>8. Retains
    BY <1>5, <1>6, <1>7, Retained
  <1> QED  BY <1>5, <1>8

LEMMA RetentionRemoves ==
  ASSUME RetentionInv, logs \subseteq LogRow, NEW c \in Callers, NEW rows,
         NEW r, Fields(r), Prunes(r, logs \ rows), Removes(c, rows, r),
         \A row \in logs \cap rows :
           \/ row.id <= expired
           \/ Beyond(row)
           \/ run[c].op \in {"overflow", "drop"} /\ r.op # run[c].op /\ "removed" \in run[c].since,
         EndsWith(c, r) => Cardinality(logs \ rows) <= MaxEntries /\ Size(logs \ rows) <= MaxBytes
  PROVE  RetentionInv' /\ Retains
  <1> DEFINE what == IF logs \cap rows = {} THEN {} ELSE {"removed"}
  <1>1. logs' = logs \ rows /\ Meanwhile(c, r, what)
    BY DEF Removes
  <1>2. logs' \subseteq LogRow /\ logs' \subseteq logs /\ (logs \subseteq logs' \/ "removed" \in what)
    BY <1>1
  <1> HIDE DEF what
  <1>3. Prunes(r, logs')
    BY <1>1
  <1>4. RetentionInv' /\ Others(c, r)
    BY <1>1, <1>2, <1>3, RetentionMeanwhile DEF Shaped
  <1>5. run'[c].op = r.op
    BY <1>4 DEF Others
  <1>6. \A row \in logs \ logs' : Removable(row)
    <2> SUFFICES ASSUME NEW row \in logs \ logs' PROVE Removable(row)
      OBVIOUS
    <2>1. row \in logs \cap rows
      BY <1>1
    <2>2. \/ row.id <= expired
          \/ Beyond(row)
          \/ run[c].op \in {"overflow", "drop"} /\ r.op # run[c].op /\ "removed" \in run[c].since
      BY <2>1
    <2> QED  BY <1>5, <2>2 DEF Removable, PrunesOutdated
  <1>7. EndsWith(c, r) => Cardinality(logs') <= MaxEntries /\ Size(logs') <= MaxBytes
    BY <1>1
  <1>8. Retains
    BY <1>4, <1>6, <1>7, Retained
  <1> QED  BY <1>4, <1>8

\* A row of the log between those before and those after it.
LEMMA RowsAround ==
  ASSUME NEW rows \in SUBSET LogRow, NEW row \in rows
  PROVE  /\ Cardinality(Older(row, rows)) \in Nat /\ Cardinality(Newer(row, rows)) \in Nat
         /\ Cardinality(rows) = Cardinality(Older(row, rows)) + Cardinality(Newer(row, rows)) + 1
         /\ Size(Older(row, rows)) \in Nat /\ Size(Newer(row, rows) \cup {row}) \in Nat
         /\ Size(rows) = Size(Older(row, rows)) + Size(Newer(row, rows) \cup {row})
  <1> DEFINE older == Older(row, rows)
             newer == Newer(row, rows)
  <1>1. \A a, b \in rows : a.id \in Nat /\ (a.id = b.id => a = b)
    BY LogRows
  <1>2. older \in SUBSET rows /\ newer \in SUBSET rows /\ row \notin newer
    BY <1>1 DEF Older, Newer
  <1>3. rows \ older = newer \cup {row}
    <2>1. \A a \in rows : a.id < row.id \/ a.id > row.id \/ a = row
      BY <1>1
    <2>2. \A a \in rows : ~ (a.id < row.id /\ a.id > row.id) /\ ~ (row.id < row.id)
      BY <1>1
    <2> QED  BY <2>1, <2>2 DEF Older, Newer
  <1> HIDE DEF older, newer
  <1>4. Size(older) \in Nat /\ Size(rows \ older) \in Nat /\ Size(rows) = Size(older) + Size(rows \ older)
    BY <1>2, RowsWithin
  <1>5. /\ Cardinality(older) \in Nat /\ Cardinality(newer) \in Nat /\ Cardinality(rows) \in Nat
        /\ IsFiniteSet(rows) /\ IsFiniteSet(newer)
    BY <1>2, LogRows, FS_Subset, FS_CardinalityType
  <1>6. Cardinality(newer \cup {row}) = Cardinality(newer) + 1
    BY <1>2, <1>5, FS_AddElement
  <1>7. Cardinality(rows \ older) = Cardinality(rows) - Cardinality(rows \cap older)
    BY <1>5, FS_Difference
  <1>8. rows \cap older = older
    BY <1>2
  <1>9. Cardinality(newer) + 1 = Cardinality(rows) - Cardinality(older)
    BY <1>3, <1>6, <1>7, <1>8
  <1>10. Cardinality(rows) = Cardinality(older) + Cardinality(newer) + 1
    BY <1>5, <1>9
  <1>11. Size(newer \cup {row}) \in Nat /\ Size(rows) = Size(older) + Size(newer \cup {row})
    BY <1>3, <1>4
  <1> QED  BY <1>4, <1>5, <1>10, <1>11 DEF older, newer

\* The oldest rows are enough of them, and not too many.
LEMMA OldestRows ==
  ASSUME NEW rows \in SUBSET LogRow, NEW n \in Nat, NEW found, found = Oldest(rows, n)
  PROVE  /\ found \subseteq rows
         /\ Cardinality(rows) >= n + MaxEntries =>
              \A row \in found : Cardinality(Newer(row, rows)) >= MaxEntries
         /\ Cardinality(rows) <= n + MaxEntries => Cardinality(rows \ found) <= MaxEntries
  <1>1. found \subseteq rows /\ \A row \in rows : row \in found <=> Cardinality(Older(row, rows)) < n
    BY DEF Oldest
  <1>2. MaxEntries \in Nat
    BY LogsAssumption
  <1>3. ASSUME Cardinality(rows) >= n + MaxEntries, NEW row \in found
        PROVE  Cardinality(Newer(row, rows)) >= MaxEntries
    <2> PICK a, b : a = Cardinality(Older(row, rows)) /\ b = Cardinality(Newer(row, rows))
      OBVIOUS
    <2>1. a \in Nat /\ b \in Nat /\ Cardinality(rows) = a + b + 1
      BY <1>1, RowsAround
    <2>2. a < n
      BY <1>1, <1>3
    <2>3. b >= MaxEntries
      BY <1>2, <1>3, <2>1, <2>2
    <2> QED  BY <2>3
  <1>4. ASSUME Cardinality(rows) <= n + MaxEntries
        PROVE  Cardinality(rows \ found) <= MaxEntries
    <2> PICK rest : rest = rows \ found
      OBVIOUS
    <2>1. CASE rest = {}
      <3>1. Cardinality(rest) = 0
        BY <2>1, FS_EmptySet
      <3> QED  BY <1>2, <3>1
    <2>2. CASE rest # {}
      <3> DEFINE ids == {row.id : row \in rest}
      <3>1. \A row \in rest : row \in rows /\ row.id \in Nat /\ Cardinality(Older(row, rows)) >= n
        <4> SUFFICES ASSUME NEW row \in rest
                     PROVE  row \in rows /\ row.id \in Nat /\ Cardinality(Older(row, rows)) >= n
          OBVIOUS
        <4>1. row \in rows /\ row \in LogRow /\ ~ (Cardinality(Older(row, rows)) < n)
          BY <1>1
        <4>2. Cardinality(Older(row, rows)) \in Nat
          BY <4>1, RowsAround
        <4>3. row.id \in Nat
          BY <4>1, LogRows
        <4> QED  BY <4>1, <4>2, <4>3
      <3>2. ids \subseteq Nat /\ ids # {}
        BY <2>2, <3>1
      <3>3. PICK least \in ids : \A m \in ids : least <= m
        BY <3>2, LeastOf
      <3>4. PICK first \in rest : least = first.id
        BY <3>3
      <3>5. \A row \in rest : first.id <= row.id
        BY <3>3, <3>4
      <3> HIDE DEF ids
      <3>6. Older(first, rows) \subseteq found
        <4> SUFFICES ASSUME NEW row \in Older(first, rows), row \notin found PROVE FALSE
          OBVIOUS
        <4>1. row \in rest /\ row.id < first.id
          BY DEF Older
        <4>2. first.id <= row.id /\ row.id \in Nat /\ first.id \in Nat
          BY <3>1, <3>5, <4>1
        <4> QED  BY <4>1, <4>2
      <3> PICK older : older = Older(first, rows)
        OBVIOUS
      <3>7. /\ Cardinality(older) \in Nat /\ Cardinality(found) \in Nat
            /\ Cardinality(older) <= Cardinality(found)
        BY <1>1, <3>6, RowsWithin
      <3>8. Cardinality(older) >= n
        BY <3>1
      <3>9. IsFiniteSet(rows) /\ Cardinality(rows) \in Nat
        BY LogRows, FS_Subset, FS_CardinalityType
      <3>10. Cardinality(rest) = Cardinality(rows) - Cardinality(rows \cap found)
        BY <3>9, FS_Difference
      <3>11. rows \cap found = found
        BY <1>1
      <3>12. Cardinality(rest) = Cardinality(rows) - Cardinality(found)
        BY <3>10, <3>11
      <3>13. Cardinality(rest) <= MaxEntries
        BY <1>2, <1>4, <3>7, <3>8, <3>9, <3>12
      <3> QED  BY <3>13
    <2> QED  BY <2>1, <2>2
  <1> QED  BY <1>1, <1>3, <1>4

\* What is left over a limit is shrunk, and otherwise the pruning is over.
Shrinks(s, total, r) ==
  /\ Fields(r)
  /\ total > MaxBytes =>
       /\ r.op = "shrink" /\ r.total = total /\ r.take = s.take /\ r.found = {}
       /\ r.since = IF s.op = "size" THEN s.since \ {"removed"} ELSE s.since
  /\ ~ (total > MaxBytes) => r.op = "over"

LEMMA ShrunkFields ==
  ASSUME NEW c, Fields(run[c]), NEW total \in Int, NEW r, r = Shrunk(c, total)
  PROVE  Shrinks(run[c], total, r)
  <1> PICK s : s = run[c]
    OBVIOUS
  <1> DEFINE since == IF s.op = "size" THEN s.since \ {"removed"} ELSE s.since
  <1>1. s = [op |-> s.op, said |-> s.said, streamed |-> s.streamed, awaits |-> s.awaits,
             take |-> s.take, total |-> s.total, found |-> s.found, since |-> s.since]
    BY DEF Fields
  <1>2. CASE total > MaxBytes
    <2>1. r = [s EXCEPT !.op = "shrink", !.total = total, !.found = {}, !.since = since]
      BY <1>2 DEF Shrunk
    <2> HIDE DEF since
    <2>2. r = [op |-> "shrink", said |-> s.said, streamed |-> s.streamed, awaits |-> s.awaits,
               take |-> s.take, total |-> total, found |-> {}, since |-> since]
      BY <1>1, <2>1
    <2>3. Fields(r) /\ r.op = "shrink" /\ r.total = total /\ r.take = s.take /\ r.found = {}
          /\ r.since = since
      BY <2>2 DEF Fields
    <2> QED  BY <1>2, <2>3 DEF since, Shrinks
  <1>3. CASE ~ (total > MaxBytes)
    <2>1. r = Run("over", s.said, s.streamed)
      BY <1>3 DEF Shrunk
    <2> QED  BY <1>3, <2>1 DEF Run, Fields, Shrinks
  <1> QED  BY <1>2, <1>3

LEMMA RunFields ==
  ASSUME NEW op, NEW said, NEW streamed
  PROVE  Fields(Run(op, said, streamed)) /\ Run(op, said, streamed).op = op
  BY DEF Run, Fields

\* The steps of a pruning.
LEMMA PruneCountKeeps ==
  ASSUME RetentionInv, logs \subseteq LogRow, NEW c \in Callers, PruneCount(c)
  PROVE  RetentionInv' /\ Retains
  <1> PICK s : s = run[c]
    OBVIOUS
  <1> PICK size : size = Cardinality(logs)
    OBVIOUS
  <1> PICK surplus : surplus = Surplus(size)
    OBVIOUS
  <1> PICK op : op = IF surplus > 0 THEN "find" ELSE "size"
    OBVIOUS
  <1> PICK r : r = [s EXCEPT !.op = op, !.take = surplus, !.since = {}]
    OBVIOUS
  <1>1. s.op = "count" /\ Goes(c, r) /\ UNCHANGED logs
    BY DEF PruneCount, Keeps
  <1>2. Fields(s)
    BY <1>1, ShapedFields DEF RetentionInv
  <1>3. r = [op |-> op, said |-> s.said, streamed |-> s.streamed, awaits |-> s.awaits,
             take |-> surplus, total |-> s.total, found |-> s.found, since |-> {}]
    BY <1>2 DEF Fields
  <1>4. size \in Nat /\ MaxEntries \in Nat
    BY RowsWithin, LogsAssumption
  <1>5. /\ surplus \in Nat
        /\ surplus > 0 => size = surplus + MaxEntries
        /\ ~ (surplus > 0) => size <= MaxEntries
    BY <1>4 DEF Surplus
  <1>6. Fields(r) /\ r.op = op /\ r.take = surplus
    BY <1>2, <1>3, <1>5 DEF Fields
  <1>7. Counted(r, logs) /\ Bounded(r, logs)
    <2>1. CASE surplus > 0
      <3>1. r.op = "find"
        BY <1>6, <2>1
      <3>2. size >= r.take + MaxEntries /\ size <= r.take + MaxEntries
        BY <1>4, <1>5, <1>6, <2>1
      <3> QED  BY <3>1, <3>2 DEF Counted, Bounded
    <2>2. CASE ~ (surplus > 0)
      <3>1. r.op = "size"
        BY <1>6, <2>2
      <3> QED  BY <1>5, <2>2, <3>1 DEF Counted, Bounded
    <2> QED  BY <2>1, <2>2
  <1>8. Shaped(r) /\ Prunes(r, logs) /\ ~ EndsWith(c, r)
    BY <1>1, <1>6, <1>7 DEF Shaped, Prunes, EndsWith
  <1> QED  BY <1>1, <1>8, RetentionAlone

LEMMA PruneFindKeeps ==
  ASSUME RetentionInv, logs \subseteq LogRow, NEW c \in Callers, PruneFind(c)
  PROVE  RetentionInv' /\ Retains
  <1> PICK s : s = run[c]
    OBVIOUS
  <1> PICK found : found = Oldest(logs, s.take)
    OBVIOUS
  <1> PICK r : r = [s EXCEPT !.op = "overflow", !.take = 0, !.found = found]
    OBVIOUS
  <1>1. s.op = "find" /\ Goes(c, r) /\ UNCHANGED logs
    BY DEF PruneFind, Keeps
  <1>2. Fields(s) /\ Prunes(s, logs)
    BY <1>1, ShapedFields DEF RetentionInv
  <1>3. r = [op |-> "overflow", said |-> s.said, streamed |-> s.streamed, awaits |-> s.awaits,
             take |-> 0, total |-> s.total, found |-> found, since |-> s.since]
    BY <1>2 DEF Fields
  <1>4. s.take \in Nat
    BY <1>2 DEF Fields
  <1>5. /\ found \subseteq logs
        /\ Cardinality(logs) >= s.take + MaxEntries =>
             \A row \in found : Cardinality(Newer(row, logs)) >= MaxEntries
        /\ Cardinality(logs) <= s.take + MaxEntries => Cardinality(logs \ found) <= MaxEntries
    BY <1>4, OldestRows
  <1>6. Fields(r) /\ r.op = "overflow" /\ r.found = found /\ r.since = s.since
    <2>1. s.total \in Int /\ found \subseteq LogRow
      BY <1>2, <1>5 DEF Fields
    <2>2. /\ r.op = "overflow" /\ r.take = 0 /\ r.total = s.total /\ r.found = found
          /\ r.since = s.since
          /\ r = [op |-> r.op, said |-> r.said, streamed |-> r.streamed, awaits |-> r.awaits,
                  take |-> r.take, total |-> r.total, found |-> r.found, since |-> r.since]
      BY <1>3
    <2> QED  BY <2>1, <2>2 DEF Fields
  <1>7. "removed" \notin r.since => Counted(r, logs)
    BY <1>1, <1>2, <1>5, <1>6 DEF Prunes, Counted, Pruning
  <1>8. "inserted" \notin r.since => Bounded(r, logs)
    BY <1>1, <1>2, <1>5, <1>6 DEF Prunes, Bounded, Pruning
  <1>9. Shaped(r) /\ Prunes(r, logs) /\ ~ EndsWith(c, r)
    BY <1>1, <1>6, <1>7, <1>8 DEF Shaped, Prunes, EndsWith
  <1> QED  BY <1>1, <1>9, RetentionAlone

LEMMA PruneOverflowKeeps ==
  ASSUME RetentionInv, logs \subseteq LogRow, NEW c \in Callers, PruneOverflow(c)
  PROVE  RetentionInv' /\ Retains
  <1> PICK s : s = run[c]
    OBVIOUS
  <1> PICK r : r = [s EXCEPT !.op = "size", !.found = {}]
    OBVIOUS
  <1>1. s.op = "overflow" /\ Removes(c, s.found, r)
    BY DEF PruneOverflow
  <1>2. Fields(s) /\ Prunes(s, logs)
    BY <1>1, ShapedFields DEF RetentionInv
  <1>3. r = [op |-> "size", said |-> s.said, streamed |-> s.streamed, awaits |-> s.awaits,
             take |-> s.take, total |-> s.total, found |-> {}, since |-> s.since]
    BY <1>2 DEF Fields
  <1>4. Fields(r) /\ r.op = "size" /\ r.since = s.since
    BY <1>2, <1>3 DEF Fields
  <1>5. "inserted" \notin r.since => Bounded(r, logs \ s.found)
    BY <1>1, <1>2, <1>4 DEF Prunes, Bounded, Pruning
  <1>6. Prunes(r, logs \ s.found)
    BY <1>4, <1>5 DEF Prunes, Counted
  <1>7. ASSUME NEW row \in logs \cap s.found, "removed" \notin s.since
        PROVE  Beyond(row)
    BY <1>1, <1>2, <1>7 DEF Prunes, Counted, Pruning, Beyond
  <1>8. \A row \in logs \cap s.found :
          \/ row.id <= expired
          \/ Beyond(row)
          \/ s.op \in {"overflow", "drop"} /\ r.op # s.op /\ "removed" \in s.since
    BY <1>1, <1>4, <1>7
  <1>9. ~ EndsWith(c, r)
    BY <1>4 DEF EndsWith
  <1> QED  BY <1>1, <1>4, <1>6, <1>8, <1>9, RetentionRemoves

LEMMA PruneSizeKeeps ==
  ASSUME RetentionInv, logs \subseteq LogRow, NEW c \in Callers, PruneSize(c)
  PROVE  RetentionInv' /\ Retains
  <1> PICK s : s = run[c]
    OBVIOUS
  <1> PICK total : total = Size(logs)
    OBVIOUS
  <1> PICK r : r = Shrunk(c, total)
    OBVIOUS
  <1>1. s.op = "size" /\ Goes(c, r) /\ UNCHANGED logs
    BY DEF PruneSize, Keeps
  <1>2. Fields(s) /\ Prunes(s, logs)
    BY <1>1, ShapedFields DEF RetentionInv
  <1>3. total \in Nat /\ MaxBytes \in Nat
    BY RowsWithin, LogsAssumption
  <1>4. /\ Fields(r)
        /\ total > MaxBytes => r.op = "shrink" /\ r.total = total /\ r.since = s.since \ {"removed"}
        /\ ~ (total > MaxBytes) => r.op = "over"
    <2>1. Fields(run[c]) /\ total \in Int /\ run[c].op = "size"
      BY <1>1, <1>2, <1>3
    <2>2. Shrinks(run[c], total, r)
      BY <2>1, ShrunkFields
    <2> QED  BY <2>1, <2>2 DEF Shrinks
  <1>5. "inserted" \notin s.since => Cardinality(logs) <= MaxEntries
    BY <1>1, <1>2 DEF Prunes, Bounded, Pruning
  <1>6. Prunes(r, logs)
    <2>1. CASE total > MaxBytes
      <3>1. r.op = "shrink" /\ r.total = total /\ ("inserted" \in r.since <=> "inserted" \in s.since)
        BY <1>4, <2>1
      <3>2. r.total <= Size(logs) /\ Size(logs) <= r.total
        BY <1>3, <3>1
      <3> QED  BY <1>5, <3>1, <3>2 DEF Prunes, Counted, Bounded
    <2>2. CASE ~ (total > MaxBytes)
      BY <1>4, <2>2 DEF Prunes, Pruning
    <2> QED  BY <2>1, <2>2
  <1>7. EndsWith(c, r) => Cardinality(logs) <= MaxEntries /\ Size(logs) <= MaxBytes
    <2> SUFFICES ASSUME EndsWith(c, r) PROVE Cardinality(logs) <= MaxEntries /\ Size(logs) <= MaxBytes
      OBVIOUS
    <2>1. r.op = "over" /\ "inserted" \notin s.since
      BY DEF EndsWith
    <2>2. ~ (total > MaxBytes)
      BY <1>4, <2>1
    <2>3. Size(logs) <= MaxBytes
      BY <1>3, <2>2
    <2> QED  BY <1>5, <2>1, <2>3
  <1> QED  BY <1>1, <1>4, <1>6, <1>7, RetentionAlone DEF Shaped

LEMMA ShrinkFindKeeps ==
  ASSUME RetentionInv, logs \subseteq LogRow, NEW c \in Callers, ShrinkFind(c)
  PROVE  RetentionInv' /\ Retains
  <1> PICK s : s = run[c]
    OBVIOUS
  <1>1. s.op = "shrink" /\ UNCHANGED logs
    BY DEF ShrinkFind, Keeps
  <1>2. Fields(s) /\ Prunes(s, logs)
    BY <1>1, ShapedFields DEF RetentionInv
  <1>3. MaxBytes \in Nat /\ s.total \in Int
    BY <1>2, LogsAssumption DEF Fields
  <1>4. CASE logs = {}
    <2> PICK r : r = Shrunk(c, 0)
      OBVIOUS
    <2>1. Goes(c, r)
      BY <1>4 DEF ShrinkFind
    <2>2. 0 \in Int /\ ~ (0 > MaxBytes)
      BY <1>3
    <2>3. Fields(r) /\ r.op = "over"
      <3>1. Fields(run[c])
        BY <1>2
      <3>2. Shrinks(run[c], 0, r)
        BY <2>2, <3>1, ShrunkFields
      <3> QED  BY <2>2, <3>2 DEF Shrinks
    <2>4. Shaped(r) /\ Prunes(r, logs) /\ ~ EndsWith(c, r)
      BY <1>1, <2>3 DEF Shaped, Prunes, Pruning, EndsWith
    <2> QED  BY <1>1, <2>1, <2>4, RetentionAlone
  <1>5. CASE logs # {}
    <2> PICK found : found = {row \in Oldest(logs, Batch) :
                               s.total - Size(Older(row, logs)) > MaxBytes}
      OBVIOUS
    <2>0. found \subseteq logs
      BY DEF Oldest
    <2> PICK left : left = s.total - Size(found)
      OBVIOUS
    <2> PICK r : r = [s EXCEPT !.op = "drop", !.found = found, !.total = left]
      OBVIOUS
    <2>1. Goes(c, r)
      BY <1>5 DEF ShrinkFind
    <2>2. r = [op |-> "drop", said |-> s.said, streamed |-> s.streamed, awaits |-> s.awaits,
               take |-> s.take, total |-> left, found |-> found, since |-> s.since]
      BY <1>2 DEF Fields
    <2>3. /\ Size(found) \in Nat /\ Size(logs) \in Nat /\ Size(logs \ found) \in Nat
          /\ Size(logs) = Size(found) + Size(logs \ found)
      <3>1. found \in SUBSET logs
        BY <2>0
      <3> QED  BY <3>1, RowsWithin
    <2>4. left \in Int /\ left + Size(found) = s.total
      BY <1>3, <2>3
    <2>5. Fields(r) /\ r.op = "drop" /\ r.found = found /\ r.total = left /\ r.since = s.since
      <3>1. s.take \in Nat /\ found \subseteq LogRow
        BY <1>2, <2>0 DEF Fields
      <3> QED  BY <2>2, <2>4, <3>1 DEF Fields
    <2>6. ASSUME "removed" \notin r.since PROVE Counted(r, logs)
      <3>1. s.total <= Size(logs)
        BY <1>1, <1>2, <2>5, <2>6 DEF Prunes, Counted, Pruning
      <3>2. left + Size(found) <= Size(logs)
        BY <2>4, <3>1
      <3>3. ASSUME NEW row \in found PROVE Size(Newer(row, logs) \cup {row}) > MaxBytes
        <4> PICK a, b : a = Size(Older(row, logs)) /\ b = Size(Newer(row, logs) \cup {row})
          OBVIOUS
        <4>1. row \in logs
          BY <2>0
        <4>2. a \in Nat /\ b \in Nat /\ Size(logs) = a + b
          BY <4>1, RowsAround
        <4>3. s.total - a > MaxBytes
          OBVIOUS
        <4>4. b > MaxBytes
          BY <1>3, <3>1, <4>2, <4>3
        <4> QED  BY <4>4
      <3>4. r.found \subseteq logs /\ r.total + Size(r.found) <= Size(logs)
            /\ \A row \in r.found : Size(Newer(row, logs) \cup {row}) > MaxBytes
        BY <2>0, <2>5, <3>2, <3>3
      <3> QED  BY <2>5, <3>4 DEF Counted
    <2>7. ASSUME "inserted" \notin r.since PROVE Bounded(r, logs)
      <3>1. Cardinality(logs) <= MaxEntries /\ Size(logs) <= s.total
        BY <1>1, <1>2, <2>5, <2>7 DEF Prunes, Bounded, Pruning
      <3>2. Size(logs \ found) <= left
        BY <1>3, <2>3, <2>4, <3>1
      <3> QED  BY <2>5, <3>1, <3>2 DEF Bounded
    <2>8. Shaped(r) /\ Prunes(r, logs) /\ ~ EndsWith(c, r)
      BY <2>5, <2>6, <2>7 DEF Shaped, Prunes, EndsWith
    <2> QED  BY <1>1, <2>1, <2>8, RetentionAlone
  <1> QED  BY <1>4, <1>5

LEMMA ShrinkDropKeeps ==
  ASSUME RetentionInv, logs \subseteq LogRow, NEW c \in Callers, ShrinkDrop(c)
  PROVE  RetentionInv' /\ Retains
  <1> PICK s : s = run[c]
    OBVIOUS
  <1> PICK total : total = s.total
    OBVIOUS
  <1> PICK r : r = Shrunk(c, total)
    OBVIOUS
  <1> PICK rest : rest = logs \ s.found
    OBVIOUS
  <1>1. s.op = "drop" /\ Removes(c, s.found, r)
    BY DEF ShrinkDrop
  <1>2. Fields(s) /\ Prunes(s, logs)
    BY <1>1, ShapedFields DEF RetentionInv
  <1>3. total \in Int /\ MaxBytes \in Nat /\ s.found \subseteq LogRow
    BY <1>2, LogsAssumption DEF Fields
  <1>4. /\ Fields(r)
        /\ total > MaxBytes => r.op = "shrink" /\ r.total = total /\ r.since = s.since
        /\ ~ (total > MaxBytes) => r.op = "over"
    <2>1. Fields(run[c]) /\ total \in Int /\ run[c].op = "drop"
      BY <1>1, <1>2, <1>3
    <2>2. Shrinks(run[c], total, r)
      BY <2>1, ShrunkFields
    <2> QED  BY <2>1, <2>2 DEF Shrinks
  <1>5. ASSUME "removed" \notin s.since
        PROVE  /\ total <= Size(rest)
               /\ \A row \in s.found : Size(Newer(row, logs) \cup {row}) > MaxBytes
    <2>1. /\ s.found \subseteq logs /\ total + Size(s.found) <= Size(logs)
          /\ \A row \in s.found : Size(Newer(row, logs) \cup {row}) > MaxBytes
      BY <1>1, <1>2, <1>5 DEF Prunes, Counted, Pruning
    <2>2. /\ Size(s.found) \in Nat /\ Size(rest) \in Nat
          /\ Size(logs) = Size(s.found) + Size(rest)
      BY <2>1, RowsWithin
    <2>3. total <= Size(rest)
      BY <1>3, <2>1, <2>2
    <2> QED  BY <2>1, <2>3
  <1>6. ASSUME "inserted" \notin s.since
        PROVE  Cardinality(rest) <= MaxEntries /\ Size(rest) <= total /\ Size(rest) \in Nat
    <2>1. Cardinality(logs) <= MaxEntries /\ Size(rest) <= total
      BY <1>1, <1>2, <1>6 DEF Prunes, Bounded, Pruning
    <2>2. rest \in SUBSET logs
      OBVIOUS
    <2>3. /\ Cardinality(rest) \in Nat /\ Cardinality(logs) \in Nat
          /\ Cardinality(rest) <= Cardinality(logs) /\ Size(rest) \in Nat
      BY <2>2, RowsWithin
    <2>4. Cardinality(rest) <= MaxEntries
      BY <2>1, <2>3, LogsAssumption
    <2> QED  BY <2>1, <2>3, <2>4
  <1>7. Prunes(r, rest)
    <2>1. CASE total > MaxBytes
      <3>1. r.op = "shrink" /\ r.total = total /\ r.since = s.since
        BY <1>4, <2>1
      <3>2. "removed" \notin r.since => Counted(r, rest)
        BY <1>5, <3>1 DEF Counted
      <3>3. "inserted" \notin r.since => Bounded(r, rest)
        BY <1>6, <3>1 DEF Bounded
      <3> QED  BY <3>2, <3>3 DEF Prunes
    <2>2. CASE ~ (total > MaxBytes)
      BY <1>4, <2>2 DEF Prunes, Pruning
    <2> QED  BY <2>1, <2>2
  <1>8. \A row \in logs \cap s.found :
          \/ row.id <= expired
          \/ Beyond(row)
          \/ s.op \in {"overflow", "drop"} /\ r.op # s.op /\ "removed" \in s.since
    <2>1. r.op # s.op
      BY <1>1, <1>4
    <2> QED  BY <1>1, <1>5, <2>1 DEF Beyond
  <1>9. EndsWith(c, r) => Cardinality(rest) <= MaxEntries /\ Size(rest) <= MaxBytes
    <2> SUFFICES ASSUME EndsWith(c, r) PROVE Cardinality(rest) <= MaxEntries /\ Size(rest) <= MaxBytes
      OBVIOUS
    <2>1. r.op = "over" /\ "inserted" \notin s.since
      BY DEF EndsWith
    <2>2. ~ (total > MaxBytes)
      BY <1>4, <2>1
    <2>3. Size(rest) <= MaxBytes
      BY <1>3, <1>6, <2>1, <2>2
    <2> QED  BY <1>6, <2>1, <2>3
  <1> QED  BY <1>1, <1>4, <1>7, <1>8, <1>9, RetentionRemoves

LEMMA RetentionQuiet ==
  ASSUME RetentionInv, UNCHANGED <<logs, run>>
  PROVE  RetentionInv' /\ Retains
  <1>1. RetentionInv'
    BY DEF RetentionInv, Shaped, Fields, Prunes, Counted, Bounded
  <1>2. Retains
    BY DEF Retains, Ends
  <1> QED  BY <1>1, <1>2

LEMMA RetentionStep ==
  ASSUME ListingsInv, RetentionInv, LogsNext
  PROVE  RetentionInv' /\ Retains
  <1>1. logs \subseteq LogRow
    BY DEF ListingsInv
  <1>2. CASE Age
    BY <1>2, RetentionQuiet DEF Age, Keeps
  <1> SUFFICES ASSUME NEW c \in Callers,
                      \/ BeginRun(c) \/ Log(c) \/ Stream(c) \/ Complete(c) \/ SaveAll(c)
                      \/ PruneAge(c) \/ PruneCount(c) \/ PruneFind(c) \/ PruneOverflow(c)
                      \/ PruneSize(c) \/ ShrinkFind(c) \/ ShrinkDrop(c) \/ RunFails(c)
                      \/ LogPage(c) \/ \E limit \in LogLimits : ListLogs(c, limit)
               PROVE  RetentionInv' /\ Retains
    BY <1>2 DEF LogsNext
  <1> PICK s : s = run[c]
    OBVIOUS
  <1>3. Shaped(s) /\ Prunes(s, logs) /\ (s.op # "none" => Fields(s) /\ s # Quiet)
    BY ShapedFields DEF RetentionInv, Quiet
  <1>4. ASSUME NEW r, Fields(r), r.op \notin Pruning \cup {"over"}, Goes(c, r), UNCHANGED logs
        PROVE  RetentionInv' /\ Retains
    <2>1. Shaped(r) /\ Prunes(r, logs) /\ ~ EndsWith(c, r)
      BY <1>4 DEF Shaped, Prunes, EndsWith
    <2> QED  BY <1>4, <2>1, RetentionAlone
  <1>5. CASE BeginRun(c)
    <2> PICK r : r = Run("running", <<>>, 0)
      OBVIOUS
    <2>1. Fields(r) /\ r.op = "running"
      BY RunFields
    <2>2. Goes(c, r) /\ UNCHANGED logs
      BY <1>5 DEF BeginRun, Keeps
    <2> QED  BY <1>4, <2>1, <2>2 DEF Pruning
  <1>6. CASE Log(c)
    <2> PICK said : said = Append(s.said, [id |-> events + 1, bytes |-> Bytes[events + 1]])
      OBVIOUS
    <2> PICK r : r = [s EXCEPT !.said = said]
      OBVIOUS
    <2>1. s.op # "none" /\ Goes(c, r) /\ UNCHANGED logs
      BY <1>6 DEF Log, Keeps
    <2>2. Fields(s)
      BY <1>3, <2>1
    <2>3. r = [op |-> s.op, said |-> said, streamed |-> s.streamed, awaits |-> s.awaits,
               take |-> s.take, total |-> s.total, found |-> s.found, since |-> s.since]
      BY <2>2 DEF Fields
    <2>4. /\ Fields(r) /\ r.op = s.op /\ r.take = s.take /\ r.total = s.total
          /\ r.found = s.found /\ r.since = s.since
      BY <2>2, <2>3 DEF Fields
    <2>5. Prunes(r, logs)
      BY <1>1, <1>3, <2>2, <2>4, StillPrunes
    <2>6. ~ EndsWith(c, r)
      BY <2>4 DEF EndsWith
    <2> QED  BY <2>1, <2>4, <2>5, <2>6, RetentionAlone DEF Shaped
  <1>7. CASE Complete(c)
    <2> PICK awaits : awaits = Len(s.said)
      OBVIOUS
    <2> PICK r : r = [s EXCEPT !.op = "save", !.awaits = awaits]
      OBVIOUS
    <2>1. s.op = "running" /\ Goes(c, r) /\ UNCHANGED logs
      BY <1>7 DEF Complete, Keeps
    <2>2. Fields(s)
      BY <1>3, <2>1
    <2>3. r = [op |-> "save", said |-> s.said, streamed |-> s.streamed, awaits |-> awaits,
               take |-> s.take, total |-> s.total, found |-> s.found, since |-> s.since]
      BY <2>2 DEF Fields
    <2>4. Fields(r) /\ r.op = "save"
      BY <2>2, <2>3 DEF Fields
    <2> QED  BY <1>4, <2>1, <2>4 DEF Pruning
  <1>8. CASE RunFails(c)
    <2> PICK r : r = Run("failed", s.said, s.streamed)
      OBVIOUS
    <2>1. Fields(r) /\ r.op = "failed"
      BY RunFields
    <2>2. Goes(c, r) /\ UNCHANGED logs
      BY <1>8 DEF RunFails, Keeps
    <2> QED  BY <1>4, <2>1, <2>2 DEF Pruning
  <1>9. CASE Stream(c)
    <2> PICK streamed : streamed = s.streamed + 1
      OBVIOUS
    <2> PICK r : r = [s EXCEPT !.streamed = streamed]
      OBVIOUS
    <2>1. /\ s.op # "none" /\ s.streamed < Len(s.said)
          /\ \E rows \in {{}, {s.said[s.streamed + 1]}} : Inserts(c, rows, r)
      BY <1>9 DEF Stream
    <2>2. s.said[s.streamed + 1] \in LogRow
      BY <2>1, LoggingOf
    <2>3. PICK rows \in SUBSET LogRow : Inserts(c, rows, r)
      BY <2>1, <2>2
    <2>4. Fields(s)
      BY <1>3, <2>1
    <2>5. r = [op |-> s.op, said |-> s.said, streamed |-> streamed, awaits |-> s.awaits,
               take |-> s.take, total |-> s.total, found |-> s.found, since |-> s.since]
      BY <2>4 DEF Fields
    <2>6. /\ Fields(r) /\ r.op = s.op /\ r.take = s.take /\ r.total = s.total
          /\ r.found = s.found /\ r.since = s.since
      BY <2>4, <2>5 DEF Fields
    <2>7. Prunes(r, logs)
      BY <1>1, <1>3, <2>4, <2>6, StillPrunes
    <2> QED  BY <1>1, <2>3, <2>6, <2>7, RetentionInserts
  <1>10. CASE SaveAll(c)
    <2> PICK r : r = [s EXCEPT !.op = "age", !.awaits = 0]
      OBVIOUS
    <2> PICK rows : rows = {s.said[n] : n \in DOMAIN s.said}
      OBVIOUS
    <2>1. s.op = "save" /\ Inserts(c, rows, r)
      BY <1>10 DEF SaveAll
    <2>2. rows \in SUBSET LogRow
      BY <2>1, LoggingOf
    <2>3. Fields(s)
      BY <1>3, <2>1
    <2>4. r = [op |-> "age", said |-> s.said, streamed |-> s.streamed, awaits |-> 0,
               take |-> s.take, total |-> s.total, found |-> s.found, since |-> s.since]
      BY <2>3 DEF Fields
    <2>5. Fields(r) /\ r.op = "age"
      BY <2>3, <2>4 DEF Fields
    <2>6. Prunes(r, logs)
      BY <2>5 DEF Prunes, Pruning
    <2> QED  BY <1>1, <2>1, <2>2, <2>5, <2>6, RetentionInserts
  <1>11. CASE PruneAge(c)
    <2> PICK r : r = [s EXCEPT !.op = "count"]
      OBVIOUS
    <2> PICK rows : rows = {row \in logs : row.id <= expired}
      OBVIOUS
    <2>1. s.op = "age" /\ Removes(c, rows, r)
      BY <1>11 DEF PruneAge
    <2>2. Fields(s)
      BY <1>3, <2>1
    <2>3. r = [op |-> "count", said |-> s.said, streamed |-> s.streamed, awaits |-> s.awaits,
               take |-> s.take, total |-> s.total, found |-> s.found, since |-> s.since]
      BY <2>2 DEF Fields
    <2>4. Fields(r) /\ r.op = "count"
      BY <2>2, <2>3 DEF Fields
    <2>5. Prunes(r, logs \ rows) /\ ~ EndsWith(c, r)
      BY <2>4 DEF Prunes, Pruning, EndsWith
    <2>6. \A row \in logs \cap rows :
            \/ row.id <= expired
            \/ Beyond(row)
            \/ s.op \in {"overflow", "drop"} /\ r.op # s.op /\ "removed" \in s.since
      OBVIOUS
    <2> QED  BY <1>1, <2>1, <2>4, <2>5, <2>6, RetentionRemoves
  <1>12. CASE LogPage(c) \/ \E limit \in LogLimits : ListLogs(c, limit)
    <2>1. UNCHANGED <<logs, run>>
      BY <1>12 DEF LogPage, ListLogs
    <2> QED  BY <2>1, RetentionQuiet
  <1> QED  BY <1>1, <1>5, <1>6, <1>7, <1>8, <1>9, <1>10, <1>11, <1>12, PruneCountKeeps,
              PruneFindKeeps, PruneOverflowKeeps, PruneSizeKeeps, ShrinkFindKeeps, ShrinkDropKeeps

LEMMA RetentionStart == Init => RetentionInv
  BY DEF Init, LogsInit, RetentionInv, Shaped, Prunes, Pruning, Quiet

(* However the invocations of an environment log, save, prune and fail while *)
(* one another does, a pruning removes only rows that are too old or that    *)
(* newer ones push over a limit, unless another has pruned since it counted; *)
(* and one that ends with nothing logged since it counted leaves the log     *)
(* within its limits (execution-repository.ts, pruneRuntimeLogs).            *)
THEOREM RetentionStays == Spec => RetentionKeepsNewest
  <1> DEFINE Inv == CapabilitiesInv /\ PagesInv /\ ListingsInv /\ RetentionInv
  <1>1. Init => Inv
    BY CapabilitiesStart, PagesStart, RetentionStart
  <1>2. Inv /\ [Next]_vars => Inv' /\ [Retains]_logVars
    <2> SUFFICES ASSUME Inv, [Next]_vars PROVE Inv' /\ [Retains]_logVars
      OBVIOUS
    <2>1. CapabilitiesInv'
      BY CapabilitiesStep
    <2>2. PagesInv' /\ ListingsInv'
      BY PagingStep DEF CapabilitiesInv
    <2>3. LogsNext \/ UNCHANGED logVars
      BY DEF Next, vars
    <2>4. RetentionInv' /\ [Retains]_logVars
      <3>1. CASE LogsNext
        BY <3>1, RetentionStep
      <3>2. CASE UNCHANGED logVars
        BY <3>2, RetentionQuiet DEF logVars
      <3> QED  BY <2>3, <3>1, <3>2
    <2> QED  BY <2>1, <2>2, <2>4
  <1>3. [Retains]_logVars =>
          [/\ \A row \in logs \ logs' :
                \/ row.id <= expired
                \/ Beyond(row)
                \/ \E c \in Callers : PrunesOutdated(c)
           /\ \A c \in Callers :
                run[c].op \in {"size", "drop"} /\ run'[c].op = "over" /\ "inserted" \notin run[c].since
                  => Cardinality(logs') <= MaxEntries /\ Size(logs') <= MaxBytes]_logVars
    BY DEF Retains, Removable, Ends
  <1> QED  BY <1>1, <1>2, <1>3, PTL DEF Spec, RetentionKeepsNewest
=============================================================================
