-------------------------- MODULE FunctionStorage --------------------------
(***************************************************************************)
(* ctx.storage and ctx.cache of one Function: keys in the database and in  *)
(* Redis.  apps/runtime/src/{storage-repository,invocation-adapters}.ts,   *)
(* the cache inspector of apps/api/src/{routes-storage,platform-mcp-       *)
(* storage}.ts and the purge of routes-endpoint-settings.ts.  The scope of *)
(* a Function and tenant is fixed by the runtime, every statement names    *)
(* it, and one of them is modelled.                                        *)
(*                                                                         *)
(* A database operation is one step per statement. asked, due and answer   *)
(* only record what happened.                                              *)
(***************************************************************************)
EXTENDS CapabilityCalls

CONSTANTS Keys,              \* ordered
          Contents,
          Patterns,          \* a pattern is the set of keys it matches
          PageLimits,
          Ttls,              \* ttlSeconds a caller may ask for, None for none
          DefaultTtl, MaxTtl,\* of the Function's cache policy
          MaxNow             \* bound: time

ASSUME StorageAssumption ==
  /\ Keys \subseteq Nat /\ Patterns \subseteq SUBSET Keys /\ PageLimits \subseteq Nat \ {0}
  /\ Ttls \subseteq Nat \cup {None} /\ DefaultTtl \in 1 .. MaxTtl /\ MaxNow \in Nat
  /\ MaxTtl \in Nat
  /\ None \notin Nat \cup [ttl : Ttls \cup {None}, value : Contents, at : Nat, id : Nat]

VARIABLES namespace, \* the environment's StorageNamespace exists
          entries,   \* entries[k]: StorageEntry row, of the keys that have one
          cache,     \* cache[k]: what Redis holds
          kv,        \* kv[c]: the caller's operation
          asked,     \* asked[store][k]: what the last set of a key asked for
          now

storageVars == <<namespace, entries, cache, kv, asked, now>>

Stored == DOMAIN entries
Cached == DOMAIN cache

Put(store, k, row) == [j \in DOMAIN store \cup {k} |-> IF j = k THEN row ELSE store[j]]
Without(store, ks) == [j \in DOMAIN store \ ks |-> store[j]]

Becomes(c, op) == kv' = [kv EXCEPT ![c] = op]
Forget(store, ks) ==
  asked' = [asked EXCEPT ![store] = [k \in Keys |-> IF k \in ks THEN None ELSE @[k]]]

-----------------------------------------------------------------------------
(* Every operation finds the namespace first, and creates it if need be:     *)
(* of two that do, the second fails on the unique name.                      *)

StorageOps ==
  [op : {"set"}, key : Keys, value : Contents, ttl : Ttls]
    \cup [op : {"get", "delete"}, key : Keys]
    \cup [op : {"list", "deleteMany"}, pattern : Patterns, limit : PageLimits]

StorageCall(c, op) ==
  /\ Makes("storage") /\ kv[c].op \in {"none", "answered"}
  /\ Becomes(c, [do |-> op, op |-> IF namespace THEN "run" ELSE "namespace", at |-> calls + 1])
  /\ UNCHANGED <<namespace, entries, cache, asked, now>>

CreateNamespace(c) ==
  /\ kv[c].op = "namespace"
  /\ IF namespace THEN Becomes(c, Quiet) /\ UNCHANGED namespace
     ELSE Becomes(c, [kv[c] EXCEPT !.op = "run"]) /\ namespace' = TRUE
  /\ UNCHANGED <<entries, cache, asked, now, boundVars>>

Runs(c, op) == kv[c].op = "run" /\ kv[c].do.op = op

Answered(due, answer) == [op |-> "answered", due |-> due, answer |-> answer]

Alive(k) == k \in Stored /\ (entries[k].expires = None \/ entries[k].expires > now)

\* The first of the keys, in their order.
FirstOf(ks, limit) == {k \in ks : Cardinality({j \in ks : j < k}) < limit}

StorageGet(c) ==
  /\ Runs(c, "get")
  /\ LET k == kv[c].do.key IN
       Becomes(c, Answered({}, IF Alive(k) THEN {<<k, entries[k].value>>} ELSE {}))
  /\ UNCHANGED <<namespace, entries, cache, asked, now, boundVars>>

StorageList(c) ==
  /\ Runs(c, "list")
  /\ LET do == kv[c].do  found == FirstOf({k \in do.pattern : Alive(k)}, do.limit) IN
       Becomes(c, Answered({}, {<<k, entries[k].value>> : k \in found}))
  /\ UNCHANGED <<namespace, entries, cache, asked, now, boundVars>>

\* Mutant: a ttl of 0 is one.
ZeroExpires(k, do) == IF do.ttl = None THEN None ELSE now + do.ttl

\* A ttl of 0 counts as none.
ExpiresAt(k, do) == IF do.ttl \in {None, 0} THEN None ELSE now + do.ttl

\* One upsert: an entry that is there, expired or not, keeps its id.
StorageSet(c) ==
  LET do == kv[c].do
      id == IF do.key \in Stored THEN entries[do.key].id ELSE kv[c].at
  IN
  /\ Runs(c, "set")
  /\ entries' = Put(entries, do.key,
                    [id |-> id, value |-> do.value, expires |-> ExpiresAt(do.key, do)])
  /\ asked' = [asked EXCEPT !["storage"][do.key] =
                 [ttl |-> do.ttl, value |-> do.value, at |-> now, id |-> id]]
  /\ Becomes(c, Answered({}, {}))
  /\ UNCHANGED <<namespace, cache, now, boundVars>>

\* The rows a deletion finds, expired ones among them, and then deletes by id.
DeleteFind(c) ==
  LET do == kv[c].do
      found == IF do.op = "delete" THEN {do.key} \cap Stored
               ELSE FirstOf(do.pattern \cap Stored, do.limit)
      ids == {entries[k].id : k \in found}
  IN
  /\ Runs(c, "delete") \/ Runs(c, "deleteMany")
  /\ IF found = {} THEN Becomes(c, Answered({}, {}))
     ELSE Becomes(c, [op |-> "delete", ids |-> ids, keys |-> found, strict |-> do.op = "delete"])
  /\ UNCHANGED <<namespace, entries, cache, asked, now, boundVars>>

\* Mutant: the rows that have the keys by then.
GoneByKey(c) == kv[c].keys \cap Stored

Gone(c) == {k \in Stored : entries[k].id \in kv[c].ids}

\* What was asked of the rows found, not of those that came after them.
AskedOf(ids) ==
  {k \in Keys : asked["storage"][k] # None /\ asked["storage"][k].id \in ids}

\* delete fails when the row is gone, deleteMany deletes those that are left.
DeleteFound(c) ==
  LET gone == Gone(c) IN
  /\ kv[c].op = "delete"
  /\ IF gone = {} /\ kv[c].strict THEN Becomes(c, Quiet) /\ UNCHANGED <<entries, asked>>
     ELSE /\ entries' = Without(entries, gone)
          /\ Forget("storage", AskedOf(kv[c].ids))
          /\ Becomes(c, Answered(kv[c].ids, {}))
  /\ UNCHANGED <<namespace, cache, now, boundVars>>

-----------------------------------------------------------------------------
(* The cache: one Redis command each, and getOrSet, which is two. *)

Greatest(a, b) == IF a > b THEN a ELSE b

Ttl(requested) ==
  Greatest(1, Least(IF requested = None THEN DefaultTtl ELSE requested, MaxTtl))

CacheStore(k, value, ttl) ==
  /\ cache' = Put(cache, k, [value |-> value, expires |-> now + Ttl(ttl)])
  /\ asked' = [asked EXCEPT !["cache"][k] = [ttl |-> ttl, value |-> value, at |-> now, id |-> 0]]

Idle(c) == kv[c].op \in {"none", "answered"}

CacheGet(c, k) ==
  /\ Makes("cache") /\ Idle(c)
  /\ Becomes(c, Answered({}, IF k \in Cached THEN {<<k, cache[k].value>>} ELSE {}))
  /\ UNCHANGED <<namespace, entries, cache, asked, now>>

CacheSet(c, k, value, ttl) ==
  /\ Makes("cache") /\ Idle(c)
  /\ CacheStore(k, value, ttl)
  /\ Becomes(c, Answered({}, {}))
  /\ UNCHANGED <<namespace, entries, now>>

CacheDelete(c, k) ==
  /\ Makes("cache") /\ Idle(c)
  /\ cache' = Without(cache, {k}) /\ Forget("cache", {k})
  /\ Becomes(c, Answered({}, {}))
  /\ UNCHANGED <<namespace, entries, now>>

\* The inspector's deletion, by browsers and agents.
InspectorDelete(c, k) == CacheDelete(c, k)
InspectorDeleteByMcp(c, k) == CacheDelete(c, k)

\* A purge unlinks the keys its scan of the cache matched, by name, whatever
\* they hold by then.
MatchKeys(c) == Becomes(c, [op |-> "purge", keys |-> Cached])

Purge(c) ==
  /\ Makes("cache") /\ Idle(c)
  /\ MatchKeys(c)
  /\ UNCHANGED <<namespace, entries, cache, asked, now>>

PurgeUnlink(c) ==
  /\ kv[c].op = "purge"
  /\ cache' = Without(cache, kv[c].keys) /\ Forget("cache", kv[c].keys)
  /\ Becomes(c, Answered({}, {}))
  /\ UNCHANGED <<namespace, entries, now, boundVars>>

\* A miss has the producer run; what it answers is stored whatever the key
\* holds by then.
GetOrSet(c, k, value, ttl) ==
  /\ Makes("cache") /\ Idle(c)
  /\ Becomes(c, IF k \in Cached THEN Answered({}, {<<k, cache[k].value>>})
                ELSE [op |-> "produce", key |-> k, value |-> value, ttl |-> ttl])
  /\ UNCHANGED <<namespace, entries, cache, asked, now>>

Produced(c) ==
  LET q == kv[c] IN
  /\ q.op = "produce"
  /\ CacheStore(q.key, q.value, q.ttl)
  /\ Becomes(c, Answered({}, {<<q.key, q.value>>}))
  /\ UNCHANGED <<namespace, entries, now, boundVars>>

\* Redis drops what has expired.
Tick ==
  /\ now < MaxNow /\ now' = now + 1
  /\ subject \cap {"storage", "cache"} # {}
  /\ cache' = Without(cache, {k \in Cached : cache[k].expires <= now'})
  /\ UNCHANGED <<namespace, entries, kv, asked, boundVars>>

\* An earlier invocation may have left an entry without a time to live in the
\* namespace.
StorageInit ==
  \E kept \in SUBSET Keys, value \in Contents :
    /\ namespace \in (IF "storage" \in subject THEN BOOLEAN ELSE {TRUE})
    /\ Cardinality(kept) <= (IF "storage" \in subject /\ namespace THEN 1 ELSE 0)
    /\ entries = [k \in kept |-> [id |-> 0, value |-> value, expires |-> None]]
    /\ asked = [store \in {"storage", "cache"} |-> [k \in Keys |->
                  IF store = "storage" /\ k \in kept
                  THEN [ttl |-> None, value |-> value, at |-> 0, id |-> 0] ELSE None]]
    /\ cache = <<>> /\ kv = [c \in Callers |-> Quiet] /\ now = 0

StorageNext ==
  \/ Tick
  \/ \E c \in Callers :
       \/ \E op \in StorageOps : StorageCall(c, op)
       \/ CreateNamespace(c) \/ StorageGet(c) \/ StorageList(c) \/ StorageSet(c)
       \/ DeleteFind(c) \/ DeleteFound(c) \/ Produced(c)
       \/ Purge(c) \/ PurgeUnlink(c)
       \/ \E k \in Keys :
            \/ CacheGet(c, k) \/ CacheDelete(c, k)
            \/ InspectorDelete(c, k) \/ InspectorDeleteByMcp(c, k)
            \/ \E value \in Contents, ttl \in Ttls :
                 CacheSet(c, k, value, ttl) \/ GetOrSet(c, k, value, ttl)

-----------------------------------------------------------------------------
StorageTypeOK ==
  /\ namespace \in BOOLEAN /\ now \in 0 .. MaxNow
  /\ Stored \subseteq Keys /\ Cached \subseteq Keys
  /\ \A j, k \in Stored : entries[j].id = entries[k].id => j = k

\* What the last set of the key asked for has not run out.
Due(store, k) ==
  /\ asked[store][k] # None
  /\ LET a == asked[store][k] IN
       IF store = "storage" THEN a.ttl \in {None, 0} \/ now < a.at + a.ttl
       ELSE now < a.at + Greatest(1, Least(IF a.ttl = None THEN DefaultTtl ELSE a.ttl, MaxTtl))

(* A key is found from the set that stored it until the time to live that   *)
(* set asked for, whatever the entry before it asked for, or a deletion; a  *)
(* ttl of 0 keeps a storage entry for good and a cache entry for a second.  *)
(* When a deletion answers, none of the rows it found is left, and those    *)
(* that overlapping calls have created since are (storage-repository.ts,    *)
(* RedisCache).                                                             *)
EntriesAsAsked ==
  /\ \A k \in Keys : Alive(k) <=> Due("storage", k)
  /\ \A k \in Keys : k \in Cached <=> Due("cache", k)
  /\ \A k \in Stored : Alive(k) => entries[k].value = asked["storage"][k].value
  /\ \A c \in Callers : kv[c].op = "answered" =>
       {entries[k].id : k \in Stored} \cap kv[c].due = {}
=============================================================================
