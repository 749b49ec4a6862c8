------------------------ MODULE ProjectDraftsProofs -------------------------
(* Theorems about ProjectDrafts, for every value of its constants. *)
EXTENDS ProjectDrafts, SequenceTheorems, FiniteSetTheorems, FunctionTheorems, WellFoundedInduction, TLAPS

(* What a request that will write a version has read, and still holds: the   *)
(* version it starts from is no newer than the history it will write to.     *)
Held(q) ==
  /\ q.op = "patch" => /\ q.of \in Functions /\ q.code \in Codes \cup {None}
                       /\ q.version \in 1 .. Len(versions[q.of])
  /\ q.op = "edit" => /\ q.of \in Functions /\ q.code \in Codes
                      /\ q.version \in 1 .. Len(versions[q.of])
  /\ q.op = "library" => /\ q.of \in Libraries /\ q.code \in Codes
                         /\ q.version \in 1 .. Len(library[q.of]) + 1
  /\ q.op = "query" => /\ q.of \in Definitions /\ q.code \in Codes
                       /\ q.version \in 1 .. Len(query[q.of]) + 1
  /\ q.op = "template" => q.of \in Functions

Rows ==
  /\ fn = [f \in Functions |-> fn[f]]
  /\ \A f \in Functions : \/ fn[f] = NoFunction /\ versions[f] = <<>>
                          \/ fn[f].version \in 1 .. Len(versions[f])

Histories ==
  /\ versions \in [Functions -> Seq(Codes)]
  /\ library \in [Libraries -> Seq(Codes)]
  /\ query \in [Definitions -> Seq(Codes)]

HistoryInv ==
  /\ Histories /\ Rows
  /\ req = [r \in Requests |-> req[r]]
  /\ \A r \in Requests : Held(req[r])

(* A row added under the next number is a version appended. *)
LEMMA WithAppends ==
  ASSUME NEW h \in Seq(Codes), NEW c \in Codes
  PROVE  /\ With(h, Len(h) + 1, c) = Append(h, c)
         /\ Append(h, c) \in Seq(Codes) /\ Len(Append(h, c)) = Len(h) + 1
<1>1. DOMAIN h = 1 .. Len(h) /\ Len(h) \in Nat
  OBVIOUS
<1>2. DOMAIN h \cup {Len(h) + 1} = 1 .. Len(h) + 1
  BY <1>1
<1>3. /\ Append(h, c) \in Seq(Codes) /\ Len(Append(h, c)) = Len(h) + 1
      /\ DOMAIN Append(h, c) = 1 .. Len(h) + 1
      /\ \A v \in 1 .. Len(h) + 1 : Append(h, c)[v] = IF v \in 1 .. Len(h) THEN h[v] ELSE c
  OBVIOUS
<1>4. Append(h, c) = [v \in 1 .. Len(h) + 1 |-> Append(h, c)[v]]
  BY <1>3, LenProperties
<1> QED
  BY <1>1, <1>2, <1>3, <1>4 DEF With

(* The newest version of a history is its last. *)
LEMMA NewestIsLast ==
  ASSUME NEW h \in Seq(Codes), Len(h) # 0
  PROVE  Newest(h) = Len(h)
<1>1. DOMAIN h = 1 .. Len(h) /\ Len(h) \in Nat
  OBVIOUS
<1>2. Len(h) \in DOMAIN h /\ \A w \in DOMAIN h : w <= Len(h)
  BY <1>1
<1>3. \A v \in DOMAIN h : (\A w \in DOMAIN h : w <= v) => v = Len(h)
  BY <1>1
<1> QED
  BY <1>2, <1>3 DEF Newest

-----------------------------------------------------------------------------
(* The effect of a step on the histories and on the drafts' versions. *)
Advances ==
  \/ UNCHANGED <<versions, library, query>>
  \/ \E f \in Functions, c \in Codes :
       versions' = [versions EXCEPT ![f] = Append(@, c)] /\ UNCHANGED <<library, query>>
  \/ \E l \in Libraries, c \in Codes :
       library' = [library EXCEPT ![l] = Append(@, c)] /\ UNCHANGED <<versions, query>>
  \/ \E d \in Definitions, c \in Codes :
       query' = [query EXCEPT ![d] = Append(@, c)] /\ UNCHANGED <<versions, library>>

Kept ==
  \A f \in Functions :
    Current(f) => Current(f)' \/ \E r \in Requests : StaleMetadata(r, f) /\ req'[r] = Idle

Good == HistoryInv' /\ Advances /\ Kept

LEMMA HeldIdle == Held(Idle)
  BY DEF Held, Idle

(* A step that only reads, or writes neither code nor versions. *)
LEMMA Quietly ==
  ASSUME HistoryInv, UNCHANGED <<fn, versions, library, query>>,
         \/ req' = req
         \/ \E r \in Requests, q \in {x \in {req'[s] : s \in Requests} : Held(x)} :
              req' = [req EXCEPT ![r] = q]
  PROVE  Good
<1>1. Histories' /\ Rows'
  BY DEF HistoryInv, Histories, Rows, NoFunction
<1>2. \A q : Held(q)' <=> Held(q)
  BY DEF Held
<1>3. req' = [r \in Requests |-> req'[r]] /\ \A r \in Requests : Held(req'[r])
  BY DEF HistoryInv
<1>4. Kept
  BY DEF Kept, Current, Existing, Deployed, Tested
<1> QED
  BY <1>1, <1>2, <1>3, <1>4 DEF Good, Advances, HistoryInv, Held

LEMMA Begun ==
  ASSUME HistoryInv, UNCHANGED <<fn, versions, library, query>>, NEW r \in Requests, NEW q, Held(q),
         req' = [req EXCEPT ![r] = q]
  PROVE  Good
<1>1. req'[r] = q
  BY DEF HistoryInv
<1> QED
  BY <1>1, Quietly

(* A step that appends a version and makes it the draft. *)
LEMMA Appends ==
  ASSUME HistoryInv, NEW f \in Functions, NEW c \in Codes,
         fn' = [fn EXCEPT ![f] = [version |-> Len(versions[f]) + 1, code |-> c]],
         versions' = [versions EXCEPT ![f] = Append(versions[f], c)],
         UNCHANGED <<library, query>>,
         req' = req \/ \E r \in Requests : req' = [req EXCEPT ![r] = Idle]
  PROVE  Good
<1>1. /\ versions[f] \in Seq(Codes) /\ Len(versions[f]) \in Nat
      /\ Append(versions[f], c) \in Seq(Codes)
      /\ Len(Append(versions[f], c)) = Len(versions[f]) + 1
      /\ Append(versions[f], c)[Len(versions[f]) + 1] = c
  BY DEF HistoryInv, Histories
<1>2. versions' \in [Functions -> Seq(Codes)] /\ Histories'
  BY <1>1 DEF HistoryInv, Histories
<1>3. \A g \in Functions : /\ versions'[g] = IF g = f THEN Append(versions[f], c) ELSE versions[g]
                           /\ fn'[g] = IF g = f THEN [version |-> Len(versions[f]) + 1, code |-> c]
                                       ELSE fn[g]
  BY DEF HistoryInv, Histories, Rows
<1>4. Rows'
  <2>1. fn' = [g \in Functions |-> fn'[g]]
    BY DEF HistoryInv, Rows
  <2>2. \A g \in Functions : \/ fn'[g] = NoFunction /\ versions'[g] = <<>>
                             \/ fn'[g].version \in 1 .. Len(versions'[g])
    <3> TAKE g \in Functions
    <3>1. CASE g = f
      <4>1. fn'[g].version = Len(versions[f]) + 1
        BY <1>3, <3>1
      <4>2. Len(versions'[g]) = Len(versions[f]) + 1
        BY <1>1, <1>3, <3>1
      <4>3. fn'[g].version \in 1 .. Len(versions'[g])
        BY <1>1, <4>1, <4>2
      <4> QED
        BY <4>3
    <3>2. CASE g # f
      BY <1>3, <3>2 DEF HistoryInv, Rows
    <3> QED
      BY <3>1, <3>2
  <2> QED
    BY <2>1, <2>2 DEF Rows, NoFunction
<1>5. req' = [r \in Requests |-> req'[r]] /\ \A r \in Requests : Held(req[r])'
  <2>1. \A r \in Requests : req'[r] = req[r] \/ req'[r] = Idle
    BY DEF HistoryInv
  <2>2. \A r \in Requests : Held(req[r])
    BY DEF HistoryInv
  <2>3. \A g \in Functions : Len(versions[g]) \in Nat /\ Len(versions'[g]) \in Nat
                             /\ Len(versions[g]) <= Len(versions'[g])
    BY <1>1, <1>2, <1>3 DEF HistoryInv, Histories
  <2>4. \A q : Held(q) => Held(q)'
    BY <2>3 DEF Held
  <2> QED
    BY <2>1, <2>2, <2>4, HeldIdle DEF HistoryInv
<1>6. Current(f)'
  <2>1. Newest(versions'[f]) = Len(versions[f]) + 1
    <3>1. versions'[f] = Append(versions[f], c)
      BY <1>3
    <3>2. Len(Append(versions[f], c)) # 0
      BY <1>1
    <3>3. Newest(Append(versions[f], c)) = Len(Append(versions[f], c))
      BY <1>1, <3>2, NewestIsLast
    <3> QED
      BY <1>1, <3>1, <3>3
  <2> QED
    <3>1. fn'[f].version = Len(versions[f]) + 1 /\ fn'[f].code = c
      BY <1>3
    <3>2. versions'[f][Len(versions[f]) + 1] = c
      BY <1>1, <1>3
    <3> QED
      BY <2>1, <3>1, <3>2 DEF Current, Deployed, Tested
<1>7. Kept
  BY <1>3, <1>6 DEF Kept, Current, Existing, Deployed, Tested
<1> QED
  BY <1>2, <1>4, <1>5, <1>7 DEF Good, HistoryInv, Advances

(* A save that leaves the code alone writes back a version it has read. *)
LEMMA Rewrites ==
  ASSUME HistoryInv, NEW r \in Requests, NEW f \in Functions, NEW v, NEW c,
         v \in 1 .. Len(versions[f]),
         fn' = [fn EXCEPT ![f] = [version |-> v, code |-> c]],
         UNCHANGED <<versions, library, query>>,
         req' = [req EXCEPT ![r] = Idle],
         \/ StaleMetadata(r, f)
         \/ v = fn[f].version /\ c = fn[f].code
  PROVE  Good
<1>1. \A g \in Functions : fn'[g] = IF g = f THEN [version |-> v, code |-> c] ELSE fn[g]
  BY DEF HistoryInv, Rows
<1>2. Rows' /\ Histories'
  BY <1>1 DEF HistoryInv, Histories, Rows, NoFunction
<1>3. req' = [s \in Requests |-> req'[s]] /\ \A s \in Requests : Held(req[s])'
  <2>1. \A q : Held(q) => Held(q)'
    BY DEF Held
  <2> QED
    BY <2>1, HeldIdle DEF HistoryInv
<1>4. Kept
  <2>1. req'[r] = Idle
    BY DEF HistoryInv
  <2> QED
    BY <1>1, <2>1 DEF Kept, Current, Existing, Deployed, Tested
<1> QED
  BY <1>2, <1>3, <1>4 DEF Good, HistoryInv, Advances

-----------------------------------------------------------------------------
LEMMA InitHistory == Init => HistoryInv
<1> SUFFICES ASSUME Init PROVE HistoryInv
  OBVIOUS
<1>0. FunctionsInit /\ QueryInit
  BY DEF Init, DraftsInit
<1>1. req = [r \in Requests |-> req[r]] /\ \A r \in Requests : Held(req[r])
  BY HeldIdle DEF Init, RequestsInit
<1>2. PICK present \in SUBSET Functions, code \in Codes :
        /\ fn = [f \in Functions |->
                   IF f \in present THEN [version |-> 1, code |-> code] ELSE NoFunction]
        /\ versions = [f \in Functions |-> [v \in (IF f \in present THEN {1} ELSE {}) |-> code]]
  BY <1>0 DEF FunctionsInit
<1>3. [v \in {1} |-> code] = <<code>> /\ [v \in {} |-> code] = <<>> /\ [v \in {} |-> None] = <<>>
  <2>1. {1} = 1 .. 1 /\ {} = 1 .. 0
    OBVIOUS
  <2> QED
    BY <2>1
<1>4. \A f \in Functions : versions[f] = IF f \in present THEN <<code>> ELSE <<>>
  BY <1>2, <1>3
<1>5. <<code>> \in Seq(Codes) /\ Len(<<code>>) = 1
  OBVIOUS
<1>6. Histories
  <2>1. <<>> \in Seq(Codes)
    OBVIOUS
  <2>2. versions \in [Functions -> Seq(Codes)]
    BY <1>2, <1>4, <1>5, <2>1
  <2>3. library \in [Libraries -> Seq(Codes)]
    BY <1>3, <2>1 DEF Init, DraftsInit
  <2>4. query \in [Definitions -> Seq(Codes)]
    <3>1. PICK there \in {{}, {d \in Definitions : ConnectionEnabled(d)}}, c \in Codes :
            query = [d \in Definitions |-> IF d \in there THEN <<c>> ELSE <<>>]
      BY <1>0 DEF QueryInit
    <3>2. <<c>> \in Seq(Codes)
      OBVIOUS
    <3> QED
      BY <2>1, <3>1, <3>2
  <2> QED
    BY <2>2, <2>3, <2>4 DEF Histories
<1>7. Rows
  BY <1>2, <1>4, <1>5 DEF Rows
<1> QED
  BY <1>1, <1>6, <1>7 DEF HistoryInv

(* A new Function has one version, its draft. *)
LEMMA Inserts ==
  ASSUME HistoryInv, NEW f \in Functions, NEW c \in Codes, Insert(f, c), UNCHANGED <<library, query>>,
         req' = req \/ \E r \in Requests : req' = [req EXCEPT ![r] = Idle]
  PROVE  Good
<1>1. versions[f] = <<>> /\ Len(versions[f]) = 0
  BY DEF HistoryInv, Rows, Insert, NoFunction
<1>2. versions[f] \in Seq(Codes)
  BY DEF HistoryInv, Histories
<1>3. With(versions[f], Len(versions[f]) + 1, c) = Append(versions[f], c)
  BY <1>2, WithAppends
<1>4. Len(versions[f]) + 1 = 1
  BY <1>1
<1>5. /\ fn' = [fn EXCEPT ![f] = [version |-> Len(versions[f]) + 1, code |-> c]]
      /\ versions' = [versions EXCEPT ![f] = Append(versions[f], c)]
  BY <1>3, <1>4 DEF Insert
<1> QED
  BY <1>5, Appends

LEMMA FunctionSteps ==
  ASSUME HistoryInv, NEW r \in Requests, Patch(r) \/ Edit(r), UNCHANGED query
  PROVE  Good
<1> DEFINE q == req[r]
           h == versions[q.of]
<1>1. req' = [req EXCEPT ![r] = Idle] /\ UNCHANGED <<library, query>>
  BY DEF Patch, Edit, End
<1>2. /\ q.of \in Functions /\ q.version \in 1 .. Len(h)
      /\ h \in Seq(Codes) /\ Len(h) \in Nat /\ DOMAIN h = 1 .. Len(h)
  BY DEF HistoryInv, Histories, Held, Patch, Edit
<1>3. CASE Patch(r)
  <2>1. CASE q.code = None
    <3>0. NextVersion(q) = q.version
      BY <1>2, <2>1 DEF NextVersion
    <3>1. fn' = [fn EXCEPT ![q.of] = [version |-> q.version, code |-> fn[q.of].code]]
      BY <1>3, <2>1, <3>0 DEF Patch
    <3>2. StaleMetadata(r, q.of) \/ q.version = fn[q.of].version
      BY <1>3, <2>1 DEF Patch, StaleMetadata
    <3>3. UNCHANGED versions
      BY <1>3, <2>1 DEF Patch
    <3> QED
      BY <1>1, <1>2, <3>1, <3>2, <3>3, Rewrites
  <2>2. CASE q.code # None
    <3>1. q.code \in Codes
      BY <1>3, <2>2 DEF Patch, HistoryInv, Held
    <3>2. q.version + 1 \notin 1 .. Len(h)
      BY <1>2, <1>3, <2>2 DEF Patch, PatchFits, NextVersion
    <3>3. q.version + 1 = Len(h) + 1
      BY <1>2, <3>2
    <3>4. /\ fn' = [fn EXCEPT ![q.of] = [version |-> q.version + 1, code |-> q.code]]
          /\ versions' = [versions EXCEPT ![q.of] = With(h, q.version + 1, q.code)]
      BY <1>2, <1>3, <2>2 DEF Patch, NextVersion, HistoryInv, Rows, Histories
    <3>5. With(h, q.version + 1, q.code) = Append(h, q.code)
      BY <1>2, <3>1, <3>3, WithAppends
    <3> QED
      BY <1>1, <1>2, <3>1, <3>3, <3>4, <3>5, Appends
  <2> QED
    BY <2>1, <2>2
<1>4. CASE Edit(r)
  <2>0. q.code \in Codes /\ fn[q.of].version = q.version
    BY <1>4 DEF Edit, EditFits, HistoryInv, Held
  <2>1. CASE q.code = q.was
    <3>0. EditedVersion(q) = q.version
      BY <1>2, <2>1 DEF EditedVersion
    <3>1. fn' = [fn EXCEPT ![q.of] = [version |-> q.version, code |-> q.code]]
      BY <1>4, <3>0 DEF Edit
    <3>2. StaleMetadata(r, q.of) \/ q.code = fn[q.of].code
      BY <1>4, <2>1 DEF Edit, StaleMetadata
    <3>3. UNCHANGED versions
      BY <1>4, <2>1 DEF Edit
    <3> QED
      BY <1>1, <1>2, <2>0, <3>1, <3>2, <3>3, Rewrites
  <2>2. CASE q.code # q.was
    <3>2. q.version + 1 \notin 1 .. Len(h)
      BY <1>2, <1>4, <2>2 DEF Edit, EditFits, EditedVersion
    <3>3. q.version + 1 = Len(h) + 1
      BY <1>2, <3>2
    <3>4. /\ fn' = [fn EXCEPT ![q.of] = [version |-> q.version + 1, code |-> q.code]]
          /\ versions' = [versions EXCEPT ![q.of] = With(h, q.version + 1, q.code)]
      BY <1>2, <1>4, <2>2 DEF Edit, EditedVersion, HistoryInv, Histories
    <3>5. With(h, q.version + 1, q.code) = Append(h, q.code)
      BY <1>2, <2>0, <3>3, WithAppends
    <3> QED
      BY <1>1, <1>2, <2>0, <3>3, <3>4, <3>5, Appends
  <2> QED
    BY <2>1, <2>2
<1> QED
  BY <1>3, <1>4

LEMMA LibraryStep ==
  ASSUME HistoryInv, NEW r \in Requests, CreateLibrary(r), UNCHANGED query
  PROVE  Good
<1> DEFINE q == req[r]
           h == library[q.of]
<1>1. /\ q.of \in Libraries /\ q.code \in Codes /\ q.version \in 1 .. Len(h) + 1
      /\ h \in Seq(Codes) /\ Len(h) \in Nat /\ DOMAIN h = 1 .. Len(h)
  BY DEF HistoryInv, Histories, Held, CreateLibrary
<1>2. q.version = Len(h) + 1
  BY <1>1 DEF CreateLibrary, LibraryFits
<1>3. With(h, q.version, q.code) = Append(h, q.code)
  BY <1>1, <1>2, WithAppends
<1>4. library' = [library EXCEPT ![q.of] = Append(h, q.code)]
  BY <1>1, <1>3 DEF CreateLibrary, HistoryInv, Histories
<1>5. Append(h, q.code) \in Seq(Codes) /\ Len(Append(h, q.code)) = Len(h) + 1
  BY <1>1
<1>6. UNCHANGED <<fn, versions, query>> /\ req' = [req EXCEPT ![r] = Idle]
  BY DEF CreateLibrary, End
<1>7. Histories' /\ Rows'
  BY <1>4, <1>5, <1>6 DEF HistoryInv, Histories, Rows, NoFunction
<1>8. req' = [s \in Requests |-> req'[s]] /\ \A s \in Requests : Held(req[s])'
  <2>1. \A l \in Libraries : Len(library[l]) \in Nat /\ Len(library'[l]) \in Nat
                             /\ Len(library[l]) <= Len(library'[l])
    BY <1>1, <1>4, <1>5 DEF HistoryInv, Histories
  <2>2. \A x : Held(x) => Held(x)'
    BY <2>1, <1>6 DEF Held
  <2> QED
    BY <2>2, <1>6, HeldIdle DEF HistoryInv
<1>9. Kept
  BY <1>6 DEF Kept, Current, Existing, Deployed, Tested
<1> QED
  BY <1>1, <1>4, <1>6, <1>7, <1>8, <1>9 DEF Good, HistoryInv, Advances

LEMMA QueryStep ==
  ASSUME HistoryInv, NEW r \in Requests, CreateQueryVersion(r)
  PROVE  Good
<1> DEFINE q == req[r]
           h == query[q.of]
<1>1. /\ q.of \in Definitions /\ q.code \in Codes /\ q.version \in 1 .. Len(h) + 1
      /\ h \in Seq(Codes) /\ Len(h) \in Nat /\ DOMAIN h = 1 .. Len(h)
  BY DEF HistoryInv, Histories, Held, CreateQueryVersion
<1>2. q.version = Len(h) + 1
  BY <1>1 DEF CreateQueryVersion, QueryFits
<1>3. With(h, q.version, q.code) = Append(h, q.code)
  BY <1>1, <1>2, WithAppends
<1>4. query' = [query EXCEPT ![q.of] = Append(h, q.code)]
  BY <1>1, <1>3 DEF CreateQueryVersion, HistoryInv, Histories
<1>5. Append(h, q.code) \in Seq(Codes) /\ Len(Append(h, q.code)) = Len(h) + 1
  BY <1>1
<1>6. UNCHANGED <<fn, versions, library>> /\ req' = [req EXCEPT ![r] = Idle]
  BY DEF CreateQueryVersion, End, draftVars
<1>7. Histories' /\ Rows'
  BY <1>4, <1>5, <1>6 DEF HistoryInv, Histories, Rows, NoFunction
<1>8. req' = [s \in Requests |-> req'[s]] /\ \A s \in Requests : Held(req[s])'
  <2>1. \A d \in Definitions : Len(query[d]) \in Nat /\ Len(query'[d]) \in Nat
                             /\ Len(query[d]) <= Len(query'[d])
    BY <1>1, <1>4, <1>5 DEF HistoryInv, Histories
  <2>2. \A x : Held(x) => Held(x)'
    BY <2>1, <1>6 DEF Held
  <2> QED
    BY <2>2, <1>6, HeldIdle DEF HistoryInv
<1>9. Kept
  BY <1>6 DEF Kept, Current, Existing, Deployed, Tested
<1> QED
  BY <1>1, <1>4, <1>6, <1>7, <1>8, <1>9 DEF Good, HistoryInv, Advances

LEMMA DraftsSteps ==
  ASSUME HistoryInv, DraftsNext, UNCHANGED query
  PROVE  Good
<1>1. CASE \E f \in Functions, c \in Codes : CreateFunction(f, c) \/ CreateFunctionByMcp(f, c)
  BY <1>1, Inserts DEF CreateFunction, CreateFunctionByMcp, AtOnce
<1>2. CASE \E s \in Secrets : \/ SyncSecret(s) \/ CreateSecretByMcp(s)
                              \/ \E e \in Environments : CreateSecret(s, e)
  BY <1>2, Quietly DEF SyncSecret, CreateSecretByMcp, CreateSecret, AtOnce
<1>8. CASE \/ \E c \in Connections, s \in secrets : CreateConnection(c, s)
           \/ \E row \in connections : DisableConnection(row)
  BY <1>8, Quietly DEF CreateConnection, DisableConnection, AtOnce
<1>3. ASSUME NEW r \in Requests,
             \/ \E f \in Functions, c \in Codes : EditRead(r, f, c)
             \/ \E f \in Functions, c \in Codes \cup {None}, g \in (SUBSET Named) \cup {None} :
                  PatchRead(r, f, c, g)
      PROVE  Good
  <2>1. \A f \in Functions : f \in Existing => fn[f].version \in 1 .. Len(versions[f])
    BY DEF HistoryInv, Rows, Existing, NoFunction
  <2>2. ASSUME NEW f \in Functions, NEW c \in Codes, EditRead(r, f, c)
        PROVE  Good
    <3>1. Held([op |-> "edit", of |-> f, version |-> fn[f].version, was |-> fn[f].code, code |-> c])
      BY <2>1, <2>2 DEF EditRead, Held
    <3> QED
      BY <2>2, <3>1, Begun DEF EditRead, Begin, draftVars
  <2>3. ASSUME NEW f \in Functions, NEW c \in Codes \cup {None}, NEW g, PatchRead(r, f, c, g)
        PROVE  Good
    <3>1. Held([op |-> "patch", of |-> f, version |-> fn[f].version, code |-> c, granted |-> g])
      BY <2>1, <2>3 DEF PatchRead, Held
    <3> QED
      BY <2>3, <3>1, Begun DEF PatchRead, Begin, draftVars
  <2> QED
    BY <1>3, <2>2, <2>3
<1>4. ASSUME NEW r \in Requests, PatchFails(r) \/ EditConflicts(r) \/ LibraryFails(r)
                                 \/ DeleteSecret(r) \/ DeleteSecretFails(r) \/ SetGrants(r)
      PROVE  Good
  <2>1. req' = [req EXCEPT ![r] = Idle] /\ UNCHANGED <<fn, versions, library, query>>
    BY <1>4 DEF PatchFails, EditConflicts, LibraryFails, DeleteSecret, DeleteSecretFails, SetGrants,
                Fails, End, draftVars
  <2> QED
    BY <2>1, HeldIdle, Begun
<1>5. ASSUME NEW r \in Requests, NEW l \in Libraries, NEW c \in Codes,
             LibraryRead(r, l, c) \/ LibraryReadByMcp(r, l, c)
      PROVE  Good
  <2>1. library[l] \in Seq(Codes) /\ Len(library[l]) \in Nat /\ DOMAIN library[l] = 1 .. Len(library[l])
    BY DEF HistoryInv, Histories
  <2>2. LatestVersion(l) = Len(library[l])
    <3>1. CASE Len(library[l]) = 0
      BY <2>1, <3>1 DEF LatestVersion
    <3>2. CASE Len(library[l]) # 0
      <4>1. Newest(library[l]) = Len(library[l])
        BY <2>1, <3>2, NewestIsLast
      <4>2. 1 \in DOMAIN library[l]
        BY <2>1, <3>2
      <4> QED
        BY <4>1, <4>2 DEF LatestVersion
    <3> QED
      BY <3>1, <3>2
  <2>3. PICK v \in 1 .. Len(library[l]) + 1 :
          Begin(r, "libraries", [op |-> "library", of |-> l, code |-> c, version |-> v])
    <3>1. CASE LibraryRead(r, l, c)
      <4>1. LatestVersion(l) + 1 \in 1 .. Len(library[l]) + 1
        BY <2>1, <2>2
      <4> QED
        BY <3>1, <4>1 DEF LibraryRead
    <3>2. CASE LibraryReadByMcp(r, l, c)
      <4>1. \A found \in DOMAIN library[l] : found + 1 \in 1 .. Len(library[l]) + 1
        BY <2>1
      <4> QED
        BY <3>2, <4>1 DEF LibraryReadByMcp
    <3> QED
      BY <1>5, <3>1, <3>2
  <2>4. Held([op |-> "library", of |-> l, code |-> c, version |-> v])
    BY DEF Held
  <2> QED
    BY <1>5, <2>3, <2>4, Begun DEF Begin, LibraryRead, LibraryReadByMcp, draftVars
<1>6. ASSUME NEW r \in Requests, NEW s \in Secrets,
             \/ DeleteSecretsRead(r, s) \/ DeleteSecretsReadByMcp(r, s)
             \/ \E e \in Environments : DeleteSecretRead(r, s, e)
      PROVE  Good
  <2>1. PICK some : DeletionRead(r, s, some)
    BY <1>6 DEF DeleteSecretsRead, DeleteSecretsReadByMcp, DeleteSecretRead
  <2>2. Held([op |-> "delete_secret", rows |-> some])
    BY DEF Held
  <2> QED
    BY <2>1, <2>2, Begun DEF DeletionRead, Begin, draftVars
<1>7. ASSUME NEW r \in Requests, NEW f, NEW names, GrantsRead(r, f, names)
      PROVE  Good
  <2>1. Held([op |-> "grants", of |-> f, names |-> names])
    BY DEF Held
  <2> QED
    BY <1>7, <2>1, Begun DEF GrantsRead, Begin, draftVars
<1> QED
  BY <1>1, <1>2, <1>3, <1>4, <1>5, <1>6, <1>7, <1>8, FunctionSteps, LibraryStep DEF DraftsNext

LEMMA BindingsSteps ==
  ASSUME HistoryInv, BindingsNext, UNCHANGED query
  PROVE  Good
<1>1. CASE \E f \in Functions, key \in Keys, text \in Texts :
             CreateBinding(f, key, text) \/ CreateBindingByMcp(f, key, text)
  BY <1>1, Quietly DEF CreateBinding, CreateBindingByMcp, AtOnce, draftVars
<1>2. CASE \E b \in bindings : DeleteBinding(b)
  BY <1>2, Quietly DEF DeleteBinding, AtOnce, draftVars
<1>3. ASSUME NEW r \in Requests, NEW b, NEW field, NEW v,
             PatchBindingRead(r, b, field, v) \/ EditBindingRead(r, b, field, v)
      PROVE  Good
  <2>1. PICK op \in {"patch_binding", "edit_binding"} : BindingRead(r, op, b, field, v)
    BY <1>3 DEF PatchBindingRead, EditBindingRead
  <2>2. \A candidate : Held([op |-> op, read |-> b, field |-> field, value |-> v,
                             candidate |-> candidate])
    BY <2>1 DEF Held
  <2> QED
    BY <2>1, <2>2, Begun DEF BindingRead, Begin, draftVars
<1>4. ASSUME NEW r \in Requests,
             \/ WriteBinding(r) \/ BindingFails(r) \/ ManifestFails(r) \/ TemplateFails(r)
             \/ \E text, ids : ApplyManifest(r, text, ids)
      PROVE  Good
  <2>1. req' = [req EXCEPT ![r] = Idle] /\ UNCHANGED <<fn, versions, library, query>>
    BY <1>4 DEF WriteBinding, BindingFails, ManifestFails, TemplateFails, ApplyManifest, Fails,
                End, draftVars
  <2> QED
    BY <2>1, HeldIdle, Begun
<1>5. ASSUME NEW r \in Requests, NEW d, NEW p, ManifestRead(r, d, p)
      PROVE  Good
  <2>1. Held([op |-> "manifest", desired |-> d, default |-> p, read |-> bindings])
    BY DEF Held
  <2> QED
    BY <1>5, <2>1, Begun DEF ManifestRead, Begin, draftVars
<1>6. ASSUME NEW r \in Requests, NEW f \in Functions, NEW g, NEW key, NEW p,
             TemplateRead(r, f, g, key, p)
      PROVE  Good
  <2>1. Held([op |-> "template", of |-> f, granted |-> g, key |-> key, default |-> p])
    BY DEF Held
  <2> QED
    BY <1>6, <2>1, Begun DEF TemplateRead, Begin, draftVars
<1>7. ASSUME NEW r \in Requests, NEW code \in Codes, NEW text, InstallTemplate(r, code, text)
      PROVE  Good
  <2>1. req[r].of \in Functions
    BY <1>7 DEF InstallTemplate, HistoryInv, Held
  <2> QED
    BY <1>7, <2>1, Inserts DEF InstallTemplate, End
<1> QED
  BY <1>1, <1>2, <1>3, <1>4, <1>5, <1>6, <1>7 DEF BindingsNext

LEMMA PoliciesSteps ==
  ASSUME HistoryInv, PoliciesNext, UNCHANGED query
  PROVE  Good
<1>1. CASE \E p \in Policies : CreatePolicy(p) \/ CreatePolicyByMcp(p)
  BY <1>1, Quietly DEF CreatePolicy, CreatePolicyByMcp, AtOnce, draftVars
<1>2. ASSUME NEW r \in Requests, NEW p,
             \/ DeletePolicyRead(r, p) \/ DeletePolicyReadByMcp(r, p) \/ AddPolicyRead(r, p)
             \/ AssignRead(r, p) \/ RemoveRead(r, p)
      PROVE  Good
  <2>1. Held([op |-> "delete_policy", of |-> p]) /\ Held([op |-> "add_policy", of |-> p, default |-> default])
    BY DEF Held
  <2>2. Held([op |-> "assign", of |-> p, position |-> NextPosition])
        /\ Held([op |-> "remove", of |-> p, row |-> assigned[p].row])
    BY DEF Held
  <2> QED
    BY <1>2, <2>1, <2>2, Begun
    DEF DeletePolicyRead, DeletePolicyReadByMcp, AddPolicyRead, AssignRead, RemoveRead, Begin, draftVars
<1>3. ASSUME NEW r \in Requests,
             \/ DeletePolicy(r) \/ AddPolicy(r) \/ AddPolicyFails(r) \/ Assign(r) \/ AssignFails(r)
             \/ RemoveFails(r) \/ Reorder(r) \/ ReorderFails(r) \/ Replace(r) \/ ReplaceFails(r)
             \/ \E order : Remove(r, order)
      PROVE  Good
  <2>1. req' = [req EXCEPT ![r] = Idle] /\ UNCHANGED <<fn, versions, library, query>>
    BY <1>3 DEF DeletePolicy, AddPolicy, AddPolicyFails, Assign, AssignFails, RemoveFails, Reorder,
                ReorderFails, Replace, ReplaceFails, Remove, Fails, End, draftVars
  <2> QED
    BY <2>1, HeldIdle, Begun
<1>4. ASSUME NEW r \in Requests, AddPolicyCount(r)
      PROVE  Good
  <2>1. PICK of, d, n :
          req' = [req EXCEPT ![r] = [op |-> "insert_policy", of |-> of, default |-> d, position |-> n]]
    BY <1>4 DEF AddPolicyCount
  <2>2. Held([op |-> "insert_policy", of |-> of, default |-> d, position |-> n])
    BY DEF Held
  <2> QED
    BY <1>4, <2>1, <2>2, Begun DEF AddPolicyCount, endpointVars, draftVars
<1>5. ASSUME NEW r \in Requests, NEW order, NEW ps, ReorderRead(r, order) \/ ReplaceRead(r, ps, order)
      PROVE  Good
  <2>1. Held([op |-> "reorder", order |-> order]) /\ Held([op |-> "replace", order |-> order])
    BY DEF Held
  <2> QED
    BY <1>5, <2>1, Begun DEF ReorderRead, ReplaceRead, Begin, draftVars
<1> QED
  BY <1>1, <1>2, <1>3, <1>4, <1>5 DEF PoliciesNext

LEMMA QueriesSteps ==
  ASSUME HistoryInv, QueryNext
  PROVE  Good
<1>1. ASSUME NEW r \in Requests, NEW d \in Definitions, NEW c \in Codes,
             QueryRead(r, d, c) \/ QueryVersionRead(r, d, c)
      PROVE  Good
  <2>1. query[d] \in Seq(Codes) /\ Len(query[d]) \in Nat
    BY DEF HistoryInv, Histories
  <2>2. PICK v \in 1 .. Len(query[d]) + 1 :
          Begin(r, "database", [op |-> "query", of |-> d, code |-> c, version |-> v])
    <3>1. CASE QueryRead(r, d, c)
      <4>1. 1 \in 1 .. Len(query[d]) + 1
        BY <2>1
      <4> QED
        BY <3>1, <4>1 DEF QueryRead
    <3>2. CASE QueryVersionRead(r, d, c)
      <4>1. Len(query[d]) # 0
        BY <2>1, <3>2 DEF QueryVersionRead, Defined
      <4>2. Newest(query[d]) = Len(query[d])
        BY <2>1, <4>1, NewestIsLast
      <4>3. Newest(query[d]) + 1 \in 1 .. Len(query[d]) + 1
        BY <2>1, <4>2
      <4> QED
        BY <3>2, <4>3 DEF QueryVersionRead
    <3> QED
      BY <1>1, <3>1, <3>2
  <2>3. Held([op |-> "query", of |-> d, code |-> c, version |-> v])
    BY DEF Held
  <2> QED
    BY <1>1, <2>2, <2>3, Begun DEF Begin, QueryRead, QueryVersionRead, draftVars, queryVars
<1>2. ASSUME NEW r \in Requests, QueryFails(r) \/ GrantQuery(r)
      PROVE  Good
  <2>1. req' = [req EXCEPT ![r] = Idle] /\ UNCHANGED <<fn, versions, library, query>>
    BY <1>2 DEF QueryFails, GrantQuery, Fails, End, draftVars, queryVars
  <2> QED
    BY <2>1, HeldIdle, Begun
<1>3. ASSUME NEW r \in Requests, NEW f, NEW d, NEW v, GrantQueryRead(r, f, d, v)
      PROVE  Good
  <2>1. Held([op |-> "grant_query", fn |-> f, of |-> d, version |-> v])
    BY DEF Held
  <2> QED
    BY <1>3, <2>1, Begun DEF GrantQueryRead, Begin, draftVars, queryVars
<1>4. CASE \/ \E d \in Definitions, v \in Numbers : DisableQueryVersion(d, v)
           \/ \E g \in queryGrants : RevokeQuery(g)
  BY <1>4, Quietly DEF DisableQueryVersion, RevokeQuery, AtOnce, draftVars
<1> QED
  BY <1>1, <1>2, <1>3, <1>4, QueryStep DEF QueryNext

LEMMA SchedulesSteps ==
  ASSUME HistoryInv, ScheduleNext, UNCHANGED query
  PROVE  Good
<1>1. CASE \/ \E env \in Environments, name \in Names, f \in Functions, s \in Schedules, on \in BOOLEAN :
                CreateCron(env, name, f, s, on) \/ CreateCronByMcp(env, name, f, s, on)
           \/ \E c \in crons : DeleteCron(c) \/ DeleteCronByMcp(c)
  BY <1>1, Quietly DEF CreateCron, CreateCronByMcp, DeleteCron, DeleteCronByMcp, AtOnce, draftVars
<1>2. ASSUME NEW r \in Requests, NEW c, NEW field, NEW v,
             PatchCronRead(r, c, field, v) \/ EditCronRead(r, c, field, v)
      PROVE  Good
  <2>1. CronRead(r, c, field, v)
    BY <1>2 DEF PatchCronRead, EditCronRead
  <2>2. \A merged : Held([op |-> "cron", read |-> c, field |-> field, merged |-> merged])
    BY DEF Held
  <2> QED
    BY <2>1, <2>2, Begun DEF CronRead, Begin, draftVars
<1>3. ASSUME NEW r \in Requests, WriteCron(r) \/ CronFails(r)
      PROVE  Good
  <2>1. req' = [req EXCEPT ![r] = Idle] /\ UNCHANGED <<fn, versions, library>>
    BY <1>3 DEF WriteCron, CronFails, Fails, End, draftVars
  <2> QED
    BY <2>1, HeldIdle, Begun
<1> QED
  BY <1>1, <1>2, <1>3 DEF ScheduleNext

LEMMA StutterStep ==
  ASSUME HistoryInv, UNCHANGED vars
  PROVE  Good
  BY Quietly DEF vars, draftVars, requestVars, queryVars

LEMMA EveryStep ==
  ASSUME HistoryInv, [Next]_vars
  PROVE  Good
  BY DraftsSteps, BindingsSteps, PoliciesSteps, QueriesSteps, SchedulesSteps, StutterStep
  DEF Next, EndpointNext, queryVars

-----------------------------------------------------------------------------
(* The histories of Functions, libraries and queries are sequences of versions, a     *)
(* Function's row names a version of its history, and so does every request  *)
(* that is about to write one.                                               *)
THEOREM HistoriesHold == Spec => []HistoryInv
<1>1. HistoryInv /\ [Next]_vars => HistoryInv'
  BY EveryStep DEF Good
<1> QED
  BY <1>1, InitHistory, PTL DEF Spec

(* A draft that is the newest version of its Function stays so, until a save *)
(* that leaves the code alone writes back a version it had read earlier.     *)
THEOREM DraftsStayNewest == Spec => OnlyStaleMetadataUnversions
<1>1. HistoryInv /\ [Next]_vars =>
        [\A f \in Functions :
           Current(f) => Current(f)' \/ \E r \in Requests : StaleMetadata(r, f) /\ req'[r] = Idle]_vars
  BY EveryStep DEF Good, Kept
<1> QED
  BY <1>1, HistoriesHold, PTL DEF Spec, OnlyStaleMetadataUnversions

(* The drafts implement the ledger: nothing the handlers do, in any order,   *)
(* changes or removes a version or leaves a gap in the numbers.              *)
THEOREM DraftsImplementLedger == Spec => ImplementsVersionLedger
<1> DEFINE history == [s \in Subjects |-> CASE s[1] = "function" -> versions[s[2]]
                                           [] s[1] = "library" -> library[s[2]]
                                           [] OTHER -> query[s[2]]]
<1>1. \A s \in Subjects : \/ s[1] = "function" /\ s[2] \in Functions
                          \/ s[1] = "library" /\ s[2] \in Libraries
                          \/ s[1] = "query" /\ s[2] \in Definitions
  BY DEF Subjects
<1>2. HistoryInv => Ledger!LedgerInit
  BY <1>1 DEF HistoryInv, Histories, Ledger!LedgerInit
<1>3. HistoryInv /\ [Next]_vars => [Ledger!LedgerNext]_history
  <2> SUFFICES ASSUME HistoryInv, [Next]_vars
               PROVE  [Ledger!LedgerNext]_history
    OBVIOUS
  <2>0. Advances
    BY EveryStep DEF Good
  <2>1. CASE UNCHANGED <<versions, library, query>>
    BY <2>1
  <2>2. ASSUME NEW f \in Functions, NEW c \in Codes,
               versions' = [versions EXCEPT ![f] = Append(@, c)], UNCHANGED <<library, query>>
        PROVE  Ledger!LedgerNext
    <3>1. <<"function", f>> \in Subjects
      BY DEF Subjects
    <3>2. \A s \in Subjects : s[1] = "function" /\ s[2] = f => s = <<"function", f>>
      BY DEF Subjects
    <3>3. \A s \in Subjects :
            history'[s] = IF s = <<"function", f>> THEN Append(history[s], c) ELSE history[s]
      BY <1>1, <2>2, <3>2 DEF HistoryInv, Histories
    <3>4. history' = [history EXCEPT ![<<"function", f>>] = Append(@, c)]
      BY <3>1, <3>3
    <3> QED
      BY <3>1, <3>4 DEF Ledger!LedgerNext, Ledger!Write
  <2>3. ASSUME NEW l \in Libraries, NEW c \in Codes,
               library' = [library EXCEPT ![l] = Append(@, c)], UNCHANGED <<versions, query>>
        PROVE  Ledger!LedgerNext
    <3>1. <<"library", l>> \in Subjects
      BY DEF Subjects
    <3>2. \A s \in Subjects : s[1] = "library" /\ s[2] = l => s = <<"library", l>>
      BY DEF Subjects
    <3>3. \A s \in Subjects :
            history'[s] = IF s = <<"library", l>> THEN Append(history[s], c) ELSE history[s]
      BY <1>1, <2>3, <3>2 DEF HistoryInv, Histories
    <3>4. history' = [history EXCEPT ![<<"library", l>>] = Append(@, c)]
      BY <3>1, <3>3
    <3> QED
      BY <3>1, <3>4 DEF Ledger!LedgerNext, Ledger!Write
  <2>4. ASSUME NEW d \in Definitions, NEW c \in Codes,
               query' = [query EXCEPT ![d] = Append(@, c)], UNCHANGED <<versions, library>>
        PROVE  Ledger!LedgerNext
    <3>1. <<"query", d>> \in Subjects
      BY DEF Subjects
    <3>2. \A s \in Subjects : s[1] = "query" /\ s[2] = d => s = <<"query", d>>
      BY DEF Subjects
    <3>3. \A s \in Subjects :
            history'[s] = IF s = <<"query", d>> THEN Append(history[s], c) ELSE history[s]
      BY <1>1, <2>4, <3>2 DEF HistoryInv, Histories
    <3>4. history' = [history EXCEPT ![<<"query", d>>] = Append(@, c)]
      BY <3>1, <3>3
    <3> QED
      BY <3>1, <3>4 DEF Ledger!LedgerNext, Ledger!Write
  <2> QED
    BY <2>0, <2>1, <2>2, <2>3, <2>4 DEF Advances
<1>4. HistoryInv /\ [Next]_vars => HistoryInv'
  BY EveryStep DEF Good
<1> QED
  BY <1>2, <1>3, <1>4, InitHistory, PTL DEF Spec, ImplementsVersionLedger, Ledger!LedgerSpec

-----------------------------------------------------------------------------
(* Bindings, cron bindings and the order of the policies. A row's id is no    *)
(* larger than the number of rows created; policies have numbers for         *)
(* positions.                                                                *)
BindingRow == [id : Nat, key : Keys, fn : Functions, text : Texts]
BindingFields == {"key", "fn", "text"}
CronRow == [id : Nat, env : Environments, name : Names, fn : Functions,
            schedule : Schedules, enabled : BOOLEAN, deleted : BOOLEAN]

BindingsInv ==
  /\ rows \in Nat /\ bindings \subseteq BindingRow
  /\ \A b \in bindings : b.id <= rows
  /\ \A b, c \in bindings : b.id = c.id => b = c

CronsInv ==
  /\ IsFiniteSet(crons) /\ crons \subseteq CronRow
  /\ \A c \in crons : c.id <= Cardinality(crons)
  /\ \A b, c \in crons : b.id = c.id => b = c

OrderInv ==
  /\ assigned \in [Assigned -> [position : Nat, row : Nat]] /\ Assigned \subseteq Policies

\* order gives its policies different positions.
Numbered(order) ==
  /\ order \in [DOMAIN order -> Nat] /\ DOMAIN order \subseteq Policies
  /\ \A p, o \in DOMAIN order : p # o => order[p] # order[o]

(* What a request under way has read and will write, whatever the tables     *)
(* hold by now: an edit's candidate and the merged cron binding differ from  *)
(* the row that was read in the field that was asked for.                    *)
Composed(q) ==
  /\ q.op \in {"patch_binding", "edit_binding"} =>
       /\ q.read \in BindingRow /\ q.candidate \in BindingRow /\ q.field \in BindingFields
       /\ q.candidate = [q.read EXCEPT ![q.field] = q.value]
       /\ \A b \in BindingRow : [b EXCEPT ![q.field] = q.value] \in BindingRow
  /\ q.op = "manifest" => /\ q.desired \in [DOMAIN q.desired -> Functions]
                          /\ DOMAIN q.desired \subseteq Keys
  /\ q.op = "template" => q.of \in Functions /\ q.key \in Keys
  /\ q.op = "cron" =>
       /\ q.read \in CronRow /\ q.merged \in CronRow /\ q.field \in CronFields
       /\ q.merged.id = q.read.id
       /\ \A field \in CronFields : field # q.field => q.merged[field] = q.read[field]
  /\ q.op \in {"assign", "insert_policy"} => q.of \in Policies /\ q.position \in Nat
  /\ q.op = "add_policy" => q.of \in Policies
  /\ q.op \in {"reorder", "replace"} => Numbered(q.order)

ComposedInv == req = [r \in Requests |-> req[r]] /\ \A r \in Requests : Composed(req[r])

EditsInv == BindingsInv /\ CronsInv /\ OrderInv /\ ComposedInv

BindingsMerge ==
  \A b \in bindings, c \in bindings' : c.id = b.id =>
    \A field \in BindingFields :
      c[field] # b[field] => \E r \in Requests : Asked(r, b, field) /\ req'[r] = Idle

CronsMerge ==
  \A b \in crons, c \in crons' : c.id = b.id =>
    /\ b.deleted => c.deleted
    /\ \A field \in CronFields :
         c[field] # b[field] => \/ field = "enabled" /\ c.deleted # b.deleted
                                \/ \E r \in Requests : AskedCron(r, b, field) /\ req'[r] = Idle

StaysOrdered == Ordered => Ordered' \/ \E r \in Requests : StaleOrder(r) /\ req'[r] = Idle

Sound == EditsInv' /\ BindingsMerge /\ CronsMerge /\ StaysOrdered

\* A request begins with what it has composed, or ends, or the step has none.
Moves == \/ req' = req
         \/ \E r \in Requests : \E q : Composed(q) /\ req' = [req EXCEPT ![r] = q]

LEMMA ComposedIdle == Composed(Idle)
  BY DEF Composed, Idle

LEMMA ComposedStays ==
  ASSUME ComposedInv, Moves
  PROVE  ComposedInv'
<1>1. CASE req' = req
  BY <1>1 DEF ComposedInv, Composed
<1>2. ASSUME NEW r \in Requests, NEW q, Composed(q), req' = [req EXCEPT ![r] = q]
      PROVE  ComposedInv'
  <2>1. \A s \in Requests : req'[s] = IF s = r THEN q ELSE req[s]
    BY <1>2 DEF ComposedInv
  <2>2. req' = [s \in Requests |-> req'[s]]
    BY <1>2 DEF ComposedInv
  <2>3. \A s \in Requests : Composed(req'[s])
    BY <1>2, <2>1, Zenon DEF ComposedInv
  <2> QED
    BY <2>2, <2>3, Zenon DEF ComposedInv, Composed
<1> QED
  BY <1>1, <1>2 DEF Moves

LEMMA BindingsKept ==
  ASSUME BindingsInv, UNCHANGED bindings
  PROVE  BindingsMerge
  BY DEF BindingsInv, BindingsMerge

LEMMA CronsKept ==
  ASSUME CronsInv, UNCHANGED crons
  PROVE  CronsInv' /\ CronsMerge
  BY DEF CronsInv, CronsMerge

LEMMA OrderKept ==
  ASSUME OrderInv, UNCHANGED assigned
  PROVE  OrderInv' /\ StaysOrdered
  BY DEF OrderInv, StaysOrdered, Ordered, Assigned

LEMMA BindingsEdited ==
  ASSUME EditsInv, Moves, UNCHANGED <<crons, assigned>>, BindingsInv', BindingsMerge
  PROVE  Sound
  BY ComposedStays, CronsKept, OrderKept DEF EditsInv, Sound

LEMMA CronsEdited ==
  ASSUME EditsInv, Moves, UNCHANGED <<bindings, rows, assigned>>, CronsInv', CronsMerge
  PROVE  Sound
<1>1. BindingsInv'
  BY DEF EditsInv, BindingsInv
<1> QED
  BY <1>1, ComposedStays, BindingsKept, OrderKept DEF EditsInv, Sound

LEMMA OrderEdited ==
  ASSUME EditsInv, Moves, UNCHANGED <<bindings, crons>>, rows' \in Nat, rows <= rows',
         OrderInv', StaysOrdered
  PROVE  Sound
<1>1. BindingsInv'
  BY DEF EditsInv, BindingsInv, BindingRow
<1> QED
  BY <1>1, ComposedStays, BindingsKept, CronsKept DEF EditsInv, Sound

LEMMA Unedited ==
  ASSUME EditsInv, Moves, UNCHANGED <<bindings, rows, crons, assigned>>
  PROVE  Sound
<1>1. BindingsInv'
  BY DEF EditsInv, BindingsInv
<1> QED
  BY <1>1, ComposedStays, BindingsKept, CronsKept, OrderKept DEF EditsInv, Sound

LEMMA BeginsUnedited ==
  ASSUME EditsInv, NEW r \in Requests, NEW q, Composed(q), req' = [req EXCEPT ![r] = q],
         UNCHANGED <<bindings, rows, crons, assigned>>
  PROVE  Sound
<1>1. Moves
  BY DEF Moves
<1> QED
  BY <1>1, Unedited

-----------------------------------------------------------------------------
LEMMA InitEdits == Init => EditsInv
<1> SUFFICES ASSUME Init PROVE EditsInv
  OBVIOUS
<1>0. EndpointInit
  BY DEF Init
<1>1. BindingsInv
  BY <1>0 DEF EndpointInit, BindingsInv
<1>2. CronsInv
  BY FS_EmptySet DEF Init, ScheduleInit, CronsInv
<1>3. OrderInv
  <2>1. PICK live \in SUBSET (IF "policies" \in area THEN Policies ELSE {}) :
          default \in (IF live = {} THEN {None} ELSE live)
    BY <1>0 DEF EndpointInit
  <2>2. {default} \ {None} \subseteq Policies
    BY <2>1
  <2>3. assigned = [p \in {default} \ {None} |-> [position |-> 0, row |-> 1]]
    BY <1>0 DEF EndpointInit
  <2> QED
    BY <2>2, <2>3 DEF OrderInv, Assigned
<1>4. ComposedInv
  BY ComposedIdle DEF Init, RequestsInit, ComposedInv
<1> QED
  BY <1>1, <1>2, <1>3, <1>4 DEF EditsInv

LEMMA DraftsUnedited ==
  ASSUME EditsInv, DraftsNext, UNCHANGED <<bindings, rows, crons, assigned>>
  PROVE  Sound
<1> SUFFICES Moves
  BY Unedited
<1>1. CASE \/ \E f \in Functions, c \in Codes : CreateFunction(f, c) \/ CreateFunctionByMcp(f, c)
           \/ \E s \in Secrets : \/ SyncSecret(s) \/ CreateSecretByMcp(s)
                                 \/ \E e \in Environments : CreateSecret(s, e)
           \/ \E c \in Connections, s \in secrets : CreateConnection(c, s)
           \/ \E row \in connections : DisableConnection(row)
  BY <1>1 DEF CreateFunction, CreateFunctionByMcp, SyncSecret, CreateSecretByMcp, CreateSecret,
              CreateConnection, DisableConnection, AtOnce, Moves
<1>2. ASSUME NEW r \in Requests,
             \/ Patch(r) \/ PatchFails(r) \/ Edit(r) \/ EditConflicts(r) \/ CreateLibrary(r)
             \/ LibraryFails(r) \/ DeleteSecret(r) \/ DeleteSecretFails(r) \/ SetGrants(r)
      PROVE  Moves
  <2>1. req' = [req EXCEPT ![r] = Idle]
    BY <1>2 DEF Patch, PatchFails, Edit, EditConflicts, CreateLibrary, LibraryFails, DeleteSecret,
                DeleteSecretFails, SetGrants, Fails, End
  <2> QED
    BY <2>1, ComposedIdle DEF Moves
<1>3. ASSUME NEW r \in Requests, NEW about, NEW q, Begin(r, about, q),
             q.op \in {"edit", "patch", "library", "delete_secret", "grants"}
      PROVE  Moves
  BY <1>3 DEF Moves, Composed, Begin
<1>4. ASSUME NEW r \in Requests, NEW f \in Functions, NEW c,
             EditRead(r, f, c) \/ \E g : PatchRead(r, f, c, g)
      PROVE  Moves
  <2>1. CASE EditRead(r, f, c)
    BY <2>1, <1>3 DEF EditRead
  <2>2. CASE \E g : PatchRead(r, f, c, g)
    BY <2>2, <1>3 DEF PatchRead
  <2> QED
    BY <1>4, <2>1, <2>2
<1>5. ASSUME NEW r \in Requests, NEW l \in Libraries, NEW c,
             LibraryRead(r, l, c) \/ LibraryReadByMcp(r, l, c)
      PROVE  Moves
  <2>1. \E v : Begin(r, "libraries", [op |-> "library", of |-> l, code |-> c, version |-> v])
    BY <1>5 DEF LibraryRead, LibraryReadByMcp
  <2> QED
    BY <2>1, <1>3
<1>6. ASSUME NEW r \in Requests,
             \/ \E s \in Secrets : \/ DeleteSecretsRead(r, s) \/ DeleteSecretsReadByMcp(r, s)
                                    \/ \E e \in Environments : DeleteSecretRead(r, s, e)
             \/ \E f \in Functions, names \in SUBSET Named : GrantsRead(r, f, names)
      PROVE  Moves
  <2>1. ASSUME NEW s, NEW some, DeletionRead(r, s, some) PROVE Moves
    BY <2>1, <1>3 DEF DeletionRead
  <2>2. ASSUME NEW f, NEW names, GrantsRead(r, f, names) PROVE Moves
    BY <2>2, <1>3 DEF GrantsRead
  <2> QED
    BY <1>6, <2>1, <2>2 DEF DeleteSecretsRead, DeleteSecretsReadByMcp, DeleteSecretRead
<1> QED
  BY <1>1, <1>2, <1>4, <1>5, <1>6 DEF DraftsNext

LEMMA QueriesUnedited ==
  ASSUME EditsInv, QueryNext, UNCHANGED <<bindings, rows, crons, assigned>>
  PROVE  Sound
<1> SUFFICES Moves
  BY Unedited
<1>1. CASE \/ \E d \in Definitions, v \in Numbers : DisableQueryVersion(d, v)
           \/ \E g \in queryGrants : RevokeQuery(g)
  BY <1>1 DEF DisableQueryVersion, RevokeQuery, AtOnce, Moves
<1>2. ASSUME NEW r \in Requests, CreateQueryVersion(r) \/ QueryFails(r) \/ GrantQuery(r)
      PROVE  Moves
  <2>1. req' = [req EXCEPT ![r] = Idle]
    BY <1>2 DEF CreateQueryVersion, QueryFails, GrantQuery, Fails, End
  <2> QED
    BY <2>1, ComposedIdle DEF Moves
<1>3. ASSUME NEW r \in Requests, NEW q, Begin(r, "database", q), q.op \in {"query", "grant_query"}
      PROVE  Moves
  BY <1>3 DEF Moves, Composed, Begin
<1>4. ASSUME NEW r \in Requests, NEW d, NEW c, QueryRead(r, d, c) \/ QueryVersionRead(r, d, c)
      PROVE  Moves
  <2>1. \E v : Begin(r, "database", [op |-> "query", of |-> d, code |-> c, version |-> v])
    BY <1>4 DEF QueryRead, QueryVersionRead
  <2> QED
    BY <2>1, <1>3
<1>5. ASSUME NEW r \in Requests, NEW f, NEW d, NEW v, GrantQueryRead(r, f, d, v)
      PROVE  Moves
  BY <1>5, <1>3 DEF GrantQueryRead
<1> QED
  BY <1>1, <1>2, <1>4, <1>5 DEF QueryNext

-----------------------------------------------------------------------------
(* Bindings. *)
LEMMA CreatesBinding ==
  ASSUME EditsInv, Moves, UNCHANGED <<crons, assigned>>, rows' = rows + 1,
         NEW f \in Functions, NEW key \in Keys, NEW text \in Texts,
         bindings' = bindings \cup {[id |-> rows + 1, key |-> key, fn |-> f, text |-> text]}
  PROVE  Sound
<1> DEFINE new == [id |-> rows + 1, key |-> key, fn |-> f, text |-> text]
<1>1. /\ rows \in Nat /\ new \in BindingRow /\ new.id = rows + 1
      /\ \A b \in bindings : b.id \in Nat /\ b.id <= rows /\ b.id # new.id
  BY DEF EditsInv, BindingsInv, BindingRow
<1>2. bindings' = bindings \cup {new}
  OBVIOUS
<1> HIDE DEF new
<1>3. BindingsInv'
  BY <1>1, <1>2 DEF EditsInv, BindingsInv
<1>4. BindingsMerge
  BY <1>1, <1>2 DEF EditsInv, BindingsInv, BindingsMerge
<1> QED
  BY <1>3, <1>4, BindingsEdited

LEMMA WritesBinding ==
  ASSUME EditsInv, NEW r \in Requests, WriteBinding(r), UNCHANGED crons
  PROVE  Sound
<1> DEFINE q == req[r]
<1>1. /\ q.op \in {"patch_binding", "edit_binding"} /\ Composed(q) /\ rows' = rows
      /\ bindings' = (bindings \ Written(q)) \cup {Rewritten(q, b) : b \in Written(q)}
      /\ req' = [req EXCEPT ![r] = Idle] /\ UNCHANGED assigned
  BY DEF WriteBinding, EditsInv, ComposedInv, End, policyVars
<1>2. Moves /\ req'[r] = Idle
  BY <1>1, ComposedIdle DEF Moves, EditsInv, ComposedInv
<1>3. /\ q.read \in BindingRow /\ q.candidate \in BindingRow /\ q.field \in BindingFields
      /\ q.candidate = [q.read EXCEPT ![q.field] = q.value]
      /\ \A b \in BindingRow : [b EXCEPT ![q.field] = q.value] \in BindingRow
  BY <1>1 DEF Composed
<1>4. \A b \in Written(q) : b \in bindings /\ b \in BindingRow /\ b.id = q.read.id
  BY DEF Written, EditsInv, BindingsInv
<1>5. \A b \in BindingRow : /\ [b EXCEPT ![q.field] = q.value].id = b.id
                            /\ \A field \in BindingFields :
                                 field # q.field => [b EXCEPT ![q.field] = q.value][field] = b[field]
  BY <1>3 DEF BindingRow, BindingFields
<1>6. \A b \in Written(q) : Rewritten(q, b) \in BindingRow /\ Rewritten(q, b).id = b.id
  BY <1>3, <1>4, <1>5 DEF Rewritten
<1>7. ASSUME NEW b \in Written(q), NEW field \in BindingFields, Rewritten(q, b)[field] # b[field]
      PROVE  Asked(r, b, field)
  <2>1. CASE q.op = "patch_binding"
    BY <1>3, <1>4, <1>5, <1>7, <2>1 DEF Rewritten, Asked
  <2>2. CASE q.op = "edit_binding"
    BY <1>3, <1>4, <1>5, <1>7, <2>2 DEF Rewritten, Asked
  <2> QED
    BY <1>1, <2>1, <2>2
<1>8. \A c \in bindings' : \/ c \in bindings /\ c.id # q.read.id
                           \/ \E b \in Written(q) : c = Rewritten(q, b)
  BY <1>1 DEF Written
<1>9. BindingsInv'
  <2>1. bindings' \subseteq BindingRow /\ rows' \in Nat /\ \A b \in bindings' : b.id <= rows'
    BY <1>1, <1>4, <1>6, <1>8 DEF EditsInv, BindingsInv
  <2>2. \A b, c \in bindings' : b.id = c.id => b = c
    BY <1>4, <1>6, <1>8 DEF EditsInv, BindingsInv
  <2> QED
    BY <2>1, <2>2 DEF BindingsInv
<1>10. BindingsMerge
  BY <1>2, <1>4, <1>6, <1>7, <1>8 DEF BindingsMerge, EditsInv, BindingsInv
<1> QED
  BY <1>1, <1>2, <1>9, <1>10, BindingsEdited

LEMMA DeletesBinding ==
  ASSUME EditsInv, NEW b, DeleteBinding(b), UNCHANGED crons
  PROVE  Sound
<1>1. Moves /\ rows' = rows /\ UNCHANGED assigned /\ bindings' = bindings \ {b}
  BY DEF DeleteBinding, AtOnce, Moves, policyVars
<1>2. BindingsInv'
  BY <1>1 DEF EditsInv, BindingsInv
<1>3. BindingsMerge
  BY <1>1 DEF EditsInv, BindingsInv, BindingsMerge
<1> QED
  BY <1>1, <1>2, <1>3, BindingsEdited

LEMMA ReadsBinding ==
  ASSUME EditsInv, UNCHANGED crons,
         NEW r \in Requests, NEW op \in {"patch_binding", "edit_binding"},
         NEW b \in bindings, NEW field \in BindingFields, NEW v,
         v \in (CASE field = "key" -> Keys [] field = "fn" -> Functions [] OTHER -> Texts),
         BindingRead(r, op, b, field, v)
  PROVE  Sound
<1> DEFINE q == [op |-> op, read |-> b, field |-> field, value |-> v,
                 candidate |-> [b EXCEPT ![field] = v]]
<1>1. /\ b \in BindingRow /\ req' = [req EXCEPT ![r] = q]
      /\ UNCHANGED <<bindings, rows, crons, assigned>>
  BY DEF BindingRead, Begin, EditsInv, BindingsInv, endpointVars, policyVars
<1>2. ASSUME NEW c \in BindingRow PROVE [c EXCEPT ![field] = v] \in BindingRow
  <2>1. CASE field = "key"
    BY <2>1 DEF BindingRow
  <2>2. CASE field = "fn"
    BY <2>2 DEF BindingRow
  <2>3. CASE field = "text"
    BY <2>3 DEF BindingRow
  <2> QED
    BY <2>1, <2>2, <2>3 DEF BindingFields
<1>3. /\ q.op = op /\ q.read = b /\ q.field = field /\ q.value = v
      /\ q.candidate = [b EXCEPT ![field] = v]
  OBVIOUS
<1>4. Composed(q)
  <2> HIDE DEF q
  <2> QED
    BY <1>1, <1>2, <1>3 DEF Composed
<1> QED
  BY <1>1, <1>4, BeginsUnedited

LEMMA ReadsBindings ==
  ASSUME EditsInv, UNCHANGED crons, NEW r \in Requests,
         \/ \E ks \in SUBSET Keys : \E d \in [ks -> Functions] : \E p : ManifestRead(r, d, p)
         \/ \E f \in Functions, key \in Keys : \E g, p : TemplateRead(r, f, g, key, p)
  PROVE  Sound
<1>1. ASSUME NEW ks \in SUBSET Keys, NEW d \in [ks -> Functions], NEW p, ManifestRead(r, d, p)
      PROVE  Sound
  <2> DEFINE q == [op |-> "manifest", desired |-> d, default |-> p, read |-> bindings]
  <2>1. Composed(q)
    BY <1>1 DEF Composed
  <2> QED
    BY <1>1, <2>1, BeginsUnedited DEF ManifestRead, Begin, endpointVars, policyVars
<1>2. ASSUME NEW f \in Functions, NEW g, NEW key \in Keys, NEW p, TemplateRead(r, f, g, key, p)
      PROVE  Sound
  <2> DEFINE q == [op |-> "template", of |-> f, granted |-> g, key |-> key, default |-> p]
  <2>1. Composed(q)
    BY DEF Composed
  <2> QED
    BY <1>2, <2>1, BeginsUnedited DEF TemplateRead, Begin, endpointVars, policyVars
<1> QED
  BY <1>1, <1>2

LEMMA EndsUnedited ==
  ASSUME EditsInv, NEW r \in Requests, End(r), UNCHANGED <<bindings, rows, crons, assigned>>
  PROVE  Sound
  BY BeginsUnedited, ComposedIdle DEF End

LEMMA AppliesManifest ==
  ASSUME EditsInv, UNCHANGED crons, NEW r \in Requests, NEW text \in Texts, NEW ids,
         ApplyManifest(r, text, ids)
  PROVE  Sound
<1> DEFINE q == req[r]
           kept == bindings \ Undesired(q)
           added == DOMAIN q.desired \ KeysOf(kept)
           Again(b) == IF b.key \in DOMAIN q.desired
                         THEN [b EXCEPT !.fn = q.desired[b.key], !.text = text] ELSE b
           New(key) == [id |-> ids[key], key |-> key, fn |-> q.desired[key], text |-> text]
<1>1. /\ q.op = "manifest" /\ ids \in [added -> rows + 1 .. rows + Cardinality(added)]
      /\ \A j, k \in added : ids[j] = ids[k] => j = k
      /\ bindings' = {Again(b) : b \in kept} \cup {New(key) : key \in added}
      /\ rows' = rows + Cardinality(added)
      /\ req' = [req EXCEPT ![r] = Idle] /\ UNCHANGED assigned
  BY DEF ApplyManifest, End
<1>2. Moves /\ req'[r] = Idle
  BY <1>1, ComposedIdle DEF Moves, EditsInv, ComposedInv
<1>3. q.desired \in [DOMAIN q.desired -> Functions] /\ DOMAIN q.desired \subseteq Keys
  BY <1>1 DEF EditsInv, ComposedInv, Composed
<1>4. Cardinality(added) \in Nat
  <2>1. added \in SUBSET Keys
    BY <1>3
  <2> HIDE DEF added
  <2>2. IsFiniteSet(added)
    BY <2>1, EndpointAssumption, FS_Subset DEF EndpointAssumption
  <2> QED
    BY <2>2, FS_CardinalityType
<1>5. rows \in Nat /\ \A b \in kept : b \in BindingRow /\ b \in bindings /\ b.id <= rows
  BY DEF EditsInv, BindingsInv
<1>6. \A b \in kept : Again(b) \in BindingRow /\ Again(b).id = b.id
  BY <1>3, <1>5 DEF BindingRow
<1>7. \A key \in added : /\ New(key).id = ids[key]
                         /\ ids[key] \in Int /\ rows < ids[key] /\ ids[key] <= rows'
  <2>1. \A key \in added : ids[key] \in rows + 1 .. rows + Cardinality(added)
    BY <1>1
  <2>2. \A key \in added : New(key).id = ids[key]
    OBVIOUS
  <2>3. rows' = rows + Cardinality(added) /\ rows \in Nat
    BY <1>1, <1>5
  <2> HIDE DEF added, New
  <2>4. \A key \in added : ids[key] \in Int /\ rows < ids[key] /\ ids[key] <= rows'
    BY <1>4, <2>1, <2>3
  <2> QED
    BY <2>2, <2>4
<1>8. \A key \in added : New(key) \in BindingRow
  BY <1>3, <1>5, <1>7 DEF BindingRow
<1>9. \A c \in bindings' : \/ \E b \in kept : c = Again(b)
                           \/ \E key \in added : c = New(key)
  BY <1>1
<1>10. rows' \in Nat /\ rows <= rows' /\ \A b \in kept : b.id \in Nat
  <2>1. rows' = rows + Cardinality(added) /\ \A b \in kept : b.id \in Nat
    BY <1>1, <1>5 DEF BindingRow
  <2> HIDE DEF added, kept
  <2> QED
    BY <1>4, <1>5, <2>1
<1> HIDE DEF kept, added, Again, New
<1>11. BindingsInv'
  <2>1. bindings' \subseteq BindingRow
    BY <1>6, <1>8, <1>9
  <2>2. \A c \in bindings' : c.id <= rows'
    BY <1>5, <1>6, <1>7, <1>9, <1>10
  <2>3. \A b, c \in bindings' : b.id = c.id => b = c
    <3>1. \A b, c \in kept : b.id = c.id => b = c
      BY <1>5 DEF EditsInv, BindingsInv
    <3> QED
      BY <1>1, <1>5, <1>6, <1>7, <1>9, <1>10, <3>1
  <2> QED
    BY <1>10, <2>1, <2>2, <2>3 DEF BindingsInv
<1>12. BindingsMerge
  <2>1. \A b, field : Asked(r, b, field)
    BY <1>1 DEF Asked
  <2> QED
    BY <1>2, <2>1 DEF BindingsMerge
<1> QED
  BY <1>1, <1>2, <1>11, <1>12, BindingsEdited

LEMMA InstallsTemplate ==
  ASSUME EditsInv, UNCHANGED crons, NEW r \in Requests, NEW code, NEW text \in Texts,
         InstallTemplate(r, code, text)
  PROVE  Sound
<1>1. req[r].of \in Functions /\ req[r].key \in Keys
  BY DEF InstallTemplate, EditsInv, ComposedInv, Composed
<1>2. Moves
  BY ComposedIdle DEF InstallTemplate, End, Moves
<1> QED
  BY <1>1, <1>2, CreatesBinding DEF InstallTemplate

LEMMA BindingsSound ==
  ASSUME EditsInv, BindingsNext, UNCHANGED crons
  PROVE  Sound
<1>1. ASSUME NEW f \in Functions, NEW key \in Keys, NEW text \in Texts,
             CreateBinding(f, key, text) \/ CreateBindingByMcp(f, key, text)
      PROVE  Sound
  BY <1>1, CreatesBinding DEF CreateBinding, CreateBindingByMcp, AtOnce, Moves, policyVars
<1>2. ASSUME NEW b \in bindings, DeleteBinding(b) PROVE Sound
  BY <1>2, DeletesBinding
<1>3. ASSUME NEW r \in Requests, NEW b \in bindings, NEW field \in BindingFields, NEW v,
             v \in (CASE field = "key" -> Keys [] field = "fn" -> Functions [] OTHER -> Texts),
             PatchBindingRead(r, b, field, v) \/ EditBindingRead(r, b, field, v)
      PROVE  Sound
  BY <1>3, ReadsBinding DEF PatchBindingRead, EditBindingRead
<1>4. ASSUME NEW r \in Requests, BindingFails(r) \/ ManifestFails(r) \/ TemplateFails(r)
      PROVE  Sound
  BY <1>4, EndsUnedited DEF BindingFails, ManifestFails, TemplateFails, Fails, endpointVars, policyVars
<1>5. ASSUME NEW r \in Requests, WriteBinding(r) PROVE Sound
  BY <1>5, WritesBinding
<1>6. ASSUME NEW r \in Requests,
             \/ \E ks \in SUBSET Keys : \E d \in [ks -> Functions], p \in Policies \cup {None} :
                  ManifestRead(r, d, p)
             \/ \E f \in Functions, g \in SUBSET Named, key \in Keys, p \in Policies \cup {None} :
                  TemplateRead(r, f, g, key, p)
      PROVE  Sound
  <2>1. CASE \E ks \in SUBSET Keys : \E d \in [ks -> Functions], p \in Policies \cup {None} :
               ManifestRead(r, d, p)
    BY <2>1, ReadsBindings, Zenon
  <2>2. CASE \E f \in Functions, g \in SUBSET Named, key \in Keys, p \in Policies \cup {None} :
               TemplateRead(r, f, g, key, p)
    <3>1. PICK f \in Functions, g \in SUBSET Named, key \in Keys, p \in Policies \cup {None} :
            TemplateRead(r, f, g, key, p)
      BY <2>2
    <3> QED
      BY <3>1, ReadsBindings, Zenon
  <2> QED
    BY <1>6, <2>1, <2>2
<1>7. ASSUME NEW r \in Requests, NEW text \in Texts,
             \/ \E ids : ApplyManifest(r, text, ids)
             \/ \E code : InstallTemplate(r, code, text)
      PROVE  Sound
  BY <1>7, AppliesManifest, InstallsTemplate
<1> QED
  BY <1>1, <1>2, <1>3, <1>4, <1>5, <1>6, <1>7 DEF BindingsNext, BindingFields

-----------------------------------------------------------------------------
(* Cron bindings. *)
LEMMA CreatesCron ==
  ASSUME EditsInv, Moves, UNCHANGED <<bindings, rows, assigned>>,
         NEW row \in CronRow, row.id = Cardinality(crons) + 1, crons' = crons \cup {row}
  PROVE  Sound
<1>1. IsFiniteSet(crons) /\ Cardinality(crons) \in Nat
  BY FS_CardinalityType DEF EditsInv, CronsInv
<1>2. \A c \in crons : c \in CronRow /\ c.id \in Nat /\ c.id <= Cardinality(crons) /\ c.id # row.id
  BY <1>1 DEF EditsInv, CronsInv, CronRow
<1>3. IsFiniteSet(crons') /\ Cardinality(crons') = Cardinality(crons) + 1
  BY <1>1, <1>2, FS_AddElement
<1>4. CronsInv'
  <2>1. \A c \in crons' : c.id <= Cardinality(crons')
    BY <1>1, <1>2, <1>3
  <2> QED
    BY <1>2, <1>3, <2>1 DEF EditsInv, CronsInv
<1>5. CronsMerge
  BY <1>2 DEF EditsInv, CronsInv, CronsMerge
<1> QED
  BY <1>4, <1>5, CronsEdited

(* Cron bindings exchanged one for one under their ids. *)
LEMMA ExchangesCrons ==
  ASSUME EditsInv, Moves, UNCHANGED <<bindings, rows, assigned>>,
         NEW f, f \in [crons -> CronRow], \A c \in crons : f[c].id = c.id,
         crons' = {f[c] : c \in crons},
         \A c \in crons :
           /\ c.deleted => f[c].deleted
           /\ \A field \in CronFields :
                f[c][field] # c[field] =>
                  \/ field = "enabled" /\ f[c].deleted # c.deleted
                  \/ \E r \in Requests : AskedCron(r, c, field) /\ req'[r] = Idle
  PROVE  Sound
<1> DEFINE some == crons'
<1>1. IsFiniteSet(crons) /\ \A b, c \in crons : b.id = c.id => b = c
  BY DEF EditsInv, CronsInv
<1>2. \A c \in some : \E b \in crons : c = f[b]
  OBVIOUS
<1>3. f \in [crons -> some] /\ \A b \in crons : f[b] \in some
  OBVIOUS
<1>4. \A b, c \in crons : f[b] = f[c] => b = c
  BY <1>1
<1>5. some \subseteq CronRow
  OBVIOUS
<1> HIDE DEF some
<1>6. f \in Bijection(crons, some)
  BY <1>2, <1>3, <1>4, Fun_IsBij, Zenon
<1>7. IsFiniteSet(some) /\ Cardinality(some) = Cardinality(crons)
  BY <1>1, <1>6, FS_Bijection DEF ExistsBijection
<1>8. \A b, c \in some : b.id = c.id => b = c
  BY <1>1, <1>2
<1>9. \A c \in some : c.id <= Cardinality(some)
  BY <1>2, <1>7 DEF EditsInv, CronsInv
<1>10. some = crons'
  BY DEF some
<1>11. CronsInv'
  BY <1>5, <1>7, <1>8, <1>9, <1>10 DEF CronsInv
<1>12. CronsMerge
  <2>1. ASSUME NEW b \in crons, NEW c \in crons', c.id = b.id PROVE c = f[b]
    BY <1>1, <1>2, <1>10, <2>1
  <2>2. ASSUME NEW b \in crons, NEW c \in crons', c.id = b.id
        PROVE  /\ b.deleted => c.deleted
               /\ \A field \in CronFields :
                    c[field] # b[field] =>
                      \/ field = "enabled" /\ c.deleted # b.deleted
                      \/ \E r \in Requests : AskedCron(r, b, field) /\ req'[r] = Idle
    <3>1. c = f[b]
      BY <2>1, <2>2
    <3> QED
      BY <3>1, Zenon
  <2> QED
    BY <2>2, Zenon DEF CronsMerge
<1> QED
  BY <1>11, <1>12, CronsEdited

LEMMA ReadsCron ==
  ASSUME EditsInv, UNCHANGED <<bindings, rows, assigned>>, NEW r \in Requests,
         NEW c \in crons, NEW field \in CronFields, NEW v \in ValuesOf(field),
         CronRead(r, c, field, v)
  PROVE  Sound
<1> DEFINE merged == [c EXCEPT ![field] = v]
           q == [op |-> "cron", read |-> c, field |-> field, merged |-> merged]
<1>1. c \in CronRow
  BY DEF EditsInv, CronsInv
<1>2. /\ merged \in CronRow /\ merged.id = c.id
      /\ \A other \in CronFields : other # field => merged[other] = c[other]
  <2>1. CASE field = "env"
    BY <1>1, <2>1 DEF CronRow, CronFields, ValuesOf
  <2>2. CASE field = "name"
    BY <1>1, <2>2 DEF CronRow, CronFields, ValuesOf
  <2>3. CASE field = "fn"
    BY <1>1, <2>3 DEF CronRow, CronFields, ValuesOf
  <2>4. CASE field = "schedule"
    BY <1>1, <2>4 DEF CronRow, CronFields, ValuesOf
  <2>5. CASE field = "enabled"
    BY <1>1, <2>5 DEF CronRow, CronFields, ValuesOf
  <2> QED
    BY <2>1, <2>2, <2>3, <2>4, <2>5 DEF CronFields
<1>3. req' = [req EXCEPT ![r] = q] /\ UNCHANGED crons
  BY DEF CronRead, Begin
<1>4. Composed(q)
  <2>1. q.op = "cron" /\ q.read = c /\ q.field = field /\ q.merged = merged
    OBVIOUS
  <2> HIDE DEF q, merged
  <2> QED
    BY <1>1, <1>2, <2>1 DEF Composed
<1> QED
  BY <1>3, <1>4, BeginsUnedited

LEMMA WritesCron ==
  ASSUME EditsInv, UNCHANGED <<bindings, rows, assigned>>, NEW r \in Requests, WriteCron(r)
  PROVE  Sound
<1> DEFINE q == req[r]
           f == [c \in crons |-> IF c.id = q.read.id THEN Merged(q, c) ELSE c]
<1>1. /\ q.op = "cron" /\ req' = [req EXCEPT ![r] = Idle]
      /\ crons' = {f[c] : c \in crons}
  BY DEF WriteCron, End
<1>2. Moves /\ req'[r] = Idle
  BY <1>1, ComposedIdle DEF Moves, EditsInv, ComposedInv
<1>3. /\ q.read \in CronRow /\ q.merged \in CronRow /\ q.field \in CronFields
      /\ q.merged.id = q.read.id
      /\ \A field \in CronFields : field # q.field => q.merged[field] = q.read[field]
  BY <1>1 DEF EditsInv, ComposedInv, Composed
<1>4. \A c \in crons : c \in CronRow
  BY DEF EditsInv, CronsInv
<1>5. \A c \in CronRow : /\ Merged(q, c) \in CronRow /\ Merged(q, c).id = q.merged.id
                         /\ Merged(q, c).deleted = c.deleted
                         /\ \A field \in CronFields : Merged(q, c)[field] = q.merged[field]
  BY <1>3 DEF Merged, CronRow, CronFields
<1>6. \A c \in crons : f[c] = IF c.id = q.read.id THEN Merged(q, c) ELSE c
  OBVIOUS
<1>7. f \in [crons -> CronRow]
  BY <1>4, <1>5
<1> HIDE DEF f
<1>8. ASSUME NEW c \in crons
      PROVE  /\ f[c].id = c.id /\ (c.deleted => f[c].deleted)
             /\ \A field \in CronFields :
                  f[c][field] # c[field] => AskedCron(r, c, field)
  BY <1>1, <1>3, <1>4, <1>5, <1>6 DEF AskedCron
<1> QED
  BY <1>1, <1>2, <1>7, <1>8, ExchangesCrons

LEMMA DeletesCron ==
  ASSUME EditsInv, UNCHANGED <<bindings, rows, assigned>>, NEW c \in crons, DeleteCron(c)
  PROVE  Sound
<1> DEFINE gone == [c EXCEPT !.enabled = FALSE, !.deleted = TRUE]
           f == [b \in crons |-> IF b = c THEN gone ELSE b]
<1>1. Moves /\ ~c.deleted /\ crons' = (crons \ {c}) \cup {gone}
  BY DEF DeleteCron, AtOnce, Moves
<1>2. \A b \in crons : b \in CronRow
  BY DEF EditsInv, CronsInv
<1>3. /\ gone \in CronRow /\ gone.id = c.id /\ gone.deleted = TRUE
      /\ \A field \in CronFields : field # "enabled" => gone[field] = c[field]
  BY <1>2 DEF CronRow, CronFields
<1>4. \A b \in crons : f[b] = IF b = c THEN gone ELSE b
  OBVIOUS
<1>5. f \in [crons -> CronRow]
  BY <1>2, <1>3
<1>6. crons' = {f[b] : b \in crons}
  BY <1>1, <1>4
<1> HIDE DEF f, gone
<1>7. \A b \in crons : f[b].id = b.id /\ (b.deleted => f[b].deleted)
  BY <1>3, <1>4
<1>8. \A b \in crons : \A field \in CronFields :
        f[b][field] # b[field] => field = "enabled" /\ f[b].deleted # b.deleted
  BY <1>1, <1>3, <1>4
<1>9. \A b \in crons :
        /\ b.deleted => f[b].deleted
        /\ \A field \in CronFields :
             f[b][field] # b[field] =>
               \/ field = "enabled" /\ f[b].deleted # b.deleted
               \/ \E r \in Requests : AskedCron(r, b, field) /\ req'[r] = Idle
  BY <1>7, <1>8, Zenon
<1>10. \A b \in crons : f[b].id = b.id
  BY <1>7
<1> QED
  BY <1>1, <1>5, <1>6, <1>9, <1>10, ExchangesCrons

LEMMA CronsSound ==
  ASSUME EditsInv, ScheduleNext, UNCHANGED endpointVars
  PROVE  Sound
<1>0. UNCHANGED <<bindings, rows, assigned>>
  BY DEF endpointVars, policyVars
<1>1. ASSUME NEW env \in Environments, NEW name \in Names, NEW f \in Functions,
             NEW s \in Schedules, NEW on \in BOOLEAN, CreateCron(env, name, f, s, on)
      PROVE  Sound
  <2> DEFINE row == [id |-> Cardinality(crons) + 1, env |-> env, name |-> name, fn |-> f,
                     schedule |-> s, enabled |-> on, deleted |-> FALSE]
  <2>1. Moves /\ crons' = crons \cup {row}
    BY <1>1 DEF CreateCron, AtOnce, Moves
  <2>2. Cardinality(crons) \in Nat
    BY FS_CardinalityType DEF EditsInv, CronsInv
  <2>3. row \in CronRow /\ row.id = Cardinality(crons) + 1
    BY <2>2 DEF CronRow
  <2> QED
    BY <1>0, <2>1, <2>3, CreatesCron
<1>2. ASSUME NEW c \in crons, DeleteCron(c) PROVE Sound
  BY <1>0, <1>2, DeletesCron
<1>3. ASSUME NEW r \in Requests, NEW c \in crons, NEW field \in CronFields,
             NEW v \in ValuesOf(field), PatchCronRead(r, c, field, v) \/ EditCronRead(r, c, field, v)
      PROVE  Sound
  BY <1>0, <1>3, ReadsCron DEF PatchCronRead, EditCronRead
<1>4. ASSUME NEW r \in Requests, WriteCron(r) PROVE Sound
  BY <1>0, <1>4, WritesCron
<1>5. ASSUME NEW r \in Requests, CronFails(r) PROVE Sound
  BY <1>0, <1>5, EndsUnedited DEF CronFails, Fails
<1> QED
  BY <1>1, <1>2, <1>3, <1>4, <1>5 DEF ScheduleNext, CreateCronByMcp, DeleteCronByMcp

-----------------------------------------------------------------------------
(* The order of the policies. *)
LEMMA LeastOf ==
  ASSUME NEW T, T \subseteq Nat, T # {}
  PROVE  \E n \in T : \A m \in T : n <= m
<1> DEFINE R == OpToRel(<, Nat)
<1>1. IsWellFoundedOn(R, Nat)
  BY NatLessThanWellFounded
<1>2. \A a, b \in Nat : a < b => <<a, b>> \in R
  BY DEF OpToRel
<1> HIDE DEF R
<1>3. PICK n \in T : \A m \in T : ~ (<<m, n>> \in R)
  BY <1>1, WFMin
<1>4. \A m \in T : n \in Nat /\ m \in Nat /\ ~ (m < n)
  BY <1>2, <1>3
<1> QED
  BY <1>4

\* The numbers of T above n.
Above(T, n) == {m \in T : n < m}

(* A finite set of numbers has a highest: the one with the fewest above it. *)
LEMMA HighestOf ==
  ASSUME NEW T, T \subseteq Nat, T # {}, IsFiniteSet(T)
  PROVE  \E n \in T : \A m \in T : m <= n
<1> DEFINE Counts == {Cardinality(Above(T, n)) : n \in T}
<1>1. ASSUME NEW n \in T
      PROVE  IsFiniteSet(Above(T, n)) /\ Cardinality(Above(T, n)) \in Nat
  <2>1. Above(T, n) \in SUBSET T
    BY DEF Above
  <2>2. IsFiniteSet(Above(T, n))
    BY <2>1, FS_Subset
  <2> QED
    BY <2>2, FS_CardinalityType
<1>2. Counts \subseteq Nat /\ Counts # {}
  BY <1>1
<1>3. PICK least \in Counts : \A count \in Counts : least <= count
  BY <1>2, LeastOf
<1>4. PICK n \in T : least = Cardinality(Above(T, n))
  OBVIOUS
<1>5. ASSUME NEW m \in T, n < m PROVE FALSE
  <2> HIDE DEF Counts
  <2>0. n \in Nat /\ m \in Nat /\ ~ (m < m) /\ \A k \in T : k \in Nat /\ (m < k => n < k)
    BY <1>5
  <2>1. Above(T, m) \in SUBSET Above(T, n) /\ m \in Above(T, n) /\ m \notin Above(T, m)
    <3>1. Above(T, m) \subseteq Above(T, n)
      BY <2>0 DEF Above
    <3>2. m \in Above(T, n) /\ m \notin Above(T, m)
      BY <1>5, <2>0 DEF Above
    <3> QED
      BY <3>1, <3>2
  <2>2. /\ Cardinality(Above(T, m)) <= Cardinality(Above(T, n))
        /\ Cardinality(Above(T, m)) # Cardinality(Above(T, n))
    BY <1>1, <2>1, FS_Subset
  <2>3. Cardinality(Above(T, n)) <= Cardinality(Above(T, m))
    BY <1>3, <1>4 DEF Counts
  <2>4. Cardinality(Above(T, m)) \in Nat /\ Cardinality(Above(T, n)) \in Nat
    BY <1>1
  <2> QED
    BY <2>2, <2>3, <2>4
<1> QED
  BY <1>5

(* The next position is behind every policy assigned. *)
LEMMA NextIsBehind ==
  ASSUME OrderInv
  PROVE  NextPosition \in Nat /\ \A p \in Assigned : assigned[p].position < NextPosition
<1>1. CASE Assigned = {}
  BY <1>1 DEF NextPosition
<1>2. CASE Assigned # {}
  <2> DEFINE T == {assigned[p].position : p \in Assigned}
             f == [p \in Assigned |-> assigned[p].position]
  <2>1. T \subseteq Nat /\ T # {} /\ \A p \in Assigned : assigned[p].position \in T
    BY <1>2 DEF OrderInv
  <2>2. IsFiniteSet(Assigned)
    BY EndpointAssumption, FS_Subset DEF EndpointAssumption, OrderInv
  <2>3. f \in [Assigned -> T] /\ \A n \in T : \E p \in Assigned : f[p] = n
    OBVIOUS
  <2>4. LastPosition = CHOOSE n \in T : \A p \in Assigned : assigned[p].position <= n
    BY DEF LastPosition
  <2>5. \A n \in T : \E p \in Assigned : assigned[p].position = n
    OBVIOUS
  <2> HIDE DEF T, f
  <2>6. f \in Surjection(Assigned, T)
    BY <2>3, Fun_IsSurj
  <2>7. IsFiniteSet(T)
    BY <2>2, <2>6, FS_Surjection
  <2>8. \E n \in T : \A p \in Assigned : assigned[p].position <= n
    BY <2>1, <2>7, HighestOf
  <2>9. LastPosition \in T /\ \A p \in Assigned : assigned[p].position <= LastPosition
    BY <2>4, <2>8
  <2>10. LastPosition \in Nat /\ NextPosition = LastPosition + 1
    BY <1>2, <2>1, <2>9 DEF NextPosition
  <2>11. \A p \in Assigned : assigned[p].position \in Nat
    BY <2>1
  <2> QED
    BY <2>9, <2>10, <2>11
<1> QED
  BY <1>1, <1>2

(* A table numbered anew leaves no ties. *)
LEMMA Renumbers ==
  ASSUME EditsInv, Moves, UNCHANGED <<bindings, crons>>, rows' \in Nat, rows <= rows',
         NEW order, Numbered(order),
         assigned' \in [DOMAIN order -> [position : Nat, row : Nat]],
         \A p \in DOMAIN order : assigned'[p].position = order[p]
  PROVE  Sound
<1>1. Assigned' = DOMAIN order
  BY DEF Assigned
<1>2. OrderInv' /\ Ordered'
  BY <1>1 DEF OrderInv, Ordered, Numbered
<1> QED
  BY <1>2, OrderEdited DEF StaysOrdered

LEMMA AppendsPolicy ==
  ASSUME EditsInv, Moves, UNCHANGED <<bindings, crons>>, rows' = rows + 1,
         NEW r \in Requests, req[r].op \in {"assign", "insert_policy"}, req'[r] = Idle,
         NEW p \in Policies, NEW n \in Nat, req[r].position = n,
         assigned' = Appended(p, n)
  PROVE  Sound
<1>1. rows \in Nat /\ OrderInv
  BY DEF EditsInv, BindingsInv
<1>2. /\ Assigned' = Assigned \cup {p}
      /\ \A x \in Assigned' : assigned'[x] = IF x = p THEN [position |-> n, row |-> rows + 1]
                                             ELSE assigned[x]
  BY DEF Appended, Assigned
<1>3. assigned' \in [Assigned' -> [position : Nat, row : Nat]]
  BY <1>1, <1>2 DEF Appended, OrderInv
<1>4. OrderInv'
  BY <1>1, <1>2, <1>3 DEF OrderInv
<1>5. ASSUME n # NextPosition PROVE StaysOrdered
  BY <1>5 DEF StaysOrdered, StaleOrder
<1>6. ASSUME n = NextPosition PROVE StaysOrdered
  <2>1. \A x \in Assigned : assigned[x].position \in Nat /\ assigned[x].position < n
    BY <1>1, <1>6, NextIsBehind DEF OrderInv
  <2>2. \A x \in Assigned' : assigned'[x].position = IF x = p THEN n ELSE assigned[x].position
    BY <1>2
  <2>3. ASSUME Ordered PROVE Ordered'
    BY <1>2, <2>1, <2>2, <2>3 DEF Ordered
  <2> QED
    BY <2>3 DEF StaysOrdered
<1>7. rows' \in Nat /\ rows <= rows'
  BY <1>1
<1> QED
  BY <1>4, <1>5, <1>6, <1>7, OrderEdited

LEMMA NumberingsNumber ==
  ASSUME NEW ps \in SUBSET Policies, NEW position, NEW order \in Numberings(ps, position)
  PROVE  Numbered(order) /\ DOMAIN order = ps
<1>1. /\ order \in [ps -> 0 .. Cardinality(ps) - 1]
      /\ \A p, q \in ps : p # q => order[p] # order[q]
  BY DEF Numberings
<1>2. \A p \in ps : order[p] \in Nat
  BY <1>1
<1> QED
  BY <1>1, <1>2 DEF Numbered

LEMMA DeletesPolicy ==
  ASSUME EditsInv, UNCHANGED <<bindings, rows, crons>>, NEW r \in Requests, DeletePolicy(r)
  PROVE  Sound
<1>1. Moves /\ assigned' = Restricted(assigned, Assigned \ {req[r].of})
  BY ComposedIdle DEF DeletePolicy, End, Moves
<1>2. OrderInv /\ rows \in Nat
  BY DEF EditsInv, BindingsInv
<1>3. /\ Assigned' = Assigned \ {req[r].of}
      /\ \A p \in Assigned' : assigned'[p] = assigned[p]
  BY <1>1 DEF Restricted, Assigned
<1>4. assigned' \in [Assigned' -> [position : Nat, row : Nat]]
  BY <1>1, <1>2, <1>3 DEF Restricted, OrderInv
<1>5. OrderInv' /\ StaysOrdered
  BY <1>2, <1>3, <1>4 DEF OrderInv, StaysOrdered, Ordered
<1> QED
  BY <1>1, <1>2, <1>5, OrderEdited

LEMMA AddsPolicy ==
  ASSUME EditsInv, UNCHANGED crons, NEW r \in Requests, AddPolicy(r) \/ Assign(r)
  PROVE  Sound
<1>1. /\ req[r].op \in {"assign", "insert_policy"} /\ req' = [req EXCEPT ![r] = Idle]
      /\ rows' = rows + 1 /\ assigned' = Appended(req[r].of, req[r].position)
      /\ UNCHANGED bindings
  BY DEF AddPolicy, Assign, End
<1>2. Moves /\ req'[r] = Idle
  BY <1>1, ComposedIdle DEF Moves, EditsInv, ComposedInv
<1>3. req[r].of \in Policies /\ req[r].position \in Nat
  BY <1>1 DEF EditsInv, ComposedInv, Composed
<1>4. PICK p \in Policies, n \in Nat : p = req[r].of /\ n = req[r].position
  BY <1>3
<1> QED
  BY <1>1, <1>2, <1>4, AppendsPolicy

LEMMA Reorders ==
  ASSUME EditsInv, UNCHANGED crons, NEW r \in Requests, Reorder(r)
  PROVE  Sound
<1> DEFINE order == req[r].order
<1>1. /\ req[r].op = "reorder" /\ req' = [req EXCEPT ![r] = Idle]
      /\ DOMAIN order \subseteq Assigned /\ UNCHANGED <<bindings, rows>>
      /\ assigned' = [p \in Assigned |->
                        IF p \in DOMAIN order THEN [assigned[p] EXCEPT !.position = order[p]]
                        ELSE assigned[p]]
  BY DEF Reorder, ReorderFits, End
<1>2. Moves /\ req'[r] = Idle
  BY <1>1, ComposedIdle DEF Moves, EditsInv, ComposedInv
<1>3. Numbered(order) /\ OrderInv /\ rows \in Nat
  BY <1>1 DEF EditsInv, ComposedInv, Composed, BindingsInv
<1>4. \A p \in DOMAIN order : order[p] \in Nat
  BY <1>3 DEF Numbered
<1>5. \A p \in Assigned : assigned[p] \in [position : Nat, row : Nat]
  BY <1>3 DEF OrderInv
<1>0. UNCHANGED <<bindings, crons>> /\ rows' \in Nat /\ rows <= rows'
  BY <1>1, <1>3
<1> HIDE DEF order
<1>6. \A p \in DOMAIN order : /\ [assigned[p] EXCEPT !.position = order[p]].position = order[p]
                              /\ [assigned[p] EXCEPT !.position = order[p]]
                                   \in [position : Nat, row : Nat]
  BY <1>1, <1>4, <1>5
<1>7. assigned' \in [Assigned -> [position : Nat, row : Nat]]
  BY <1>1, <1>5, <1>6
<1>8. CASE DOMAIN order = Assigned
  <2>1. \A p \in DOMAIN order : assigned'[p].position = order[p]
    BY <1>1, <1>6, <1>8
  <2> QED
    BY <1>0, <1>2, <1>3, <1>7, <1>8, <2>1, Renumbers
<1>9. CASE DOMAIN order # Assigned
  <2>1. StaysOrdered
    BY <1>1, <1>2, <1>9 DEF StaysOrdered, StaleOrder, order
  <2>2. OrderInv'
    BY <1>3, <1>7 DEF OrderInv, Assigned
  <2> QED
    BY <1>0, <1>2, <2>1, <2>2, OrderEdited
<1> QED
  BY <1>8, <1>9

LEMMA Removes ==
  ASSUME EditsInv, UNCHANGED crons, NEW r \in Requests, NEW order, Remove(r, order)
  PROVE  Sound
<1> DEFINE left == Assigned \ {req[r].of}
           position == [p \in left |-> assigned[p].position]
<1>1. /\ order \in Numberings(left, position) /\ req' = [req EXCEPT ![r] = Idle]
      /\ assigned' = [p \in left |-> [assigned[p] EXCEPT !.position = order[p]]]
      /\ UNCHANGED <<bindings, rows>>
  BY DEF Remove, End
<1>2. Moves /\ OrderInv /\ rows \in Nat
  BY <1>1, ComposedIdle DEF Moves, EditsInv, BindingsInv
<1>3. left \in SUBSET Policies /\ \A p \in left : assigned[p] \in [position : Nat, row : Nat]
  BY <1>2 DEF OrderInv
<1> HIDE DEF left, position
<1>4. Numbered(order) /\ DOMAIN order = left
  BY <1>1, <1>3, NumberingsNumber
<1>5. \A p \in left : order[p] \in Nat
  BY <1>4 DEF Numbered
<1>6. \A p \in left : /\ [assigned[p] EXCEPT !.position = order[p]].position = order[p]
                      /\ [assigned[p] EXCEPT !.position = order[p]] \in [position : Nat, row : Nat]
  BY <1>3, <1>5
<1>7. /\ assigned' \in [DOMAIN order -> [position : Nat, row : Nat]]
      /\ \A p \in DOMAIN order : assigned'[p].position = order[p]
  BY <1>1, <1>4, <1>6
<1> QED
  BY <1>1, <1>2, <1>4, <1>7, Renumbers, SMTT(30)

LEMMA Replaces ==
  ASSUME EditsInv, UNCHANGED crons, NEW r \in Requests, Replace(r)
  PROVE  Sound
<1> DEFINE order == req[r].order
<1>1. /\ req[r].op = "replace" /\ req' = [req EXCEPT ![r] = Idle]
      /\ assigned' = [p \in DOMAIN order |-> [position |-> order[p], row |-> rows + 1 + order[p]]]
      /\ rows' = rows + Cardinality(DOMAIN order) /\ UNCHANGED bindings
  BY DEF Replace, End
<1>2. Moves
  BY <1>1, ComposedIdle DEF Moves
<1>3. Numbered(order) /\ rows \in Nat
  BY <1>1 DEF EditsInv, ComposedInv, Composed, BindingsInv
<1> HIDE DEF order
<1>4. DOMAIN order \in SUBSET Policies /\ \A p \in DOMAIN order : order[p] \in Nat
  BY <1>3 DEF Numbered
<1>5. IsFiniteSet(DOMAIN order)
  BY <1>4, EndpointAssumption, FS_Subset DEF EndpointAssumption
<1>6. Cardinality(DOMAIN order) \in Nat
  BY <1>5, FS_CardinalityType
<1>7. rows' \in Nat /\ rows <= rows'
  BY <1>1, <1>3, <1>6
<1>8. /\ assigned' \in [DOMAIN order -> [position : Nat, row : Nat]]
      /\ \A p \in DOMAIN order : assigned'[p].position = order[p]
  BY <1>1, <1>3, <1>4
<1> QED
  BY <1>1, <1>2, <1>3, <1>7, <1>8, Renumbers

LEMMA PoliciesUnedited ==
  ASSUME EditsInv, UNCHANGED crons, NEW r \in Requests,
         \/ \E p \in Policies : \/ DeletePolicyRead(r, p) \/ DeletePolicyReadByMcp(r, p)
                                \/ AddPolicyRead(r, p) \/ AssignRead(r, p) \/ RemoveRead(r, p)
         \/ AddPolicyCount(r)
         \/ \E order \in Positionings : ReorderRead(r, order) \/ ReplaceRead(r, DOMAIN order, order)
  PROVE  Sound
<1>0. OrderInv /\ NextPosition \in Nat
  BY NextIsBehind DEF EditsInv
<1>1. ASSUME NEW q, NEW about, Begin(r, about, q), UNCHANGED endpointVars, Composed(q)
      PROVE  Sound
  BY <1>1, BeginsUnedited DEF Begin, endpointVars, policyVars
<1>2. ASSUME NEW p \in Policies, DeletePolicyRead(r, p)
      PROVE  Sound
  BY <1>1, <1>2 DEF DeletePolicyRead, Composed
<1>3. ASSUME NEW p \in Policies, AddPolicyRead(r, p)
      PROVE  Sound
  BY <1>1, <1>3 DEF AddPolicyRead, Composed
<1>4. ASSUME NEW p \in Policies, AssignRead(r, p)
      PROVE  Sound
  BY <1>0, <1>1, <1>4 DEF AssignRead, Composed
<1>5. ASSUME NEW p \in Policies, RemoveRead(r, p)
      PROVE  Sound
  BY <1>1, <1>5 DEF RemoveRead, Composed
<1>6. ASSUME AddPolicyCount(r) PROVE Sound
  <2> DEFINE q == [op |-> "insert_policy", of |-> req[r].of, default |-> req[r].default,
                   position |-> NextPosition]
  <2>1. req' = [req EXCEPT ![r] = q] /\ req[r].of \in Policies
    BY <1>6 DEF AddPolicyCount, EditsInv, ComposedInv, Composed
  <2>2. Composed(q)
    BY <1>0, <2>1 DEF Composed
  <2> QED
    BY <1>6, <2>1, <2>2, BeginsUnedited DEF AddPolicyCount, endpointVars, policyVars
<1>7. ASSUME NEW order, ReorderRead(r, order) PROVE Sound
  <2>1. Numbered(order)
    BY <1>0, <1>7, NumberingsNumber DEF ReorderRead, OrderInv
  <2>2. Composed([op |-> "reorder", order |-> order])
    BY <2>1 DEF Composed
  <2> QED
    BY <1>1, <1>7, <2>2 DEF ReorderRead
<1>8. ASSUME NEW order, ReplaceRead(r, DOMAIN order, order) PROVE Sound
  <2>1. Numbered(order)
    BY <1>8, NumberingsNumber DEF ReplaceRead, Live
  <2>2. Composed([op |-> "replace", order |-> order])
    BY <2>1 DEF Composed
  <2> QED
    BY <1>1, <1>8, <2>2 DEF ReplaceRead
<1> QED
  BY <1>2, <1>3, <1>4, <1>5, <1>6, <1>7, <1>8 DEF DeletePolicyReadByMcp

LEMMA PoliciesSound ==
  ASSUME EditsInv, PoliciesNext, UNCHANGED crons
  PROVE  Sound
<1>1. ASSUME NEW p \in Policies, CreatePolicy(p) \/ CreatePolicyByMcp(p) PROVE Sound
  BY <1>1, Unedited DEF CreatePolicy, CreatePolicyByMcp, AtOnce, Moves
<1>2. ASSUME NEW r \in Requests,
             \/ \E p \in Policies : \/ DeletePolicyRead(r, p) \/ DeletePolicyReadByMcp(r, p)
                                    \/ AddPolicyRead(r, p) \/ AssignRead(r, p) \/ RemoveRead(r, p)
             \/ AddPolicyCount(r)
             \/ \E order \in Positionings : ReorderRead(r, order) \/ ReplaceRead(r, DOMAIN order, order)
      PROVE  Sound
  BY <1>2, PoliciesUnedited
<1>3. ASSUME NEW r \in Requests,
             \/ AddPolicyFails(r) \/ AssignFails(r) \/ RemoveFails(r)
             \/ ReorderFails(r) \/ ReplaceFails(r)
      PROVE  Sound
  BY <1>3, EndsUnedited DEF AddPolicyFails, AssignFails, RemoveFails, ReorderFails, ReplaceFails,
                            Fails, endpointVars, policyVars
<1>4. ASSUME NEW r \in Requests, DeletePolicy(r) PROVE Sound
  BY <1>4, DeletesPolicy DEF DeletePolicy
<1>5. ASSUME NEW r \in Requests,
             \/ AddPolicy(r) \/ Assign(r) \/ Reorder(r) \/ Replace(r)
             \/ \E order : Remove(r, order)
      PROVE  Sound
  BY <1>5, AddsPolicy, Reorders, Replaces, Removes
<1> QED
  BY <1>1, <1>2, <1>3, <1>4, <1>5, Zenon DEF PoliciesNext

(* Every step of every area merges edits, keeps the order and EditsInv.      *)
LEMMA EveryEdit == EditsInv /\ [Next]_vars => Sound
<1> SUFFICES ASSUME EditsInv, [Next]_vars PROVE Sound
  OBVIOUS
<1>1. CASE UNCHANGED vars
  BY <1>1, Unedited DEF vars, requestVars, endpointVars, policyVars, Moves
<1>2. CASE DraftsNext /\ UNCHANGED <<endpointVars, queryVars, crons>>
  BY <1>2, DraftsUnedited DEF endpointVars, policyVars
<1>3. CASE EndpointNext /\ UNCHANGED <<queryVars, crons>>
  BY <1>3, BindingsSound, PoliciesSound DEF EndpointNext
<1>4. CASE QueryNext /\ UNCHANGED <<endpointVars, crons>>
  BY <1>4, QueriesUnedited DEF endpointVars, policyVars
<1>5. CASE ScheduleNext /\ UNCHANGED <<endpointVars, queryVars>>
  BY <1>5, CronsSound
<1> QED
  BY <1>1, <1>2, <1>3, <1>4, <1>5 DEF Next

(* What every request has composed fits the rows it will write, and the rows *)
(* of bindings and cron bindings go by their own ids (the steps of           *)
(* routes-bindings.ts, routes-cron-bindings.ts, routes-endpoint-auth.ts and  *)
(* of their tools between reading and writing).                              *)
THEOREM EditsStayComposed == Spec => []EditsInv
<1>1. EditsInv /\ [Next]_vars => EditsInv'
  BY EveryEdit DEF Sound
<1> QED
  BY <1>1, InitEdits, PTL DEF Spec

(* Overlapping edits of one binding or cron binding do not undo each other,  *)
(* except by the whole-row writes of a stale reading that EditsMerge names,  *)
(* and a deleted cron binding stays deleted.                                 *)
THEOREM EditsMergeAlways == Spec => EditsMerge
<1>1. EditsInv /\ [Next]_vars =>
        [/\ BindingsMerge /\ CronsMerge]_vars
  BY EveryEdit DEF Sound
<1> QED
  BY <1>1, EditsStayComposed, PTL DEF Spec, EditsMerge, BindingsMerge, CronsMerge, BindingFields

(* Two policies of an endpoint come to share a position only by a request    *)
(* that computed it from assignments that have changed since.                *)
THEOREM TiesComeFromStaleRequestsAlways == Spec => TiesComeFromStaleRequests
<1>1. EditsInv /\ [Next]_vars => [StaysOrdered]_vars
  BY EveryEdit DEF Sound
<1> QED
  BY <1>1, EditsStayComposed, PTL DEF Spec, TiesComeFromStaleRequests, StaysOrdered
=============================================================================
