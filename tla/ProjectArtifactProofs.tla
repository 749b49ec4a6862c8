------------------------- MODULE ProjectArtifactProofs -------------------------
(* Theorems about the artifacts of a Project deployment: which rows it has,  *)
(* what they hold, and how the pointers to them move. The second half is for *)
(* instances in which every build job is delivered once.                     *)
EXTENDS ProjectDeploymentProofs

-----------------------------------------------------------------------------
(* A deployment keeps the set of its artifacts from the transaction that    *)
(* creates it, and what can be activated has been built.                    *)
RowsBuilt ==
  /\ draft # 0
  /\ \A p \in Projects : status[p] # "none" => child[p][Schedule] # "absent"
  /\ \A p \in Projects, x \in Parts :
       /\ child[p][x] = "deploying" => content[p][x] # 0
       /\ status[p] \in Activated /\ child[p][x] # "absent" =>
            content[p][x] # 0 /\ frozen[p][x] # 0

(* What the request r holds of the artifacts in ch *)
RequestBuilt(r, ch) ==
  /\ r.kind = "deploy" => Schedule \in r.parts
  /\ r.kind = "enqueue" => \A x \in r.parts : ch[r.id][x] # "absent"
  /\ r.kind = "rollback" => r.parts = {x \in Parts : ch[r.id][x] # "absent"}
  /\ r.kind \in {"sourced", "release"} =>
       Schedule \in r.parts /\ \A x \in r.parts : r.copy[x] # 0

RequestsBuilt == \A o \in Operators : RequestBuilt(op[o], child)

WorkBuilt ==
  /\ \A w \in Workers : worker[w].pc # "idle" => child[worker[w].id][worker[w].part] # "absent"
  /\ \A w \in Workers : worker[w].pc \in {"resolved", "bundling"} => worker[w].seen # 0
  /\ \A p \in Projects, x \in Parts : job[p][x].state # "none" => child[p][x] # "absent"

Together ==
  /\ LET p == pointer["development"] IN
       p # None => \A e \in Endpoints : child[p][e] # "absent" => epActive[e] = p
  /\ \A e \in Endpoints : epActive[e] # None => child[epActive[e]][e] # "absent"

ArtifactInv == RowsBuilt /\ RequestsBuilt /\ WorkBuilt /\ Together


FullInv == IInv /\ ArtifactInv

LEMMA InitArtifacts == Init => ArtifactInv
<1> SUFFICES ASSUME Init PROVE ArtifactInv
  OBVIOUS
<1>1. RowsBuilt
  BY DEF Init, RowsBuilt, Activated
<1>2. RequestsBuilt
  BY DEF Init, RequestsBuilt, RequestBuilt, NoOp
<1>3. WorkBuilt
  BY DEF Init, WorkBuilt, Resting, NoJob
<1>4. Together
  BY ConstantFacts DEF Init, Together
<1> QED
  BY <1>1, <1>2, <1>3, <1>4 DEF ArtifactInv

(* No step adds an artifact to a deployment that exists or removes one. *)
SamePresent(p) == \A x \in Parts : (child'[p][x] = "absent") <=> (child[p][x] = "absent")
Keeps == \A p \in Projects : status[p] # "none" => status'[p] # "none" /\ SamePresent(p)

LEMMA RetireKeeps ==
  ASSUME RowsTypeOK, NEW old, NEW new
  PROVE  \A p \in Projects, x \in Parts :
           /\ (RetireThenActivate(old, new)[p][x] = "absent") <=> (child[p][x] = "absent")
           /\ RetireThenActivate(old, new)[p][x] = "deploying" => child[p][x] = "deploying"
  BY DEF RetireThenActivate

LEMMA ArtifactsStay ==
  ASSUME FullInv, UNCHANGED rows, draft' # 0
  PROVE  RowsBuilt' /\ Keeps /\ Together' /\ MovesTogether
  BY ConstantFacts DEF FullInv, ArtifactInv, RowsBuilt, Keeps, SamePresent, Together,
                       MovesTogether, rows

LEMMA ServedRows ==
  ASSUME IInv, NEW e \in Endpoints, epActive[e] # None
  PROVE  epActive[e] \in Projects /\ status[epActive[e]] \in Activated
           /\ status[epActive[e]] # "none"
<1>1. epActive[e] \in Projects
  BY DEF IInv, TypeInv, TypeOK, RowsTypeOK, Ref
<1>2. status[epActive[e]] \in Activated
  BY DEF IInv, Lifecycle, RowsLifecycle
<1> QED  BY <1>1, <1>2 DEF Activated

(* The pointers stay and the deployment they name keeps its artifacts. *)
LEMMA TogetherStays ==
  ASSUME FullInv, Keeps, UNCHANGED epActive, pointer'["development"] = pointer["development"]
  PROVE  Together' /\ MovesTogether
<1> USE ConstantFacts DEF FullInv, IInv, TypeInv, TypeOK, RowsTypeOK
<1>1. MovesTogether
  BY DEF MovesTogether
<1>2. Together'
  <2> DEFINE p == pointer["development"]
  <2>1. ASSUME p # None, NEW e \in Endpoints, child'[p][e] # "absent"
        PROVE  epActive[e] = p
    <3>1. p \in Projects /\ status[p] = "active"
      BY <2>1 DEF Ref, Lifecycle, RowsLifecycle
    <3>2. child[p][e] # "absent"
      BY <2>1, <3>1 DEF Keeps, SamePresent
    <3> QED  BY <2>1, <3>2 DEF ArtifactInv, Together
  <2>2. ASSUME NEW e \in Endpoints, epActive[e] # None
        PROVE  child'[epActive[e]][e] # "absent"
    <3>1. epActive[e] \in Projects /\ status[epActive[e]] # "none"
      BY <2>2, ServedRows
    <3>2. child[epActive[e]][e] # "absent"
      BY <2>2 DEF ArtifactInv, Together
    <3> QED  BY <3>1, <3>2 DEF Keeps, SamePresent
  <2> QED  BY <2>1, <2>2 DEF Together
<1> QED  BY <1>1, <1>2

(* All pointers of one deployment move to it in the same step. *)
LEMMA TogetherMoves ==
  ASSUME FullInv, Keeps, NEW p \in Projects, EnvOf(p) = "development",
         pointer' = [pointer EXCEPT !["development"] = p],
         epActive' = [e \in Endpoints |-> IF child'[p][e] # "absent" THEN p ELSE epActive[e]]
  PROVE  Together' /\ MovesTogether
<1> USE ConstantFacts DEF FullInv, IInv, TypeInv, TypeOK, RowsTypeOK
<1>1. pointer'["development"] = p
  OBVIOUS
<1>2. Together'
  <2>1. ASSUME NEW e \in Endpoints, epActive'[e] # None
        PROVE  child'[epActive'[e]][e] # "absent"
    <3>1. CASE child'[p][e] # "absent"
      BY <3>1
    <3>2. CASE child'[p][e] = "absent"
      <4>0. epActive'[e] = epActive[e]
        BY <3>2
      <4>1. epActive[e] \in Projects /\ status[epActive[e]] # "none"
        BY <2>1, <4>0, ServedRows
      <4>2. child[epActive[e]][e] # "absent"
        BY <2>1, <4>0 DEF ArtifactInv, Together
      <4> QED  BY <4>0, <4>1, <4>2 DEF Keeps, SamePresent
    <3> QED  BY <3>1, <3>2
  <2> QED  BY <1>1, <2>1 DEF Together
<1>3. MovesTogether
  <2> SUFFICES ASSUME NEW q \in Dev, NEW e \in Endpoints, epActive[e] # q, epActive'[e] = q
               PROVE  /\ pointer'["development"] = q
                      /\ \A f \in Present(q)' \cap Endpoints : epActive'[f] = q
    BY DEF MovesTogether
  <2>1. q = p
    OBVIOUS
  <2> QED  BY <1>1, <2>1 DEF Present
<1> QED  BY <1>2, <1>3

LEMMA DeployArtifacts ==
  ASSUME FullInv, NEW o \in Operators, DeployCommit(o)
  PROVE  RowsBuilt' /\ Keeps /\ Together' /\ MovesTogether
<1> USE ConstantFacts DEF FullInv, IInv, TypeInv, TypeOK, RowsTypeOK
<1> DEFINE p == op[o].id
           new == [x \in Parts |-> IF x \in op[o].parts THEN "queued" ELSE "absent"]
<1>1. CASE UNCHANGED <<status, child>>
  BY <1>1, ArtifactsStay DEF DeployCommit, rows, ArtifactInv, RowsBuilt
<1>2. CASE /\ VersionsFree(o) /\ status' = [status EXCEPT ![p] = "queued"]
           /\ child' = [child EXCEPT ![p] = new]
  <2>1. p \in Projects /\ status[p] = "none" /\ Schedule \in op[o].parts
    BY <1>2 DEF DeployCommit, VersionsFree, Lifecycle, RequestsSound, RequestSound,
                ArtifactInv, RequestsBuilt, RequestBuilt
  <2>2. UNCHANGED <<content, frozen, pointer, epActive, draft>>
    BY DEF DeployCommit
  <2>3. \A x \in Parts : new[x] \in {"queued", "absent"} /\ new[Schedule] = "queued"
    BY <2>1
  <2> HIDE DEF new, p
  <2>4. \A q \in Projects : q # p => status'[q] = status[q] /\ child'[q] = child[q]
    BY <1>2
  <2>5. status'[p] = "queued" /\ child'[p] = new
    BY <1>2, <2>1
  <2>6. Keeps
    BY <2>1, <2>4 DEF Keeps, SamePresent
  <2>7. RowsBuilt'
    <3>1. draft' # 0
      BY <2>2 DEF ArtifactInv, RowsBuilt
    <3>2. ASSUME NEW q \in Projects
          PROVE  /\ status'[q] # "none" => child'[q][Schedule] # "absent"
                 /\ \A x \in Parts :
                      /\ child'[q][x] = "deploying" => content'[q][x] # 0
                      /\ status'[q] \in Activated /\ child'[q][x] # "absent" =>
                           content'[q][x] # 0 /\ frozen'[q][x] # 0
      <4>1. CASE q = p
        BY <2>3, <2>5, <4>1 DEF Activated
      <4>2. CASE q # p
        BY <2>2, <2>4, <4>2 DEF ArtifactInv, RowsBuilt
      <4> QED  BY <4>1, <4>2
    <3> QED  BY <3>1, <3>2 DEF RowsBuilt
  <2> QED  BY <2>2, <2>6, <2>7, TogetherStays
<1> QED
  BY <1>1, <1>2 DEF DeployCommit

LEMMA RollbackArtifacts ==
  ASSUME FullInv, NEW o \in Operators, RollbackCommit(o)
  PROVE  RowsBuilt' /\ Keeps /\ Together' /\ MovesTogether
<1> USE ConstantFacts DEF FullInv, IInv, TypeInv, TypeOK, RowsTypeOK
<1> DEFINE target == op[o].id
           old == op[o].live
<1>1. /\ target \in Projects /\ status[target] \in Activated
      /\ old # None => status[old] \in Activated
      /\ old \in Ref
      /\ op[o].parts = {x \in Parts : child[target][x] # "absent"}
  BY DEF RollbackCommit, RollbackTransaction, Lifecycle, RequestsSound, RequestSound, Request,
         ArtifactInv, RequestsBuilt, RequestBuilt
<1>2. /\ \A p \in Projects : status'[p] = IF p = target THEN "active"
                                          ELSE IF p = old THEN "rolled_back" ELSE status[p]
      /\ child' = RetireThenActivate(old, target)
      /\ pointer' = [pointer EXCEPT ![EnvOf(target)] = target]
      /\ epActive' = [e \in Endpoints |-> IF e \in RestoredEndpoints(o) THEN target
                                          ELSE epActive[e]]
      /\ UNCHANGED <<content, frozen, draft>>
  BY DEF RollbackCommit, RollbackTransaction
<1>3. RestoredEndpoints(o) = IF EnvOf(target) = "development"
                             THEN {e \in Endpoints : child[target][e] # "absent"} ELSE {}
  BY <1>1 DEF RestoredEndpoints
<1> HIDE DEF target, old
<1>4. \A p \in Projects, x \in Parts : (child'[p][x] = "absent") <=> (child[p][x] = "absent")
  BY <1>2, RetireKeeps
<1>5. \A p \in Projects, x \in Parts : child'[p][x] = "deploying" => child[p][x] = "deploying"
  BY <1>2 DEF RetireThenActivate
<1>6. \A p \in Projects : /\ status'[p] \in Activated <=> status[p] \in Activated
                          /\ status'[p] = "none" <=> status[p] = "none"
  BY <1>1, <1>2 DEF Activated
<1>7. Keeps
  BY <1>4, <1>6 DEF Keeps, SamePresent
<1>8. RowsBuilt'
  BY <1>2, <1>4, <1>5, <1>6 DEF ArtifactInv, RowsBuilt
<1>9. CASE EnvOf(target) = "development"
  <2>1. epActive' = [e \in Endpoints |-> IF child'[target][e] # "absent" THEN target
                                         ELSE epActive[e]]
    BY <1>1, <1>2, <1>3, <1>4, <1>9
  <2> QED  BY <1>1, <1>2, <1>7, <1>8, <1>9, <2>1, TogetherMoves
<1>10. CASE EnvOf(target) # "development"
  <2>1. UNCHANGED epActive /\ pointer'["development"] = pointer["development"]
    BY <1>2, <1>3, <1>10
  <2> QED  BY <1>7, <1>8, <2>1, TogetherStays
<1> QED  BY <1>9, <1>10

LEMMA ReleaseArtifacts ==
  ASSUME FullInv, NEW o \in Operators, ReleaseCommit(o)
  PROVE  RowsBuilt' /\ Keeps /\ Together' /\ MovesTogether
<1> USE ConstantFacts DEF FullInv, IInv, TypeInv, TypeOK, RowsTypeOK
<1> DEFINE new == op[o].id
           old == op[o].live
           parts == op[o].parts
<1>1. /\ new \in Projects /\ status[new] = "none"
      /\ old # None => status[old] \in Activated
      /\ parts \subseteq Parts /\ Schedule \in parts
      /\ \A x \in parts : op[o].copy[x] # 0
  BY DEF ReleaseCommit, Lifecycle, RequestsSound, RequestSound, Request,
         ArtifactInv, RequestsBuilt, RequestBuilt
<1>2. /\ \A p \in Projects : status'[p] = IF p = new THEN "active"
                                          ELSE IF p = old THEN "rolled_back" ELSE status[p]
      /\ pointer'["development"] = pointer["development"]
      /\ UNCHANGED <<epActive, draft>>
      /\ content' = [content EXCEPT ![new] = op[o].copy]
      /\ frozen' = [frozen EXCEPT ![new] = op[o].copy]
  BY DEF ReleaseCommit
<1>3. child' = [RetireThenActivate(old, new) EXCEPT ![new] =
                  [x \in Parts |-> IF x \in parts THEN "active" ELSE "absent"]]
  <2>1. parts \cup {Schedule} = parts
    BY <1>1
  <2> QED  BY <2>1 DEF ReleaseCommit
<1> HIDE DEF new, old, parts
<1>4. RetireThenActivate(old, new) \in [Projects -> [Parts -> RowStatus \cup {"absent"}]]
  BY RetireTyped
<1>5. /\ \A x \in Parts : child'[new][x] = IF x \in parts THEN "active" ELSE "absent"
      /\ \A p \in Projects : p # new => child'[p] = RetireThenActivate(old, new)[p]
  BY <1>1, <1>3, <1>4
<1>6. \A p \in Projects, x \in Parts :
        p # new => /\ (child'[p][x] = "absent") <=> (child[p][x] = "absent")
                   /\ child'[p][x] = "deploying" => child[p][x] = "deploying"
  BY <1>4, <1>5, RetireKeeps
<1>7. \A p \in Projects : p # new =>
         /\ status'[p] \in Activated <=> status[p] \in Activated
         /\ status'[p] = "none" <=> status[p] = "none"
  BY <1>1, <1>2 DEF Activated
<1>8. Keeps
  BY <1>1, <1>6, <1>7 DEF Keeps, SamePresent
<1>9. RowsBuilt'
  <2>1. draft' # 0
    BY <1>2 DEF ArtifactInv, RowsBuilt
  <2>2. \A p \in Projects : status'[p] # "none" => child'[p][Schedule] # "absent"
    BY <1>1, <1>5, <1>6, <1>7 DEF ArtifactInv, RowsBuilt
  <2>3. ASSUME NEW p \in Projects, NEW x \in Parts
        PROVE  /\ child'[p][x] = "deploying" => content'[p][x] # 0
               /\ status'[p] \in Activated /\ child'[p][x] # "absent" =>
                    content'[p][x] # 0 /\ frozen'[p][x] # 0
    <3>1. CASE p = new
      BY <1>1, <1>2, <1>5, <3>1
    <3>2. CASE p # new
      BY <1>2, <1>6, <1>7, <3>2 DEF ArtifactInv, RowsBuilt
    <3> QED  BY <3>1, <3>2
  <2> QED  BY <2>1, <2>2, <2>3 DEF RowsBuilt
<1> QED
  BY <1>2, <1>8, <1>9, TogetherStays

(* Finalization activates a deployment only when all its artifacts are built. *)
LEMMA FinalizeArtifacts ==
  ASSUME FullInv, NEW p \in Dev, status[p] # "none", Finalize(p), UNCHANGED draft
  PROVE  RowsBuilt' /\ Keeps /\ Together' /\ MovesTogether
<1> USE ConstantFacts DEF FullInv, IInv, TypeInv, TypeOK, RowsTypeOK
<1>0. draft' # 0
  BY DEF ArtifactInv, RowsBuilt
<1>1. CASE LeaveProject(p)
  BY <1>0, <1>1, ArtifactsStay DEF LeaveProject
<1>2. CASE FailProject(p)
  <2>1. /\ status' = [status EXCEPT ![p] = "failed"]
        /\ UNCHANGED <<child, content, frozen, pointer, epActive>>
    BY <1>2 DEF FailProject
  <2>2. Keeps
    BY <2>1 DEF Keeps, SamePresent
  <2>3. RowsBuilt'
    BY <1>0, <2>1 DEF ArtifactInv, RowsBuilt, Activated
  <2> QED  BY <2>1, <2>2, <2>3, TogetherStays
<1>3. CASE ActivateProject(p)
  <2>1. /\ \A q \in Projects : status'[q] = IF q = p THEN "active"
                                 ELSE IF EnvOf(q) = EnvOf(p) /\ status[q] = "active"
                                 THEN "rolled_back" ELSE status[q]
        /\ pointer' = [pointer EXCEPT !["development"] = p]
        /\ epActive' = [e \in Endpoints |-> IF e \in Present(p) THEN p ELSE epActive[e]]
        /\ child' = ActivateChildren(p)
        /\ frozen' = [frozen EXCEPT ![p] = content[p]]
        /\ UNCHANGED content
    BY <1>3 DEF ActivateProject, Snapshot, Superseded, MovedEndpoints
  <2>2. \A x \in Parts : child[p][x] # "absent" => child[p][x] = "deploying"
    <3> DEFINE statuses == {child[p][x] : x \in Present(p)}
    <3>1. statuses = {"deploying"}
      BY <1>3 DEF ActivateProject, Readiness
    <3>2. \A x \in Present(p) : child[p][x] \in statuses
      OBVIOUS
    <3> HIDE DEF statuses
    <3> QED  BY <3>1, <3>2 DEF Present
  <2>3. \A q \in Projects, x \in Parts :
          /\ (child'[q][x] = "absent") <=> (child[q][x] = "absent")
          /\ child'[q][x] = "deploying" => child[q][x] = "deploying"
    <3>1. ASSUME NEW q \in Projects, NEW x \in Parts
          PROVE  child'[q][x] = IF q = p /\ child[p][x] # "absent" THEN "active"
                                ELSE IF x \in Endpoints /\ child[p][x] # "absent" /\ epActive[x] = q
                                THEN "rolled_back" ELSE child[q][x]
      BY <2>1 DEF ActivateChildren, Present
    <3>2. \A e \in Endpoints, q \in Projects : epActive[e] = q => child[q][e] # "absent"
      BY DEF ArtifactInv, Together
    <3> TAKE q \in Projects, x \in Parts
    <3>3. CASE q = p
      BY <3>1, <3>3
    <3>4. CASE q # p /\ x \in Endpoints /\ child[p][x] # "absent" /\ epActive[x] = q
      BY <3>1, <3>2, <3>4
    <3>5. CASE q # p /\ ~(x \in Endpoints /\ child[p][x] # "absent" /\ epActive[x] = q)
      BY <3>1, <3>5
    <3> QED  BY <3>3, <3>4, <3>5
  <2>4. \A q \in Projects : q # p => (status'[q] \in Activated <=> status[q] \in Activated)
                                     /\ (status'[q] = "none" <=> status[q] = "none")
    BY <2>1 DEF Activated
  <2>5. Keeps
    BY <2>1, <2>3, <2>4 DEF Keeps, SamePresent
  <2>6. RowsBuilt'
    <3>1. \A q \in Projects : status'[q] # "none" => child'[q][Schedule] # "absent"
      BY <2>3, <2>4 DEF ArtifactInv, RowsBuilt
    <3>2. ASSUME NEW q \in Projects, NEW x \in Parts
          PROVE  /\ child'[q][x] = "deploying" => content'[q][x] # 0
                 /\ status'[q] \in Activated /\ child'[q][x] # "absent" =>
                      content'[q][x] # 0 /\ frozen'[q][x] # 0
      <4>1. CASE q = p
        BY <2>1, <2>2, <2>3, <4>1 DEF ArtifactInv, RowsBuilt
      <4>2. CASE q # p
        BY <2>1, <2>3, <2>4, <4>2 DEF ArtifactInv, RowsBuilt
      <4> QED  BY <4>1, <4>2
    <3> QED  BY <1>0, <3>1, <3>2 DEF RowsBuilt
  <2>7. epActive' = [e \in Endpoints |-> IF child'[p][e] # "absent" THEN p ELSE epActive[e]]
    BY <2>1, <2>3 DEF Present
  <2>8. p \in Projects /\ EnvOf(p) = "development"
    OBVIOUS
  <2>9. Together' /\ MovesTogether
    BY <2>1, <2>5, <2>7, <2>8, TogetherMoves
  <2> QED  BY <2>5, <2>6, <2>9
<1> QED
  BY <1>1, <1>2, <1>3 DEF Finalize

(* A worker sets the status of its own artifact, and says that it is to be   *)
(* activated only together with the built content.                           *)
LEMMA SetChildArtifacts ==
  ASSUME FullInv, NEW w \in Workers, worker[w].pc # "idle", NEW to \in RowStatus, SetChild(w, to),
         \/ UNCHANGED content /\ to # "deploying"
         \/ worker[w].seen # 0
            /\ content' = [content EXCEPT ![worker[w].id][worker[w].part] = worker[w].seen],
         UNCHANGED status \/ MarkProjectBuilding(worker[w].id),
         UNCHANGED <<frozen, pointer, epActive, draft>>
  PROVE  RowsBuilt' /\ Keeps /\ Together' /\ MovesTogether
<1> USE ConstantFacts DEF FullInv, IInv, TypeInv, TypeOK, RowsTypeOK
<1> DEFINE p == worker[w].id
           y == worker[w].part
<1>1. p \in Projects /\ y \in Parts /\ child[p][y] # "absent"
  BY DEF Lifecycle, BuildSound, Slot, ArtifactInv, WorkBuilt
<1>2. /\ \A q \in Projects, x \in Parts :
           child'[q][x] = IF q = p /\ x = y THEN to ELSE child[q][x]
      /\ to # "absent"
  BY <1>1 DEF SetChild, RowStatus
<1>3. \A q \in Projects, x \in Parts :
        /\ content[q][x] # 0 => content'[q][x] # 0
        /\ q = p /\ x = y /\ to = "deploying" => content'[q][x] # 0
  BY <1>1
<1>4. \A q \in Projects : /\ status'[q] \in Activated <=> status[q] \in Activated
                          /\ status'[q] = "none" <=> status[q] = "none"
  BY DEF MarkProjectBuilding, Activated
<1> HIDE DEF p, y
<1>5. Keeps
  BY <1>1, <1>2, <1>4 DEF Keeps, SamePresent
<1>6. RowsBuilt'
  <2>1. draft' # 0
    BY DEF ArtifactInv, RowsBuilt
  <2>2. \A q \in Projects : status'[q] # "none" => child'[q][Schedule] # "absent"
    BY <1>2, <1>4 DEF ArtifactInv, RowsBuilt
  <2>3. ASSUME NEW q \in Projects, NEW x \in Parts
        PROVE  /\ child'[q][x] = "deploying" => content'[q][x] # 0
               /\ status'[q] \in Activated /\ child'[q][x] # "absent" =>
                    content'[q][x] # 0 /\ frozen'[q][x] # 0
    <3>1. CASE q = p /\ x = y
      BY <1>1, <1>2, <1>3, <1>4, <3>1 DEF ArtifactInv, RowsBuilt
    <3>2. CASE ~(q = p /\ x = y)
      BY <1>2, <1>3, <1>4, <3>2 DEF ArtifactInv, RowsBuilt
    <3> QED  BY <3>1, <3>2
  <2> QED  BY <2>1, <2>2, <2>3 DEF RowsBuilt
<1> QED
  BY <1>5, <1>6, TogetherStays

LEMMA BuildArtifacts ==
  ASSUME FullInv, NEW w \in Workers, BuildStep(w)
  PROVE  RowsBuilt' /\ Keeps /\ Together' /\ MovesTogether
<1> DEFINE p == worker[w].id
<1>1. worker[w].pc # "idle" /\ UNCHANGED draft /\ draft # 0
  BY DEF BuildStep, ResolveEndpoint, ResolveSchedule, MarkEndpointBuilding, StoreArtifact,
      FinalizeArtifact, FinalizeFails, BuildFails, MarkFailed, FinalizeFailure,
      JobCompletes, JobRejects, FullInv, ArtifactInv, RowsBuilt
<1>2. p \in Dev /\ p \in Projects /\ status[p] # "none"
  BY <1>1, ConstantFacts DEF FullInv, IInv, Lifecycle, BuildSound
<1>3. "building" \in RowStatus /\ "deploying" \in RowStatus /\ "failed" \in RowStatus
  BY DEF RowStatus
<1>4. CASE Finalize(p)
  BY <1>1, <1>2, <1>4, FinalizeArtifacts
<1>5. CASE UNCHANGED rows
  BY <1>1, <1>5, ArtifactsStay
<1>6. CASE ResolveEndpoint(w)
  <2>1. UNCHANGED <<child, content, frozen, pointer, epActive>> /\ MarkProjectBuilding(p)
    BY <1>6 DEF ResolveEndpoint
  <2>2. \A q \in Projects : /\ status'[q] \in Activated <=> status[q] \in Activated
                            /\ status'[q] = "none" <=> status[q] = "none"
    BY <2>1 DEF MarkProjectBuilding, Activated, FullInv, IInv, TypeInv, TypeOK, RowsTypeOK
  <2>3. Keeps
    BY <2>1, <2>2 DEF Keeps, SamePresent
  <2>4. RowsBuilt'
    BY <1>1, <2>1, <2>2 DEF FullInv, ArtifactInv, RowsBuilt
  <2> QED  BY <2>1, <2>3, <2>4, TogetherStays
<1>7. CASE MarkEndpointBuilding(w)
  BY <1>1, <1>3, <1>7, SetChildArtifacts DEF MarkEndpointBuilding
<1>8. CASE ResolveSchedule(w)
  BY <1>1, <1>3, <1>8, SetChildArtifacts DEF ResolveSchedule
<1>9. CASE StoreArtifact(w)
  <2>1. worker[w].seen # 0
    BY <1>9 DEF StoreArtifact, FullInv, ArtifactInv, WorkBuilt
  <2> QED  BY <1>1, <1>3, <1>9, <2>1, SetChildArtifacts DEF StoreArtifact
<1>10. CASE MarkFailed(w)
  <2>1. CASE UNCHANGED child
    BY <1>5, <1>10, <2>1 DEF MarkFailed, rows
  <2>2. CASE SetChild(w, "failed")
    BY <1>1, <1>3, <1>10, <2>2, SetChildArtifacts DEF MarkFailed
  <2> QED  BY <1>10, <2>1, <2>2 DEF MarkFailed
<1> QED
  BY <1>4, <1>5, <1>6, <1>7, <1>8, <1>9, <1>10
  DEF BuildStep, FinalizeArtifact, FinalizeFails, BuildFails, FinalizeFailure,
      JobCompletes, JobRejects

LEMMA RequestArtifacts ==
  ASSUME FullInv, NEW o \in Operators, RequestStep(o)
  PROVE  RowsBuilt' /\ Keeps /\ Together' /\ MovesTogether
<1>1. CASE EnableCommit(o)
  <2>1. UNCHANGED <<status, child, content, frozen, pointer, epActive, draft>>
    BY <1>1 DEF EnableCommit
  <2>2. Keeps /\ RowsBuilt'
    BY <2>1 DEF Keeps, SamePresent, FullInv, ArtifactInv, RowsBuilt
  <2> QED  BY <2>1, <2>2, TogetherStays
<1>2. CASE UNCHANGED <<rows, draft>>
  BY <1>2, ArtifactsStay DEF FullInv, ArtifactInv, RowsBuilt
<1> QED
  BY <1>1, <1>2, DeployArtifacts, RollbackArtifacts, ReleaseArtifacts
  DEF RequestStep, DeployRead, Enqueue, RollbackRead, ReleaseRead, ReleaseVersion,
      ReleaseAbort, EnableRead, RequestCrash

(* What the other requests and the workers hold stays true of the rows. *)
LEMMA RequestBuiltKept ==
  ASSUME FullInv, Keeps, NEW o \in Operators
  PROVE  RequestBuilt(op[o], child')
<1>1. op[o] \in Request /\ RequestSound(op[o], status) /\ RequestBuilt(op[o], child)
  BY DEF FullInv, IInv, TypeInv, TypeOK, Lifecycle, RequestsSound, ArtifactInv, RequestsBuilt
<1>2. op[o].parts \subseteq Parts
  BY <1>1 DEF Request
<1>3. op[o].kind = "enqueue" => SamePresent(op[o].id)
  BY <1>1, ConstantFacts DEF RequestSound, Keeps
<1>4. op[o].kind = "rollback" => SamePresent(op[o].id)
  BY <1>1 DEF RequestSound, Keeps, Activated
<1>5. op[o].kind = "enqueue" => \A x \in op[o].parts : child'[op[o].id][x] # "absent"
  BY <1>1, <1>2, <1>3 DEF RequestBuilt, SamePresent
<1>6. op[o].kind = "rollback" => op[o].parts = {x \in Parts : child'[op[o].id][x] # "absent"}
  BY <1>1, <1>4 DEF RequestBuilt, SamePresent
<1> QED  BY <1>1, <1>5, <1>6 DEF RequestBuilt

LEMMA WorkBuiltKept ==
  ASSUME FullInv, Keeps,
         \A v \in Workers : worker'[v].pc # "idle" =>
           \/ /\ worker[v].pc # "idle"
              /\ worker'[v].id = worker[v].id /\ worker'[v].part = worker[v].part
              /\ worker'[v].pc \in {"resolved", "bundling"} => worker'[v].seen # 0
           \/ worker'[v].pc = "claimed"
              /\ job[worker'[v].id][worker'[v].part].state # "none"
              /\ worker'[v].id \in Projects /\ worker'[v].part \in Parts,
         \A p \in Projects, x \in Parts :
           job'[p][x].state # "none" => job[p][x].state # "none" \/ child'[p][x] # "absent"
  PROVE  WorkBuilt'
<1>1. \A p \in Projects, x \in Parts : job[p][x].state # "none" => child'[p][x] # "absent"
  BY DEF FullInv, IInv, Lifecycle, BuildSound, ArtifactInv, WorkBuilt, Keeps, SamePresent
<1>2. \A v \in Workers : worker[v].pc # "idle" => child'[worker[v].id][worker[v].part] # "absent"
  <2> SUFFICES ASSUME NEW v \in Workers, worker[v].pc # "idle"
               PROVE  child'[worker[v].id][worker[v].part] # "absent"
    OBVIOUS
  <2>1. worker[v].id \in Projects /\ status[worker[v].id] # "none" /\ worker[v].part \in Parts
    BY ConstantFacts DEF FullInv, IInv, Lifecycle, BuildSound, TypeInv, TypeOK, Slot
  <2>2. child[worker[v].id][worker[v].part] # "absent"
    BY DEF FullInv, ArtifactInv, WorkBuilt
  <2> QED  BY <2>1, <2>2 DEF Keeps, SamePresent
<1>3. ASSUME NEW v \in Workers
      PROVE  /\ worker'[v].pc # "idle" => child'[worker'[v].id][worker'[v].part] # "absent"
             /\ worker'[v].pc \in {"resolved", "bundling"} => worker'[v].seen # 0
  BY <1>1, <1>2
<1> QED  BY <1>1, <1>3 DEF WorkBuilt

LEMMA RequestHoldsBuilt ==
  ASSUME FullInv, NEW o \in Operators, RequestStep(o)
  PROVE  RequestsBuilt'
<1> USE ConstantFacts DEF FullInv, IInv, TypeInv, TypeOK
<1>0. op \in [Operators -> Request] /\ op[o] \in Request /\ Keeps
  BY RequestArtifacts
<1>1. ASSUME NEW r, op' = [op EXCEPT ![o] = r], RequestBuilt(r, child')
      PROVE  RequestsBuilt'
  BY <1>0, <1>1, RequestBuiltKept DEF RequestsBuilt
<1>2. RequestBuilt(NoOp, child')
  BY DEF RequestBuilt, NoOp
<1>3. CASE DeployRead(o)
  <2> PICK p \in Dev :
        op' = [op EXCEPT ![o] = [NoOp EXCEPT !.kind = "deploy", !.id = p,
                !.parts = Deployable \cup {Schedule},
                !.known = {q \in Projects : status[q] # "none"}]]
    BY <1>3 DEF DeployRead
  <2> DEFINE ps == Deployable \cup {Schedule}
             r == [NoOp EXCEPT !.kind = "deploy", !.id = p, !.parts = ps,
                               !.known = {q \in Projects : status[q] # "none"}]
  <2>1. r.kind = "deploy" /\ r.parts = ps /\ Schedule \in ps
    BY DEF NoOp
  <2> HIDE DEF r
  <2>2. RequestBuilt(r, child')
    BY <2>1 DEF RequestBuilt
  <2> QED  BY <1>1, <2>2 DEF r
<1>4. CASE DeployCommit(o)
  <2>1. CASE op' = [op EXCEPT ![o] = NoOp]
    BY <1>1, <1>2, <2>1
  <2>2. CASE /\ op' = [op EXCEPT ![o].kind = "enqueue", ![o].known = {}]
             /\ child' = [child EXCEPT ![op[o].id] =
                            [x \in Parts |-> IF x \in op[o].parts THEN "queued" ELSE "absent"]]
    <3> DEFINE r == [op[o] EXCEPT !.kind = "enqueue", !.known = {}]
    <3>1. r.kind = "enqueue" /\ r.id = op[o].id /\ r.parts = op[o].parts
            /\ op[o].parts \subseteq Parts
      BY <1>0 DEF Request
    <3>2. op[o].id \in Dev
      BY <1>4 DEF DeployCommit, Lifecycle, RequestsSound, RequestSound
    <3>3. \A x \in op[o].parts : child'[op[o].id][x] = "queued"
      BY <2>2, <3>1, <3>2 DEF RowsTypeOK
    <3>4. op' = [op EXCEPT ![o] = r]
      BY <1>0, <2>2
    <3> HIDE DEF r
    <3>5. RequestBuilt(r, child')
      BY <3>1, <3>3 DEF RequestBuilt
    <3> QED  BY <1>1, <3>4, <3>5
  <2> QED  BY <1>4, <2>1, <2>2 DEF DeployCommit
<1>5. ASSUME NEW x \in Parts, Enqueue(o, x)
      PROVE  RequestsBuilt'
  <2> DEFINE r == [op[o] EXCEPT !.parts = @ \ {x}]
  <2>1. r.kind = "enqueue" /\ r.id = op[o].id /\ r.parts = op[o].parts \ {x}
    BY <1>0, <1>5 DEF Request, Enqueue
  <2>2. RequestBuilt(op[o], child') /\ op[o].kind = "enqueue"
    BY <1>0, <1>5, RequestBuiltKept DEF Enqueue
  <2>3. op' = [op EXCEPT ![o] = r] \/ op' = [op EXCEPT ![o] = NoOp]
    BY <1>5 DEF Enqueue
  <2> HIDE DEF r
  <2>4. RequestBuilt(r, child')
    BY <2>1, <2>2 DEF RequestBuilt
  <2> QED  BY <1>1, <1>2, <2>3, <2>4
<1>6. CASE RollbackRead(o)
  <2> PICK p \in Projects :
        op' = [op EXCEPT ![o] = [NoOp EXCEPT !.kind = "rollback", !.id = p,
                                  !.live = pointer[EnvOf(p)], !.parts = Present(p)]]
    BY <1>6 DEF RollbackRead
  <2> DEFINE r == [NoOp EXCEPT !.kind = "rollback", !.id = p,
                               !.live = pointer[EnvOf(p)], !.parts = Present(p)]
  <2>1. r.kind = "rollback" /\ r.id = p /\ r.parts = Present(p) /\ UNCHANGED child
    BY <1>6 DEF NoOp, RollbackRead, rows
  <2> HIDE DEF r
  <2>2. RequestBuilt(r, child')
    BY <2>1 DEF RequestBuilt, Present
  <2> QED  BY <1>1, <2>2 DEF r
<1>7. CASE ReleaseRead(o)
  <2> PICK s \in Dev :
        /\ ReleaseSource(s)
        /\ op' = [op EXCEPT ![o] = [NoOp EXCEPT !.kind = "sourced", !.source = s,
                                     !.live = pointer["production"],
                                     !.parts = Present(s), !.copy = content[s]]]
    BY <1>7 DEF ReleaseRead
  <2> DEFINE r == [NoOp EXCEPT !.kind = "sourced", !.source = s,
                               !.live = pointer["production"],
                               !.parts = Present(s), !.copy = content[s]]
  <2>1. r.kind = "sourced" /\ r.parts = Present(s) /\ r.copy = content[s]
    BY DEF NoOp
  <2> HIDE DEF r
  <2>2. status[s] \in Activated /\ status[s] # "none" /\ s \in Projects
    BY DEF ReleaseSource, Activated
  <2>3. Schedule \in Present(s) /\ \A x \in Present(s) : content[s][x] # 0
    BY <2>2 DEF Present, ArtifactInv, RowsBuilt
  <2>4. RequestBuilt(r, child')
    BY <2>1, <2>3 DEF RequestBuilt
  <2> QED  BY <1>1, <2>4 DEF r
<1>8. CASE ReleaseVersion(o)
  <2> PICK p \in Prod : op' = [op EXCEPT ![o].kind = "release", ![o].id = p]
    BY <1>8 DEF ReleaseVersion
  <2> DEFINE r == [op[o] EXCEPT !.kind = "release", !.id = p]
  <2>1. r.kind = "release" /\ r.parts = op[o].parts /\ r.copy = op[o].copy
    BY <1>0 DEF Request
  <2>2. RequestBuilt(op[o], child') /\ op[o].kind = "sourced"
    BY <1>0, <1>8, RequestBuiltKept DEF ReleaseVersion
  <2>3. op' = [op EXCEPT ![o] = r]
    BY <1>0
  <2> HIDE DEF r
  <2>4. RequestBuilt(r, child')
    BY <2>1, <2>2 DEF RequestBuilt
  <2> QED  BY <1>1, <2>3, <2>4
<1>9. ASSUME NEW e \in Endpoints, EnableRead(o, e)
      PROVE  RequestsBuilt'
  <2> DEFINE r == [NoOp EXCEPT !.kind = "enable", !.parts = {e}, !.live = epActive[e]]
  <2>1. r.kind = "enable"
    BY DEF NoOp
  <2>2. op' = [op EXCEPT ![o] = r]
    BY <1>9 DEF EnableRead
  <2> HIDE DEF r
  <2> QED  BY <1>1, <2>1, <2>2 DEF RequestBuilt
<1>10. CASE RollbackCommit(o) \/ ReleaseCommit(o) \/ ReleaseAbort(o) \/ EnableCommit(o)
             \/ RequestCrash(o)
  BY <1>1, <1>2, <1>10 DEF RollbackCommit, RollbackTransaction, ReleaseCommit, ReleaseAbort,
              EnableCommit, RequestCrash
<1> QED
  BY <1>3, <1>4, <1>5, <1>6, <1>7, <1>8, <1>9, <1>10 DEF RequestStep

LEMMA RequestWork ==
  ASSUME FullInv, NEW o \in Operators, RequestStep(o)
  PROVE  WorkBuilt'
<1>0. worker \in [Workers -> Slot] /\ job \in [Projects -> [Parts -> Job]] /\ Keeps
  BY RequestArtifacts DEF FullInv, IInv, TypeInv, TypeOK
<1>1. UNCHANGED worker
  BY DEF RequestStep, DeployRead, DeployCommit, Enqueue, RollbackRead, RollbackCommit,
      RollbackTransaction, ReleaseRead, ReleaseVersion, ReleaseCommit, ReleaseAbort,
      EnableRead, EnableCommit, RequestCrash
<1>2. \A v \in Workers : worker'[v].pc # "idle" =>
        /\ worker[v].pc # "idle"
        /\ worker'[v].id = worker[v].id /\ worker'[v].part = worker[v].part
        /\ worker'[v].pc \in {"resolved", "bundling"} => worker'[v].seen # 0
  BY <1>1 DEF FullInv, ArtifactInv, WorkBuilt
<1>3. ASSUME NEW p \in Projects, NEW y \in Parts, job'[p][y].state # "none"
      PROVE  job[p][y].state # "none" \/ child'[p][y] # "absent"
  <2>1. CASE UNCHANGED job
    BY <1>3, <2>1
  <2>2. ASSUME NEW x \in Parts, Enqueue(o, x), job[p][y].state = "none"
        PROVE  child'[p][y] # "absent"
    <3>1. op[o].id \in Projects /\ x \in op[o].parts /\ UNCHANGED child
      BY <2>2, ConstantFacts
      DEF Enqueue, FullInv, IInv, Lifecycle, RequestsSound, RequestSound, rows
    <3>2. p = op[o].id /\ y = x
      BY <1>0, <1>3, <2>2, <3>1 DEF Enqueue
    <3>3. child[op[o].id][x] # "absent"
      BY <2>2, <3>1 DEF Enqueue, FullInv, ArtifactInv, RequestsBuilt, RequestBuilt
    <3> QED  BY <3>1, <3>2, <3>3
  <2> QED
    BY <2>1, <2>2
    DEF RequestStep, DeployRead, DeployCommit, RollbackRead, RollbackCommit,
      RollbackTransaction, ReleaseRead, ReleaseVersion, ReleaseCommit, ReleaseAbort,
      EnableRead, EnableCommit, RequestCrash
<1> QED
  BY <1>0, <1>2, <1>3, WorkBuiltKept

LEMMA BuildWork ==
  ASSUME FullInv, NEW w \in Workers, BuildStep(w)
  PROVE  WorkBuilt'
<1>0. worker \in [Workers -> Slot] /\ Keeps /\ draft # 0
  BY BuildArtifacts DEF FullInv, IInv, TypeInv, TypeOK, ArtifactInv, RowsBuilt
<1>1. worker[w].pc # "idle"
  BY DEF BuildStep, ResolveEndpoint, ResolveSchedule, MarkEndpointBuilding, StoreArtifact,
      FinalizeArtifact, FinalizeFails, BuildFails, MarkFailed, FinalizeFailure,
      JobCompletes, JobRejects
<1>2. \A p \in Projects, x \in Parts : job'[p][x].state # "none" => job[p][x].state # "none"
  BY BuildStepKeeps DEF FullInv
<1>3. \A v \in Workers : v # w => worker'[v] = worker[v]
  BY <1>0 DEF BuildStep, ResolveEndpoint, ResolveSchedule, MarkEndpointBuilding, StoreArtifact,
      FinalizeArtifact, FinalizeFails, BuildFails, MarkFailed, FinalizeFailure,
      JobCompletes, JobRejects, Goto
<1>4. \/ \E pc \in {"stored", "done", "failing", "failed", "rejected"} : Goto(w, pc)
      \/ worker[w].pc = "resolved" /\ Goto(w, "bundling")
      \/ \E pc \in {"resolved", "bundling"} : worker' = [worker EXCEPT ![w].pc = pc, ![w].seen = draft]
      \/ worker' = [worker EXCEPT ![w] = Resting]
  BY DEF BuildStep, ResolveEndpoint, ResolveSchedule, MarkEndpointBuilding, StoreArtifact,
      FinalizeArtifact, FinalizeFails, BuildFails, MarkFailed, FinalizeFailure,
      JobCompletes, JobRejects, AfterFinalizeError
<1>5. worker'[w].pc # "idle" =>
        /\ worker'[w].id = worker[w].id /\ worker'[w].part = worker[w].part
        /\ worker'[w].pc \in {"resolved", "bundling"} => worker'[w].seen # 0
  <2>0. worker[w] \in Slot
    BY <1>0
  <2>1. ASSUME NEW pc \in {"stored", "done", "failing", "failed", "rejected"}, Goto(w, pc)
        PROVE  worker'[w] = [worker[w] EXCEPT !.pc = pc]
    BY <1>0, <2>1 DEF Goto
  <2>2. ASSUME NEW pc \in {"stored", "done", "failing", "failed", "rejected"}, Goto(w, pc)
        PROVE  /\ worker'[w].id = worker[w].id /\ worker'[w].part = worker[w].part
               /\ worker'[w].pc = pc
    BY <2>0, <2>1, <2>2 DEF Slot
  <2>3. CASE worker[w].pc = "resolved" /\ Goto(w, "bundling")
    <3>1. worker'[w] = [worker[w] EXCEPT !.pc = "bundling"]
      BY <1>0, <2>3 DEF Goto
    <3>2. worker[w].seen # 0
      BY <2>3 DEF FullInv, ArtifactInv, WorkBuilt
    <3> QED  BY <2>0, <3>1, <3>2 DEF Slot
  <2>4. ASSUME NEW pc \in {"resolved", "bundling"},
               worker' = [worker EXCEPT ![w].pc = pc, ![w].seen = draft]
        PROVE  /\ worker'[w].id = worker[w].id /\ worker'[w].part = worker[w].part
               /\ worker'[w].seen = draft
    <3>1. worker'[w] = [worker[w] EXCEPT !.pc = pc, !.seen = draft]
      BY <1>0, <2>4
    <3> QED  BY <2>0, <3>1 DEF Slot
  <2>5. CASE worker' = [worker EXCEPT ![w] = Resting]
    BY <1>0, <2>5 DEF Resting
  <2> QED  BY <1>0, <1>4, <2>2, <2>3, <2>4, <2>5
<1>6. \A v \in Workers : worker'[v].pc # "idle" =>
        /\ worker[v].pc # "idle"
        /\ worker'[v].id = worker[v].id /\ worker'[v].part = worker[v].part
        /\ worker'[v].pc \in {"resolved", "bundling"} => worker'[v].seen # 0
  BY <1>1, <1>3, <1>5 DEF FullInv, ArtifactInv, WorkBuilt
<1> QED
  BY <1>0, <1>2, <1>6, WorkBuiltKept

LEMMA QueueWork ==
  ASSUME FullInv, QueueStep
  PROVE  WorkBuilt'
<1>0. worker \in [Workers -> Slot] /\ job \in [Projects -> [Parts -> Job]]
  BY DEF FullInv, IInv, TypeInv, TypeOK
<1>1. Keeps
  BY DEF QueueStep, TakeJob, JobStalls, WorkerCrash, rows, Keeps, SamePresent
<1>2. \A v \in Workers : worker[v].pc \in {"resolved", "bundling"} => worker[v].seen # 0
  BY DEF FullInv, ArtifactInv, WorkBuilt
<1>3. ASSUME NEW w \in Workers, NEW p \in Dev, NEW x \in Parts, TakeJob(w, p, x)
      PROVE  WorkBuilt'
  <2>1. \A v \in Workers : v # w => worker'[v] = worker[v]
    BY <1>0, <1>3 DEF TakeJob
  <2>2. worker'[w].pc = "claimed" /\ worker'[w].id = p /\ worker'[w].part = x
          /\ job[p][x].state # "none" /\ p \in Projects
    BY <1>0, <1>3, ConstantFacts DEF TakeJob
  <2>3. \A q \in Projects, y \in Parts : job'[q][y].state # "none" => job[q][y].state # "none"
    BY <1>0, <1>3, <2>2, ConstantFacts DEF TakeJob
  <2> QED
    BY <1>1, <1>2, <2>1, <2>2, <2>3, WorkBuiltKept
<1>4. ASSUME NEW p \in Dev, NEW x \in Parts, JobStalls(p, x)
      PROVE  WorkBuilt'
  <2>1. UNCHANGED worker /\ job[p][x].state # "none" /\ p \in Projects
    BY <1>4, ConstantFacts DEF JobStalls
  <2>2. \E r : job' = [job EXCEPT ![p][x] = r]
    BY <1>4 DEF JobStalls
  <2>3. \A q \in Projects, y \in Parts : job'[q][y].state # "none" => job[q][y].state # "none"
    BY <1>0, <2>1, <2>2
  <2> QED
    BY <1>1, <1>2, <2>1, <2>3, WorkBuiltKept
<1>5. ASSUME NEW w \in Workers, WorkerCrash(w)
      PROVE  WorkBuilt'
  <2>1. \A v \in Workers : worker'[v].pc # "idle" => worker'[v] = worker[v]
    BY <1>0, <1>5 DEF WorkerCrash, Resting
  <2>2. UNCHANGED job
    BY <1>5 DEF WorkerCrash
  <2> QED
    BY <1>1, <1>2, <2>1, <2>2, WorkBuiltKept
<1> QED
  BY <1>3, <1>4, <1>5 DEF QueueStep

LEMMA NextArtifacts == FullInv /\ [Next]_vars => FullInv' /\ (MovesTogether \/ UNCHANGED vars)
<1> SUFFICES ASSUME FullInv, [Next]_vars
             PROVE  ArtifactInv' /\ (MovesTogether \/ UNCHANGED vars)
  BY NextLifecycle DEF FullInv
<1>1. ASSUME NEW o \in Operators, RequestStep(o)
      PROVE  ArtifactInv' /\ MovesTogether
  BY <1>1, RequestArtifacts, RequestHoldsBuilt, RequestWork DEF ArtifactInv
<1>2. ASSUME NEW w \in Workers, BuildStep(w)
      PROVE  ArtifactInv' /\ MovesTogether
  <2>1. UNCHANGED op
    BY <1>2
    DEF BuildStep, ResolveEndpoint, ResolveSchedule, MarkEndpointBuilding, StoreArtifact,
        FinalizeArtifact, FinalizeFails, BuildFails, MarkFailed, FinalizeFailure,
        JobCompletes, JobRejects
  <2>2. RequestsBuilt'
    BY <1>2, <2>1, BuildArtifacts, RequestBuiltKept DEF RequestsBuilt
  <2> QED
    BY <1>2, <2>2, BuildArtifacts, BuildWork DEF ArtifactInv
<1>3. CASE (SaveDraft \/ (\E e \in Endpoints : Disable(e)) \/ Archive)
  <2>1. /\ UNCHANGED <<status, child, content, frozen, pointer, epActive, worker, job, op>>
        /\ draft' # 0
    BY <1>3, BoundsAssumption
    DEF SaveDraft, Disable, Archive, rows, FullInv, ArtifactInv, RowsBuilt, IInv, TypeInv,
        TypeOK, Built
  <2>2. Keeps /\ RowsBuilt'
    BY <2>1 DEF Keeps, SamePresent, FullInv, ArtifactInv, RowsBuilt
  <2>3. RequestsBuilt' /\ WorkBuilt'
    BY <2>1 DEF FullInv, ArtifactInv, RequestsBuilt, WorkBuilt
  <2> QED
    BY <2>1, <2>2, <2>3, TogetherStays DEF ArtifactInv
<1>4. CASE QueueStep
  <2>1. UNCHANGED <<rows, draft, op>>
    BY <1>4 DEF QueueStep, TakeJob, JobStalls, WorkerCrash
  <2>2. RowsBuilt' /\ Keeps /\ Together' /\ MovesTogether
    BY <2>1, ArtifactsStay DEF FullInv, ArtifactInv, RowsBuilt
  <2>3. RequestsBuilt'
    BY <2>1, <2>2, RequestBuiltKept DEF RequestsBuilt
  <2> QED
    BY <1>4, <2>2, <2>3, QueueWork DEF ArtifactInv
<1>5. CASE UNCHANGED vars
  BY <1>5 DEF vars, rows, FullInv, ArtifactInv, RowsBuilt, RequestsBuilt, WorkBuilt, Together
<1> QED
  BY <1>1, <1>2, <1>3, <1>4, <1>5 DEF Next

LEMMA ArtifactsHold == Spec => []FullInv
<1>1. Init => FullInv
  BY InitType, InitLifecycle, InitArtifacts DEF FullInv, IInv
<1> QED
  BY <1>1, NextArtifacts, PTL DEF Spec

(* What an environment points at is complete, whatever is delivered twice,  *)
(* crashes or is retried.                                                   *)
THEOREM LiveStaysBuilt == Spec => []LiveIsFullyBuilt
<1>1. FullInv => LiveIsFullyBuilt
  <2> SUFFICES ASSUME FullInv, NEW v \in Envs, pointer[v] # None
               PROVE  /\ completed[pointer[v]]
                      /\ \A x \in Present(pointer[v]) :
                           frozen[pointer[v]][x] # 0 /\ content[pointer[v]][x] # 0
    BY DEF LiveIsFullyBuilt
  <2>1. pointer[v] \in Projects /\ status[pointer[v]] = "active"
    BY DEF FullInv, IInv, TypeInv, TypeOK, RowsTypeOK, Lifecycle, RowsLifecycle, Ref
  <2>2. completed[pointer[v]]
    BY <2>1 DEF FullInv, IInv, Lifecycle, RowsLifecycle, Done
  <2>3. \A x \in Present(pointer[v]) :
          frozen[pointer[v]][x] # 0 /\ content[pointer[v]][x] # 0
    BY <2>1 DEF Present, FullInv, ArtifactInv, RowsBuilt, Activated
  <2> QED  BY <2>2, <2>3
<1> QED
  BY <1>1, ArtifactsHold, PTL

(* The endpoints of the live development deployment all serve its own       *)
(* artifacts, whatever requests, finalizations and releases race.           *)
THEOREM PointersStayTogether == Spec => []PointersAgree
<1>1. FullInv => PointersAgree
  BY ConstantFacts DEF FullInv, ArtifactInv, Together, PointersAgree, Present
<1> QED
  BY <1>1, ArtifactsHold, PTL

(* A step that moves one endpoint to a deployment moves the environment and *)
(* every other endpoint of that deployment to it: activation and rollback   *)
(* are atomic at the Project level.                                         *)
THEOREM ActivationIsAtomic == Spec => AtomicActivation
<1>1. FullInv /\ [Next]_vars => [MovesTogether]_vars
  BY NextArtifacts
<1> QED
  BY <1>1, ArtifactsHold, PTL DEF Spec, AtomicActivation

-----------------------------------------------------------------------------
(* From here on every build job is delivered once and every statement of a  *)
(* build that is executed is also answered. Requests may still crash        *)
(* between their transaction and the last queue.add, and failed builds are  *)
(* still retried.                                                           *)
DeliveredOnce == Faults \subseteq {"apiCrash"}

(* A worker runs the job it owns, and an active job is run by its owner. *)
Owned ==
  /\ \A w \in Workers : worker[w].pc # "idle" =>
       job[worker[w].id][worker[w].part].state = "active"
         /\ job[worker[w].id][worker[w].part].owner = w
  /\ \A p \in Dev, x \in Parts : job[p][x].state = "active" =>
       job[p][x].owner \in Workers /\ Runs(job[p][x].owner, p, x)

(* While a deployment is pending, how far a job is decides what its         *)
(* artifact's row says; once it is activated nothing is left to build.      *)
Pending == {"queued", "building"}
InStep == {<<"claimed", "queued">>, <<"resolved", "queued">>, <<"bundling", "building">>,
           <<"stored", "deploying">>, <<"done", "deploying">>,
           <<"failing", "queued">>, <<"failing", "building">>, <<"failed", "failed">>}

CellInStep(p, x) ==
  LET j == job[p][x] IN
    \/ status[p] = "failed"
    \/ /\ status[p] \in Activated
       /\ \/ j.state = "completed"
          \/ j.state = "active" /\ worker[j.owner].pc \in {"stored", "done"}
    \/ /\ status[p] \in Pending
       /\ \/ j.state \in {"none", "waiting"} /\ child[p][x] = "queued"
          \/ j.state = "completed" /\ child[p][x] = "deploying"
          \/ j.state = "active" /\ <<worker[j.owner].pc, child[p][x]>> \in InStep

Cells == \A p \in Dev, x \in Parts :
           status[p] # "none" /\ child[p][x] # "absent" => CellInStep(p, x)

Sealed == \A p \in Projects : status[p] \in Activated => content[p] = frozen[p]
LiveArtifacts ==
  \A v \in Envs : pointer[v] # None =>
    \A x \in Parts : child[pointer[v]][x] \in {"active", "absent"}
ServedDev == \A e \in Endpoints : epActive[e] # None => epActive[e] \in Dev
Released ==
  \A p \in Prod : status[p] # "none" =>
    /\ status[p] \in Activated /\ source[p] \in Dev
    /\ status[source[p]] \in Activated /\ frozen[p] = frozen[source[p]]

RowsOnce == Sealed /\ LiveArtifacts /\ ServedDev /\ Released

CopySound(r, st, fr) ==
  r.kind \in {"sourced", "release"} =>
    r.source \in Dev /\ st[r.source] \in Activated /\ r.copy = fr[r.source]
Copies == \A o \in Operators : CopySound(op[o], status, frozen)

OnceInv == DeliveredOnce /\ Owned /\ Cells /\ RowsOnce /\ Copies
AllInv == FullInv /\ OnceInv

LEMMA InitOnce == DeliveredOnce /\ Init => OnceInv
<1> SUFFICES ASSUME DeliveredOnce, Init PROVE OnceInv
  OBVIOUS
<1>1. Owned
  BY ConstantFacts DEF Init, Owned, Resting, NoJob
<1>2. Cells
  BY ConstantFacts DEF Init, Cells
<1>3. RowsOnce
  BY ConstantFacts DEF Init, RowsOnce, Sealed, LiveArtifacts, ServedDev, Released, Activated
<1>4. Copies
  BY DEF Init, Copies, CopySound, NoOp
<1> QED
  BY <1>1, <1>2, <1>3, <1>4 DEF OnceInv

(* What was activated keeps its content and its frozen snapshot. *)
SealedStay ==
  \A p \in Projects : status[p] \in Activated =>
    /\ status'[p] \in Activated
    /\ content'[p] = content[p] /\ frozen'[p] = frozen[p] /\ source'[p] = source[p]

LEMMA CopiesKept ==
  ASSUME AllInv, SealedStay, NEW o \in Operators
  PROVE  CopySound(op[o], status', frozen')
  BY ConstantFacts DEF AllInv, OnceInv, Copies, CopySound, SealedStay

(* A step that activates nothing leaves what is sealed, live and released   *)
(* as it is.                                                                *)
LEMMA RowsOnceStay ==
  ASSUME AllInv, SealedStay, UNCHANGED <<pointer, epActive>>,
         \A p \in Projects : status'[p] \in Activated => status[p] \in Activated,
         \A p \in Prod : status'[p] # "none" => status[p] # "none",
         \A p \in Projects : status[p] = "active" => child'[p] = child[p]
  PROVE  RowsOnce'
<1> USE ConstantFacts DEF AllInv, OnceInv, RowsOnce
<1>1. Sealed'
  BY DEF Sealed, SealedStay
<1>2. LiveArtifacts'
  <2> SUFFICES ASSUME NEW v \in Envs, pointer[v] # None
               PROVE  \A x \in Parts : child'[pointer[v]][x] \in {"active", "absent"}
    BY DEF LiveArtifacts
  <2>1. pointer[v] \in Projects /\ status[pointer[v]] = "active"
    BY DEF FullInv, IInv, TypeInv, TypeOK, RowsTypeOK, Lifecycle, RowsLifecycle, Ref
  <2> QED  BY <2>1 DEF LiveArtifacts
<1>3. ServedDev'
  BY DEF ServedDev
<1>4. Released'
  BY DEF Released, SealedStay
<1> QED  BY <1>1, <1>2, <1>3, <1>4

LEMMA DeployOnce ==
  ASSUME AllInv, NEW o \in Operators, DeployCommit(o)
  PROVE  SealedStay /\ RowsOnce' /\ Cells'
<1> USE ConstantFacts DEF AllInv, FullInv, IInv, TypeInv, TypeOK, RowsTypeOK
<1> DEFINE p == op[o].id
           new == [x \in Parts |-> IF x \in op[o].parts THEN "queued" ELSE "absent"]
<1>0. UNCHANGED <<completed, source, frozen, content, pointer, epActive, job, worker>>
  BY DEF DeployCommit
<1>1. CASE UNCHANGED <<status, child>>
  <2>1. SealedStay
    BY <1>0, <1>1 DEF SealedStay
  <2>2. Cells'
    BY <1>0, <1>1 DEF OnceInv, Cells, CellInStep
  <2> QED  BY <1>0, <1>1, <2>1, <2>2, RowsOnceStay
<1>2. CASE /\ VersionsFree(o) /\ status' = [status EXCEPT ![p] = "queued"]
           /\ child' = [child EXCEPT ![p] = new]
  <2>1. p \in Dev /\ p \in Projects /\ p \notin Prod /\ status[p] = "none"
    BY <1>2 DEF DeployCommit, VersionsFree, Lifecycle, RequestsSound, RequestSound
  <2>2. \A x \in Parts : new[x] \in {"queued", "absent"} /\ job[p][x].state = "none"
    BY <2>1 DEF Lifecycle, BuildSound
  <2> HIDE DEF new, p
  <2>3. \A q \in Projects : q # p => status'[q] = status[q] /\ child'[q] = child[q]
    BY <1>2
  <2>4. status'[p] = "queued" /\ child'[p] = new
    BY <1>2, <2>1
  <2>5. SealedStay
    BY <1>0, <2>1, <2>3 DEF SealedStay, Activated
  <2>6. RowsOnce'
    BY <1>0, <2>1, <2>3, <2>4, <2>5, RowsOnceStay DEF Activated
  <2>7. Cells'
    <3> SUFFICES ASSUME NEW q \in Dev, NEW x \in Parts, status'[q] # "none", child'[q][x] # "absent"
                 PROVE  CellInStep(q, x)'
      BY DEF Cells
    <3>1. CASE q = p
      BY <1>0, <2>2, <2>4, <3>1 DEF CellInStep, Pending
    <3>2. CASE q # p
      BY <1>0, <2>3, <3>2 DEF OnceInv, Cells, CellInStep
    <3> QED  BY <3>1, <3>2
  <2> QED  BY <2>5, <2>6, <2>7
<1> QED
  BY <1>1, <1>2 DEF DeployCommit

LEMMA RollbackOnce ==
  ASSUME AllInv, NEW o \in Operators, RollbackCommit(o)
  PROVE  SealedStay /\ RowsOnce' /\ Cells'
<1> USE ConstantFacts DEF AllInv, FullInv, IInv, TypeInv, TypeOK, RowsTypeOK
<1> DEFINE target == op[o].id
           old == op[o].live
<1>1. /\ target \in Projects /\ status[target] \in Activated
      /\ old # None => EnvOf(old) = EnvOf(target) /\ status[old] \in Activated
      /\ old \in Ref
  BY DEF RollbackCommit, RollbackTransaction, Lifecycle, RequestsSound, RequestSound, Request
<1>2. /\ \A p \in Projects : status'[p] = IF p = target THEN "active"
                                          ELSE IF p = old THEN "rolled_back" ELSE status[p]
      /\ child' = RetireThenActivate(old, target)
      /\ pointer' = [pointer EXCEPT ![EnvOf(target)] = target]
      /\ UNCHANGED <<completed, source, frozen, content, job, worker>>
  BY DEF RollbackCommit, RollbackTransaction
<1>3. \A e \in Endpoints : \/ epActive'[e] = epActive[e]
                             \/ (epActive'[e] = target /\ EnvOf(target) = "development")
  BY DEF RollbackCommit, RollbackTransaction, RestoredEndpoints
<1> HIDE DEF target, old
<1>4. \A p \in Projects : /\ status'[p] \in Activated <=> status[p] \in Activated
                          /\ p # target /\ p # old => status'[p] = status[p]
  BY <1>1, <1>2 DEF Activated
<1>5. \A p \in Projects, x \in Parts :
        /\ p = target => child'[p][x] \in {"active", "absent"}
        /\ p # target /\ p # old => child'[p][x] = child[p][x]
  BY <1>2 DEF RetireThenActivate
<1>6. SealedStay
  BY <1>2, <1>4 DEF SealedStay
<1>7. Sealed'
  BY <1>2, <1>4 DEF OnceInv, RowsOnce, Sealed
<1>8. LiveArtifacts'
  <2> SUFFICES ASSUME NEW v \in Envs, pointer'[v] # None, NEW x \in Parts
               PROVE  child'[pointer'[v]][x] \in {"active", "absent"}
    BY DEF LiveArtifacts
  <2>1. CASE v = EnvOf(target)
    BY <1>1, <1>2, <1>5, <2>1
  <2>2. CASE v # EnvOf(target)
    <3>1. pointer'[v] = pointer[v] /\ pointer[v] \in Projects /\ EnvOf(pointer[v]) = v
      BY <1>2, <2>2 DEF Lifecycle, RowsLifecycle, Ref
    <3>2. pointer[v] # target /\ pointer[v] # old
      BY <1>1, <2>2, <3>1
    <3> QED  BY <1>5, <3>1, <3>2 DEF OnceInv, RowsOnce, LiveArtifacts
  <2> QED  BY <2>1, <2>2
<1>9. ServedDev'
  <2> SUFFICES ASSUME NEW e \in Endpoints, epActive'[e] # None
               PROVE  epActive'[e] \in Dev
    BY DEF ServedDev
  <2>1. EnvOf(target) = "development" => target \in Dev
    BY <1>1 DEF Projects
  <2> QED  BY <1>3, <2>1 DEF OnceInv, RowsOnce, ServedDev
<1>10. Released'
  BY <1>2, <1>4, <1>6 DEF OnceInv, RowsOnce, Released, SealedStay, Activated
<1>11. Cells'
  <2> SUFFICES ASSUME NEW q \in Dev, NEW x \in Parts, status'[q] # "none", child'[q][x] # "absent"
               PROVE  CellInStep(q, x)'
    BY DEF Cells
  <2>1. CASE q = target \/ q = old
    <3>1. status[q] \in Activated /\ child[q][x] # "absent" /\ status[q] # "none"
      BY <1>1, <1>2, <2>1 DEF RetireThenActivate, Activated
    <3>2. CellInStep(q, x)
      BY <3>1 DEF OnceInv, Cells
    <3> QED  BY <1>2, <1>4, <3>1, <3>2 DEF CellInStep, Activated, Pending
  <2>2. CASE q # target /\ q # old
    BY <1>2, <1>4, <1>5, <2>2 DEF OnceInv, Cells, CellInStep
  <2> QED  BY <2>1, <2>2
<1> QED
  BY <1>6, <1>7, <1>8, <1>9, <1>10, <1>11 DEF RowsOnce

LEMMA ReleaseOnce ==
  ASSUME AllInv, NEW o \in Operators, ReleaseCommit(o)
  PROVE  SealedStay /\ RowsOnce' /\ Cells'
<1> USE ConstantFacts DEF AllInv, FullInv, IInv, TypeInv, TypeOK, RowsTypeOK
<1> DEFINE new == op[o].id
           old == op[o].live
           src == op[o].source
           copy == op[o].copy
           parts == op[o].parts
<1>1. /\ new \in Prod /\ new \in Projects /\ new \notin Dev /\ status[new] = "none"
      /\ old # None => old \in Prod /\ old \notin Dev /\ status[old] \in Activated
      /\ src \in Dev /\ status[src] \in Activated /\ copy = frozen[src]
  <2>1. op[o].kind = "release"
    BY DEF ReleaseCommit
  <2>2. RequestSound(op[o], status) /\ CopySound(op[o], status, frozen)
    BY DEF Lifecycle, RequestsSound, OnceInv, Copies
  <2> QED
    BY <2>1, <2>2 DEF ReleaseCommit, RequestSound, CopySound
<1>2. /\ \A p \in Projects : status'[p] = IF p = new THEN "active"
                                          ELSE IF p = old THEN "rolled_back" ELSE status[p]
      /\ pointer' = [pointer EXCEPT !["production"] = new]
      /\ UNCHANGED <<epActive, job, worker>>
      /\ content' = [content EXCEPT ![new] = copy]
      /\ frozen' = [frozen EXCEPT ![new] = copy]
      /\ source' = [source EXCEPT ![new] = src]
  BY DEF ReleaseCommit
<1>3. child' = [RetireThenActivate(old, new) EXCEPT ![new] =
                  [x \in Parts |-> IF x \in parts \cup {Schedule} THEN "active" ELSE "absent"]]
  BY DEF ReleaseCommit
<1> HIDE DEF new, old, src, copy, parts
<1>4. RetireThenActivate(old, new) \in [Projects -> [Parts -> RowStatus \cup {"absent"}]]
  BY RetireTyped
<1>5. \A p \in Projects, x \in Parts :
        /\ p = new => child'[p][x] \in {"active", "absent"}
        /\ p # new /\ p # old => child'[p][x] = child[p][x]
  <2>1. \A x \in Parts : child'[new][x] \in {"active", "absent"}
    BY <1>1, <1>3, <1>4
  <2>2. \A p \in Projects : p # new => child'[p] = RetireThenActivate(old, new)[p]
    BY <1>3, <1>4
  <2>3. \A p \in Projects, x \in Parts :
          p # new /\ p # old => RetireThenActivate(old, new)[p][x] = child[p][x]
    BY DEF RetireThenActivate
  <2> TAKE p \in Projects, x \in Parts
  <2>4. CASE p = new
    BY <2>1, <2>4
  <2>5. CASE p # new
    <3>1. child'[p][x] = RetireThenActivate(old, new)[p][x]
      BY <2>2, <2>5
    <3> QED  BY <2>3, <2>5, <3>1
  <2> QED  BY <2>4, <2>5
<1>6. SealedStay
  BY <1>1, <1>2 DEF SealedStay, Activated
<1>7. Sealed'
  BY <1>1, <1>2, <1>6 DEF OnceInv, RowsOnce, Sealed, SealedStay, Activated
<1>8. LiveArtifacts'
  <2> SUFFICES ASSUME NEW v \in Envs, pointer'[v] # None, NEW x \in Parts
               PROVE  child'[pointer'[v]][x] \in {"active", "absent"}
    BY DEF LiveArtifacts
  <2>1. CASE v = "production"
    BY <1>1, <1>2, <1>5, <2>1
  <2>2. CASE v # "production"
    <3>1. pointer'[v] = pointer[v] /\ pointer[v] \in Projects /\ EnvOf(pointer[v]) = v
      BY <1>2, <2>2 DEF Lifecycle, RowsLifecycle, Ref
    <3>2. pointer[v] # new /\ pointer[v] # old
      BY <1>1, <2>2, <3>1
    <3> QED  BY <1>5, <3>1, <3>2 DEF OnceInv, RowsOnce, LiveArtifacts
  <2> QED  BY <2>1, <2>2
<1>9. ServedDev'
  BY <1>2 DEF OnceInv, RowsOnce, ServedDev
<1>10. Released'
  <2> SUFFICES ASSUME NEW p \in Prod, status'[p] # "none"
               PROVE  /\ status'[p] \in Activated /\ source'[p] \in Dev
                      /\ status'[source'[p]] \in Activated /\ frozen'[p] = frozen'[source'[p]]
    BY DEF Released
  <2>1. CASE p = new
    <3>1. src \in Projects /\ status'[src] \in Activated /\ frozen'[src] = frozen[src]
      BY <1>1, <1>6 DEF SealedStay
    <3>2. status'[p] = "active" /\ source'[p] = src /\ frozen'[p] = copy
      BY <1>1, <1>2, <2>1
    <3> QED  BY <1>1, <3>1, <3>2 DEF Activated
  <2>2. CASE p # new
    <3>1. /\ status[p] \in Activated /\ source[p] \in Dev
          /\ status[source[p]] \in Activated /\ frozen[p] = frozen[source[p]]
      BY <1>1, <1>2, <2>2 DEF OnceInv, RowsOnce, Released, Activated
    <3>2. source'[p] = source[p] /\ status'[p] \in Activated /\ frozen'[p] = frozen[p]
      BY <1>6, <3>1 DEF SealedStay
    <3>3. status'[source[p]] \in Activated /\ frozen'[source[p]] = frozen[source[p]]
      BY <1>6, <3>1 DEF SealedStay
    <3> QED  BY <3>1, <3>2, <3>3
  <2> QED  BY <2>1, <2>2
<1>11. Cells'
  <2> SUFFICES ASSUME NEW q \in Dev, NEW x \in Parts, status'[q] # "none", child'[q][x] # "absent"
               PROVE  CellInStep(q, x)'
    BY DEF Cells
  <2>1. q # new /\ q # old
    BY <1>1
  <2> QED  BY <1>2, <1>5, <2>1 DEF OnceInv, Cells, CellInStep
<1> QED
  BY <1>6, <1>7, <1>8, <1>9, <1>10, <1>11 DEF RowsOnce

(* The cell of a job that a step does not touch. *)
LEMMA CellStays ==
  ASSUME NEW p \in Projects, NEW x \in Parts, CellInStep(p, x), job'[p][x] = job[p][x],
         job[p][x].state = "active" => worker'[job[p][x].owner].pc = worker[job[p][x].owner].pc,
         status[p] = "failed" => status'[p] = "failed",
         status[p] \in Activated => status'[p] \in Activated,
         status[p] \in Pending => status'[p] = "failed" \/
                                  (status'[p] \in Pending /\ child'[p][x] = child[p][x])
  PROVE  CellInStep(p, x)'
  BY DEF CellInStep, Activated, Pending

(* finalizeProjectDeployment *)
LEMMA FinalizeOnce ==
  ASSUME AllInv, NEW p \in Dev, status[p] # "none", Finalize(p)
  PROVE  /\ SealedStay /\ RowsOnce'
         /\ \A q \in Projects :
              /\ status[q] = "failed" => status'[q] = "failed"
              /\ q # p /\ status[q] \in Pending => status'[q] = status[q] /\ child'[q] = child[q]
              /\ status'[q] # "none" <=> status[q] # "none"
         /\ \/ UNCHANGED <<status, child>>
            \/ status'[p] = "failed"
            \/ status'[p] = "active" /\ status[p] \in Pending
               /\ \A x \in Parts : child[p][x] \in {"absent", "deploying"}
<1> USE ConstantFacts DEF AllInv, FullInv, IInv, TypeInv, TypeOK, RowsTypeOK
<1>1. CASE LeaveProject(p)
  <2>1. UNCHANGED rows
    BY <1>1 DEF LeaveProject
  <2>2. SealedStay
    BY <2>1 DEF SealedStay, rows
  <2>3. RowsOnce'
    BY <2>1, <2>2, RowsOnceStay DEF rows
  <2> QED  BY <2>1, <2>2, <2>3 DEF rows
<1>2. CASE FailProject(p)
  <2>1. /\ ~completed[p] /\ status' = [status EXCEPT ![p] = "failed"]
        /\ UNCHANGED <<child, source, frozen, content, pointer, epActive>>
    BY <1>2 DEF FailProject
  <2>2. status[p] \notin Activated
    BY <2>1 DEF Lifecycle, RowsLifecycle, Done, Activated
  <2>3. SealedStay
    BY <2>1, <2>2 DEF SealedStay
  <2>4. RowsOnce'
    BY <2>1, <2>3, RowsOnceStay DEF Activated
  <2> QED  BY <2>1, <2>3, <2>4
<1>3. CASE ActivateProject(p)
  <2>1. /\ \A q \in Projects : status'[q] = IF q = p THEN "active"
                                 ELSE IF EnvOf(q) = EnvOf(p) /\ status[q] = "active"
                                 THEN "rolled_back" ELSE status[q]
        /\ pointer' = [pointer EXCEPT !["development"] = p]
        /\ \A e \in Endpoints : epActive'[e] = p \/ epActive'[e] = epActive[e]
        /\ child' = ActivateChildren(p)
        /\ frozen' = [frozen EXCEPT ![p] = content[p]]
        /\ UNCHANGED <<content, source>>
        /\ status[p] \in Pending
    BY <1>3 DEF ActivateProject, Snapshot, Superseded, Pending
  <2>2. \A x \in Parts : child[p][x] \in {"absent", "deploying"}
    <3> DEFINE statuses == {child[p][x] : x \in Present(p)}
    <3>1. statuses = {"deploying"}
      BY <1>3 DEF ActivateProject, Readiness
    <3>2. \A x \in Present(p) : child[p][x] \in statuses
      OBVIOUS
    <3> HIDE DEF statuses
    <3> QED  BY <3>1, <3>2 DEF Present
  <2>3. ASSUME NEW q \in Projects, NEW x \in Parts
        PROVE  child'[q][x] = IF q = p /\ child[p][x] # "absent" THEN "active"
                              ELSE IF x \in Endpoints /\ child[p][x] # "absent" /\ epActive[x] = q
                              THEN "rolled_back" ELSE child[q][x]
    BY <2>1 DEF ActivateChildren, Present
  <2>4. ASSUME NEW q \in Projects, status[q] \notin Activated \/ q \in Prod, q # p
        PROVE  \A x \in Parts : child'[q][x] = child[q][x]
    <3>1. \A e \in Endpoints : epActive[e] # q
      <4> SUFFICES ASSUME NEW e \in Endpoints, epActive[e] = q PROVE FALSE
        OBVIOUS
      <4>1. status[q] \in Activated
        BY ServedRows DEF AllInv
      <4>2. q \in Dev
        BY DEF OnceInv, RowsOnce, ServedDev
      <4> QED  BY <2>4, <4>1, <4>2 DEF Activated
    <3> QED  BY <2>3, <2>4, <3>1
  <2>5. SealedStay
    BY <2>1 DEF SealedStay, Activated, Pending
  <2>6. Sealed'
    BY <2>1 DEF OnceInv, RowsOnce, Sealed, Activated
  <2>7. LiveArtifacts'
    <3> SUFFICES ASSUME NEW v \in Envs, pointer'[v] # None, NEW x \in Parts
                 PROVE  child'[pointer'[v]][x] \in {"active", "absent"}
      BY DEF LiveArtifacts
    <3>1. CASE v = "development"
      <4>1. pointer'[v] = p
        BY <2>1, <3>1
      <4>2. child[p][x] = "absent" => epActive[x] # p \/ x \notin Endpoints
        BY DEF ArtifactInv, Together
      <4> QED  BY <2>2, <2>3, <4>1, <4>2
    <3>2. CASE v # "development"
      <4>1. pointer'[v] = pointer[v] /\ pointer[v] \in Projects /\ EnvOf(pointer[v]) = v
        BY <2>1, <3>2 DEF Lifecycle, RowsLifecycle, Ref
      <4>2. pointer[v] # p /\ pointer[v] \in Prod
        BY <3>2, <4>1 DEF Projects
      <4> QED  BY <2>4, <4>1, <4>2 DEF OnceInv, RowsOnce, LiveArtifacts
    <3> QED  BY <3>1, <3>2
  <2>8. ServedDev'
    BY <2>1 DEF OnceInv, RowsOnce, ServedDev
  <2>9. Released'
    <3> SUFFICES ASSUME NEW q \in Prod, status'[q] # "none"
                 PROVE  /\ status'[q] \in Activated /\ source'[q] \in Dev
                        /\ status'[source'[q]] \in Activated /\ frozen'[q] = frozen'[source'[q]]
      BY DEF Released
    <3>1. status[q] # "none"
      BY <2>1
    <3>2. /\ status[q] \in Activated /\ source[q] \in Dev
          /\ status[source[q]] \in Activated /\ frozen[q] = frozen[source[q]]
      BY <3>1 DEF OnceInv, RowsOnce, Released
    <3>3. source'[q] = source[q] /\ status'[q] \in Activated /\ frozen'[q] = frozen[q]
      BY <2>5, <3>2 DEF SealedStay
    <3>4. status'[source[q]] \in Activated /\ frozen'[source[q]] = frozen[source[q]]
      BY <2>5, <3>2 DEF SealedStay
    <3> QED  BY <3>2, <3>3, <3>4
  <2>10. ASSUME NEW q \in Projects
         PROVE  /\ status[q] = "failed" => status'[q] = "failed"
                /\ q # p /\ status[q] \in Pending => status'[q] = status[q]
                /\ status'[q] # "none" <=> status[q] # "none"
    BY <2>1 DEF Pending
  <2>11. ASSUME NEW q \in Projects, q # p, status[q] \in Pending
         PROVE  child'[q] = child[q]
    <3>1. \A x \in Parts : child'[q][x] = child[q][x]
      BY <2>4, <2>11 DEF Pending, Activated
    <3>2. child'[q] = [x \in Parts |-> child'[q][x]] /\ child[q] = [x \in Parts |-> child[q][x]]
      BY <2>1 DEF ActivateChildren
    <3> QED  BY <3>1, <3>2
  <2> QED
    BY <2>1, <2>2, <2>5, <2>6, <2>7, <2>8, <2>9, <2>10, <2>11 DEF RowsOnce
<1> QED
  BY <1>1, <1>2, <1>3 DEF Finalize

-----------------------------------------------------------------------------
(* Workers.                                                                 *)
LEMMA BuildJob ==
  ASSUME AllInv, NEW w \in Workers, worker[w].pc # "idle"
  PROVE  /\ worker[w].id \in Dev /\ worker[w].id \in Projects /\ worker[w].part \in Parts
         /\ status[worker[w].id] # "none"
         /\ child[worker[w].id][worker[w].part] # "absent"
         /\ job[worker[w].id][worker[w].part].state = "active"
         /\ job[worker[w].id][worker[w].part].owner = w
         /\ CellInStep(worker[w].id, worker[w].part)
<1>1. /\ worker[w].id \in Dev /\ worker[w].id \in Projects /\ worker[w].part \in Parts
      /\ status[worker[w].id] # "none"
  BY ConstantFacts DEF AllInv, FullInv, IInv, Lifecycle, BuildSound, TypeInv, TypeOK, Slot
<1>2. child[worker[w].id][worker[w].part] # "absent"
  BY DEF AllInv, FullInv, ArtifactInv, WorkBuilt
<1>3. /\ job[worker[w].id][worker[w].part].state = "active"
      /\ job[worker[w].id][worker[w].part].owner = w
  BY DEF AllInv, OnceInv, Owned
<1> QED
  BY <1>1, <1>2, <1>3 DEF AllInv, OnceInv, Cells

(* Where a build that is not over can be. *)
LEMMA BuildWhere ==
  ASSUME AllInv, NEW w \in Workers, worker[w].pc # "idle",
         status[worker[w].id] # "failed"
  PROVE  /\ worker[w].pc \notin {"stored", "done"} =>
              status[worker[w].id] \in Pending /\ status[worker[w].id] \notin Activated
         /\ worker[w].pc # "rejected"
         /\ status[worker[w].id] \in Pending =>
              <<worker[w].pc, child[worker[w].id][worker[w].part]>> \in InStep
  BY BuildJob DEF CellInStep, Activated, Pending, InStep

(* A step of one worker leaves the jobs and workers of the others alone. *)
LEMMA OtherCells ==
  ASSUME AllInv, NEW w \in Workers, worker[w].pc # "idle",
         \A v \in Workers : v # w => worker'[v] = worker[v],
         NEW p \in Dev, NEW x \in Parts, ~(p = worker[w].id /\ x = worker[w].part)
  PROVE  job[p][x].state = "active" => worker'[job[p][x].owner] = worker[job[p][x].owner]
<1> SUFFICES ASSUME job[p][x].state = "active"
             PROVE  worker'[job[p][x].owner] = worker[job[p][x].owner]
  OBVIOUS
<1>1. job[p][x].owner \in Workers /\ Runs(job[p][x].owner, p, x)
  BY DEF AllInv, OnceInv, Owned
<1>2. job[p][x].owner # w
  BY <1>1 DEF Runs
<1> QED  BY <1>1, <1>2

(* A worker goes on with its job: it still owns it. *)
LEMMA OwnedKept ==
  ASSUME AllInv, NEW w \in Workers, UNCHANGED job, worker[w].pc # "idle",
         \A v \in Workers : v # w => worker'[v] = worker[v],
         worker'[w].pc # "idle", worker'[w].id = worker[w].id, worker'[w].part = worker[w].part
  PROVE  Owned'
<1>1. \A v \in Workers : /\ worker'[v].pc # "idle" <=> worker[v].pc # "idle"
                         /\ worker'[v].id = worker[v].id /\ worker'[v].part = worker[v].part
  OBVIOUS
<1> QED  BY <1>1 DEF AllInv, OnceInv, Owned, Runs

(* A step within a build: the job goes on, the row follows it. *)
LEMMA CellsMove ==
  ASSUME AllInv, NEW w \in Workers, worker[w].pc # "idle",
         UNCHANGED job,
         \A v \in Workers : v # w => worker'[v] = worker[v],
         \A q \in Dev, x \in Parts : ~(q = worker[w].id /\ x = worker[w].part) =>
           child'[q][x] = child[q][x],
         \A q \in Projects : /\ status'[q] # "none" <=> status[q] # "none"
                             /\ status[q] = "failed" => status'[q] = "failed"
                             /\ status[q] \in Activated => status'[q] \in Activated
                             /\ status[q] \in Pending => status'[q] \in Pending,
         \A x \in Parts : child[worker[w].id][x] = "absent" => child'[worker[w].id][x] = "absent",
         \A q \in Dev, x \in Parts :
           q = worker[w].id /\ x = worker[w].part => CellInStep(q, x)'
  PROVE  Cells'
<1> SUFFICES ASSUME NEW q \in Dev, NEW x \in Parts, status'[q] # "none", child'[q][x] # "absent"
             PROVE  CellInStep(q, x)'
  BY DEF Cells
<1>1. CASE q = worker[w].id /\ x = worker[w].part
  BY <1>1
<1>2. CASE ~(q = worker[w].id /\ x = worker[w].part)
  <2>1. q \in Projects /\ child'[q][x] = child[q][x] /\ CellInStep(q, x)
    BY <1>2, ConstantFacts DEF AllInv, OnceInv, Cells
  <2>2. job[q][x].state = "active" => worker'[job[q][x].owner] = worker[job[q][x].owner]
    BY <1>2, OtherCells
  <2> QED  BY <2>1, <2>2, CellStays
<1> QED  BY <1>1, <1>2

LEMMA GotoKeeps ==
  ASSUME AllInv, NEW w \in Workers, worker[w].pc # "idle",
         NEW pc \in {"resolved", "bundling", "stored", "done", "failing", "failed", "rejected"},
         \/ Goto(w, pc)
         \/ worker' = [worker EXCEPT ![w].pc = pc, ![w].seen = draft]
  PROVE  /\ \A v \in Workers : v # w => worker'[v] = worker[v]
         /\ worker'[w].pc = pc /\ worker'[w].id = worker[w].id
         /\ worker'[w].part = worker[w].part
         /\ UNCHANGED job => Owned'
<1>1. worker \in [Workers -> Slot] /\ worker[w] \in Slot
  BY DEF AllInv, FullInv, IInv, TypeInv, TypeOK
<1>2. \A v \in Workers : v # w => worker'[v] = worker[v]
  BY <1>1 DEF Goto
<1>3. worker'[w].pc = pc /\ worker'[w].id = worker[w].id /\ worker'[w].part = worker[w].part
  <2>1. CASE Goto(w, pc)
    <3>1. worker'[w] = [worker[w] EXCEPT !.pc = pc]
      BY <1>1, <2>1 DEF Goto
    <3> QED  BY <1>1, <3>1 DEF Slot
  <2>2. CASE worker' = [worker EXCEPT ![w].pc = pc, ![w].seen = draft]
    <3>1. worker'[w] = [worker[w] EXCEPT !.pc = pc, !.seen = draft]
      BY <1>1, <2>2
    <3> QED  BY <1>1, <3>1 DEF Slot
  <2> QED  BY <2>1, <2>2
<1> QED  BY <1>2, <1>3, OwnedKept

(* ResolveEndpoint, ResolveSchedule, MarkEndpointBuilding, StoreArtifact,     *)
(* BuildFails and MarkFailed: a step within a build whose deployment is not  *)
(* activated by it.                                                          *)
LEMMA WithinBuild ==
  ASSUME AllInv, NEW w \in Workers, worker[w].pc # "idle", UNCHANGED job,
         \A v \in Workers : v # w => worker'[v] = worker[v],
         worker[w].pc \notin {"stored", "done"},
         UNCHANGED status \/ MarkProjectBuilding(worker[w].id),
         UNCHANGED child \/ \E to \in RowStatus : SetChild(w, to),
         UNCHANGED <<frozen, source, pointer, epActive>>,
         \/ UNCHANGED content
         \/ content' = [content EXCEPT ![worker[w].id][worker[w].part] = worker[w].seen],
         status[worker[w].id] \in Pending =>
           <<worker'[w].pc, child'[worker[w].id][worker[w].part]>> \in InStep
  PROVE  SealedStay /\ RowsOnce' /\ Cells'
<1> DEFINE p == worker[w].id
           y == worker[w].part
<1>1. /\ p \in Dev /\ p \in Projects /\ y \in Parts /\ status[p] # "none"
      /\ child[p][y] # "absent" /\ job[p][y].state = "active" /\ job[p][y].owner = w
      /\ CellInStep(p, y)
  BY BuildJob
<1>2. status[p] = "failed" \/ status[p] \in Pending
  BY BuildWhere
<1>3. /\ child \in [Projects -> [Parts -> RowStatus \cup {"absent"}]]
      /\ content \in [Projects -> [Parts -> Built]]
      /\ status \in [Projects -> RowStatus \cup {"none"}]
  BY DEF AllInv, FullInv, IInv, TypeInv, TypeOK, RowsTypeOK
<1>4. \A q \in Projects, x \in Parts : ~(q = p /\ x = y) => child'[q][x] = child[q][x]
  <2> SUFFICES ASSUME NEW to, child' = [child EXCEPT ![p][y] = to],
                      NEW q \in Projects, NEW x \in Parts, ~(q = p /\ x = y)
               PROVE  child'[q][x] = child[q][x]
    BY DEF SetChild
  <2> HIDE DEF p, y
  <2>1. CASE q = p
    BY <1>1, <1>3, <2>1
  <2>2. CASE q # p
    BY <1>1, <1>3, <2>2
  <2> QED  BY <2>1, <2>2
<1>5. \A q \in Projects : q # p => child'[q] = child[q] /\ content'[q] = content[q]
  BY <1>1, <1>3 DEF SetChild
<1>6. \A q \in Projects : status'[q] = status[q]
                          \/ (status[q] = "queued" /\ status'[q] = "building")
  BY <1>3 DEF MarkProjectBuilding
<1>7. /\ status[p] = "failed" => status'[p] = "failed"
      /\ status[p] \in Pending => status'[p] \in Pending
  BY <1>1, <1>6 DEF Pending
<1>8. \A q \in Projects : /\ status'[q] # "none" <=> status[q] # "none"
                          /\ status[q] = "failed" => status'[q] = "failed"
                          /\ status[q] \in Activated <=> status'[q] \in Activated
                          /\ status[q] \in Pending => status'[q] \in Pending
  BY <1>6 DEF Pending, Activated
<1>9. SealedStay
  BY <1>2, <1>5, <1>8 DEF SealedStay, Activated, Pending
<1>10. RowsOnce'
  BY <1>2, <1>5, <1>8, <1>9, ConstantFacts, RowsOnceStay DEF Activated, Pending
<1>11. Cells'
  <2>1. ASSUME NEW q \in Dev, NEW x \in Parts, q = p, x = y
        PROVE  CellInStep(q, x)'
    <3>1. job'[q][x].state = "active" /\ job'[q][x].owner = w
      BY <1>1, <2>1
    <3>2. status'[q] = "failed" \/ status'[q] \in Pending
      BY <1>2, <1>7, <2>1
    <3>3. status'[q] \in Pending => <<worker'[w].pc, child'[q][x]>> \in InStep
      BY <1>2, <1>7, <2>1 DEF Pending
    <3> QED  BY <3>1, <3>2, <3>3 DEF CellInStep
  <2>2. \A x \in Parts : child[p][x] = "absent" => child'[p][x] = "absent"
    BY <1>1, <1>4
  <2> QED
    BY <1>4, <1>8, <2>1, <2>2, ConstantFacts, CellsMove
<1> QED  BY <1>9, <1>10, <1>11

(* The steps that finalize: the deployment is activated, fails or is left.   *)
LEMMA FinalizingStep ==
  ASSUME AllInv, NEW w \in Workers, UNCHANGED <<job, draft>>,
         \A v \in Workers : v # w => worker'[v] = worker[v],
         Finalize(worker[w].id),
         \/ worker[w].pc = "stored" /\ worker'[w].pc = "done"
         \/ worker[w].pc = "failed" /\ worker'[w].pc = "rejected"
  PROVE  SealedStay /\ RowsOnce' /\ Cells'
<1> DEFINE p == worker[w].id
           y == worker[w].part
<1>1. /\ p \in Dev /\ p \in Projects /\ y \in Parts /\ status[p] # "none"
      /\ child[p][y] # "absent" /\ job[p][y].state = "active" /\ job[p][y].owner = w
      /\ CellInStep(p, y) /\ worker[w].pc # "idle"
  BY BuildJob
<1>2. PICK d \in Dev : d = p
  BY <1>1
<1>3. /\ SealedStay /\ RowsOnce'
      /\ \A q \in Projects :
           /\ status[q] = "failed" => status'[q] = "failed"
           /\ q # d /\ status[q] \in Pending => status'[q] = status[q] /\ child'[q] = child[q]
           /\ status'[q] # "none" <=> status[q] # "none"
      /\ \/ UNCHANGED <<status, child>>
         \/ status'[d] = "failed"
         \/ status'[d] = "active" /\ status[d] \in Pending
            /\ \A x \in Parts : child[d][x] \in {"absent", "deploying"}
  BY <1>1, <1>2, FinalizeOnce
<1>4. worker[w].pc = "failed" => status'[d] = "failed"
  <2> SUFFICES ASSUME worker[w].pc = "failed", status[d] # "failed"
               PROVE  status'[d] = "failed"
    BY <1>1, <1>2, <1>3
  <2>1. status[d] \in Pending /\ child[d][y] = "failed"
    BY <1>1, <1>2, BuildWhere DEF InStep
  <2>2. ~completed[d]
    BY <1>1, <1>2, <2>1 DEF AllInv, FullInv, IInv, Lifecycle, RowsLifecycle, Done, Pending
  <2>3. Readiness(d) = "failed"
    BY <1>1, <2>1 DEF Readiness, Present
  <2>4. FailProject(d)
    BY <1>1, <1>2, <2>2, <2>3 DEF Finalize, LeaveProject, ActivateProject
  <2> QED
    BY <1>1, <1>2, <2>4 DEF FailProject, AllInv, FullInv, IInv, TypeInv, TypeOK, RowsTypeOK
<1>5. Cells'
  <2> SUFFICES ASSUME NEW q \in Dev, NEW x \in Parts, status'[q] # "none", child'[q][x] # "absent"
               PROVE  CellInStep(q, x)'
    BY DEF Cells
  <2>1. q \in Projects /\ status[q] # "none"
    BY <1>3, ConstantFacts
  <2>2. child[q][x] # "absent"
    <3>1. Keeps
      BY <1>1, <1>2, FinalizeArtifacts DEF AllInv
    <3> QED  BY <2>1, <3>1 DEF Keeps, SamePresent
  <2>3. CellInStep(q, x)
    BY <2>1, <2>2 DEF AllInv, OnceInv, Cells
  <2>4. job'[q][x] = job[q][x]
    OBVIOUS
  <2>5. CASE q # d
    <3>1. job[q][x].state = "active" => worker'[job[q][x].owner] = worker[job[q][x].owner]
      BY <1>1, <1>2, <2>5, OtherCells
    <3> QED  BY <1>3, <2>1, <2>3, <2>4, <2>5, <3>1, CellStays DEF SealedStay
  <2>6. CASE q = d /\ status'[d] = "failed"
    BY <2>6 DEF CellInStep
  <2>7. CASE q = d /\ status'[d] # "failed" /\ x = y
    <3>1. job'[q][x].state = "active" /\ job'[q][x].owner = w
      BY <1>1, <1>2, <2>7
    <3>2. worker[w].pc = "stored" /\ worker'[w].pc = "done"
      BY <1>4, <2>7
    <3>3. status[d] \in Activated => status'[d] \in Activated
      BY <2>1, <2>7, <1>3 DEF SealedStay
    <3>4. CASE UNCHANGED <<status, child>>
      BY <2>3, <2>7, <3>1, <3>2, <3>4, <1>1, <1>2 DEF CellInStep, InStep
    <3>5. CASE status'[d] = "active"
      BY <2>7, <3>1, <3>2, <3>5 DEF CellInStep, Activated
    <3> QED  BY <1>3, <2>7, <3>4, <3>5
  <2>8. CASE q = d /\ status'[d] # "failed" /\ x # y
    <3>1. job[q][x].state = "active" => worker'[job[q][x].owner] = worker[job[q][x].owner]
      BY <1>1, <1>2, <2>8, OtherCells
    <3>2. CASE UNCHANGED <<status, child>>
      BY <2>3, <2>4, <3>1, <3>2 DEF CellInStep
    <3>3. CASE status'[d] = "active" /\ status[d] \in Pending
                 /\ \A z \in Parts : child[d][z] \in {"absent", "deploying"}
      <4>1. child[d][x] = "deploying"
        BY <2>2, <2>8, <3>3
      <4>2. \/ job[d][x].state = "completed"
            \/ job[d][x].state = "active" /\ worker[job[d][x].owner].pc \in {"stored", "done"}
        BY <2>3, <2>8, <3>3, <4>1 DEF CellInStep, InStep, Pending, Activated
      <4> QED  BY <2>4, <2>8, <3>1, <3>3, <4>2 DEF CellInStep, Activated
    <3> QED  BY <1>3, <2>8, <3>2, <3>3
  <2> QED  BY <2>5, <2>6, <2>7, <2>8
<1> QED  BY <1>3, <1>5

(* Settling the job: it is not run any more and its worker is idle.          *)
LEMMA SettleOnce ==
  ASSUME AllInv, NEW w \in Workers, JobCompletes(w) \/ JobRejects(w)
  PROVE  SealedStay /\ RowsOnce' /\ Cells' /\ Owned'
<1> DEFINE p == worker[w].id
           y == worker[w].part
<1>1. /\ p \in Dev /\ p \in Projects /\ y \in Parts /\ status[p] # "none"
      /\ child[p][y] # "absent" /\ job[p][y].state = "active" /\ job[p][y].owner = w
      /\ CellInStep(p, y) /\ worker[w].pc # "idle"
  BY BuildJob DEF JobCompletes, JobRejects
<1>2. UNCHANGED rows
  BY DEF JobCompletes, JobRejects
<1>3. /\ worker \in [Workers -> Slot] /\ job \in [Projects -> [Parts -> Job]]
  BY DEF AllInv, FullInv, IInv, TypeInv, TypeOK
<1>4. /\ \A v \in Workers : v # w => worker'[v] = worker[v]
      /\ worker'[w].pc = "idle"
  BY <1>3, SMTT(30) DEF JobCompletes, JobRejects, Resting
<1>5. PICK r : job' = [job EXCEPT ![p][y] = r]
               /\ \/ worker[w].pc = "done" /\ r.state = "completed"
                  \/ worker[w].pc = "rejected" /\ r.state \in {"failed", "waiting"}
  <2>1. job[p][y] \in Job
    BY <1>1, <1>3
  <2>2. CASE JobCompletes(w)
    <3> DEFINE r == [job[p][y] EXCEPT !.state = "completed", !.owner = None]
    <3>1. job' = [job EXCEPT ![p][y] = r] /\ worker[w].pc = "done"
      BY <1>1, <1>3, <2>2 DEF JobCompletes
    <3>2. r.state = "completed"
      BY <2>1 DEF Job
    <3> QED  BY <3>1, <3>2
  <2>3. CASE JobRejects(w)
    <3> DEFINE made == job[p][y].made + 1
               r == [job[p][y] EXCEPT !.made = made, !.owner = None,
                       !.state = IF AttemptsSpent(made) THEN "failed" ELSE "waiting"]
    <3>1. job' = [job EXCEPT ![p][y] = r] /\ worker[w].pc = "rejected"
      BY <1>1, <2>3 DEF JobRejects
    <3>2. r.state \in {"failed", "waiting"}
      BY <2>1 DEF Job
    <3> QED  BY <3>1, <3>2
  <2> QED  BY <2>2, <2>3
<1>6. \A q \in Projects, x \in Parts :
        job'[q][x] = IF q = p /\ x = y THEN r ELSE job[q][x]
  BY <1>1, <1>3, <1>5
<1>7. SealedStay
  BY <1>2 DEF SealedStay, rows
<1>8. RowsOnce'
  BY <1>2, <1>7, RowsOnceStay DEF rows
<1>9. Owned'
  <2>1. ASSUME NEW v \in Workers, worker'[v].pc # "idle"
        PROVE  /\ job'[worker'[v].id][worker'[v].part].state = "active"
               /\ job'[worker'[v].id][worker'[v].part].owner = v
    <3>1. v # w /\ worker'[v] = worker[v] /\ worker[v].pc # "idle"
      BY <1>4, <2>1
    <3>2. /\ worker[v].id \in Projects /\ worker[v].part \in Parts
          /\ job[worker[v].id][worker[v].part].state = "active"
          /\ job[worker[v].id][worker[v].part].owner = v
      BY <3>1, BuildJob
    <3>3. ~(worker[v].id = p /\ worker[v].part = y)
      BY <1>1, <3>1, <3>2
    <3> QED  BY <1>6, <3>1, <3>2, <3>3
  <2>2. ASSUME NEW q \in Dev, NEW x \in Parts, job'[q][x].state = "active"
        PROVE  job'[q][x].owner \in Workers /\ Runs(job[q][x].owner, q, x)'
    <3>1. q \in Projects /\ ~(q = p /\ x = y)
      BY <1>5, <1>6, <2>2, ConstantFacts
    <3>2. job'[q][x] = job[q][x]
      BY <1>6, <3>1
    <3>3. job[q][x].owner \in Workers /\ Runs(job[q][x].owner, q, x)
      BY <2>2, <3>2 DEF AllInv, OnceInv, Owned
    <3>4. job[q][x].owner # w
      BY <3>1, <3>3 DEF Runs
    <3> QED  BY <1>4, <3>2, <3>3, <3>4 DEF Runs
  <2> QED  BY <2>1, <2>2 DEF Owned
<1>10. Cells'
  <2> SUFFICES ASSUME NEW q \in Dev, NEW x \in Parts, status'[q] # "none", child'[q][x] # "absent"
               PROVE  CellInStep(q, x)'
    BY DEF Cells
  <2>1. q \in Projects /\ CellInStep(q, x) /\ UNCHANGED <<status, child>>
    BY <1>2, ConstantFacts DEF rows, AllInv, OnceInv, Cells
  <2>2. CASE q = p /\ x = y
    <3>1. job'[q][x] = r
      BY <1>6, <2>1, <2>2
    <3>2. CASE status[p] = "failed"
      BY <2>1, <2>2, <3>2 DEF CellInStep
    <3>3. CASE status[p] # "failed"
      <4>1. worker[w].pc = "done" /\ r.state = "completed"
        BY <1>1, <1>5, <3>3, BuildWhere
      <4>2. status[p] \in Activated \/ (status[p] \in Pending /\ child[p][y] = "deploying")
        BY <1>1, <3>3, <4>1 DEF CellInStep, InStep
      <4> QED  BY <2>1, <2>2, <3>1, <4>1, <4>2 DEF CellInStep
    <3> QED  BY <3>2, <3>3
  <2>3. CASE ~(q = p /\ x = y)
    <3>1. job[q][x].state = "active" => worker'[job[q][x].owner] = worker[job[q][x].owner]
      BY <1>1, <1>4, <2>3, OtherCells
    <3>2. job'[q][x] = job[q][x]
      BY <1>6, <2>1, <2>3
    <3> QED  BY <2>1, <3>1, <3>2 DEF CellInStep
  <2> QED  BY <2>2, <2>3
<1> QED  BY <1>7, <1>8, <1>9, <1>10

LEMMA BuildOnce ==
  ASSUME AllInv, NEW w \in Workers, BuildStep(w)
  PROVE  SealedStay /\ RowsOnce' /\ Cells' /\ Owned'
<1>0. worker[w].pc # "idle" /\ "building" \in RowStatus /\ "deploying" \in RowStatus
        /\ "failed" \in RowStatus
  BY DEF BuildStep, ResolveEndpoint, ResolveSchedule, MarkEndpointBuilding, StoreArtifact,
      FinalizeArtifact, FinalizeFails, BuildFails, MarkFailed, FinalizeFailure,
      JobCompletes, JobRejects, RowStatus
<1>1. /\ worker[w].id \in Projects /\ worker[w].part \in Parts
      /\ child \in [Projects -> [Parts -> RowStatus \cup {"absent"}]]
  BY <1>0, BuildJob DEF AllInv, FullInv, IInv, TypeInv, TypeOK, RowsTypeOK
<1>2. ASSUME NEW to, SetChild(w, to)
      PROVE  child'[worker[w].id][worker[w].part] = to
  BY <1>1, <1>2 DEF SetChild
<1>3. \/ status[worker[w].id] \notin Pending
      \/ <<worker[w].pc, child[worker[w].id][worker[w].part]>> \in InStep
  BY <1>0, BuildWhere DEF Pending
<1>4. CASE ResolveEndpoint(w)
  <2>1. /\ worker[w].pc = "claimed" /\ MarkProjectBuilding(worker[w].id)
        /\ worker' = [worker EXCEPT ![w].pc = "resolved", ![w].seen = draft]
        /\ UNCHANGED <<source, frozen, child, content, pointer, epActive, job>>
    BY <1>4 DEF ResolveEndpoint
  <2>2. /\ \A v \in Workers : v # w => worker'[v] = worker[v]
        /\ worker'[w].pc = "resolved" /\ Owned'
    BY <1>0, <2>1, GotoKeeps
  <2>3. status[worker[w].id] \in Pending =>
          <<worker'[w].pc, child'[worker[w].id][worker[w].part]>> \in InStep
    BY <1>3, <2>1, <2>2 DEF InStep
  <2> QED  BY <1>0, <2>1, <2>2, <2>3, WithinBuild
<1>5. CASE MarkEndpointBuilding(w)
  <2>1. /\ worker[w].pc = "resolved" /\ SetChild(w, "building") /\ Goto(w, "bundling")
        /\ UNCHANGED <<status, source, frozen, content, pointer, epActive, job>>
    BY <1>5 DEF MarkEndpointBuilding
  <2>2. /\ \A v \in Workers : v # w => worker'[v] = worker[v]
        /\ worker'[w].pc = "bundling" /\ Owned'
    BY <1>0, <2>1, GotoKeeps
  <2>3. <<worker'[w].pc, child'[worker[w].id][worker[w].part]>> \in InStep
    BY <1>2, <2>1, <2>2 DEF InStep
  <2> QED  BY <1>0, <2>1, <2>2, <2>3, WithinBuild
<1>6. CASE ResolveSchedule(w)
  <2>1. /\ worker[w].pc = "claimed" /\ SetChild(w, "building")
        /\ MarkProjectBuilding(worker[w].id)
        /\ worker' = [worker EXCEPT ![w].pc = "bundling", ![w].seen = draft]
        /\ UNCHANGED <<source, frozen, content, pointer, epActive, job>>
    BY <1>6 DEF ResolveSchedule
  <2>2. /\ \A v \in Workers : v # w => worker'[v] = worker[v]
        /\ worker'[w].pc = "bundling" /\ Owned'
    BY <1>0, <2>1, GotoKeeps
  <2>3. <<worker'[w].pc, child'[worker[w].id][worker[w].part]>> \in InStep
    BY <1>2, <2>1, <2>2 DEF InStep
  <2> QED  BY <1>0, <2>1, <2>2, <2>3, WithinBuild
<1>7. CASE StoreArtifact(w)
  <2>1. /\ worker[w].pc = "bundling" /\ SetChild(w, "deploying") /\ Goto(w, "stored")
        /\ content' = [content EXCEPT ![worker[w].id][worker[w].part] = worker[w].seen]
        /\ UNCHANGED <<status, source, frozen, pointer, epActive, job>>
    BY <1>7 DEF StoreArtifact
  <2>2. /\ \A v \in Workers : v # w => worker'[v] = worker[v]
        /\ worker'[w].pc = "stored" /\ Owned'
    BY <1>0, <2>1, GotoKeeps
  <2>3. <<worker'[w].pc, child'[worker[w].id][worker[w].part]>> \in InStep
    BY <1>2, <2>1, <2>2 DEF InStep
  <2> QED  BY <1>0, <2>1, <2>2, <2>3, WithinBuild
<1>8. CASE BuildFails(w)
  <2>1. /\ worker[w].pc \in {"resolved", "bundling"} /\ Goto(w, "failing")
        /\ UNCHANGED <<status, child, source, frozen, content, pointer, epActive, job>>
    BY <1>8 DEF BuildFails, rows, AllInv, OnceInv, DeliveredOnce
  <2>2. /\ \A v \in Workers : v # w => worker'[v] = worker[v]
        /\ worker'[w].pc = "failing" /\ Owned'
    BY <1>0, <2>1, GotoKeeps
  <2>3. status[worker[w].id] \in Pending =>
          <<worker'[w].pc, child'[worker[w].id][worker[w].part]>> \in InStep
    BY <1>3, <2>1, <2>2 DEF InStep
  <2> QED  BY <1>0, <2>1, <2>2, <2>3, WithinBuild
<1>9. CASE MarkFailed(w)
  <2>1. /\ worker[w].pc = "failing" /\ SetChild(w, "failed") /\ Goto(w, "failed")
        /\ UNCHANGED <<status, source, frozen, content, pointer, epActive, job>>
    BY <1>9 DEF MarkFailed, AllInv, OnceInv, DeliveredOnce
  <2>2. /\ \A v \in Workers : v # w => worker'[v] = worker[v]
        /\ worker'[w].pc = "failed" /\ Owned'
    BY <1>0, <2>1, GotoKeeps
  <2>3. <<worker'[w].pc, child'[worker[w].id][worker[w].part]>> \in InStep
    BY <1>2, <2>1, <2>2 DEF InStep
  <2> QED  BY <1>0, <2>1, <2>2, <2>3, WithinBuild
<1>10. CASE FinalizeArtifact(w)
  <2>1. /\ worker[w].pc = "stored" /\ Finalize(worker[w].id) /\ Goto(w, "done")
        /\ UNCHANGED <<draft, job>>
    BY <1>10 DEF FinalizeArtifact
  <2>2. /\ \A v \in Workers : v # w => worker'[v] = worker[v]
        /\ worker'[w].pc = "done" /\ Owned'
    BY <1>0, <2>1, GotoKeeps
  <2> QED  BY <2>1, <2>2, FinalizingStep
<1>11. CASE FinalizeFailure(w)
  <2>1. /\ worker[w].pc = "failed" /\ Finalize(worker[w].id) /\ Goto(w, "rejected")
        /\ UNCHANGED <<draft, job>>
    BY <1>11 DEF FinalizeFailure, AllInv, OnceInv, DeliveredOnce
  <2>2. /\ \A v \in Workers : v # w => worker'[v] = worker[v]
        /\ worker'[w].pc = "rejected" /\ Owned'
    BY <1>0, <2>1, GotoKeeps
  <2> QED  BY <2>1, <2>2, FinalizingStep
<1>12. ~FinalizeFails(w)
  BY DEF FinalizeFails, AllInv, OnceInv, DeliveredOnce
<1> QED
  BY <1>4, <1>5, <1>6, <1>7, <1>8, <1>9, <1>10, <1>11, <1>12, SettleOnce DEF BuildStep

-----------------------------------------------------------------------------
(* Requests and the queue.                                                  *)
LEMMA RequestOnce ==
  ASSUME AllInv, NEW o \in Operators, RequestStep(o)
  PROVE  SealedStay /\ RowsOnce' /\ Cells' /\ Owned'
<1>0. /\ worker \in [Workers -> Slot] /\ job \in [Projects -> [Parts -> Job]]
  BY DEF AllInv, FullInv, IInv, TypeInv, TypeOK
<1>1. UNCHANGED worker
  BY DEF RequestStep, DeployRead, DeployCommit, Enqueue, RollbackRead, RollbackCommit,
      RollbackTransaction, ReleaseRead, ReleaseVersion, ReleaseCommit, ReleaseAbort,
      EnableRead, EnableCommit, RequestCrash
<1>2. CASE DeployCommit(o) \/ RollbackCommit(o) \/ ReleaseCommit(o)
  <2>1. UNCHANGED job
    BY <1>2 DEF DeployCommit, RollbackCommit, RollbackTransaction, ReleaseCommit
  <2>2. Owned'
    BY <1>1, <2>1 DEF AllInv, OnceInv, Owned, Runs
  <2> QED  BY <1>2, <2>2, DeployOnce, RollbackOnce, ReleaseOnce
<1>3. ASSUME NEW x \in Parts, Enqueue(o, x)
      PROVE  SealedStay /\ RowsOnce' /\ Cells' /\ Owned'
  <2> DEFINE p == op[o].id
  <2>1. p \in Dev /\ p \in Projects /\ UNCHANGED rows
    BY <1>3, ConstantFacts DEF Enqueue, AllInv, FullInv, IInv, Lifecycle, RequestsSound,
       RequestSound
  <2>2. \A q \in Projects, y \in Parts :
          \/ job'[q][y] = job[q][y]
          \/ job[q][y].state = "none" /\ job'[q][y].state = "waiting"
    <3> DEFINE new == [job[p][x] EXCEPT !.state = IF @ = "none" THEN "waiting" ELSE @]
    <3>1. job' = [job EXCEPT ![p] = [job[p] EXCEPT ![x] = new]] /\ job[p][x] \in Job
      BY <1>0, <1>3, <2>1 DEF Enqueue
    <3>2. new = job[p][x] \/ (job[p][x].state = "none" /\ new.state = "waiting")
      BY <3>1 DEF Job
    <3> HIDE DEF new, p
    <3>3. \A q \in Projects, y \in Parts :
            job'[q][y] = IF q = p /\ y = x THEN new ELSE job[q][y]
      BY <1>0, <2>1, <3>1
    <3> QED  BY <3>2, <3>3
  <2>3. SealedStay
    BY <2>1 DEF SealedStay, rows
  <2>4. RowsOnce'
    BY <2>1, <2>3, RowsOnceStay DEF rows
  <2>5. Owned'
    <3>1. ASSUME NEW w \in Workers, worker[w].pc # "idle"
          PROVE  job'[worker[w].id][worker[w].part] = job[worker[w].id][worker[w].part]
      BY <2>2, <3>1, BuildJob
    <3>2. \A q \in Dev, y \in Parts : job'[q][y].state = "active" => job'[q][y] = job[q][y]
      BY <2>2, ConstantFacts
    <3> QED  BY <1>1, <3>1, <3>2 DEF AllInv, OnceInv, Owned, Runs
  <2>6. Cells'
    <3> SUFFICES ASSUME NEW q \in Dev, NEW y \in Parts, status'[q] # "none", child'[q][y] # "absent"
                 PROVE  CellInStep(q, y)'
      BY DEF Cells
    <3>1. q \in Projects /\ CellInStep(q, y) /\ UNCHANGED <<status, child, worker>>
      BY <1>1, <2>1, ConstantFacts DEF rows, AllInv, OnceInv, Cells
    <3>2. CASE job'[q][y] = job[q][y]
      BY <3>1, <3>2 DEF CellInStep
    <3>3. CASE job[q][y].state = "none" /\ job'[q][y].state = "waiting"
      BY <3>1, <3>3 DEF CellInStep
    <3> QED  BY <2>2, <3>1, <3>2, <3>3
  <2> QED  BY <2>3, <2>4, <2>5, <2>6
<1>4. CASE UNCHANGED <<status, source, frozen, child, content, pointer, epActive, job>>
  <2>1. SealedStay
    BY <1>4 DEF SealedStay
  <2>2. RowsOnce'
    BY <1>4, <2>1, RowsOnceStay
  <2>3. Owned' /\ Cells'
    BY <1>1, <1>4, SMTT(30) DEF AllInv, OnceInv, Owned, Runs, Cells, CellInStep
  <2> QED  BY <2>1, <2>2, <2>3
<1> QED
  BY <1>2, <1>3, <1>4
  DEF RequestStep, DeployRead, RollbackRead, ReleaseRead, ReleaseVersion, ReleaseAbort,
      EnableRead, EnableCommit, RequestCrash, rows

LEMMA RequestCopies ==
  ASSUME AllInv, NEW o \in Operators, RequestStep(o)
  PROVE  Copies'
<1> USE ConstantFacts DEF AllInv, FullInv, IInv, TypeInv, TypeOK
<1>0. op \in [Operators -> Request] /\ op[o] \in Request /\ SealedStay
  BY RequestOnce
<1>1. ASSUME NEW r, op' = [op EXCEPT ![o] = r], CopySound(r, status', frozen')
      PROVE  Copies'
  BY <1>0, <1>1, CopiesKept DEF Copies
<1>2. ASSUME NEW r, op' = [op EXCEPT ![o] = r], r.kind \notin {"sourced", "release"}
      PROVE  Copies'
  BY <1>1, <1>2 DEF CopySound
<1>3. CASE ReleaseRead(o)
  <2> PICK s \in Dev :
        /\ ReleaseSource(s)
        /\ op' = [op EXCEPT ![o] = [NoOp EXCEPT !.kind = "sourced", !.source = s,
                                     !.live = pointer["production"],
                                     !.parts = Present(s), !.copy = content[s]]]
    BY <1>3 DEF ReleaseRead
  <2> DEFINE r == [NoOp EXCEPT !.kind = "sourced", !.source = s,
                               !.live = pointer["production"],
                               !.parts = Present(s), !.copy = content[s]]
  <2>1. r.kind = "sourced" /\ r.source = s /\ r.copy = content[s]
    BY DEF NoOp
  <2> HIDE DEF r
  <2>2. status[s] \in Activated /\ s \in Projects /\ UNCHANGED rows
    BY <1>3 DEF ReleaseSource, Activated, ReleaseRead
  <2>3. content[s] = frozen[s]
    BY <2>2 DEF OnceInv, RowsOnce, Sealed
  <2>4. CopySound(r, status', frozen')
    BY <2>1, <2>2, <2>3 DEF CopySound, rows
  <2> QED  BY <1>1, <2>4 DEF r
<1>4. CASE ReleaseVersion(o)
  <2> PICK p \in Prod : op' = [op EXCEPT ![o].kind = "release", ![o].id = p]
    BY <1>4 DEF ReleaseVersion
  <2> DEFINE r == [op[o] EXCEPT !.kind = "release", !.id = p]
  <2>1. r.source = op[o].source /\ r.copy = op[o].copy /\ op' = [op EXCEPT ![o] = r]
    BY <1>0 DEF Request
  <2>2. CopySound(op[o], status', frozen') /\ op[o].kind = "sourced"
    BY <1>0, <1>4, CopiesKept DEF ReleaseVersion
  <2> HIDE DEF r
  <2>3. CopySound(r, status', frozen')
    BY <2>1, <2>2 DEF CopySound
  <2> QED  BY <1>1, <2>1, <2>3
<1>5. CASE DeployCommit(o)
  <2>1. [op[o] EXCEPT !.kind = "enqueue", !.known = {}].kind = "enqueue"
    BY <1>0 DEF Request
  <2>2. \/ op' = [op EXCEPT ![o] = [op[o] EXCEPT !.kind = "enqueue", !.known = {}]]
        \/ op' = [op EXCEPT ![o] = NoOp]
    BY <1>0, <1>5 DEF DeployCommit
  <2> QED  BY <1>2, <2>1, <2>2 DEF NoOp
<1>6. ASSUME NEW x \in Parts, Enqueue(o, x)
      PROVE  Copies'
  <2>1. [op[o] EXCEPT !.parts = @ \ {x}].kind = "enqueue"
    BY <1>0, <1>6 DEF Request, Enqueue
  <2>2. op' = [op EXCEPT ![o] = [op[o] EXCEPT !.parts = @ \ {x}]] \/ op' = [op EXCEPT ![o] = NoOp]
    BY <1>6 DEF Enqueue
  <2> QED  BY <1>2, <2>1, <2>2 DEF NoOp
<1>7. CASE DeployRead(o) \/ RollbackRead(o) \/ \E e \in Endpoints : EnableRead(o, e)
  <2>1. \E r : op' = [op EXCEPT ![o] = r] /\ r.kind \notin {"sourced", "release"}
    <3>1. CASE DeployRead(o)
      BY <3>1, ZenonT(30) DEF DeployRead, NoOp
    <3>2. CASE RollbackRead(o)
      BY <3>2 DEF RollbackRead, NoOp
    <3>3. ASSUME NEW e \in Endpoints, EnableRead(o, e)
          PROVE  \E r : op' = [op EXCEPT ![o] = r] /\ r.kind \notin {"sourced", "release"}
      <4> DEFINE r == [NoOp EXCEPT !.kind = "enable", !.parts = {e}, !.live = epActive[e]]
      <4>1. op' = [op EXCEPT ![o] = r] /\ r.kind = "enable"
        BY <3>3 DEF EnableRead, NoOp
      <4> HIDE DEF r
      <4> QED  BY <4>1
    <3> QED  BY <1>7, <3>1, <3>2, <3>3
  <2> QED  BY <1>2, <2>1
<1>8. CASE RollbackCommit(o) \/ ReleaseCommit(o) \/ ReleaseAbort(o) \/ EnableCommit(o)
             \/ RequestCrash(o)
  <2>1. op' = [op EXCEPT ![o] = NoOp] /\ NoOp.kind = "idle"
    BY <1>8 DEF RollbackCommit, RollbackTransaction, ReleaseCommit, ReleaseAbort,
              EnableCommit, RequestCrash, NoOp
  <2> QED  BY <1>2, <2>1
<1> QED
  BY <1>3, <1>4, <1>5, <1>6, <1>7, <1>8 DEF RequestStep

LEMMA QueueOnce ==
  ASSUME AllInv, QueueStep
  PROVE  SealedStay /\ RowsOnce' /\ Cells' /\ Owned'
<1>0. /\ worker \in [Workers -> Slot] /\ job \in [Projects -> [Parts -> Job]]
  BY DEF AllInv, FullInv, IInv, TypeInv, TypeOK
<1>1. ASSUME NEW p \in Dev, NEW x \in Parts, JobStalls(p, x)
      PROVE  FALSE
  BY <1>1 DEF JobStalls, AllInv, OnceInv, DeliveredOnce, Owned
<1>2. \A w \in Workers : ~WorkerCrash(w)
  BY DEF WorkerCrash, AllInv, OnceInv, DeliveredOnce
<1>3. PICK w \in Workers, p \in Dev, x \in Parts : TakeJob(w, p, x)
  BY <1>1, <1>2 DEF QueueStep
<1>4. /\ UNCHANGED rows /\ worker[w].pc = "idle" /\ job[p][x].state = "waiting"
      /\ p \in Projects /\ \A v \in Workers : v # w => worker'[v] = worker[v]
      /\ worker'[w].pc = "claimed" /\ worker'[w].id = p /\ worker'[w].part = x
  BY <1>0, <1>3, ConstantFacts DEF TakeJob
<1>5. /\ \A q \in Projects, y \in Parts : ~(q = p /\ y = x) => job'[q][y] = job[q][y]
      /\ job'[p][x].state = "active" /\ job'[p][x].owner = w
  <2> DEFINE new == [job[p][x] EXCEPT !.state = "active", !.owner = w]
  <2>1. job' = [job EXCEPT ![p] = [job[p] EXCEPT ![x] = new]] /\ job[p][x] \in Job
    BY <1>0, <1>3, <1>4 DEF TakeJob
  <2>2. new.state = "active" /\ new.owner = w
    BY <2>1 DEF Job
  <2> HIDE DEF new
  <2>3. \A q \in Projects, y \in Parts :
          job'[q][y] = IF q = p /\ y = x THEN new ELSE job[q][y]
    BY <1>0, <1>4, <2>1
  <2> QED  BY <1>4, <2>2, <2>3
<1>6. SealedStay
  BY <1>4 DEF SealedStay, rows
<1>7. RowsOnce'
  BY <1>4, <1>6, RowsOnceStay DEF rows
<1>8. Owned'
  <2>1. ASSUME NEW v \in Workers, worker'[v].pc # "idle"
        PROVE  /\ job'[worker'[v].id][worker'[v].part].state = "active"
               /\ job'[worker'[v].id][worker'[v].part].owner = v
    <3>1. CASE v = w
      BY <1>4, <1>5, <3>1
    <3>2. CASE v # w
      <4>1. worker'[v] = worker[v] /\ worker[v].pc # "idle"
        BY <1>4, <2>1, <3>2
      <4>2. /\ worker[v].id \in Projects /\ worker[v].part \in Parts
            /\ job[worker[v].id][worker[v].part].state = "active"
            /\ job[worker[v].id][worker[v].part].owner = v
        BY <4>1, BuildJob
      <4> QED  BY <1>4, <1>5, <4>1, <4>2
    <3> QED  BY <3>1, <3>2
  <2>2. ASSUME NEW q \in Dev, NEW y \in Parts, job'[q][y].state = "active"
        PROVE  job'[q][y].owner \in Workers /\ Runs(job[q][y].owner, q, y)'
    <3>1. CASE q = p /\ y = x
      BY <1>4, <1>5, <3>1 DEF Runs
    <3>2. CASE ~(q = p /\ y = x)
      <4>1. job'[q][y] = job[q][y]
        BY <1>5, <3>2, ConstantFacts
      <4>2. job[q][y].owner \in Workers /\ Runs(job[q][y].owner, q, y)
        BY <2>2, <4>1 DEF AllInv, OnceInv, Owned
      <4>3. job[q][y].owner # w
        BY <1>4, <4>2 DEF Runs
      <4> QED  BY <1>4, <4>1, <4>2, <4>3 DEF Runs
    <3> QED  BY <3>1, <3>2
  <2> QED  BY <2>1, <2>2 DEF Owned
<1>9. Cells'
  <2> SUFFICES ASSUME NEW q \in Dev, NEW y \in Parts, status'[q] # "none", child'[q][y] # "absent"
               PROVE  CellInStep(q, y)'
    BY DEF Cells
  <2>1. q \in Projects /\ CellInStep(q, y) /\ UNCHANGED <<status, child>>
    BY <1>4, ConstantFacts DEF rows, AllInv, OnceInv, Cells
  <2>2. CASE q = p /\ y = x
    <3>1. status[q] = "failed" \/ (status[q] \in Pending /\ child[q][y] = "queued")
      BY <1>4, <2>1, <2>2 DEF CellInStep
    <3> QED  BY <1>4, <1>5, <2>1, <2>2, <3>1 DEF CellInStep, InStep
  <2>3. CASE ~(q = p /\ y = x)
    <3>1. job'[q][y] = job[q][y]
      BY <1>5, <2>1, <2>3
    <3>2. job[q][y].state = "active" => worker'[job[q][y].owner] = worker[job[q][y].owner]
      BY <1>4 DEF AllInv, OnceInv, Owned, Runs
    <3> QED  BY <2>1, <3>1, <3>2 DEF CellInStep
  <2> QED  BY <2>2, <2>3
<1> QED  BY <1>6, <1>7, <1>8, <1>9

LEMMA NextOnce == AllInv /\ [Next]_vars => AllInv'
<1> SUFFICES ASSUME AllInv, [Next]_vars
             PROVE  OnceInv'
  BY NextArtifacts DEF AllInv
<1>0. DeliveredOnce'
  BY DEF AllInv, OnceInv, DeliveredOnce
<1>1. ASSUME NEW o \in Operators, RequestStep(o)
      PROVE  OnceInv'
  BY <1>0, <1>1, RequestOnce, RequestCopies DEF OnceInv
<1>2. ASSUME NEW w \in Workers, BuildStep(w)
      PROVE  OnceInv'
  <2>1. UNCHANGED op
    BY <1>2
    DEF BuildStep, ResolveEndpoint, ResolveSchedule, MarkEndpointBuilding, StoreArtifact,
        FinalizeArtifact, FinalizeFails, BuildFails, MarkFailed, FinalizeFailure,
        JobCompletes, JobRejects
  <2>2. SealedStay /\ RowsOnce' /\ Cells' /\ Owned'
    BY <1>2, BuildOnce
  <2>3. Copies'
    BY <2>1, <2>2, CopiesKept DEF Copies
  <2> QED  BY <1>0, <2>2, <2>3 DEF OnceInv
<1>3. CASE QueueStep
  <2>1. UNCHANGED op
    BY <1>3 DEF QueueStep, TakeJob, JobStalls, WorkerCrash
  <2>2. SealedStay /\ RowsOnce' /\ Cells' /\ Owned'
    BY <1>3, QueueOnce
  <2>3. Copies'
    BY <2>1, <2>2, CopiesKept DEF Copies
  <2> QED  BY <1>0, <2>2, <2>3 DEF OnceInv
<1>4. CASE UNCHANGED <<status, source, frozen, child, content, pointer, epActive, worker, job, op>>
  <2>1. SealedStay
    BY <1>4 DEF SealedStay
  <2>2. RowsOnce'
    BY <1>4, <2>1, RowsOnceStay
  <2>3. Owned' /\ Cells'
    BY <1>4 DEF AllInv, OnceInv, Owned, Runs, Cells, CellInStep
  <2>4. Copies'
    BY <1>4 DEF AllInv, OnceInv, Copies, CopySound
  <2> QED  BY <1>0, <2>2, <2>3, <2>4 DEF OnceInv
<1> QED
  BY <1>1, <1>2, <1>3, <1>4 DEF Next, SaveDraft, Disable, Archive, vars, rows

LEMMA OnceHolds == DeliveredOnce /\ Spec => []AllInv
<1>1. DeliveredOnce /\ Init => AllInv
  BY InitType, InitLifecycle, InitArtifacts, InitOnce DEF AllInv, FullInv, IInv
<1> QED
  BY <1>1, NextOnce, PTL DEF Spec

(* With jobs delivered once, what an environment serves is what was frozen  *)
(* at activation and all of its artifacts say active, although failed       *)
(* builds are retried and requests race and crash.                          *)
THEOREM LiveMatchesFrozen == DeliveredOnce /\ Spec => []ArtifactsMatchLive
<1>1. AllInv => ArtifactsMatchLive
  <2> SUFFICES ASSUME AllInv, NEW v \in Envs, pointer[v] # None, NEW x \in Present(pointer[v])
               PROVE  /\ child[pointer[v]][x] = "active"
                      /\ content[pointer[v]][x] = frozen[pointer[v]][x]
    BY DEF ArtifactsMatchLive
  <2>1. pointer[v] \in Projects /\ status[pointer[v]] = "active"
    BY DEF AllInv, FullInv, IInv, TypeInv, TypeOK, RowsTypeOK, Lifecycle, RowsLifecycle, Ref
  <2>2. content[pointer[v]] = frozen[pointer[v]]
    BY <2>1 DEF AllInv, OnceInv, RowsOnce, Sealed, Activated
  <2>3. x \in Parts /\ child[pointer[v]][x] # "absent"
    BY DEF Present
  <2>4. child[pointer[v]][x] = "active"
    BY <2>3 DEF AllInv, OnceInv, RowsOnce, LiveArtifacts
  <2> QED  BY <2>2, <2>4
<1> QED
  BY <1>1, OnceHolds, PTL

(* With jobs delivered once, a release promotes exactly what was activated  *)
(* in development, whatever is activated or rolled back between its reads   *)
(* and its transaction.                                                     *)
THEOREM ReleasesPromoteActivated == DeliveredOnce /\ Spec => []ReleasePromotesActivated
<1>1. AllInv => ReleasePromotesActivated
  <2> SUFFICES ASSUME AllInv, NEW p \in Prod, status[p] # "none"
               PROVE  /\ completed[source[p]]
                      /\ \A x \in Present(p) : frozen[p][x] = frozen[source[p]][x]
    BY DEF ReleasePromotesActivated
  <2>1. source[p] \in Projects /\ status[source[p]] \in Activated /\ frozen[p] = frozen[source[p]]
    BY ConstantFacts DEF AllInv, OnceInv, RowsOnce, Released
  <2>2. completed[source[p]]
    BY <2>1 DEF AllInv, FullInv, IInv, Lifecycle, RowsLifecycle, Done, Activated
  <2> QED  BY <2>1, <2>2
<1> QED
  BY <1>1, OnceHolds, PTL

=============================================================================
