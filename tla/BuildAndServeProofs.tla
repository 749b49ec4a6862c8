-------------------------- MODULE BuildAndServeProofs --------------------------
(* Theorems about an artifact from its making to its use: a repeated seed     *)
(* converges and keeps what is live, a build stores what runs and stores it   *)
(* exactly when it can, a signed delivery is not accepted again before the    *)
(* last second of its timestamp, and what serves a request was in force while *)
(* it waited.                                                                 *)
EXTENDS BuildAndServe, SequenceTheorems, FiniteSetTheorems, WellFoundedInduction, TLAPS

(***************************************************************************)
(* Requests (RuntimeGateway).                                              *)
(***************************************************************************)
-----------------------------------------------------------------------------
(* Every delivery that was accepted less than a window ago still has its    *)
(* claim in Redis, whatever became of the request. Nothing is accepted, or   *)
(* judged to be signed in time, before its timestamp's first second.         *)
Window == 2 * Tolerance * Second
FirstSecond(stamp) == (stamp - Tolerance) * Second

Begun(stamp) == stamp \in Stamps /\ FirstSecond(stamp) <= clock

VerifiedInTime ==
  \A r \in Requests : req[r].state = "claim" => Begun(req[r].credential.stamp)

AcceptedInTime(a) ==
  /\ a.at \in Nat /\ a.at <= clock
  /\ a.key[1] \in Stamps /\ FirstSecond(a.key[1]) <= a.at

StillClaimed(a) ==
  clock < a.at + Window => \E c \in claims : c.key = a.key /\ c.expires = a.at + Window

ReplayInv ==
  /\ clock \in Nat
  /\ VerifiedInTime
  /\ \A a \in accepted : AcceptedInTime(a) /\ StillClaimed(a)
  /\ AcceptedAgainOnlyLate

-----------------------------------------------------------------------------
(* What a request holds in each of its states, and when it was in force.    *)
Asks == Bodies \cup {None, "test"}

Over == {[state |-> s] : s \in {"idle", "answered", "rejected"}}

Arrived == [state : {"arrived"}, environment : Environments, credential : Credentials,
            ask : Asks, slug : Slugs]

RowLoaded == [state : {"row"}, environment : Environments, credential : Credentials,
              ask : Asks, slug : Slugs, own : Snapshots]

Judged == [state : {"judging", "secret", "claim"}, environment : Environments,
           credential : Credentials, ask : Asks, slug : Slugs, snapshot : Snapshots,
           policy : Nat, secret : Values \cup {None}]

Invoked == [state : {"invoking", "served"}, environment : Environments, slug : Slugs,
            ask : Asks, snapshot : Snapshots, secret : Values \cup {None}, fn : Callees,
            granted : BOOLEAN, used : Values \cup {None}]

Testing == [state : {"testing"}, environment : {"development"}, slug : Slugs,
            fn : Callees, granted : BOOLEAN, caller : PolicyTypes \cup {None}]

Past == [enabled : SUBSET BOOLEAN, snapshots : SUBSET (Snapshots \cup {None}),
         secrets : SUBSET (Values \cup {None})]

\* What is in force now is in the record of a request that is not done.
Current(q, past) ==
  /\ enabled \in past.enabled
  /\ Serving(q.environment, q.slug) \in past.snapshots
  /\ secrets[q.environment] \in past.secrets

Held(value, past) == value = None \/ value \in past.secrets

BoundTo(snapshot, ask, fn) ==
  /\ fn \in snapshot.on
  /\ \E i \in DOMAIN snapshot.bound :
       ask \in snapshot.bound[i].keys /\ fn = snapshot.bound[i].fn

\* A Function that runs is bound to what was asked on an endpoint that was
\* enabled, unless it is the saved one that is tested.
Justified(q, past) ==
  /\ q.snapshot \in past.snapshots /\ Held(q.secret, past) /\ Held(q.used, past)
  /\ q.ask # "test" => TRUE \in past.enabled /\ BoundTo(q.snapshot, q.ask, q.fn)

Fits(q, past) ==
  \/ q \in Over
  \/ q \in Arrived /\ Current(q, past)
  \/ q \in Testing /\ Current(q, past)
  \/ /\ q \in RowLoaded /\ Current(q, past) /\ TRUE \in past.enabled
     /\ q.environment = "development" => q.own \in past.snapshots
  \/ /\ q \in Judged /\ Current(q, past) /\ TRUE \in past.enabled
     /\ q.snapshot \in past.snapshots /\ Held(q.secret, past)
  \/ /\ q \in Invoked /\ Justified(q, past)
     /\ q.state = "invoking" => Current(q, past)

Configured ==
  /\ slug \in Slugs /\ enabled \in BOOLEAN /\ own \in Snapshots
  /\ released \in Artifacts \cup {None}
  /\ secrets \in [Environments -> Values \cup {None}]

ServeInv ==
  /\ Configured
  /\ req = [r \in Requests |-> req[r]] /\ since \in [Requests -> Past]
  /\ \A r \in Requests : Fits(req[r], since[r])
-----------------------------------------------------------------------------
(* A set of numbers that is not empty has a least one.                      *)
LEMMA Least ==
  ASSUME NEW T, T \subseteq Nat, T # {}
  PROVE  \E i \in T : \A j \in T : i <= j
<1> DEFINE R == OpToRel(<, Nat)
<1>1. IsWellFoundedOn(R, Nat)
  BY NatLessThanWellFounded
<1>2. \A a, b \in Nat : a < b => <<a, b>> \in R
  BY DEF OpToRel
<1> HIDE DEF R
<1>3. PICK x \in T : \A y \in T : ~(<<y, x>> \in R)
  BY <1>1, WFMin
<1>4. ASSUME NEW j \in T PROVE x <= j
  <2>1. x \in Nat /\ j \in Nat
    OBVIOUS
  <2>2. ~(j < x)
    BY <1>2, <1>3, <2>1
  <2> QED BY <2>1, <2>2
<1> QED BY <1>4

(* The first of the bindings that match is one of them.                     *)
LEMMA FirstMatches ==
  ASSUME NEW snapshot \in Snapshots, NEW ask,
         NEW matching \in SUBSET Matching(snapshot, ask), matching # {}
  PROVE  \E i \in matching : FirstOf(snapshot, matching) = snapshot.bound[i].fn
<1>1. matching \subseteq Nat
  <2>1. snapshot.bound \in Seq([keys : SUBSET Keys, fn : Callees])
    BY GatewayAssumption
  <2>2. DOMAIN snapshot.bound \subseteq Nat
    BY <2>1
  <2> QED BY <2>2 DEF Matching
<1>2. \E i \in matching : \A j \in matching : i <= j
  BY <1>1, Least
<1> DEFINE first == CHOOSE i \in matching : \A j \in matching : i <= j
<1>3. first \in matching
  BY <1>2
<1>4. FirstOf(snapshot, matching) = snapshot.bound[first].fn
  BY DEF FirstOf
<1> HIDE DEF first
<1> QED BY <1>3, <1>4

LEMMA MatchBinds ==
  ASSUME NEW snapshot \in Snapshots, NEW ask, NEW i \in Matching(snapshot, ask),
         snapshot.bound[i].fn \in snapshot.on
  PROVE  /\ BoundTo(snapshot, ask, snapshot.bound[i].fn)
         /\ snapshot.bound[i].fn \in Callees
<1>1. snapshot.on \subseteq Callees
  BY GatewayAssumption
<1> QED BY <1>1 DEF Matching, BoundTo

(* The Function that a request is routed to, and the one of a tool, are     *)
(* bound to what was asked.                                                  *)
LEMMA RouteBinds ==
  ASSUME NEW snapshot \in Snapshots, NEW ask, Route(snapshot, ask) # None
  PROVE  /\ BoundTo(snapshot, ask, Route(snapshot, ask))
         /\ Route(snapshot, ask) \in Callees
<1> DEFINE enabledOnes ==
      {i \in Matching(snapshot, ask) : snapshot.bound[i].fn \in snapshot.on}
<1>1. Route(snapshot, ask) = FirstOf(snapshot, enabledOnes)
  BY DEF Route
<1>2. enabledOnes # {}
  BY <1>1 DEF FirstOf
<1>3. PICK i \in enabledOnes : FirstOf(snapshot, enabledOnes) = snapshot.bound[i].fn
  BY <1>2, FirstMatches
<1> QED BY <1>1, <1>3, MatchBinds

LEMMA ToolBinds ==
  ASSUME NEW snapshot \in Snapshots, NEW ask, Tool(snapshot, ask) # None
  PROVE  /\ BoundTo(snapshot, ask, Tool(snapshot, ask))
         /\ Tool(snapshot, ask) \in Callees
<1> DEFINE fn == FirstOf(snapshot, Matching(snapshot, ask))
<1>1. Tool(snapshot, ask) = fn /\ fn \in snapshot.on
  BY DEF Tool
<1>2. fn # None
  BY <1>1
<1>3. Matching(snapshot, ask) # {}
  BY <1>2 DEF FirstOf
<1>4. PICK i \in Matching(snapshot, ask) : fn = snapshot.bound[i].fn
  BY <1>3, FirstMatches
<1> QED BY <1>1, <1>4, MatchBinds

-----------------------------------------------------------------------------
(* A step of one request, to a record that fits what is known of it.        *)
LEMMA StepFits ==
  ASSUME ServeInv, NEW r \in Requests, NEW new, Step(r, new), Fits(new, since[r])
  PROVE  ServeInv'
<1> USE DEF ServeInv
<1>1. UNCHANGED <<slug, enabled, own, released, secrets>>
  BY DEF Step, configVars
<1>2. Configured'
  BY <1>1 DEF Configured
<1>3. \A q, past : Fits(q, past) => Fits(q, past)'
  <2>1. \A q, past : Current(q, past)' <=> Current(q, past)
    BY <1>1 DEF Current, Serving, Production
  <2> QED BY <2>1 DEF Fits
<1>4. Nothing \in Past
  BY DEF Nothing, Past
<1>5. since' \in [Requests -> Past]
  BY <1>4 DEF Step
<1>6. req' = [req EXCEPT ![r] = new]
  BY DEF Step
<1>7. req' = [q \in Requests |-> req'[q]]
  BY <1>6
<1>8. Fits(new, since'[r])
  <2>1. CASE new.state \in {"answered", "rejected"}
    <3>1. new \in Over
      BY <2>1 DEF Fits, Arrived, Testing, RowLoaded, Judged, Invoked
    <3> QED BY <3>1 DEF Fits
  <2>2. CASE new.state \notin {"answered", "rejected"}
    <3>1. since' = since
      BY <2>2 DEF Step
    <3> QED BY <3>1
  <2> QED BY <2>1, <2>2
<1>9. ASSUME NEW q \in Requests PROVE Fits(req[q], since[q])'
  <2>1. CASE q = r
    <3>1. req'[q] = new
      BY <1>6, <2>1
    <3> QED BY <1>3, <1>8, <2>1, <3>1
  <2>2. CASE q # r
    <3>1. req'[q] = req[q] /\ since'[q] = since[q]
      BY <1>6, <2>2 DEF Step
    <3> QED BY <1>3, <3>1
  <2> QED BY <2>1, <2>2
<1> QED BY <1>2, <1>5, <1>7, <1>9

LEMMA RejectFits ==
  ASSUME ServeInv, NEW r \in Requests, Reject(r)
  PROVE  ServeInv'
<1>1. Fits([state |-> "rejected"], since[r])
  BY DEF Fits, Over
<1> QED BY <1>1, StepFits DEF Reject

(* What changes around the requests is noted for those that wait.           *)
LEMMA NoteFits ==
  ASSUME ServeInv, Configured', UNCHANGED req, Note
  PROVE  ServeInv'
<1> USE DEF ServeInv
<1>1. \A q, old, new :
        /\ Fits(q, old) /\ Current(q, new)'
        /\ old.enabled \subseteq new.enabled /\ old.snapshots \subseteq new.snapshots
        /\ old.secrets \subseteq new.secrets
        => Fits(q, new)'
  <2> HIDE DEF ServeInv
  <2>1. \A v, old, new : old.secrets \subseteq new.secrets /\ Held(v, old) => Held(v, new)
    BY DEF Held
  <2>2. \A q, old, new :
          /\ old.enabled \subseteq new.enabled /\ old.snapshots \subseteq new.snapshots
          /\ old.secrets \subseteq new.secrets /\ Justified(q, old)
          => Justified(q, new)
    BY <2>1 DEF Justified
  <2> SUFFICES ASSUME NEW q, NEW old, NEW new, Fits(q, old), Current(q, new)',
                      old.enabled \subseteq new.enabled,
                      old.snapshots \subseteq new.snapshots,
                      old.secrets \subseteq new.secrets
               PROVE  Fits(q, new)'
    OBVIOUS
  <2>3. CASE q \in Judged /\ TRUE \in old.enabled /\ q.snapshot \in old.snapshots
             /\ Held(q.secret, old)
    BY <2>1, <2>3 DEF Fits
  <2>4. CASE q \in Invoked /\ Justified(q, old)
    BY <2>2, <2>4 DEF Fits
  <2>5. CASE q \in Over \cup Arrived \cup Testing
    BY <2>5 DEF Fits
  <2>6. CASE /\ q \in RowLoaded /\ TRUE \in old.enabled
             /\ q.environment = "development" => q.own \in old.snapshots
    BY <2>6 DEF Fits
  <2> QED BY <2>3, <2>4, <2>5, <2>6 DEF Fits
<1>2. ASSUME NEW r \in Requests, r \notin InFlight
      PROVE  since'[r] \in Past /\ Fits(req[r], since[r])'
  <2>1. since'[r] = since[r]
    BY <1>2 DEF Note
  <2>2. req[r].state \in {"idle"} \cup Done
    BY <1>2 DEF InFlight
  <2>3. \/ req[r] \in Over
        \/ req[r] \in Invoked /\ Justified(req[r], since[r]) /\ req[r].state # "invoking"
    BY <2>2 DEF Done, Fits, Arrived, Testing, RowLoaded, Judged, Invoked
  <2>4. Justified(req[r], since[r]) => Justified(req[r], since[r])'
    BY <2>1 DEF Justified, Held
  <2> QED BY <2>1, <2>3, <2>4 DEF Fits
<1>3. ASSUME NEW r \in Requests, r \in InFlight
      PROVE  since'[r] \in Past /\ Fits(req[r], since[r])'
  <2>1. PICK env : env = req[r].environment
    OBVIOUS
  <2>2. since'[r] = [enabled |-> since[r].enabled \cup {enabled'},
                     snapshots |-> since[r].snapshots \cup {Serving(env, req[r].slug)'},
                     secrets |-> since[r].secrets \cup {secrets'[env]}]
    BY <1>3, <2>1 DEF Note
  <2>3. since[r] \in Past
    OBVIOUS
  <2>4. env \in Environments
    <3>1. req[r] \notin Over
      <4> SUFFICES ASSUME NEW s \in {"idle", "answered", "rejected"},
                          req[r] = [state |-> s]
                   PROVE  FALSE
        BY DEF Over
      <4> QED BY <1>3 DEF InFlight, Done
    <3>2. req[r] \in Arrived \cup Testing \cup RowLoaded \cup Judged \cup Invoked
      BY <3>1 DEF Fits
    <3> QED BY <2>1, <3>2 DEF Arrived, Testing, RowLoaded, Judged, Invoked, Environments
  <2>5. enabled' \in BOOLEAN /\ secrets'[env] \in Values \cup {None}
    BY <2>4 DEF Configured
  <2>6. Serving(env, req[r].slug)' \in Snapshots \cup {None}
    BY DEF Configured, Serving, Production, Artifacts
  <2>7. since'[r] \in Past
    BY <2>2, <2>3, <2>5, <2>6 DEF Past
  <2>8. /\ since[r].enabled \subseteq since'[r].enabled
        /\ since[r].snapshots \subseteq since'[r].snapshots
        /\ since[r].secrets \subseteq since'[r].secrets
    BY <2>2
  <2>9. Current(req[r], since[r])'
    BY <2>1, <2>2 DEF Current
  <2>10. Fits(req[r], since[r])
    OBVIOUS
  <2> QED BY <1>1, <2>7, <2>8, <2>9, <2>10
<1>4. since' = [r \in Requests |-> since'[r]]
  BY DEF Note
<1>5. req' = [r \in Requests |-> req'[r]]
  OBVIOUS
<1> QED BY <1>2, <1>3, <1>4, <1>5
-----------------------------------------------------------------------------
(* The steps of a request that is judged.                                    *)
LEMMA JudgedAt ==
  ASSUME ServeInv, NEW r \in Requests, req[r].state \in {"judging", "secret", "claim"}
  PROVE  /\ req[r] \in Judged /\ Current(req[r], since[r]) /\ TRUE \in since[r].enabled
         /\ req[r].snapshot \in since[r].snapshots /\ Held(req[r].secret, since[r])
<1>1. req[r] \notin Over
  <2> SUFFICES ASSUME NEW s \in {"idle", "answered", "rejected"}, req[r] = [state |-> s]
               PROVE  FALSE
    BY DEF Over
  <2> QED OBVIOUS
<1>2. Fits(req[r], since[r])
  BY DEF ServeInv
<1>3. req[r] \notin Arrived \cup Testing \cup RowLoaded \cup Invoked
  BY DEF Arrived, Testing, RowLoaded, Invoked
<1> QED BY <1>1, <1>2, <1>3 DEF Fits

LEMMA SameTimeAndPlace ==
  ASSUME NEW q, NEW p, NEW past, Current(q, past),
         p.environment = q.environment, p.slug = q.slug
  PROVE  Current(p, past)
BY DEF Current

LEMMA RefuseFits ==
  ASSUME ServeInv, NEW r \in Requests, req[r].state \in {"judging", "secret", "claim"},
         Refuse(r)
  PROVE  ServeInv'
<1> DEFINE new == [req[r] EXCEPT !.state = "judging", !.policy = @ + 1]
<1>1. req[r] \in Judged
  BY JudgedAt
<1>2. /\ new \in Judged /\ new.environment = req[r].environment /\ new.slug = req[r].slug
      /\ new.snapshot = req[r].snapshot /\ new.secret = req[r].secret
  <2>1. PICK q \in Judged : q = req[r]
    BY <1>1
  <2>2. PICK next \in Nat : next = q.policy + 1
    BY DEF Judged
  <2>3. new = [q EXCEPT !.state = "judging", !.policy = next]
    BY <2>1, <2>2
  <2>4. new = [state |-> "judging", environment |-> q.environment,
               credential |-> q.credential, ask |-> q.ask, slug |-> q.slug,
               snapshot |-> q.snapshot, policy |-> next, secret |-> q.secret]
    <3>1. q = [state |-> q.state, environment |-> q.environment,
               credential |-> q.credential, ask |-> q.ask, slug |-> q.slug,
               snapshot |-> q.snapshot, policy |-> q.policy, secret |-> q.secret]
      BY DEF Judged
    <3> HIDE DEF new
    <3> QED BY <2>3, <3>1, Zenon
  <2> QED BY <2>1, <2>4 DEF Judged
<1>3. Step(r, new)
  BY DEF Refuse
<1> HIDE DEF new
<1>4. Fits(new, since[r])
  BY <1>2, JudgedAt, SameTimeAndPlace DEF Fits
<1> QED BY <1>3, <1>4, StepFits

LEMMA InvokeFits ==
  ASSUME ServeInv, NEW r \in Requests, req[r].state \in {"judging", "secret", "claim"},
         NEW ask \in Asks, NEW fn, Invoke(r, ask, fn),
         fn # None => BoundTo(req[r].snapshot, ask, fn) /\ fn \in Callees
  PROVE  ServeInv'
<1>1. CASE fn = None
  BY <1>1, RejectFits DEF Invoke
<1>2. CASE fn # None
  <2> DEFINE snapshot == req[r].snapshot
             new == Invoking(r, ask, snapshot, req[r].secret, fn, fn \in snapshot.granted)
  <2>1. Step(r, new)
    BY <1>2 DEF Invoke
  <2>2. /\ req[r] \in Judged /\ Current(req[r], since[r]) /\ TRUE \in since[r].enabled
        /\ req[r].snapshot \in since[r].snapshots /\ Held(req[r].secret, since[r])
    BY JudgedAt
  <2>3. new \in Invoked
    BY <1>2, <2>2 DEF Judged, Invoked, Invoking
  <2>4. /\ new.environment = req[r].environment /\ new.slug = req[r].slug
        /\ new.snapshot = req[r].snapshot /\ new.secret = req[r].secret
        /\ new.used = None /\ new.fn = fn /\ new.ask = ask
    BY DEF Invoking
  <2> HIDE DEF new
  <2>5. Justified(new, since[r])
    BY <1>2, <2>2, <2>4 DEF Justified, Held
  <2>6. Fits(new, since[r])
    BY <2>2, <2>3, <2>4, <2>5, SameTimeAndPlace DEF Fits
  <2> QED BY <2>1, <2>6, StepFits
<1> QED BY <1>1, <1>2

LEMMA AdmitFits ==
  ASSUME ServeInv, NEW r \in Requests, req[r].state \in {"judging", "secret", "claim"},
         Admit(r)
  PROVE  ServeInv'
<1>1. CASE Reject(r)
  BY <1>1, RejectFits
<1>2. CASE Dispatch(r)
  <2>1. req[r].snapshot \in Snapshots /\ req[r].ask \in Asks
    BY JudgedAt DEF Judged
  <2>2. CASE kind = "http"
    <3>1. Invoke(r, req[r].ask, Route(req[r].snapshot, req[r].ask))
      BY <1>2, <2>2 DEF Dispatch
    <3> QED BY <2>1, <3>1, RouteBinds, InvokeFits
  <2>3. CASE kind # "http"
    <3>1. PICK ask \in Bodies : IF ask \in Methods THEN Step(r, [state |-> "answered"])
                                ELSE Invoke(r, ask, Tool(req[r].snapshot, ask))
      BY <1>2, <2>3 DEF Dispatch
    <3>2. CASE ask \in Methods
      <4>1. Fits([state |-> "answered"], since[r])
        BY DEF Fits, Over
      <4> QED BY <3>1, <3>2, <4>1, StepFits
    <3>3. CASE ask \notin Methods
      <4>1. ask \in Asks
        BY DEF Asks
      <4> QED BY <2>1, <3>1, <3>3, <4>1, ToolBinds, InvokeFits
    <3> QED BY <3>2, <3>3
  <2> QED BY <2>2, <2>3
<1> QED BY <1>1, <1>2 DEF Admit
-----------------------------------------------------------------------------
(* What serves a request was in force while it waited.                      *)
LEMMA ArriveFits ==
  ASSUME ServeInv, NEW r \in Requests, NEW environment \in Environments,
         NEW credential \in Credentials, NEW ask \in Asks,
         Arrive(r, environment, credential, ask)
  PROVE  ServeInv'
<1> DEFINE new == [state |-> "arrived", environment |-> environment,
                   credential |-> credential, ask |-> ask, slug |-> slug]
<1>1. UNCHANGED <<slug, enabled, own, released, secrets>>
  BY DEF Arrive, configVars
<1>2. Configured /\ Configured'
  BY <1>1 DEF Configured, ServeInv
<1>3. req' = [req EXCEPT ![r] = new] /\ since' = [since EXCEPT ![r] = InForce(environment)]
  BY DEF Arrive
<1>4. \A q, past : Fits(q, past) => Fits(q, past)'
  <2>1. \A q, past : Current(q, past)' <=> Current(q, past)
    BY <1>1 DEF Current, Serving, Production
  <2> QED BY <2>1 DEF Fits
<1>5. InForce(environment) \in Past
  <2>1. Serving(environment, slug) \in Snapshots \cup {None}
    BY <1>2 DEF Configured, Serving, Production, Artifacts
  <2> QED BY <1>2, <2>1 DEF Configured, InForce, Past
<1>6. Fits(new, InForce(environment))
  <2>1. new \in Arrived
    BY <1>2 DEF Arrived, Configured
  <2>2. Current(new, InForce(environment))
    BY DEF Current, InForce
  <2> QED BY <2>1, <2>2 DEF Fits
<1> HIDE DEF new
<1>7. ASSUME NEW q \in Requests PROVE Fits(req[q], since[q])'
  BY <1>3, <1>4, <1>6 DEF ServeInv
<1> QED BY <1>2, <1>3, <1>5, <1>7 DEF ServeInv

LEMMA TestFits ==
  ASSUME ServeInv, NEW r \in Requests, NEW fn \in Callees, NEW granted \in BOOLEAN,
         NEW caller \in PolicyTypes \cup {None}, TestFunction(r, fn, granted, caller)
  PROVE  ServeInv'
<1> DEFINE new == [state |-> "testing", environment |-> "development", slug |-> slug,
                   fn |-> fn, granted |-> granted, caller |-> caller]
<1>1. UNCHANGED <<slug, enabled, own, released, secrets>>
  BY DEF TestFunction, configVars
<1>2. Configured /\ Configured'
  BY <1>1 DEF Configured, ServeInv
<1>3. /\ req' = [req EXCEPT ![r] = new]
      /\ since' = [since EXCEPT ![r] = InForce("development")]
  BY DEF TestFunction
<1>4. \A q, past : Fits(q, past) => Fits(q, past)'
  <2>1. \A q, past : Current(q, past)' <=> Current(q, past)
    BY <1>1 DEF Current, Serving, Production
  <2> QED BY <2>1 DEF Fits
<1>5. InForce("development") \in Past
  BY <1>2 DEF Configured, InForce, Past, Serving, Environments
<1>6. Fits(new, InForce("development"))
  <2>1. new \in Testing
    BY <1>2 DEF Testing, Configured
  <2>2. Current(new, InForce("development"))
    BY DEF Current, InForce
  <2> QED BY <2>1, <2>2 DEF Fits
<1> HIDE DEF new
<1>7. ASSUME NEW q \in Requests PROVE Fits(req[q], since[q])'
  BY <1>3, <1>4, <1>6 DEF ServeInv
<1> QED BY <1>2, <1>3, <1>5, <1>7 DEF ServeInv

LEMMA InState ==
  ASSUME ServeInv, NEW r \in Requests
  PROVE  /\ req[r].state = "arrived" =>
              req[r] \in Arrived /\ Current(req[r], since[r])
         /\ req[r].state = "testing" =>
              req[r] \in Testing /\ Current(req[r], since[r])
         /\ req[r].state = "row" =>
              /\ req[r] \in RowLoaded /\ Current(req[r], since[r])
              /\ TRUE \in since[r].enabled
              /\ req[r].environment = "development" => req[r].own \in since[r].snapshots
         /\ req[r].state = "invoking" =>
              /\ req[r] \in Invoked /\ Justified(req[r], since[r])
              /\ Current(req[r], since[r])
<1>1. req[r] \in Over => req[r].state \in {"idle", "answered", "rejected"}
  <2> SUFFICES ASSUME NEW s \in {"idle", "answered", "rejected"}, req[r] = [state |-> s]
               PROVE  req[r].state \in {"idle", "answered", "rejected"}
    BY DEF Over
  <2> QED OBVIOUS
<1>2. Fits(req[r], since[r])
  BY DEF ServeInv
<1>3. /\ req[r] \in Arrived => req[r].state = "arrived"
      /\ req[r] \in Testing => req[r].state = "testing"
      /\ req[r] \in RowLoaded => req[r].state = "row"
      /\ req[r] \in Judged => req[r].state \in {"judging", "secret", "claim"}
      /\ req[r] \in Invoked => req[r].state \in {"invoking", "served"}
  BY DEF Arrived, Testing, RowLoaded, Judged, Invoked
<1> QED BY <1>1, <1>2, <1>3 DEF Fits

LEMMA LoadRowFits ==
  ASSUME ServeInv, NEW r \in Requests, LoadRow(r)
  PROVE  ServeInv'
<1>1. CASE enabled /\ slug = req[r].slug
  <2>1. req[r] \in Arrived /\ Current(req[r], since[r])
    BY InState DEF LoadRow
  <2>2. Loaded(r) \in RowLoaded
    BY <2>1 DEF Arrived, RowLoaded, Loaded, ServeInv, Configured
  <2>3. /\ Loaded(r).environment = req[r].environment /\ Loaded(r).slug = req[r].slug
        /\ Loaded(r).own = own
    BY DEF Loaded
  <2>4. Current(Loaded(r), since[r])
    BY <2>1, <2>3, SameTimeAndPlace
  <2>5. TRUE \in since[r].enabled
    BY <1>1, <2>1 DEF Current, ServeInv, Configured
  <2>6. req[r].environment = "development" => own \in since[r].snapshots
    BY <2>1 DEF Current, Serving
  <2>7. Fits(Loaded(r), since[r])
    BY <2>2, <2>3, <2>4, <2>5, <2>6 DEF Fits
  <2> QED BY <1>1, <2>7, StepFits DEF LoadRow
<1>2. CASE ~(enabled /\ slug = req[r].slug)
  BY <1>2, RejectFits DEF LoadRow
<1> QED BY <1>1, <1>2

LEMMA LoadEnvironmentFits ==
  ASSUME ServeInv, NEW r \in Requests, LoadEnvironment(r)
  PROVE  ServeInv'
<1>1. /\ req[r] \in RowLoaded /\ Current(req[r], since[r]) /\ TRUE \in since[r].enabled
      /\ req[r].environment = "development" => req[r].own \in since[r].snapshots
  BY InState DEF LoadEnvironment
<1>2. CASE Reject(r)
  BY <1>2, RejectFits
<1>3. CASE Selected(r) # None /\ Step(r, Judging(r, Selected(r)))
  <2> DEFINE new == Judging(r, Selected(r))
  <2>1. Selected(r) \in since[r].snapshots
    <3>1. CASE req[r].environment = "production"
      BY <1>1, <3>1 DEF Selected, Current, Serving
    <3>2. CASE req[r].environment # "production"
      <4>1. req[r].environment = "development"
        BY <1>1, <3>2 DEF RowLoaded, Environments
      <4> QED BY <1>1, <3>2, <4>1 DEF Selected
    <3> QED BY <3>1, <3>2
  <2>2. Selected(r) \in Snapshots
    BY <1>3, <2>1 DEF ServeInv, Past
  <2>3. new \in Judged
    BY <1>1, <2>2 DEF RowLoaded, Judged, Judging
  <2>4. /\ new.environment = req[r].environment /\ new.slug = req[r].slug
        /\ new.snapshot = Selected(r) /\ new.secret = None
    BY DEF Judging
  <2> HIDE DEF new
  <2>5. Fits(new, since[r])
    BY <1>1, <2>1, <2>3, <2>4, SameTimeAndPlace DEF Fits, Held
  <2> QED BY <1>3, <2>5, StepFits DEF new
<1> QED BY <1>2, <1>3 DEF LoadEnvironment

LEMMA LoadByIdFits ==
  ASSUME ServeInv, NEW r \in Requests, LoadById(r)
  PROVE  ServeInv'
<1>1. CASE Reject(r)
  BY <1>1, RejectFits
<1>2. CASE Step(r, Invoking(r, "test", own, None, req[r].fn, req[r].granted))
  <2> DEFINE new == Invoking(r, "test", own, None, req[r].fn, req[r].granted)
  <2>1. req[r] \in Testing /\ Current(req[r], since[r])
    BY InState DEF LoadById
  <2>2. own \in Snapshots /\ own \in since[r].snapshots
    BY <2>1 DEF ServeInv, Configured, Current, Serving, Testing
  <2>3. new \in Invoked
    BY <2>1, <2>2 DEF Testing, Invoked, Invoking, Asks, Environments
  <2>4. /\ new.environment = req[r].environment /\ new.slug = req[r].slug
        /\ new.snapshot = own /\ new.secret = None /\ new.used = None /\ new.ask = "test"
    BY DEF Invoking
  <2> HIDE DEF new
  <2>5. Fits(new, since[r])
    BY <2>1, <2>2, <2>3, <2>4, SameTimeAndPlace DEF Fits, Held, Justified
  <2> QED BY <1>2, <2>5, StepFits DEF new
<1> QED BY <1>1, <1>2 DEF LoadById

LEMMA LoadSecretsFits ==
  ASSUME ServeInv, NEW r \in Requests, LoadSecrets(r)
  PROVE  ServeInv'
<1>1. /\ req[r] \in Invoked /\ Justified(req[r], since[r])
      /\ Current(req[r], since[r])
  BY InState DEF LoadSecrets, StoredSecret
<1>2. CASE Reject(r)
  BY <1>2, RejectFits
<1>3. ASSUME NEW used \in Values \cup {None}, Held(used, since[r]),
             NEW new, new = [req[r] EXCEPT !.state = "served", !.used = used],
             Step(r, new)
      PROVE  ServeInv'
  <2>1. PICK q \in Invoked : q = req[r]
    BY <1>1
  <2>2. new = [state |-> "served", environment |-> q.environment, slug |-> q.slug,
               ask |-> q.ask, snapshot |-> q.snapshot, secret |-> q.secret, fn |-> q.fn,
               granted |-> q.granted, used |-> used]
    BY <1>3, <2>1 DEF Invoked
  <2>3. new \in Invoked /\ new.state = "served" /\ new.used = used
    BY <2>2 DEF Invoked
  <2>4. /\ new.snapshot = q.snapshot /\ new.secret = q.secret /\ new.ask = q.ask
        /\ new.fn = q.fn
    BY <2>2
  <2>5. Justified(new, since[r])
    BY <1>1, <1>3, <2>1, <2>3, <2>4 DEF Justified
  <2>6. Fits(new, since[r])
    BY <2>3, <2>5 DEF Fits
  <2> QED BY <1>3, <2>6, StepFits
<1>4. ASSUME Step(r, [req[r] EXCEPT !.state = "served"])
      PROVE  ServeInv'
  <2>1. PICK q \in Invoked : q = req[r]
    BY <1>1
  <2>2. [q EXCEPT !.state = "served"] = [q EXCEPT !.state = "served", !.used = q.used]
    BY DEF Invoked
  <2>3. Held(q.used, since[r]) /\ q.used \in Values \cup {None}
    BY <1>1, <2>1 DEF Justified, Invoked
  <2> QED BY <1>3, <1>4, <2>1, <2>2, <2>3
<1>5. ASSUME secrets[req[r].environment] # None,
             Step(r, [req[r] EXCEPT !.state = "served",
                                    !.used = secrets[req[r].environment]])
      PROVE  ServeInv'
  <2>1. req[r].environment \in Environments
    BY <1>1 DEF Invoked
  <2>2. secrets[req[r].environment] \in Values \cup {None}
    BY <2>1 DEF ServeInv, Configured
  <2>3. Held(secrets[req[r].environment], since[r])
    BY <1>1 DEF Held, Current
  <2> QED BY <1>3, <1>5, <2>2, <2>3
<1> QED BY <1>2, <1>4, <1>5 DEF LoadSecrets, StoredSecret

LEMMA ReadSecretFits ==
  ASSUME ServeInv, NEW r \in Requests, ReadSecret(r)
  PROVE  ServeInv'
<1>1. req[r].state = "judging"
  BY DEF ReadSecret, NeedsSecret, At
<1>2. CASE Reject(r)
  BY <1>2, RejectFits
<1>3. CASE Step(r, [req[r] EXCEPT !.state = "secret", !.secret = secrets[req[r].environment]])
  <2>1. /\ req[r] \in Judged /\ Current(req[r], since[r]) /\ TRUE \in since[r].enabled
        /\ req[r].snapshot \in since[r].snapshots
    BY <1>1, JudgedAt
  <2>2. PICK q \in Judged : q = req[r]
    BY <2>1
  <2>3. PICK value \in Values \cup {None} : value = secrets[q.environment]
    BY DEF ServeInv, Configured, Judged
  <2>4. PICK new : new = [q EXCEPT !.state = "secret", !.secret = value]
    OBVIOUS
  <2>5. new = [state |-> "secret", environment |-> q.environment,
               credential |-> q.credential, ask |-> q.ask, slug |-> q.slug,
               snapshot |-> q.snapshot, policy |-> q.policy, secret |-> value]
    <3>1. q = [state |-> q.state, environment |-> q.environment,
               credential |-> q.credential, ask |-> q.ask, slug |-> q.slug,
               snapshot |-> q.snapshot, policy |-> q.policy, secret |-> q.secret]
      BY DEF Judged
    <3> QED BY <2>4, <3>1, Zenon
  <2>6. /\ new \in Judged /\ new.environment = q.environment /\ new.slug = q.slug
        /\ new.snapshot = q.snapshot /\ new.secret = value
    BY <2>5 DEF Judged
  <2>7. Held(value, since[r])
    BY <2>1, <2>2, <2>3 DEF Held, Current
  <2>8. Fits(new, since[r])
    BY <2>1, <2>2, <2>6, <2>7, SameTimeAndPlace DEF Fits
  <2>9. Step(r, new)
    BY <1>3, <2>2, <2>3, <2>4
  <2> QED BY <2>8, <2>9, StepFits
<1> QED BY <1>2, <1>3 DEF ReadSecret, StoredSecret

LEMMA VerifyFits ==
  ASSUME ServeInv, NEW r \in Requests, VerifySignature(r)
  PROVE  ServeInv'
<1>1. req[r].state = "secret"
  BY DEF VerifySignature, At
<1>2. CASE Refuse(r)
  BY <1>1, <1>2, RefuseFits
<1>3. CASE Step(r, [req[r] EXCEPT !.state = "claim"])
  <2>1. /\ req[r] \in Judged /\ Current(req[r], since[r]) /\ TRUE \in since[r].enabled
        /\ req[r].snapshot \in since[r].snapshots /\ Held(req[r].secret, since[r])
    BY <1>1, JudgedAt
  <2>2. PICK new : new = [req[r] EXCEPT !.state = "claim"]
    OBVIOUS
  <2>3. /\ new \in Judged /\ new.environment = req[r].environment
        /\ new.slug = req[r].slug /\ new.snapshot = req[r].snapshot
        /\ new.secret = req[r].secret
    BY <2>1, <2>2 DEF Judged
  <2>4. Fits(new, since[r])
    BY <2>1, <2>3, SameTimeAndPlace DEF Fits
  <2> QED BY <1>3, <2>2, <2>4, StepFits
<1> QED BY <1>2, <1>3 DEF VerifySignature

LEMMA JudgeFits ==
  ASSUME ServeInv, NEW r \in Requests,
         \/ NoPolicy(r) \/ JudgePublic(r) \/ JudgeStatic(r) \/ WebhookMismatch(r)
         \/ ClaimReplay(r) \/ ReplayStoreFails(r) \/ JudgeToken(r) \/ JudgeCustom(r)
  PROVE  ServeInv'
<1>1. \/ Reject(r)
      \/ /\ req[r].state \in {"judging", "secret", "claim"}
         /\ Admit(r) \/ Refuse(r)
  BY DEF NoPolicy, JudgePublic, JudgeStatic, WebhookMismatch, ClaimReplay,
         ReplayStoreFails, JudgeToken, TokenUnverifiable, JudgeCustom, At
<1> QED BY <1>1, RejectFits, AdmitFits, RefuseFits

LEMMA ChangeFits ==
  ASSUME ServeInv,
         \/ \E s \in Snapshots : Activate(s)
         \/ \E artifact \in Artifacts \cup {None} : Release(artifact)
         \/ SetEnabled
         \/ \E name \in Slugs \ {slug} : Rename(name)
         \/ \E environment \in Environments, value \in Values \cup {None} :
              SetSecret(environment, value)
  PROVE  ServeInv'
<1>1. UNCHANGED req /\ Note
  BY DEF Activate, Release, SetEnabled, Rename, SetSecret, Change
<1>2. Configured
  BY DEF ServeInv
<1>3. ASSUME NEW s \in Snapshots, Activate(s) PROVE Configured'
  BY <1>2, <1>3 DEF Activate, Configured
<1>4. ASSUME NEW artifact \in Artifacts \cup {None}, Release(artifact)
      PROVE  Configured'
  BY <1>2, <1>4 DEF Release, Configured
<1>5. ASSUME SetEnabled PROVE Configured'
  BY <1>2, <1>5 DEF SetEnabled, Configured
<1>6. ASSUME NEW name \in Slugs, Rename(name) PROVE Configured'
  BY <1>2, <1>6 DEF Rename, Configured
<1>7. ASSUME NEW environment \in Environments, NEW value \in Values \cup {None},
             SetSecret(environment, value)
      PROVE  Configured'
  BY <1>2, <1>7 DEF SetSecret, Configured
<1>8. Configured'
  BY <1>3, <1>4, <1>5, <1>6, <1>7
<1> QED BY <1>1, <1>8, NoteFits

LEMMA ServeStep ==
  ASSUME ServeInv, [GatewayNext]_gatewayVars
  PROVE  ServeInv'
<1>1. CASE UNCHANGED <<configVars, req, since>>
  <2>1. Configured'
    BY <1>1 DEF ServeInv, Configured, configVars
  <2>2. \A q, past : Fits(q, past) => Fits(q, past)'
    <3>1. \A q, past : Current(q, past)' <=> Current(q, past)
      BY <1>1 DEF Current, Serving, Production, configVars
    <3> QED BY <3>1 DEF Fits
  <2> QED BY <1>1, <2>1, <2>2 DEF ServeInv
<1>2. CASE UNCHANGED gatewayVars
  BY <1>1, <1>2 DEF gatewayVars
<1>3. CASE Tick
  BY <1>1, <1>3 DEF Tick
<1>4. ASSUME NEW r \in Requests, NEW environment \in Environments,
             NEW credential \in Credentials,
             NEW ask \in (IF kind = "http" THEN Keys ELSE {None}),
             Arrive(r, environment, credential, ask)
      PROVE  ServeInv'
  <2>1. ask \in Asks
    BY DEF Asks, Bodies
  <2> QED BY <1>4, <2>1, ArriveFits
<1>5. ASSUME NEW r \in Requests, NEW fn \in Callees, NEW granted \in BOOLEAN,
             NEW caller \in own.allowed \cup {None}, TestFunction(r, fn, granted, caller)
      PROVE  ServeInv'
  <2>1. own.allowed \subseteq PolicyTypes
    BY GatewayAssumption DEF ServeInv, Configured
  <2> QED BY <1>5, <2>1, TestFits
<1>6. ASSUME NEW r \in Requests,
             \/ LoadById(r) \/ LoadSecrets(r) \/ LoadRow(r) \/ LoadEnvironment(r)
             \/ ReadSecret(r) \/ VerifySignature(r)
      PROVE  ServeInv'
  BY <1>6, LoadByIdFits, LoadSecretsFits, LoadRowFits, LoadEnvironmentFits,
     ReadSecretFits, VerifyFits
<1>7. ASSUME NEW r \in Requests,
             \/ NoPolicy(r) \/ JudgePublic(r) \/ JudgeStatic(r) \/ WebhookMismatch(r)
             \/ ClaimReplay(r) \/ ReplayStoreFails(r) \/ JudgeToken(r) \/ JudgeCustom(r)
      PROVE  ServeInv'
  BY <1>7, JudgeFits
<1> QED BY <1>2, <1>3, <1>4, <1>5, <1>6, <1>7, ChangeFits DEF GatewayNext

(* Before a request arrives, what it will hold is not there yet.            *)
LEMMA ServeStarts == Init => ServeInv
<1> SUFFICES ASSUME Init PROVE ServeInv
  OBVIOUS
<1>1. Configured
  <2>1. secrets \in [Environments -> Values \cup {None}]
    BY DEF Init
  <2> QED BY <2>1 DEF Init, Configured
<1>2. Nothing \in Past
  BY DEF Nothing, Past
<1>3. \A r \in Requests : Fits(req[r], since[r])
  BY DEF Init, Fits, Over, Idle
<1> QED BY <1>1, <1>2, <1>3 DEF Init, ServeInv

(* What a served request holds was in force.                                *)
LEMMA ServedInForce == ServeInv => ServedAsConfigured
<1> SUFFICES ASSUME ServeInv, NEW r \in Requests, req[r].state = "served"
             PROVE  /\ req[r].snapshot \in since[r].snapshots
                    /\ {req[r].secret, req[r].used} \ {None} \subseteq since[r].secrets
                    /\ req[r].ask # "test" =>
                         TRUE \in since[r].enabled
                         /\ BoundTo(req[r].snapshot, req[r].ask, req[r].fn)
  BY DEF ServedAsConfigured, BoundTo
<1>1. Fits(req[r], since[r])
  BY DEF ServeInv
<1>2. req[r] \notin Over
  <2> SUFFICES ASSUME NEW s \in {"idle", "answered", "rejected"}, req[r] = [state |-> s]
               PROVE  FALSE
    BY DEF Over
  <2> QED OBVIOUS
<1>3. Justified(req[r], since[r])
  BY <1>1, <1>2 DEF Fits, Arrived, Testing, RowLoaded, Judged
<1> QED BY <1>3 DEF Justified, Held

(* Whatever activations, releases, renames, switches and rotations happen   *)
(* while a request waits, the snapshot that serves it, the secret that      *)
(* judged its caller and the one its Function gets were in force in its     *)
(* environment at some time since it arrived, the endpoint was enabled at   *)
(* one time of it, and the Function is bound to what was asked (server.ts,  *)
(* endpoint-repository.ts, auth.ts).                                        *)
THEOREM ServesWhatWasInForce == Spec => []ServedAsConfigured
BY ServeStarts, ServeStep, ServedInForce, PTL DEF Spec

-----------------------------------------------------------------------------
(* Signed deliveries.                                                        *)
LEMMA ReplayConstants ==
  /\ Tolerance \in Nat \ {0} /\ Second \in Nat \ {0} /\ Stamps \subseteq Nat
  /\ Window \in Nat \ {0}
<1>1. Tolerance \in Nat \ {0} /\ Second \in Nat \ {0} /\ Stamps \subseteq Nat
  BY GatewayAssumption
<1>2. \A a, b \in Nat \ {0} : a * b \in Nat \ {0}
  OBVIOUS
<1>3. 2 * Tolerance \in Nat \ {0}
  BY <1>1
<1> QED BY <1>1, <1>2, <1>3 DEF Window

(* A window after its first second a timestamp's last one begins.           *)
LEMMA WindowSpans ==
  ASSUME NEW stamp \in Stamps
  PROVE  /\ FirstSecond(stamp) \in Int
         /\ (stamp + Tolerance) * Second = FirstSecond(stamp) + Window
<1>1. stamp \in Int /\ Tolerance \in Int /\ Second \in Int
  BY ReplayConstants
<1>2. \A s, t, u \in Int : (s + t) * u = (s - t) * u + 2 * t * u /\ (s - t) * u \in Int
  OBVIOUS
<1> QED BY <1>1, <1>2 DEF FirstSecond, Window

(* A timestamp that is judged to be in time has begun.                      *)
LEMMA TimelyHasBegun ==
  ASSUME NEW stamp \in Stamps, clock \in Nat, Timely(stamp)
  PROVE  Begun(stamp)
<1> DEFINE now == clock \div Second
<1>1. stamp \in Int /\ Tolerance \in Int /\ Second \in Nat \ {0}
  BY ReplayConstants
<1>2. now \in Int /\ now * Second <= clock
  BY <1>1
<1>3. stamp - Tolerance <= now
  BY <1>1, <1>2 DEF Timely, Distance
<1>4. \A s, t \in Int : \A u \in Nat : s <= t => s * u <= t * u
  <2> SUFFICES ASSUME NEW s \in Int, NEW t \in Int, NEW u \in Nat, s <= t
               PROVE  s * u <= t * u
    OBVIOUS
  <2>1. (t - s) * u >= 0
    <3>1. t - s \in Nat
      OBVIOUS
    <3>2. \A d, e \in Nat : d * e \in Nat
      OBVIOUS
    <3> QED BY <3>1, <3>2
  <2>2. (t - s) * u = t * u - s * u /\ t * u \in Int /\ s * u \in Int
    OBVIOUS
  <2> QED BY <2>1, <2>2
<1> HIDE DEF now
<1>5. (stamp - Tolerance) * Second <= now * Second
  BY <1>1, <1>2, <1>3, <1>4
<1>6. (stamp - Tolerance) * Second \in Int /\ now * Second \in Int
  BY <1>1, <1>2
<1> QED BY <1>2, <1>5, <1>6 DEF Begun, FirstSecond

(* A step that verifies no signature: time does not go back, and a request   *)
(* that is about to claim a delivery was so before.                          *)
VerifiesNone ==
  /\ clock' \in {clock, clock + 1}
  /\ \A q \in Requests : req'[q].state = "claim" => req'[q] = req[q]

LEMMA StepVerifiesNone ==
  ASSUME ServeInv, NEW r \in Requests, NEW new, Step(r, new), new.state # "claim"
  PROVE  VerifiesNone /\ clock' = clock
<1>1. req' = [req EXCEPT ![r] = new] /\ clock' = clock
  BY DEF Step
<1>2. req = [q \in Requests |-> req[q]]
  BY DEF ServeInv
<1>3. \A q \in Requests : req'[q] = IF q = r THEN new ELSE req[q]
  BY <1>1, <1>2
<1> QED BY <1>1, <1>3 DEF VerifiesNone

LEMMA RejectVerifiesNone ==
  ASSUME ServeInv, NEW r \in Requests, Reject(r)
  PROVE  VerifiesNone /\ clock' = clock
BY StepVerifiesNone DEF Reject

LEMMA RefuseVerifiesNone ==
  ASSUME ServeInv, NEW r \in Requests, req[r].state \in {"judging", "secret", "claim"},
         Refuse(r)
  PROVE  VerifiesNone /\ clock' = clock
<1>1. PICK q \in Judged : q = req[r]
  BY JudgedAt
<1>2. PICK new : new = [q EXCEPT !.state = "judging", !.policy = @ + 1]
  OBVIOUS
<1>3. new.state = "judging"
  BY <1>2 DEF Judged
<1>4. Step(r, new)
  BY <1>1, <1>2 DEF Refuse
<1> QED BY <1>3, <1>4, StepVerifiesNone

LEMMA AdmitVerifiesNone ==
  ASSUME ServeInv, NEW r \in Requests, Admit(r)
  PROVE  VerifiesNone /\ clock' = clock
<1>1. ASSUME NEW ask, NEW fn, Invoke(r, ask, fn) PROVE VerifiesNone /\ clock' = clock
  <2>1. \A granted :
          Invoking(r, ask, req[r].snapshot, req[r].secret, fn, granted).state = "invoking"
    BY DEF Invoking
  <2> QED BY <1>1, <2>1, StepVerifiesNone, RejectVerifiesNone DEF Invoke
<1>2. Step(r, [state |-> "answered"]) => VerifiesNone /\ clock' = clock
  BY StepVerifiesNone
<1> QED BY <1>1, <1>2, RejectVerifiesNone DEF Admit, Dispatch

LEMMA OthersVerifyNone ==
  ASSUME ServeInv, GatewayNext, \A r \in Requests : ~VerifySignature(r)
  PROVE  VerifiesNone
<1>1. ASSUME NEW r \in Requests,
             \/ NoPolicy(r) \/ JudgePublic(r) \/ JudgeStatic(r) \/ WebhookMismatch(r)
             \/ ClaimReplay(r) \/ ReplayStoreFails(r) \/ JudgeToken(r) \/ JudgeCustom(r)
      PROVE  VerifiesNone
  <2>1. \/ Reject(r)
        \/ /\ req[r].state \in {"judging", "secret", "claim"}
           /\ Admit(r) \/ Refuse(r)
    BY <1>1 DEF NoPolicy, JudgePublic, JudgeStatic, WebhookMismatch, ClaimReplay,
                ReplayStoreFails, JudgeToken, TokenUnverifiable, JudgeCustom, At
  <2> QED BY <2>1, RejectVerifiesNone, AdmitVerifiesNone, RefuseVerifiesNone
<1>2. ASSUME NEW r \in Requests, LoadRow(r) \/ LoadEnvironment(r) \/ LoadById(r)
      PROVE  VerifiesNone
  <2>1. /\ Loaded(r).state = "row"
        /\ \A snapshot : Judging(r, snapshot).state = "judging"
        /\ \A snapshot, fn, granted :
             Invoking(r, "test", snapshot, None, fn, granted).state = "invoking"
    BY DEF Loaded, Judging, Invoking
  <2> QED BY <1>2, <2>1, StepVerifiesNone, RejectVerifiesNone
          DEF LoadRow, LoadEnvironment, LoadById
<1>3. ASSUME NEW r \in Requests, LoadSecrets(r) PROVE VerifiesNone
  <2>1. PICK q \in Invoked : q = req[r]
    BY <1>3, InState DEF LoadSecrets
  <2>2. /\ [q EXCEPT !.state = "served"].state = "served"
        /\ \A used : [q EXCEPT !.state = "served", !.used = used].state = "served"
    BY DEF Invoked
  <2>3. /\ Step(r, [q EXCEPT !.state = "served"]) => VerifiesNone
        /\ \A used : Step(r, [q EXCEPT !.state = "served", !.used = used]) => VerifiesNone
    BY <2>2, StepVerifiesNone
  <2> QED BY <1>3, <2>1, <2>3, RejectVerifiesNone DEF LoadSecrets
<1>4. ASSUME NEW r \in Requests, ReadSecret(r) PROVE VerifiesNone
  <2>1. req[r].state = "judging"
    BY <1>4 DEF ReadSecret, NeedsSecret, At
  <2>2. PICK q \in Judged : q = req[r]
    BY <2>1, JudgedAt
  <2>3. \A value : [q EXCEPT !.state = "secret", !.secret = value].state = "secret"
    BY DEF Judged
  <2>4. \A value : Step(r, [q EXCEPT !.state = "secret", !.secret = value]) => VerifiesNone
    BY <2>3, StepVerifiesNone
  <2> QED BY <1>4, <2>2, <2>4, RejectVerifiesNone DEF ReadSecret
<1>5. ASSUME NEW r \in Requests, NEW new, req' = [req EXCEPT ![r] = new],
             new.state # "claim", UNCHANGED clock
      PROVE  VerifiesNone
  <2>1. \A q \in Requests : req'[q] = IF q = r THEN new ELSE req[q]
    BY <1>5 DEF ServeInv
  <2> QED BY <1>5, <2>1 DEF VerifiesNone
<1>6. ASSUME NEW r \in Requests,
             \/ \E environment, credential, ask : Arrive(r, environment, credential, ask)
             \/ \E fn, granted, caller : TestFunction(r, fn, granted, caller)
      PROVE  VerifiesNone
  <2>1. ASSUME NEW environment, NEW credential, NEW ask,
               Arrive(r, environment, credential, ask)
        PROVE  VerifiesNone
    <3>1. PICK new : new = [state |-> "arrived", environment |-> environment,
                            credential |-> credential, ask |-> ask, slug |-> slug]
      OBVIOUS
    <3>2. req' = [req EXCEPT ![r] = new] /\ UNCHANGED clock
      BY <2>1, <3>1 DEF Arrive
    <3>3. new.state = "arrived"
      BY <3>1
    <3> QED BY <1>5, <3>2, <3>3
  <2>2. ASSUME NEW fn, NEW granted, NEW caller, TestFunction(r, fn, granted, caller)
        PROVE  VerifiesNone
    <3>1. PICK new : new = [state |-> "testing", environment |-> "development",
                            slug |-> slug, fn |-> fn, granted |-> granted,
                            caller |-> caller]
      OBVIOUS
    <3>2. req' = [req EXCEPT ![r] = new] /\ UNCHANGED clock
      BY <2>2, <3>1 DEF TestFunction
    <3>3. new.state = "testing"
      BY <3>1
    <3> QED BY <1>5, <3>2, <3>3
  <2> QED BY <1>6, <2>1, <2>2
<1>7. ASSUME \/ \E s \in Snapshots : Activate(s)
             \/ \E artifact \in Artifacts \cup {None} : Release(artifact)
             \/ SetEnabled \/ \E name \in Slugs \ {slug} : Rename(name)
             \/ \E environment \in Environments, value \in Values \cup {None} :
                  SetSecret(environment, value)
             \/ Tick
      PROVE  VerifiesNone
  BY <1>7 DEF Activate, Release, SetEnabled, Rename, SetSecret, Change, Tick, VerifiesNone
<1> QED BY <1>1, <1>2, <1>3, <1>4, <1>6, <1>7 DEF GatewayNext

(* Whoever is about to claim a delivery verified it after its first second.  *)
LEMMA VerifiedStaysInTime ==
  ASSUME ServeInv, clock \in Nat, VerifiedInTime, [GatewayNext]_gatewayVars
  PROVE  clock' \in Nat /\ clock <= clock' /\ VerifiedInTime'
<1>1. CASE VerifiesNone
  <2>1. clock' \in Nat /\ clock <= clock'
    BY <1>1 DEF VerifiesNone
  <2>2. \A stamp : Begun(stamp) => Begun(stamp)'
    <3> SUFFICES ASSUME NEW stamp \in Stamps, FirstSecond(stamp) <= clock
                 PROVE  FirstSecond(stamp) <= clock'
      BY DEF Begun, FirstSecond
    <3>1. FirstSecond(stamp) \in Int
      BY WindowSpans
    <3> QED BY <2>1, <3>1
  <2> QED BY <1>1, <2>1, <2>2 DEF VerifiesNone, VerifiedInTime
<1>2. ASSUME NEW r \in Requests, VerifySignature(r)
      PROVE  clock' \in Nat /\ clock <= clock' /\ VerifiedInTime'
  <2>1. req[r].state = "secret"
    BY <1>2 DEF VerifySignature, At
  <2>2. CASE Refuse(r)
    BY <1>1, <2>1, <2>2, RefuseVerifiesNone
  <2>3. CASE Signed(r) /\ Step(r, [req[r] EXCEPT !.state = "claim"])
    <3>1. PICK q \in Judged : q = req[r]
      BY <2>1, JudgedAt
    <3>2. PICK new : new = [q EXCEPT !.state = "claim"]
      OBVIOUS
    <3>3. new.credential = q.credential
      BY <3>2 DEF Judged
    <3>4. PICK stamp \in Stamps : stamp = q.credential.stamp
      BY <2>3, <3>1 DEF Judged, Credentials, Signed
    <3>5. Timely(stamp)
      BY <2>3, <3>1, <3>4 DEF Signed
    <3>6. Begun(stamp)
      BY <3>5, TimelyHasBegun
    <3>7. req' = [req EXCEPT ![r] = new] /\ clock' = clock
      BY <2>3, <3>1, <3>2 DEF Step
    <3>8. \A p \in Requests : req'[p] = IF p = r THEN new ELSE req[p]
      BY <3>7 DEF ServeInv
    <3>9. \A s : Begun(s) => Begun(s)'
      BY <3>7 DEF Begun, FirstSecond
    <3>10. ASSUME NEW p \in Requests, req'[p].state = "claim"
           PROVE  Begun(req[p].credential.stamp)'
      <4>1. CASE p = r
        BY <3>3, <3>4, <3>6, <3>8, <3>9, <4>1
      <4>2. CASE p # r
        <5>1. req'[p] = req[p] /\ req[p].state = "claim"
          BY <3>8, <3>10, <4>2
        <5>2. Begun(req[p].credential.stamp)
          BY <5>1 DEF VerifiedInTime
        <5> QED BY <3>9, <5>1, <5>2
      <4> QED BY <4>1, <4>2
    <3> QED BY <3>7, <3>10 DEF VerifiedInTime
  <2> QED BY <1>2, <2>2, <2>3 DEF VerifySignature
<1>3. CASE UNCHANGED gatewayVars
  BY <1>1, <1>3 DEF gatewayVars, VerifiesNone
<1> QED BY <1>1, <1>2, <1>3, OthersVerifyNone

\* Only the clock and an accepted delivery change what is claimed.
LEMMA OthersClaimNothing ==
  ASSUME GatewayNext, ~Tick, \A r \in Requests : ~ClaimReplay(r)
  PROVE  UNCHANGED <<clock, claims, accepted>>
<1>1. \A r, new : Step(r, new) => UNCHANGED clock
  BY DEF Step
<1>2. \A r : Reject(r) \/ Refuse(r) => UNCHANGED clock
  BY <1>1 DEF Reject, Refuse
<1>3. \A r, ask, fn : Invoke(r, ask, fn) => UNCHANGED clock
  BY <1>1, <1>2 DEF Invoke
<1>4. \A r : Admit(r) => UNCHANGED clock
  BY <1>1, <1>2, <1>3 DEF Admit, Dispatch
<1>5. ASSUME NEW r,
             \/ LoadById(r) \/ LoadSecrets(r) \/ LoadRow(r) \/ LoadEnvironment(r)
             \/ ReadSecret(r) \/ VerifySignature(r) \/ NoPolicy(r) \/ JudgePublic(r)
             \/ JudgeStatic(r) \/ WebhookMismatch(r) \/ ReplayStoreFails(r)
             \/ JudgeToken(r) \/ JudgeCustom(r)
      PROVE  UNCHANGED <<clock, claims, accepted>>
  BY <1>1, <1>2, <1>4, <1>5
     DEF LoadById, LoadSecrets, LoadRow, LoadEnvironment, ReadSecret, VerifySignature,
         NoPolicy, JudgePublic, JudgeStatic, WebhookMismatch, ReplayStoreFails,
         JudgeToken, TokenUnverifiable, JudgeCustom, replayVars
<1>6. ASSUME \/ \E s \in Snapshots : Activate(s)
             \/ \E artifact \in Artifacts \cup {None} : Release(artifact)
             \/ SetEnabled \/ \E name \in Slugs \ {slug} : Rename(name)
             \/ \E environment \in Environments, value \in Values \cup {None} :
                  SetSecret(environment, value)
      PROVE  UNCHANGED <<clock, claims, accepted>>
  BY <1>6 DEF Activate, Release, SetEnabled, Rename, SetSecret, Change, replayVars
<1>7. ASSUME NEW r,
             \/ \E environment, credential, ask : Arrive(r, environment, credential, ask)
             \/ \E fn, granted, caller : TestFunction(r, fn, granted, caller)
      PROVE  UNCHANGED <<clock, claims, accepted>>
  BY <1>7 DEF Arrive, TestFunction, replayVars
<1> QED BY <1>5, <1>6, <1>7 DEF GatewayNext

(* A delivery that is accepted again while its claim would still be there    *)
(* is accepted in the last second of its timestamp, or after it.             *)
LEMMA ClaimStep ==
  ASSUME ServeInv, ReplayInv, VerifiedInTime', NEW r \in Requests, ClaimReplay(r),
         ~Claimed(ReplayKey(r)), clock' = clock
  PROVE  ReplayInv'
<1>1. PICK stamp, value : ReplayKey(r) = <<stamp, value>> /\ stamp = req[r].credential.stamp
  BY DEF ReplayKey
<1>2. stamp \in Stamps /\ FirstSecond(stamp) <= clock
  BY <1>1 DEF ClaimReplay, At, ReplayInv, VerifiedInTime, Begun
<1> DEFINE key == <<stamp, value>>
           new == [key |-> key, at |-> clock, by |-> r]
           claim == [key |-> key, expires |-> clock + Window]
<1>3. /\ claims' = claims \cup {claim} /\ accepted' = accepted \cup {new}
      /\ clock \in Nat /\ Window \in Nat \ {0}
  BY <1>1, ReplayConstants DEF ClaimReplay, Claim, Window, ReplayInv
<1>4. new.key = key /\ new.key[1] = stamp /\ new.at = clock
  OBVIOUS
<1>5. claim.key = key /\ claim.expires = clock + Window
  OBVIOUS
<1>6. \A c \in claims : c.key # key
  BY <1>1 DEF Claimed
<1>7. FirstSecond(stamp) \in Int /\ LastSecond(key) = FirstSecond(stamp) + Window
  BY <1>2, WindowSpans DEF LastSecond
<1> HIDE DEF new, claim, key
<1>8. ASSUME NEW a \in accepted, a.key = key PROVE new.at >= LastSecond(key)
  <2>1. AcceptedInTime(a) /\ StillClaimed(a)
    BY DEF ReplayInv
  <2>2. a.key[1] = stamp
    BY <1>4, <1>8
  <2>3. a.at \in Nat /\ FirstSecond(stamp) <= a.at
    BY <2>1, <2>2 DEF AcceptedInTime
  <2>4. ~(clock < a.at + Window)
    BY <1>6, <1>8, <2>1 DEF StillClaimed
  <2> QED BY <1>3, <1>4, <1>7, <2>3, <2>4
<1>9. AcceptedAgainOnlyLate'
  <2> SUFFICES ASSUME NEW a \in accepted', NEW b \in accepted', a.key = b.key, a # b
               PROVE  \E again \in {a, b} : again.at >= LastSecond(again.key)
    BY DEF AcceptedAgainOnlyLate, LastSecond
  <2>1. CASE a \in accepted /\ b \in accepted
    BY <2>1 DEF ReplayInv, AcceptedAgainOnlyLate
  <2>2. CASE a \in accepted /\ b = new
    BY <1>4, <1>8, <2>2
  <2>3. CASE a = new /\ b \in accepted
    BY <1>4, <1>8, <2>3
  <2> QED BY <1>3, <2>1, <2>2, <2>3
<1>10. ASSUME NEW a \in accepted' PROVE AcceptedInTime(a)' /\ StillClaimed(a)'
  <2>1. CASE a \in accepted
    <3>1. AcceptedInTime(a) /\ StillClaimed(a)
      BY <2>1 DEF ReplayInv
    <3>2. AcceptedInTime(a)'
      BY <3>1, clock' = clock DEF AcceptedInTime, FirstSecond
    <3>3. StillClaimed(a)'
      BY <1>3, <3>1, clock' = clock DEF StillClaimed, Window
    <3> QED BY <3>2, <3>3
  <2>2. CASE a = new
    <3>1. AcceptedInTime(a)'
      BY <1>2, <1>3, <1>4, <2>2, clock' = clock DEF AcceptedInTime, FirstSecond
    <3>2. claim \in claims' /\ claim.key = a.key /\ claim.expires = a.at + Window
      BY <1>3, <1>4, <1>5, <2>2
    <3>3. StillClaimed(a)'
      BY <3>2 DEF StillClaimed, Window
    <3> QED BY <3>1, <3>3
  <2> QED BY <1>3, <2>1, <2>2
<1>11. clock' \in Nat
  BY <1>3
<1> QED BY <1>9, <1>10, <1>11 DEF ReplayInv

(* Time passes, and only what was claimed a window ago is forgotten.         *)
LEMMA TickStep ==
  ASSUME ReplayInv, VerifiedInTime', Tick
  PROVE  ReplayInv'
<1>1. /\ clock' = clock + 1 /\ claims' = {c \in claims : c.expires > clock'}
      /\ accepted' = accepted /\ clock \in Nat
  BY DEF Tick, ReplayInv
<1>2. Window \in Nat
  BY ReplayConstants
<1>3. ASSUME NEW a \in accepted' PROVE AcceptedInTime(a)' /\ StillClaimed(a)'
  <2>1. AcceptedInTime(a) /\ StillClaimed(a)
    BY <1>1 DEF ReplayInv
  <2>2. a.at \in Nat /\ a.at <= clock
    BY <2>1 DEF AcceptedInTime
  <2>3. a.at <= clock'
    BY <1>1, <2>2
  <2>4. AcceptedInTime(a)'
    BY <2>1, <2>3 DEF AcceptedInTime, FirstSecond
  <2>5. ASSUME clock' < a.at + Window
        PROVE  \E c \in claims' : c.key = a.key /\ c.expires = a.at + Window
    <3>1. clock < a.at + Window /\ a.at + Window > clock'
      BY <1>1, <1>2, <2>2, <2>5
    <3>2. PICK c \in claims : c.key = a.key /\ c.expires = a.at + Window
      BY <2>1, <3>1 DEF StillClaimed
    <3> QED BY <1>1, <3>1, <3>2
  <2>6. StillClaimed(a)'
    BY <2>5 DEF StillClaimed, Window
  <2> QED BY <2>4, <2>6
<1>4. AcceptedAgainOnlyLate'
  BY <1>1 DEF ReplayInv, AcceptedAgainOnlyLate, LastSecond
<1> QED BY <1>1, <1>3, <1>4 DEF ReplayInv

LEMMA ReplayStep ==
  ASSUME ServeInv, ReplayInv, [GatewayNext]_gatewayVars
  PROVE  ReplayInv'
<1>1. clock' \in Nat /\ VerifiedInTime'
  BY VerifiedStaysInTime DEF ReplayInv
<1>2. CASE UNCHANGED <<clock, claims, accepted>>
  <2>1. \A a : AcceptedInTime(a) /\ StillClaimed(a) => AcceptedInTime(a)' /\ StillClaimed(a)'
    BY <1>2 DEF AcceptedInTime, StillClaimed, FirstSecond, Window
  <2>2. AcceptedAgainOnlyLate'
    BY <1>2 DEF ReplayInv, AcceptedAgainOnlyLate, LastSecond
  <2> QED BY <1>1, <1>2, <2>1, <2>2 DEF ReplayInv
<1>3. CASE Tick
  BY <1>1, <1>3, TickStep
<1>4. ASSUME NEW r \in Requests, ClaimReplay(r) PROVE ReplayInv'
  <2>1. clock' = clock
    <3>1. req[r].state \in {"judging", "secret", "claim"}
      BY <1>4 DEF ClaimReplay, At
    <3> QED BY <1>4, <3>1, AdmitVerifiesNone, RefuseVerifiesNone DEF ClaimReplay
  <2>2. CASE Claimed(ReplayKey(r))
    BY <1>2, <1>4, <2>1, <2>2 DEF ClaimReplay, replayVars
  <2>3. CASE ~Claimed(ReplayKey(r))
    BY <1>1, <1>4, <2>1, <2>3, ClaimStep
  <2> QED BY <2>2, <2>3
<1> QED BY <1>2, <1>3, <1>4, OthersClaimNothing DEF gatewayVars, replayVars

LEMMA ReplayStarts == Init => ReplayInv
<1> SUFFICES ASSUME Init PROVE ReplayInv
  OBVIOUS
<1>1. \A r \in Requests : req[r].state # "claim"
  BY DEF Init, Idle
<1>2. clock \in Nat /\ accepted = {}
  BY DEF Init
<1> QED BY <1>1, <1>2 DEF ReplayInv, VerifiedInTime, AcceptedAgainOnlyLate

(* For every tolerance and every second, whichever runtimes a delivery       *)
(* reaches and however long each takes between reading the clock and         *)
(* claiming it, it is accepted again only from the last second of its        *)
(* timestamp on (webhook-auth.ts, verifyWebhookRequest).                     *)
THEOREM DeliveriesAcceptedAgainOnlyLate == Spec => []AcceptedAgainOnlyLate
<1>1. Init => ServeInv /\ ReplayInv
  BY ServeStarts, ReplayStarts
<1>2. ServeInv /\ ReplayInv /\ [GatewayNext]_gatewayVars => ServeInv' /\ ReplayInv'
  BY ServeStep, ReplayStep
<1>3. ReplayInv => AcceptedAgainOnlyLate
  BY DEF ReplayInv
<1> QED BY <1>1, <1>2, <1>3, PTL DEF Spec

(***************************************************************************)
(* Builds (ArtifactBuild).                                                 *)
(***************************************************************************)
-----------------------------------------------------------------------------
(* What a job holds at each of its steps.                                   *)
Slicing == {"calls", "secrets", "auth", "queries", "collections", "bundle", "store"}
HaveCode == Slicing \cup {"policies", "slice", "stored"}
HaveRows == HaveCode \cup {"versions"}
HaveBound == HaveRows \cup {"functions"}

Shaped(b) ==
  b = [at |-> b.at, form |-> b.form, env |-> b.env, todo |-> b.todo, bound |-> b.bound,
       assigned |-> b.assigned, settings |-> b.settings, rows |-> b.rows, code |-> b.code,
       policy |-> b.policy, entries |-> b.entries, path |-> b.path,
       selected |-> b.selected, slices |-> b.slices]

Placed(b) ==
  \/ b.form = "endpoint" /\ b.at \in {"idle", "failed", "stored"} \cup DOMAIN EndpointSteps
                                       \cup {"store"}
  \/ b.form = "schedule" /\ b.at \in {"failed", "stored"} \cup DOMAIN ScheduleSteps \cup {"store"}

\* The history of the code of a draft is never rewritten.
Extends(d, later) ==
  \A f \in Functions : \A i \in DOMAIN d.code[f] :
    i \in DOMAIN later.code[f] /\ later.code[f][i] = d.code[f][i]

DraftsKept(d, ds) ==
  /\ d \in ds /\ IsFiniteSet(ds)
  /\ \A x \in ds : x \in Drafts /\ Consistent(x) /\ Extends(x, d)

CallsIn(b) == [f \in DOMAIN b.code |-> b.code[f].calls]
BoundIn(b, e) == {f \in Functions : b.bound[e][f] \in {"on", "bare"}}
KnownIn(b) == \A f \in DOMAIN b.code : b.code[f].calls \subseteq DOMAIN b.code

ReadsKept(b, d, ds) ==
  /\ b.at \in HaveBound => \E x \in ds :
       /\ b.bound = x.bound /\ b.settings = x.settings
       /\ b.form = "endpoint" => b.assigned = x.assigned
  /\ b.at \in HaveRows => \E x \in ds : b.rows = [f \in Available(x) |-> x.rows[f]]
  /\ b.at \in HaveCode => b.code = [f \in DOMAIN b.rows |-> d.code[f][b.rows[f].version]]

\* Which slice is built, from which entries, and which are still to come.
PlaceKept(b, ds) ==
  /\ b.form = "endpoint" => b.env = Home /\ b.todo = {}
  /\ b.form = "schedule" => b.policy = [type |-> "none"] /\ b.assigned = FALSE
  /\ b.at \in Slicing =>
       /\ b.env \in ProjectEnvironments
       /\ b.entries = BoundIn(b, b.env) \cup PolicyFunctions(b.policy)
       /\ b.form = "endpoint" => IF b.assigned THEN \E x \in ds : b.policy = x.policy
                                 ELSE b.policy = [type |-> "none"]
  /\ b.form = "schedule" /\ b.at # "failed" =>
       ProjectEnvironments = DOMAIN b.slices \cup b.todo
                               \cup (IF b.at \in Slicing THEN {b.env} ELSE {})
  /\ b.form = "endpoint" /\ b.at \notin {"failed", "stored"} => DOMAIN b.slices = {}
  /\ b.at = "stored" =>
       DOMAIN b.slices = IF b.form = "endpoint" THEN {Home} ELSE ProjectEnvironments
  /\ b.at \notin {"calls", "failed"} => b.path = <<>>
  /\ b.at \in {"idle", "bindings", "functions", "versions", "policies"} => b.selected = {}

InPath(b) == {b.path[i] : i \in DOMAIN b.path}

\* What is selected is closed under calls and has no cycle; the path follows
\* calls from an entry and meets no Function twice.
WalkKept(b) ==
  b.at \in Slicing =>
    /\ b.path \in Seq(Functions) /\ InPath(b) \cup b.selected \subseteq DOMAIN b.code
    /\ b.selected \cap InPath(b) = {}
    /\ \A i, j \in DOMAIN b.path : i # j => b.path[i] # b.path[j]
    /\ \A i \in DOMAIN b.path : i + 1 \in DOMAIN b.path =>
         b.path[i + 1] \in CallsIn(b)[b.path[i]]
    /\ Closed(b.selected, CallsIn(b)) /\ Acyclic(b.selected, CallsIn(b))
    /\ b.at # "calls" => b.entries \subseteq b.selected

\* All of it is reached from the entries, if nothing was edited.
ReachKept(b, d, ds) ==
  b.at \in Slicing /\ ds = {d} =>
    b.selected \cup InPath(b) \subseteq Reached(d, Entries(d, b.form, b.env))

\* The checks that the job has passed.
ChecksKept(b, ds) ==
  /\ b.at \in Slicing =>
       KnownIn(b) /\ (b.form = "endpoint" /\ BoundIn(b, Home) # {} => b.assigned)
  /\ b.at \in {"auth", "queries", "collections", "bundle", "store"}
       /\ (\E f \in b.selected : b.rows[f].secret) =>
       \E x \in ds : SecretThere(x, b.form, b.env)
  /\ b.form = "endpoint" /\ b.at \in {"queries", "collections", "bundle", "store"}
       /\ PolicySecret(b.policy) =>
       \E x \in ds : SecretThere(x, "endpoint", b.env)
  /\ b.at \in {"collections", "store"} \/ (b.form = "endpoint" /\ b.at = "bundle") =>
       \E x \in ds : x.queried \cap b.selected # {} => x.query /\ b.env = Home
  /\ b.at = "store" \/ (b.form = "schedule" /\ b.at \in {"queries", "collections"}) =>
       \A f \in b.selected : /\ b.code[f].bundles
                             /\ b.form = "schedule" /\ f \in b.entries => b.rows[f].empty

SliceRuns(b, d, ds, s, e) ==
  LET calls == [f \in DOMAIN s.code |-> s.code[f].calls]
  IN /\ s.entries \subseteq DOMAIN s.code
     /\ Closed(DOMAIN s.code, calls) /\ Acyclic(DOMAIN s.code, calls)
     /\ b.policy.type = "custom_function" => b.policy.of \in DOMAIN s.code
     /\ DOMAIN s.code \subseteq Functions
     /\ \A f \in DOMAIN s.code :
          /\ s.version[f] \in DOMAIN d.code[f] /\ s.code[f] = d.code[f][s.version[f]]
          /\ \E x \in ds : x.rows[f].on /\ x.rows[f].version = s.version[f]
     /\ s.secret # {} => \E x \in ds : x.secret[e] \in SecretStates(b.form)

CallsClosed(d) == Closed(Available(d), [f \in Functions |-> CallsOf(d, f)])

SlicesKept(b, d, ds) ==
  b.at # "failed" => \A e \in DOMAIN b.slices :
    /\ SliceRuns(b, d, ds, b.slices[e], e)
    /\ ds = {d} => CallsClosed(d) /\ SliceBuildable(d, b.form, e)

FailureKept(b, d, ds) ==
  b.at = "failed" /\ ds = {d} => ~Buildable(d, b.form) \/ d.collects # {}

JobKept(b, d, ds) ==
  /\ Shaped(b) /\ Placed(b) /\ (b.at = "idle" => b = Blank)
  /\ ReadsKept(b, d, ds) /\ PlaceKept(b, ds) /\ WalkKept(b) /\ ReachKept(b, d, ds)
  /\ ChecksKept(b, ds) /\ SlicesKept(b, d, ds) /\ FailureKept(b, d, ds)

BuildInv == DraftsKept(draft, seen) /\ JobKept(build, draft, seen)
-----------------------------------------------------------------------------
(* Graphs of calls.                                                          *)

(* A Function whose callees are all in a closed set without cycles can be   *)
(* added to it.                                                              *)
LEMMA WalkGrows ==
  ASSUME NEW calls, NEW fs, NEW f, f \notin fs, calls[f] \subseteq fs,
         Closed(fs, calls), Acyclic(fs, calls)
  PROVE  Closed(fs \cup {f}, calls) /\ Acyclic(fs \cup {f}, calls)
<1>1. Closed(fs \cup {f}, calls)
  BY DEF Closed
<1>2. ASSUME NEW part \in (SUBSET (fs \cup {f})) \ {{}}
      PROVE  \E g \in part : calls[g] \cap part = {}
  <2>1. CASE part \cap fs = {}
    <3>1. part # {} /\ \A g \in part : g = f
      BY <1>2, <2>1
    <3>2. f \in part
      BY <3>1
    <3>3. part = {f}
      BY <3>1, <3>2
    <3> QED BY <3>3
  <2>2. CASE part \cap fs # {}
    <3>1. PICK g \in part \cap fs : calls[g] \cap (part \cap fs) = {}
      BY <2>2 DEF Acyclic
    <3>2. calls[g] \subseteq fs
      BY DEF Closed
    <3> QED BY <3>1, <3>2
  <2> QED BY <2>1, <2>2
<1> QED BY <1>1, <1>2 DEF Acyclic

(* A path that follows calls and whose last Function calls one of the path  *)
(* has a cycle.                                                              *)
LEMMA PathCycle ==
  ASSUME NEW S, NEW path \in Seq(S), NEW calls, NEW fs,
         \A i \in DOMAIN path : path[i] \in fs,
         \A i \in DOMAIN path : i + 1 \in DOMAIN path => path[i + 1] \in calls[path[i]],
         NEW k \in DOMAIN path, path[k] \in calls[path[Len(path)]]
  PROVE  ~Acyclic(fs, calls)
<1> DEFINE part == {path[i] : i \in k .. Len(path)}
<1>1. Len(path) \in Nat /\ DOMAIN path = 1 .. Len(path)
  OBVIOUS
<1>2. part \subseteq fs /\ part # {}
  <2>1. k \in k .. Len(path) /\ k .. Len(path) \subseteq DOMAIN path
    BY <1>1
  <2> QED BY <2>1
<1>3. ASSUME NEW g \in part PROVE calls[g] \cap part # {}
  <2>1. PICK i \in k .. Len(path) : g = path[i]
    OBVIOUS
  <2>2. CASE i = Len(path)
    <3>1. path[k] \in part
      BY <1>1
    <3> QED BY <2>1, <2>2, <3>1
  <2>3. CASE i # Len(path)
    <3>1. k \in Nat /\ i \in Nat /\ k <= i /\ i < Len(path) /\ 1 <= k
      <4> HIDE DEF part
      <4>1. k \in 1 .. Len(path)
        BY <1>1
      <4>2. k \in Nat
        BY <4>1
      <4>3. i \in Nat /\ k <= i /\ i <= Len(path)
        BY <1>1, <2>1, <4>2
      <4>4. Len(path) \in Nat
        BY <1>1
      <4> QED BY <2>3, <4>1, <4>2, <4>3, <4>4
    <3>2. i \in DOMAIN path /\ i + 1 \in DOMAIN path /\ i + 1 \in k .. Len(path)
      BY <1>1, <3>1
    <3>3. path[i + 1] \in calls[path[i]] /\ path[i + 1] \in part
      BY <3>2
    <3> QED BY <2>1, <3>3
  <2> QED BY <2>2, <2>3
<1> QED BY <1>2, <1>3 DEF Acyclic

(* One more of a path, and one less.                                        *)
LEMMA PathGrows ==
  ASSUME NEW S, NEW s \in Seq(S), NEW f \in S, NEW t, t = Append(s, f)
  PROVE  /\ t \in Seq(S) /\ Len(t) = Len(s) + 1
         /\ DOMAIN t = 1 .. Len(s) + 1 /\ t[Len(s) + 1] = f
         /\ \A i \in DOMAIN s : t[i] = s[i]
OBVIOUS

LEMMA PathShrinks ==
  ASSUME NEW S, NEW s \in Seq(S), s # <<>>, NEW t, t = SubSeq(s, 1, Len(s) - 1)
  PROVE  /\ t \in Seq(S) /\ DOMAIN t = 1 .. Len(s) - 1
         /\ \A i \in 1 .. Len(s) - 1 : t[i] = s[i]
<1>1. Len(s) \in Nat \ {0} /\ DOMAIN s = 1 .. Len(s)
  OBVIOUS
<1>2. \A i \in 1 .. Len(s) - 1 : s[i] \in S
  BY <1>1
<1>3. /\ t \in Seq(S) /\ Len(t) = IF 1 <= Len(s) - 1 THEN Len(s) - 1 ELSE 0
      /\ \A i \in 1 .. Len(s) - 1 : t[i] = s[i]
  BY <1>1, <1>2, SubSeqProperties
<1> QED BY <1>1, <1>3

(* What is reached from the entries: they are, so are the callees of what   *)
(* is, and nothing that is outside a closed set around them.                *)
LEMMA ReachedEntries ==
  ASSUME NEW d, NEW entries \in SUBSET Functions
  PROVE  entries \subseteq Reached(d, entries)
BY DEF Reached

LEMMA ReachedCallees ==
  ASSUME NEW d, NEW entries, NEW f \in Reached(d, entries),
         NEW g \in CallsOf(d, f) \cap Functions
  PROVE  g \in Reached(d, entries)
BY DEF Reached

LEMMA ReachedWithin ==
  ASSUME NEW d, NEW entries, NEW fs \in SUBSET Functions, entries \subseteq fs,
         \A g \in fs : CallsOf(d, g) \cap Functions \subseteq fs
  PROVE  Reached(d, entries) \subseteq fs
BY DEF Reached

-----------------------------------------------------------------------------
(* Drafts.                                                                   *)
LEMMA DraftFields ==
  ASSUME NEW d \in Drafts
  PROVE  /\ d.rows \in [Functions -> Row] /\ d.code \in [Functions -> Seq(Sources)]
         /\ d.bound \in [ProjectEnvironments -> [Functions -> Bindings]]
         /\ d.policy \in PolicyRows /\ d.assigned \in BOOLEAN
         /\ d.secret \in [ProjectEnvironments -> {"set", "empty", "gone"}]
         /\ d.query \in BOOLEAN /\ d.queried \in SUBSET Functions
         /\ d.collects \in SUBSET Functions /\ d.settings \in Settings
BY DEF Drafts

LEMMA RowFields ==
  ASSUME NEW r \in Row
  PROVE  /\ r.on \in BOOLEAN /\ r.version \in Nat \ {0} /\ r.secret \in BOOLEAN
         /\ r.requires \in BOOLEAN /\ r.empty \in BOOLEAN
BY DEF Row

LEMMA CodeKept ==
  ASSUME NEW d, NEW ds, DraftsKept(d, ds), NEW x \in ds, NEW f \in Functions
  PROVE  /\ x.rows[f].version \in DOMAIN d.code[f]
         /\ d.code[f][x.rows[f].version] = x.code[f][x.rows[f].version]
         /\ d.code[f][x.rows[f].version] \in Sources
<1>1. x \in Drafts /\ Consistent(x) /\ Extends(x, d) /\ d \in Drafts
  BY DEF DraftsKept
<1>2. x.rows[f].version \in DOMAIN x.code[f]
  BY <1>1 DEF Consistent
<1>3. /\ x.rows[f].version \in DOMAIN d.code[f]
      /\ d.code[f][x.rows[f].version] = x.code[f][x.rows[f].version]
  BY <1>1, <1>2 DEF Extends
<1>4. d.code[f] \in Seq(Sources)
  BY <1>1, DraftFields
<1> QED BY <1>3, <1>4, ElementOfSeq

LEMMA SoleDraft ==
  ASSUME NEW d, NEW ds, DraftsKept(d, ds), Cardinality(ds) = 1
  PROVE  ds = {d}
<1>1. IsFiniteSet(ds) /\ d \in ds
  BY DEF DraftsKept
<1>2. \E x : ds = {x}
  BY <1>1, FS_Singleton
<1> QED BY <1>1, <1>2

LEMMA ExtendsGrows ==
  ASSUME NEW x, NEW d, NEW new, Extends(x, d), Extends(d, new)
  PROVE  Extends(x, new)
BY DEF Extends

-----------------------------------------------------------------------------
(* An edit gives a draft that is kept, and rewrites no version.              *)
Kept(new) == new \in Drafts /\ Consistent(new) /\ Extends(draft, new)

LEMMA SameHistory ==
  ASSUME NEW d, NEW new, new.code = d.code
  PROVE  Extends(d, new)
BY DEF Extends

LEMMA SaveKept ==
  ASSUME DraftsKept(draft, seen), NEW f \in Functions, NEW code \in Codes
  PROVE  Kept([draft EXCEPT !.rows[f].version = Len(draft.code[f]) + 1,
                            !.code[f] = Append(@, code)])
<1> DEFINE new == [draft EXCEPT !.rows[f].version = Len(draft.code[f]) + 1,
                                !.code[f] = Append(@, code)]
           row == [draft.rows[f] EXCEPT !.version = Len(draft.code[f]) + 1]
           history == Append(draft.code[f], code)
<1>1. draft \in Drafts /\ Consistent(draft)
  BY DEF DraftsKept
<1>2. /\ draft.rows \in [Functions -> Row] /\ draft.code \in [Functions -> Seq(Sources)]
      /\ draft.code[f] \in Seq(Sources) /\ draft.rows[f] \in Row
  BY <1>1, DraftFields
<1>3. code \in Sources
  BY BuildAssumption
<1>4. /\ history \in Seq(Sources) /\ Len(history) = Len(draft.code[f]) + 1
      /\ DOMAIN history = 1 .. Len(draft.code[f]) + 1 /\ Len(draft.code[f]) \in Nat
      /\ \A i \in DOMAIN draft.code[f] : i \in DOMAIN history /\ history[i] = draft.code[f][i]
  BY <1>2, <1>3
<1>5. row \in Row /\ row.version \in DOMAIN history
  <2>1. Len(draft.code[f]) + 1 \in Nat \ {0}
    BY <1>4
  <2>2. row \in Row /\ row.version = Len(draft.code[f]) + 1
    BY <1>2, <2>1 DEF Row
  <2> QED BY <1>4, <2>1, <2>2
<1>6. new = [draft EXCEPT !.rows = [draft.rows EXCEPT ![f] = row],
                          !.code = [draft.code EXCEPT ![f] = history]]
  BY <1>1, <1>2 DEF Drafts
<1> HIDE DEF new, row, history
<1>7. new \in Drafts
  BY <1>1, <1>2, <1>4, <1>5, <1>6 DEF Drafts
<1>8. /\ new.rows = [draft.rows EXCEPT ![f] = row] /\ new.code = [draft.code EXCEPT ![f] = history]
      /\ new.assigned = draft.assigned /\ new.policy = draft.policy
      /\ new.settings = draft.settings
  BY <1>1, <1>6 DEF Drafts
<1>9. Consistent(new)
  <2>1. \A g \in Functions : new.rows[g].version \in DOMAIN new.code[g]
    BY <1>1, <1>2, <1>5, <1>8 DEF Consistent
  <2> QED BY <1>1, <1>8, <2>1 DEF Consistent
<1>10. Extends(draft, new)
  BY <1>2, <1>4, <1>8 DEF Extends
<1> QED BY <1>7, <1>9, <1>10 DEF new, Kept

LEMMA PatchKept ==
  ASSUME DraftsKept(draft, seen), NEW f \in Functions,
         NEW field \in {"on", "secret", "requires", "empty"}
  PROVE  Kept([draft EXCEPT !.rows[f][field] = ~@])
<1> DEFINE new == [draft EXCEPT !.rows[f][field] = ~@]
           row == [draft.rows[f] EXCEPT ![field] = ~@]
<1>1. draft \in Drafts /\ Consistent(draft)
  BY DEF DraftsKept
<1>2. draft.rows \in [Functions -> Row] /\ draft.rows[f] \in Row
  BY <1>1, DraftFields
<1>3. row \in Row /\ row.version = draft.rows[f].version
  BY <1>2 DEF Row
<1>4. new = [draft EXCEPT !.rows = [draft.rows EXCEPT ![f] = row]]
  BY <1>1, <1>2 DEF Drafts
<1> HIDE DEF new, row
<1>5. new \in Drafts
  BY <1>1, <1>2, <1>3, <1>4 DEF Drafts
<1>6. /\ new.rows = [draft.rows EXCEPT ![f] = row] /\ new.code = draft.code
      /\ new.assigned = draft.assigned /\ new.policy = draft.policy
      /\ new.settings = draft.settings
  BY <1>1, <1>4 DEF Drafts
<1>7. \A g \in Functions : new.rows[g].version = draft.rows[g].version
  BY <1>2, <1>3, <1>6
<1>8. Consistent(new)
  BY <1>1, <1>6, <1>7 DEF Consistent
<1> QED BY <1>5, <1>6, <1>8, SameHistory DEF new, Kept

LEMMA BindKept ==
  ASSUME DraftsKept(draft, seen), NEW e \in ProjectEnvironments, NEW f \in Functions,
         NEW binding \in Bindings
  PROVE  Kept([draft EXCEPT !.bound[e][f] = binding])
<1> DEFINE new == [draft EXCEPT !.bound[e][f] = binding]
           bound == [draft.bound EXCEPT ![e] = [draft.bound[e] EXCEPT ![f] = binding]]
<1>1. draft \in Drafts /\ Consistent(draft)
  BY DEF DraftsKept
<1>2. bound \in [ProjectEnvironments -> [Functions -> Bindings]]
  BY <1>1, DraftFields
<1>3. new = [draft EXCEPT !.bound = bound]
  BY <1>1 DEF Drafts
<1> HIDE DEF new, bound
<1>4. new \in Drafts
  BY <1>1, <1>2, <1>3 DEF Drafts
<1>5. /\ new.rows = draft.rows /\ new.code = draft.code
      /\ new.assigned = draft.assigned /\ new.policy = draft.policy
      /\ new.settings = draft.settings
  BY <1>1, <1>3 DEF Drafts
<1>6. Consistent(new)
  BY <1>1, <1>5 DEF Consistent
<1> QED BY <1>4, <1>5, <1>6, SameHistory DEF new, Kept

(* The other edits leave the Functions as they are.                         *)
LEMMA OthersKept ==
  ASSUME DraftsKept(draft, seen), NEW new \in Drafts,
         new.rows = draft.rows, new.code = draft.code,
         new.assigned => new.policy.type # "none",
         NetworkAccepted(new.settings), AccessAccepted(new.settings)
  PROVE  Kept(new)
<1>1. Consistent(draft)
  BY DEF DraftsKept
<1>2. Consistent(new)
  BY <1>1 DEF Consistent
<1> QED BY <1>2, SameHistory DEF Kept

LEMMA PolicyKept ==
  ASSUME DraftsKept(draft, seen), NEW row \in PolicyRows, NEW assigned \in BOOLEAN,
         assigned => row.type # "none"
  PROVE  Kept([draft EXCEPT !.policy = row, !.assigned = assigned])
<1> DEFINE new == [draft EXCEPT !.policy = row, !.assigned = assigned]
<1>1. draft \in Drafts /\ Consistent(draft)
  BY DEF DraftsKept
<1>2. new \in Drafts
  BY <1>1 DEF Drafts
<1>3. /\ new.rows = draft.rows /\ new.code = draft.code /\ new.settings = draft.settings
      /\ new.assigned = assigned /\ new.policy = row
  BY <1>1 DEF Drafts
<1> HIDE DEF new
<1>4. Kept(new)
  BY <1>1, <1>2, <1>3, OthersKept DEF Consistent
<1> QED BY <1>4 DEF new

LEMMA NetworkKept ==
  ASSUME DraftsKept(draft, seen), NEW n \in Networks, NetworkAccepted(n)
  PROVE  Kept([draft EXCEPT !.settings.allowed = n.allowed, !.settings.private = n.private,
                            !.settings.insecure = n.insecure])
<1> DEFINE new == [draft EXCEPT !.settings.allowed = n.allowed, !.settings.private = n.private,
                                !.settings.insecure = n.insecure]
           settings == [draft.settings EXCEPT !.allowed = n.allowed, !.private = n.private,
                                              !.insecure = n.insecure]
<1>1. draft \in Drafts /\ Consistent(draft) /\ draft.settings \in Settings
  BY DraftFields DEF DraftsKept
<1>2. n \in Networking
  BY BuildAssumption
<1>3. settings \in Settings
  BY <1>1, <1>2 DEF Settings, Networking
<1>4. /\ settings.allowed = n.allowed /\ settings.private = n.private
      /\ settings.insecure = n.insecure /\ settings.restricted = draft.settings.restricted
      /\ settings.subjects = draft.settings.subjects
  BY <1>1 DEF Settings
<1>5. new = [draft EXCEPT !.settings = settings]
  BY <1>1 DEF Drafts
<1> HIDE DEF new, settings
<1>6. new \in Drafts
  BY <1>1, <1>3, <1>5 DEF Drafts
<1>7. /\ new.rows = draft.rows /\ new.code = draft.code /\ new.settings = settings
      /\ new.assigned = draft.assigned /\ new.policy = draft.policy
  BY <1>1, <1>5 DEF Drafts
<1>8. NetworkAccepted(settings) /\ AccessAccepted(settings)
  BY <1>1, <1>4 DEF Consistent, NetworkAccepted, AccessAccepted
<1>9. Kept(new)
  BY <1>1, <1>6, <1>7, <1>8, OthersKept DEF Consistent
<1> QED BY <1>9 DEF new

LEMMA SecretKept ==
  ASSUME DraftsKept(draft, seen), NEW e \in ProjectEnvironments,
         NEW state \in {"set", "empty", "gone"}
  PROVE  Kept([draft EXCEPT !.secret[e] = state])
<1> DEFINE new == [draft EXCEPT !.secret[e] = state]
           secret == [draft.secret EXCEPT ![e] = state]
<1>1. draft \in Drafts /\ Consistent(draft)
  BY DEF DraftsKept
<1>2. secret \in [ProjectEnvironments -> {"set", "empty", "gone"}]
  BY <1>1, DraftFields
<1>3. new = [draft EXCEPT !.secret = secret]
  BY <1>1 DEF Drafts
<1> HIDE DEF new, secret
<1>4. new \in Drafts
  BY <1>1, <1>2, <1>3 DEF Drafts
<1>5. /\ new.rows = draft.rows /\ new.code = draft.code /\ new.settings = draft.settings
      /\ new.assigned = draft.assigned /\ new.policy = draft.policy
  BY <1>1, <1>3 DEF Drafts
<1>6. Kept(new)
  BY <1>1, <1>4, <1>5, OthersKept DEF Consistent
<1> QED BY <1>6 DEF new

LEMMA QueryKept ==
  ASSUME DraftsKept(draft, seen)
  PROVE  Kept([draft EXCEPT !.query = ~@])
<1> DEFINE new == [draft EXCEPT !.query = ~@]
<1>1. draft \in Drafts /\ Consistent(draft)
  BY DEF DraftsKept
<1>2. new \in Drafts
  BY <1>1 DEF Drafts
<1>3. /\ new.rows = draft.rows /\ new.code = draft.code /\ new.settings = draft.settings
      /\ new.assigned = draft.assigned /\ new.policy = draft.policy
  BY <1>1 DEF Drafts
<1> HIDE DEF new
<1>4. Kept(new)
  BY <1>1, <1>2, <1>3, OthersKept DEF Consistent
<1> QED BY <1>4 DEF new

LEMMA GrantKept ==
  ASSUME DraftsKept(draft, seen), NEW table \in {"queried", "collects"}, NEW f \in Functions
  PROVE  Kept([draft EXCEPT ![table] = IF f \in @ THEN @ \ {f} ELSE @ \cup {f}])
<1> DEFINE new == [draft EXCEPT ![table] = IF f \in @ THEN @ \ {f} ELSE @ \cup {f}]
<1>1. draft \in Drafts /\ Consistent(draft)
  BY DEF DraftsKept
<1>2. CASE table = "queried"
  <2> DEFINE granted == IF f \in draft.queried THEN draft.queried \ {f}
                        ELSE draft.queried \cup {f}
  <2>1. new = [draft EXCEPT !.queried = granted] /\ granted \in SUBSET Functions
    BY <1>1, <1>2, DraftFields
  <2> HIDE DEF new, granted
  <2>2. new \in Drafts
    BY <1>1, <2>1 DEF Drafts
  <2>3. /\ new.rows = draft.rows /\ new.code = draft.code /\ new.settings = draft.settings
        /\ new.assigned = draft.assigned /\ new.policy = draft.policy
    BY <1>1, <2>1 DEF Drafts
  <2>4. Kept(new)
    BY <1>1, <2>2, <2>3, OthersKept DEF Consistent
  <2> QED BY <2>4 DEF new
<1>3. CASE table = "collects"
  <2> DEFINE granted == IF f \in draft.collects THEN draft.collects \ {f}
                        ELSE draft.collects \cup {f}
  <2>1. new = [draft EXCEPT !.collects = granted] /\ granted \in SUBSET Functions
    BY <1>1, <1>3, DraftFields
  <2> HIDE DEF new, granted
  <2>2. new \in Drafts
    BY <1>1, <2>1 DEF Drafts
  <2>3. /\ new.rows = draft.rows /\ new.code = draft.code /\ new.settings = draft.settings
        /\ new.assigned = draft.assigned /\ new.policy = draft.policy
    BY <1>1, <2>1 DEF Drafts
  <2>4. Kept(new)
    BY <1>1, <2>2, <2>3, OthersKept DEF Consistent
  <2> QED BY <2>4 DEF new
<1> QED BY <1>2, <1>3

(* A job keeps what it has over an edit.                                     *)
LEMMA SliceOutlivesEdit ==
  ASSUME NEW b, NEW d, NEW ds, DraftsKept(d, ds), NEW new, Extends(d, new),
         NEW s, NEW e, SliceRuns(b, d, ds, s, e)
  PROVE  SliceRuns(b, new, ds \cup {new}, s, e)
<1>1. ASSUME NEW f \in DOMAIN s.code
      PROVE  /\ s.version[f] \in DOMAIN new.code[f]
             /\ s.code[f] = new.code[f][s.version[f]]
             /\ \E x \in ds \cup {new} : x.rows[f].on /\ x.rows[f].version = s.version[f]
  BY <1>1 DEF SliceRuns, Extends
<1> QED BY <1>1 DEF SliceRuns

LEMMA ReadsOutliveEdit ==
  ASSUME NEW b, NEW d, NEW ds, DraftsKept(d, ds), NEW new, Extends(d, new),
         ReadsKept(b, d, ds)
  PROVE  ReadsKept(b, new, ds \cup {new})
<1>1. ASSUME b.at \in HaveCode, NEW f \in DOMAIN b.rows
      PROVE  d.code[f][b.rows[f].version] = new.code[f][b.rows[f].version]
  <2>1. PICK x \in ds : b.rows = [g \in Available(x) |-> x.rows[g]]
    BY <1>1 DEF ReadsKept, HaveRows
  <2>2. f \in Functions /\ b.rows[f] = x.rows[f]
    BY <1>1, <2>1 DEF Available
  <2>3. x.rows[f].version \in DOMAIN d.code[f]
    BY <2>2, CodeKept
  <2> QED BY <2>2, <2>3 DEF Extends
<1>2. b.at \in HaveCode => b.code = [f \in DOMAIN b.rows |-> new.code[f][b.rows[f].version]]
  BY <1>1 DEF ReadsKept
<1> QED BY <1>2 DEF ReadsKept

LEMMA JobOutlivesEdit ==
  ASSUME NEW b, NEW d, NEW ds, DraftsKept(d, ds), JobKept(b, d, ds),
         b.at \notin {"idle", "stored", "failed"},
         NEW new, new # d, Extends(d, new)
  PROVE  JobKept(b, new, ds \cup {new})
<1>1. ds \cup {new} # {new}
  BY DEF DraftsKept
<1>2. ReadsKept(b, new, ds \cup {new})
  BY ReadsOutliveEdit DEF JobKept
<1>3. PlaceKept(b, ds \cup {new})
  BY DEF JobKept, PlaceKept
<1>4. ReachKept(b, new, ds \cup {new}) /\ FailureKept(b, new, ds \cup {new})
  BY <1>1 DEF ReachKept, FailureKept
<1>5. ChecksKept(b, ds \cup {new})
  BY DEF JobKept, ChecksKept
<1>6. SlicesKept(b, new, ds \cup {new})
  BY <1>1, SliceOutlivesEdit DEF JobKept, SlicesKept
<1> QED BY <1>2, <1>3, <1>4, <1>5, <1>6 DEF JobKept

LEMMA IdleKept ==
  ASSUME NEW d, NEW ds
  PROVE  JobKept(Blank, d, ds)
<1>1. Shaped(Blank) /\ Placed(Blank) /\ Blank.at = "idle" /\ DOMAIN Blank.slices = {}
  BY DEF Blank, Shaped, Placed
<1>2. ReadsKept(Blank, d, ds) /\ PlaceKept(Blank, ds) /\ WalkKept(Blank)
  BY <1>1 DEF Blank, ReadsKept, PlaceKept, WalkKept, HaveBound, HaveRows, HaveCode, Slicing
<1>3. ReachKept(Blank, d, ds) /\ ChecksKept(Blank, ds)
  BY <1>1 DEF Blank, ReachKept, ChecksKept, Slicing
<1>4. SlicesKept(Blank, d, ds) /\ FailureKept(Blank, d, ds)
  BY <1>1 DEF SlicesKept, FailureKept
<1> QED BY <1>1, <1>2, <1>3, <1>4 DEF JobKept

LEMMA EditStep ==
  ASSUME BuildInv, NEW new, Edit(new), Kept(new)
  PROVE  BuildInv'
<1>1. /\ build.at \notin {"stored", "failed"} /\ new # draft /\ draft' = new /\ build' = build
      /\ seen' = IF build.at = "idle" THEN {new} ELSE seen \cup {new}
  BY DEF Edit, Ended
<1>2. /\ DraftsKept(draft, seen) /\ JobKept(build, draft, seen)
      /\ new \in Drafts /\ Consistent(new) /\ Extends(draft, new) /\ Extends(new, new)
  BY SameHistory DEF BuildInv, Kept
<1>3. CASE build.at = "idle"
  <2>1. DraftsKept(new, {new})
    BY <1>2, FS_Singleton DEF DraftsKept
  <2>2. build = Blank
    BY <1>2, <1>3 DEF JobKept
  <2>3. seen' = {new}
    BY <1>1, <1>3
  <2>4. JobKept(Blank, new, {new})
    BY IdleKept
  <2> QED BY <1>1, <2>1, <2>2, <2>3, <2>4 DEF BuildInv
<1>4. CASE build.at # "idle"
  <2>1. seen' = seen \cup {new}
    BY <1>1, <1>4
  <2>2. DraftsKept(new, seen \cup {new})
    <3>1. IsFiniteSet(seen \cup {new})
      BY <1>2, FS_AddElement DEF DraftsKept
    <3>2. \A x \in seen \cup {new} : x \in Drafts /\ Consistent(x) /\ Extends(x, new)
      BY <1>2, ExtendsGrows DEF DraftsKept
    <3> QED BY <3>1, <3>2 DEF DraftsKept
  <2>3. JobKept(build, new, seen \cup {new})
    BY <1>1, <1>2, <1>4, JobOutlivesEdit
  <2> QED BY <1>1, <2>1, <2>2, <2>3 DEF BuildInv
<1> QED BY <1>3, <1>4

-----------------------------------------------------------------------------
(* What a job has read.                                                      *)
LEMMA JobReads ==
  ASSUME NEW b, NEW d, NEW ds, DraftsKept(d, ds), ReadsKept(b, d, ds), b.at \in HaveCode
  PROVE  /\ DOMAIN b.code = DOMAIN b.rows /\ DOMAIN b.rows \subseteq Functions
         /\ \A f \in DOMAIN b.rows :
              /\ b.rows[f] \in Row /\ b.code[f] \in Sources
              /\ b.rows[f].version \in DOMAIN d.code[f]
              /\ b.code[f] = d.code[f][b.rows[f].version]
              /\ \E x \in ds : x.rows[f].on /\ x.rows[f].version = b.rows[f].version
<1>1. PICK x \in ds : b.rows = [f \in Available(x) |-> x.rows[f]]
  BY DEF ReadsKept, HaveRows
<1>2. b.code = [f \in DOMAIN b.rows |-> d.code[f][b.rows[f].version]]
  BY DEF ReadsKept
<1>3. x \in Drafts /\ x.rows \in [Functions -> Row]
  BY DraftFields DEF DraftsKept
<1>4. ASSUME NEW f \in DOMAIN b.rows
      PROVE  /\ f \in Functions /\ b.rows[f] = x.rows[f] /\ x.rows[f].on
             /\ x.rows[f].version \in DOMAIN d.code[f]
             /\ d.code[f][x.rows[f].version] \in Sources
  <2>1. f \in Functions /\ b.rows[f] = x.rows[f] /\ x.rows[f].on
    BY <1>1, <1>4 DEF Available
  <2> QED BY <2>1, CodeKept
<1> QED BY <1>2, <1>3, <1>4

LEMMA SoleReads ==
  ASSUME NEW b, NEW d, NEW ds, ds = {d}, DraftsKept(d, ds), ReadsKept(b, d, ds), b.at \in HaveCode
  PROVE  /\ b.bound = d.bound /\ b.settings = d.settings
         /\ b.form = "endpoint" => b.assigned = d.assigned
         /\ DOMAIN b.rows = Available(d) /\ DOMAIN b.code = Available(d)
         /\ Available(d) \subseteq Functions
         /\ \A f \in Available(d) :
              /\ b.code[f] = d.code[f][d.rows[f].version] /\ b.code[f].calls = CallsOf(d, f)
              /\ b.rows[f] = d.rows[f]
<1>1. /\ b.bound = d.bound /\ b.settings = d.settings
      /\ b.form = "endpoint" => b.assigned = d.assigned
      /\ b.rows = [f \in Available(d) |-> d.rows[f]]
  BY DEF ReadsKept, HaveBound, HaveRows
<1>2. b.code = [f \in DOMAIN b.rows |-> d.code[f][b.rows[f].version]]
  BY DEF ReadsKept
<1>3. DOMAIN b.rows = Available(d) /\ \A f \in Available(d) : b.rows[f] = d.rows[f]
  BY <1>1
<1> QED BY <1>1, <1>2, <1>3 DEF CallsOf, Available

LEMMA SoleEntries ==
  ASSUME NEW b, NEW d, NEW ds, ds = {d}, DraftsKept(d, ds), JobKept(b, d, ds), b.at \in Slicing
  PROVE  b.entries = Entries(d, b.form, b.env) /\ b.entries \subseteq Functions
<1>1. /\ ReadsKept(b, d, ds) /\ PlaceKept(b, ds) /\ b.at \in HaveCode
      /\ b.form \in {"endpoint", "schedule"} /\ d \in Drafts
  BY DEF JobKept, HaveCode, Placed, DraftsKept
<1>2. b.bound = d.bound /\ (b.form = "endpoint" => b.assigned = d.assigned)
  BY <1>1, SoleReads
<1>3. BoundIn(b, b.env) = {f \in Functions : d.bound[b.env][f] \in {"on", "bare"}}
  BY <1>2 DEF BoundIn
<1>4. b.entries = BoundIn(b, b.env) \cup PolicyFunctions(b.policy)
  BY <1>1 DEF PlaceKept
<1>5. CASE b.form = "endpoint" /\ d.assigned
  <2>1. b.policy = d.policy /\ d.policy \in PolicyRows
    BY <1>1, <1>2, <1>5, DraftFields DEF PlaceKept
  <2>2. PolicyFunctions(d.policy) \subseteq Functions
    BY <2>1 DEF PolicyFunctions, PolicyRows
  <2> QED BY <1>3, <1>4, <1>5, <2>1, <2>2 DEF Entries, PolicyFunctions
<1>6. CASE b.form = "schedule" \/ ~d.assigned
  <2>1. b.policy = [type |-> "none"]
    BY <1>1, <1>2, <1>6 DEF PlaceKept
  <2>2. PolicyFunctions(b.policy) = {}
    BY <2>1 DEF PolicyFunctions
  <2> QED BY <1>1, <1>3, <1>4, <1>6, <2>2 DEF Entries
<1> QED BY <1>1, <1>5, <1>6

LEMMA AcyclicSame ==
  ASSUME NEW fs, NEW calls, NEW others, \A f \in fs : calls[f] = others[f]
  PROVE  Acyclic(fs, calls) <=> Acyclic(fs, others)
<1>1. \A part \in SUBSET fs : \A f \in part : calls[f] \cap part = others[f] \cap part
  OBVIOUS
<1> QED BY <1>1 DEF Acyclic

(* With all calls known, the drafts' graph and the job's are the same.      *)
LEMMA SoleWalk ==
  ASSUME NEW b, NEW d, NEW ds, ds = {d}, DraftsKept(d, ds), JobKept(b, d, ds),
         b.at \in Slicing \ {"calls"}
  PROVE  /\ b.selected = Reached(d, Entries(d, b.form, b.env))
         /\ b.selected \subseteq Available(d)
         /\ Acyclic(b.selected, [f \in Functions |-> CallsOf(d, f)])
<1>1. /\ ReadsKept(b, d, ds) /\ WalkKept(b) /\ ReachKept(b, d, ds) /\ b.at \in HaveCode
  BY DEF JobKept, HaveCode
<1>2. /\ DOMAIN b.code = Available(d) /\ Available(d) \subseteq Functions
      /\ \A f \in Available(d) : b.code[f].calls = CallsOf(d, f)
  BY <1>1, SoleReads
<1>3. /\ b.selected \subseteq DOMAIN b.code /\ b.entries \subseteq b.selected
      /\ Closed(b.selected, CallsIn(b)) /\ Acyclic(b.selected, CallsIn(b))
  BY <1>1 DEF WalkKept
<1>4. \A f \in b.selected : CallsIn(b)[f] = CallsOf(d, f)
  BY <1>2, <1>3 DEF CallsIn
<1>5. Reached(d, Entries(d, b.form, b.env)) \subseteq b.selected
  <2>1. Entries(d, b.form, b.env) \subseteq b.selected
    BY <1>3, SoleEntries
  <2>2. \A g \in b.selected : CallsOf(d, g) \cap Functions \subseteq b.selected
    BY <1>3, <1>4 DEF Closed
  <2> QED BY <1>2, <1>3, <2>1, <2>2, ReachedWithin
<1>6. b.selected \subseteq Reached(d, Entries(d, b.form, b.env))
  BY <1>1 DEF ReachKept
<1>7. Acyclic(b.selected, [f \in Functions |-> CallsOf(d, f)])
  <2>1. \A f \in b.selected : CallsIn(b)[f] = [g \in Functions |-> CallsOf(d, g)][f]
    BY <1>2, <1>3, <1>4
  <2> QED BY <1>3, <2>1, AcyclicSame
<1> QED BY <1>2, <1>3, <1>5, <1>6, <1>7

LEMMA SoleKnown ==
  ASSUME NEW b, NEW d, NEW ds, ds = {d}, DraftsKept(d, ds), ReadsKept(b, d, ds), b.at \in HaveCode
  PROVE  KnownIn(b) <=> CallsClosed(d)
<1>1. /\ DOMAIN b.code = Available(d) /\ Available(d) \subseteq Functions
      /\ \A f \in Available(d) : b.code[f].calls = CallsOf(d, f)
  BY SoleReads
<1>2. \A f \in Available(d) : [g \in Functions |-> CallsOf(d, g)][f] = CallsOf(d, f)
  BY <1>1
<1> QED BY <1>1, <1>2 DEF KnownIn, CallsClosed, Closed

LEMMA Unbuildable ==
  ASSUME NEW d, NEW form \in {"endpoint", "schedule"}, NEW e \in ProjectEnvironments,
         form = "endpoint" => e = Home,
         ~CallsClosed(d) \/ ~SliceBuildable(d, form, e)
  PROVE  ~Buildable(d, form)
BY DEF Buildable, CallsClosed

(* A job that fails.                                                         *)
LEMMA FailureStep ==
  ASSUME NEW b, NEW d, NEW ds, JobKept(b, d, ds), b.at # "idle",
         ds = {d} => ~Buildable(d, b.form) \/ d.collects # {}
  PROVE  JobKept([b EXCEPT !.at = "failed"], d, ds)
<1> DEFINE c == [b EXCEPT !.at = "failed"]
<1>1. Shaped(b) /\ Placed(b) /\ PlaceKept(b, ds)
  BY DEF JobKept
<1>2. /\ Shaped(c) /\ c.at = "failed" /\ c.form = b.form /\ c.env = b.env /\ c.todo = b.todo
      /\ c.policy = b.policy /\ c.assigned = b.assigned
  BY <1>1 DEF Shaped
<1> HIDE DEF c
<1>3. Placed(c)
  BY <1>1, <1>2 DEF Placed
<1>4. ReadsKept(c, d, ds) /\ WalkKept(c) /\ ReachKept(c, d, ds) /\ ChecksKept(c, ds)
  BY <1>2 DEF ReadsKept, WalkKept, ReachKept, ChecksKept, HaveBound, HaveRows, HaveCode,
              Slicing
<1>5. PlaceKept(c, ds)
  BY <1>1, <1>2 DEF PlaceKept, Slicing
<1>6. SlicesKept(c, d, ds) /\ FailureKept(c, d, ds)
  BY <1>2 DEF SlicesKept, FailureKept
<1>7. JobKept(c, d, ds)
  BY <1>2, <1>3, <1>4, <1>5, <1>6 DEF JobKept
<1> QED BY <1>7 DEF c

-----------------------------------------------------------------------------
(* The steps of a job.                                                       *)

(* A step of a slice that only moves on keeps what the slice has.            *)
LEMMA MovesOn ==
  ASSUME NEW b, NEW d, NEW ds, JobKept(b, d, ds), b.at \in Slicing,
         b.at = "calls" => b.path = <<>> /\ b.entries \subseteq b.selected,
         NEW next \in Slicing \ {"calls"}, Placed([b EXCEPT !.at = next]),
         ChecksKept([b EXCEPT !.at = next], ds)
  PROVE  JobKept([b EXCEPT !.at = next], d, ds)
<1> DEFINE c == [b EXCEPT !.at = next]
<1>1. /\ Shaped(b) /\ ReadsKept(b, d, ds) /\ PlaceKept(b, ds) /\ WalkKept(b)
      /\ ReachKept(b, d, ds) /\ SlicesKept(b, d, ds)
  BY DEF JobKept
<1>2. /\ Shaped(c) /\ c.at = next /\ c.form = b.form /\ c.env = b.env /\ c.todo = b.todo
      /\ c.bound = b.bound /\ c.assigned = b.assigned /\ c.settings = b.settings
      /\ c.rows = b.rows /\ c.code = b.code /\ c.policy = b.policy /\ c.entries = b.entries
      /\ c.path = b.path /\ c.selected = b.selected /\ c.slices = b.slices
  BY <1>1 DEF Shaped
<1>3. Placed(c) /\ ChecksKept(c, ds)
  OBVIOUS
<1> HIDE DEF c
<1>4. /\ c.at \in Slicing /\ b.at \in HaveCode /\ c.at \in HaveCode
      /\ b.at \in HaveRows /\ c.at \in HaveRows /\ b.at \in HaveBound /\ c.at \in HaveBound
      /\ c.at \notin {"idle", "bindings", "functions", "versions", "policies", "failed",
                     "stored", "calls"}
      /\ b.at \notin {"failed", "stored"}
  BY <1>2 DEF HaveBound, HaveRows, HaveCode, Slicing
<1>5. ReadsKept(c, d, ds)
  BY <1>1, <1>2, <1>4 DEF ReadsKept
<1>6. BoundIn(c, c.env) = BoundIn(b, b.env) /\ CallsIn(c) = CallsIn(b) /\ InPath(c) = InPath(b)
  BY <1>2 DEF BoundIn, CallsIn, InPath
<1>7. PlaceKept(c, ds)
  <2>1. c.path = <<>>
    BY <1>1, <1>2, <1>4 DEF PlaceKept
  <2> QED BY <1>1, <1>2, <1>4, <1>6, <2>1 DEF PlaceKept
<1>8. WalkKept(c)
  <2>1. c.entries \subseteq c.selected
    BY <1>1, <1>2, <1>4 DEF WalkKept
  <2> QED BY <1>1, <1>2, <1>4, <1>6, <2>1 DEF WalkKept
<1>9. ReachKept(c, d, ds)
  BY <1>1, <1>2, <1>6 DEF ReachKept
<1>10. SlicesKept(c, d, ds)
  <2>1. \A s, e : SliceRuns(c, d, ds, s, e) <=> SliceRuns(b, d, ds, s, e)
    BY <1>2 DEF SliceRuns
  <2> QED BY <1>1, <1>2, <1>4, <2>1 DEF SlicesKept
<1>11. FailureKept(c, d, ds)
  BY <1>4 DEF FailureKept
<1>12. JobKept(c, d, ds)
  BY <1>2, <1>3, <1>4, <1>5, <1>7, <1>8, <1>9, <1>10, <1>11 DEF JobKept
<1> QED BY <1>12 DEF c

LEMMA StateFacts ==
  ASSUME BuildInv
  PROVE  /\ DraftsKept(draft, seen) /\ JobKept(build, draft, seen)
         /\ Calls = CallsIn(build) /\ Visiting = InPath(build)
         /\ CallsKnown <=> KnownIn(build)
         /\ \A e : Bound(e) = BoundIn(build, e)
         /\ build.form \in {"endpoint", "schedule"}
         /\ build = [build EXCEPT !.at = build.at]
<1>1. JobKept(build, draft, seen) /\ Shaped(build)
  BY DEF BuildInv, JobKept
<1>2. Calls = CallsIn(build) /\ Visiting = InPath(build) /\ \A e : Bound(e) = BoundIn(build, e)
  BY DEF Calls, CallsIn, Visiting, InPath, Bound, BoundIn
<1>3. CallsKnown <=> KnownIn(build)
  BY DEF CallsKnown, Calls, KnownIn
<1>4. build.form \in {"endpoint", "schedule"}
  BY <1>1 DEF JobKept, Placed
<1>5. build = [build EXCEPT !.at = build.at]
  BY <1>1 DEF Shaped
<1> QED BY <1>1, <1>2, <1>3, <1>4, <1>5 DEF BuildInv

(* A slice of drafts nobody edited, at the end of its steps, can be built   *)
(* but for the permissions of the schedules.                                 *)
LEMMA SoleSlice ==
  ASSUME NEW b, NEW d, NEW ds, ds = {d}, DraftsKept(d, ds), JobKept(b, d, ds), b.at = "store",
         b.form = "schedule" =>
           \A f \in Functions : d.bound[b.env][f] \in {"off", "bare"} /\ d.rows[f].on =>
                                  ~d.rows[f].requires
  PROVE  CallsClosed(d) /\ SliceBuildable(d, b.form, b.env)
<1>1. /\ ReadsKept(b, d, ds) /\ PlaceKept(b, ds) /\ ChecksKept(b, ds) /\ Placed(b)
      /\ b.at \in HaveCode /\ b.at \in Slicing \ {"calls"} /\ b.at \in Slicing
  BY DEF JobKept, HaveCode, Slicing
<1>2. /\ b.bound = d.bound /\ (b.form = "endpoint" => b.assigned = d.assigned)
      /\ DOMAIN b.rows = Available(d) /\ DOMAIN b.code = Available(d)
      /\ Available(d) \subseteq Functions
      /\ \A f \in Available(d) : /\ b.code[f] = d.code[f][d.rows[f].version]
                                 /\ b.rows[f] = d.rows[f]
  BY <1>1, SoleReads
<1>3. /\ b.selected = Reached(d, Entries(d, b.form, b.env)) /\ b.selected \subseteq Available(d)
      /\ Acyclic(b.selected, [f \in Functions |-> CallsOf(d, f)])
  BY <1>1, SoleWalk
<1>4. KnownIn(b) /\ CallsClosed(d)
  BY <1>1, SoleKnown DEF ChecksKept
<1>5. \A f \in b.selected : d.code[f][d.rows[f].version].bundles
  BY <1>1, <1>2, <1>3 DEF ChecksKept
<1>6. (\E f \in b.selected : d.rows[f].secret) => SecretThere(d, b.form, b.env)
  BY <1>1, <1>2, <1>3 DEF ChecksKept
<1>7. d.queried \cap b.selected # {} => d.query /\ b.env = Home
  BY <1>1 DEF ChecksKept
<1>8. b.env \in ProjectEnvironments /\ d \in Drafts /\ d.secret[b.env] \in {"set", "empty", "gone"}
  BY <1>1, DraftFields DEF PlaceKept, DraftsKept
<1>9. SecretThere(d, b.form, b.env) <=> d.secret[b.env] \in SecretStates(b.form)
  BY <1>8 DEF SecretThere, SecretStates
<1>10. BoundIn(b, b.env) = {f \in Functions : d.bound[b.env][f] \in {"on", "bare"}}
  BY <1>2 DEF BoundIn
<1>11. CASE b.form = "endpoint"
  <2>1. b.env = Home /\ (BoundIn(b, Home) # {} => d.assigned)
    BY <1>1, <1>2, <1>11 DEF PlaceKept, ChecksKept
  <2>2. d.assigned => b.policy = d.policy
    BY <1>1, <1>2, <1>11 DEF PlaceKept
  <2>3. d.policy.type = "api_key" /\ d.assigned => d.secret[b.env] \in SecretStates("endpoint")
    <3>1. PolicySecret(b.policy) => SecretThere(d, "endpoint", b.env)
      BY <1>1, <1>11 DEF ChecksKept
    <3> QED BY <1>8, <2>2, <3>1 DEF PolicySecret, SecretThere, SecretStates
  <2> QED BY <1>3, <1>4, <1>5, <1>6, <1>7, <1>9, <1>10, <1>11, <2>1, <2>3 DEF SliceBuildable
<1>12. CASE b.form = "schedule"
  <2>1. ASSUME NEW f \in Functions, d.bound[b.env][f] \in {"on", "bare"} PROVE d.rows[f].empty
    <3>1. f \in b.entries /\ f \in b.selected
      <4>1. f \in b.entries
        BY <1>1, <1>10, <2>1 DEF PlaceKept
      <4> QED BY <1>1, <4>1 DEF JobKept, WalkKept
    <3> QED BY <1>1, <1>2, <1>3, <1>12, <3>1 DEF ChecksKept
  <2> QED BY <1>3, <1>4, <1>5, <1>6, <1>7, <1>9, <1>12, <2>1 DEF SliceBuildable
<1> QED BY <1>1, <1>11, <1>12 DEF Placed
-----------------------------------------------------------------------------
(* Each edit a member makes.                                                 *)
LEMMA EditPolicies ==
  ASSUME BuildInv, NEW row \in PolicyRows \ {[type |-> "none"]},
         CreatePolicy(row) \/ CreateEndpointPolicy(row)
           \/ EditPolicy(row) \/ EditEndpointPolicy(row)
  PROVE  BuildInv'
<1>1. DraftsKept(draft, seen) /\ draft \in Drafts /\ row.type # "none"
  BY DEF BuildInv, DraftsKept, PolicyRows
<1>2. draft.assigned \in BOOLEAN
  BY <1>1, DraftFields
<1>3. /\ [draft EXCEPT !.policy = row]
           = [draft EXCEPT !.policy = row, !.assigned = draft.assigned]
      /\ Kept([draft EXCEPT !.policy = row, !.assigned = draft.assigned])
      /\ Kept([draft EXCEPT !.policy = row, !.assigned = TRUE])
  <2>1. [draft EXCEPT !.policy = row]
           = [draft EXCEPT !.policy = row, !.assigned = draft.assigned]
    BY <1>1 DEF Drafts
  <2> QED BY <1>1, <1>2, <2>1, PolicyKept
<1>4. \/ Edit([draft EXCEPT !.policy = row])
      \/ Edit([draft EXCEPT !.policy = row, !.assigned = TRUE])
  BY DEF CreatePolicy, CreateEndpointPolicy, EditPolicy, EditEndpointPolicy
<1> QED BY <1>3, <1>4, EditStep

LEMMA EditAssignments ==
  ASSUME BuildInv,
         DeletePolicy \/ AssignPolicy \/ RemovePolicy
           \/ \E assigned \in BOOLEAN : ReplaceAssignments(assigned)
  PROVE  BuildInv'
<1>1. DraftsKept(draft, seen) /\ draft \in Drafts /\ Consistent(draft)
  BY DEF BuildInv, DraftsKept
<1>2. draft.assigned \in BOOLEAN /\ draft.policy \in PolicyRows
  BY <1>1, DraftFields
<1>3. CASE DeletePolicy
  <2> DEFINE row == [type |-> "none"]
  <2>1. row \in PolicyRows /\ row.type = "none" /\ draft.assigned = FALSE
    BY <1>2, <1>3 DEF DeletePolicy, PolicyRows
  <2>2. [draft EXCEPT !.policy = row] = [draft EXCEPT !.policy = row, !.assigned = FALSE]
    BY <1>1, <2>1 DEF Drafts
  <2>3. Edit([draft EXCEPT !.policy = row])
    BY <1>3 DEF DeletePolicy
  <2> HIDE DEF row
  <2> QED BY <1>1, <2>1, <2>2, <2>3, EditStep, PolicyKept
<1>4. ASSUME NEW assigned \in BOOLEAN, Edit([draft EXCEPT !.assigned = assigned]),
             assigned => PolicyThere
      PROVE  BuildInv'
  <2>1. [draft EXCEPT !.assigned = assigned]
          = [draft EXCEPT !.policy = draft.policy, !.assigned = assigned]
    BY <1>1 DEF Drafts
  <2>2. Kept([draft EXCEPT !.policy = draft.policy, !.assigned = assigned])
    BY <1>1, <1>2, <1>4, PolicyKept DEF PolicyThere
  <2> QED BY <1>4, <2>1, <2>2, EditStep
<1>5. CASE AssignPolicy
  BY <1>4, <1>5 DEF AssignPolicy
<1>6. CASE RemovePolicy
  BY <1>4, <1>6 DEF RemovePolicy
<1>7. ASSUME NEW assigned \in BOOLEAN, ReplaceAssignments(assigned) PROVE BuildInv'
  BY <1>4, <1>7 DEF ReplaceAssignments
<1> QED BY <1>3, <1>5, <1>6, <1>7

LEMMA EditFunctions ==
  ASSUME BuildInv, NEW f \in Edited,
         \/ \E code \in Codes : SaveCode(f, code)
         \/ \E field \in {"on", "secret", "requires", "empty"} : PatchRow(f, field)
         \/ \E e \in ProjectEnvironments, binding \in Bindings : BindFunction(e, f, binding)
         \/ \E table \in {"queried", "collects"} : GrantResource(table, f)
  PROVE  BuildInv'
<1>1. DraftsKept(draft, seen) /\ f \in Functions
  BY BuildAssumption DEF BuildInv
<1>2. ASSUME NEW code \in Codes, SaveCode(f, code) PROVE BuildInv'
  BY <1>1, <1>2, SaveKept, EditStep DEF SaveCode
<1>3. ASSUME NEW field \in {"on", "secret", "requires", "empty"}, PatchRow(f, field)
      PROVE  BuildInv'
  <2>1. Kept([draft EXCEPT !.rows[f][field] = ~@])
    BY <1>1, PatchKept
  <2>2. Edit([draft EXCEPT !.rows[f][field] = ~@])
    BY <1>3 DEF PatchRow
  <2> QED BY <2>1, <2>2, EditStep
<1>4. ASSUME NEW e \in ProjectEnvironments, NEW binding \in Bindings,
             BindFunction(e, f, binding)
      PROVE  BuildInv'
  BY <1>1, <1>4, BindKept, EditStep DEF BindFunction
<1>5. ASSUME NEW table \in {"queried", "collects"}, GrantResource(table, f) PROVE BuildInv'
  <2>1. Kept([draft EXCEPT ![table] = IF f \in @ THEN @ \ {f} ELSE @ \cup {f}])
    BY <1>1, GrantKept
  <2>2. Edit([draft EXCEPT ![table] = IF f \in @ THEN @ \ {f} ELSE @ \cup {f}])
    BY <1>5 DEF GrantResource
  <2> QED BY <2>1, <2>2, EditStep
<1> QED BY <1>2, <1>3, <1>4, <1>5

LEMMA EditOthers ==
  ASSUME BuildInv,
         \/ \E n \in Networks : EditNetwork(n)
         \/ SwitchQuery
         \/ \E e \in ProjectEnvironments, state \in {"set", "empty", "gone"} :
              EditSecret(e, state)
  PROVE  BuildInv'
<1>1. DraftsKept(draft, seen)
  BY DEF BuildInv
<1>2. ASSUME NEW n \in Networks, EditNetwork(n) PROVE BuildInv'
  BY <1>1, <1>2, NetworkKept, EditStep DEF EditNetwork
<1>3. CASE SwitchQuery
  <2>1. Kept([draft EXCEPT !.query = ~@])
    BY <1>1, QueryKept
  <2>2. Edit([draft EXCEPT !.query = ~@])
    BY <1>3 DEF SwitchQuery
  <2> QED BY <2>1, <2>2, EditStep
<1>4. ASSUME NEW e \in ProjectEnvironments, NEW state \in {"set", "empty", "gone"},
             EditSecret(e, state)
      PROVE  BuildInv'
  BY <1>1, <1>4, SecretKept, EditStep DEF EditSecret
<1> QED BY <1>2, <1>3, <1>4
-----------------------------------------------------------------------------
(* Each step of the job.                                                     *)
LEMMA ProceedStep ==
  ASSUME BuildInv, NEW step, step # "idle", NEW ok \in BOOLEAN, NEW new, Proceed(step, ok, new),
         ok => JobKept([new EXCEPT !.at = After(step)], draft, seen),
         ~ok /\ seen = {draft} => ~Buildable(draft, build.form) \/ draft.collects # {}
  PROVE  BuildInv'
<1>1. draft' = draft /\ seen' = seen /\ build.at = step
  BY DEF Proceed
<1>2. DraftsKept(draft, seen) /\ JobKept(build, draft, seen)
  BY DEF BuildInv
<1>3. JobKept(build', draft, seen)
  <2>1. CASE ok
    BY <2>1 DEF Proceed
  <2>2. CASE ~ok
    <3>1. JobKept([build EXCEPT !.at = "failed"], draft, seen)
      BY <1>1, <1>2, <2>2, FailureStep
    <3> QED BY <2>2, <3>1 DEF Proceed
  <2> QED BY <2>1, <2>2
<1> QED BY <1>1, <1>2, <1>3 DEF BuildInv

(* The steps before the first slice.                                        *)
LEMMA EarlyStep ==
  ASSUME NEW b, NEW d, NEW ds, JobKept(b, d, ds), b.at \in {"bindings", "functions", "versions"},
         NEW c, Shaped(c), Placed(c), ReadsKept(c, d, ds),
         c.at \in {"functions", "versions", "policies", "slice"},
         c.form = b.form, c.env = b.env, c.todo = b.todo, c.assigned = b.assigned,
         c.policy = b.policy, c.path = b.path, c.selected = b.selected, c.slices = b.slices
  PROVE  JobKept(c, d, ds)
<1>1. PlaceKept(b, ds) /\ SlicesKept(b, d, ds)
  BY DEF JobKept
<1>2. PlaceKept(c, ds)
  BY <1>1 DEF PlaceKept, Slicing
<1>3. WalkKept(c) /\ ReachKept(c, d, ds) /\ ChecksKept(c, ds) /\ FailureKept(c, d, ds)
  BY DEF WalkKept, ReachKept, ChecksKept, FailureKept, Slicing
<1>4. \A s, e : SliceRuns(c, d, ds, s, e) <=> SliceRuns(b, d, ds, s, e)
  BY DEF SliceRuns
<1>5. SlicesKept(c, d, ds)
  BY <1>1, <1>4 DEF SlicesKept
<1> QED BY <1>2, <1>3, <1>5 DEF JobKept

LEMMA BeginsKept ==
  ASSUME BuildInv, BeginEndpoint \/ BeginSchedule
  PROVE  BuildInv'
<1>1. DraftsKept(draft, seen) /\ draft' = draft /\ seen' = seen /\ draft \in seen
  BY DEF BuildInv, BeginEndpoint, BeginSchedule, DraftsKept
<1>2. CASE BeginEndpoint
  <2> DEFINE c == [Blank EXCEPT !.at = "functions", !.bound = draft.bound,
                                !.assigned = draft.assigned, !.settings = draft.settings]
  <2>1. build' = c
    BY <1>2 DEF BeginEndpoint
  <2>2. c = [Blank EXCEPT !.at = "functions", !.bound = draft.bound,
                          !.assigned = draft.assigned, !.settings = draft.settings]
    OBVIOUS
  <2> HIDE DEF c
  <2>3. /\ Shaped(c) /\ c.at = "functions" /\ c.form = "endpoint" /\ c.env = Home
        /\ c.todo = {} /\ c.bound = draft.bound /\ c.assigned = draft.assigned
        /\ c.settings = draft.settings /\ c.path = <<>> /\ c.selected = {}
        /\ c.slices = <<>>
    BY <2>2 DEF Blank, Shaped
  <2>4. DOMAIN c.slices = {}
    BY <2>3
  <2>5. Placed(c) /\ ReadsKept(c, draft, seen) /\ PlaceKept(c, seen)
    BY <1>1, <2>3, <2>4 DEF Placed, ReadsKept, PlaceKept, HaveRows, HaveCode, Slicing, EndpointSteps
  <2>6. /\ WalkKept(c) /\ ReachKept(c, draft, seen) /\ ChecksKept(c, seen)
        /\ FailureKept(c, draft, seen) /\ SlicesKept(c, draft, seen)
    BY <2>3, <2>4 DEF WalkKept, ReachKept, ChecksKept, FailureKept, SlicesKept, Slicing
  <2>7. JobKept(c, draft, seen)
    BY <2>3, <2>5, <2>6 DEF JobKept
  <2> QED BY <1>1, <2>1, <2>7 DEF BuildInv
<1>3. CASE BeginSchedule
  <2> DEFINE c == [Blank EXCEPT !.at = "bindings", !.form = "schedule",
                                !.todo = ProjectEnvironments]
  <2>1. build' = c
    BY <1>3 DEF BeginSchedule
  <2>2. c = [Blank EXCEPT !.at = "bindings", !.form = "schedule",
                          !.todo = ProjectEnvironments]
    OBVIOUS
  <2> HIDE DEF c
  <2>3. /\ Shaped(c) /\ c.at = "bindings" /\ c.form = "schedule"
        /\ c.todo = ProjectEnvironments /\ c.assigned = FALSE /\ c.policy = [type |-> "none"]
        /\ c.path = <<>> /\ c.selected = {} /\ c.slices = <<>>
    BY <2>2 DEF Blank, Shaped
  <2>4. DOMAIN c.slices = {}
    BY <2>3
  <2>5. Placed(c) /\ ReadsKept(c, draft, seen) /\ PlaceKept(c, seen)
    BY <1>1, <2>3, <2>4 DEF Placed, ReadsKept, PlaceKept, HaveBound, HaveRows, HaveCode, Slicing,
                      ScheduleSteps
  <2>6. /\ WalkKept(c) /\ ReachKept(c, draft, seen) /\ ChecksKept(c, seen)
        /\ FailureKept(c, draft, seen) /\ SlicesKept(c, draft, seen)
    BY <2>3, <2>4 DEF WalkKept, ReachKept, ChecksKept, FailureKept, SlicesKept, Slicing
  <2>7. JobKept(c, draft, seen)
    BY <2>3, <2>5, <2>6 DEF JobKept
  <2> QED BY <1>1, <2>1, <2>7 DEF BuildInv
<1> QED BY <1>2, <1>3

LEMMA ReadBindingsKept ==
  ASSUME BuildInv, ReadBindings
  PROVE  BuildInv'
<1> DEFINE new == [build EXCEPT !.bound = draft.bound, !.settings = draft.settings]
           c == [new EXCEPT !.at = After("bindings")]
<1>1. Proceed("bindings", TRUE, new)
  BY DEF ReadBindings
<1>2. /\ JobKept(build, draft, seen) /\ Shaped(build) /\ Placed(build) /\ draft \in seen
      /\ build.at = "bindings"
  BY DEF BuildInv, JobKept, DraftsKept, ReadBindings, Proceed
<1>3. build.form = "schedule" /\ After("bindings") = "functions"
  BY <1>2 DEF Placed, EndpointSteps, After, ScheduleSteps
<1>4. /\ new = [build EXCEPT !.bound = draft.bound, !.settings = draft.settings]
       /\ c = [new EXCEPT !.at = After("bindings")]
  OBVIOUS
<1> HIDE DEF c, new
<1>5. /\ Shaped(c) /\ c.at = "functions" /\ c.form = build.form /\ c.env = build.env
      /\ c.todo = build.todo /\ c.bound = draft.bound /\ c.assigned = build.assigned
      /\ c.settings = draft.settings /\ c.policy = build.policy /\ c.path = build.path
      /\ c.selected = build.selected /\ c.slices = build.slices
  BY <1>2, <1>3, <1>4 DEF Shaped
<1>6. Placed(c) /\ ReadsKept(c, draft, seen)
  BY <1>2, <1>3, <1>5 DEF Placed, ScheduleSteps, ReadsKept, HaveRows, HaveCode, Slicing
<1>7. JobKept(c, draft, seen)
  BY <1>2, <1>5, <1>6, EarlyStep
<1> QED BY <1>7, <1>1, <1>4, ProceedStep

LEMMA ReadFunctionsKept ==
  ASSUME BuildInv, ReadFunctions
  PROVE  BuildInv'
<1> DEFINE rows == [f \in {g \in Functions : draft.rows[g].on} |-> draft.rows[f]]
           new == [build EXCEPT !.rows = rows]
           c == [new EXCEPT !.at = After("functions")]
<1>1. /\ JobKept(build, draft, seen) /\ Shaped(build) /\ Placed(build) /\ draft \in seen
      /\ build.at = "functions"
  BY DEF BuildInv, JobKept, DraftsKept, ReadFunctions, Proceed
<1>2. After("functions") = "versions"
  BY DEF EndpointSteps, After, ScheduleSteps
<1>3. rows = [f \in Available(draft) |-> draft.rows[f]]
  BY DEF Available
<1>4. Proceed("functions", TRUE, new)
  BY DEF ReadFunctions
<1> HIDE DEF rows
<1>5. new = [build EXCEPT !.rows = rows] /\ c = [new EXCEPT !.at = After("functions")]
  OBVIOUS
<1> HIDE DEF c, new
<1>6. /\ Shaped(c) /\ c.at = "versions" /\ c.form = build.form /\ c.env = build.env
      /\ c.todo = build.todo /\ c.bound = build.bound /\ c.assigned = build.assigned
      /\ c.settings = build.settings /\ c.rows = rows /\ c.policy = build.policy
      /\ c.path = build.path /\ c.selected = build.selected /\ c.slices = build.slices
  BY <1>1, <1>2, <1>5 DEF Shaped
<1>7. Placed(c)
  BY <1>1, <1>6 DEF Placed, EndpointSteps, ScheduleSteps
<1>8. ReadsKept(c, draft, seen)
  BY <1>1, <1>3, <1>6 DEF JobKept, ReadsKept, HaveBound, HaveRows, HaveCode, Slicing
<1>9. JobKept(c, draft, seen)
  BY <1>1, <1>6, <1>7, <1>8, EarlyStep
<1> QED BY <1>4, <1>9, <1>5, ProceedStep

LEMMA ReadVersionsKept ==
  ASSUME BuildInv, ReadVersions
  PROVE  BuildInv'
<1> DEFINE code == [f \in DOMAIN build.rows |-> draft.code[f][CurrentVersion(f)]]
           new == [build EXCEPT !.code = code]
           c == [new EXCEPT !.at = After("versions")]
<1>1. /\ JobKept(build, draft, seen) /\ Shaped(build) /\ Placed(build)
      /\ build.at = "versions"
  BY DEF BuildInv, JobKept, ReadVersions, Proceed
<1>2. After("versions") = IF build.form = "endpoint" THEN "policies" ELSE "slice"
  BY DEF EndpointSteps, After, ScheduleSteps
<1>3. code = [f \in DOMAIN build.rows |-> draft.code[f][build.rows[f].version]]
  BY DEF CurrentVersion
<1>4. Proceed("versions", TRUE, new)
  BY DEF ReadVersions
<1> HIDE DEF code
<1>5. new = [build EXCEPT !.code = code] /\ c = [new EXCEPT !.at = After("versions")]
  OBVIOUS
<1> HIDE DEF c, new
<1>6. /\ Shaped(c) /\ c.at = IF build.form = "endpoint" THEN "policies" ELSE "slice"
      /\ c.form = build.form /\ c.env = build.env
      /\ c.todo = build.todo /\ c.bound = build.bound /\ c.assigned = build.assigned
      /\ c.settings = build.settings /\ c.rows = build.rows /\ c.code = code
      /\ c.policy = build.policy
      /\ c.path = build.path /\ c.selected = build.selected /\ c.slices = build.slices
  BY <1>1, <1>2, <1>5 DEF Shaped
<1>7. Placed(c)
  BY <1>1, <1>6 DEF Placed, EndpointSteps, ScheduleSteps
<1>8. ReadsKept(c, draft, seen)
  BY <1>1, <1>3, <1>6 DEF JobKept, ReadsKept, HaveBound, HaveRows, HaveCode, Slicing
<1>9. JobKept(c, draft, seen)
  BY <1>1, <1>6, <1>7, <1>8, EarlyStep
<1> QED BY <1>4, <1>9, <1>5, ProceedStep

(* A slice begins with nothing selected.                                    *)
LEMMA SliceStarts ==
  ASSUME NEW b, NEW d, NEW ds, JobKept(b, d, ds), b.at \in {"policies", "slice"},
         NEW c, Shaped(c), c.at = "calls", c.path = <<>>, c.selected = {},
         c.form = b.form, c.bound = b.bound, c.assigned = b.assigned,
         c.settings = b.settings, c.rows = b.rows, c.code = b.code, c.slices = b.slices,
         c.form = "schedule" => c.policy = b.policy,
         PlaceKept(c, ds), KnownIn(c), c.form = "endpoint" /\ BoundIn(c, Home) # {} => c.assigned
  PROVE  JobKept(c, d, ds)
<1>1. /\ Placed(b) /\ ReadsKept(b, d, ds) /\ PlaceKept(b, ds) /\ SlicesKept(b, d, ds)
      /\ b.form \in {"endpoint", "schedule"}
  BY DEF JobKept, Placed
<1>2. Placed(c)
  BY <1>1 DEF Placed, EndpointSteps, ScheduleSteps
<1>3. ReadsKept(c, d, ds)
  BY <1>1 DEF ReadsKept, HaveBound, HaveRows, HaveCode, Slicing
<1>4. InPath(c) = {} /\ c.path \in Seq(Functions) /\ DOMAIN c.path = {}
  BY DEF InPath
<1>5. WalkKept(c)
  <2>1. Closed(c.selected, CallsIn(c)) /\ Acyclic(c.selected, CallsIn(c))
    BY DEF Closed, Acyclic
  <2> QED BY <1>4, <2>1 DEF WalkKept
<1>6. ReachKept(c, d, ds)
  BY <1>4 DEF ReachKept
<1>7. ChecksKept(c, ds) /\ FailureKept(c, d, ds)
  BY DEF ChecksKept, FailureKept
<1>8. SlicesKept(c, d, ds)
  <2>1. CASE c.form = "schedule"
    <3>1. \A s, e : SliceRuns(c, d, ds, s, e) <=> SliceRuns(b, d, ds, s, e)
      BY <2>1 DEF SliceRuns
    <3> QED BY <1>1, <2>1, <3>1 DEF SlicesKept
  <2>2. CASE c.form = "endpoint"
    <3>1. DOMAIN c.slices = {}
      BY <1>1, <2>2 DEF PlaceKept
    <3> QED BY <3>1 DEF SlicesKept
  <2> QED BY <1>1, <2>1, <2>2
<1> QED BY <1>2, <1>3, <1>5, <1>6, <1>7, <1>8 DEF JobKept

LEMMA ReadPoliciesKept ==
  ASSUME BuildInv, ReadPolicies
  PROVE  BuildInv'
<1> DEFINE policy == IF build.assigned THEN draft.policy ELSE [type |-> "none"]
           new == [build EXCEPT !.policy = policy, !.entries = EndpointEntries(policy)]
           c == [new EXCEPT !.at = After("policies")]
           ok == PolicyRequired /\ PolicyFound(policy) /\ CallsKnown
<1>1. Proceed("policies", ok, new)
  BY DEF ReadPolicies
<1>2. /\ JobKept(build, draft, seen) /\ Shaped(build) /\ Placed(build) /\ draft \in seen
      /\ ReadsKept(build, draft, seen) /\ PlaceKept(build, seen)
      /\ build.at = "policies" /\ draft \in Drafts /\ Consistent(draft)
      /\ DraftsKept(draft, seen)
  BY DEF BuildInv, JobKept, DraftsKept, ReadPolicies, Proceed
<1>3. build.form = "endpoint" /\ After("policies") = "calls" /\ build.env = Home
  BY <1>2 DEF Placed, ScheduleSteps, EndpointSteps, After, PlaceKept
<1>4. new = [build EXCEPT !.policy = policy, !.entries = EndpointEntries(policy)]
        /\ c = [new EXCEPT !.at = After("policies")]
  OBVIOUS
<1> HIDE DEF c, new
<1>5. ok \in BOOLEAN
  BY DEF PolicyRequired, PolicyFound, CallsKnown
<1>6. ASSUME ok PROVE JobKept(c, draft, seen)
  <2>1. /\ Shaped(c) /\ c.at = "calls" /\ c.form = build.form /\ c.env = build.env
        /\ c.todo = build.todo /\ c.bound = build.bound /\ c.assigned = build.assigned
        /\ c.settings = build.settings /\ c.rows = build.rows /\ c.code = build.code
        /\ c.policy = policy /\ c.entries = EndpointEntries(policy)
        /\ c.path = build.path /\ c.selected = build.selected /\ c.slices = build.slices
    BY <1>2, <1>3, <1>4 DEF Shaped
  <2>2. c.path = <<>> /\ c.selected = {}
    BY <1>2, <2>1 DEF PlaceKept
  <2>3. KnownIn(c) /\ (BoundIn(c, Home) # {} => c.assigned)
    BY <1>6, <2>1 DEF KnownIn, BoundIn, CallsKnown, Calls, PolicyRequired, Bound
  <2>4. /\ Home \in ProjectEnvironments
        /\ EndpointEntries(policy) = BoundIn(c, Home) \cup PolicyFunctions(policy)
        /\ IF c.assigned THEN \E x \in seen : policy = x.policy ELSE policy = [type |-> "none"]
    BY <1>2, <2>1, BuildAssumption DEF EndpointEntries, Bound, BoundIn
  <2> HIDE DEF ok, policy
  <2>5. PlaceKept(c, seen)
    BY <1>2, <1>3, <2>1, <2>2, <2>4 DEF PlaceKept, Slicing
  <2> QED BY <1>2, <1>3, <2>1, <2>2, <2>3, <2>5, SliceStarts
<1>7. ASSUME ~ok, seen = {draft} PROVE ~Buildable(draft, build.form)
  <2>1. build.at \in HaveCode /\ Home \in ProjectEnvironments
    BY <1>2, BuildAssumption DEF HaveCode
  <2>2. build.bound = draft.bound /\ build.assigned = draft.assigned
    BY <1>2, <1>3, <1>7, <2>1, SoleReads
  <2>3. CASE ~CallsKnown
    <3>1. ~CallsClosed(draft)
      BY <1>2, <1>7, <2>1, <2>3, SoleKnown DEF CallsKnown, Calls, KnownIn
    <3> QED BY <1>3, <2>1, <3>1, Unbuildable
  <2>4. CASE ~PolicyRequired
    <3>1. {f \in Functions : draft.bound[Home][f] \in {"on", "bare"}} # {} /\ ~draft.assigned
      BY <2>2, <2>4 DEF PolicyRequired, Bound
    <3>2. ~SliceBuildable(draft, "endpoint", Home)
      BY <3>1 DEF SliceBuildable
    <3> QED BY <1>3, <2>1, <3>2, Unbuildable
  <2>5. PolicyFound(policy)
    BY <1>2, <2>2 DEF PolicyFound, Consistent
  <2> QED BY <1>7, <2>3, <2>4, <2>5
<1> HIDE DEF ok
<1> QED BY <1>1, <1>4, <1>5, <1>6, <1>7, ProceedStep

LEMMA NextSliceKept ==
  ASSUME BuildInv, NEW e \in ProjectEnvironments, NextSlice(e)
  PROVE  BuildInv'
<1> DEFINE new == [build EXCEPT !.env = e, !.todo = @ \ {e}, !.entries = Bound(e),
                                !.selected = {}]
           c == [new EXCEPT !.at = After("slice")]
<1>1. Proceed("slice", CallsKnown, new) /\ e \in build.todo
  BY DEF NextSlice
<1>2. /\ JobKept(build, draft, seen) /\ Shaped(build) /\ Placed(build) /\ draft \in seen
      /\ ReadsKept(build, draft, seen) /\ PlaceKept(build, seen)
      /\ build.at = "slice" /\ DraftsKept(draft, seen)
  BY DEF BuildInv, JobKept, DraftsKept, NextSlice, Proceed
<1>3. build.form = "schedule" /\ After("slice") = "calls"
  BY <1>2 DEF Placed, ScheduleSteps, EndpointSteps, After
<1>4. new = [build EXCEPT !.env = e, !.todo = build.todo \ {e}, !.entries = Bound(e),
                          !.selected = {}]
        /\ c = [new EXCEPT !.at = After("slice")]
  BY <1>2 DEF Shaped
<1> HIDE DEF c, new
<1>5. ASSUME CallsKnown PROVE JobKept(c, draft, seen)
  <2>1. /\ Shaped(c) /\ c.at = "calls" /\ c.form = build.form /\ c.env = e
        /\ c.todo = build.todo \ {e} /\ c.bound = build.bound /\ c.assigned = build.assigned
        /\ c.settings = build.settings /\ c.rows = build.rows /\ c.code = build.code
        /\ c.policy = build.policy /\ c.entries = Bound(e)
        /\ c.path = build.path /\ c.selected = {} /\ c.slices = build.slices
    BY <1>2, <1>3, <1>4 DEF Shaped
  <2>2. c.path = <<>>
    BY <1>2, <2>1 DEF PlaceKept
  <2>3. KnownIn(c)
    BY <1>5, <2>1 DEF KnownIn, CallsKnown, Calls
  <2>4. PolicyFunctions(c.policy) = {} /\ Bound(e) = BoundIn(c, e)
    BY <1>2, <1>3, <2>1 DEF PlaceKept, PolicyFunctions, Bound, BoundIn
  <2>5. ProjectEnvironments = DOMAIN c.slices \cup c.todo \cup {e}
    BY <1>1, <1>2, <1>3, <2>1 DEF PlaceKept, Slicing
  <2>6. PlaceKept(c, seen)
    BY <1>2, <1>3, <2>1, <2>2, <2>4, <2>5 DEF PlaceKept, Slicing
  <2> QED BY <1>2, <1>3, <2>1, <2>2, <2>3, <2>6, SliceStarts
<1>6. ASSUME ~CallsKnown, seen = {draft} PROVE ~Buildable(draft, build.form)
  <2>1. build.at \in HaveCode
    BY <1>2 DEF HaveCode
  <2>2. ~CallsClosed(draft)
    BY <1>2, <1>6, <2>1, SoleKnown DEF CallsKnown, Calls, KnownIn
  <2> QED BY <1>3, <2>2, Unbuildable
<1>7. CallsKnown \in BOOLEAN
  BY DEF CallsKnown
<1> QED BY <1>1, <1>4, <1>5, <1>6, <1>7, ProceedStep

(* The walk keeps all but the path and what is selected.                    *)
LEMMA WalkStep ==
  ASSUME NEW b, NEW d, NEW ds, JobKept(b, d, ds), b.at = "calls",
         NEW path, NEW selected, NEW c, c = [b EXCEPT !.path = path, !.selected = selected],
         WalkKept(c), ReachKept(c, d, ds)
  PROVE  JobKept(c, d, ds)
<1>1. /\ Shaped(b) /\ Placed(b) /\ ReadsKept(b, d, ds) /\ PlaceKept(b, ds)
      /\ ChecksKept(b, ds) /\ SlicesKept(b, d, ds)
  BY DEF JobKept
<1>2. /\ Shaped(c) /\ c.at = "calls" /\ c.form = b.form /\ c.env = b.env
      /\ c.todo = b.todo /\ c.bound = b.bound /\ c.assigned = b.assigned
      /\ c.settings = b.settings /\ c.rows = b.rows /\ c.code = b.code
      /\ c.policy = b.policy /\ c.entries = b.entries /\ c.slices = b.slices
  BY <1>1 DEF Shaped
<1>3. Placed(c) /\ ReadsKept(c, d, ds)
  BY <1>1, <1>2 DEF Placed, ReadsKept
<1>4. BoundIn(c, c.env) = BoundIn(b, b.env) /\ BoundIn(c, Home) = BoundIn(b, Home)
        /\ (KnownIn(c) <=> KnownIn(b))
  BY <1>2 DEF BoundIn, KnownIn
<1>5. PlaceKept(c, ds)
  BY <1>1, <1>2, <1>4 DEF PlaceKept, Slicing
<1>6. ChecksKept(c, ds) /\ FailureKept(c, d, ds)
  BY <1>1, <1>2, <1>4 DEF ChecksKept, FailureKept, Slicing
<1>7. SlicesKept(c, d, ds)
  <2>1. \A s, e : SliceRuns(c, d, ds, s, e) <=> SliceRuns(b, d, ds, s, e)
    BY <1>2 DEF SliceRuns
  <2> QED BY <1>1, <1>2, <2>1 DEF SlicesKept
<1> QED BY <1>2, <1>3, <1>5, <1>6, <1>7 DEF JobKept

LEMMA WalkFacts ==
  ASSUME BuildInv, build.at = "calls"
  PROVE  /\ DraftsKept(draft, seen) /\ JobKept(build, draft, seen) /\ Shaped(build)
         /\ ReadsKept(build, draft, seen) /\ PlaceKept(build, seen) /\ WalkKept(build)
         /\ ReachKept(build, draft, seen) /\ KnownIn(build)
         /\ build.at \in Slicing /\ build.at \in HaveCode
         /\ build.form \in {"endpoint", "schedule"} /\ build.env \in ProjectEnvironments
         /\ build.form = "endpoint" => build.env = Home
         /\ Len(build.path) \in Nat /\ DOMAIN build.path = 1 .. Len(build.path)
         /\ build.path # <<>> =>
              /\ Len(build.path) \in DOMAIN build.path /\ Deepest \in InPath(build)
              /\ Deepest \in DOMAIN build.code
<1>1. /\ DraftsKept(draft, seen) /\ JobKept(build, draft, seen) /\ Shaped(build)
      /\ ReadsKept(build, draft, seen) /\ PlaceKept(build, seen) /\ WalkKept(build)
      /\ ReachKept(build, draft, seen) /\ ChecksKept(build, seen) /\ Placed(build)
  BY DEF BuildInv, JobKept
<1>2. build.at \in Slicing /\ build.at \in HaveCode
  BY DEF Slicing, HaveCode
<1>3. KnownIn(build) /\ build.path \in Seq(Functions) /\ build.env \in ProjectEnvironments
  BY <1>1, <1>2 DEF ChecksKept, WalkKept, PlaceKept
<1>4. /\ build.form \in {"endpoint", "schedule"}
      /\ build.form = "endpoint" => build.env = Home
  BY <1>1 DEF Placed, PlaceKept
<1>5. Len(build.path) \in Nat /\ DOMAIN build.path = 1 .. Len(build.path)
  BY <1>3
<1>6. ASSUME build.path # <<>>
      PROVE  /\ Len(build.path) \in DOMAIN build.path /\ Deepest \in InPath(build)
             /\ Deepest \in DOMAIN build.code
  <2>1. Len(build.path) \in DOMAIN build.path
    BY <1>3, <1>5, <1>6
  <2>2. Deepest \in InPath(build)
    BY <2>1 DEF Deepest, InPath
  <2>3. InPath(build) \subseteq DOMAIN build.code
    BY <1>1, <1>2 DEF WalkKept
  <2> QED BY <2>1, <2>2, <2>3
<1> QED BY <1>1, <1>2, <1>3, <1>4, <1>5, <1>6

(* Who is to be visited is reached, and called by the last of the path.     *)
LEMMA TargetFacts ==
  ASSUME BuildInv, build.at = "calls", NEW f \in Unvisited
  PROVE  /\ f \notin build.selected
         /\ build.path # <<>> => f \in CallsIn(build)[Deepest] /\ f \in DOMAIN build.code
         /\ seen = {draft} =>
              f \in Reached(draft, Entries(draft, build.form, build.env))
<1>1. f \in Targets /\ f \notin build.selected
  BY DEF Unvisited
<1>2. ASSUME build.path # <<>>
      PROVE  f \in CallsIn(build)[Deepest] /\ f \in DOMAIN build.code
  <2>1. f \in CallsIn(build)[Deepest]
    BY <1>1, <1>2 DEF Targets, Calls, CallsIn
  <2>2. CallsIn(build)[Deepest] = build.code[Deepest].calls
    BY <1>2, WalkFacts DEF CallsIn
  <2> QED BY <2>1, <2>2, <1>2, WalkFacts DEF KnownIn
<1>3. ASSUME seen = {draft}
      PROVE  f \in Reached(draft, Entries(draft, build.form, build.env))
  <2> DEFINE entries == Entries(draft, build.form, build.env)
  <2>1. build.entries = entries /\ entries \subseteq Functions
    BY <1>3, WalkFacts, SoleEntries
  <2>2. CASE build.path = <<>>
    BY <1>1, <2>1, <2>2, ReachedEntries DEF Targets
  <2>3. CASE build.path # <<>>
    <3>1. Deepest \in Reached(draft, entries) /\ Deepest \in DOMAIN build.code
      BY <1>3, <2>3, WalkFacts DEF ReachKept
    <3>2. /\ DOMAIN build.code \subseteq Functions
          /\ build.code[Deepest].calls = CallsOf(draft, Deepest)
      BY <1>3, <3>1, WalkFacts, SoleReads
    <3>3. f \in CallsOf(draft, Deepest) \cap Functions
      BY <1>2, <2>3, <3>1, <3>2 DEF CallsIn
    <3> QED BY <3>1, <3>3, ReachedCallees
  <2> QED BY <2>2, <2>3
<1> QED BY <1>1, <1>2, <1>3

LEMMA VisitKept ==
  ASSUME BuildInv, NEW f \in Functions, Visit(f)
  PROVE  BuildInv'
<1>1. build.at = "calls" /\ f \in Unvisited /\ draft' = draft /\ seen' = seen
  BY DEF Visit
<1>2. f \in Functions \cup DOMAIN build.code /\ Visiting = InPath(build)
  BY DEF Visiting, InPath
<1>3. CASE f \in DOMAIN build.code \ InPath(build)
  <2> DEFINE path == Append(build.path, f)
             c == [build EXCEPT !.path = path, !.selected = build.selected]
  <2>1. build' = c
    <3>1. build' = [build EXCEPT !.path = path]
      BY <1>2, <1>3 DEF Visit
    <3> QED BY <1>1, <3>1, WalkFacts DEF Shaped
  <2>2. c = [build EXCEPT !.path = path, !.selected = build.selected]
    OBVIOUS
  <2> HIDE DEF c
  <2>3. path = Append(build.path, f)
    OBVIOUS
  <2> HIDE DEF path
  <2>4. /\ c.path = path /\ c.selected = build.selected /\ c.code = build.code
        /\ c.entries = build.entries /\ c.at = "calls" /\ c.form = build.form
        /\ c.env = build.env /\ CallsIn(c) = CallsIn(build)
    BY <1>1, <2>2, WalkFacts DEF Shaped, CallsIn
  <2>5. /\ path \in Seq(Functions) /\ Len(path) = Len(build.path) + 1
        /\ DOMAIN path = 1 .. Len(build.path) + 1 /\ path[Len(build.path) + 1] = f
        /\ \A i \in DOMAIN build.path : path[i] = build.path[i]
    <3>1. build.path \in Seq(Functions)
      BY <1>1, WalkFacts DEF WalkKept
    <3> QED BY <2>3, <3>1, PathGrows
  <2>6. InPath(c) = InPath(build) \cup {f}
    <3>1. DOMAIN path = DOMAIN build.path \cup {Len(build.path) + 1}
      BY <1>1, <2>5, WalkFacts
    <3>2. \A g \in InPath(c) : g \in InPath(build) \/ g = f
      BY <2>4, <2>5, <3>1 DEF InPath
    <3>3. \A g \in InPath(build) : g \in InPath(c)
      BY <2>4, <2>5, <3>1 DEF InPath
    <3>4. f \in InPath(c)
      BY <2>4, <2>5, <3>1 DEF InPath
    <3> QED BY <3>2, <3>3, <3>4
  <2>7. ASSUME NEW i \in DOMAIN path, NEW j \in DOMAIN path, i # j PROVE path[i] # path[j]
    <3>1. \A k \in DOMAIN path : k \in DOMAIN build.path \/ k = Len(build.path) + 1
      BY <1>1, <2>5, WalkFacts
    <3>2. \A k \in DOMAIN build.path : build.path[k] # f
      BY <1>3 DEF InPath
    <3> QED BY <1>1, <2>5, <2>7, <3>1, <3>2, WalkFacts DEF WalkKept
  <2>8. ASSUME NEW i \in DOMAIN path, i + 1 \in DOMAIN path
        PROVE  path[i + 1] \in CallsIn(build)[path[i]]
    <3>1. i \in Nat /\ 1 <= i /\ i <= Len(build.path) /\ i \in DOMAIN build.path
      BY <1>1, <2>5, <2>8, WalkFacts
    <3>2. CASE i = Len(build.path)
      <4>1. build.path # <<>> /\ path[i] = Deepest
        BY <1>1, <2>5, <3>1, <3>2 DEF Deepest
      <4> QED BY <1>1, <2>5, <3>2, <4>1, TargetFacts
    <3>3. CASE i # Len(build.path)
      <4>1. i + 1 \in DOMAIN build.path
        BY <1>1, <3>1, <3>3, WalkFacts
      <4> QED BY <1>1, <2>5, <3>1, <4>1, WalkFacts DEF WalkKept
    <3> QED BY <3>2, <3>3
  <2>9. WalkKept(c)
    <3>1. build.selected \cap InPath(c) = {}
      BY <1>1, <2>6, WalkFacts, TargetFacts DEF WalkKept
    <3>2. InPath(c) \subseteq DOMAIN build.code
      BY <1>1, <1>3, <2>6, WalkFacts DEF WalkKept
    <3> QED BY <1>1, <2>4, <2>5, <2>7, <2>8, <3>1, <3>2, WalkFacts DEF WalkKept
  <2>10. ReachKept(c, draft, seen)
    BY <1>1, <2>4, <2>6, WalkFacts, TargetFacts DEF ReachKept
  <2>11. JobKept(c, draft, seen)
    BY <1>1, <2>2, <2>9, <2>10, WalkFacts, WalkStep
  <2> QED BY <1>1, <2>1, <2>11, WalkFacts DEF BuildInv
<1>4. CASE f \notin DOMAIN build.code \ InPath(build)
  <2> DEFINE reached == Reached(draft, Entries(draft, build.form, build.env))
             calls == [g \in Functions |-> CallsOf(draft, g)]
  <2>1. build' = [build EXCEPT !.at = "failed"]
    BY <1>2, <1>4 DEF Visit
  <2>2. ASSUME seen = {draft} PROVE ~SliceBuildable(draft, build.form, build.env)
    <3>1. f \in reached
      BY <1>1, <2>2, TargetFacts
    <3>2. /\ DOMAIN build.code = Available(draft) /\ Available(draft) \subseteq Functions
          /\ \A g \in Available(draft) : build.code[g].calls = CallsOf(draft, g)
      BY <1>1, <2>2, WalkFacts, SoleReads
    <3>3. CASE f \notin DOMAIN build.code
      BY <3>1, <3>2, <3>3 DEF SliceBuildable
    <3>4. CASE f \in InPath(build)
      <4>1. PICK k \in DOMAIN build.path : build.path[k] = f
        BY <3>4 DEF InPath
      <4>2. build.path # <<>>
        BY <1>1, <4>1, WalkFacts
      <4>3. build.path \in Seq(Functions)
        BY <1>1, WalkFacts DEF WalkKept
      <4>4. \A i \in DOMAIN build.path : build.path[i] \in DOMAIN build.code
        BY <1>1, WalkFacts DEF WalkKept, InPath
      <4>5. \A i \in DOMAIN build.path : CallsIn(build)[build.path[i]] = calls[build.path[i]]
        BY <3>2, <4>4 DEF CallsIn
      <4>6. \A i \in DOMAIN build.path : build.path[i] \in reached
        BY <1>1, <2>2, WalkFacts DEF ReachKept, InPath
      <4>7. \A i \in DOMAIN build.path : i + 1 \in DOMAIN build.path =>
              build.path[i + 1] \in calls[build.path[i]]
        BY <1>1, <4>5, WalkFacts DEF WalkKept
      <4>8. build.path[k] \in calls[build.path[Len(build.path)]]
        BY <1>1, <4>1, <4>2, <4>5, TargetFacts, WalkFacts DEF Deepest
      <4> HIDE DEF reached, calls
      <4>9. ~Acyclic(reached, calls)
        BY <4>3, <4>6, <4>7, <4>8, PathCycle
      <4> QED BY <4>9 DEF SliceBuildable, reached, calls
    <3> QED BY <1>4, <3>3, <3>4
  <2>3. JobKept([build EXCEPT !.at = "failed"], draft, seen)
    BY <1>1, <2>2, WalkFacts, Unbuildable, FailureStep
  <2> QED BY <1>1, <2>1, <2>3, WalkFacts DEF BuildInv
<1> QED BY <1>3, <1>4

LEMMA LeaveKept ==
  ASSUME BuildInv, Leave
  PROVE  BuildInv'
<1> DEFINE last == Len(build.path)
           path == SubSeq(build.path, 1, last - 1)
           selected == build.selected \cup {Deepest}
           c == [build EXCEPT !.path = path, !.selected = selected]
<1>1. /\ build.at = "calls" /\ build.path # <<>> /\ Unvisited = {}
      /\ draft' = draft /\ seen' = seen
  BY DEF Leave
<1>2. c = [build EXCEPT !.path = path, !.selected = selected] /\ build' = c
        /\ path = SubSeq(build.path, 1, Len(build.path) - 1)
  BY <1>1, WalkFacts DEF Leave, Shaped
<1> HIDE DEF c, path
<1>3. /\ c.path = path /\ c.selected = selected /\ c.code = build.code
      /\ c.entries = build.entries /\ c.at = "calls" /\ c.form = build.form
      /\ c.env = build.env /\ CallsIn(c) = CallsIn(build)
  BY <1>1, <1>2, WalkFacts DEF Shaped, CallsIn
<1>4. /\ last \in Nat \ {0} /\ build.path \in Seq(Functions)
      /\ DOMAIN build.path = 1 .. last /\ Deepest = build.path[last]
  <2>1. /\ build.path \in Seq(Functions) /\ last \in Nat /\ last \in DOMAIN build.path
        /\ DOMAIN build.path = 1 .. last
    BY <1>1, WalkFacts DEF WalkKept
  <2> QED BY <2>1 DEF Deepest
<1>5. /\ path \in Seq(Functions) /\ DOMAIN path = 1 .. last - 1
      /\ \A i \in 1 .. last - 1 : path[i] = build.path[i]
  BY <1>1, <1>2, <1>4, PathShrinks
<1>6. /\ \A i \in DOMAIN path : i \in DOMAIN build.path /\ i # last
      /\ \A i \in DOMAIN build.path : i \in DOMAIN path \/ i = last
  BY <1>4, <1>5
<1>7. InPath(build) = InPath(c) \cup {Deepest} /\ Deepest \notin InPath(c)
  <2>1. \A g \in InPath(c) : g \in InPath(build) /\ g # Deepest
    BY <1>1, <1>3, <1>4, <1>5, <1>6, WalkFacts, SMTT(30) DEF InPath, WalkKept
  <2>2. \A g \in InPath(build) : g \in InPath(c) \/ g = Deepest
    BY <1>3, <1>4, <1>5, <1>6 DEF InPath
  <2>3. Deepest \in InPath(build)
    BY <1>1, WalkFacts
  <2> QED BY <2>1, <2>2, <2>3
<1>8. Closed(selected, CallsIn(build)) /\ Acyclic(selected, CallsIn(build))
  <2>1. CallsIn(build)[Deepest] \subseteq build.selected
    BY <1>1 DEF Unvisited, Targets, Calls, CallsIn
  <2>2. Deepest \notin build.selected
    BY <1>1, WalkFacts DEF WalkKept
  <2> QED BY <1>1, <2>1, <2>2, WalkFacts, WalkGrows DEF WalkKept
<1>9. WalkKept(c)
  <2>1. selected \subseteq DOMAIN build.code /\ selected \cap InPath(c) = {}
    <3>1. Deepest \in DOMAIN build.code
      BY <1>1, WalkFacts
    <3> QED BY <1>1, <1>7, <3>1, WalkFacts DEF WalkKept
  <2>2. \A i, j \in DOMAIN path : i # j => path[i] # path[j]
    BY <1>1, <1>5, <1>6, WalkFacts DEF WalkKept
  <2>3. \A i \in DOMAIN path : i + 1 \in DOMAIN path => path[i + 1] \in CallsIn(build)[path[i]]
    BY <1>1, <1>5, <1>6, WalkFacts DEF WalkKept
  <2>4. InPath(c) \subseteq DOMAIN build.code
    BY <1>1, <1>7, WalkFacts DEF WalkKept
  <2> HIDE DEF selected
  <2> QED BY <1>3, <1>5, <1>8, <2>4, <2>1, <2>2, <2>3 DEF WalkKept
<1>10. ReachKept(c, draft, seen)
  <2>1. selected \cup InPath(c) = build.selected \cup InPath(build)
    BY <1>7
  <2> HIDE DEF selected
  <2> QED BY <1>1, <1>3, <2>1, WalkFacts DEF ReachKept
<1>11. JobKept(c, draft, seen)
  <2> HIDE DEF selected
  <2> QED BY <1>1, <1>2, <1>9, <1>10, WalkFacts, WalkStep
<1> QED BY <1>1, <1>2, <1>11, WalkFacts DEF BuildInv

(* A step of a slice that checks one thing.                                 *)
LEMMA CheckStep ==
  ASSUME BuildInv, NEW step \in Slicing \ {"store"}, NEW ok \in BOOLEAN, Proceed(step, ok, build),
         step = "calls" => build.path = <<>> /\ build.entries \subseteq build.selected,
         NEW next \in Slicing \ {"calls"}, next = After(step),
         NEW c, c = [build EXCEPT !.at = next], ok => ChecksKept(c, seen),
         ~ok /\ seen = {draft} => draft.collects # {} \/ ~CallsClosed(draft)
                                    \/ ~SliceBuildable(draft, build.form, build.env)
  PROVE  BuildInv'
<1>1. /\ JobKept(build, draft, seen) /\ Placed(build) /\ Shaped(build) /\ build.at = step
      /\ PlaceKept(build, seen)
  BY DEF BuildInv, JobKept, Proceed
<1>2. /\ build.form \in {"endpoint", "schedule"} /\ build.env \in ProjectEnvironments
      /\ build.form = "endpoint" => build.env = Home
  BY <1>1 DEF Placed, PlaceKept
<1>3. c.at = next /\ c.form = build.form
  BY <1>1 DEF Shaped
<1>4. Placed(c)
  <2>1. CASE build.form = "endpoint"
    BY <1>3, <2>1 DEF Placed, EndpointSteps, Slicing
  <2>2. CASE build.form = "schedule"
    <3>1. step \in DOMAIN ScheduleSteps /\ next = ScheduleSteps[step]
      BY <1>1, <2>2 DEF Placed, After, Slicing
    <3>2. next # "auth"
      BY <3>1 DEF ScheduleSteps
    <3> QED BY <1>3, <2>2, <3>2 DEF Placed, ScheduleSteps, Slicing
  <2> QED BY <1>2, <2>1, <2>2
<1>5. ok => JobKept(c, draft, seen)
  BY <1>1, <1>4, MovesOn
<1>6. ~ok /\ seen = {draft} => ~Buildable(draft, build.form) \/ draft.collects # {}
  BY <1>2, Unbuildable
<1> QED BY <1>5, <1>6, ProceedStep DEF Slicing

(* What a step of a slice has at hand.                                      *)
LEMMA SliceFacts ==
  ASSUME BuildInv, NEW next, NEW c, c = [build EXCEPT !.at = next]
  PROVE  /\ DraftsKept(draft, seen) /\ JobKept(build, draft, seen) /\ ChecksKept(build, seen)
         /\ ReadsKept(build, draft, seen) /\ PlaceKept(build, seen) /\ Placed(build)
         /\ draft \in seen /\ draft \in Drafts
         /\ c.at = next /\ c.form = build.form /\ c.env = build.env
         /\ c.assigned = build.assigned /\ c.rows = build.rows /\ c.code = build.code
         /\ c.policy = build.policy /\ c.entries = build.entries
         /\ c.selected = build.selected
         /\ (KnownIn(c) <=> KnownIn(build)) /\ BoundIn(c, Home) = BoundIn(build, Home)
<1>1. Shaped(build)
  BY DEF BuildInv, JobKept
<1>2. /\ c.at = next /\ c.form = build.form /\ c.env = build.env /\ c.bound = build.bound
      /\ c.assigned = build.assigned /\ c.rows = build.rows /\ c.code = build.code
      /\ c.policy = build.policy /\ c.entries = build.entries
      /\ c.selected = build.selected
  BY <1>1 DEF Shaped
<1>3. (KnownIn(c) <=> KnownIn(build)) /\ BoundIn(c, Home) = BoundIn(build, Home)
  BY <1>2 DEF KnownIn, BoundIn
<1> QED BY <1>2, <1>3 DEF BuildInv, JobKept, DraftsKept

LEMMA ResolveKept ==
  ASSUME BuildInv, Resolve
  PROVE  BuildInv'
<1> DEFINE c == [build EXCEPT !.at = "secrets"]
<1>1. Proceed("calls", TRUE, build) /\ build.path = <<>> /\ build.at = "calls"
  BY DEF Resolve, Proceed
<1>2. build.entries \subseteq build.selected
  BY <1>1 DEF Resolve, Unvisited, Targets
<1>3. After("calls") = "secrets"
  BY DEF After, EndpointSteps, ScheduleSteps
<1>4. c = [build EXCEPT !.at = "secrets"]
  OBVIOUS
<1> HIDE DEF c
<1>5. ChecksKept(c, seen)
  BY <1>1, <1>4, SliceFacts DEF ChecksKept, Slicing
<1> QED BY <1>1, <1>2, <1>3, <1>4, <1>5, CheckStep DEF Slicing

LEMMA ReadSecretsKept ==
  ASSUME BuildInv, ReadSecrets
  PROVE  BuildInv'
<1> DEFINE next == IF build.form = "endpoint" THEN "auth" ELSE "bundle"
           c == [build EXCEPT !.at = next]
           ok == (\E f \in build.selected : build.rows[f].secret)
                   => SecretThere(draft, build.form, build.env)
<1>1. Proceed("secrets", ok, build) /\ build.at = "secrets" /\ ok \in BOOLEAN
  BY DEF ReadSecrets, Proceed
<1>2. After("secrets") = next /\ next \in Slicing \ {"calls"}
  BY DEF After, EndpointSteps, ScheduleSteps, Slicing
<1>3. c = [build EXCEPT !.at = next]
  OBVIOUS
<1> HIDE DEF c
<1>4. ok => ChecksKept(c, seen)
  BY <1>1, <1>3, SliceFacts DEF ChecksKept, Slicing
<1>5. ASSUME ~ok, seen = {draft} PROVE ~SliceBuildable(draft, build.form, build.env)
  <2>1. /\ build.selected = Reached(draft, Entries(draft, build.form, build.env))
        /\ build.selected \subseteq Available(draft)
    BY <1>1, <1>3, <1>5, SliceFacts, SoleWalk DEF Slicing
  <2>2. \A f \in Available(draft) : build.rows[f] = draft.rows[f]
    BY <1>1, <1>3, <1>5, SliceFacts, SoleReads DEF HaveCode, Slicing
  <2>3. draft.secret[build.env] \notin SecretStates(build.form)
    BY <1>5, StateFacts DEF SecretThere, SecretStates
  <2> QED BY <1>5, <2>1, <2>2, <2>3 DEF SliceBuildable
<1> HIDE DEF ok, next
<1> QED BY <1>1, <1>2, <1>3, <1>4, <1>5, CheckStep DEF Slicing

LEMMA ReadAuthSecretKept ==
  ASSUME BuildInv, ReadAuthSecret
  PROVE  BuildInv'
<1> DEFINE c == [build EXCEPT !.at = "queries"]
           ok == PolicySecret(build.policy) => SecretThere(draft, "endpoint", build.env)
<1>1. Proceed("auth", ok, build) /\ build.at = "auth" /\ ok \in BOOLEAN
  BY DEF ReadAuthSecret, Proceed, PolicySecret
<1>2. c = [build EXCEPT !.at = "queries"]
  OBVIOUS
<1> HIDE DEF c
<1>3. build.form = "endpoint" /\ After("auth") = "queries"
  BY <1>1, <1>2, SliceFacts DEF Placed, ScheduleSteps, After, EndpointSteps
<1>4. ok => ChecksKept(c, seen)
  BY <1>1, <1>2, <1>3, SliceFacts DEF ChecksKept, Slicing
<1>5. ASSUME ~ok, seen = {draft} PROVE ~SliceBuildable(draft, build.form, build.env)
  <2>1. build.assigned = draft.assigned
    BY <1>1, <1>2, <1>3, <1>5, SliceFacts, SoleReads DEF HaveCode, Slicing
  <2>2. draft.assigned /\ build.policy = draft.policy
    BY <1>1, <1>2, <1>3, <1>5, <2>1, SliceFacts DEF PlaceKept, PolicySecret, Slicing
  <2>3. draft.policy.type = "api_key" /\ draft.secret[build.env] \notin SecretStates("endpoint")
    BY <1>5, <2>2 DEF PolicySecret, SecretThere, SecretStates
  <2> QED BY <1>3, <2>2, <2>3 DEF SliceBuildable
<1> HIDE DEF ok
<1> QED BY <1>1, <1>2, <1>3, <1>4, <1>5, CheckStep DEF Slicing

LEMMA ReadQueriesKept ==
  ASSUME BuildInv, ReadQueries
  PROVE  BuildInv'
<1> DEFINE c == [build EXCEPT !.at = "collections"]
           ok == Queries # {} => QueryReadable
<1>1. /\ Proceed("queries", ok, build) /\ build.at = "queries" /\ ok \in BOOLEAN
      /\ After("queries") = "collections"
  BY DEF ReadQueries, Proceed, After, EndpointSteps, ScheduleSteps
<1>2. c = [build EXCEPT !.at = "collections"]
  OBVIOUS
<1> HIDE DEF c
<1>3. ok => (draft.queried \cap build.selected # {} => draft.query /\ build.env = Home)
  BY DEF Queries, QueryReadable
<1>4. ok => ChecksKept(c, seen)
  BY <1>1, <1>2, <1>3, SliceFacts DEF ChecksKept, Slicing
<1>5. ASSUME ~ok, seen = {draft} PROVE ~SliceBuildable(draft, build.form, build.env)
  <2>1. build.selected = Reached(draft, Entries(draft, build.form, build.env))
    BY <1>1, <1>2, <1>5, SliceFacts, SoleWalk DEF Slicing
  <2> QED BY <1>5, <2>1 DEF SliceBuildable, Queries, QueryReadable
<1> HIDE DEF ok
<1> QED BY <1>1, <1>2, <1>4, <1>5, CheckStep DEF Slicing

LEMMA ReadCollectionsKept ==
  ASSUME BuildInv, ReadCollections \/ IndexesFail
  PROVE  BuildInv'
<1> DEFINE next == IF build.form = "endpoint" THEN "bundle" ELSE "store"
           c == [build EXCEPT !.at = next]
<1>1. build.at = "collections" /\ After("collections") = next /\ next \in Slicing \ {"calls"}
  BY DEF ReadCollections, IndexesFail, Proceed, After, EndpointSteps, ScheduleSteps, Slicing
<1>2. c = [build EXCEPT !.at = next]
  OBVIOUS
<1> HIDE DEF c
<1>3. ChecksKept(c, seen)
  <2>1. CASE build.form = "endpoint"
    BY <1>1, <1>2, <2>1, SliceFacts DEF ChecksKept, Slicing
  <2>2. CASE build.form = "schedule"
    BY <1>1, <1>2, <2>2, SliceFacts DEF ChecksKept, Slicing
  <2> QED BY <2>1, <2>2, StateFacts
<1> HIDE DEF next
<1>4. CASE ReadCollections
  <2>1. Proceed("collections", TRUE, build)
    BY <1>4 DEF ReadCollections
  <2> QED BY <1>1, <1>2, <1>3, <2>1, CheckStep DEF Slicing
<1>5. CASE IndexesFail
  <2>1. Proceed("collections", FALSE, build) /\ draft.collects # {}
    BY <1>5 DEF IndexesFail, Collections
  <2> QED BY <1>1, <1>2, <2>1, CheckStep DEF Slicing
<1> QED BY <1>4, <1>5

LEMMA BundleKept ==
  ASSUME BuildInv, Bundle
  PROVE  BuildInv'
<1> DEFINE next == IF build.form = "endpoint" THEN "store" ELSE "queries"
           c == [build EXCEPT !.at = next]
           ok == \A f \in build.selected :
                   /\ Bundles(f)
                   /\ build.form = "schedule" /\ f \in build.entries => build.rows[f].empty
<1>1. /\ Proceed("bundle", ok, build) /\ build.at = "bundle" /\ ok \in BOOLEAN
      /\ After("bundle") = next /\ next \in Slicing \ {"calls"}
  BY DEF Bundle, Proceed, After, EndpointSteps, ScheduleSteps, Slicing
<1>2. c = [build EXCEPT !.at = next]
  OBVIOUS
<1> HIDE DEF c
<1>3. ok => ChecksKept(c, seen)
  BY <1>1, <1>2, SliceFacts DEF ChecksKept, Slicing, Bundles
<1>4. ASSUME ~ok, seen = {draft} PROVE ~SliceBuildable(draft, build.form, build.env)
  <2>1. /\ build.selected = Reached(draft, Entries(draft, build.form, build.env))
        /\ build.selected \subseteq Available(draft) /\ build.bound = draft.bound
        /\ Available(draft) \subseteq Functions
        /\ \A f \in Available(draft) : /\ build.code[f] = draft.code[f][draft.rows[f].version]
                                        /\ build.rows[f] = draft.rows[f]
    <3>1. build.at \in HaveCode /\ build.at \in Slicing \ {"calls"}
      BY <1>1 DEF HaveCode, Slicing
    <3>2. build.selected = Reached(draft, Entries(draft, build.form, build.env))
            /\ build.selected \subseteq Available(draft)
      BY <1>2, <1>4, <3>1, SliceFacts, SoleWalk
    <3> QED BY <1>2, <1>4, <3>1, <3>2, SliceFacts, SoleReads
  <2>2. PICK f \in build.selected :
          \/ ~build.code[f].bundles
          \/ build.form = "schedule" /\ f \in build.entries /\ ~build.rows[f].empty
    BY <1>4 DEF Bundles
  <2>3. CASE ~build.code[f].bundles
    BY <2>1, <2>2, <2>3 DEF SliceBuildable
  <2>4. CASE build.form = "schedule" /\ f \in build.entries /\ ~build.rows[f].empty
    <3>1. draft.bound[build.env][f] \in {"on", "bare"} /\ f \in Functions
      <4>1. build.entries = BoundIn(build, build.env) \cup PolicyFunctions(build.policy)
        BY <1>1, <1>2, SliceFacts DEF PlaceKept, Slicing
      <4>2. PolicyFunctions(build.policy) = {}
        <5>1. build.policy = [type |-> "none"]
          BY <1>2, <2>4, SliceFacts DEF PlaceKept
        <5> QED BY <5>1 DEF PolicyFunctions
      <4> QED BY <2>1, <2>4, <4>1, <4>2 DEF BoundIn
    <3> QED BY <2>1, <2>2, <2>4, <3>1 DEF SliceBuildable
  <2> QED BY <2>2, <2>3, <2>4
<1> HIDE DEF ok, next
<1> QED BY <1>1, <1>2, <1>3, <1>4, CheckStep DEF Slicing

(* What the artifact gets of a slice runs.                                   *)
LEMMA SliceStored ==
  ASSUME BuildInv, build.at = "store", NEW s, s = Slice
  PROVE  SliceRuns(build, draft, seen, s, build.env)
<1> DEFINE selected == build.selected
<1>1. /\ DraftsKept(draft, seen) /\ JobKept(build, draft, seen) /\ WalkKept(build)
      /\ ReadsKept(build, draft, seen) /\ PlaceKept(build, seen) /\ ChecksKept(build, seen)
      /\ build.at \in Slicing /\ build.at \in HaveCode /\ build.env \in ProjectEnvironments
      /\ build.form \in {"endpoint", "schedule"}
  BY DEF BuildInv, JobKept, Slicing, HaveCode, PlaceKept, Placed
<1>2. /\ selected \subseteq DOMAIN build.code /\ build.entries \subseteq selected
      /\ Closed(selected, CallsIn(build)) /\ Acyclic(selected, CallsIn(build))
  BY <1>1 DEF WalkKept
<1>3. /\ s.entries = build.entries /\ s.code = [f \in selected |-> build.code[f]]
      /\ s.version = [f \in selected |-> build.rows[f].version]
      /\ s.secret = {f \in selected : build.rows[f].secret}
  BY DEF Slice
<1>4. /\ DOMAIN build.code = DOMAIN build.rows /\ DOMAIN build.rows \subseteq Functions
      /\ \A f \in DOMAIN build.rows :
           /\ build.rows[f].version \in DOMAIN draft.code[f]
           /\ build.code[f] = draft.code[f][build.rows[f].version]
           /\ \E x \in seen : x.rows[f].on /\ x.rows[f].version = build.rows[f].version
  BY <1>1, JobReads
<1> HIDE DEF selected
<1>5. DOMAIN s.code = selected
  BY <1>3
<1> DEFINE calls == [f \in DOMAIN s.code |-> s.code[f].calls]
<1>6. \A f \in selected : CallsIn(build)[f] = calls[f]
  BY <1>2, <1>3, <1>5 DEF CallsIn
<1>7. Closed(selected, calls) /\ Acyclic(selected, calls)
  <2>1. Closed(selected, calls)
    BY <1>2, <1>6 DEF Closed
  <2> HIDE DEF calls
  <2>2. Acyclic(selected, calls)
    BY <1>2, <1>6, AcyclicSame
  <2> QED BY <2>1, <2>2
<1>8. build.policy.type = "custom_function" => build.policy.of \in selected
  BY <1>1, <1>2 DEF PlaceKept, PolicyFunctions
<1>9. s.secret # {} => \E x \in seen : x.secret[build.env] \in SecretStates(build.form)
  <2>1. SUFFICES ASSUME s.secret # {}
                 PROVE  \E x \in seen : x.secret[build.env] \in SecretStates(build.form)
    OBVIOUS
  <2>2. \E f \in build.selected : build.rows[f].secret
    BY <1>3, <2>1 DEF selected
  <2>3. PICK x \in seen : SecretThere(x, build.form, build.env)
    BY <1>1, <2>2 DEF ChecksKept
  <2>4. x.secret[build.env] \in {"set", "empty", "gone"}
    BY <1>1, DraftFields DEF DraftsKept
  <2> QED BY <1>1, <2>3, <2>4 DEF SecretThere, SecretStates
<1>10. \A f \in selected :
         /\ s.version[f] \in DOMAIN draft.code[f] /\ s.code[f] = draft.code[f][s.version[f]]
         /\ \E x \in seen : x.rows[f].on /\ x.rows[f].version = s.version[f]
  BY <1>2, <1>3, <1>4
<1>11. selected \subseteq Functions
  BY <1>2, <1>4
<1> QED BY <1>2, <1>3, <1>5, <1>7, <1>8, <1>9, <1>10, <1>11 DEF SliceRuns

LEMMA StoreKept ==
  ASSUME BuildInv, Store
  PROVE  BuildInv'
<1> DEFINE e == build.env
           ok == /\ HostsValid(build.settings)
                 /\ IF build.form = "endpoint" THEN AccessValid(build.settings)
                    ELSE PermissionsGranted(e)
           s == Slice
           slices == [x \in DOMAIN build.slices \cup {e} |->
                        IF x = e THEN s ELSE build.slices[x]]
           at == IF build.todo = {} THEN "stored" ELSE "slice"
           c == [build EXCEPT !.slices = slices, !.at = at]
<1>1. /\ build.at = "store" /\ draft' = draft /\ seen' = seen
      /\ build' = IF ~ok THEN [build EXCEPT !.at = "failed"] ELSE c
  BY DEF Store
<1>2. /\ DraftsKept(draft, seen) /\ JobKept(build, draft, seen) /\ Shaped(build)
      /\ Placed(build) /\ SlicesKept(build, draft, seen) /\ draft \in seen
      /\ ReadsKept(build, draft, seen) /\ PlaceKept(build, seen) /\ ChecksKept(build, seen)
      /\ build.at \in Slicing /\ build.at \in HaveCode /\ build.at \in HaveBound
      /\ e \in ProjectEnvironments /\ build.form \in {"endpoint", "schedule"}
      /\ build.form = "endpoint" => e = Home /\ build.todo = {}
  BY <1>1 DEF BuildInv, JobKept, Slicing, HaveCode, HaveBound, HaveRows, PlaceKept, Placed,
              DraftsKept
<1>3. SliceRuns(build, draft, seen, s, e)
  BY <1>1, SliceStored
<1>4. c = [build EXCEPT !.slices = slices, !.at = at]
        /\ slices = [x \in DOMAIN build.slices \cup {e} |-> IF x = e THEN s ELSE build.slices[x]]
  OBVIOUS
<1>5. HostsValid(build.settings) /\ AccessValid(build.settings)
  <2>1. PICK x \in seen : build.settings = x.settings
    BY <1>2 DEF ReadsKept
  <2>2. NetworkAccepted(x.settings) /\ AccessAccepted(x.settings)
    BY <1>2 DEF DraftsKept, Consistent
  <2> QED BY <2>1, <2>2 DEF NetworkAccepted, AccessAccepted, HostsValid, AccessValid
<1>6. ASSUME seen = {draft}
      PROVE  PermissionsGranted(e) <=>
               \A f \in Functions : draft.bound[e][f] \in {"off", "bare"} /\ draft.rows[f].on =>
                                      ~draft.rows[f].requires
  <2>1. /\ build.bound = draft.bound /\ DOMAIN build.rows = Available(draft)
        /\ \A f \in Available(draft) : build.rows[f] = draft.rows[f]
    BY <1>2, <1>6, SoleReads
  <2> QED BY <2>1 DEF PermissionsGranted, Available
<1>7. ASSUME ~ok PROVE BuildInv'
  <2>1. build.form = "schedule" /\ ~PermissionsGranted(e)
    BY <1>2, <1>5, <1>7
  <2>2. seen = {draft} => ~SliceBuildable(draft, "schedule", e)
    BY <1>6, <2>1 DEF SliceBuildable
  <2>3. JobKept([build EXCEPT !.at = "failed"], draft, seen)
    BY <1>1, <1>2, <2>1, <2>2, Unbuildable, FailureStep
  <2>4. build' = [build EXCEPT !.at = "failed"]
    BY <1>1, <1>7
  <2> QED BY <1>1, <1>2, <2>3, <2>4 DEF BuildInv
<1>8. ASSUME ok PROVE BuildInv'
  <2>1. build' = c
    BY <1>1, <1>8
  <2>2. build.form = "schedule" => PermissionsGranted(e)
    BY <1>8
  <2>3. /\ at \in {"stored", "slice"} /\ (at = "stored" <=> build.todo = {})
    OBVIOUS
  <2> HIDE DEF ok, c, s, slices, at
  <2>4. /\ Shaped(c) /\ c.at = at /\ c.form = build.form /\ c.env = e
        /\ c.todo = build.todo /\ c.bound = build.bound /\ c.assigned = build.assigned
        /\ c.settings = build.settings /\ c.rows = build.rows /\ c.code = build.code
        /\ c.policy = build.policy /\ c.path = build.path /\ c.slices = slices
    BY <1>2, <1>4 DEF Shaped
  <2>5. /\ DOMAIN c.slices = DOMAIN build.slices \cup {e} /\ c.slices[e] = s
        /\ \A x \in DOMAIN build.slices : x # e => c.slices[x] = build.slices[x]
    BY <1>4, <2>4
  <2>6. Placed(c)
    BY <1>2, <2>3, <2>4 DEF Placed, ScheduleSteps
  <2>7. ReadsKept(c, draft, seen)
    BY <1>2, <2>3, <2>4 DEF ReadsKept, HaveBound, HaveRows, HaveCode, Slicing
  <2>8. PlaceKept(c, seen)
    <3>1. c.path = <<>>
      BY <1>1, <1>2, <2>4 DEF PlaceKept
    <3>2. CASE build.form = "endpoint"
      <4>1. DOMAIN build.slices = {} /\ at = "stored"
        BY <1>1, <1>2, <2>3, <3>2 DEF PlaceKept
      <4> QED BY <1>2, <2>4, <2>5, <3>1, <3>2, <4>1 DEF PlaceKept, Slicing
    <3>3. CASE build.form = "schedule"
      <4>1. ProjectEnvironments = DOMAIN c.slices \cup c.todo
        BY <1>1, <1>2, <2>4, <2>5, <3>3 DEF PlaceKept
      <4> QED BY <1>2, <2>3, <2>4, <3>1, <3>3, <4>1 DEF PlaceKept, Slicing
    <3> QED BY <1>2, <3>2, <3>3
  <2>9. /\ WalkKept(c) /\ ReachKept(c, draft, seen) /\ FailureKept(c, draft, seen)
        /\ ChecksKept(c, seen)
    BY <2>3, <2>4 DEF WalkKept, ReachKept, FailureKept, ChecksKept, Slicing
  <2>10. SlicesKept(c, draft, seen)
    <3>1. \A t, x : SliceRuns(c, draft, seen, t, x) <=> SliceRuns(build, draft, seen, t, x)
      BY <2>4 DEF SliceRuns
    <3>2. seen = {draft} => CallsClosed(draft) /\ SliceBuildable(draft, build.form, e)
      BY <1>1, <1>2, <1>6, <2>2, SoleSlice
    <3>3. ASSUME NEW x \in DOMAIN c.slices
          PROVE  /\ SliceRuns(c, draft, seen, c.slices[x], x)
                 /\ seen = {draft} => CallsClosed(draft) /\ SliceBuildable(draft, c.form, x)
      <4>1. CASE x = e
        BY <1>3, <2>4, <2>5, <3>1, <3>2, <4>1
      <4>2. CASE x # e
        BY <1>1, <1>2, <2>4, <2>5, <3>1, <3>3, <4>2 DEF SlicesKept
      <4> QED BY <4>1, <4>2
    <3> QED BY <3>3 DEF SlicesKept
  <2>11. JobKept(c, draft, seen)
    BY <2>3, <2>4, <2>6, <2>7, <2>8, <2>9, <2>10 DEF JobKept
  <2> QED BY <1>1, <1>2, <2>1, <2>11 DEF BuildInv
<1> QED BY <1>7, <1>8

-----------------------------------------------------------------------------
LEMMA BuildStarts ==
  BuildInit => BuildInv
<1> SUFFICES ASSUME BuildInit PROVE BuildInv
  OBVIOUS
<1>1. PICK s \in Starts : draft = s.draft
  BY DEF BuildInit
<1>2. draft \in Drafts /\ Consistent(draft) /\ build = Blank /\ seen = {draft}
  BY <1>1, BuildAssumption DEF BuildInit
<1>3. DraftsKept(draft, seen)
  BY <1>2, FS_Singleton, SameHistory DEF DraftsKept
<1> QED BY <1>2, <1>3, IdleKept DEF BuildInv

LEMMA BuildSteps ==
  BuildInv /\ [BuildNext]_buildVars => BuildInv'
<1> SUFFICES ASSUME BuildInv, [BuildNext]_buildVars PROVE BuildInv'
  OBVIOUS
<1>1. CASE UNCHANGED buildVars
  BY <1>1 DEF buildVars, BuildInv, DraftsKept
<1>2. ASSUME NEW f \in Edited,
             \/ \E code \in Codes : SaveCode(f, code)
             \/ \E field \in {"on", "secret", "requires", "empty"} : PatchRow(f, field)
             \/ \E e \in ProjectEnvironments, binding \in Bindings :
                  BindFunction(e, f, binding)
             \/ \E table \in {"queried", "collects"} : GrantResource(table, f)
      PROVE  BuildInv'
  BY <1>2, EditFunctions
<1>3. ASSUME NEW row \in PolicyRows \ {[type |-> "none"]},
             CreatePolicy(row) \/ CreateEndpointPolicy(row)
               \/ EditPolicy(row) \/ EditEndpointPolicy(row)
      PROVE  BuildInv'
  BY <1>3, EditPolicies
<1>4. CASE DeletePolicy \/ AssignPolicy \/ RemovePolicy
             \/ \E assigned \in BOOLEAN : ReplaceAssignments(assigned)
  BY <1>4, EditAssignments
<1>5. CASE \/ \E n \in Networks : EditNetwork(n)
           \/ SwitchQuery
           \/ \E e \in ProjectEnvironments, state \in {"set", "empty", "gone"} :
                EditSecret(e, state)
  BY <1>5, EditOthers
<1>6. CASE BeginEndpoint \/ BeginSchedule
  BY <1>6, BeginsKept
<1>7. CASE ReadBindings \/ ReadFunctions \/ ReadVersions \/ ReadPolicies
  BY <1>7, ReadBindingsKept, ReadFunctionsKept, ReadVersionsKept, ReadPoliciesKept
<1>8. ASSUME NEW e \in ProjectEnvironments, NextSlice(e) PROVE BuildInv'
  BY <1>8, NextSliceKept
<1>9. ASSUME NEW f \in Functions, Visit(f) PROVE BuildInv'
  BY <1>9, VisitKept
<1>10. CASE Leave \/ Resolve
  BY <1>10, LeaveKept, ResolveKept
<1>11. CASE ReadSecrets \/ ReadAuthSecret \/ ReadQueries
  BY <1>11, ReadSecretsKept, ReadAuthSecretKept, ReadQueriesKept
<1>12. CASE ReadCollections \/ IndexesFail \/ Bundle \/ Store
  BY <1>12, ReadCollectionsKept, BundleKept, StoreKept
<1> QED BY <1>1, <1>2, <1>3, <1>4, <1>5, <1>6, <1>7, <1>8, <1>9, <1>10, <1>11, <1>12
        DEF BuildNext

(* The inductive invariant of a build and of the edits that overlap it, at  *)
(* every step of the worker (builder.ts, schedule-builder.ts): what a job   *)
(* read is of drafts there were, its walk selects a closed set of calls     *)
(* without a cycle, it is past only the checks it passed.                   *)
THEOREM BuildsKept == BuildSpec => []BuildInv
BY BuildStarts, BuildSteps, PTL DEF BuildSpec

(* What each slice keeps of what was read is what the artifact runs.        *)
LEMMA CompleteArtifacts == BuildInv => ArtifactsComplete
<1> SUFFICES ASSUME BuildInv, build.at = "stored", NEW e \in DOMAIN build.slices,
                    NEW s, s = build.slices[e]
             PROVE  LET calls == [f \in DOMAIN s.code |-> s.code[f].calls]
                    IN /\ s.entries \subseteq DOMAIN s.code
                       /\ Closed(DOMAIN s.code, calls) /\ Acyclic(DOMAIN s.code, calls)
                       /\ build.policy.type = "custom_function" =>
                            build.policy.of \in DOMAIN s.code
                       /\ \A f \in DOMAIN s.code :
                            /\ s.code[f] = draft.code[f][s.version[f]]
                            /\ \E d \in seen : d.rows[f].on /\ d.rows[f].version = s.version[f]
                       /\ s.secret # {} =>
                            \E d \in seen : d.secret[e] \in SecretStates(build.form)
  BY DEF ArtifactsComplete
<1>1. SliceRuns(build, draft, seen, s, e)
  BY DEF BuildInv, JobKept, SlicesKept
<1> QED BY <1>1 DEF SliceRuns

(* A stored artifact runs, whatever edits overlapped the reads of its       *)
(* build: the calls in its code stay inside it and end, its policies'       *)
(* Function is there, and each Function is a version that was the current   *)
(* one of an enabled Function (builder.ts, schedule-builder.ts).            *)
THEOREM ArtifactsAlwaysComplete == BuildSpec => []ArtifactsComplete
BY BuildsKept, CompleteArtifacts, PTL

(* The drafts setup leaves can be built.                                    *)
LEMMA StarterBuilds ==
  ASSUME NEW store \in Functions
  PROVE  Buildable(Starter(store), "endpoint") /\ Starter(store).collects = {}
<1> DEFINE d == Starter(store)
           calls == [f \in Functions |-> CallsOf(d, f)]
           reached == Reached(d, Entries(d, "endpoint", Home))
<1>1. /\ \A f \in Functions : d.rows[f].on /\ d.rows[f].version = 1 /\ ~d.rows[f].secret
      /\ \A f \in Functions : d.code[f] = <<[calls |-> {store} \ {f}, bundles |-> TRUE]>>
      /\ d.policy.type = "api_key" /\ d.assigned /\ d.secret[Home] = "set"
      /\ d.queried = {} /\ d.collects = {}
  BY BuildAssumption DEF Starter
<1> HIDE DEF d
<1>2. \A f \in Functions : d.code[f][1].bundles /\ CallsOf(d, f) = {store} \ {f}
  <2> SUFFICES ASSUME NEW f \in Functions
               PROVE  d.code[f][1].bundles /\ CallsOf(d, f) = {store} \ {f}
    OBVIOUS
  <2> DEFINE version == [calls |-> {store} \ {f}, bundles |-> TRUE]
  <2>1. d.code[f] = <<version>> /\ d.rows[f].version = 1
    BY <1>1
  <2>2. version.bundles /\ version.calls = {store} \ {f}
    OBVIOUS
  <2> HIDE DEF version
  <2>3. d.code[f][1] = version
    BY <2>1
  <2> QED BY <2>1, <2>2, <2>3 DEF CallsOf
<1>3. Available(d) = Functions /\ reached \subseteq Functions
  BY <1>1 DEF Available, Reached
<1>4. Closed(Available(d), calls)
  BY <1>2, <1>3 DEF Closed
<1>5. \A f \in Functions : calls[f] = {store} \ {f}
  BY <1>2
<1>6. Acyclic(reached, calls)
  <2> HIDE DEF calls, reached
  <2>1. ASSUME NEW part \in (SUBSET reached) \ {{}}
        PROVE  \E f \in part : calls[f] \cap part = {}
    <3>1. CASE store \in part
      BY <1>5, <3>1
    <3>2. CASE store \notin part
      <4>1. PICK f \in part : TRUE
        OBVIOUS
      <4> QED BY <1>3, <1>5, <3>2, <4>1
    <3> QED BY <3>1, <3>2
  <2> QED BY <2>1 DEF Acyclic
<1>7. SliceBuildable(d, "endpoint", Home)
  BY <1>1, <1>2, <1>3, <1>6 DEF SliceBuildable, SecretStates
<1> QED BY <1>1, <1>4, <1>7 DEF Buildable, d

(* Without an edit, each check was made on the one draft there was.         *)
LEMMA DecidedBuilds == BuildInv => BuildsDecide
<1> SUFFICES ASSUME BuildInv, Ended, Cardinality(seen) = 1, NEW d \in seen
             PROVE  /\ IF build.at = "stored" THEN Buildable(d, build.form)
                       ELSE ~Buildable(d, build.form) \/ d.collects # {}
                    /\ build.form = "endpoint" /\ (\E f \in Functions : d = Starter(f))
                         => build.at = "stored"
  BY DEF BuildsDecide
<1>1. /\ DraftsKept(draft, seen) /\ SlicesKept(build, draft, seen) /\ PlaceKept(build, seen)
      /\ FailureKept(build, draft, seen) /\ build.form \in {"endpoint", "schedule"}
  BY StateFacts DEF BuildInv, JobKept
<1>2. seen = {draft} /\ d = draft
  BY <1>1, SoleDraft
<1>3. ASSUME build.at = "stored" PROVE Buildable(d, build.form)
  <2>1. DOMAIN build.slices = IF build.form = "endpoint" THEN {Home} ELSE ProjectEnvironments
    BY <1>1, <1>3 DEF PlaceKept
  <2>2. \A e \in DOMAIN build.slices : CallsClosed(d) /\ SliceBuildable(d, build.form, e)
    BY <1>1, <1>2, <1>3 DEF SlicesKept
  <2>3. CallsClosed(d)
    BY <2>1, <2>2, BuildAssumption
  <2> QED BY <2>1, <2>2, <2>3 DEF Buildable, CallsClosed
<1>4. ASSUME build.at # "stored" PROVE ~Buildable(d, build.form) \/ d.collects # {}
  BY <1>1, <1>2, <1>4 DEF Ended, FailureKept
<1>5. ASSUME build.form = "endpoint", NEW f \in Functions, d = Starter(f)
      PROVE  build.at = "stored"
  BY <1>4, <1>5, StarterBuilds
<1> QED BY <1>3, <1>4, <1>5

(* A build no edit overlaps stores an artifact exactly when the drafts can  *)
(* be built, and the drafts setup leaves can be: no check of builder.ts,    *)
(* schedule-builder.ts or their helpers is missing, and none refuses too    *)
(* much. Only an index that cannot be made may still fail it.               *)
THEOREM BuildsAlwaysDecide == BuildSpec => []BuildsDecide
BY BuildsKept, DecidedBuilds, PTL

(***************************************************************************)
(* Seeds (DevelopmentSeed).                                                *)
(***************************************************************************)
-----------------------------------------------------------------------------
\* The record of the seed that runs.
SeedShaped(s) ==
  s = [at |-> s.at, todo |-> s.todo, on |-> s.on, found |-> s.found,
       snapshots |-> s.snapshots, preserved |-> s.preserved, overtaken |-> s.overtaken,
       counts |-> s.counts]

\* A value of each kind, field by field.
IsSeq(s) == Len(s) \in Nat /\ DOMAIN s = 1 .. Len(s) /\ s = [v \in DOMAIN s |-> s[v]]
IsDemo(x) == x = [version |-> x.version, made |-> x.made, binding |-> x.binding, bound |-> x.bound]
IsArtifact(a) == a = [status |-> a.status, content |-> a.content, of |-> a.of]
IsEndpoint(x) ==
  /\ x = [status |-> x.status, active |-> x.active, made |-> x.made]
  /\ IsSeq(x.made) /\ \A v \in DOMAIN x.made : IsArtifact(x.made[v])

\* What the rows are, whatever has happened to them, as long as no deployment
\* overtook a seed.
OnDemos(rows) == rows = [f \in Demos |-> rows[f]]

SeedTyped ==
  /\ OnDemos(functions) /\ \A f \in Demos : IsDemo(functions[f])
  /\ endpoints = [e \in AllEndpoints |-> endpoints[e]]
  /\ \A e \in AllEndpoints : IsEndpoint(endpoints[e])
  /\ IsSeq(releases)
  /\ \A n \in DOMAIN releases : releases[n] \in [status : {"active", "rolled_back"}]
  /\ live \in 0 .. Len(releases)

\* The steps of the seed, from the last ones back.
Finished == {"settle", "done"}
Pointing == {"pointer"} \cup Finished
Releasing == {"collect", "release", "move"} \cup Pointing
Making == {"artifacts"} \cup Releasing
Saving == {"functions", "versions", "bindings"}

\* The numbers and the code of the versions a demo gets.
Numbers(f) == IF f \in Changed THEN <<1, 2>> ELSE <<1, 1>>
Releases(f) == IF f \in Changed THEN <<1, 2>> ELSE << 2 >>
Recorded(f) == [versions |-> Numbers(f), binding |-> 1]
Fixed(n) == [of |-> n, uses |-> [f \in Demos |-> [version |-> Numbers(f)[n], binding |-> 1]]]

\* A demo whose versions and binding are made, and one whose row is back at
\* its newest version too.
DemoMade(f) == functions[f].made = Releases(f) /\ functions[f].binding = 1 /\ functions[f].bound
DemoDone(f) == DemoMade(f) /\ functions[f].version = Len(Releases(f))

\* Before members move: a demo has the versions of one run or the first few
\* of them, and one binding; the seed that runs has found those of each demo
\* it is done with.
DemosFresh ==
  /\ \A f \in Demos :
       /\ functions[f].made \in (IF f \in Changed THEN {<<>>, << 1 >>, <<1, 2>>} ELSE {<<>>, << 2 >>})
       /\ \/ functions[f].binding = 0 /\ functions[f].bound = FALSE
          \/ /\ functions[f].binding = 1 /\ functions[f].bound = TRUE
             /\ functions[f].made = Releases(f)
  /\ seed.at = "endpoints" => seed.snapshots = <<>>
  /\ seed.at \in Saving =>
       /\ seed.todo \subseteq Demos /\ DOMAIN seed.snapshots = Demos \ seed.todo
       /\ \A f \in Demos \ seed.todo : seed.snapshots[f] = Recorded(f) /\ DemoDone(f)
  /\ seed.at \in {"versions", "bindings"} => \E f \in seed.todo :
       /\ seed.on = {f}
       /\ seed.at = "versions" =>
            \/ seed.found = <<>>
            \/ seed.found = << 1 >> /\ functions[f].made # <<>>
       /\ seed.at = "bindings" => seed.found = Numbers(f) /\ functions[f].made = Releases(f)
  /\ seed.at \in Making => \A f \in Demos : DemoDone(f)
  /\ seed.at \in Making \ {"done"} => seed.snapshots = [f \in Demos |-> Recorded(f)]

\* An endpoint with both artifacts, the second active.
Whole(e) == Len(endpoints[e].made) = 2 /\ endpoints[e].active = 2

\* Before members move: an endpoint has the artifacts of one run, or the
\* first of them. What they contain does not depend on the run.
EndpointFresh(e) ==
  /\ Len(endpoints[e].made) <= 2 /\ endpoints[e].active \in {0, 2}
  /\ endpoints[e].active = 2 => Len(endpoints[e].made) = 2
  /\ \A v \in DOMAIN endpoints[e].made :
       /\ endpoints[e].made[v].content = Fixed(v) /\ endpoints[e].made[v].of \in {0, v}
       /\ endpoints[e].made[v].status = IF v = 2 THEN "active" ELSE "rolled_back"

EndpointsFresh ==
  /\ \A e \in MemberEndpoints : endpoints[e] = Absent
  /\ \A e \in SeedEndpoints : EndpointFresh(e)
  /\ seed.at = "endpoints" => \A e \in SeedEndpoints \ seed.todo : endpoints[e].status = "deployed"
  /\ seed.at \in Saving \cup Making =>
       \A e \in SeedEndpoints : endpoints[e].status = "deployed"
  /\ seed.at = "artifacts" =>
       /\ \A e \in SeedEndpoints \ seed.todo : Whole(e)
       /\ \/ seed.on = {} /\ seed.found = <<>>
          \/ \E e \in seed.todo : /\ seed.on = {e} /\ seed.found \in {<< 1 >>, <<1, 2>>}
                                  /\ Len(endpoints[e].made) >= Len(seed.found)
  /\ seed.at \in Releasing => \A e \in SeedEndpoints : Whole(e)
  /\ seed.at \in {"release", "move"} =>
       DOMAIN seed.counts = SeedEndpoints /\ \A e \in SeedEndpoints : seed.counts[e] = 2

\* The artifacts of release n point to it.
OfRelease(n) == \A e \in SeedEndpoints : endpoints[e].made[n].of = n

\* Before members move: the releases of one run or the first of them, and the
\* second is live, if any; then everything it needs is there.
ReleasesFresh ==
  /\ Len(releases) <= 2
  /\ \A n \in DOMAIN releases : releases[n].status = IF n = 2 THEN "active" ELSE "rolled_back"
  /\ seed.at = "move" => Len(releases) >= IF seed.todo = {2} THEN 2 ELSE 1
  /\ seed.at \in {"release", "move"} /\ seed.todo = {2} => Len(releases) >= 1 /\ OfRelease(1)
  /\ seed.at \in Pointing => Len(releases) = 2 /\ OfRelease(1) /\ OfRelease(2)
  /\ live \in {0, 2} /\ (seed.at \in Finished => live = 2)
  /\ live = 2 =>
       /\ Len(releases) = 2 /\ OfRelease(1) /\ OfRelease(2)
       /\ \A e \in SeedEndpoints : Whole(e) /\ endpoints[e].status = "deployed"
       /\ \A f \in Demos : DemoMade(f)

Fresh == DemosFresh /\ EndpointsFresh /\ ReleasesFresh

\* A demo endpoint that serves what is live.
Serves(e) ==
  LET made == endpoints[e].made IN
  /\ Len(made) >= 2 /\ made[1].of = 1 /\ made[2].of = 2
  /\ \A v \in DOMAIN made : v > 2 => made[v].of \in {0} \cup 3 .. Len(releases)
  /\ \A v, w \in DOMAIN made : made[v].of = made[w].of /\ made[v].of # 0 => v = w
  /\ \A v \in DOMAIN made : made[v].of = live =>
       v = endpoints[e].active /\ made[v].status = "active"

LiveKept ==
  /\ Len(releases) >= 2 /\ \A n \in DOMAIN releases : releases[n].status = "active" <=> n = live
  /\ \A e \in SeedEndpoints : Serves(e)

\* The steps a seed can be at. It preserves the release that is live, unless
\* it is to settle what it has made live itself.
SeedPlaced ==
  /\ seed.at \in {"idle", "endpoints"} \cup Saving \cup Making
  /\ seed.at \in {"endpoints", "artifacts"} => seed.todo \subseteq SeedEndpoints
  /\ seed.at \in {"release", "move"} => seed.todo \in {{1, 2}, {2}}
  /\ Running => IF seed.at = "settle" THEN live # 0 /\ live = Authoritative
                ELSE seed.preserved = live
  /\ moves # 0 => seeded
  /\ seeded => live # 0

\* A deployment that is activated while a seed runs overtakes it, and from
\* then on nothing is claimed of the rows: the seed goes on with what it read
\* before.
SeedInv ==
  /\ SeedShaped(seed) /\ seed.overtaken \in BOOLEAN /\ moves \in Nat
  /\ moves = 0 => ~seed.overtaken
  /\ ~seed.overtaken => /\ SeedTyped /\ SeedPlaced
                        /\ moves = 0 => Fresh
                        /\ live # 0 => LiveKept

-----------------------------------------------------------------------------
(* What holds while no seed was overtaken.                                  *)
LEMMA SeedFacts ==
  ASSUME SeedInv, ~seed.overtaken
  PROVE  /\ SeedShaped(seed) /\ SeedTyped /\ SeedPlaced /\ moves \in Nat
         /\ moves = 0 => DemosFresh /\ EndpointsFresh /\ ReleasesFresh
         /\ live # 0 => LiveKept
         /\ live = 0 => moves = 0 /\ ~seeded
BY DEF SeedInv, Fresh, SeedPlaced

(* A step of the seed keeps whether it was overtaken.                       *)
LEMMA SeedStep ==
  ASSUME SeedInv, SeedShaped(seed'), seed'.overtaken = seed.overtaken, moves' = moves,
         ~seed.overtaken =>
           /\ SeedTyped' /\ SeedPlaced'
           /\ moves = 0 => DemosFresh' /\ EndpointsFresh' /\ ReleasesFresh'
           /\ live' # 0 => LiveKept'
  PROVE  SeedInv'
BY DEF SeedInv, Fresh

(* A seed that begins, or was cut off.                                      *)
LEMMA SeedRestarts ==
  ASSUME SeedInv, SeedShaped(seed'), seed'.overtaken = seed.overtaken,
         \/ seed'.at = "idle"
         \/ /\ seed'.at = "endpoints" /\ seed'.todo = SeedEndpoints /\ seed'.preserved = live
            /\ seed'.snapshots = <<>>,
         functions' = functions, endpoints' = endpoints, releases' = releases,
         live' = live, moves' = moves, seeded' = seeded
  PROVE  SeedInv'
<1> SUFFICES ASSUME ~seed.overtaken
             PROVE  /\ SeedTyped' /\ SeedPlaced'
                    /\ moves = 0 => DemosFresh' /\ EndpointsFresh' /\ ReleasesFresh'
                    /\ live' # 0 => LiveKept'
  BY SeedStep
<1>1. SeedTyped'
  BY SeedFacts DEF SeedTyped
<1>2. SeedPlaced'
  BY SeedFacts DEF SeedPlaced, Running
<1>3. ASSUME moves = 0 PROVE DemosFresh' /\ EndpointsFresh' /\ ReleasesFresh'
  <2>1. DemosFresh'
    BY <1>3, SeedFacts DEF DemosFresh, Saving, Making, Releasing, Pointing, Finished
  <2>2. EndpointsFresh'
    BY <1>3, SeedFacts
       DEF EndpointsFresh, EndpointFresh, Saving, Making, Releasing, Pointing, Finished
  <2>3. ReleasesFresh'
    BY <1>3, SeedFacts DEF ReleasesFresh, Pointing, Finished, OfRelease, Whole, DemoMade
  <2> QED BY <2>1, <2>2, <2>3
<1>4. live' # 0 => LiveKept'
  BY SeedFacts DEF LiveKept, Serves
<1> QED BY <1>1, <1>2, <1>3, <1>4

(* A seed begins, or the next one after a seed that was cut off, with what  *)
(* it finds.                                                                *)
LEMMA BeginSeedKept ==
  ASSUME SeedInv, BeginSeed
  PROVE  SeedInv'
<1>1. /\ SeedShaped(seed') /\ seed'.at = "endpoints" /\ seed'.todo = SeedEndpoints
      /\ seed'.preserved = live /\ seed'.overtaken = seed.overtaken /\ seed'.snapshots = <<>>
  BY DEF BeginSeed, NoSeed, SeedShaped
<1> QED BY <1>1, SeedRestarts DEF BeginSeed, demoRows

LEMMA StoppedFacts ==
  ASSUME NEW s, s = Stopped
  PROVE  SeedShaped(s) /\ s.at = "idle" /\ s.overtaken = seed.overtaken
BY DEF Stopped, NoSeed, SeedShaped

(* Wherever it is cut off, the rows are those the next one can begin with.  *)
LEMMA InterruptKept ==
  ASSUME SeedInv, Interrupt
  PROVE  SeedInv'
BY StoppedFacts, SeedRestarts DEF Interrupt, demoRows

(* The upsert of an endpoint.                                               *)
LEMMA SeedEndpointKept ==
  ASSUME SeedInv, NEW e \in SeedEndpoints, SeedEndpoint(e)
  PROVE  SeedInv'
<1>1. /\ seed.at = "endpoints" /\ e \in seed.todo
      /\ endpoints' = [endpoints EXCEPT ![e].status = "deployed"]
      /\ seed' = IF seed.todo = {e} THEN [seed EXCEPT !.at = "functions", !.todo = Demos]
                 ELSE [seed EXCEPT !.todo = @ \ {e}]
      /\ functions' = functions /\ releases' = releases /\ live' = live /\ moves' = moves
      /\ seeded' = seeded
  BY DEF SeedEndpoint, Take
<1>2. SeedShaped(seed)
  BY DEF SeedInv
<1>3. /\ SeedShaped(seed') /\ seed'.overtaken = seed.overtaken
      /\ seed'.preserved = seed.preserved /\ seed'.snapshots = seed.snapshots
      /\ \/ seed.todo = {e} /\ seed'.at = "functions" /\ seed'.todo = Demos
         \/ seed.todo # {e} /\ seed'.at = "endpoints" /\ seed'.todo = seed.todo \ {e}
  BY <1>1, <1>2 DEF SeedShaped
<1> SUFFICES ASSUME ~seed.overtaken
             PROVE  /\ SeedTyped' /\ SeedPlaced'
                    /\ moves = 0 => DemosFresh' /\ EndpointsFresh' /\ ReleasesFresh'
                    /\ live' # 0 => LiveKept'
  BY <1>1, <1>3, SeedStep
<1>4. /\ e \in AllEndpoints /\ endpoints'[e].status = "deployed"
      /\ endpoints'[e].made = endpoints[e].made /\ endpoints'[e].active = endpoints[e].active
      /\ IsEndpoint(endpoints'[e])
      /\ \A x \in AllEndpoints : x # e => endpoints'[x] = endpoints[x]
      /\ endpoints' = [x \in AllEndpoints |-> endpoints'[x]]
  <2>1. e \in AllEndpoints /\ endpoints = [x \in AllEndpoints |-> endpoints[x]]
    BY SeedFacts DEF AllEndpoints, SeedTyped
  <2>2. IsEndpoint(endpoints[e])
    BY <2>1, SeedFacts DEF SeedTyped
  <2>3. endpoints'[e] = [endpoints[e] EXCEPT !.status = "deployed"]
    BY <1>1, <2>1
  <2>4. /\ endpoints'[e].status = "deployed" /\ IsEndpoint(endpoints'[e])
        /\ endpoints'[e].made = endpoints[e].made /\ endpoints'[e].active = endpoints[e].active
    BY <2>2, <2>3 DEF IsEndpoint
  <2> QED BY <1>1, <2>1, <2>4
<1>5. SeedTyped'
  BY <1>1, <1>4, SeedFacts DEF SeedTyped
<1>6. SeedPlaced'
  BY <1>1, <1>3, SeedFacts DEF SeedPlaced, Running, Saving
<1>7. ASSUME moves = 0 PROVE DemosFresh' /\ EndpointsFresh' /\ ReleasesFresh'
  <2>1. DemosFresh'
    <3>1. seed'.snapshots = <<>>
      BY <1>1, <1>3, <1>7, SeedFacts DEF DemosFresh
    <3>2. DOMAIN seed'.snapshots = {}
      BY <3>1
    <3> QED BY <1>1, <1>3, <1>7, <3>1, <3>2, SeedFacts
            DEF DemosFresh, Saving, Making, Releasing, Pointing, Finished
  <2>2. EndpointsFresh'
    BY <1>1, <1>3, <1>4, <1>7, SeedFacts, SeedAssumption
       DEF EndpointsFresh, EndpointFresh, Saving, Making, Releasing, Pointing, Finished
  <2>3. ReleasesFresh'
    BY <1>1, <1>3, <1>4, <1>7, SeedFacts
       DEF ReleasesFresh, Pointing, Finished, OfRelease, Whole, DemoMade
  <2> QED BY <2>1, <2>2, <2>3
<1>8. live' # 0 => LiveKept'
  <2>1. \A x \in SeedEndpoints : Serves(x) => Serves(x)'
    BY <1>1, <1>4 DEF Serves, AllEndpoints
  <2> QED BY <1>1, <2>1, SeedFacts DEF LiveKept
<1> QED BY <1>5, <1>6, <1>7, <1>8

(* The steps that save the demos leave the endpoints and releases alone.    *)
LEMMA DemoStep ==
  ASSUME SeedInv, seed.at \in Saving, SeedShaped(seed'), seed'.at \in Saving \cup {"artifacts"},
         seed'.overtaken = seed.overtaken, seed'.preserved = seed.preserved,
         seed'.at = "artifacts" =>
           seed'.todo = SeedEndpoints /\ seed'.on = {} /\ seed'.found = <<>>,
         endpoints' = endpoints, releases' = releases, live' = live, moves' = moves,
         seeded' = seeded,
         ~seed.overtaken =>
           /\ OnDemos(functions')
           /\ \A f \in Demos : IsDemo(functions'[f])
           /\ moves = 0 => DemosFresh' /\ \A f \in Demos : DemoMade(f) => DemoMade(f)'
  PROVE  SeedInv'
<1> SUFFICES ASSUME ~seed.overtaken
             PROVE  /\ SeedTyped' /\ SeedPlaced'
                    /\ moves = 0 => DemosFresh' /\ EndpointsFresh' /\ ReleasesFresh'
                    /\ live' # 0 => LiveKept'
  BY SeedStep
<1>1. SeedTyped'
  BY SeedFacts DEF SeedTyped
<1>2. SeedPlaced'
  BY SeedFacts DEF SeedPlaced, Running, Saving, Making
<1>3. ASSUME moves = 0 PROVE DemosFresh' /\ EndpointsFresh' /\ ReleasesFresh'
  <2>1. DemosFresh' /\ \A f \in Demos : DemoMade(f) => DemoMade(f)'
    BY <1>3
  <2>2. EndpointsFresh'
    BY <1>3, SeedFacts
       DEF EndpointsFresh, EndpointFresh, Saving, Making, Releasing, Pointing, Finished, Whole
  <2>3. ReleasesFresh'
    BY <1>3, <2>1, SeedFacts DEF ReleasesFresh, Saving, Pointing, Finished, OfRelease, Whole
  <2> QED BY <2>1, <2>2, <2>3
<1>4. live' # 0 => LiveKept'
  BY SeedFacts DEF LiveKept, Serves
<1> QED BY <1>1, <1>2, <1>3, <1>4

(* The upsert of a Function, which takes its row back to version 2.         *)
LEMMA SeedFunctionKept ==
  ASSUME SeedInv, NEW f \in Demos, SeedFunction(f)
  PROVE  SeedInv'
<1>1. /\ seed.at = "functions" /\ f \in seed.todo
      /\ functions' = [functions EXCEPT ![f].version = 2]
      /\ seed' = [seed EXCEPT !.at = "versions", !.on = {f}, !.found = <<>>]
      /\ endpoints' = endpoints /\ releases' = releases /\ live' = live /\ moves' = moves
      /\ seeded' = seeded
  BY DEF SeedFunction, Take
<1>2. SeedShaped(seed)
  BY DEF SeedInv
<1>3. /\ SeedShaped(seed') /\ seed'.overtaken = seed.overtaken
      /\ seed'.preserved = seed.preserved /\ seed'.at = "versions" /\ seed'.on = {f}
      /\ seed'.found = <<>> /\ seed'.todo = seed.todo /\ seed'.snapshots = seed.snapshots
  BY <1>1, <1>2 DEF SeedShaped
<1>4. ASSUME ~seed.overtaken
      PROVE  /\ OnDemos(functions')
             /\ \A g \in Demos : IsDemo(functions'[g])
             /\ moves = 0 => DemosFresh' /\ \A g \in Demos : DemoMade(g) => DemoMade(g)'
  <2> DEFINE row == [functions[f] EXCEPT !.version = 2]
  <2>1. SeedTyped /\ IsDemo(functions[f])
    BY <1>4, SeedFacts DEF SeedTyped
  <2>2. functions' = [functions EXCEPT ![f] = row]
    BY <1>1, <2>1 DEF SeedTyped, OnDemos
  <2>3. /\ IsDemo(row) /\ row.made = functions[f].made /\ row.binding = functions[f].binding
        /\ row.bound = functions[f].bound
    BY <2>1 DEF IsDemo
  <2> HIDE DEF row
  <2>4. /\ OnDemos(functions') /\ functions'[f] = row
        /\ \A g \in Demos : g # f => functions'[g] = functions[g]
        /\ \A g \in Demos : IsDemo(functions'[g])
    BY <2>1, <2>2, <2>3 DEF SeedTyped, OnDemos
  <2>5. ASSUME moves = 0 PROVE DemosFresh' /\ \A g \in Demos : DemoMade(g) => DemoMade(g)'
    <3>1. DemosFresh
      BY <1>4, <2>5, SeedFacts
    <3>2. \A g \in Demos : /\ functions'[g].made = functions[g].made
                           /\ functions'[g].binding = functions[g].binding
                           /\ functions'[g].bound = functions[g].bound
      BY <2>3, <2>4
    <3>3. \A g \in Demos : DemoMade(g) => DemoMade(g)'
      BY <3>2 DEF DemoMade
    <3>4. \A g \in Demos \ seed.todo : DemoDone(g)'
      BY <1>1, <2>4, <3>1, <3>3 DEF DemosFresh, DemoDone, Saving
    <3>5. /\ seed'.todo \subseteq Demos /\ DOMAIN seed'.snapshots = Demos \ seed'.todo
          /\ \A g \in Demos \ seed'.todo : seed'.snapshots[g] = Recorded(g) /\ DemoDone(g)'
      BY <1>1, <1>3, <3>1, <3>4 DEF DemosFresh, Saving
    <3>6. \A g \in Demos :
            /\ functions'[g].made \in (IF g \in Changed THEN {<<>>, << 1 >>, <<1, 2>>}
                                       ELSE {<<>>, << 2 >>})
            /\ \/ functions'[g].binding = 0 /\ functions'[g].bound = FALSE
               \/ /\ functions'[g].binding = 1 /\ functions'[g].bound = TRUE
                  /\ functions'[g].made = Releases(g)
      BY <3>1, <3>2 DEF DemosFresh
    <3>7. DemosFresh'
      BY <1>1, <1>3, <3>5, <3>6
         DEF DemosFresh, Saving, Making, Releasing, Pointing, Finished
    <3> QED BY <3>3, <3>7
  <2> QED BY <2>4, <2>5
<1> QED BY <1>1, <1>3, <1>4, DemoStep DEF Saving

LEMMA Appended ==
  ASSUME NEW x, NEW y
  PROVE  Append(<<>>, x) = <<x>> /\ Append(<<x>>, y) = <<x, y>>
<1>1. Append(<<>>, x) = <<x>>
  OBVIOUS
<1>2. Append(<<x>>, y) = <<x, y>>
  <2>1. <<x>> \in Seq({x, y}) /\ y \in {x, y} /\ Len(<<x>>) = 1 /\ <<x>>[1] = x
    OBVIOUS
  <2>2. /\ Append(<<x>>, y) \in Seq({x, y}) /\ Len(Append(<<x>>, y)) = 2
        /\ Append(<<x>>, y)[1] = x /\ Append(<<x>>, y)[2] = y
    BY <2>1, AppendProperties
  <2>3. <<x, y>> \in Seq({x, y}) /\ Len(<<x, y>>) = 2 /\ <<x, y>>[1] = x /\ <<x, y>>[2] = y
    OBVIOUS
  <2>4. \A k \in 1 .. 2 : Append(<<x>>, y)[k] = <<x, y>>[k]
    <3>1. \A k \in 1 .. 2 : k = 1 \/ k = 2
      OBVIOUS
    <3> QED BY <2>2, <2>3, <3>1
  <2> QED BY <2>2, <2>3, <2>4, SeqEqual
<1> QED BY <1>1, <1>2

(* A version that is found or made has the number it always gets.           *)
LEMMA VersionMade ==
  ASSUME NEW f \in Demos, NEW n \in {1, 2},
         functions[f].made \in (IF f \in Changed THEN {<<>>, << 1 >>, <<1, 2>>} ELSE {<<>>, << 2 >>}),
         n = 2 => functions[f].made # <<>>,
         NEW v, NEW made,
         LET same == SameChecksum(f, CodeOf(f, n)) IN
         \/ same # {} /\ v \in same /\ made = functions[f].made
         \/ /\ same = {} /\ v = Newest(f) + 1
            /\ made = Put(functions[f].made, Newest(f) + 1, CodeOf(f, n))
  PROVE  /\ v = Numbers(f)[n] /\ made # <<>>
         /\ made \in (IF f \in Changed THEN {<<>>, << 1 >>, <<1, 2>>} ELSE {<<>>, << 2 >>})
         /\ n = 2 \/ functions[f].made = Releases(f) => made = Releases(f)
<1> DEFINE old == functions[f].made
<1>1. CASE f \in Changed /\ old = <<>>
  <2>1. n = 1 /\ CodeOf(f, n) = 1 /\ DOMAIN old = {}
    BY <1>1 DEF CodeOf
  <2>2. SameChecksum(f, CodeOf(f, n)) = {}
    BY <2>1 DEF SameChecksum
  <2>3. Newest(f) = 0
    BY <2>1 DEF Newest, Max
  <2>4. made = << 1 >>
    <3>1. made = [w \in {1} |-> 1]
      BY <2>1, <2>2, <2>3 DEF Put
    <3>2. {1} = 1 .. 1
      OBVIOUS
    <3> QED BY <3>1, <3>2
  <2> QED BY <1>1, <2>1, <2>2, <2>3, <2>4 DEF Numbers, Releases
<1>2. CASE f \in Changed /\ old = << 1 >>
  <2>1. DOMAIN old = {1} /\ old[1] = 1 /\ CodeOf(f, n) = n
    <3>1. DOMAIN old = 1 .. 1 /\ old[1] = 1
      BY <1>2
    <3> QED BY <1>2, <3>1 DEF CodeOf
  <2>2. CASE n = 1
    <3>1. SameChecksum(f, CodeOf(f, n)) = {1}
      BY <2>1, <2>2 DEF SameChecksum
    <3>2. v = 1 /\ made = << 1 >>
      BY <1>2, <2>2, <3>1
    <3>3. Numbers(f)[n] = 1 /\ Releases(f) = <<1, 2>>
      BY <1>2, <2>2 DEF Numbers, Releases
    <3>4. << 1 >> # <<1, 2>> /\ << 1 >> # <<>>
      <4>1. Len(<< 1 >>) = 1 /\ Len(<<1, 2>>) = 2 /\ Len(<<>>) = 0
        OBVIOUS
      <4> QED BY <4>1
    <3> QED BY <1>2, <2>2, <3>2, <3>3, <3>4
  <2>3. CASE n = 2
    <3>1. SameChecksum(f, CodeOf(f, n)) = {}
      BY <2>1, <2>3 DEF SameChecksum
    <3>2. Newest(f) = 1
      BY <2>1 DEF Newest, Max
    <3>3. made = <<1, 2>>
      <4>1. made = [w \in {1, 2} |-> IF w = 2 THEN 2 ELSE old[w]]
        <5>1. made = Put(old, 2, 2)
          BY <2>1, <2>3, <3>1, <3>2
        <5>2. DOMAIN old \cup {2} = {1, 2}
          BY <2>1
        <5> QED BY <5>1, <5>2 DEF Put
      <4>2. {1, 2} = 1 .. 2
        OBVIOUS
      <4> QED BY <2>1, <4>1, <4>2
    <3>4. v = 2 /\ Numbers(f)[n] = 2 /\ Releases(f) = <<1, 2>>
      BY <1>2, <2>3, <3>1, <3>2 DEF Numbers, Releases
    <3>5. <<1, 2>> # <<>>
      OBVIOUS
    <3> QED BY <1>2, <3>3, <3>4, <3>5
  <2> QED BY <2>2, <2>3
<1>3. CASE f \in Changed /\ old = <<1, 2>>
  <2>1. DOMAIN old = {1, 2} /\ old[1] = 1 /\ old[2] = 2 /\ CodeOf(f, n) = n
    <3>1. DOMAIN old = 1 .. 2 /\ old[1] = 1 /\ old[2] = 2
      BY <1>3
    <3> QED BY <1>3, <3>1 DEF CodeOf
  <2>2. SameChecksum(f, CodeOf(f, n)) = {n}
    BY <2>1 DEF SameChecksum
  <2> QED BY <1>3, <2>2 DEF Numbers, Releases
<1>4. CASE f \notin Changed /\ old = <<>>
  <2>1. n = 1 /\ CodeOf(f, n) = 2 /\ DOMAIN old = {}
    BY <1>4 DEF CodeOf
  <2>2. SameChecksum(f, CodeOf(f, n)) = {}
    BY <2>1 DEF SameChecksum
  <2>3. Newest(f) = 0
    BY <2>1 DEF Newest, Max
  <2>4. made = << 2 >>
    <3>1. made = [w \in {1} |-> 2]
      BY <2>1, <2>2, <2>3 DEF Put
    <3>2. {1} = 1 .. 1
      OBVIOUS
    <3> QED BY <3>1, <3>2
  <2> QED BY <1>4, <2>1, <2>2, <2>3, <2>4 DEF Numbers, Releases
<1>5. CASE f \notin Changed /\ old = << 2 >>
  <2>1. DOMAIN old = {1} /\ old[1] = 2 /\ CodeOf(f, n) = 2
    <3>1. DOMAIN old = 1 .. 1 /\ old[1] = 2
      BY <1>5
    <3> QED BY <1>5, <3>1 DEF CodeOf
  <2>2. SameChecksum(f, CodeOf(f, n)) = {1}
    BY <2>1 DEF SameChecksum
  <2> QED BY <1>5, <2>2 DEF Numbers, Releases
<1> QED BY <1>1, <1>2, <1>3, <1>4, <1>5

(* One demo that a step changes.                                            *)
LEMMA DemoChanged ==
  ASSUME DemosFresh, seed.at \in Saving, NEW f \in seed.todo,
         \A g \in Demos : g # f => functions'[g] = functions[g],
         functions'[f].made \in (IF f \in Changed THEN {<<>>, << 1 >>, <<1, 2>>} ELSE {<<>>, << 2 >>}),
         \/ functions'[f].binding = 0 /\ functions'[f].bound = FALSE
         \/ /\ functions'[f].binding = 1 /\ functions'[f].bound = TRUE
            /\ functions'[f].made = Releases(f),
         DemoMade(f) => DemoMade(f)'
  PROVE  /\ \A g \in Demos :
              /\ functions'[g].made \in (IF g \in Changed THEN {<<>>, << 1 >>, <<1, 2>>}
                                         ELSE {<<>>, << 2 >>})
              /\ \/ functions'[g].binding = 0 /\ functions'[g].bound = FALSE
                 \/ /\ functions'[g].binding = 1 /\ functions'[g].bound = TRUE
                    /\ functions'[g].made = Releases(g)
         /\ \A g \in Demos : DemoMade(g) => DemoMade(g)'
         /\ \A g \in Demos \ seed.todo : seed.snapshots[g] = Recorded(g) /\ DemoDone(g)'
         /\ seed.todo \subseteq Demos /\ DOMAIN seed.snapshots = Demos \ seed.todo
<1>1. /\ seed.todo \subseteq Demos /\ DOMAIN seed.snapshots = Demos \ seed.todo
      /\ \A g \in Demos \ seed.todo : seed.snapshots[g] = Recorded(g) /\ DemoDone(g)
  BY DEF DemosFresh
<1>2. \A g \in Demos : g # f => (DemoMade(g) => DemoMade(g)') /\ (DemoDone(g) => DemoDone(g)')
  BY DEF DemoMade, DemoDone
<1>3. \A g \in Demos :
        /\ functions'[g].made \in (IF g \in Changed THEN {<<>>, << 1 >>, <<1, 2>>}
                                   ELSE {<<>>, << 2 >>})
        /\ \/ functions'[g].binding = 0 /\ functions'[g].bound = FALSE
           \/ /\ functions'[g].binding = 1 /\ functions'[g].bound = TRUE
              /\ functions'[g].made = Releases(g)
  <2> TAKE g \in Demos
  <2>1. CASE g = f
    BY <2>1
  <2>2. CASE g # f
    <3>1. functions'[g] = functions[g]
      BY <2>2
    <3> QED BY <3>1 DEF DemosFresh
  <2> QED BY <2>1, <2>2
<1> QED BY <1>1, <1>2, <1>3

(* A version is made unless one has its checksum.                           *)
LEMMA EnsureSeedVersionKept ==
  ASSUME SeedInv, EnsureSeedVersion
  PROVE  SeedInv'
<1>1. /\ seed.at = "versions" /\ endpoints' = endpoints /\ releases' = releases
      /\ live' = live /\ moves' = moves /\ seeded' = seeded /\ SeedShaped(seed)
  BY DEF EnsureSeedVersion, SeedInv
<1> DEFINE n == Len(seed.found) + 1
           at == IF n = 2 THEN "bindings" ELSE "versions"
<1>2. PICK f \in seed.on :
        LET same == SameChecksum(f, CodeOf(f, n)) IN
        IF same # {}
          THEN /\ \E v \in same : seed' = [seed EXCEPT !.at = at, !.found = Append(@, v)]
               /\ functions' = functions
          ELSE /\ functions' = [functions EXCEPT ![f].made = Put(@, Newest(f) + 1, CodeOf(f, n))]
               /\ seed' = [seed EXCEPT !.at = at, !.found = Append(@, Newest(f) + 1)]
  BY DEF EnsureSeedVersion
<1>3. \E v, made :
        /\ LET same == SameChecksum(f, CodeOf(f, n)) IN
           \/ same # {} /\ v \in same /\ made = functions[f].made /\ functions' = functions
           \/ /\ same = {} /\ v = Newest(f) + 1
              /\ made = Put(functions[f].made, Newest(f) + 1, CodeOf(f, n))
              /\ functions' = [functions EXCEPT ![f].made = made]
        /\ seed' = [seed EXCEPT !.at = at, !.found = Append(seed.found, v)]
  <2>1. CASE SameChecksum(f, CodeOf(f, n)) # {}
    BY <1>2, <2>1
  <2>2. CASE SameChecksum(f, CodeOf(f, n)) = {}
    BY <1>2, <2>2
  <2> QED BY <2>1, <2>2
<1>4. PICK v, made :
        /\ LET same == SameChecksum(f, CodeOf(f, n)) IN
           \/ same # {} /\ v \in same /\ made = functions[f].made /\ functions' = functions
           \/ /\ same = {} /\ v = Newest(f) + 1
              /\ made = Put(functions[f].made, Newest(f) + 1, CodeOf(f, n))
              /\ functions' = [functions EXCEPT ![f].made = made]
        /\ seed' = [seed EXCEPT !.at = at, !.found = Append(seed.found, v)]
  BY <1>3
<1>5. at \in {"versions", "bindings"}
  OBVIOUS
<1> HIDE DEF at
<1>6. /\ SeedShaped(seed') /\ seed'.overtaken = seed.overtaken
      /\ seed'.preserved = seed.preserved /\ seed'.at = at /\ seed'.on = seed.on
      /\ seed'.found = Append(seed.found, v) /\ seed'.todo = seed.todo
      /\ seed'.snapshots = seed.snapshots
  BY <1>1, <1>4 DEF SeedShaped
<1>7. ASSUME ~seed.overtaken
      PROVE  /\ OnDemos(functions') /\ \A g \in Demos : IsDemo(functions'[g])
             /\ f \in Demos => /\ functions'[f].made = made
                               /\ functions'[f].binding = functions[f].binding
                               /\ functions'[f].bound = functions[f].bound
             /\ \A g \in Demos : g # f => functions'[g] = functions[g]
  <2>1. OnDemos(functions) /\ \A g \in Demos : IsDemo(functions[g])
    BY <1>7, SeedFacts DEF SeedTyped
  <2>2. CASE functions' = functions /\ made = functions[f].made
    BY <2>1, <2>2
  <2>3. CASE functions' = [functions EXCEPT ![f].made = made]
    <3> DEFINE row == [functions[f] EXCEPT !.made = made]
    <3>1. /\ OnDemos(functions')
          /\ \A g \in Demos : functions'[g] = IF g = f THEN row ELSE functions[g]
      BY <2>1, <2>3 DEF OnDemos
    <3>2. f \in Demos => /\ IsDemo(row) /\ row.made = made
                         /\ row.binding = functions[f].binding /\ row.bound = functions[f].bound
      <4> SUFFICES ASSUME f \in Demos
                   PROVE  /\ IsDemo(row) /\ row.made = made
                          /\ row.binding = functions[f].binding /\ row.bound = functions[f].bound
        OBVIOUS
      <4>1. IsDemo(functions[f])
        BY <2>1
      <4> QED BY <4>1 DEF IsDemo
    <3> HIDE DEF row
    <3> QED BY <2>1, <3>1, <3>2
  <2> QED BY <1>4, <2>2, <2>3
<1>8. ASSUME ~seed.overtaken, moves = 0
      PROVE  DemosFresh' /\ \A g \in Demos : DemoMade(g) => DemoMade(g)'
  <2>1. DemosFresh
    BY <1>8, SeedFacts
  <2>2. PICK g \in seed.todo :
          /\ seed.on = {g}
          /\ \/ seed.found = <<>>
             \/ seed.found = << 1 >> /\ functions[g].made # <<>>
    BY <1>1, <2>1 DEF DemosFresh
  <2>3. f = g /\ f \in seed.todo /\ seed.on = {f} /\ seed.todo \subseteq Demos /\ f \in Demos
    BY <1>1, <2>1, <2>2 DEF DemosFresh, Saving
  <2>4. /\ n \in {1, 2} /\ (n = 1 <=> seed.found = <<>>) /\ (n = 2 <=> seed.found = << 1 >>)
        /\ n = 2 => functions[f].made # <<>>
    <3>1. Len(<<>>) = 0 /\ Len(<< 1 >>) = 1
      OBVIOUS
    <3>2. CASE seed.found = <<>>
      <4>1. n = 1 /\ seed.found # << 1 >>
        BY <3>1, <3>2
      <4> QED BY <3>2, <4>1
    <3>3. CASE seed.found = << 1 >> /\ functions[g].made # <<>>
      <4>1. n = 2 /\ seed.found # <<>>
        BY <3>1, <3>3
      <4> QED BY <2>3, <3>3, <4>1
    <3> QED BY <2>2, <3>2, <3>3
  <2>5. functions[f].made \in (IF f \in Changed THEN {<<>>, << 1 >>, <<1, 2>>} ELSE {<<>>, << 2 >>})
    BY <2>1, <2>3 DEF DemosFresh
  <2> HIDE DEF n
  <2>6. /\ v = Numbers(f)[n] /\ made # <<>>
        /\ made \in (IF f \in Changed THEN {<<>>, << 1 >>, <<1, 2>>} ELSE {<<>>, << 2 >>})
        /\ n = 2 \/ functions[f].made = Releases(f) => made = Releases(f)
    BY <1>4, <2>3, <2>4, <2>5, VersionMade
  <2>7. DemoMade(f) => DemoMade(f)'
    BY <1>7, <1>8, <2>3, <2>6 DEF DemoMade
  <2>8. /\ \A x \in Demos :
             /\ functions'[x].made \in (IF x \in Changed THEN {<<>>, << 1 >>, <<1, 2>>}
                                        ELSE {<<>>, << 2 >>})
             /\ \/ functions'[x].binding = 0 /\ functions'[x].bound = FALSE
                \/ /\ functions'[x].binding = 1 /\ functions'[x].bound = TRUE
                   /\ functions'[x].made = Releases(x)
        /\ \A x \in Demos : DemoMade(x) => DemoMade(x)'
        /\ \A x \in Demos \ seed.todo : seed.snapshots[x] = Recorded(x) /\ DemoDone(x)'
        /\ seed.todo \subseteq Demos /\ DOMAIN seed.snapshots = Demos \ seed.todo
    <3>1. \/ functions'[f].binding = 0 /\ functions'[f].bound = FALSE
          \/ /\ functions'[f].binding = 1 /\ functions'[f].bound = TRUE
             /\ functions'[f].made = Releases(f)
      BY <1>7, <1>8, <2>1, <2>3, <2>6 DEF DemosFresh
    <3>2. /\ functions'[f].made \in (IF f \in Changed THEN {<<>>, << 1 >>, <<1, 2>>}
                                     ELSE {<<>>, << 2 >>})
          /\ \A x \in Demos : x # f => functions'[x] = functions[x]
          /\ seed.at \in Saving
      BY <1>1, <1>7, <1>8, <2>3, <2>6 DEF Saving
    <3> QED BY <2>1, <2>3, <2>7, <3>1, <3>2, DemoChanged
  <2>9. /\ at = "versions" => seed'.found = << 1 >> /\ functions'[f].made # <<>>
        /\ at = "bindings" => seed'.found = Numbers(f) /\ functions'[f].made = Releases(f)
    <3>1. CASE n = 1
      <4>1. v = 1
        BY <2>6, <3>1 DEF Numbers
      <4>2. seed'.found = << 1 >>
        <5>1. seed.found = <<>> /\ seed'.found = Append(seed.found, 1)
          BY <1>6, <2>4, <3>1, <4>1
        <5>2. Append(<<>>, 1) = << 1 >>
          BY Appended
        <5> QED BY <5>1, <5>2
      <4>3. at = "versions"
        BY <3>1 DEF at
      <4> QED BY <1>7, <1>8, <2>3, <2>6, <4>1, <4>2, <4>3
    <3>2. CASE n = 2
      <4>1. seed'.found = <<1, v>> /\ at = "bindings"
        BY <1>6, <2>4, <3>2, Appended DEF at
      <4>2. Numbers(f) = <<1, v>>
        <5>1. CASE f \in Changed
          BY <2>6, <3>2, <5>1 DEF Numbers
        <5>2. CASE f \notin Changed
          BY <2>6, <3>2, <5>2 DEF Numbers
        <5> QED BY <5>1, <5>2
      <4> QED BY <1>7, <1>8, <2>3, <2>6, <3>2, <4>1, <4>2
    <3> QED BY <2>4, <3>1, <3>2
  <2>10. DemosFresh'
    <3>1. seed'.at \in {"versions", "bindings"} /\ seed'.at \in Saving
          /\ seed'.at \notin Making /\ seed'.at # "endpoints"
      BY <1>5, <1>6 DEF Saving, Making, Releasing, Pointing, Finished
    <3> QED BY <1>6, <2>3, <2>8, <2>9, <3>1 DEF DemosFresh
  <2> QED BY <2>8, <2>10
<1>9. seed.at \in Saving /\ seed'.at \in Saving /\ seed'.at # "artifacts"
  BY <1>1, <1>5, <1>6 DEF Saving
<1> QED BY <1>1, <1>6, <1>7, <1>8, <1>9, DemoStep

(* The row's version and its bindings, at the end of a demo.                *)
LEMMA SeedBindingsKept ==
  ASSUME SeedInv, SeedBindings
  PROVE  SeedInv'
<1>1. /\ seed.at = "bindings" /\ endpoints' = endpoints /\ releases' = releases
      /\ live' = live /\ moves' = moves /\ seeded' = seeded /\ SeedShaped(seed)
  BY DEF SeedBindings, SeedInv
<1>2. PICK f \in seed.on :
       LET binding == IF functions[f].bound THEN functions[f].binding
                      ELSE functions[f].binding + 1
           snapshots == [g \in DOMAIN seed.snapshots \cup {f} |->
                           IF g = f THEN [versions |-> seed.found, binding |-> binding]
                           ELSE seed.snapshots[g]]
           last == seed.todo = {f}
       IN /\ functions' = [functions EXCEPT ![f].version = seed.found[2],
                                            ![f].binding = binding, ![f].bound = TRUE]
          /\ seed' = [seed EXCEPT !.at = IF last THEN "artifacts" ELSE "functions",
                                  !.todo = IF last THEN SeedEndpoints ELSE @ \ {f},
                                  !.on = {}, !.found = <<>>, !.snapshots = snapshots]
  BY DEF SeedBindings
<1> DEFINE binding == IF functions[f].bound THEN functions[f].binding
                      ELSE functions[f].binding + 1
           snapshots == [g \in DOMAIN seed.snapshots \cup {f} |->
                           IF g = f THEN [versions |-> seed.found, binding |-> binding]
                           ELSE seed.snapshots[g]]
           last == seed.todo = {f}
           then == IF last THEN "artifacts" ELSE "functions"
           rest == IF last THEN SeedEndpoints ELSE seed.todo \ {f}
<1>3. /\ functions' = [functions EXCEPT ![f].version = seed.found[2],
                                        ![f].binding = binding, ![f].bound = TRUE]
      /\ seed' = [seed EXCEPT !.at = then, !.todo = rest, !.on = {}, !.found = <<>>,
                              !.snapshots = snapshots]
  BY <1>2
<1>4. /\ IF last THEN then = "artifacts" /\ rest = SeedEndpoints
         ELSE then = "functions" /\ rest = seed.todo \ {f}
      /\ DOMAIN snapshots = DOMAIN seed.snapshots \cup {f}
      /\ snapshots[f] = [versions |-> seed.found, binding |-> binding]
      /\ \A g \in DOMAIN seed.snapshots : g # f => snapshots[g] = seed.snapshots[g]
      /\ snapshots = [g \in DOMAIN snapshots |-> snapshots[g]]
  OBVIOUS
<1> HIDE DEF snapshots, then, rest
<1>5. /\ SeedShaped(seed') /\ seed'.overtaken = seed.overtaken
      /\ seed'.preserved = seed.preserved /\ seed'.at = then /\ seed'.on = {}
      /\ seed'.found = <<>> /\ seed'.todo = rest /\ seed'.snapshots = snapshots
  BY <1>1, <1>3 DEF SeedShaped
<1>6. ASSUME ~seed.overtaken
      PROVE  /\ OnDemos(functions') /\ \A g \in Demos : IsDemo(functions'[g])
             /\ f \in Demos => /\ functions'[f].made = functions[f].made
                               /\ functions'[f].version = seed.found[2]
                               /\ functions'[f].binding = binding
                               /\ functions'[f].bound = TRUE
             /\ \A g \in Demos : g # f => functions'[g] = functions[g]
  <2>1. OnDemos(functions) /\ \A g \in Demos : IsDemo(functions[g])
    BY <1>6, SeedFacts DEF SeedTyped
  <2> HIDE DEF binding
  <2> DEFINE row == [functions[f] EXCEPT !.version = seed.found[2], !.binding = binding,
                                         !.bound = TRUE]
  <2>2. OnDemos(functions') /\ \A g \in Demos : functions'[g] = IF g = f THEN row ELSE functions[g]
    BY <1>3, <2>1 DEF OnDemos
  <2>3. row = [functions[f] EXCEPT !.version = seed.found[2], !.binding = binding, !.bound = TRUE]
    OBVIOUS
  <2> HIDE DEF row
  <2>4. f \in Demos => /\ IsDemo(row) /\ row.made = functions[f].made
                       /\ row.version = seed.found[2] /\ row.binding = binding
                       /\ row.bound = TRUE
    <3> SUFFICES ASSUME f \in Demos
                 PROVE  /\ IsDemo(row) /\ row.made = functions[f].made
                        /\ row.version = seed.found[2] /\ row.binding = binding
                        /\ row.bound = TRUE
      OBVIOUS
    <3>1. IsDemo(functions[f])
      BY <2>1
    <3>2. functions[f] = [version |-> functions[f].version, made |-> functions[f].made,
                          binding |-> functions[f].binding, bound |-> functions[f].bound]
      BY <3>1 DEF IsDemo
    <3>3. row = [version |-> seed.found[2], made |-> functions[f].made, binding |-> binding,
                 bound |-> TRUE]
      BY <2>3, <3>2
    <3> QED BY <3>3 DEF IsDemo
  <2> QED BY <2>1, <2>2, <2>4
<1>7. ASSUME ~seed.overtaken, moves = 0
      PROVE  DemosFresh' /\ \A g \in Demos : DemoMade(g) => DemoMade(g)'
  <2>1. DemosFresh
    BY <1>7, SeedFacts
  <2>2. PICK g \in seed.todo :
          seed.on = {g} /\ seed.found = Numbers(g) /\ functions[g].made = Releases(g)
    BY <1>1, <2>1 DEF DemosFresh
  <2>3. /\ f \in seed.todo /\ seed.found = Numbers(f) /\ functions[f].made = Releases(f)
        /\ seed.todo \subseteq Demos /\ f \in Demos /\ DOMAIN seed.snapshots = Demos \ seed.todo
        /\ \A x \in Demos \ seed.todo : seed.snapshots[x] = Recorded(x) /\ DemoDone(x)
    BY <1>1, <1>2, <2>1, <2>2 DEF DemosFresh, Saving
  <2>4. binding = 1
    <3>1. \/ functions[f].binding = 0 /\ functions[f].bound = FALSE
          \/ functions[f].binding = 1 /\ functions[f].bound = TRUE
      BY <2>1, <2>3 DEF DemosFresh
    <3> QED BY <3>1
  <2> HIDE DEF binding
  <2>5. seed.found[2] = Len(Releases(f))
    BY <2>3 DEF Numbers, Releases
  <2>6. DemoDone(f)' /\ DemoMade(f)'
    BY <1>6, <1>7, <2>3, <2>4, <2>5 DEF DemoDone, DemoMade
  <2>7. /\ \A x \in Demos :
             /\ functions'[x].made \in (IF x \in Changed THEN {<<>>, << 1 >>, <<1, 2>>}
                                        ELSE {<<>>, << 2 >>})
             /\ \/ functions'[x].binding = 0 /\ functions'[x].bound = FALSE
                \/ /\ functions'[x].binding = 1 /\ functions'[x].bound = TRUE
                   /\ functions'[x].made = Releases(x)
        /\ \A x \in Demos : DemoMade(x) => DemoMade(x)'
        /\ \A x \in Demos \ seed.todo : DemoDone(x)'
    <3>1. /\ functions'[f].made \in (IF f \in Changed THEN {<<>>, << 1 >>, <<1, 2>>}
                                     ELSE {<<>>, << 2 >>})
          /\ functions'[f].binding = 1 /\ functions'[f].bound = TRUE
          /\ functions'[f].made = Releases(f)
          /\ \A x \in Demos : x # f => functions'[x] = functions[x]
          /\ seed.at \in Saving
      BY <1>1, <1>6, <1>7, <2>3, <2>4 DEF Saving, Releases
    <3> QED BY <2>1, <2>3, <2>6, <3>1, DemoChanged
  <2>8. snapshots[f] = Recorded(f)
    BY <1>4, <2>3, <2>4 DEF Recorded
  <2>9. CASE last
    <3>1. \A x \in Demos : DemoDone(x)'
      BY <2>3, <2>6, <2>7, <2>9
    <3>2. DOMAIN snapshots = Demos /\ \A x \in Demos : snapshots[x] = Recorded(x)
      BY <1>4, <2>3, <2>8, <2>9
    <3>3. snapshots = [x \in Demos |-> Recorded(x)]
      <4>1. snapshots = [x \in Demos |-> snapshots[x]]
        BY <1>4, <3>2
      <4> QED BY <3>2, <4>1
    <3>4. seed'.at = "artifacts"
      BY <1>4, <1>5, <2>9
    <3>5. seed'.at \notin Saving /\ seed'.at \notin {"versions", "bindings", "endpoints"}
      BY <3>4 DEF Saving
    <3>6. DemosFresh'
      BY <1>5, <2>7, <3>1, <3>3, <3>4, <3>5 DEF DemosFresh
    <3> QED BY <2>7, <3>6
  <2>10. CASE ~last
    <3>1. /\ seed'.at = "functions" /\ rest = seed.todo \ {f}
      BY <1>4, <1>5, <2>10
    <3>2. seed'.at \notin Making /\ seed'.at \notin {"versions", "bindings", "endpoints"}
      BY <3>1 DEF Making, Releasing, Pointing, Finished
    <3>3. /\ rest \subseteq Demos /\ DOMAIN snapshots = Demos \ rest
      BY <1>4, <2>3, <3>1
    <3>4. \A x \in Demos \ rest : snapshots[x] = Recorded(x) /\ DemoDone(x)'
      <4> TAKE x \in Demos \ rest
      <4>1. CASE x = f
        BY <2>6, <2>8, <4>1
      <4>2. CASE x # f
        <5>1. x \in Demos \ seed.todo
          BY <3>1, <4>2
        <5> QED BY <1>4, <2>3, <2>7, <4>2, <5>1
      <4> QED BY <4>1, <4>2
    <3>5. DemosFresh'
      BY <1>5, <2>7, <3>2, <3>3, <3>4 DEF DemosFresh
    <3> QED BY <2>7, <3>5
  <2> QED BY <2>9, <2>10
<1>8. seed.at \in Saving /\ seed'.at \in Saving \cup {"artifacts"}
  BY <1>1, <1>4, <1>5 DEF Saving
<1>9. seed'.at = "artifacts" => seed'.todo = SeedEndpoints /\ seed'.on = {} /\ seed'.found = <<>>
  BY <1>4, <1>5
<1> QED BY <1>1, <1>5, <1>6, <1>7, <1>8, <1>9, DemoStep

-----------------------------------------------------------------------------
LEMMA SeqAppended ==
  ASSUME NEW s, IsSeq(s), NEW a, NEW t, t = Append(s, a)
  PROVE  /\ IsSeq(t) /\ Len(t) = Len(s) + 1 /\ t[Len(s) + 1] = a
         /\ \A v \in DOMAIN s : t[v] = s[v]
         /\ DOMAIN t = DOMAIN s \cup {Len(s) + 1}
<1> DEFINE S == {s[v] : v \in DOMAIN s} \cup {a}
<1>1. s \in Seq(S)
  <2>1. s \in [1 .. Len(s) -> S] /\ Len(s) \in Nat
    BY DEF IsSeq
  <2> QED BY <2>1, SeqDef
<1>2. a \in S
  OBVIOUS
<1> HIDE DEF S
<1>3. /\ t \in Seq(S) /\ Len(t) = Len(s) + 1 /\ t[Len(s) + 1] = a
      /\ \A v \in 1 .. Len(s) : t[v] = s[v]
  BY <1>1, <1>2, AppendProperties
<1>4. Len(t) \in Nat /\ DOMAIN t = 1 .. Len(t) /\ t \in [1 .. Len(t) -> S]
  BY <1>3, LenProperties
<1>5. t = [v \in DOMAIN t |-> t[v]]
  BY <1>4
<1>6. DOMAIN t = DOMAIN s \cup {Len(s) + 1}
  BY <1>3, <1>4 DEF IsSeq
<1> QED BY <1>3, <1>4, <1>5, <1>6 DEF IsSeq

(* From the artifacts on, nothing is done to the demos.                     *)
LEMMA DemosLeft ==
  ASSUME DemosFresh, seed.at \in Making, seed'.at \in Making, functions' = functions,
         seed'.at # "done" => seed.at # "done" /\ seed'.snapshots = seed.snapshots
  PROVE  DemosFresh' /\ \A f \in Demos : DemoMade(f) => DemoMade(f)'
<1>1. \A f \in Demos : DemoMade(f)' /\ DemoDone(f)'
  BY DEF DemosFresh, DemoDone, DemoMade
<1>2. seed'.at \notin Saving /\ seed'.at \notin {"endpoints", "versions", "bindings"}
  BY DEF Making, Saving, Releasing, Pointing, Finished
<1>3. seed'.at \in Making \ {"done"} => seed'.snapshots = [f \in Demos |-> Recorded(f)]
  BY DEF DemosFresh
<1>4. \A f \in Demos :
        /\ functions'[f].made \in (IF f \in Changed THEN {<<>>, << 1 >>, <<1, 2>>} ELSE {<<>>, << 2 >>})
        /\ \/ functions'[f].binding = 0 /\ functions'[f].bound = FALSE
           \/ /\ functions'[f].binding = 1 /\ functions'[f].bound = TRUE
              /\ functions'[f].made = Releases(f)
  BY DEF DemosFresh
<1> QED BY <1>1, <1>2, <1>3, <1>4 DEF DemosFresh

LEMMA ContentFixed ==
  ASSUME DemosFresh, seed.at \in Making \ {"done"}, NEW n \in {1, 2}
  PROVE  Content(n) = Fixed(n) /\ Content(n).of = n
<1>1. seed.snapshots = [f \in Demos |-> Recorded(f)]
  BY DEF DemosFresh
<1>2. [f \in DOMAIN seed.snapshots |-> [version |-> seed.snapshots[f].versions[n],
                                        binding |-> seed.snapshots[f].binding]]
      = [f \in Demos |-> [version |-> Numbers(f)[n], binding |-> 1]]
  <2>1. DOMAIN seed.snapshots = Demos
    BY <1>1
  <2>2. \A f \in Demos : /\ seed.snapshots[f].versions[n] = Numbers(f)[n]
                         /\ seed.snapshots[f].binding = 1
    BY <1>1 DEF Recorded
  <2> QED BY <2>1, <2>2
<1> QED BY <1>2 DEF Content, Fixed

LEMMA ArtifactsFresh ==
  ASSUME seed'.at = "artifacts",
         \A x \in MemberEndpoints : endpoints'[x] = Absent,
         \A x \in SeedEndpoints : EndpointFresh(x)',
         \A x \in SeedEndpoints : endpoints'[x].status = "deployed",
         \A x \in SeedEndpoints \ seed'.todo : Whole(x)',
         \/ seed'.on = {} /\ seed'.found = <<>>
         \/ \E x \in seed'.todo : /\ seed'.on = {x} /\ seed'.found \in {<< 1 >>, <<1, 2>>}
                                 /\ Len(endpoints'[x].made) >= Len(seed'.found)
  PROVE  EndpointsFresh'
<1>1. /\ seed'.at \notin Releasing /\ seed'.at # "endpoints"
      /\ seed'.at \notin {"release", "move"}
  BY DEF Releasing, Pointing, Finished
<1> QED BY <1>1 DEF EndpointsFresh, EndpointFresh

(* An artifact is made unless a Deployment has its content.                 *)
LEMMA SeedArtifactKept ==
  ASSUME SeedInv, NEW e \in SeedEndpoints, SeedArtifact(e)
  PROVE  SeedInv'
<1> DEFINE n == Len(seed.found) + 1
           made == endpoints[e].made
           same == {v \in DOMAIN made : made[v].content = Content(n)}
           status == IF n = 2 /\ seed.preserved = 0 THEN "active" ELSE "rolled_back"
           artifact == [status |-> status, content |-> Content(n), of |-> 0]
<1>1. /\ seed.at = "artifacts" /\ e \in seed.todo /\ seed.on \in {{}, {e}} /\ Len(seed.found) < 2
      /\ functions' = functions /\ releases' = releases /\ live' = live /\ moves' = moves
      /\ seeded' = seeded /\ SeedShaped(seed)
  BY DEF SeedArtifact, Take, SeedInv
<1>2. \/ /\ same # {} /\ endpoints' = endpoints
         /\ \E v \in same : seed' = [seed EXCEPT !.on = {e}, !.found = Append(@, v)]
      \/ /\ same = {}
         /\ endpoints' = [endpoints EXCEPT ![e].made = Append(@, artifact)]
         /\ seed' = [seed EXCEPT !.on = {e}, !.found = Append(@, Len(made) + 1)]
  BY DEF SeedArtifact
<1>3. \E v :
        /\ \/ v \in same /\ endpoints' = endpoints
           \/ /\ same = {} /\ v = Len(made) + 1
              /\ endpoints' = [endpoints EXCEPT ![e].made = Append(@, artifact)]
        /\ seed' = [seed EXCEPT !.on = {e}, !.found = Append(seed.found, v)]
  <2>1. CASE same # {}
    BY <1>2, <2>1
  <2>2. CASE same = {}
    BY <1>2, <2>2
  <2> QED BY <2>1, <2>2
<1>4. PICK v :
        /\ \/ v \in same /\ endpoints' = endpoints
           \/ /\ same = {} /\ v = Len(made) + 1
              /\ endpoints' = [endpoints EXCEPT ![e].made = Append(@, artifact)]
        /\ seed' = [seed EXCEPT !.on = {e}, !.found = Append(seed.found, v)]
  BY <1>3
<1>5. artifact = [status |-> status, content |-> Content(n), of |-> 0]
  OBVIOUS
<1> HIDE DEF artifact
<1>6. /\ SeedShaped(seed') /\ seed'.overtaken = seed.overtaken /\ seed'.at = "artifacts"
      /\ seed'.preserved = seed.preserved /\ seed'.on = {e} /\ seed'.todo = seed.todo
      /\ seed'.found = Append(seed.found, v) /\ seed'.snapshots = seed.snapshots
  BY <1>1, <1>4 DEF SeedShaped
<1>7. artifact.of = 0 /\ IsArtifact(artifact) /\ artifact.status = status
      /\ artifact.content = Content(n)
  BY <1>5 DEF IsArtifact
<1> SUFFICES ASSUME ~seed.overtaken
             PROVE  /\ SeedTyped' /\ SeedPlaced'
                    /\ moves = 0 => DemosFresh' /\ EndpointsFresh' /\ ReleasesFresh'
                    /\ live' # 0 => LiveKept'
  BY <1>1, <1>6, SeedStep
<1>8. e \in AllEndpoints /\ SeedTyped /\ IsEndpoint(endpoints[e]) /\ IsSeq(made)
  BY SeedFacts DEF AllEndpoints, SeedTyped, IsEndpoint
<1>9. \/ v \in same /\ endpoints' = endpoints
      \/ /\ same = {} /\ v = Len(made) + 1 /\ IsEndpoint(endpoints'[e])
         /\ endpoints'[e].status = endpoints[e].status
         /\ endpoints'[e].active = endpoints[e].active
         /\ endpoints'[e].made[v] = artifact /\ Len(endpoints'[e].made) = v
         /\ DOMAIN endpoints'[e].made = DOMAIN made \cup {v}
         /\ \A w \in DOMAIN made : endpoints'[e].made[w] = made[w]
         /\ \A x \in AllEndpoints : x # e => endpoints'[x] = endpoints[x]
         /\ endpoints' = [x \in AllEndpoints |-> endpoints'[x]]
  <2> SUFFICES ASSUME same = {}, v = Len(made) + 1,
                      endpoints' = [endpoints EXCEPT ![e].made = Append(@, artifact)]
               PROVE  /\ IsEndpoint(endpoints'[e])
                      /\ endpoints'[e].status = endpoints[e].status
                      /\ endpoints'[e].active = endpoints[e].active
                      /\ endpoints'[e].made[v] = artifact /\ Len(endpoints'[e].made) = v
                      /\ DOMAIN endpoints'[e].made = DOMAIN made \cup {v}
                      /\ \A w \in DOMAIN made : endpoints'[e].made[w] = made[w]
                      /\ \A x \in AllEndpoints : x # e => endpoints'[x] = endpoints[x]
                      /\ endpoints' = [x \in AllEndpoints |-> endpoints'[x]]
    BY <1>4
  <2> HIDE DEF same
  <2>1. endpoints = [x \in AllEndpoints |-> endpoints[x]]
    BY <1>8 DEF SeedTyped
  <2>2. /\ endpoints'[e] = [endpoints[e] EXCEPT !.made = Append(@, artifact)]
        /\ \A x \in AllEndpoints : x # e => endpoints'[x] = endpoints[x]
        /\ endpoints' = [x \in AllEndpoints |-> endpoints'[x]]
    BY <1>8, <2>1
  <2>3. /\ endpoints'[e] = [status |-> endpoints[e].status, active |-> endpoints[e].active,
                            made |-> Append(made, artifact)]
    BY <1>8, <2>2 DEF IsEndpoint
  <2> HIDE DEF made
  <2>4. \E s, a, t : s = made /\ a = artifact /\ t = Append(s, a)
    OBVIOUS
  <2>5. PICK s, a, t : s = made /\ a = artifact /\ t = Append(s, a)
    BY <2>4
  <2>6. /\ IsSeq(t) /\ Len(t) = Len(made) + 1 /\ t[Len(made) + 1] = artifact
        /\ \A w \in DOMAIN made : t[w] = made[w]
        /\ DOMAIN t = DOMAIN made \cup {Len(made) + 1}
    <3>1. IsSeq(s) /\ t = Append(s, a)
      BY <1>8, <2>5
    <3>2. IsSeq(t) /\ Len(t) = Len(s) + 1
      BY <3>1, SeqAppended
    <3>3. t[Len(s) + 1] = a
      BY <3>1, SeqAppended
    <3>4. \A w \in DOMAIN s : t[w] = s[w]
      BY <3>1, SeqAppended
    <3>5. DOMAIN t = DOMAIN s \cup {Len(s) + 1}
      BY <3>1, SeqAppended
    <3> QED BY <2>5, <3>2, <3>3, <3>4, <3>5
  <2>7. \A w \in DOMAIN made : IsArtifact(made[w])
    BY <1>8 DEF IsEndpoint, made
  <2>8. endpoints'[e].made = t /\ endpoints'[e].status = endpoints[e].status
        /\ endpoints'[e].active = endpoints[e].active
        /\ endpoints'[e] = [status |-> endpoints'[e].status, active |-> endpoints'[e].active,
                            made |-> endpoints'[e].made]
    <3>1. endpoints'[e] = [status |-> endpoints[e].status, active |-> endpoints[e].active,
                           made |-> t]
      BY <2>3, <2>5
    <3> QED BY <3>1, SMTT(30)
  <2>9. \A w \in DOMAIN t : IsArtifact(t[w])
    BY <1>7, <2>6, <2>7
  <2>10. IsEndpoint(endpoints'[e])
    BY <2>6, <2>8, <2>9 DEF IsEndpoint
  <2> QED BY <2>2, <2>6, <2>8, <2>10
<1> HIDE DEF same
<1>10. SeedTyped'
  BY <1>1, <1>8, <1>9 DEF SeedTyped
<1>11. SeedPlaced'
  BY <1>1, <1>6, SeedFacts DEF SeedPlaced, Running
<1>12. ASSUME moves = 0 PROVE DemosFresh' /\ EndpointsFresh' /\ ReleasesFresh'
  <2>1. DemosFresh /\ EndpointsFresh /\ ReleasesFresh
    BY <1>12, SeedFacts
  <2>2. DemosFresh' /\ \A f \in Demos : DemoMade(f) => DemoMade(f)'
    BY <1>1, <1>6, <2>1, DemosLeft DEF Making
  <2>3. /\ n \in {1, 2} /\ (n = 1 <=> seed.found = <<>>) /\ (n = 2 <=> seed.found = << 1 >>)
        /\ Len(made) >= n - 1
    <3>1. \/ seed.found = <<>>
          \/ seed.on = {e} /\ seed.found = << 1 >> /\ Len(made) >= Len(seed.found)
      <4>1. \/ seed.found = <<>>
            \/ \E x \in seed.todo : /\ seed.on = {x} /\ seed.found \in {<< 1 >>, <<1, 2>>}
                                    /\ Len(endpoints[x].made) >= Len(seed.found)
        BY <1>1, <2>1 DEF EndpointsFresh, EndpointFresh
      <4>2. ASSUME NEW x \in seed.todo, seed.on = {x}, seed.found \in {<< 1 >>, <<1, 2>>},
                   Len(endpoints[x].made) >= Len(seed.found)
            PROVE  seed.on = {e} /\ seed.found = << 1 >> /\ Len(made) >= Len(seed.found)
        <5>1. x = e
          BY <1>1, <4>2
        <5>2. Len(<<1, 2>>) = 2
          OBVIOUS
        <5> QED BY <1>1, <4>2, <5>1, <5>2
      <4> QED BY <4>1, <4>2
    <3>2. Len(<<>>) = 0 /\ Len(<< 1 >>) = 1 /\ Len(made) \in Nat
      BY <1>8 DEF IsSeq
    <3>3. CASE seed.found = <<>>
      <4>1. n = 1 /\ seed.found # << 1 >>
        BY <3>2, <3>3
      <4> QED BY <3>2, <3>3, <4>1
    <3>4. CASE seed.on = {e} /\ seed.found = << 1 >> /\ Len(made) >= Len(seed.found)
      <4>1. n = 2 /\ seed.found # <<>>
        BY <3>2, <3>4
      <4> QED BY <3>2, <3>4, <4>1
    <3> QED BY <3>1, <3>3, <3>4
  <2> HIDE DEF n
  <2>4. Content(n) = Fixed(n) /\ Content(n).of = n
    BY <1>1, <2>1, <2>3, ContentFixed DEF Making, Releasing, Pointing, Finished
  <2>5. /\ Len(made) \in Nat /\ Len(made) <= 2 /\ DOMAIN made = 1 .. Len(made)
        /\ \A w \in DOMAIN made : made[w].content = Fixed(w)
        /\ \A w : Fixed(w).of = w
    BY <1>8, <2>1 DEF EndpointsFresh, EndpointFresh, IsSeq, Fixed
  <2>6. /\ v = n
        /\ \/ endpoints' = endpoints /\ Len(made) >= n
           \/ same = {} /\ Len(made) = n - 1
    <3>1. \A w \in DOMAIN made : w \in same <=> w = n
      BY <2>4, <2>5 DEF same
    <3>2. CASE v \in same /\ endpoints' = endpoints
      <4>1. v \in DOMAIN made
        BY <3>2 DEF same
      <4> QED BY <2>5, <3>1, <3>2, <4>1
    <3>3. CASE same = {} /\ v = Len(made) + 1
      <4>1. n \notin DOMAIN made
        BY <3>1, <3>3
      <4> QED BY <2>3, <2>5, <3>3, <4>1
    <3> QED BY <1>4, <3>2, <3>3
  <2>7. seed'.found \in {<< 1 >>, <<1, 2>>} /\ Len(seed'.found) = n
    <3>1. CASE n = 1
      <4>1. seed.found = <<>> /\ v = 1
        BY <2>3, <2>6, <3>1
      <4>2. seed'.found = << 1 >>
        <5>1. Append(<<>>, 1) = << 1 >>
          BY Appended
        <5> QED BY <1>6, <4>1, <5>1
      <4> QED BY <3>1, <4>2
    <3>2. CASE n = 2
      <4>1. seed.found = << 1 >> /\ v = 2
        BY <2>3, <2>6, <3>2
      <4>2. seed'.found = <<1, 2>>
        <5>1. Append(<< 1 >>, 2) = <<1, 2>>
          BY Appended
        <5> QED BY <1>6, <4>1, <5>1
      <4> QED BY <3>2, <4>2
    <3> QED BY <2>3, <3>1, <3>2
  <2>8. live = 2 => endpoints' = endpoints
    BY <1>8, <2>1, <2>3, <2>6 DEF ReleasesFresh, Whole
  <2>9. CASE endpoints' = endpoints
    <3>1. EndpointsFresh'
      <4>1. \E x \in seed'.todo : /\ seed'.on = {x} /\ seed'.found \in {<< 1 >>, <<1, 2>>}
                                  /\ Len(endpoints'[x].made) >= Len(seed'.found)
        <5>1. e \in seed'.todo /\ seed'.on = {e} /\ seed'.found \in {<< 1 >>, <<1, 2>>}
          BY <1>1, <1>6, <2>7
        <5>2. Len(endpoints'[e].made) >= Len(seed'.found)
          <6>1. Len(made) >= n
            BY <1>9, <2>3, <2>5, <2>6, <2>9
          <6> QED BY <2>7, <2>9, <6>1
        <5> QED BY <5>1, <5>2
      <4>2. \A x \in SeedEndpoints \ seed'.todo : Whole(x)'
        BY <1>1, <1>6, <2>1, <2>9 DEF EndpointsFresh, EndpointFresh, Whole
      <4>3. \A x \in SeedEndpoints : endpoints'[x].status = "deployed"
        BY <1>1, <2>1, <2>9 DEF EndpointsFresh, EndpointFresh, Making
      <4>4. /\ \A x \in MemberEndpoints : endpoints'[x] = Absent
            /\ \A x \in SeedEndpoints : EndpointFresh(x)'
        BY <2>1, <2>9 DEF EndpointsFresh, EndpointFresh
      <4> QED BY <1>6, <4>1, <4>2, <4>3, <4>4, ArtifactsFresh
    <3>2. ReleasesFresh'
      BY <1>1, <1>6, <2>1, <2>2, <2>9 DEF ReleasesFresh, Pointing, Finished, OfRelease, Whole
    <3> QED BY <2>2, <3>1, <3>2
  <2>10. CASE endpoints' # endpoints
    <3>1. /\ v = n /\ Len(made) = n - 1 /\ live = 0
          /\ status = IF n = 2 THEN "active" ELSE "rolled_back"
      <4>1. live = 0
        BY <2>1, <2>8, <2>10 DEF ReleasesFresh
      <4>2. seed.preserved = 0
        BY <1>1, <4>1, SeedFacts DEF SeedPlaced, Running
      <4> QED BY <2>5, <2>6, <2>10, <4>1, <4>2
    <3> HIDE DEF status
    <3>2. /\ endpoints'[e].status = endpoints[e].status
          /\ endpoints'[e].active = endpoints[e].active
          /\ endpoints'[e].made[n] = artifact /\ Len(endpoints'[e].made) = n
          /\ DOMAIN endpoints'[e].made = DOMAIN made \cup {n}
          /\ \A w \in DOMAIN made : endpoints'[e].made[w] = made[w]
          /\ \A x \in AllEndpoints : x # e => endpoints'[x] = endpoints[x]
      BY <1>9, <2>10, <3>1
    <3>3. /\ Len(endpoints'[e].made) <= 2 /\ endpoints'[e].active = 0
          /\ \A w \in DOMAIN endpoints'[e].made :
               /\ endpoints'[e].made[w].content = Fixed(w)
               /\ endpoints'[e].made[w].of \in {0, w}
               /\ endpoints'[e].made[w].status = IF w = 2 THEN "active" ELSE "rolled_back"
      <4>1. /\ endpoints[e].active \in {0, 2}
            /\ endpoints[e].active = 2 => Len(made) = 2
            /\ \A w \in DOMAIN made :
                 /\ made[w].content = Fixed(w) /\ made[w].of \in {0, w}
                 /\ made[w].status = IF w = 2 THEN "active" ELSE "rolled_back"
        BY <2>1 DEF EndpointsFresh, EndpointFresh
      <4>2. endpoints'[e].active = 0 /\ Len(endpoints'[e].made) <= 2
        BY <2>3, <3>1, <3>2, <4>1
      <4>3. /\ artifact.content = Fixed(n) /\ artifact.of = 0
            /\ artifact.status = IF n = 2 THEN "active" ELSE "rolled_back"
        BY <1>7, <2>4, <3>1
      <4> QED BY <3>2, <4>1, <4>2, <4>3
    <3>4. ~Whole(e)
      BY <2>3, <3>1 DEF Whole
    <3>5. EndpointsFresh'
      <4>1. \A x \in MemberEndpoints : x # e /\ endpoints'[x] = endpoints[x]
        BY <3>2, SeedAssumption DEF AllEndpoints
      <4>2. \A x \in SeedEndpoints : x # e => endpoints'[x] = endpoints[x]
        BY <3>2 DEF AllEndpoints
      <4>3. \A x \in SeedEndpoints : EndpointFresh(x)'
        <5> TAKE x \in SeedEndpoints
        <5>1. CASE x = e
          BY <3>3, <5>1 DEF EndpointFresh
        <5>2. CASE x # e
          <6>1. endpoints'[x] = endpoints[x]
            BY <4>2, <5>2
          <6> QED BY <2>1, <6>1 DEF EndpointsFresh, EndpointFresh
        <5> QED BY <5>1, <5>2
      <4>4. \A x \in SeedEndpoints : endpoints'[x].status = "deployed"
        BY <1>1, <2>1, <3>2, <4>2 DEF EndpointsFresh, EndpointFresh, Making
      <4>5. \A x \in SeedEndpoints \ seed'.todo : Whole(x)'
        BY <1>1, <1>6, <2>1, <4>2 DEF EndpointsFresh, EndpointFresh, Whole
      <4>6. \E x \in seed'.todo : /\ seed'.on = {x} /\ seed'.found \in {<< 1 >>, <<1, 2>>}
                                  /\ Len(endpoints'[x].made) >= Len(seed'.found)
        <5>1. e \in seed'.todo /\ seed'.on = {e} /\ seed'.found \in {<< 1 >>, <<1, 2>>}
          BY <1>1, <1>6, <2>7
        <5>2. Len(endpoints'[e].made) >= Len(seed'.found)
          BY <2>3, <2>7, <3>2
        <5> QED BY <5>1, <5>2
      <4>7. \A x \in MemberEndpoints : endpoints'[x] = Absent
        BY <2>1, <4>1 DEF EndpointsFresh, EndpointFresh
      <4> QED BY <1>6, <4>3, <4>4, <4>5, <4>6, <4>7, ArtifactsFresh
    <3>6. ReleasesFresh'
      BY <1>1, <1>6, <2>1, <3>1 DEF ReleasesFresh, Pointing, Finished
    <3> QED BY <2>2, <3>5, <3>6
  <2> QED BY <2>9, <2>10
<1>13. live' # 0 => LiveKept'
  <2> SUFFICES ASSUME live # 0 PROVE \A x \in SeedEndpoints : Serves(x) => Serves(x)'
    BY <1>1, SeedFacts DEF LiveKept
  <2> TAKE x \in SeedEndpoints
  <2> SUFFICES ASSUME Serves(x) PROVE Serves(x)'
    OBVIOUS
  <2>1. CASE endpoints'[x] = endpoints[x]
    BY <1>1, <2>1 DEF Serves
  <2>2. CASE endpoints'[x] # endpoints[x]
    <3>1. /\ x = e /\ v = Len(made) + 1 /\ endpoints'[e].active = endpoints[e].active
          /\ endpoints'[e].made[v] = artifact /\ Len(endpoints'[e].made) = v
          /\ DOMAIN endpoints'[e].made = DOMAIN made \cup {v}
          /\ \A w \in DOMAIN made : endpoints'[e].made[w] = made[w]
      BY <1>9, <2>2 DEF AllEndpoints
    <3>2. DOMAIN made = 1 .. Len(made) /\ Len(made) \in Nat
      BY <1>8 DEF IsSeq
    <3>3. v \notin DOMAIN made /\ endpoints'[e].made[v].of = 0
      BY <1>7, <3>1, <3>2
    <3>4. Len(made) >= 2
      BY <3>1 DEF Serves
    <3> DEFINE now == endpoints'[e].made
    <3>5. /\ Len(now) >= 2 /\ now[1].of = 1 /\ now[2].of = 2
          /\ Len(releases) = Len(releases')
      <4>1. made[1].of = 1 /\ made[2].of = 2
        BY <3>1 DEF Serves
      <4> QED BY <1>1, <3>1, <3>2, <3>4, <4>1, SMTT(30)
    <3>6. \A w \in DOMAIN now : w > 2 => now[w].of \in {0} \cup 3 .. Len(releases')
      BY <3>1, <3>3, <3>5 DEF Serves
    <3>7. ASSUME NEW w \in DOMAIN now, NEW y \in DOMAIN now, now[w].of = now[y].of, now[w].of # 0
          PROVE  w = y
      <4>1. w \in DOMAIN made /\ y \in DOMAIN made
        BY <3>1, <3>3, <3>7
      <4>2. now[w] = made[w] /\ now[y] = made[y]
        BY <3>1, <4>1
      <4> HIDE DEF now
      <4> QED BY <3>1, <3>7, <4>1, <4>2 DEF Serves
    <3>8. \A w \in DOMAIN now : now[w].of = live' =>
            w = endpoints'[e].active /\ now[w].status = "active"
      BY <1>1, <3>1, <3>3 DEF Serves
    <3> QED BY <3>1, <3>5, <3>6, <3>7, <3>8 DEF Serves
  <2> QED BY <2>1, <2>2
<1> QED BY <1>10, <1>11, <1>12, <1>13

LEMMA SeqMapped ==
  ASSUME NEW s, IsSeq(s), NEW t, DOMAIN t = DOMAIN s, t = [v \in DOMAIN t |-> t[v]]
  PROVE  IsSeq(t) /\ Len(t) = Len(s)
<1>1. DOMAIN t = 1 .. Len(s) /\ Len(s) \in Nat
  BY DEF IsSeq
<1>2. t = [v \in 1 .. Len(s) |-> t[v]]
  BY <1>1
<1>3. Len(t) = Len(s)
  BY <1>1, <1>2
<1> QED BY <1>1, <1>3 DEF IsSeq

(* The second artifact is activated where nothing is live, and where        *)
(* something is, nothing is done.                                           *)
LEMMA ActivateArtifactKept ==
  ASSUME SeedInv, NEW e \in SeedEndpoints, ActivateArtifact(e)
  PROVE  SeedInv'
<1> DEFINE made == endpoints[e].made
           activated == [v \in DOMAIN made |->
                           IF v = seed.found[2] THEN [made[v] EXCEPT !.status = "active"]
                           ELSE IF v = seed.found[1] \/ made[v].status = "active"
                             THEN [made[v] EXCEPT !.status = "rolled_back"]
                             ELSE made[v]]
           then == IF seed.todo = {e} THEN "collect" ELSE "artifacts"
<1>1. /\ seed.at = "artifacts" /\ seed.on = {e} /\ Len(seed.found) = 2
      /\ functions' = functions /\ releases' = releases /\ live' = live /\ moves' = moves
      /\ seeded' = seeded /\ SeedShaped(seed)
  BY DEF ActivateArtifact, SeedInv
<1>2. /\ seed.preserved # 0 => endpoints' = endpoints
      /\ seed.preserved = 0 => endpoints' = [endpoints EXCEPT ![e] =
                [status |-> "deployed", active |-> seed.found[2],
                 made |-> [v \in DOMAIN @.made |->
                            IF v = seed.found[2] THEN [@.made[v] EXCEPT !.status = "active"]
                            ELSE IF v = seed.found[1] \/ @.made[v].status = "active"
                              THEN [@.made[v] EXCEPT !.status = "rolled_back"]
                              ELSE @.made[v]]]]
      /\ seed' = [seed EXCEPT !.at = then, !.todo = @ \ {e}, !.on = {}, !.found = <<>>]
  BY DEF ActivateArtifact
<1>3. /\ seed.todo = {e} => then = "collect"
      /\ seed.todo # {e} => then = "artifacts"
  OBVIOUS
<1> HIDE DEF then
<1>4. /\ SeedShaped(seed') /\ seed'.overtaken = seed.overtaken /\ seed'.at = then
      /\ seed'.preserved = seed.preserved /\ seed'.on = {} /\ seed'.todo = seed.todo \ {e}
      /\ seed'.found = <<>> /\ seed'.snapshots = seed.snapshots
  BY <1>1, <1>2 DEF SeedShaped
<1> SUFFICES ASSUME ~seed.overtaken
             PROVE  /\ SeedTyped' /\ SeedPlaced'
                    /\ moves = 0 => DemosFresh' /\ EndpointsFresh' /\ ReleasesFresh'
                    /\ live' # 0 => LiveKept'
  BY <1>1, <1>4, SeedStep
<1>5. e \in AllEndpoints /\ SeedTyped /\ IsEndpoint(endpoints[e]) /\ IsSeq(made)
  BY SeedFacts DEF AllEndpoints, SeedTyped, IsEndpoint
<1>6. seed.preserved = live
  BY <1>1, SeedFacts DEF SeedPlaced, Running
<1>7. SeedPlaced'
  BY <1>1, <1>3, <1>4, SeedFacts DEF SeedPlaced, Running, Making, Releasing
<1>8. ASSUME moves = 0
      PROVE  /\ DemosFresh /\ EndpointsFresh /\ ReleasesFresh
             /\ DemosFresh' /\ \A f \in Demos : DemoMade(f) => DemoMade(f)'
             /\ seed.found = <<1, 2>> /\ Len(made) = 2
  <2>1. DemosFresh /\ EndpointsFresh /\ ReleasesFresh
    BY <1>8, SeedFacts
  <2>2. seed'.at \in Making /\ seed.at \in Making /\ seed'.at # "done" /\ seed.at # "done"
    BY <1>1, <1>3, <1>4 DEF Making, Releasing
  <2>3. PICK x \in seed.todo : /\ seed.on = {x} /\ seed.found \in {<< 1 >>, <<1, 2>>}
                               /\ Len(endpoints[x].made) >= Len(seed.found)
    <3>1. seed.found # <<>>
      <4>1. Len(<<>>) = 0
        OBVIOUS
      <4> QED BY <1>1, <4>1
    <3> QED BY <1>1, <2>1, <3>1 DEF EndpointsFresh
  <2>4. x = e
    BY <1>1, <2>3
  <2>5. seed.found = <<1, 2>>
    <3>1. Len(<< 1 >>) = 1
      OBVIOUS
    <3>2. seed.found # << 1 >>
      BY <1>1, <3>1
    <3> QED BY <2>3, <3>2
  <2>6. Len(made) = 2
    BY <1>1, <1>5, <2>1, <2>3, <2>4 DEF EndpointsFresh, EndpointFresh, IsSeq
  <2> QED BY <1>1, <1>4, <2>1, <2>2, <2>5, <2>6, DemosLeft
<1>9. ASSUME live # 0
      PROVE  SeedTyped' /\ LiveKept' /\ endpoints' = endpoints
  <2>1. endpoints' = endpoints
    BY <1>2, <1>6, <1>9
  <2>2. LiveKept
    BY <1>9, SeedFacts
  <2>3. SeedTyped'
    BY <1>1, <1>5, <2>1 DEF SeedTyped
  <2>4. LiveKept'
    BY <1>1, <2>1, <2>2 DEF LiveKept, Serves
  <2> QED BY <2>1, <2>3, <2>4
<1>10. ASSUME live = 0
       PROVE  /\ moves = 0 /\ IsEndpoint(endpoints'[e])
              /\ endpoints'[e].status = "deployed" /\ Whole(e)' /\ EndpointFresh(e)'
              /\ \A x \in AllEndpoints : x # e => endpoints'[x] = endpoints[x]
              /\ endpoints' = [x \in AllEndpoints |-> endpoints'[x]]
  <2>1. moves = 0 /\ seed.preserved = 0
    BY <1>6, <1>10, SeedFacts
  <2>2. seed.found[1] = 1 /\ seed.found[2] = 2 /\ Len(made) = 2 /\ EndpointFresh(e)
        /\ DOMAIN made = 1 .. 2
    BY <1>5, <1>8, <2>1 DEF EndpointsFresh, IsSeq
  <2>3. endpoints = [x \in AllEndpoints |-> endpoints[x]]
    BY <1>5 DEF SeedTyped
  <2>4. /\ endpoints'[e] = [status |-> "deployed", active |-> seed.found[2], made |-> activated]
        /\ \A x \in AllEndpoints : x # e => endpoints'[x] = endpoints[x]
        /\ endpoints' = [x \in AllEndpoints |-> endpoints'[x]]
    BY <1>2, <1>5, <2>1, <2>3
  <2>5. /\ DOMAIN activated = DOMAIN made /\ activated = [v \in DOMAIN activated |-> activated[v]]
        /\ \A v \in DOMAIN made : activated[v] = [made[v] EXCEPT !.status = IF v = 2 THEN "active"
                                                                          ELSE "rolled_back"]
    <3>1. \A v \in DOMAIN made : v = 1 \/ v = 2
      BY <2>2
    <3> QED BY <2>2, <3>1
  <2> HIDE DEF activated
  <2>6. IsSeq(activated) /\ Len(activated) = 2
    <3>1. IsSeq(activated)
      BY <1>5, <2>5, SeqMapped
    <3>2. Len(activated) = Len(made)
      BY <1>5, <2>5, SeqMapped
    <3> QED BY <2>2, <3>1, <3>2
  <2>7. \A v \in DOMAIN activated :
          /\ IsArtifact(activated[v]) /\ activated[v].content = made[v].content
          /\ activated[v].of = made[v].of
          /\ activated[v].status = IF v = 2 THEN "active" ELSE "rolled_back"
    <3> TAKE v \in DOMAIN activated
    <3>1. IsArtifact(made[v])
      BY <1>5, <2>5 DEF IsEndpoint
    <3> DEFINE z == IF v = 2 THEN "active" ELSE "rolled_back"
    <3>2. activated[v] = [status |-> z, content |-> made[v].content, of |-> made[v].of]
      BY <2>5, <3>1 DEF IsArtifact
    <3> HIDE DEF made, z
    <3>3. /\ IsArtifact(activated[v]) /\ activated[v].content = made[v].content
          /\ activated[v].of = made[v].of /\ activated[v].status = z
      BY <3>2 DEF IsArtifact
    <3> QED BY <3>3 DEF z
  <2>8. /\ endpoints'[e].status = "deployed" /\ endpoints'[e].active = 2
        /\ endpoints'[e].made = activated
        /\ endpoints'[e] = [status |-> endpoints'[e].status, active |-> endpoints'[e].active,
                            made |-> endpoints'[e].made]
    BY <2>2, <2>4
  <2>9. IsEndpoint(endpoints'[e])
    BY <2>6, <2>7, <2>8 DEF IsEndpoint
  <2>10. Whole(e)'
    BY <2>6, <2>8 DEF Whole
  <2>11. EndpointFresh(e)'
    <3>1. \A v \in DOMAIN made : made[v].content = Fixed(v) /\ made[v].of \in {0, v}
      BY <2>2 DEF EndpointFresh
    <3>2. \A v \in DOMAIN activated :
            /\ activated[v].content = Fixed(v) /\ activated[v].of \in {0, v}
            /\ activated[v].status = IF v = 2 THEN "active" ELSE "rolled_back"
      BY <2>5, <2>7, <3>1
    <3>3. Len(endpoints'[e].made) = 2 /\ endpoints'[e].active = 2
      BY <2>6, <2>8
    <3>4. \A v \in DOMAIN endpoints'[e].made :
            /\ endpoints'[e].made[v].content = Fixed(v) /\ endpoints'[e].made[v].of \in {0, v}
            /\ endpoints'[e].made[v].status = IF v = 2 THEN "active" ELSE "rolled_back"
      BY <2>8, <3>2
    <3> QED BY <3>3, <3>4 DEF EndpointFresh
  <2> QED BY <2>1, <2>4, <2>8, <2>9, <2>10, <2>11
<1>11. SeedTyped'
  <2>1. CASE live # 0
    BY <1>9, <2>1
  <2>2. CASE live = 0
    BY <1>1, <1>5, <1>10, <2>2 DEF SeedTyped
  <2> QED BY <2>1, <2>2
<1>12. ASSUME moves = 0 PROVE EndpointsFresh' /\ ReleasesFresh'
  <2>1. /\ EndpointFresh(e)' /\ Whole(e)'
        /\ \A x \in AllEndpoints : x # e => endpoints'[x] = endpoints[x]
        /\ endpoints'[e].status = "deployed"
        /\ live # 0 => endpoints' = endpoints
    <3>1. CASE live # 0
      <4>1. live = 2
        BY <1>8, <1>12, <3>1 DEF ReleasesFresh
      <4>2. Whole(e) /\ EndpointFresh(e) /\ endpoints[e].status = "deployed"
        BY <1>8, <1>12, <4>1 DEF ReleasesFresh, EndpointsFresh
      <4> QED BY <1>9, <3>1, <4>2, ZenonT(30) DEF Whole, EndpointFresh
    <3>2. CASE live = 0
      BY <1>10, <3>2
    <3> QED BY <3>1, <3>2
  <2>2. \A x \in SeedEndpoints : EndpointFresh(x)' /\ endpoints'[x].status = "deployed"
    <3> TAKE x \in SeedEndpoints
    <3>1. CASE x = e
      BY <2>1, <3>1
    <3>2. CASE x # e
      <4>1. endpoints'[x] = endpoints[x]
        BY <2>1, <3>2 DEF AllEndpoints
      <4>2. EndpointFresh(x) /\ endpoints[x].status = "deployed"
        BY <1>1, <1>8, <1>12 DEF EndpointsFresh, Making
      <4> QED BY <4>1, <4>2 DEF EndpointFresh
    <3> QED BY <3>1, <3>2
  <2>3. \A x \in MemberEndpoints : endpoints'[x] = Absent
    BY <1>8, <1>12, <2>1, SeedAssumption DEF EndpointsFresh, AllEndpoints
  <2>4. \A x \in SeedEndpoints \ seed'.todo : Whole(x)'
    <3> TAKE x \in SeedEndpoints \ seed'.todo
    <3>1. CASE x = e
      BY <2>1, <3>1
    <3>2. CASE x # e
      <4>1. endpoints'[x] = endpoints[x]
        BY <2>1, <3>2 DEF AllEndpoints
      <4>2. Whole(x)
        BY <1>1, <1>4, <1>8, <1>12, <3>2 DEF EndpointsFresh
      <4> QED BY <4>1, <4>2 DEF Whole
    <3> QED BY <3>1, <3>2
  <2>5. EndpointsFresh'
    <3>1. CASE then = "artifacts"
      BY <1>4, <2>2, <2>3, <2>4, <3>1, ArtifactsFresh
    <3>2. CASE then = "collect"
      <4>1. \A x \in SeedEndpoints : Whole(x)'
        BY <1>3, <1>4, <2>4, <3>2
      <4> QED BY <1>4, <2>2, <2>3, <3>2, <4>1 DEF EndpointsFresh
    <3> QED BY <1>3, <3>1, <3>2
  <2>6. ReleasesFresh'
    <3>1. /\ seed'.at \notin {"move", "release"} /\ seed'.at \notin Pointing
          /\ seed'.at \notin Finished
      BY <1>3, <1>4 DEF Pointing, Finished
    <3>2. CASE live # 0
      <4>1. endpoints' = endpoints
        BY <2>1, <3>2
      <4> QED BY <1>1, <1>8, <1>12, <3>1, <4>1 DEF ReleasesFresh, OfRelease, Whole
    <3>3. CASE live = 0
      BY <1>1, <1>8, <1>12, <3>1, <3>3 DEF ReleasesFresh
    <3> QED BY <3>2, <3>3
  <2> QED BY <2>5, <2>6
<1> QED BY <1>1, <1>7, <1>8, <1>9, <1>11, <1>12

-----------------------------------------------------------------------------
(* The releases: nothing is done to what is live, if there is anything.     *)
LEMMA LiveLeft ==
  ASSUME live # 0 => LiveKept, releases' = releases, endpoints' = endpoints, live' = live
  PROVE  live' # 0 => LiveKept'
BY DEF LiveKept, Serves

(* The endpoints with the Deployments they have.                            *)
LEMMA CollectKept ==
  ASSUME SeedInv, Collect
  PROVE  SeedInv'
<1> DEFINE counts == [e \in {x \in AllEndpoints : endpoints[x].status # "absent"} |->
                        Len(endpoints[e].made)]
<1>1. /\ seed.at = "collect" /\ functions' = functions /\ endpoints' = endpoints
      /\ releases' = releases /\ live' = live /\ moves' = moves /\ seeded' = seeded
      /\ SeedShaped(seed)
      /\ seed' = [seed EXCEPT !.at = "release", !.todo = {1, 2}, !.counts = counts]
  BY DEF Collect, SeedInv, demoRows
<1>2. /\ DOMAIN counts = {x \in AllEndpoints : endpoints[x].status # "absent"}
      /\ \A e \in DOMAIN counts : counts[e] = Len(endpoints[e].made)
  OBVIOUS
<1> HIDE DEF counts
<1>3. /\ SeedShaped(seed') /\ seed'.overtaken = seed.overtaken /\ seed'.at = "release"
      /\ seed'.preserved = seed.preserved /\ seed'.todo = {1, 2}
      /\ seed'.snapshots = seed.snapshots /\ seed'.counts = counts
  BY <1>1 DEF SeedShaped
<1> SUFFICES ASSUME ~seed.overtaken
             PROVE  /\ SeedTyped' /\ SeedPlaced'
                    /\ moves = 0 => DemosFresh' /\ EndpointsFresh' /\ ReleasesFresh'
                    /\ live' # 0 => LiveKept'
  BY <1>1, <1>3, SeedStep
<1>4. SeedTyped'
  BY <1>1, SeedFacts DEF SeedTyped
<1>5. SeedPlaced'
  BY <1>1, <1>3, SeedFacts DEF SeedPlaced, Running, Making, Releasing
<1>6. ASSUME moves = 0 PROVE DemosFresh' /\ EndpointsFresh' /\ ReleasesFresh'
  <2>1. DemosFresh /\ EndpointsFresh /\ ReleasesFresh
    BY <1>6, SeedFacts
  <2>2. DemosFresh'
    BY <1>1, <1>3, <2>1, DemosLeft DEF Making, Releasing
  <2>3. \A e \in SeedEndpoints : Whole(e) /\ endpoints[e].status = "deployed"
    BY <1>1, <2>1 DEF EndpointsFresh, Making, Releasing
  <2>4. DOMAIN counts = SeedEndpoints /\ \A e \in SeedEndpoints : counts[e] = 2
    <3>1. \A e \in MemberEndpoints : endpoints[e].status = "absent"
      BY <2>1 DEF EndpointsFresh, Absent
    <3>2. DOMAIN counts = SeedEndpoints
      BY <1>2, <2>3, <3>1 DEF AllEndpoints
    <3> QED BY <1>2, <2>3, <3>2 DEF Whole
  <2>5. EndpointsFresh'
    BY <1>1, <1>3, <2>1, <2>3, <2>4 DEF EndpointsFresh, EndpointFresh, Whole
  <2>6. ReleasesFresh'
    <3>1. seed'.at \notin Pointing /\ seed'.at \notin Finished /\ seed'.at # "move"
          /\ seed'.todo # {2}
      BY <1>3 DEF Pointing, Finished
    <3> QED BY <1>1, <2>1, <3>1 DEF ReleasesFresh, OfRelease, Whole, DemoMade
  <2> QED BY <2>2, <2>5, <2>6
<1>7. live' # 0 => LiveKept'
  BY <1>1, SeedFacts, LiveLeft
<1> QED BY <1>4, <1>5, <1>6, <1>7

LEMMA NowIs ==
  ASSUME seed.todo \in {{1, 2}, {2}}
  PROVE  /\ Now \in {1, 2} /\ (Now = 1 <=> seed.todo = {1, 2}) /\ (Now = 2 <=> seed.todo = {2})
         /\ Now = 1 => seed.todo \ {Now} = {2}
<1>1. CASE seed.todo = {1, 2}
  <2>1. Now = 1
    BY <1>1 DEF Now, Min
  <2> QED BY <1>1, <2>1
<1>2. CASE seed.todo = {2}
  <2>1. Now = 2
    BY <1>2 DEF Now, Min
  <2> QED BY <1>2, <2>1
<1> QED BY <1>1, <1>2

(* A release is made unless there is one with its number, and the seed      *)
(* fails where an endpoint lacks an artifact of that number.                *)
LEMMA SeedReleaseKept ==
  ASSUME SeedInv, SeedRelease
  PROVE  SeedInv'
<1> DEFINE row == [status |-> IF Now = 2 /\ seed.preserved = 0 THEN "active" ELSE "rolled_back"]
           complete == \A e \in DOMAIN seed.counts : seed.counts[e] >= Now
<1>1. /\ seed.at = "release" /\ functions' = functions /\ endpoints' = endpoints
      /\ live' = live /\ moves' = moves /\ seeded' = seeded /\ SeedShaped(seed)
      /\ releases' = IF complete /\ Now > Len(releases) THEN Append(releases, row) ELSE releases
      /\ seed' = IF complete THEN [seed EXCEPT !.at = "move"] ELSE Stopped
  BY DEF SeedRelease, SeedInv
<1> HIDE DEF complete
<1>2. CASE ~complete
  <2>1. releases' = releases /\ seed' = Stopped
    BY <1>1, <1>2
  <2> QED BY <1>1, <2>1, StoppedFacts, SeedRestarts
<1>3. CASE complete
  <2>1. /\ SeedShaped(seed') /\ seed'.overtaken = seed.overtaken /\ seed'.at = "move"
        /\ seed'.preserved = seed.preserved /\ seed'.todo = seed.todo
        /\ seed'.snapshots = seed.snapshots /\ seed'.counts = seed.counts
    BY <1>1, <1>3 DEF SeedShaped
  <2> SUFFICES ASSUME ~seed.overtaken
               PROVE  /\ SeedTyped' /\ SeedPlaced'
                      /\ moves = 0 => DemosFresh' /\ EndpointsFresh' /\ ReleasesFresh'
                      /\ live' # 0 => LiveKept'
    BY <1>1, <2>1, SeedStep
  <2>2. seed.todo \in {{1, 2}, {2}} /\ seed.preserved = live
    BY <1>1, SeedFacts DEF SeedPlaced, Running
  <2>3. Now \in {1, 2} /\ (Now = 1 <=> seed.todo = {1, 2}) /\ (Now = 2 <=> seed.todo = {2})
    BY <2>2, NowIs
  <2>4. SeedTyped /\ IsSeq(releases) /\ Len(releases) \in Nat /\ DOMAIN releases = 1 .. Len(releases)
    BY SeedFacts DEF SeedTyped, IsSeq
  <2>5. row = [status |-> row.status] /\ row.status \in {"active", "rolled_back"}
    OBVIOUS
  <2>6. live = 0 => row.status = IF Now = 2 THEN "active" ELSE "rolled_back"
    BY <2>2
  <2> HIDE DEF row
  <2>7. live # 0 => releases' = releases
    <3>1. live # 0 => Len(releases) >= 2
      BY SeedFacts DEF LiveKept
    <3>2. live # 0 => ~(Now > Len(releases))
      BY <2>3, <2>4, <3>1
    <3> QED BY <1>1, <3>2
  <2>8. \/ releases' = releases /\ Now <= Len(releases)
        \/ /\ Now > Len(releases) /\ live = 0 /\ Len(releases') = Len(releases) + 1
           /\ IsSeq(releases') /\ DOMAIN releases' = DOMAIN releases \cup {Len(releases) + 1}
           /\ releases'[Len(releases) + 1] = row
           /\ \A n \in DOMAIN releases : releases'[n] = releases[n]
    <3>1. CASE Now <= Len(releases)
      <4>1. ~(Now > Len(releases))
        BY <2>3, <2>4, <3>1
      <4>2. releases' = releases
        BY <1>1, <4>1
      <4> QED BY <3>1, <4>2
    <3>2. CASE Now > Len(releases)
      <4>1. releases' = Append(releases, row)
        BY <1>1, <1>3, <3>2
      <4>2. live = 0
        <5>1. live # 0 => Len(releases) >= 2
          BY SeedFacts DEF LiveKept
        <5> QED BY <2>3, <2>4, <3>2, <5>1
      <4>3. IsSeq(releases') /\ Len(releases') = Len(releases) + 1
        BY <2>4, <4>1, SeqAppended
      <4>4. DOMAIN releases' = DOMAIN releases \cup {Len(releases) + 1}
        BY <2>4, <4>1, SeqAppended
      <4>5. releases'[Len(releases) + 1] = row
        BY <2>4, <4>1, SeqAppended
      <4>6. \A n \in DOMAIN releases : releases'[n] = releases[n]
        BY <2>4, <4>1, SeqAppended
      <4> QED BY <3>2, <4>2, <4>3, <4>4, <4>5, <4>6
    <3> QED BY <2>3, <2>4, <3>1, <3>2
  <2>9. SeedTyped'
    <3>1. row \in [status : {"active", "rolled_back"}]
      BY <2>5
    <3>2. IsSeq(releases') /\ live' \in 0 .. Len(releases')
      <4>1. live \in 0 .. Len(releases) /\ live' = live
        BY <1>1, <2>4 DEF SeedTyped
      <4>2. CASE releases' = releases
        BY <2>4, <4>1, <4>2
      <4>3. CASE IsSeq(releases') /\ Len(releases') = Len(releases) + 1
        <5>1. live' \in 0 .. (Len(releases) + 1)
          BY <2>4, <4>1
        <5> QED BY <4>3, <5>1
      <4> QED BY <2>8, <4>2, <4>3
    <3>3. \A n \in DOMAIN releases' : releases'[n] \in [status : {"active", "rolled_back"}]
      BY <2>4, <2>8, <3>1 DEF SeedTyped
    <3> QED BY <1>1, <2>4, <3>2, <3>3 DEF SeedTyped
  <2>10. SeedPlaced'
    BY <1>1, <2>1, <2>2, SeedFacts DEF SeedPlaced, Running, Making, Releasing
  <2>11. ASSUME moves = 0 PROVE DemosFresh' /\ EndpointsFresh' /\ ReleasesFresh'
    <3>1. DemosFresh /\ EndpointsFresh /\ ReleasesFresh
      BY <2>11, SeedFacts
    <3>2. DemosFresh'
      BY <1>1, <2>1, <3>1, DemosLeft DEF Making, Releasing
    <3>3. EndpointsFresh'
      BY <1>1, <2>1, <3>1
         DEF EndpointsFresh, EndpointFresh, Whole, Saving, Making, Releasing, Pointing, Finished
    <3>4. Len(releases) <= 2 /\ (Now = 2 => Len(releases) >= 1 /\ OfRelease(1))
      BY <1>1, <2>3, <3>1 DEF ReleasesFresh
    <3>5. Len(releases') <= 2 /\ Len(releases') >= Now
      BY <2>3, <2>4, <2>8, <3>4
    <3>6. \A n \in DOMAIN releases' : releases'[n].status = IF n = 2 THEN "active" ELSE "rolled_back"
      <4>1. \A n \in DOMAIN releases : releases[n].status = IF n = 2 THEN "active" ELSE "rolled_back"
        BY <3>1 DEF ReleasesFresh
      <4>2. CASE releases' = releases
        BY <4>1, <4>2
      <4>3. CASE releases' # releases
        <5>1. Len(releases) + 1 = Now
          BY <2>3, <2>4, <2>8, <3>4, <4>3
        <5>2. row.status = IF Now = 2 THEN "active" ELSE "rolled_back"
          BY <2>6, <2>8, <4>3
        <5> QED BY <2>8, <4>1, <4>3, <5>1, <5>2
      <4> QED BY <4>2, <4>3
    <3>7. /\ seed'.at \notin Pointing /\ seed'.at \notin Finished
          /\ seed'.todo = {2} => Len(releases') >= 2 /\ OfRelease(1)'
          /\ Len(releases') >= 1
      <4>1. seed'.at \notin Pointing /\ seed'.at \notin Finished
        BY <2>1 DEF Pointing, Finished
      <4>2. Len(releases') \in Nat
        BY <2>4, <2>8
      <4> QED BY <1>1, <2>1, <2>3, <3>4, <3>5, <4>1, <4>2 DEF OfRelease
    <3>8. live' = 2 => /\ Len(releases') = 2 /\ OfRelease(1)' /\ OfRelease(2)'
                       /\ \A e \in SeedEndpoints : Whole(e)' /\ endpoints'[e].status = "deployed"
                       /\ \A f \in Demos : DemoMade(f)'
      BY <1>1, <2>7, <3>1 DEF ReleasesFresh, OfRelease, Whole, DemoMade
    <3>9. ReleasesFresh'
      BY <1>1, <2>1, <3>1, <3>5, <3>6, <3>7, <3>8 DEF ReleasesFresh
    <3> QED BY <3>2, <3>3, <3>9
  <2>12. live' # 0 => LiveKept'
    BY <1>1, <2>7, SeedFacts, LiveLeft DEF LiveKept, Serves
  <2> QED BY <2>9, <2>10, <2>11, <2>12
<1> QED BY <1>2, <1>3

LEMMA EndpointMoved ==
  ASSUME NEW x, IsEndpoint(x), NEW n, NEW y, y = [x EXCEPT !.made[n].of = n]
  PROVE  /\ IsEndpoint(y) /\ y.status = x.status /\ y.active = x.active
         /\ Len(y.made) = Len(x.made) /\ DOMAIN y.made = DOMAIN x.made
         /\ \A v \in DOMAIN x.made :
              /\ y.made[v].content = x.made[v].content /\ y.made[v].status = x.made[v].status
              /\ y.made[v].of = IF v = n THEN n ELSE x.made[v].of
<1> DEFINE moved == [x.made EXCEPT ![n] = [x.made[n] EXCEPT !.of = n]]
<1>1. y = [status |-> x.status, active |-> x.active, made |-> moved]
  BY DEF IsEndpoint
<1>2. x.made = [v \in DOMAIN x.made |-> x.made[v]] /\ IsSeq(x.made)
  BY DEF IsEndpoint, IsSeq
<1>3. /\ DOMAIN moved = DOMAIN x.made /\ moved = [v \in DOMAIN moved |-> moved[v]]
      /\ \A v \in DOMAIN x.made :
           moved[v] = IF v = n THEN [x.made[v] EXCEPT !.of = n] ELSE x.made[v]
  BY <1>2
<1> HIDE DEF moved
<1>4. IsSeq(moved)
  BY <1>2, <1>3, SeqMapped
<1>5. Len(moved) = Len(x.made)
  BY <1>2, <1>3, SeqMapped
<1>6. \A v \in DOMAIN x.made :
        /\ IsArtifact(moved[v]) /\ moved[v].content = x.made[v].content
        /\ moved[v].status = x.made[v].status
        /\ moved[v].of = IF v = n THEN n ELSE x.made[v].of
  <2> TAKE v \in DOMAIN x.made
  <2>1. IsArtifact(x.made[v])
    BY DEF IsEndpoint
  <2>2. CASE v = n
    <3>1. moved[v] = [status |-> x.made[v].status, content |-> x.made[v].content, of |-> n]
      BY <1>3, <2>1, <2>2 DEF IsArtifact
    <3> QED BY <2>2, <3>1 DEF IsArtifact
  <2>3. CASE v # n
    BY <1>3, <2>1, <2>3
  <2> QED BY <2>2, <2>3
<1>7. y.status = x.status /\ y.active = x.active /\ y.made = moved
  BY <1>1
<1>8. IsEndpoint(y)
  BY <1>1, <1>3, <1>4, <1>6, <1>7 DEF IsEndpoint
<1> QED BY <1>3, <1>5, <1>6, <1>7, <1>8

(* The artifacts of that number are pointed to the release.                 *)
LEMMA MoveArtifactsKept ==
  ASSUME SeedInv, MoveArtifacts
  PROVE  SeedInv'
<1>1. /\ seed.at = "move" /\ functions' = functions /\ releases' = releases
      /\ live' = live /\ moves' = moves /\ seeded' = seeded /\ SeedShaped(seed)
      /\ endpoints' = [e \in AllEndpoints |->
           IF e \in DOMAIN seed.counts THEN [endpoints[e] EXCEPT !.made[Now].of = Now]
           ELSE endpoints[e]]
      /\ seed' = [seed EXCEPT !.at = IF Now = 2 THEN "pointer" ELSE "release", !.todo = @ \ {Now}]
  BY DEF MoveArtifacts, SeedInv
<1> DEFINE then == IF Now = 2 THEN "pointer" ELSE "release"
<1>2. (Now = 2 => then = "pointer") /\ (Now # 2 => then = "release")
  OBVIOUS
<1>3. /\ SeedShaped(seed') /\ seed'.overtaken = seed.overtaken /\ seed'.at = then
      /\ seed'.preserved = seed.preserved /\ seed'.todo = seed.todo \ {Now}
      /\ seed'.snapshots = seed.snapshots /\ seed'.counts = seed.counts
  BY <1>1 DEF SeedShaped
<1> HIDE DEF then
<1> SUFFICES ASSUME ~seed.overtaken
             PROVE  /\ SeedTyped' /\ SeedPlaced'
                    /\ moves = 0 => DemosFresh' /\ EndpointsFresh' /\ ReleasesFresh'
                    /\ live' # 0 => LiveKept'
  BY <1>1, <1>3, SeedStep
<1>4. seed.todo \in {{1, 2}, {2}} /\ seed.preserved = live
  BY <1>1, SeedFacts DEF SeedPlaced, Running
<1>5. /\ Now \in {1, 2} /\ (Now = 1 <=> seed.todo = {1, 2}) /\ (Now = 2 <=> seed.todo = {2})
      /\ Now = 1 => seed.todo \ {Now} = {2}
  BY <1>4, NowIs
<1>6. SeedTyped /\ endpoints' = [e \in AllEndpoints |-> endpoints'[e]]
  BY <1>1, SeedFacts
<1>7. \A e \in AllEndpoints :
        /\ IsEndpoint(endpoints[e]) /\ IsEndpoint(endpoints'[e])
        /\ endpoints'[e].status = endpoints[e].status /\ endpoints'[e].active = endpoints[e].active
        /\ Len(endpoints'[e].made) = Len(endpoints[e].made)
        /\ DOMAIN endpoints'[e].made = DOMAIN endpoints[e].made
        /\ \A v \in DOMAIN endpoints[e].made :
             /\ endpoints'[e].made[v].content = endpoints[e].made[v].content
             /\ endpoints'[e].made[v].status = endpoints[e].made[v].status
             /\ endpoints'[e].made[v].of = IF v = Now /\ e \in DOMAIN seed.counts THEN Now
                                           ELSE endpoints[e].made[v].of
  <2> TAKE e \in AllEndpoints
  <2>1. IsEndpoint(endpoints[e])
    BY <1>6 DEF SeedTyped
  <2>2. CASE e \in DOMAIN seed.counts
    <3>1. endpoints'[e] = [endpoints[e] EXCEPT !.made[Now].of = Now]
      BY <1>1, <2>2
    <3>2. \E x, y, n : x = endpoints[e] /\ y = endpoints'[e] /\ n = Now
      OBVIOUS
    <3>3. PICK x, y, n : x = endpoints[e] /\ y = endpoints'[e] /\ n = Now
      BY <3>2
    <3>4. IsEndpoint(x) /\ y = [x EXCEPT !.made[n].of = n]
      BY <2>1, <3>1, <3>3
    <3>5. IsEndpoint(y)
      BY <3>4, EndpointMoved
    <3>6. y.status = x.status /\ y.active = x.active
      BY <3>4, EndpointMoved
    <3>7. Len(y.made) = Len(x.made) /\ DOMAIN y.made = DOMAIN x.made
      BY <3>4, EndpointMoved
    <3>8. \A v \in DOMAIN x.made :
            /\ y.made[v].content = x.made[v].content /\ y.made[v].status = x.made[v].status
            /\ y.made[v].of = IF v = n THEN n ELSE x.made[v].of
      BY <3>4, EndpointMoved
    <3> QED BY <2>1, <2>2, <3>3, <3>5, <3>7, <3>8, <3>6
  <2>3. CASE e \notin DOMAIN seed.counts
    <3>1. endpoints'[e] = endpoints[e]
      BY <1>1, <2>3
    <3> QED BY <2>1, <2>3, <3>1
  <2> QED BY <2>2, <2>3
<1>8. SeedTyped'
  BY <1>1, <1>6, <1>7 DEF SeedTyped
<1>9. SeedPlaced'
  BY <1>1, <1>2, <1>3, <1>4, <1>5, SeedFacts
     DEF SeedPlaced, Running, Making, Releasing, Pointing
<1>10. ASSUME moves = 0 PROVE DemosFresh' /\ EndpointsFresh' /\ ReleasesFresh'
  <2>1. DemosFresh /\ EndpointsFresh /\ ReleasesFresh
    BY <1>10, SeedFacts
  <2>2. DemosFresh'
    <3>1. seed'.at \in Making /\ seed.at \in Making /\ seed'.at # "done" /\ seed.at # "done"
      BY <1>1, <1>2, <1>3 DEF Making, Releasing, Pointing
    <3> QED BY <1>1, <1>3, <2>1, <3>1, DemosLeft
  <2>3. /\ DOMAIN seed.counts = SeedEndpoints /\ \A e \in SeedEndpoints : seed.counts[e] = 2
        /\ \A e \in SeedEndpoints : EndpointFresh(e) /\ Whole(e) /\ endpoints[e].status = "deployed"
    BY <1>1, <2>1 DEF EndpointsFresh, Making, Releasing
  <2>4. \A e \in SeedEndpoints : /\ EndpointFresh(e)' /\ Whole(e)'
                                 /\ endpoints'[e].status = "deployed"
    <3> TAKE e \in SeedEndpoints
    <3>1. e \in AllEndpoints
      BY DEF AllEndpoints
    <3>2. EndpointFresh(e) /\ Whole(e) /\ endpoints[e].status = "deployed"
      BY <2>3
    <3>3. Whole(e)' /\ endpoints'[e].status = "deployed"
      BY <1>7, <3>1, <3>2 DEF Whole
    <3>4. EndpointFresh(e)'
      BY <1>7, <3>1, <3>2 DEF EndpointFresh
    <3> QED BY <3>3, <3>4
  <2>5. \A e \in MemberEndpoints : endpoints'[e] = Absent
    BY <1>1, <2>1, <2>3, SeedAssumption DEF EndpointsFresh, AllEndpoints
  <2>6. EndpointsFresh'
    <3>1. seed'.at # "artifacts" /\ seed'.at # "endpoints"
      BY <1>2, <1>3
    <3> QED BY <1>3, <2>3, <2>4, <2>5, <3>1 DEF EndpointsFresh
  <2>7. \A e \in SeedEndpoints : endpoints'[e].made[Now].of = Now
    <3> TAKE e \in SeedEndpoints
    <3>1. e \in AllEndpoints /\ IsEndpoint(endpoints[e]) /\ Len(endpoints[e].made) = 2
      BY <1>7, <2>3 DEF AllEndpoints, Whole
    <3>2. Now \in DOMAIN endpoints[e].made
      BY <1>5, <3>1 DEF IsEndpoint, IsSeq
    <3> QED BY <1>7, <2>3, <3>1, <3>2
  <2>8. (Now = 1 => OfRelease(1)') /\ (Now = 2 => OfRelease(2)')
    BY <2>7 DEF OfRelease
  <2>9. \A m \in {1, 2} : OfRelease(m) => OfRelease(m)'
    <3> SUFFICES ASSUME NEW m \in {1, 2}, OfRelease(m), NEW e \in SeedEndpoints
                 PROVE  endpoints'[e].made[m].of = m
      BY DEF OfRelease
    <3>1. e \in AllEndpoints /\ IsEndpoint(endpoints[e]) /\ Len(endpoints[e].made) = 2
          /\ endpoints[e].made[m].of = m
      BY <1>7, <2>3 DEF AllEndpoints, Whole, OfRelease
    <3>2. m \in DOMAIN endpoints[e].made
      BY <3>1 DEF IsEndpoint, IsSeq
    <3> QED BY <1>7, <3>1, <3>2
  <2>10. live = 2 => /\ Len(releases) = 2 /\ OfRelease(1)' /\ OfRelease(2)'
                     /\ \A f \in Demos : DemoMade(f)'
    BY <1>1, <2>1, <2>9 DEF ReleasesFresh, DemoMade
  <2>11. ReleasesFresh'
    <3>1. CASE Now = 1
      <4>1. /\ seed'.at = "release" /\ Len(releases) >= 1 /\ OfRelease(1)'
        <5>1. seed.todo # {2}
          BY <1>5, <3>1
        <5> QED BY <1>1, <1>2, <1>3, <2>1, <2>8, <3>1, <5>1 DEF ReleasesFresh
      <4>2. seed'.at \notin Pointing /\ seed'.at \notin Finished
        BY <4>1 DEF Pointing, Finished
      <4> QED BY <1>1, <2>1, <2>4, <2>10, <4>1, <4>2 DEF ReleasesFresh
    <3>2. CASE Now = 2
      <4>1. seed'.at = "pointer" /\ seed.todo = {2}
        BY <1>2, <1>3, <1>5, <3>2
      <4>2. Len(releases) = 2 /\ OfRelease(1)' /\ OfRelease(2)'
        <5>1. Len(releases) >= 2 /\ Len(releases) <= 2
          BY <1>1, <2>1, <4>1 DEF ReleasesFresh
        <5>2. OfRelease(1)
          BY <1>1, <2>1, <4>1 DEF ReleasesFresh
        <5>3. Len(releases) \in Nat
          BY <1>6 DEF SeedTyped, IsSeq
        <5>4. Len(releases) = 2
          <6>1. \A k \in Nat : k >= 2 /\ k <= 2 => k = 2
            OBVIOUS
          <6> QED BY <5>1, <5>3, <6>1, Zenon
        <5>5. OfRelease(1)'
          BY <2>9, <5>2
        <5>6. OfRelease(2)'
          BY <2>8, <3>2
        <5> QED BY <5>4, <5>5, <5>6
      <4>3. seed'.at \notin Finished
        BY <4>1 DEF Finished
      <4> QED BY <1>1, <2>1, <2>4, <2>10, <4>1, <4>2, <4>3 DEF ReleasesFresh
    <3> QED BY <1>5, <3>1, <3>2
  <2> QED BY <2>2, <2>6, <2>11
<1>11. live' # 0 => LiveKept'
  <2> SUFFICES ASSUME live # 0 PROVE \A e \in SeedEndpoints : Serves(e) => Serves(e)'
    BY <1>1, SeedFacts DEF LiveKept
  <2> SUFFICES ASSUME NEW e \in SeedEndpoints, Serves(e) PROVE Serves(e)'
    OBVIOUS
  <2> DEFINE made == endpoints[e].made
             now == endpoints'[e].made
  <2>1. e \in AllEndpoints /\ IsEndpoint(endpoints[e])
    BY <1>7 DEF AllEndpoints
  <2>2. /\ endpoints'[e].active = endpoints[e].active /\ Len(now) = Len(made)
        /\ DOMAIN now = DOMAIN made
        /\ \A v \in DOMAIN made : now[v].status = made[v].status
    BY <1>7, <2>1
  <2>3. Len(made) >= 2 /\ made[1].of = 1 /\ made[2].of = 2
    BY DEF Serves
  <2>4. \A v \in DOMAIN made : now[v].of = made[v].of
    <3> TAKE v \in DOMAIN made
    <3>1. now[v].of = IF v = Now /\ e \in DOMAIN seed.counts THEN Now ELSE made[v].of
      BY <1>7, <2>1
    <3> QED BY <1>5, <2>3, <3>1
  <2>5. 1 \in DOMAIN made /\ 2 \in DOMAIN made
    BY <2>1, <2>3 DEF IsEndpoint, IsSeq
  <2> HIDE DEF made, now
  <2>6. now[1].of = 1 /\ now[2].of = 2 /\ Len(now) >= 2
    BY <2>2, <2>3, <2>4, <2>5
  <2>7. \A v \in DOMAIN now : v > 2 => now[v].of \in {0} \cup 3 .. Len(releases')
    BY <1>1, <2>2, <2>4 DEF Serves, made
  <2>8. ASSUME NEW v \in DOMAIN now, NEW w \in DOMAIN now, now[v].of = now[w].of, now[v].of # 0
        PROVE  v = w
    <3>1. v \in DOMAIN made /\ w \in DOMAIN made /\ made[v].of = made[w].of /\ made[v].of # 0
      BY <2>2, <2>4, <2>8
    <3> QED BY <3>1 DEF Serves, made
  <2>9. \A v \in DOMAIN now : now[v].of = live' =>
          v = endpoints'[e].active /\ now[v].status = "active"
    BY <1>1, <2>2, <2>4 DEF Serves, made
  <2> QED BY <2>6, <2>7, <2>8, <2>9 DEF Serves, now
<1> QED BY <1>8, <1>9, <1>10, <1>11

(* The second release becomes live where there was none.                    *)
LEMMA SeedPointerKept ==
  ASSUME SeedInv, SeedPointer
  PROVE  SeedInv'
<1>1. /\ seed.at = "pointer" /\ functions' = functions /\ endpoints' = endpoints
      /\ releases' = releases /\ moves' = moves /\ seeded' = seeded /\ SeedShaped(seed)
      /\ live' = IF seed.preserved = 0 THEN 2 ELSE live
      /\ seed' = [seed EXCEPT !.at = "settle"]
  BY DEF SeedPointer, SeedInv
<1>2. /\ SeedShaped(seed') /\ seed'.overtaken = seed.overtaken /\ seed'.at = "settle"
      /\ seed'.preserved = seed.preserved /\ seed'.snapshots = seed.snapshots
  BY <1>1 DEF SeedShaped
<1> SUFFICES ASSUME ~seed.overtaken
             PROVE  /\ SeedTyped' /\ SeedPlaced'
                    /\ moves = 0 => DemosFresh' /\ EndpointsFresh' /\ ReleasesFresh'
                    /\ live' # 0 => LiveKept'
  BY <1>1, <1>2, SeedStep
<1>3. seed.preserved = live
  BY <1>1, SeedFacts DEF SeedPlaced, Running
<1>4. live' # 0 /\ live' = IF live = 0 THEN 2 ELSE live
  BY <1>1, <1>3
<1>5. ASSUME moves = 0
      PROVE  /\ DemosFresh /\ EndpointsFresh /\ ReleasesFresh
             /\ live' = 2 /\ Len(releases) = 2 /\ OfRelease(1) /\ OfRelease(2)
             /\ \A e \in SeedEndpoints : /\ EndpointFresh(e) /\ Whole(e)
                                         /\ endpoints[e].status = "deployed"
             /\ \A f \in Demos : DemoMade(f)
  <2>1. DemosFresh /\ EndpointsFresh /\ ReleasesFresh
    BY <1>5, SeedFacts
  <2>2. seed.at \in Pointing /\ seed.at \in Releasing /\ seed.at \in Making
    BY <1>1 DEF Making, Releasing, Pointing
  <2>3. live' = 2
    BY <1>4, <2>1 DEF ReleasesFresh
  <2>4. Len(releases) = 2 /\ OfRelease(1) /\ OfRelease(2)
    BY <2>1, <2>2 DEF ReleasesFresh
  <2>5. \A e \in SeedEndpoints : EndpointFresh(e) /\ Whole(e) /\ endpoints[e].status = "deployed"
    BY <2>1, <2>2 DEF EndpointsFresh
  <2>6. \A f \in Demos : DemoMade(f)
    BY <2>1, <2>2 DEF DemosFresh, DemoDone
  <2> QED BY <2>1, <2>3, <2>4, <2>5, <2>6
<1>6. SeedTyped'
  <2>1. live' \in 0 .. Len(releases)
    <3>1. CASE live = 0
      <4>1. moves = 0
        BY <3>1, SeedFacts
      <4> QED BY <1>5, <4>1
    <3>2. CASE live # 0
      BY <1>4, <3>2, SeedFacts DEF SeedTyped
    <3> QED BY <3>1, <3>2
  <2> QED BY <1>1, <2>1, SeedFacts DEF SeedTyped
<1>7. SeedPlaced'
  BY <1>1, <1>2, <1>3, <1>4, SeedFacts
     DEF SeedPlaced, Running, Authoritative, Making, Releasing, Pointing, Finished
<1>8. ASSUME moves = 0 PROVE DemosFresh' /\ EndpointsFresh' /\ ReleasesFresh'
  <2>1. DemosFresh'
    <3>1. seed'.at \in Making /\ seed.at \in Making
      BY <1>1, <1>2 DEF Making, Releasing, Pointing, Finished
    <3> QED BY <1>1, <1>2, <1>5, <1>8, <3>1, DemosLeft
  <2>2. EndpointsFresh'
    <3>1. \A e \in MemberEndpoints : endpoints'[e] = Absent
      BY <1>1, <1>5, <1>8 DEF EndpointsFresh
    <3>2. \A e \in SeedEndpoints : /\ EndpointFresh(e)' /\ Whole(e)'
                                   /\ endpoints'[e].status = "deployed"
      BY <1>1, <1>5, <1>8 DEF EndpointFresh, Whole
    <3> QED BY <1>2, <3>1, <3>2 DEF EndpointsFresh
  <2>3. ReleasesFresh'
    BY <1>1, <1>2, <1>5, <1>8 DEF ReleasesFresh, OfRelease, Whole, DemoMade
  <2> QED BY <2>1, <2>2, <2>3
<1>9. LiveKept'
  <2>1. CASE live # 0
    BY <1>1, <1>4, <2>1, SeedFacts, LiveLeft
  <2>2. CASE live = 0
    <3>1. moves = 0 /\ live' = 2 /\ SeedTyped
      BY <1>5, <2>2, SeedFacts
    <3>2. \A n \in DOMAIN releases' : releases'[n].status = "active" <=> n = live'
      BY <1>1, <1>5, <3>1 DEF ReleasesFresh
    <3>3. ASSUME NEW e \in SeedEndpoints PROVE Serves(e)'
      <4> DEFINE made == endpoints[e].made
      <4>1. /\ EndpointFresh(e) /\ Len(made) = 2 /\ endpoints[e].active = 2
            /\ made[1].of = 1 /\ made[2].of = 2
        BY <1>5, <3>1, <3>3 DEF OfRelease, Whole
      <4>2. DOMAIN made = {1, 2}
        <5>1. DOMAIN made = 1 .. Len(made)
          BY <3>1 DEF SeedTyped, IsEndpoint, IsSeq, AllEndpoints
        <5> QED BY <4>1, <5>1
      <4>3. made[2].status = "active"
        BY <4>1, <4>2 DEF EndpointFresh
      <4>4. /\ \A v \in DOMAIN made : ~(v > 2)
            /\ \A v, w \in DOMAIN made : made[v].of = made[w].of => v = w
            /\ \A v \in DOMAIN made : made[v].of = 2 => v = 2
        BY <4>1, <4>2
      <4> QED BY <1>1, <3>1, <4>1, <4>3, <4>4 DEF Serves
    <3> QED BY <1>1, <1>5, <3>1, <3>2, <3>3 DEF LiveKept
  <2> QED BY <2>1, <2>2
<1> QED BY <1>6, <1>7, <1>8, <1>9

(* Every other release is rolled back.                                      *)
LEMMA SettleReleasesKept ==
  ASSUME SeedInv, SettleReleases
  PROVE  SeedInv'
<1>1. /\ seed.at = "settle" /\ functions' = functions /\ endpoints' = endpoints
      /\ live' = live /\ moves' = moves /\ seeded' = TRUE
      /\ releases' = [n \in DOMAIN releases |->
                        IF releases[n].status = "active" /\ n # Authoritative
                          THEN [status |-> "rolled_back"] ELSE releases[n]]
      /\ seed' = [NoSeed EXCEPT !.at = "done", !.preserved = seed.preserved,
                                !.overtaken = seed.overtaken]
  BY DEF SettleReleases
<1>2. /\ SeedShaped(seed') /\ seed'.overtaken = seed.overtaken /\ seed'.at = "done"
  BY <1>1 DEF SeedShaped, NoSeed
<1> SUFFICES ASSUME ~seed.overtaken
             PROVE  /\ SeedTyped' /\ SeedPlaced'
                    /\ moves = 0 => DemosFresh' /\ EndpointsFresh' /\ ReleasesFresh'
                    /\ live' # 0 => LiveKept'
  BY <1>1, <1>2, SeedStep
<1>3. live # 0 /\ live = Authoritative /\ LiveKept /\ SeedTyped
  BY <1>1, SeedFacts DEF SeedPlaced, Running
<1>4. releases' = releases
  <2>1. \A n \in DOMAIN releases : ~(releases[n].status = "active" /\ n # Authoritative)
    BY <1>3 DEF LiveKept
  <2>2. releases = [n \in DOMAIN releases |-> releases[n]]
    BY <1>3 DEF SeedTyped, IsSeq
  <2> QED BY <1>1, <2>1, <2>2
<1>5. SeedTyped'
  BY <1>1, <1>3, <1>4 DEF SeedTyped
<1>6. SeedPlaced'
  BY <1>1, <1>2, <1>3 DEF SeedPlaced, Running, Making, Releasing, Pointing, Finished
<1>7. ASSUME moves = 0 PROVE DemosFresh' /\ EndpointsFresh' /\ ReleasesFresh'
  <2>1. DemosFresh /\ EndpointsFresh /\ ReleasesFresh
    BY <1>7, SeedFacts
  <2>2. DemosFresh'
    <3>1. seed'.at \in Making /\ seed.at \in Making
      BY <1>1, <1>2 DEF Making, Releasing, Pointing, Finished
    <3> QED BY <1>1, <1>2, <2>1, <3>1, DemosLeft
  <2>3. EndpointsFresh'
    BY <1>1, <1>2, <2>1
       DEF EndpointsFresh, EndpointFresh, Whole, Saving, Making, Releasing, Pointing, Finished
  <2>4. ReleasesFresh'
    BY <1>1, <1>2, <1>4, <2>1 DEF ReleasesFresh, OfRelease, Whole, DemoMade, Pointing, Finished
  <2> QED BY <2>2, <2>3, <2>4
<1>8. live' # 0 => LiveKept'
  BY <1>1, <1>3, <1>4, LiveLeft
<1> QED BY <1>5, <1>6, <1>7, <1>8

-----------------------------------------------------------------------------
(* What members do.                                                         *)
LEMMA MoveStep ==
  ASSUME SeedInv, Move, SeedShaped(seed'), seed'.overtaken \in BOOLEAN,
         ~seed'.overtaken => SeedTyped' /\ SeedPlaced' /\ LiveKept'
  PROVE  SeedInv'
<1>1. moves' \in Nat /\ moves' # 0
  BY DEF Move, SeedInv
<1> QED BY <1>1 DEF SeedInv

LEMMA MoveFacts ==
  ASSUME SeedInv, Move, ~seed.overtaken
  PROVE  SeedTyped /\ SeedPlaced /\ LiveKept /\ live # 0 /\ seeded' = seeded /\ seeded
BY SeedFacts DEF Move, SeedPlaced

LEMMA DemoMoves ==
  ASSUME SeedInv, Move, NEW f \in Demos, NEW row,
         functions' = [functions EXCEPT ![f] = row], IsDemo(functions[f]) => IsDemo(row),
         endpoints' = endpoints, releases' = releases, live' = live, seed' = seed
  PROVE  SeedInv'
<1> SUFFICES ASSUME ~seed.overtaken PROVE SeedTyped' /\ SeedPlaced' /\ LiveKept'
  BY MoveStep DEF SeedInv
<1>1. SeedTyped /\ SeedPlaced /\ LiveKept /\ seeded' = seeded
  BY MoveFacts
<1>2. OnDemos(functions') /\ \A g \in Demos : IsDemo(functions'[g])
  BY <1>1 DEF SeedTyped, OnDemos
<1>3. SeedTyped'
  BY <1>1, <1>2 DEF SeedTyped
<1>4. SeedPlaced'
  BY <1>1, MoveFacts DEF SeedPlaced, Running, Authoritative
<1>5. LiveKept'
  BY <1>1 DEF LiveKept, Serves
<1> QED BY <1>3, <1>4, <1>5

LEMMA SaveDemoKept ==
  ASSUME SeedInv, NEW f \in Demos, SaveDemo(f)
  PROVE  SeedInv'
<1> DEFINE number == functions[f].version + 1
           made == Put(functions[f].made, number, 3)
           row == [functions[f] EXCEPT !.version = number, !.made = made]
<1>1. /\ Move /\ endpoints' = endpoints /\ releases' = releases /\ live' = live /\ seed' = seed
      /\ functions' = [functions EXCEPT ![f].version = number, ![f].made = made]
  BY DEF SaveDemo
<1> HIDE DEF number, made
<1>2. functions' = [functions EXCEPT ![f] = row]
  BY <1>1
<1>3. row = [functions[f] EXCEPT !.version = number, !.made = made]
  OBVIOUS
<1> HIDE DEF row
<1>4. ASSUME IsDemo(functions[f]) PROVE IsDemo(row)
  <2>1. functions[f] = [version |-> functions[f].version, made |-> functions[f].made,
                        binding |-> functions[f].binding, bound |-> functions[f].bound]
    BY <1>4 DEF IsDemo
  <2>2. row = [version |-> number, made |-> made,
               binding |-> functions[f].binding, bound |-> functions[f].bound]
    BY <1>3, <2>1
  <2> QED BY <2>2 DEF IsDemo
<1> QED BY <1>1, <1>2, <1>4, DemoMoves

LEMMA UnbindKept ==
  ASSUME SeedInv, NEW f \in Demos, Unbind(f)
  PROVE  SeedInv'
<1> DEFINE row == [functions[f] EXCEPT !.bound = FALSE]
<1>1. /\ Move /\ endpoints' = endpoints /\ releases' = releases /\ live' = live /\ seed' = seed
      /\ functions' = [functions EXCEPT ![f] = row]
  BY DEF Unbind
<1>2. row = [functions[f] EXCEPT !.bound = FALSE]
  OBVIOUS
<1> HIDE DEF row
<1>3. ASSUME IsDemo(functions[f]) PROVE IsDemo(row)
  <2>1. functions[f] = [version |-> functions[f].version, made |-> functions[f].made,
                        binding |-> functions[f].binding, bound |-> functions[f].bound]
    BY <1>3 DEF IsDemo
  <2>2. row = [version |-> functions[f].version, made |-> functions[f].made,
               binding |-> functions[f].binding, bound |-> FALSE]
    BY <1>2, <2>1
  <2> QED BY <2>2 DEF IsDemo
<1> QED BY <1>1, <1>3, DemoMoves

(* A member adds or disables an endpoint.                                   *)
LEMMA StatusMoves ==
  ASSUME SeedInv, Move, NEW e \in AllEndpoints, NEW s,
         endpoints' = [endpoints EXCEPT ![e].status = s],
         functions' = functions, releases' = releases, live' = live, seed' = seed
  PROVE  SeedInv'
<1> SUFFICES ASSUME ~seed.overtaken PROVE SeedTyped' /\ SeedPlaced' /\ LiveKept'
  BY MoveStep DEF SeedInv
<1>1. SeedTyped /\ SeedPlaced /\ LiveKept /\ seeded' = seeded
  BY MoveFacts
<1>2. /\ endpoints = [x \in AllEndpoints |-> endpoints[x]] /\ IsEndpoint(endpoints[e])
  BY <1>1 DEF SeedTyped
<1>3. /\ endpoints'[e] = [endpoints[e] EXCEPT !.status = s]
      /\ \A x \in AllEndpoints : x # e => endpoints'[x] = endpoints[x]
      /\ endpoints' = [x \in AllEndpoints |-> endpoints'[x]]
  BY <1>2
<1>4. /\ endpoints'[e].made = endpoints[e].made /\ endpoints'[e].active = endpoints[e].active
      /\ IsEndpoint(endpoints'[e])
  BY <1>2, <1>3 DEF IsEndpoint
<1>5. SeedTyped'
  BY <1>1, <1>3, <1>4 DEF SeedTyped
<1>6. SeedPlaced'
  BY <1>1, MoveFacts DEF SeedPlaced, Running, Authoritative
<1>7. \A x \in SeedEndpoints : Serves(x) => Serves(x)'
  BY <1>3, <1>4 DEF Serves, AllEndpoints
<1>8. LiveKept'
  BY <1>1, <1>7 DEF LiveKept
<1> QED BY <1>5, <1>6, <1>8

LEMMA AddEndpointKept ==
  ASSUME SeedInv, NEW e \in MemberEndpoints, AddEndpoint(e)
  PROVE  SeedInv'
<1>1. e \in AllEndpoints
  BY DEF AllEndpoints
<1> QED BY <1>1, StatusMoves DEF AddEndpoint

LEMMA DisableEndpointKept ==
  ASSUME SeedInv, NEW e \in SeedEndpoints, DisableEndpoint(e)
  PROVE  SeedInv'
<1>1. e \in AllEndpoints
  BY DEF AllEndpoints
<1> QED BY <1>1, StatusMoves DEF DisableEndpoint

(* A deployment that is activated while a seed runs overtakes it.           *)
LEMMA ActivatedStep ==
  ASSUME SeedInv, Move, NEW n, Activated(n), functions' = functions,
         ~seed.overtaken => n # 0 /\ SeedTyped' /\ LiveKept'
  PROVE  SeedInv'
<1>1. /\ seed' = [seed EXCEPT !.overtaken = seed.overtaken \/ Running] /\ live' = n
      /\ SeedShaped(seed) /\ seed.overtaken \in BOOLEAN
  BY DEF Activated, SeedInv
<1>2. /\ SeedShaped(seed') /\ seed'.at = seed.at
      /\ seed'.overtaken = (seed.overtaken \/ Running)
  BY <1>1 DEF SeedShaped
<1>3. ASSUME ~seed'.overtaken PROVE SeedPlaced'
  <2>1. ~seed.overtaken /\ ~Running
    BY <1>2, <1>3
  <2>2. SeedPlaced /\ seeded' = seeded /\ ~Running'
    BY <1>2, <2>1, MoveFacts DEF Running
  <2>3. seed'.at \in {"idle", "done"}
    BY <1>2, <2>1 DEF Running
  <2>4. seeded' /\ live' # 0
    BY <1>1, <2>1, MoveFacts
  <2>5. seed'.at \notin {"endpoints", "artifacts", "release", "move"}
    BY <2>3
  <2>6. seed'.at \in {"idle", "endpoints"} \cup Saving \cup Making
    BY <2>3 DEF Making, Releasing, Pointing, Finished
  <2> QED BY <2>2, <2>4, <2>5, <2>6 DEF SeedPlaced
<1>4. ~seed'.overtaken => ~seed.overtaken
  BY <1>2
<1>5. seed'.overtaken \in BOOLEAN
  BY <1>1, <1>2
<1> QED BY <1>2, <1>3, <1>4, <1>5, MoveStep

(* A member's deployment adds an artifact to every endpoint that is not     *)
(* disabled, and a release that becomes live.                               *)
LEMMA DeployKept ==
  ASSUME SeedInv, Deploy
  PROVE  SeedInv'
<1> DEFINE n == Len(releases) + 1
           Built(e) == [status |-> "active", of |-> n,
                        content |-> [of |-> 0, uses |-> [f \in Demos |->
                          [version |-> functions[f].version, binding |-> functions[f].binding]]]]
           Retired(e) == [v \in DOMAIN endpoints[e].made |->
                            IF v = endpoints[e].active
                              THEN [endpoints[e].made[v] EXCEPT !.status = "rolled_back"]
                              ELSE endpoints[e].made[v]]
           rest == [m \in DOMAIN releases |-> [status |-> "rolled_back"]]
           row == [status |-> "active"]
<1>1. /\ Move /\ functions' = functions /\ Activated(n)
      /\ releases' = Append(rest, row)
      /\ endpoints' = [e \in AllEndpoints |->
           IF endpoints[e].status \in {"absent", "disabled"} THEN endpoints[e]
           ELSE [status |-> "deployed", active |-> Len(endpoints[e].made) + 1,
                 made |-> Append(Retired(e), Built(e))]]
  BY DEF Deploy
<1>2. live' = n
  BY <1>1 DEF Activated
<1> SUFFICES ASSUME ~seed.overtaken PROVE n # 0 /\ SeedTyped' /\ LiveKept'
  BY <1>1, ActivatedStep
<1>3. SeedTyped /\ LiveKept
  BY <1>1, MoveFacts
<1>4. /\ IsSeq(releases) /\ Len(releases) \in Nat /\ Len(releases) >= 2
      /\ DOMAIN releases = 1 .. Len(releases)
  BY <1>3 DEF SeedTyped, LiveKept, IsSeq
<1>5. n \in Nat /\ n >= 3
  BY <1>4
<1>6. /\ DOMAIN rest = DOMAIN releases /\ rest = [m \in DOMAIN rest |-> rest[m]]
      /\ \A m \in DOMAIN rest : rest[m] = [status |-> "rolled_back"]
  OBVIOUS
<1>7. row \in [status : {"active", "rolled_back"}] /\ row.status = "active"
      /\ \A m \in DOMAIN rest : /\ rest[m] \in [status : {"active", "rolled_back"}]
                                /\ rest[m].status = "rolled_back"
  BY <1>6
<1> HIDE DEF rest, row
<1>8. IsSeq(rest) /\ Len(rest) = Len(releases)
  <2>1. IsSeq(rest)
    BY <1>4, <1>6, SeqMapped
  <2>2. Len(rest) = Len(releases)
    BY <1>4, <1>6, SeqMapped
  <2> QED BY <2>1, <2>2
<1>9. /\ IsSeq(releases') /\ Len(releases') = n /\ DOMAIN releases' = DOMAIN releases \cup {n}
      /\ releases'[n] = row /\ \A m \in DOMAIN releases : releases'[m] = rest[m]
  <2>1. IsSeq(releases') /\ Len(releases') = Len(rest) + 1
    BY <1>1, <1>8, SeqAppended
  <2>2. DOMAIN releases' = DOMAIN rest \cup {Len(rest) + 1}
    BY <1>1, <1>8, SeqAppended
  <2>3. releases'[Len(rest) + 1] = row
    BY <1>1, <1>8, SeqAppended
  <2>4. \A m \in DOMAIN rest : releases'[m] = rest[m]
    BY <1>1, <1>8, SeqAppended
  <2> QED BY <1>6, <1>8, <2>1, <2>2, <2>3, <2>4
<1>10. /\ \A m \in DOMAIN releases' : releases'[m] \in [status : {"active", "rolled_back"}]
       /\ \A m \in DOMAIN releases' : releases'[m].status = "active" <=> m = n
  <2> SUFFICES ASSUME NEW m \in DOMAIN releases'
               PROVE  /\ releases'[m] \in [status : {"active", "rolled_back"}]
                      /\ releases'[m].status = "active" <=> m = n
    OBVIOUS
  <2>1. CASE m = n
    BY <1>7, <1>9, <2>1
  <2>2. CASE m # n
    <3>1. m \in DOMAIN rest /\ releases'[m] = rest[m]
      BY <1>6, <1>9, <2>2
    <3> QED BY <1>7, <2>2, <3>1
  <2> QED BY <2>1, <2>2
<1> HIDE DEF n
<1>11. ASSUME NEW e \in AllEndpoints
       PROVE  /\ IsEndpoint(endpoints[e]) /\ IsEndpoint(endpoints'[e])
              /\ LET made == endpoints[e].made
                     now == endpoints'[e].made
                     number == Len(made) + 1 IN
                 \/ endpoints'[e] = endpoints[e]
                 \/ /\ endpoints'[e].active = number /\ Len(now) = number
                    /\ DOMAIN now = DOMAIN made \cup {number}
                    /\ \A v \in DOMAIN made : now[v].of = made[v].of
                    /\ now[number].of = n /\ now[number].status = "active"
  <2>1. IsEndpoint(endpoints[e])
    BY <1>3, <1>11 DEF SeedTyped
  <2>2. CASE endpoints[e].status \in {"absent", "disabled"}
    <3>1. endpoints'[e] = endpoints[e]
      BY <1>1, <1>11, <2>2
    <3> QED BY <2>1, <3>1
  <2>3. CASE endpoints[e].status \notin {"absent", "disabled"}
    <3> DEFINE made == endpoints[e].made
    <3>1. endpoints'[e] = [status |-> "deployed", active |-> Len(made) + 1,
                           made |-> Append(Retired(e), Built(e))]
      BY <1>1, <1>11, <2>3
    <3>2. /\ DOMAIN Retired(e) = DOMAIN made
          /\ Retired(e) = [v \in DOMAIN Retired(e) |-> Retired(e)[v]]
          /\ \A v \in DOMAIN made :
               Retired(e)[v] = IF v = endpoints[e].active
                                 THEN [made[v] EXCEPT !.status = "rolled_back"] ELSE made[v]
      OBVIOUS
    <3>3. IsArtifact(Built(e)) /\ Built(e).of = n /\ Built(e).status = "active"
      BY DEF IsArtifact
    <3> HIDE DEF Retired, Built
    <3>4. \E r, b, t : r = Retired(e) /\ b = Built(e) /\ t = Append(r, b)
      OBVIOUS
    <3>5. PICK r, b, t : r = Retired(e) /\ b = Built(e) /\ t = Append(r, b)
      BY <3>4
    <3>6. IsSeq(made) /\ \A v \in DOMAIN made : IsArtifact(made[v])
      BY <2>1 DEF IsEndpoint
    <3>7. /\ endpoints'[e] = [status |-> "deployed", active |-> Len(made) + 1, made |-> t]
          /\ DOMAIN r = DOMAIN made /\ r = [v \in DOMAIN r |-> r[v]]
      BY <3>1, <3>2, <3>5
    <3> HIDE DEF made
    <3>8. \A v \in DOMAIN made : IsArtifact(r[v]) /\ r[v].of = made[v].of
      <4> TAKE v \in DOMAIN made
      <4>1. IsArtifact(made[v]) /\ r[v] = IF v = endpoints[e].active
                                            THEN [made[v] EXCEPT !.status = "rolled_back"]
                                            ELSE made[v]
        BY <3>2, <3>5, <3>6
      <4>2. CASE v = endpoints[e].active
        <5>1. r[v] = [status |-> "rolled_back", content |-> made[v].content, of |-> made[v].of]
          BY <4>1, <4>2 DEF IsArtifact
        <5> QED BY <5>1 DEF IsArtifact
      <4>3. CASE v # endpoints[e].active
        BY <4>1, <4>3
      <4> QED BY <4>2, <4>3
    <3>9. IsSeq(r)
      BY <3>6, <3>7, SeqMapped
    <3>10. Len(r) = Len(made)
      BY <3>6, <3>7, SeqMapped
    <3>11. IsSeq(t) /\ Len(t) = Len(r) + 1
      BY <3>5, <3>9, SeqAppended
    <3>12. DOMAIN t = DOMAIN r \cup {Len(r) + 1}
      BY <3>5, <3>9, SeqAppended
    <3>13. t[Len(r) + 1] = b
      BY <3>5, <3>9, SeqAppended
    <3>14. \A v \in DOMAIN r : t[v] = r[v]
      BY <3>5, <3>9, SeqAppended
    <3>15. /\ endpoints'[e].status = "deployed" /\ endpoints'[e].active = Len(made) + 1
           /\ endpoints'[e].made = t
           /\ endpoints'[e] = [status |-> endpoints'[e].status, active |-> endpoints'[e].active,
                               made |-> endpoints'[e].made]
      BY <3>7
    <3>16. \A v \in DOMAIN t : IsArtifact(t[v])
      <4> TAKE v \in DOMAIN t
      <4>1. CASE v \in DOMAIN r
        BY <3>7, <3>8, <3>14, <4>1
      <4>2. CASE v = Len(r) + 1
        BY <3>3, <3>5, <3>13, <4>2
      <4> QED BY <3>12, <4>1, <4>2
    <3>17. IsEndpoint(endpoints'[e])
      BY <3>11, <3>15, <3>16 DEF IsEndpoint
    <3>18. \A v \in DOMAIN made : t[v].of = made[v].of
      BY <3>7, <3>8, <3>14
    <3>19. /\ Len(t) = Len(made) + 1 /\ DOMAIN t = DOMAIN made \cup {Len(made) + 1}
           /\ t[Len(made) + 1].of = n /\ t[Len(made) + 1].status = "active"
      BY <3>3, <3>5, <3>7, <3>10, <3>11, <3>12, <3>13
    <3> QED BY <2>1, <3>15, <3>17, <3>18, <3>19 DEF made
  <2> QED BY <2>2, <2>3
<1>12. endpoints' = [e \in AllEndpoints |-> endpoints'[e]]
  BY <1>1
<1>13. SeedTyped'
  <2>1. live' \in 0 .. Len(releases')
    BY <1>2, <1>5, <1>9
  <2> QED BY <1>1, <1>3, <1>9, <1>10, <1>11, <1>12, <2>1 DEF SeedTyped
<1>14. ASSUME NEW e \in SeedEndpoints PROVE Serves(e)'
  <2> DEFINE made == endpoints[e].made
             now == endpoints'[e].made
             number == Len(made) + 1
  <2>1. /\ Len(made) \in Nat /\ DOMAIN made = 1 .. Len(made)
        /\ \/ endpoints'[e] = endpoints[e]
           \/ /\ endpoints'[e].active = number /\ Len(now) = number
              /\ DOMAIN now = DOMAIN made \cup {number}
              /\ \A v \in DOMAIN made : now[v].of = made[v].of
              /\ now[number].of = n /\ now[number].status = "active"
    <3>1. e \in AllEndpoints
      BY <1>14 DEF AllEndpoints
    <3> QED BY <1>11, <3>1 DEF IsEndpoint, IsSeq
  <2>2. Serves(e)
    BY <1>3, <1>14 DEF LiveKept
  <2>3. /\ Len(made) >= 2 /\ made[1].of = 1 /\ made[2].of = 2
        /\ \A v \in DOMAIN made : v > 2 => made[v].of \in {0} \cup 3 .. Len(releases)
        /\ \A v, w \in DOMAIN made : made[v].of = made[w].of /\ made[v].of # 0 => v = w
    BY <2>2 DEF Serves
  <2> HIDE DEF made, now, number
  <2>4. \A v \in DOMAIN made : made[v].of # n
    <3> TAKE v \in DOMAIN made
    <3>1. CASE v = 1 \/ v = 2
      BY <1>5, <2>3, <3>1
    <3>2. CASE v > 2
      BY <1>4, <1>5, <2>3, <3>2 DEF n
    <3> QED BY <2>1, <3>1, <3>2
  <2>5. n = Len(releases')
    BY <1>9
  <2>6. \A k \in {0} \cup 3 .. Len(releases) : k \in {0} \cup 3 .. Len(releases')
    BY <1>4, <2>5 DEF n
  <2>7. CASE endpoints'[e] = endpoints[e]
    <3>1. now = made
      BY <2>7 DEF made, now
    <3>2. \A v \in DOMAIN now : v > 2 => now[v].of \in {0} \cup 3 .. Len(releases')
      BY <2>3, <2>6, <3>1
    <3>3. \A v \in DOMAIN now : now[v].of # live'
      BY <1>2, <2>4, <3>1
    <3> QED BY <2>3, <3>1, <3>2, <3>3 DEF Serves, now
  <2>8. CASE endpoints'[e] # endpoints[e]
    <3>1. /\ endpoints'[e].active = number /\ Len(now) = number
          /\ DOMAIN now = DOMAIN made \cup {number}
          /\ \A v \in DOMAIN made : now[v].of = made[v].of
          /\ now[number].of = n /\ now[number].status = "active"
      BY <2>1, <2>8
    <3>2. number \notin DOMAIN made /\ number > 2
      BY <2>1, <2>3 DEF number
    <3>3. Len(now) >= 2 /\ now[1].of = 1 /\ now[2].of = 2
      <4>1. 1 \in DOMAIN made /\ 2 \in DOMAIN made
        BY <2>1, <2>3
      <4> QED BY <2>1, <2>3, <3>1, <4>1 DEF number
    <3>4. \A v \in DOMAIN now : v > 2 => now[v].of \in {0} \cup 3 .. Len(releases')
      <4>1. n \in 3 .. Len(releases')
        BY <1>5, <2>5
      <4> QED BY <2>3, <2>6, <3>1, <4>1
    <3>5. ASSUME NEW v \in DOMAIN now, NEW w \in DOMAIN now, now[v].of = now[w].of, now[v].of # 0
          PROVE  v = w
      <4>1. CASE v \in DOMAIN made /\ w \in DOMAIN made
        BY <2>3, <3>1, <3>5, <4>1
      <4>2. CASE v = number /\ w \in DOMAIN made
        BY <2>4, <3>1, <3>5, <4>2
      <4>3. CASE v \in DOMAIN made /\ w = number
        BY <2>4, <3>1, <3>5, <4>3
      <4>4. CASE v = number /\ w = number
        BY <4>4
      <4> QED BY <3>1, <4>1, <4>2, <4>3, <4>4
    <3>6. \A v \in DOMAIN now : now[v].of = live' =>
            v = endpoints'[e].active /\ now[v].status = "active"
      BY <1>2, <2>4, <3>1
    <3> QED BY <3>3, <3>4, <3>5, <3>6 DEF Serves, now
  <2> QED BY <2>7, <2>8
<1>15. LiveKept'
  <2>1. Len(releases') >= 2
    BY <1>5, <1>9
  <2> QED BY <1>2, <1>10, <1>14, <2>1 DEF LiveKept
<1> QED BY <1>5, <1>13, <1>15

(* A member's rollback makes an older release live again, with its          *)
(* artifacts.                                                               *)
LEMMA RollbackKept ==
  ASSUME SeedInv, NEW n \in 1 .. Len(releases), Rollback(n)
  PROVE  SeedInv'
<1> DEFINE Its(e) == {v \in DOMAIN endpoints[e].made : endpoints[e].made[v].of = n}
           Turned(e) == [v \in DOMAIN endpoints[e].made |->
                           [endpoints[e].made[v] EXCEPT
                              !.status = IF v \in Its(e) THEN "active"
                                         ELSE IF endpoints[e].made[v].of = live THEN "rolled_back"
                                         ELSE @]]
<1>1. /\ Move /\ functions' = functions /\ Activated(n) /\ n \in DOMAIN releases
      /\ releases[n].status = "rolled_back"
      /\ releases' = [releases EXCEPT ![n].status = "active", ![live].status = "rolled_back"]
      /\ endpoints' = [e \in AllEndpoints |->
           [status |-> IF Its(e) = {} THEN endpoints[e].status ELSE "deployed",
            active |-> IF Its(e) = {} THEN endpoints[e].active ELSE Max(Its(e)),
            made |-> Turned(e)]]
  BY DEF Rollback
<1>2. live' = n
  BY <1>1 DEF Activated
<1> SUFFICES ASSUME ~seed.overtaken PROVE n # 0 /\ SeedTyped' /\ LiveKept'
  BY <1>1, ActivatedStep
<1>3. SeedTyped /\ LiveKept /\ live # 0
  BY <1>1, MoveFacts
<1>4. /\ IsSeq(releases) /\ Len(releases) \in Nat /\ Len(releases) >= 2
      /\ DOMAIN releases = 1 .. Len(releases) /\ live \in DOMAIN releases
      /\ \A m \in DOMAIN releases : releases[m] \in [status : {"active", "rolled_back"}]
      /\ \A m \in DOMAIN releases : releases[m].status = "active" <=> m = live
  BY <1>3 DEF SeedTyped, LiveKept, IsSeq
<1>5. n \in Nat /\ n # 0 /\ n # live
  BY <1>1, <1>4
<1>6. /\ DOMAIN releases' = DOMAIN releases
      /\ releases' = [m \in DOMAIN releases' |-> releases'[m]]
      /\ \A m \in DOMAIN releases :
           releases'[m] = IF m = n THEN [releases[m] EXCEPT !.status = "active"]
                          ELSE IF m = live THEN [releases[m] EXCEPT !.status = "rolled_back"]
                          ELSE releases[m]
  BY <1>1, <1>4, <1>5 DEF IsSeq
<1>7. /\ \A m \in DOMAIN releases' : releases'[m] \in [status : {"active", "rolled_back"}]
      /\ \A m \in DOMAIN releases' : releases'[m].status = "active" <=> m = n
  <2> SUFFICES ASSUME NEW m \in DOMAIN releases
               PROVE  /\ releases'[m] \in [status : {"active", "rolled_back"}]
                      /\ releases'[m].status = "active" <=> m = n
    BY <1>6
  <2>1. releases[m] \in [status : {"active", "rolled_back"}]
    BY <1>4
  <2>2. CASE m = n
    BY <1>6, <2>1, <2>2
  <2>3. CASE m # n /\ m = live
    BY <1>6, <2>1, <2>3
  <2>4. CASE m # n /\ m # live
    BY <1>4, <1>6, <2>1, <2>4
  <2> QED BY <2>2, <2>3, <2>4
<1>8. IsSeq(releases') /\ Len(releases') = Len(releases)
  <2>1. IsSeq(releases')
    BY <1>4, <1>6, SeqMapped
  <2>2. Len(releases') = Len(releases)
    BY <1>4, <1>6, SeqMapped
  <2> QED BY <2>1, <2>2
<1>9. ASSUME NEW e \in AllEndpoints
      PROVE  /\ IsEndpoint(endpoints[e]) /\ IsEndpoint(endpoints'[e])
             /\ LET made == endpoints[e].made
                    now == endpoints'[e].made IN
                /\ Len(now) = Len(made) /\ DOMAIN now = DOMAIN made
                /\ \A v \in DOMAIN made : now[v].of = made[v].of
                /\ \A v \in DOMAIN made : made[v].of = n => now[v].status = "active"
                /\ Its(e) # {} => endpoints'[e].active = Max(Its(e))
  <2> DEFINE made == endpoints[e].made
             s == IF Its(e) = {} THEN endpoints[e].status ELSE "deployed"
             a == IF Its(e) = {} THEN endpoints[e].active ELSE Max(Its(e))
  <2>1. IsEndpoint(endpoints[e]) /\ IsSeq(made) /\ \A v \in DOMAIN made : IsArtifact(made[v])
    BY <1>3, <1>9 DEF SeedTyped, IsEndpoint
  <2>2. endpoints'[e] = [status |-> s, active |-> a, made |-> Turned(e)]
    BY <1>1, <1>9
  <2>3. Its(e) # {} => a = Max(Its(e))
    OBVIOUS
  <2>4. /\ DOMAIN Turned(e) = DOMAIN made /\ Turned(e) = [v \in DOMAIN Turned(e) |-> Turned(e)[v]]
        /\ \A v \in DOMAIN made :
             \E z : /\ Turned(e)[v] = [made[v] EXCEPT !.status = z]
                    /\ made[v].of = n => z = "active"
    <3>1. /\ DOMAIN Turned(e) = DOMAIN made
          /\ Turned(e) = [v \in DOMAIN Turned(e) |-> Turned(e)[v]]
      OBVIOUS
    <3>2. ASSUME NEW v \in DOMAIN made
          PROVE  \E z : /\ Turned(e)[v] = [made[v] EXCEPT !.status = z]
                        /\ made[v].of = n => z = "active"
      <4> DEFINE z == IF v \in Its(e) THEN "active"
                      ELSE IF made[v].of = live THEN "rolled_back" ELSE made[v].status
      <4>1. Turned(e)[v] = [made[v] EXCEPT !.status = z]
        BY <3>2
      <4>2. made[v].of = n => z = "active"
        BY <3>2
      <4> HIDE DEF z
      <4> QED BY <4>1, <4>2
    <3> QED BY <3>1, <3>2
  <2> HIDE DEF Turned, s, a
  <2>5. \E t, m : t = Turned(e) /\ m = made
    OBVIOUS
  <2>6. PICK t, m : t = Turned(e) /\ m = made
    BY <2>5
  <2>7. IsSeq(m) /\ DOMAIN t = DOMAIN m /\ t = [v \in DOMAIN t |-> t[v]]
    BY <2>1, <2>4, <2>6
  <2>8. IsSeq(t)
    BY <2>7, SeqMapped
  <2>9. Len(t) = Len(m)
    BY <2>7, SeqMapped
  <2>10. \A v \in DOMAIN m : /\ IsArtifact(t[v]) /\ t[v].of = m[v].of
                             /\ m[v].of = n => t[v].status = "active"
    <3> TAKE v \in DOMAIN m
    <3>1. PICK z : /\ t[v] = [m[v] EXCEPT !.status = z]
                   /\ m[v].of = n => z = "active"
      BY <2>4, <2>6
    <3>2. IsArtifact(m[v])
      BY <2>1, <2>6
    <3>3. t[v] = [status |-> z, content |-> m[v].content, of |-> m[v].of]
      BY <3>1, <3>2 DEF IsArtifact
    <3>4. t[v].status = z /\ t[v].of = m[v].of /\ IsArtifact(t[v])
      BY <3>3 DEF IsArtifact
    <3> QED BY <3>1, <3>4
  <2>11. /\ endpoints'[e].status = s /\ endpoints'[e].active = a /\ endpoints'[e].made = t
         /\ endpoints'[e] = [status |-> endpoints'[e].status, active |-> endpoints'[e].active,
                             made |-> endpoints'[e].made]
    <3>1. endpoints'[e] = [status |-> s, active |-> a, made |-> t]
      BY <2>2, <2>6
    <3> QED BY <3>1
  <2>12. IsEndpoint(endpoints'[e])
    BY <2>7, <2>8, <2>10, <2>11 DEF IsEndpoint
  <2> HIDE DEF made, Its
  <2> QED BY <2>1, <2>3, <2>6, <2>7, <2>9, <2>10, <2>11, <2>12 DEF made
<1>10. endpoints' = [e \in AllEndpoints |-> endpoints'[e]]
  BY <1>1
<1>11. SeedTyped'
  <2>1. live' \in 0 .. Len(releases')
    BY <1>2, <1>4, <1>5, <1>8
  <2> QED BY <1>1, <1>3, <1>7, <1>8, <1>9, <1>10, <2>1 DEF SeedTyped
<1> HIDE DEF Turned
<1>12. ASSUME NEW e \in SeedEndpoints PROVE Serves(e)'
  <2> DEFINE made == endpoints[e].made
             now == endpoints'[e].made
  <2>1. /\ Len(made) \in Nat /\ DOMAIN made = 1 .. Len(made)
        /\ Len(now) = Len(made) /\ DOMAIN now = DOMAIN made
        /\ \A v \in DOMAIN made : now[v].of = made[v].of
        /\ \A v \in DOMAIN made : made[v].of = n => now[v].status = "active"
        /\ Its(e) # {} => endpoints'[e].active = Max(Its(e))
        /\ \A v : v \in Its(e) <=> v \in DOMAIN made /\ made[v].of = n
    <3>1. e \in AllEndpoints
      BY <1>12 DEF AllEndpoints
    <3> QED BY <1>9, <3>1 DEF IsEndpoint, IsSeq
  <2>2. Serves(e)
    BY <1>3, <1>12 DEF LiveKept
  <2>3. /\ Len(made) >= 2 /\ made[1].of = 1 /\ made[2].of = 2
        /\ \A v \in DOMAIN made : v > 2 => made[v].of \in {0} \cup 3 .. Len(releases)
        /\ \A v, w \in DOMAIN made : made[v].of = made[w].of /\ made[v].of # 0 => v = w
    BY <2>2 DEF Serves
  <2> HIDE DEF made, now, Its
  <2>4. ASSUME NEW v \in DOMAIN now, now[v].of = n
        PROVE  v = endpoints'[e].active /\ now[v].status = "active"
    <3>1. v \in DOMAIN made /\ made[v].of = n /\ v \in Its(e) /\ v \in Nat
      BY <2>1, <2>4
    <3>2. \A w \in Its(e) : w = v
      BY <1>5, <2>1, <2>3, <3>1
    <3>3. Its(e) = {v}
      BY <3>1, <3>2
    <3>4. Max({v}) = v
      BY <3>1 DEF Max
    <3> QED BY <2>1, <3>1, <3>3, <3>4
  <2>5. Len(now) >= 2 /\ now[1].of = 1 /\ now[2].of = 2
    <3>1. 1 \in DOMAIN made /\ 2 \in DOMAIN made
      BY <2>1, <2>3
    <3> QED BY <2>1, <2>3, <3>1
  <2>6. \A v \in DOMAIN now : v > 2 => now[v].of \in {0} \cup 3 .. Len(releases')
    BY <1>8, <2>1, <2>3
  <2>7. \A v, w \in DOMAIN now : now[v].of = now[w].of /\ now[v].of # 0 => v = w
    BY <2>1, <2>3
  <2> QED BY <1>2, <2>4, <2>5, <2>6, <2>7 DEF Serves, now
<1>13. LiveKept'
  BY <1>2, <1>4, <1>7, <1>8, <1>12 DEF LiveKept
<1> QED BY <1>5, <1>11, <1>13

-----------------------------------------------------------------------------
(* An empty Project.                                                        *)
LEMMA SeedInitKept ==
  ASSUME SeedInit
  PROVE  SeedInv
<1>1. /\ functions = [f \in Demos |-> Unseeded] /\ endpoints = [e \in AllEndpoints |-> Absent]
      /\ releases = <<>> /\ live = 0 /\ seed = NoSeed /\ moves = 0 /\ seeded = FALSE
  BY DEF SeedInit
<1>2. SeedShaped(seed) /\ seed.at = "idle" /\ seed.overtaken = FALSE /\ ~Running
  BY <1>1 DEF NoSeed, SeedShaped, Running
<1>3. Len(<<>>) = 0 /\ DOMAIN <<>> = {} /\ IsSeq(<<>>)
  <2>1. Len(<<>>) = 0 /\ DOMAIN <<>> = {}
    OBVIOUS
  <2>2. <<>> = [v \in {} |-> <<>>[v]]
    OBVIOUS
  <2>3. 1 .. 0 = {}
    OBVIOUS
  <2> QED BY <2>1, <2>2, <2>3 DEF IsSeq
<1>4. \A f \in Demos : /\ functions[f] = Unseeded /\ IsDemo(functions[f])
                       /\ functions[f].made = <<>> /\ functions[f].binding = 0
                       /\ functions[f].bound = FALSE
  BY <1>1 DEF Unseeded, IsDemo
<1>5. \A e \in AllEndpoints : /\ endpoints[e] = Absent /\ IsEndpoint(endpoints[e])
                              /\ endpoints[e].made = <<>> /\ endpoints[e].active = 0
  BY <1>1, <1>3 DEF Absent, IsEndpoint
<1>6. SeedTyped
  <2>1. OnDemos(functions) /\ endpoints = [e \in AllEndpoints |-> endpoints[e]]
    BY <1>1 DEF OnDemos
  <2>2. IsSeq(releases) /\ DOMAIN releases = {} /\ live \in 0 .. Len(releases)
    BY <1>1, <1>3
  <2> QED BY <1>4, <1>5, <2>1, <2>2 DEF SeedTyped
<1>7. SeedPlaced
  BY <1>1, <1>2 DEF SeedPlaced
<1>8. DemosFresh
  <2>1. \A f \in Demos : functions[f].made \in (IF f \in Changed THEN {<<>>, << 1 >>, <<1, 2>>}
                                                ELSE {<<>>, << 2 >>})
    BY <1>4
  <2>2. /\ seed.at \notin Saving /\ seed.at \notin Making
        /\ seed.at \notin {"endpoints", "versions", "bindings"}
    BY <1>2 DEF Saving, Making, Releasing, Pointing, Finished
  <2> QED BY <1>4, <2>1, <2>2 DEF DemosFresh
<1>9. EndpointsFresh
  <2>1. \A e \in SeedEndpoints : EndpointFresh(e)
    BY <1>3, <1>5 DEF EndpointFresh, AllEndpoints
  <2>2. /\ seed.at \notin Saving /\ seed.at \notin Making /\ seed.at \notin Releasing
        /\ seed.at \notin {"endpoints", "artifacts", "release", "move"}
    BY <1>2 DEF Saving, Making, Releasing, Pointing, Finished
  <2>3. \A e \in MemberEndpoints : endpoints[e] = Absent
    BY <1>5 DEF AllEndpoints
  <2> QED BY <2>1, <2>2, <2>3 DEF EndpointsFresh
<1>10. ReleasesFresh
  BY <1>1, <1>2, <1>3 DEF ReleasesFresh, Pointing, Finished
<1> QED BY <1>1, <1>2, <1>6, <1>7, <1>8, <1>9, <1>10 DEF SeedInv, Fresh

(* Each step of the seed and each move of a member.                         *)
LEMMA SeedNextKept ==
  ASSUME SeedInv, [SeedNext]_seedVars
  PROVE  SeedInv'
<1>1. CASE SeedNext
  BY <1>1, BeginSeedKept, EnsureSeedVersionKept, SeedBindingsKept, CollectKept, SeedReleaseKept,
     MoveArtifactsKept, SeedPointerKept, SettleReleasesKept, InterruptKept, SeedEndpointKept,
     SeedArtifactKept, ActivateArtifactKept, SeedFunctionKept, SaveDemoKept, UnbindKept,
     AddEndpointKept, DisableEndpointKept, DeployKept, RollbackKept DEF SeedNext
<1>2. CASE UNCHANGED seedVars
  BY <1>2, SMTT(30) DEF seedVars, SeedInv, SeedTyped, SeedPlaced, Running, Authoritative, Fresh, DemosFresh,
     EndpointsFresh, EndpointFresh, ReleasesFresh, LiveKept, Serves, Whole, OfRelease, DemoMade,
     DemoDone
<1> QED BY <1>1, <1>2

(* The inductive invariant of the seeds, of what cuts them off and of what  *)
(* members do meanwhile (prisma/seed.ts).                                   *)
THEOREM SeedsKept == SeedSpec => []SeedInv
BY SeedInitKept, SeedNextKept, PTL DEF SeedSpec

(* A seed that is done has been through all its steps, so every part of a   *)
(* single run's result is there.                                            *)
LEMMA SeedsConvergeInv ==
  ASSUME SeedInv
  PROVE  SeedsConverge
<1> SUFFICES ASSUME seed.at = "done", moves = 0
             PROVE  /\ \A f \in Demos :
                         LET made == IF f \in Changed THEN <<1, 2>> ELSE << 2 >> IN
                         functions[f] = [version |-> Len(made), made |-> made, binding |-> 1,
                                         bound |-> TRUE]
                    /\ \A e \in SeedEndpoints :
                         /\ endpoints[e].status = "deployed" /\ endpoints[e].active = 2
                         /\ [v \in DOMAIN endpoints[e].made |->
                              <<endpoints[e].made[v].status, endpoints[e].made[v].of>>]
                              = <<<<"rolled_back", 1>>, <<"active", 2>>>>
                    /\ live = 2 /\ releases = <<[status |-> "rolled_back"], [status |-> "active"]>>
  BY DEF SeedsConverge
<1>1. ~seed.overtaken /\ SeedTyped /\ DemosFresh /\ EndpointsFresh /\ ReleasesFresh
  BY SeedFacts DEF SeedInv
<1>2. seed.at \in Making /\ seed.at \in Releasing /\ seed.at \in Pointing /\ seed.at \in Finished
  BY DEF Making, Releasing, Pointing, Finished
<1>3. ASSUME NEW f \in Demos
      PROVE  functions[f] = [version |-> Len(Releases(f)), made |-> Releases(f), binding |-> 1,
                             bound |-> TRUE]
  <2>1. IsDemo(functions[f]) /\ DemoDone(f)
    BY <1>1, <1>2, <1>3 DEF SeedTyped, DemosFresh
  <2>2. functions[f].bound = TRUE
    BY <1>1, <1>3, <2>1 DEF DemosFresh, DemoDone, DemoMade
  <2> QED BY <2>1, <2>2 DEF IsDemo, DemoDone, DemoMade
<1>4. ASSUME NEW e \in SeedEndpoints
      PROVE  /\ endpoints[e].status = "deployed" /\ endpoints[e].active = 2
             /\ [v \in DOMAIN endpoints[e].made |->
                  <<endpoints[e].made[v].status, endpoints[e].made[v].of>>]
                  = <<<<"rolled_back", 1>>, <<"active", 2>>>>
  <2> DEFINE made == endpoints[e].made
  <2>1. endpoints[e].status = "deployed" /\ Whole(e) /\ EndpointFresh(e)
    BY <1>1, <1>2, <1>4 DEF EndpointsFresh
  <2>2. OfRelease(1) /\ OfRelease(2)
    BY <1>1, <1>2 DEF ReleasesFresh
  <2>3. DOMAIN made = 1 .. 2
    BY <1>1, <1>4, <2>1 DEF SeedTyped, AllEndpoints, IsEndpoint, IsSeq, Whole
  <2>4. /\ made[1].status = "rolled_back" /\ made[1].of = 1
        /\ made[2].status = "active" /\ made[2].of = 2
    BY <1>4, <2>1, <2>2, <2>3 DEF EndpointFresh, OfRelease
  <2> HIDE DEF made
  <2>5. [v \in DOMAIN made |-> <<made[v].status, made[v].of>>]
          = <<<<"rolled_back", 1>>, <<"active", 2>>>>
    <3>1. \A v \in 1 .. 2 : v = 1 \/ v = 2
      OBVIOUS
    <3>2. \A v \in 1 .. 2 : <<made[v].status, made[v].of>>
                              = <<<<"rolled_back", 1>>, <<"active", 2>>>>[v]
      BY <2>4, <3>1
    <3>3. <<<<"rolled_back", 1>>, <<"active", 2>>>>
            = [v \in 1 .. 2 |-> <<<<"rolled_back", 1>>, <<"active", 2>>>>[v]]
      OBVIOUS
    <3> QED BY <2>3, <3>2, <3>3
  <2> QED BY <2>1, <2>5 DEF Whole, made
<1>5. live = 2 /\ Len(releases) = 2
  BY <1>1, <1>2 DEF ReleasesFresh
<1>6. releases = <<[status |-> "rolled_back"], [status |-> "active"]>>
  <2>1. DOMAIN releases = 1 .. 2 /\ releases = [v \in 1 .. 2 |-> releases[v]]
    BY <1>1, <1>5 DEF SeedTyped, IsSeq
  <2>2. releases[1] = [status |-> "rolled_back"] /\ releases[2] = [status |-> "active"]
    BY <1>1, <2>1 DEF SeedTyped, ReleasesFresh
  <2>3. \A v \in 1 .. 2 : v = 1 \/ v = 2
    OBVIOUS
  <2> QED BY <2>1, <2>2, <2>3
<1> QED BY <1>3, <1>4, <1>5, <1>6 DEF Releases

(* A seed that is done has a live release, its own or the one it found.     *)
LEMMA SeedsKeepLiveInv ==
  ASSUME SeedInv
  PROVE  SeedsKeepLive
<1> SUFFICES ASSUME seed.at = "done", ~seed.overtaken PROVE LiveKept
  BY DEF SeedsKeepLive, LiveKept, Serves
<1>1. live # 0
  BY SeedFacts DEF ReleasesFresh, Finished
<1> QED BY <1>1, SeedFacts

(* However often prisma/seed.ts is cut off and repeated, once it completes, *)
(* and before a member has moved, the demo Project is the one a single run  *)
(* makes: no version, binding, Deployment or release twice.                 *)
THEOREM SeedsAlwaysConverge == SeedSpec => []SeedsConverge
BY SeedsKept, SeedsConvergeInv, PTL

(* What a member released since stays live: a seed that completes and that  *)
(* no deployment overtook leaves the release the Project had, with the      *)
(* artifacts it points to active, or makes its own where there was none     *)
(* (prisma/seed.ts, the deployments it preserves).                          *)
THEOREM SeedsAlwaysKeepLive == SeedSpec => []SeedsKeepLive
BY SeedsKept, SeedsKeepLiveInv, PTL

(***************************************************************************)
(* All of them (BuildAndServe).                                            *)
(***************************************************************************)
(* A behaviour is about one of them and leaves the others where they were.  *)
PartsInv ==
  /\ SeedInv
  /\ \/ subject \in Subjects /\ ServeInv /\ ReplayInv /\ NoBuild
     \/ subject = "builds" /\ BuildInv /\ NoRequests("builds")
     \/ subject = "seeds" /\ NoBuild /\ NoRequests("seeds")

(* No request changes what a behaviour is about.                            *)
LEMMA SubjectKept == GatewayNext => UNCHANGED subject
<1> SUFFICES ASSUME GatewayNext PROVE UNCHANGED subject
  OBVIOUS
<1>1. \A r, new : Step(r, new) => UNCHANGED subject
  BY DEF Step
<1>2. \A r : Reject(r) \/ Refuse(r) => UNCHANGED subject
  BY <1>1 DEF Reject, Refuse
<1>3. \A r, ask, fn : Invoke(r, ask, fn) => UNCHANGED subject
  BY <1>1, <1>2 DEF Invoke
<1>4. \A r : Admit(r) => UNCHANGED subject
  BY <1>1, <1>2, <1>3 DEF Admit, Dispatch
<1>5. ASSUME NEW r,
             \/ LoadById(r) \/ LoadSecrets(r) \/ LoadRow(r) \/ LoadEnvironment(r)
             \/ ReadSecret(r) \/ VerifySignature(r) \/ NoPolicy(r) \/ JudgePublic(r)
             \/ JudgeStatic(r) \/ WebhookMismatch(r) \/ ReplayStoreFails(r)
             \/ JudgeToken(r) \/ JudgeCustom(r) \/ ClaimReplay(r)
      PROVE  UNCHANGED subject
  BY <1>1, <1>2, <1>4, <1>5
     DEF LoadById, LoadSecrets, LoadRow, LoadEnvironment, ReadSecret, VerifySignature,
         NoPolicy, JudgePublic, JudgeStatic, WebhookMismatch, ReplayStoreFails,
         JudgeToken, TokenUnverifiable, JudgeCustom, ClaimReplay
<1>6. ASSUME \/ \E s \in Snapshots : Activate(s)
             \/ \E artifact \in Artifacts \cup {None} : Release(artifact)
             \/ SetEnabled \/ \E name \in Slugs \ {slug} : Rename(name)
             \/ \E environment \in Environments, value \in Values \cup {None} :
                  SetSecret(environment, value)
             \/ Tick
      PROVE  UNCHANGED subject
  BY <1>6 DEF Activate, Release, SetEnabled, Rename, SetSecret, Change, Tick
<1>7. ASSUME NEW r,
             \/ \E environment, credential, ask : Arrive(r, environment, credential, ask)
             \/ \E fn, granted, caller : TestFunction(r, fn, granted, caller)
      PROVE  UNCHANGED subject
  BY <1>7 DEF Arrive, TestFunction
<1> QED BY <1>5, <1>6, <1>7 DEF GatewayNext

LEMMA PartsStart == BothInit => PartsInv
<1> SUFFICES ASSUME BothInit PROVE PartsInv
  OBVIOUS
<1>1. SeedInv
  BY SeedInitKept DEF BothInit
<1>2. CASE Init /\ NoBuild
  BY <1>1, <1>2, ServeStarts, ReplayStarts DEF Init, PartsInv
<1>3. CASE BuildInit /\ NoRequests("builds")
  BY <1>1, <1>3, BuildStarts DEF NoRequests, PartsInv
<1>4. CASE NoBuild /\ NoRequests("seeds")
  BY <1>1, <1>4 DEF NoRequests, PartsInv
<1> QED BY <1>2, <1>3, <1>4 DEF BothInit

LEMMA PartsStep == PartsInv /\ [Next]_vars => PartsInv'
<1> SUFFICES ASSUME PartsInv, [Next]_vars PROVE PartsInv'
  OBVIOUS
<1>1. /\ subject \in Subjects => subject # "builds" /\ subject # "seeds"
      /\ [SeedNext]_seedVars
  BY GatewayAssumption DEF Next, vars
<1>2. SeedInv'
  BY <1>1, SeedNextKept DEF PartsInv
<1>3. UNCHANGED buildVars => (NoBuild => NoBuild')
  BY DEF NoBuild, buildVars, Blank
<1>4. \A about : UNCHANGED gatewayVars => (NoRequests(about) => NoRequests(about)')
  BY DEF NoRequests, gatewayVars, configVars, replayVars
<1>5. CASE subject \in Subjects
  <2>1. ServeInv /\ ReplayInv /\ NoBuild /\ UNCHANGED buildVars /\ [GatewayNext]_gatewayVars
    BY <1>1, <1>5 DEF PartsInv, Next, vars
  <2>2. subject' = subject
    BY <2>1, SubjectKept DEF gatewayVars
  <2> QED BY <1>2, <1>3, <1>5, <2>1, <2>2, ServeStep, ReplayStep DEF PartsInv
<1>6. CASE subject = "builds"
  <2>1. BuildInv /\ NoRequests("builds") /\ UNCHANGED gatewayVars /\ [BuildNext]_buildVars
    BY <1>1, <1>6 DEF PartsInv, Next, vars
  <2> QED BY <1>2, <1>4, <1>6, <2>1, BuildSteps DEF PartsInv, gatewayVars
<1>7. CASE subject = "seeds"
  <2>1. NoBuild /\ NoRequests("seeds") /\ UNCHANGED <<gatewayVars, buildVars>>
    BY <1>1, <1>7 DEF PartsInv, Next, vars
  <2> QED BY <1>2, <1>3, <1>4, <1>7, <2>1 DEF PartsInv, gatewayVars
<1> QED BY <1>5, <1>6, <1>7 DEF PartsInv

LEMMA PartsAreCorrect ==
  PartsInv => /\ ServedAsConfigured /\ AcceptedAgainOnlyLate
              /\ ArtifactsComplete /\ BuildsDecide /\ SeedsConverge /\ SeedsKeepLive
<1> SUFFICES ASSUME PartsInv
             PROVE  /\ ServedAsConfigured /\ AcceptedAgainOnlyLate
                    /\ ArtifactsComplete /\ BuildsDecide /\ SeedsConverge /\ SeedsKeepLive
  OBVIOUS
<1>1. NoBuild => ArtifactsComplete /\ BuildsDecide
  BY DEF NoBuild, Blank, ArtifactsComplete, BuildsDecide, Ended
<1>2. \A about : NoRequests(about) => ServedAsConfigured /\ AcceptedAgainOnlyLate
  <2> SUFFICES ASSUME NEW about, NoRequests(about)
               PROVE  ServedAsConfigured /\ AcceptedAgainOnlyLate
    OBVIOUS
  <2>1. \A r \in Requests : req[r] = [state |-> "idle"]
    BY DEF NoRequests, Idle
  <2>2. \A r \in Requests : req[r].state = "idle"
    BY <2>1
  <2>3. ServedAsConfigured
    BY <2>2 DEF ServedAsConfigured
  <2> QED BY <2>3 DEF NoRequests, AcceptedAgainOnlyLate
<1>3. SeedsConverge /\ SeedsKeepLive
  BY SeedsConvergeInv, SeedsKeepLiveInv DEF PartsInv
<1> QED BY <1>1, <1>2, <1>3, ServedInForce, CompleteArtifacts, DecidedBuilds
        DEF PartsInv, ReplayInv

(* In every behaviour of the composition, of which the model checker         *)
(* explores a small instance, all six hold, whatever it is about.            *)
THEOREM BuiltSeededAndServed ==
  BothSpec => []( /\ ServedAsConfigured /\ AcceptedAgainOnlyLate
                  /\ ArtifactsComplete /\ BuildsDecide /\ SeedsConverge /\ SeedsKeepLive)
BY PartsStart, PartsStep, PartsAreCorrect, PTL DEF BothSpec
=============================================================================
