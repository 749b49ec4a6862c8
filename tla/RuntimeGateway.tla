--------------------------- MODULE RuntimeGateway ---------------------------
(***************************************************************************)
(* How the runtime answers a request to one endpoint: it loads the         *)
(* snapshot that serves the environment, judges the request by the         *)
(* snapshot's authentication policies in their order, checks the caller    *)
(* against the endpoint's access policy, finds the Function that is bound  *)
(* to what was asked and gives it its secret, while releases, renames,     *)
(* status changes and secret rotations go on.  apps/runtime/src/{server,   *)
(* server-utils,endpoint-repository,auth,webhook-auth,custom-auth}.ts, and *)
(* the test of a saved Function, from routes-function-detail.ts of the API *)
(* to internal-routes.ts. What the Function does is in Invocation.         *)
(*                                                                         *)
(* Every policy and every Function that needs a secret refers to the one   *)
(* the model has in each environment.  What an identity provider or a      *)
(* custom Function answers is any answer.  A behaviour is about deliveries *)
(* to an endpoint that does not change, or about one request and what      *)
(* changes around it.  since and accepted only record what happened.       *)
(***************************************************************************)
EXTENDS Integers, FiniteSets, Sequences

CONSTANTS Requests,
          Snapshots,  \* deployment snapshots of the endpoint
          Slugs,      \* names the endpoint may have
          Keys,       \* names of tools, or methods and paths of HTTP requests
          Callees,    \* Functions
          Values,     \* of the secret
          Kinds,      \* the endpoint is an "mcp" server or an "http" API
          Stamps,     \* timestamps of signed deliveries, in seconds
          Second,     \* ticks of the clock in a second
          Tolerance,  \* toleranceSeconds of the webhook policy
          Subjects,   \* what a behaviour may be about
          MaxTime, MaxChanges, \* bounds of the clock and of configuration changes
          None

Environments == {"development", "production"}
StaticTypes == {"api_key", "bearer_token", "basic_auth"}
TokenTypes == {"jwt", "entra_id"}
PolicyTypes == StaticTypes \cup TokenTypes \cup
               {"public", "webhook_signature", "custom_function"}

ASSUME GatewayAssumption ==
  /\ Snapshots \subseteq [policies : Seq(PolicyTypes), allowed : SUBSET PolicyTypes,
                          bound : Seq([keys : SUBSET Keys, fn : Callees]),
                          on : SUBSET Callees, granted : SUBSET Callees]
  /\ Kinds \subseteq {"mcp", "http"} /\ None \notin Snapshots \cup Values \cup Callees
  /\ Stamps \subseteq Nat /\ Second \in Nat \ {0} /\ Tolerance \in Nat \ {0}
  /\ Subjects \subseteq {"deliveries", "changes"}
  /\ MaxTime \in Nat /\ MaxChanges \in Nat

\* bound: the enabled bindings, in order, and what each matches; on: the
\* enabled Functions; granted: those with the secret.
VARIABLES kind,     \* RuntimeEndpoint.kind
          slug,     \* RuntimeEndpoint.slug
          enabled,  \* its status is not "disabled"
          own,      \* snapshot of its activeDeployment, or None
          released, \* its slug and snapshot in production's active ProjectDeployment
          secrets,  \* secrets[environment]
          clock,    \* in ticks
          claims,   \* replay keys in Redis, with the tick they expire at
          req,      \* req[r]
          since,    \* since[r]: what was in force at some time since r arrived
          accepted, \* replay keys accepted, with the tick
          subject, changes

configVars == <<slug, enabled, own, released, secrets, changes>>
replayVars == <<claims, accepted>>
gatewayVars == <<kind, configVars, replayVars, clock, req, since, subject>>

\* What a request carries: nothing, a static credential, a bearer token or a
\* signed delivery.
Credentials == [type : {"none", "token"}] \cup [type : {"static"}, value : Values]
               \cup [type : {"signature"}, value : Values, stamp : Stamps]

\* What a body asks for: a tool, or a method of the MCP protocol.
Methods == {"initialize", "notifications/initialized", "tools/list"}
Bodies == Keys \cup Methods \cup {"unknown"}

Idle == [state |-> "idle"]
Done == {"answered", "served", "rejected"}

\* The artifact with the slug asked for; the endpoint's row had it when loaded.
Production(name) == IF released # None /\ released.slug = name THEN released.snapshot ELSE None
Serving(environment, name) == IF environment = "production" THEN Production(name) ELSE own

Nothing == [enabled |-> {}, snapshots |-> {}, secrets |-> {}]
InForce(environment) ==
  [enabled |-> {enabled}, snapshots |-> {Serving(environment, slug)},
   secrets |-> {secrets[environment]}]

InFlight == {r \in Requests : req[r].state \notin {"idle"} \cup Done}

\* What is in force now was so since every request that is not done arrived.
Note ==
  since' = [r \in Requests |->
    IF r \notin InFlight THEN since[r]
    ELSE [enabled |-> since[r].enabled \cup {enabled'},
          snapshots |-> since[r].snapshots \cup {Serving(req[r].environment, req[r].slug)'},
          secrets |-> since[r].secrets \cup {secrets'[req[r].environment]}]]

-----------------------------------------------------------------------------
(* What changes around the requests. *)

\* A request finds any configuration; what changes before it is not followed.
Change ==
  /\ subject = "changes" /\ InFlight # {}
  /\ changes < MaxChanges /\ changes' = changes + 1
  /\ UNCHANGED <<kind, replayVars, clock, req, subject>>

Activate(s) == Change /\ own' = s /\ UNCHANGED <<slug, enabled, released, secrets>> /\ Note

\* The released Project may not have the endpoint, or have it by an older name.
Release(artifact) ==
  Change /\ released' = artifact /\ UNCHANGED <<slug, enabled, own, secrets>> /\ Note

SetEnabled ==
  Change /\ enabled' = ~enabled /\ UNCHANGED <<slug, own, released, secrets>> /\ Note

\* PATCH of the endpoint or its settings; no artifact is rewritten.
Rename(name) ==
  Change /\ slug' = name /\ UNCHANGED <<enabled, own, released, secrets>> /\ Note

SetSecret(environment, value) ==
  /\ Change
  /\ secrets' = [secrets EXCEPT ![environment] = value]
  /\ UNCHANGED <<slug, enabled, own, released>>
  /\ Note

\* Time passes, and claims expire.
Tick ==
  /\ subject = "deliveries"
  /\ clock < MaxTime /\ clock' = clock + 1
  /\ claims' = {c \in claims : c.expires > clock'}
  /\ UNCHANGED <<kind, configVars, accepted, req, since, subject>>

-----------------------------------------------------------------------------
(* Loading the endpoint. *)

Step(r, new) ==
  /\ req' = [req EXCEPT ![r] = new]
  /\ since' = IF new.state \in {"answered", "rejected"}
                THEN [since EXCEPT ![r] = Nothing] ELSE since
  /\ UNCHANGED <<kind, configVars, clock, subject>>

Reject(r) == Step(r, [state |-> "rejected"])

Distance(a, b) == IF a > b THEN a - b ELSE b - a

\* Mutant: a timestamp from any time in the future is accepted.
TimelyUntil(stamp) == clock \div Second <= stamp + Tolerance

\* The timestamp is compared with the clock's whole seconds.
Timely(stamp) == Distance(clock \div Second, stamp) <= Tolerance

Arrive(r, environment, credential, ask) ==
  /\ req[r] = Idle
  /\ IF subject = "deliveries"
       THEN environment = "development" /\ credential.type = "signature"
       ELSE /\ \A other \in Requests : req[other] = Idle
            /\ credential.type = "signature" => Timely(credential.stamp)
  /\ req' = [req EXCEPT ![r] = [state |-> "arrived", environment |-> environment,
                               credential |-> credential, ask |-> ask, slug |-> slug]]
  /\ since' = [since EXCEPT ![r] = InForce(environment)]
  /\ UNCHANGED <<kind, configVars, replayVars, clock, subject>>

Loaded(r) ==
  [state |-> "row", environment |-> req[r].environment, credential |-> req[r].credential,
   ask |-> req[r].ask, slug |-> req[r].slug, own |-> own]

\* loadEndpoint: the endpoint's row with its active deployment ...
LoadRow(r) ==
  /\ req[r].state = "arrived"
  /\ IF enabled /\ slug = req[r].slug THEN Step(r, Loaded(r)) ELSE Reject(r)
  /\ UNCHANGED replayVars

\* Mutant: the endpoint's own deployment, whatever the environment.
OwnSnapshot(r) == req[r].own

\* ... and the environments with theirs.
Selected(r) ==
  IF req[r].environment = "production" THEN Production(req[r].slug) ELSE req[r].own

Judging(r, snapshot) ==
  [state |-> "judging", environment |-> req[r].environment,
   credential |-> req[r].credential, ask |-> req[r].ask, slug |-> req[r].slug,
   snapshot |-> snapshot, policy |-> 1, secret |-> None]

Matching(snapshot, ask) == {i \in DOMAIN snapshot.bound : ask \in snapshot.bound[i].keys}

FirstOf(snapshot, matching) ==
  IF matching = {} THEN None
  ELSE snapshot.bound[CHOOSE i \in matching : \A j \in matching : i <= j].fn

\* matchHttpBinding passes over a disabled Function; a tool's is refused.
Route(snapshot, ask) ==
  FirstOf(snapshot, {i \in Matching(snapshot, ask) : snapshot.bound[i].fn \in snapshot.on})

Tool(snapshot, ask) ==
  LET fn == FirstOf(snapshot, Matching(snapshot, ask))
  IN IF fn \in snapshot.on THEN fn ELSE None

LoadEnvironment(r) ==
  /\ req[r].state = "row"
  /\ LET snapshot == Selected(r) IN
     IF snapshot = None THEN Reject(r)
     ELSE IF kind = "http" /\ Route(snapshot, req[r].ask) = None THEN Reject(r)
     ELSE Step(r, Judging(r, snapshot))
  /\ UNCHANGED replayVars

\* Without a policy there is nobody to admit the request.
NoPolicy(r) ==
  /\ req[r].state = "judging" /\ req[r].policy > Len(req[r].snapshot.policies)
  /\ Reject(r) /\ UNCHANGED replayVars

-----------------------------------------------------------------------------
(* authenticateWithPolicies. *)

At(r, state, types) ==
  /\ req[r].state = state
  /\ req[r].policy <= Len(req[r].snapshot.policies)
  /\ req[r].snapshot.policies[req[r].policy] \in types

\* UNAUTHENTICATED: the next policy judges; any other error ends the request.
Refuse(r) == Step(r, [req[r] EXCEPT !.state = "judging", !.policy = @ + 1])

MayAccess(snapshot, caller) == snapshot.allowed = {} \/ caller \in snapshot.allowed

Invoking(r, ask, snapshot, secret, fn, granted) ==
  [state |-> "invoking", environment |-> req[r].environment, slug |-> req[r].slug,
   ask |-> ask, snapshot |-> snapshot, secret |-> secret, fn |-> fn,
   granted |-> granted, used |-> None]

Invoke(r, ask, fn) ==
  LET snapshot == req[r].snapshot IN
  IF fn = None THEN Reject(r)
  ELSE Step(r, Invoking(r, ask, snapshot, req[r].secret, fn, fn \in snapshot.granted))

\* The body of a request to an MCP server is read only now: the methods of the
\* protocol are answered, and a call finds its Function.
Dispatch(r) ==
  LET snapshot == req[r].snapshot IN
  IF kind = "http" THEN Invoke(r, req[r].ask, Route(snapshot, req[r].ask))
  ELSE \E ask \in Bodies : IF ask \in Methods THEN Step(r, [state |-> "answered"])
                           ELSE Invoke(r, ask, Tool(snapshot, ask))

\* authorizeEndpointAccess.
Admit(r) ==
  IF MayAccess(req[r].snapshot, req[r].snapshot.policies[req[r].policy])
    THEN Dispatch(r) ELSE Reject(r)

\* getEncryptedSecret, getEncryptedSecretById.
StoredSecret(environment) == secrets[environment]

\* loadSecrets of the invoker, by name, in the environment that is served.
LoadSecrets(r) ==
  /\ req[r].state = "invoking"
  /\ LET secret == StoredSecret(req[r].environment) IN
     IF ~req[r].granted THEN Step(r, [req[r] EXCEPT !.state = "served"])
     ELSE IF secret = None THEN Reject(r)
     ELSE Step(r, [req[r] EXCEPT !.state = "served", !.used = secret])
  /\ UNCHANGED replayVars

JudgePublic(r) == At(r, "judging", {"public"}) /\ Admit(r) /\ UNCHANGED replayVars

NeedsSecret(r) ==
  \/ At(r, "judging", StaticTypes) /\ req[r].credential.type = "static"
  \/ At(r, "judging", {"webhook_signature"}) /\ kind = "http"

\* policySecret, by name, in the environment that is served.
ReadSecret(r) ==
  /\ NeedsSecret(r)
  /\ LET secret == StoredSecret(req[r].environment) IN
     IF secret = None THEN Reject(r)
     ELSE Step(r, [req[r] EXCEPT !.state = "secret", !.secret = secret])
  /\ UNCHANGED replayVars

JudgeStatic(r) ==
  /\ \/ At(r, "secret", StaticTypes)
     \/ At(r, "judging", StaticTypes) /\ req[r].credential.type # "static"
  /\ IF req[r].credential.type = "static" /\ req[r].credential.value = req[r].secret
       THEN Admit(r) ELSE Refuse(r)
  /\ UNCHANGED replayVars

\* The tools of an MCP server cannot be called by a webhook.
WebhookMismatch(r) ==
  At(r, "judging", {"webhook_signature"}) /\ kind = "mcp" /\ Reject(r) /\ UNCHANGED replayVars

Signed(r) ==
  /\ req[r].credential.type = "signature" /\ req[r].credential.value = req[r].secret
  /\ Timely(req[r].credential.stamp)

VerifySignature(r) ==
  /\ At(r, "secret", {"webhook_signature"})
  /\ IF Signed(r) THEN Step(r, [req[r] EXCEPT !.state = "claim"]) ELSE Refuse(r)
  /\ UNCHANGED replayVars

ReplayKey(r) == <<req[r].credential.stamp, req[r].credential.value>>
Claimed(key) == \E c \in claims : c.key = key

\* Mutant: a claim that lasts one tolerance.
ClaimOnce(key) == [key |-> key, expires |-> clock + Tolerance * Second]

Claim(key) == [key |-> key, expires |-> clock + 2 * Tolerance * Second]

\* claimReplay, SET NX EX, in the Redis all runtimes share.
ClaimReplay(r) ==
  /\ At(r, "claim", {"webhook_signature"})
  /\ IF Claimed(ReplayKey(r))
       THEN Refuse(r) /\ UNCHANGED replayVars
       ELSE /\ claims' = claims \cup {Claim(ReplayKey(r))}
            /\ accepted' = accepted \cup {[key |-> ReplayKey(r), at |-> clock, by |-> r]}
            /\ Admit(r)

ReplayStoreFails(r) ==
  At(r, "claim", {"webhook_signature"}) /\ Reject(r) /\ UNCHANGED replayVars

\* A token may verify, may not, or its keys cannot be fetched.
\* The issuer's keys cannot be had: no other policy is asked.
TokenUnverifiable(r) == req[r].credential.type = "token" /\ Reject(r)

JudgeToken(r) ==
  /\ At(r, "judging", TokenTypes)
  /\ \/ req[r].credential.type = "token" /\ Admit(r)
     \/ TokenUnverifiable(r)
     \/ Refuse(r)
  /\ UNCHANGED replayVars

\* The Function authenticates the request, does not, or fails.
JudgeCustom(r) ==
  /\ At(r, "judging", {"custom_function"})
  /\ Admit(r) \/ Refuse(r) \/ Reject(r)
  /\ UNCHANGED replayVars

-----------------------------------------------------------------------------
(* The test of a Function as it is saved, on a deployed endpoint. *)

\* The API finds the endpoint and sends the Functions that the saved one calls.
TestFunction(r, fn, granted, caller) ==
  /\ subject = "changes" /\ \A other \in Requests : req[other] = Idle
  /\ own # None
  /\ req' = [req EXCEPT ![r] =
               [state |-> "testing", environment |-> "development", slug |-> slug,
                fn |-> fn, granted |-> granted, caller |-> caller]]
  /\ since' = [since EXCEPT ![r] = InForce("development")]
  /\ UNCHANGED <<kind, configVars, replayVars, clock, subject>>

\* loadEndpointById, disabled or not; who calls is what the body says.
LoadById(r) ==
  /\ req[r].state = "testing"
  /\ IF own # None /\ MayAccess(own, req[r].caller)
       THEN Step(r, Invoking(r, "test", own, None, req[r].fn, req[r].granted))
       ELSE Reject(r)
  /\ UNCHANGED replayVars

-----------------------------------------------------------------------------
Artifacts == [slug : Slugs, snapshot : Snapshots]

Init ==
  /\ kind \in Kinds
  /\ subject \in Subjects
  /\ enabled = TRUE
  /\ slug \in Slugs
  /\ own \in Snapshots
  /\ IF subject = "deliveries"
       THEN /\ kind = "http" /\ released = None
            /\ secrets \in [Environments -> Values]
            /\ secrets["development"] = secrets["production"]
       ELSE /\ released \in Artifacts \cup {None}
            /\ secrets \in [Environments -> Values \cup {None}]
  /\ clock = 0 /\ claims = {} /\ accepted = {}
  /\ req = [r \in Requests |-> Idle]
  /\ since = [r \in Requests |-> Nothing]
  /\ changes = 0

GatewayNext ==
  \/ \E s \in Snapshots : Activate(s)
  \/ \E artifact \in Artifacts \cup {None} : Release(artifact)
  \/ SetEnabled \/ \E name \in Slugs \ {slug} : Rename(name)
  \/ \E environment \in Environments, value \in Values \cup {None} :
       SetSecret(environment, value)
  \/ Tick
  \/ \E r \in Requests :
       \/ \E environment \in Environments, credential \in Credentials,
            ask \in (IF kind = "http" THEN Keys ELSE {None}) :
            Arrive(r, environment, credential, ask)
       \/ \E fn \in Callees, granted \in BOOLEAN, caller \in own.allowed \cup {None} :
            TestFunction(r, fn, granted, caller)
       \/ LoadById(r) \/ LoadSecrets(r)
       \/ LoadRow(r) \/ LoadEnvironment(r) \/ NoPolicy(r)
       \/ JudgePublic(r) \/ ReadSecret(r) \/ JudgeStatic(r) \/ WebhookMismatch(r)
       \/ VerifySignature(r) \/ ClaimReplay(r) \/ ReplayStoreFails(r)
       \/ JudgeToken(r) \/ JudgeCustom(r)

Spec == Init /\ [][GatewayNext]_gatewayVars
-----------------------------------------------------------------------------
LastSecond(key) == (key[1] + Tolerance) * Second

(* A signed delivery is accepted again, by any runtime and however long one  *)
(* takes between reading the clock and claiming it, only from the last       *)
(* second on in which its timestamp is within the tolerance: the two         *)
(* tolerances a claim lives reach from the earliest acceptance of the        *)
(* timestamp to that second (webhook-auth.ts, verifyWebhookRequest).         *)
AcceptedAgainOnlyLate ==
  \A a, b \in accepted : a.key = b.key /\ a # b =>
    \E again \in {a, b} : again.at >= LastSecond(again.key)

(* A request runs a Function of a snapshot, with values of the secret to     *)
(* judge the caller and to give the Function, that were in force in its      *)
(* environment at some time since it arrived, on an endpoint that was        *)
(* enabled at one: nothing that was replaced, rolled back, rotated or        *)
(* disabled before is used. The Function is one that the snapshot binds to   *)
(* what was asked, or the saved one that is tested (endpoint-repository.ts,  *)
(* auth.ts policySecret, invoke.ts loadSecrets).                             *)
ServedAsConfigured ==
  \A r \in Requests : req[r].state = "served" =>
    /\ req[r].snapshot \in since[r].snapshots
    /\ {req[r].secret, req[r].used} \ {None} \subseteq since[r].secrets
    /\ req[r].ask # "test" =>
         /\ TRUE \in since[r].enabled /\ req[r].fn \in req[r].snapshot.on
         /\ \E i \in DOMAIN req[r].snapshot.bound :
              /\ req[r].ask \in req[r].snapshot.bound[i].keys
              /\ req[r].fn = req[r].snapshot.bound[i].fn
-----------------------------------------------------------------------------
(* What a comment promises and the code does not keep.                       *)

(* "Two tolerance windows cover tokens timestamped at the maximum accepted   *)
(* future skew": a signed delivery is accepted at most once. The clock's     *)
(* whole seconds are compared, so a timestamp is within the tolerance for a  *)
(* second longer than the claim lives (webhook-auth.ts,                      *)
(* verifyWebhookRequest).                                                    *)
AcceptedOnce == \A a, b \in accepted : a.key = b.key => a = b
=============================================================================
