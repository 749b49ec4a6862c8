---------------------------- MODULE BuildAndServe ----------------------------
(***************************************************************************)
(* An artifact from its making to its use: the seed that makes the demo    *)
(* Project and its first artifacts (DevelopmentSeed), the job that builds  *)
(* one (ArtifactBuild) and the requests it answers (RuntimeGateway). A     *)
(* behaviour is about seeds, about one build or about requests; what is    *)
(* between them, the activation of the stored artifact, is in              *)
(* ProjectDeployment.                                                      *)
(***************************************************************************)
EXTENDS RuntimeGateway, ArtifactBuild, DevelopmentSeed

vars == <<gatewayVars, buildVars, seedVars>>

NoBuild == build = Blank /\ draft = None /\ seen = {} /\ edits = 0

NoRequests(about) ==
  /\ subject = about /\ kind = "http" /\ slug = None /\ enabled = FALSE
  /\ own = None /\ released = None /\ secrets = [e \in Environments |-> None]
  /\ clock = 0 /\ claims = {} /\ accepted = {} /\ changes = 0
  /\ req = [r \in Requests |-> Idle] /\ since = [r \in Requests |-> Nothing]

BothInit ==
  /\ SeedInit
  /\ \/ Init /\ NoBuild
     \/ BuildInit /\ NoRequests("builds")
     \/ NoBuild /\ NoRequests("seeds")

Next ==
  \/ subject \in Subjects /\ GatewayNext /\ UNCHANGED <<buildVars, seedVars>>
  \/ subject = "builds" /\ BuildNext /\ UNCHANGED <<gatewayVars, seedVars>>
  \/ subject = "seeds" /\ SeedNext /\ UNCHANGED <<gatewayVars, buildVars>>

BothSpec == BothInit /\ [][Next]_vars
=============================================================================
