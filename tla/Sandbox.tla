------------------------------ MODULE Sandbox ------------------------------
(***************************************************************************)
(* One execution of a Function's code in a child process or a disposable   *)
(* container: the files, the process, the messages between the executor    *)
(* and the runner, and what is cleaned up.  packages/sandbox/src/          *)
(* {executor,container-executor,runner,container-runner}.ts.  What the     *)
(* invoker makes of the result is in Invocation.                           *)
(*                                                                         *)
(* The docker client and daemon are external: the daemon handles requests  *)
(* in any order, and creates a container before it starts it.              *)
(***************************************************************************)
EXTENDS CapabilityCalls

CONSTANTS Providers,       \* "local", "container"
          MaxRpcs          \* bound: capability calls of the code

ASSUME SandboxAssumption ==
  Providers \subseteq {"local", "container"} /\ MaxRpcs \in Nat

VARIABLES provider,
          host,     \* where execute() is
          files,    \* the workspace directory and what is in it
          client,   \* the child process, or the docker client
          box,      \* the container
          docker,   \* requests the daemon has not handled
          toCode, toHost, \* messages that have not been read
          code,     \* the runner and the code in it
          signal,   \* the AbortController the code sees
          pending,  \* pendingCancellation
          waiting,  \* rpcs whose answer the code waits for
          working,  \* rpcs the host is performing
          cancelled,\* the executor holds a cancellation result
          faulty    \* a disk or docker error has been met

sandboxVars == <<provider, host, files, client, box, docker, toCode, toHost, code, signal,
                 pending, waiting, working, cancelled, faulty>>
channels == <<toCode, toHost>>
runner == <<code, signal, pending, waiting>>
outside == <<provider, files, box, docker, faulty>>

Local == provider = "local"
Running == host = "running"

\* The process that reads and writes the messages is there.
Connected == client = "up" /\ (Local \/ box = "running")

SendToCode(messages) == toCode' = toCode \o messages
SendToHost(message) == toHost' = IF client = "up" THEN Append(toHost, message) ELSE toHost

-----------------------------------------------------------------------------
(* execute(): the files, the process, and after its end the cleanup. *)

Files == <<"directory", "code", "runner">>

Execute(p) ==
  /\ Makes("sandbox") /\ host \in {"idle", "done", "failed"}
  /\ provider' = p /\ host' = "files" /\ files' = {}
  /\ client' = "none" /\ box' = "none" /\ docker' = {}
  /\ toCode' = <<>> /\ toHost' = <<>>
  /\ code' = "none" /\ signal' = "none" /\ pending' = FALSE /\ waiting' = {}
  /\ working' = {} /\ cancelled' = FALSE /\ faulty' = FALSE

\* The runner is copied into a container's workspace. An error leaves what has
\* been written.
WriteFile ==
  /\ host = "files" /\ Cardinality(files) < IF Local THEN 2 ELSE 3
  /\ \/ files' = files \cup {Files[Cardinality(files) + 1]} /\ UNCHANGED <<host, faulty>>
     \/ host' = "failed" /\ faulty' = TRUE /\ UNCHANGED files
  /\ UNCHANGED <<provider, client, box, docker, channels, runner, working, cancelled, boundVars>>

Spawn ==
  /\ host = "files" /\ Cardinality(files) = IF Local THEN 2 ELSE 3
  /\ host' = "running" /\ client' = "up"
  /\ docker' = IF Local THEN {} ELSE {"create"}
  /\ code' = IF Local THEN "booting" ELSE "none"
  /\ UNCHANGED <<provider, files, box, channels, signal, pending, waiting, working, cancelled,
                 faulty, boundVars>>

\* The child is killed; a container is then removed.
Finishes == /\ client' = "dead"
            /\ host' = IF Local THEN "removing" ELSE "cleaning"

\* docker rm --force, for five seconds at most.
RequestRemoval ==
  /\ host = "cleaning" /\ "remove" \notin docker
  /\ docker' = docker \cup {"remove"} /\ host' = "awaiting"
  /\ UNCHANGED <<provider, files, client, box, channels, runner, working, cancelled, faulty,
                 boundVars>>

RemovalFails ==
  /\ host = "awaiting" /\ "remove" \in docker
  /\ host' = "removing" /\ faulty' = TRUE
  /\ UNCHANGED <<provider, files, client, box, docker, channels, runner, working, cancelled,
                 boundVars>>

\* Mutant: nobody waits for the container's removal.
RemoveFilesAtOnce ==
  /\ host \in {"removing", "awaiting"}
  /\ files' = {} /\ host' = "done"
  /\ UNCHANGED <<provider, client, box, docker, channels, runner, working, cancelled, faulty,
                 boundVars>>

RemoveFiles ==
  /\ host = "removing"
  /\ files' = {} /\ host' = "done"
  /\ UNCHANGED <<provider, client, box, docker, channels, runner, working, cancelled, faulty,
                 boundVars>>

-----------------------------------------------------------------------------
(* The docker client and daemon. *)

DaemonCreates ==
  /\ "create" \in docker
  /\ docker' = docker \ {"create"} /\ box' = "created"
  /\ UNCHANGED <<provider, host, files, client, channels, runner, working, cancelled, faulty,
                 boundVars>>

ClientStarts ==
  /\ client = "up" /\ box = "created" /\ "start" \notin docker
  /\ docker' = docker \cup {"start"}
  /\ UNCHANGED <<provider, host, files, client, box, channels, runner, working, cancelled, faulty,
                 boundVars>>

DaemonStarts ==
  /\ "start" \in docker /\ docker' = docker \ {"start"}
  /\ IF box = "created" THEN box' = "running" /\ code' = "booting" ELSE UNCHANGED <<box, code>>
  /\ UNCHANGED <<provider, host, files, client, channels, signal, pending, waiting, working,
                 cancelled, faulty, boundVars>>

DaemonRemoves ==
  /\ "remove" \in docker /\ docker' = docker \ {"remove"}
  /\ IF box \in {"created", "running"} THEN box' = "gone" /\ code' = "ended"
     ELSE UNCHANGED <<box, code>>
  /\ host' = IF host = "awaiting" THEN "removing" ELSE host
  /\ UNCHANGED <<provider, files, client, channels, signal, pending, waiting, working, cancelled,
                 faulty, boundVars>>

\* The process ends by itself, or docker cannot create or start the container;
\* a container that ends is removed (--rm).
ClientExits ==
  /\ Running /\ client = "up"
  /\ Finishes
  /\ IF box = "running" THEN box' \in {"running", "gone"} ELSE UNCHANGED box
  /\ code' = IF Local \/ box' = "gone" THEN "ended" ELSE code
  /\ UNCHANGED <<provider, files, docker, channels, signal, pending, waiting, working, cancelled,
                 faulty, boundVars>>

-----------------------------------------------------------------------------
(* The runner. A killed child stops at once, a container's code goes on      *)
(* until it is removed.                                                      *)

Boot ==
  /\ code = "booting" /\ (Local => client = "up")
  /\ code' = "ready" /\ SendToHost([type |-> "ready"])
  /\ UNCHANGED <<outside, host, client, toCode, signal, pending, waiting, working, cancelled,
                 boundVars>>

\* Mutant: a cancellation that comes before the code is not remembered.
SignalUnlessEarly == "live"

SignalAtStart == IF pending THEN "aborted" ELSE "live"

ReadByCode ==
  LET m == Head(toCode) IN
  /\ Connected /\ code \in {"ready", "executing", "ended"} /\ toCode # <<>>
  /\ toCode' = Tail(toCode)
  /\ CASE m.type = "execute" -> /\ code' = "executing" /\ signal' = SignalAtStart
                                /\ UNCHANGED <<pending, waiting>>
       [] m.type = "cancel" -> /\ pending' = TRUE
                               /\ signal' = IF signal = "none" THEN "none" ELSE "aborted"
                               /\ UNCHANGED <<code, waiting>>
       [] OTHER -> waiting' = waiting \ {m.id} /\ UNCHANGED <<code, signal, pending>>
  /\ UNCHANGED <<outside, host, client, toHost, working, cancelled, boundVars>>

Carries(channel, id) == \E n \in DOMAIN channel : "id" \in DOMAIN channel[n] /\ channel[n].id = id

\* A member of the context the code was given: a promise and its message.
Rpc(id) == waiting' = waiting \cup {id} /\ SendToHost([type |-> "rpc", id |-> id])

CallCapability ==
  /\ code = "executing" /\ (Local => client = "up")
  /\ \E id \in 1 .. MaxRpcs :
       /\ id \notin waiting \cup working /\ ~Carries(toHost, id) /\ ~Carries(toCode, id)
       /\ Rpc(id)
  /\ UNCHANGED <<outside, host, client, toCode, code, signal, pending, working, cancelled,
                 boundVars>>

\* The code returns or throws, whether or not its calls have been answered.
CodeEnds ==
  /\ code = "executing" /\ (Local => client = "up")
  /\ code' = "ended" /\ SendToHost([type |-> "result"])
  /\ UNCHANGED <<outside, host, client, toCode, signal, pending, waiting, working, cancelled,
                 boundVars>>

-----------------------------------------------------------------------------
(* The executor. After it has settled, a container's lines are closed; what  *)
(* a child has sent is still read.                                           *)

Reads(m) == toHost # <<>> /\ Head(toHost).type = m /\ (Running \/ Local) /\ toHost' = Tail(toHost)

\* Only the local executor repeats a cancellation.
HandleReady ==
  /\ Reads("ready")
  /\ IF client = "up"
       THEN SendToCode(<<[type |-> "execute"]>> \o
                       (IF Local /\ cancelled THEN <<[type |-> "cancel"]>> ELSE <<>>))
       ELSE UNCHANGED toCode
  /\ UNCHANGED <<outside, host, client, runner, working, cancelled, boundVars>>

HandleRpc ==
  /\ Reads("rpc")
  /\ working' = working \cup {Head(toHost).id}
  /\ UNCHANGED <<outside, host, client, toCode, runner, cancelled, boundVars>>

\* A capability ends, whoever still waits for it.
AnswerRpc(id) ==
  /\ id \in working
  /\ working' = working \ {id}
  /\ IF client = "up" THEN SendToCode(<<[type |-> "answer", id |-> id]>>) ELSE UNCHANGED toCode
  /\ UNCHANGED <<outside, host, client, toHost, runner, cancelled, boundVars>>

HandleEnd ==
  /\ Reads("result")
  /\ IF Running THEN Finishes ELSE UNCHANGED <<host, client>>
  /\ code' = IF Local /\ Running THEN "ended" ELSE code
  /\ UNCHANGED <<outside, toCode, signal, pending, waiting, working, cancelled, boundVars>>

\* The time limit, or the invocation's abort.
Cancel ==
  /\ Running /\ ~cancelled /\ cancelled' = TRUE
  /\ SendToCode(<<[type |-> "cancel"]>>)
  /\ UNCHANGED <<outside, host, client, toHost, runner, working, boundVars>>

\* 250 ms in a container, a second in a child.
GraceEnds ==
  /\ Running /\ cancelled
  /\ Finishes
  /\ code' = IF Local THEN "ended" ELSE code
  /\ UNCHANGED <<outside, channels, signal, pending, waiting, working, cancelled, boundVars>>

SandboxInit ==
  /\ provider \in (IF "sandbox" \in subject THEN Providers ELSE {"local"})
  /\ host = "idle" /\ files = {} /\ client = "none" /\ box = "none" /\ docker = {}
  /\ toCode = <<>> /\ toHost = <<>>
  /\ code = "none" /\ signal = "none" /\ pending = FALSE /\ waiting = {}
  /\ working = {} /\ cancelled = FALSE /\ faulty = FALSE

SandboxNext ==
  \/ \E p \in Providers : Execute(p)
  \/ WriteFile \/ Spawn \/ RequestRemoval \/ RemovalFails \/ RemoveFiles
  \/ DaemonCreates \/ ClientStarts \/ DaemonStarts \/ DaemonRemoves \/ ClientExits
  \/ Boot \/ ReadByCode \/ CallCapability \/ CodeEnds
  \/ HandleReady \/ HandleRpc \/ HandleEnd \/ Cancel \/ GraceEnds
  \/ \E id \in 1 .. MaxRpcs : AnswerRpc(id)

-----------------------------------------------------------------------------
SandboxTypeOK ==
  /\ host \in {"idle", "files", "running", "cleaning", "awaiting", "removing", "done", "failed"}
  /\ files \subseteq {Files[n] : n \in DOMAIN Files}
  /\ box \in {"none", "created", "running", "gone"} /\ (Local => box = "none")
  /\ waiting \subseteq 1 .. MaxRpcs /\ working \subseteq 1 .. MaxRpcs

NothingUnread == \A n \in DOMAIN toCode : toCode[n].type \notin {"execute", "cancel"}

(* When the executor answers, no process or container runs the code any      *)
(* more and its files are removed, although the daemon may create the        *)
(* container late; except when the disk or docker fails. Code that a         *)
(* cancellation was sent to sees it, even when it was sent before the runner *)
(* had started (executor.ts, container-executor.ts, runner.ts).              *)
SandboxContained ==
  /\ host = "done" /\ ~faulty =>
       /\ files = {} /\ client = "dead" /\ box # "running"
       /\ Local => code = "ended"
  /\ Running /\ cancelled /\ Connected /\ NothingUnread /\ code = "executing" => signal = "aborted"
=============================================================================
