------------------------ MODULE RuntimeCapabilities ------------------------
(***************************************************************************)
(* What a runtime gives the code of a Function, composed: the sandbox it   *)
(* runs in, data collections, storage and cache, upstreams and the log,    *)
(* each in the module of its name.                                         *)
(***************************************************************************)
EXTENDS CollectionData, FunctionStorage, RuntimeLogs, Upstreams, Sandbox

vars == <<collectionVars, storageVars, logVars, upstreamVars, sandboxVars, boundVars>>

Init ==
  /\ CallsInit
  /\ CollectionInit /\ StorageInit /\ LogsInit /\ UpstreamsInit /\ SandboxInit

Next ==
  \/ CollectionNext /\ UNCHANGED <<storageVars, logVars, upstreamVars, sandboxVars>>
  \/ StorageNext /\ UNCHANGED <<collectionVars, logVars, upstreamVars, sandboxVars>>
  \/ LogsNext /\ UNCHANGED <<collectionVars, storageVars, upstreamVars, sandboxVars>>
  \/ UpstreamsNext /\ UNCHANGED <<collectionVars, storageVars, logVars, sandboxVars>>
  \/ SandboxNext /\ UNCHANGED <<collectionVars, storageVars, logVars, upstreamVars>>

Spec == Init /\ [][Next]_vars

-----------------------------------------------------------------------------
(* Every variable of every part has its type; a record's revision counts the *)
(* values it has had, the last of which it holds (schema.prisma,             *)
(* CollectionRecord).                                                        *)
TypeOK ==
  /\ CallsTypeOK
  /\ CollectionTypeOK /\ StorageTypeOK /\ LogsTypeOK /\ UpstreamsTypeOK /\ SandboxTypeOK

(* Members who page through records or the log while both change see every   *)
(* one that keeps its place exactly once (collections.ts,                    *)
(* observability-routes.ts).                                                 *)
PagesComplete == RecordPagesComplete /\ LogPagesComplete
=============================================================================
