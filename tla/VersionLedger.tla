--------------------------- MODULE VersionLedger ---------------------------
(***************************************************************************)
(* What a numbered history promises its readers: a version, once written,  *)
(* is never changed or taken back, and the next one written takes the next *)
(* number, so that a deployment that pinned a number can be explained by   *)
(* it for ever.                                                            *)
(***************************************************************************)
EXTENDS Sequences

CONSTANTS Subjects, \* what has a history
          Contents

VARIABLE history    \* history[s]: the content of every version of s

LedgerInit == history \in [Subjects -> Seq(Contents)]

Write(s, c) == history' = [history EXCEPT ![s] = Append(@, c)]

LedgerNext == \E s \in Subjects, c \in Contents : Write(s, c)

LedgerSpec == LedgerInit /\ [][LedgerNext]_history
=============================================================================
