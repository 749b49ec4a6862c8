---------------------------- MODULE RecordLedger ----------------------------
(***************************************************************************)
(* What a store of revisioned records promises those who share it: nobody  *)
(* replaces or removes contents it has not been shown, so that no write is *)
(* lost, and what has been removed stays removed.                          *)
(***************************************************************************)
EXTENDS Integers, Sequences

CONSTANTS Ids, Callers, Contents

VARIABLES history, \* history[i]: the contents record i has had
          removed, \* records that are gone
          shown    \* shown[c][i]: how much of history[i] caller c has seen

LedgerInit ==
  /\ history \in [Ids -> Seq(Contents)]
  /\ removed = {}
  /\ shown \in [Callers -> [Ids -> Nat]]
  /\ \A c \in Callers, i \in Ids : shown[c][i] <= Len(history[i])

Add(c, i, content) ==
  /\ history[i] = <<>>
  /\ history' = [history EXCEPT ![i] = <<content>>]
  /\ UNCHANGED removed

UpToDate(c, i) == i \notin removed /\ shown[c][i] > 0 /\ shown[c][i] = Len(history[i])

Replace(c, i, content) ==
  /\ UpToDate(c, i)
  /\ history' = [history EXCEPT ![i] = Append(@, content)]
  /\ UNCHANGED <<removed, shown>>

Remove(c, i) ==
  /\ UpToDate(c, i)
  /\ removed' = removed \cup {i}
  /\ UNCHANGED <<history, shown>>

Look(c, seen) ==
  /\ seen \subseteq Ids \ removed
  /\ shown' = [shown EXCEPT ![c] = [i \in Ids |->
                 IF i \in seen THEN Len(history[i]) ELSE @[i]]]
  /\ UNCHANGED <<history, removed>>

AddAndLook(c, i, content) ==
  /\ Add(c, i, content)
  /\ shown' = [shown EXCEPT ![c][i] = 1]

LedgerNext ==
  \E c \in Callers :
    \/ \E i \in Ids : \/ Remove(c, i)
                      \/ \E content \in Contents : AddAndLook(c, i, content)
                                                   \/ Replace(c, i, content)
    \/ \E seen \in SUBSET Ids : Look(c, seen)

LedgerSpec == LedgerInit /\ [][LedgerNext]_<<history, removed, shown>>
=============================================================================
