------------------------- MODULE CredentialLedger -------------------------
(***************************************************************************)
(* What a client of the platform's OAuth server is promised about the      *)
(* credentials that can be exchanged, authorization codes and refresh      *)
(* tokens: each is exchanged at most once, for exactly one successor, and  *)
(* one that was revoked or ran out is never exchanged. Only codes come out *)
(* of nothing, every other credential replaces one.                        *)
(***************************************************************************)
EXTENDS Naturals

CONSTANTS Credentials,
          Roots        \* the authorization codes

VARIABLES live,     \* credentials that can be exchanged
          redeemed, \* credentials that were
          void      \* credentials that never will be

ledger == <<live, redeemed, void>>

Fresh(c) == c \in Credentials \ (live \cup redeemed \cup void)

LedgerInit ==
  /\ live \cap redeemed = {}
  /\ void = {}

Grant(c) ==
  /\ c \in Roots /\ Fresh(c)
  /\ live' = live \cup {c}
  /\ UNCHANGED <<redeemed, void>>

Redeem(c, successor) ==
  /\ c \in live /\ Fresh(successor)
  /\ live' = (live \ {c}) \cup {successor}
  /\ redeemed' = redeemed \cup {c}
  /\ UNCHANGED void

Withdraw(c) ==
  /\ c \in live
  /\ live' = live \ {c}
  /\ void' = void \cup {c}
  /\ UNCHANGED redeemed

LedgerNext ==
  \/ \E c \in Credentials : Grant(c) \/ Withdraw(c)
  \/ \E c, d \in Credentials : Redeem(c, d)

LedgerSpec == LedgerInit /\ [][LedgerNext]_ledger
=============================================================================
