------------------------------ MODULE PaidTime ------------------------------
(***************************************************************************)
(* What the meter promises an artist, with no quotes, no Horizon and no     *)
(* database in sight (billing.py:1-34, docs/X402_BILLING.md section 3).     *)
(*                                                                         *)
(* Each payment buys exactly one window.  A bought window waits until it is *)
(* started, and starting it moves all the waiting time behind whatever is   *)
(* left of the window already running.  Nothing else adds time or takes it  *)
(* away: only a running window runs out, second by second.                  *)
(***************************************************************************)
EXTENDS Naturals

CONSTANTS Pubkey,    \* the identities that pay
          Payment,   \* the payments that can be made
          Window     \* the seconds one payment buys

VARIABLES now,       \* the time
          spent,     \* the payments that have bought their window
          waiting,   \* waiting[p]: seconds bought by p and not started
          until      \* until[p]: when the window of p that runs now ends

vars == <<now, spent, waiting, until>>

Init ==
  /\ now = 0
  /\ spent = {}
  /\ waiting = [p \in Pubkey |-> 0]
  /\ until = [p \in Pubkey |-> 0]

\* Payment m buys a window for p, which does not start yet.
Buy(p, m) ==
  /\ m \notin spent
  /\ spent' = spent \cup {m}
  /\ waiting' = [waiting EXCEPT ![p] = @ + Window]
  /\ UNCHANGED <<now, until>>

\* The later of the time and the end of the running window: where p's waiting
\* time goes.
EndOrNow(p) == IF until[p] > now THEN until[p] ELSE now

\* The identities in P get what they bought: all their waiting time starts.
Start(P) ==
  /\ \E p \in P : waiting[p] > 0
  /\ until' = [p \in Pubkey |->
                 IF p \in P /\ waiting[p] > 0
                   THEN EndOrNow(p) + waiting[p]
                   ELSE until[p]]
  /\ waiting' = [p \in Pubkey |-> IF p \in P THEN 0 ELSE waiting[p]]
  /\ UNCHANGED <<now, spent>>

Pass ==
  /\ now' = now + 1
  /\ UNCHANGED <<spent, waiting, until>>

Next ==
  \/ \E p \in Pubkey, m \in Payment : Buy(p, m)
  \/ \E P \in SUBSET Pubkey : Start(P)
  \/ Pass

Spec == Init /\ [][Next]_vars

=============================================================================
