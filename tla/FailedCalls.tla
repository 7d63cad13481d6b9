---------------------------- MODULE FailedCalls -----------------------------
(***************************************************************************)
(* Proxy, and what each tool call is told in the end: a result, or an       *)
(* error.  A job that came back without an error has started the clock when *)
(* its result is looked at, and there may be none in it, or one that is not *)
(* base64.                                                                 *)
(***************************************************************************)
EXTENDS Proxy

\* What the last step has told a client of a tool call: history.
VARIABLE replied

toldVars == <<vars, replied>>

ToldInit == Init /\ replied = "nothing"

\* The answer of a job that came back well: the result, or a 502 for want of one.
ServedReply == {"result", "error"}

\* Whatever ends no tool call.
Unanswered ==
  \/ \E p \in Pubkey, m \in Payment, tool \in Tool : Pay(p, m, tool)
  \/ \E l \in Lease, tool \in Tool, s \in Who, asked \in Who : WarmAcquire(l, tool, s, asked)
  \/ \E l \in Lease, tool \in Tool, s \in Who : WarmRelease(l, tool, s)
  \/ \E e \in Endpoint : Prune(e) \/ WorkerWarm(e)
  \/ \E r \in Request, tool \in Tool, s \in Who : Admit(r, tool, s)
  \/ \E c \in calls : Post(c) \/ Queued(c) \/ Poll(c)
  \/ \E flags \in Flags : Restart(flags)
  \/ Tick

ToldNext ==
  \/ \E c \in calls : JobServed(c) /\ replied' \in ServedReply
  \/ \E c \in calls : (UploadFails(c) \/ JobFails(c)) /\ replied' = "error"
  \/ Unanswered /\ replied' = "nothing"

ToldSpec == ToldInit /\ [][ToldNext]_toldVars

\* "So a tool call that comes back without an error also starts the clock.  A failed
\* call does not, by the same 'no warm, no charge' rule" (X402_BILLING.md:164-165):
\* a client whose tool call is answered with an error still has whatever time it had
\* bought and not started.
NoResultNoCharge == [][replied' = "error" => waiting' = waiting]_toldVars

=============================================================================
