----------------------------- MODULE ModelLoads -----------------------------
(***************************************************************************)
(* What ModelCache promises: a model of a process is loaded by one thread   *)
(* at a time, never again once it is there, and stays until the process     *)
(* ends.                                                                    *)
(***************************************************************************)
CONSTANTS Process, Model

VARIABLES ready,    \* models that are in memory, by process
          loading   \* models that a thread is loading

loads == <<ready, loading>>

Of(p) == {p} \X Model

Init == ready = {} /\ loading = {}

Begin(s) ==
  /\ s \notin ready \cup loading
  /\ loading' = loading \cup {s}
  /\ UNCHANGED ready

Succeed(s) ==
  /\ s \in loading
  /\ loading' = loading \ {s}
  /\ ready' = ready \cup {s}

Fail(s) ==
  /\ s \in loading
  /\ loading' = loading \ {s}
  /\ UNCHANGED ready

\* A process that starts comes with what it could load.
Start(p) ==
  /\ (ready \cup loading) \cap Of(p) = {}
  /\ \E got \in SUBSET Model : ready' = ready \cup ({p} \X got)
  /\ UNCHANGED loading

End(p) ==
  /\ ready' = ready \ Of(p)
  /\ loading' = loading \ Of(p)

Next ==
  \/ \E s \in Process \X Model : Begin(s) \/ Succeed(s) \/ Fail(s)
  \/ \E p \in Process : Start(p) \/ End(p)

Spec == Init /\ [][Next]_loads

=============================================================================
