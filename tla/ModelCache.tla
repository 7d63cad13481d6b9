----------------------------- MODULE ModelCache -----------------------------
(***************************************************************************)
(* `ModelCache` of core/models.py: the models of each process, loaded once  *)
(* and shared by its threads, with a lock per model.                        *)
(***************************************************************************)
CONSTANTS Process, Thread, Model,
          Nobody    \* holds a lock that is free

VARIABLES models,   \* `_models`, of every process
          locks     \* `_locks`

\* A model of a process.
Slot == Process \X Model
SlotsOf(p) == {p} \X Model

ModelCacheTypeOK ==
  /\ models \subseteq Slot
  /\ locks \in [Slot -> Thread \cup {Nobody}]

ModelCacheInit ==
  /\ models = {}
  /\ locks = [s \in Slot |-> Nobody]

\* `get` reads `_models` without a lock, and is done if the model is there.
Loaded(s) == s \in models

\* Under the lock, `get` looks again.  Another thread won the race:
FindLoaded(s) ==
  /\ locks[s] = Nobody
  /\ Loaded(s)
  /\ UNCHANGED <<models, locks>>

\* Mutant: it does not look again.
BeginLoadAnyway(t, s) ==
  /\ locks[s] = Nobody
  /\ locks' = [locks EXCEPT ![s] = t]
  /\ UNCHANGED models

\* ... or none did, and this one loads it, with the lock held.
BeginLoad(t, s) ==
  /\ locks[s] = Nobody
  /\ ~Loaded(s)
  /\ locks' = [locks EXCEPT ![s] = t]
  /\ UNCHANGED models

\* Mutant: a loader that raises leaves the lock held.
EndLoadLocked(s, loads) ==
  /\ models' = IF loads THEN models \cup {s} ELSE models
  /\ locks' = IF loads THEN [locks EXCEPT ![s] = Nobody] ELSE locks

\* The loader returns, or raises; `with` lets go of the lock either way.
EndLoad(s, loads) ==
  /\ models' = IF loads THEN models \cup {s} ELSE models
  /\ locks' = [locks EXCEPT ![s] = Nobody]

\* Mutant: the models of all processes are one.
WarmShared(p, wanted) ==
  /\ \E got \in SUBSET wanted : models' = models \cup got
  /\ UNCHANGED locks

\* `warm`, before any thread is served: a model that does not load stays lazy.
Warm(p, wanted) ==
  /\ \E got \in SUBSET wanted : models' = models \cup ({p} \X got)
  /\ UNCHANGED locks

\* The process dies, and its memory with it.
Forget(p) ==
  /\ models' = models \ SlotsOf(p)
  /\ locks' = [s \in Slot |-> IF s \in SlotsOf(p) THEN Nobody ELSE locks[s]]

=============================================================================
