------------------------------- MODULE Voices -------------------------------
(***************************************************************************)
(* What threads of a process share while they generate: the random numbers  *)
(* of `random`, numpy and torch, and the voice that is on a speaking model  *)
(* (`VoiceMemory` of tools/tts/tool.py, a lock per model).                  *)
(***************************************************************************)
CONSTANTS Process, Thread, Model, Voice, OwnVoice, Nobody

VARIABLES seeded,    \* whose seed the random numbers still follow
          voice,     \* `model.conds`
          speaking   \* `VoiceMemory._locks`

VoicesTypeOK ==
  /\ seeded \in [Process -> Thread \cup {Nobody}]
  /\ voice \in [Process \X Model -> Voice]
  /\ speaking \in [Process \X Model -> Thread \cup {Nobody}]

VoicesInit ==
  /\ seeded = [p \in Process |-> Nobody]
  /\ voice = [s \in Process \X Model |-> OwnVoice]
  /\ speaking = [s \in Process \X Model |-> Nobody]

\* Mutant: the numbers go on from where they are.
Unseeded(t, p) == UNCHANGED seeded

\* `random.seed`, `np.random.seed`, `torch.manual_seed`: one state for all threads.
SetSeed(t, p) == seeded' = [seeded EXCEPT ![p] = t]

\* Mutant: a voice is put on a model that speaks.
PutVoiceAtOnce(t, s, v) ==
  /\ speaking' = [speaking EXCEPT ![s] = t]
  /\ voice' = [voice EXCEPT ![s] = v]

\* `VOICES.use`, under the lock of the model.
PutVoice(t, s, v) ==
  /\ speaking[s] = Nobody
  /\ speaking' = [speaking EXCEPT ![s] = t]
  /\ voice' = [voice EXCEPT ![s] = v]

\* Whoever draws from another's seed spoils it for both.
Draw(t, p) == seeded' = [seeded EXCEPT ![p] = IF @ = t THEN t ELSE Nobody]

\* The numbers drawn were those of the thread's own seed, to the last.
InSeed(t, p) == seeded[p] = t
Spend(p) == seeded' = [seeded EXCEPT ![p] = Nobody]

\* `synthesize` lets go of the lock, also when `use` or `generate` raises.
Unlock(t) ==
  speaking' = [s \in Process \X Model |-> IF speaking[s] = t THEN Nobody ELSE speaking[s]]

\* The process dies: the next one has models as they come.
Hush(p) ==
  /\ seeded' = [seeded EXCEPT ![p] = Nobody]
  /\ voice' = [s \in Process \X Model |-> IF s[1] = p THEN OwnVoice ELSE voice[s]]
  /\ speaking' = [s \in Process \X Model |-> IF s[1] = p THEN Nobody ELSE speaking[s]]

=============================================================================
