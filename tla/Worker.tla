------------------------------- MODULE Worker -------------------------------
(***************************************************************************)
(* The processes that run tools: RunPod workers (serverless.py), one job at *)
(* a time, and direct servers (core/server.py), whose event loop hands tool *)
(* runs to threads.  They share ResultCache's directory, threads of one     *)
(* process its ModelCache and its Voices.                                   *)
(*                                                                         *)
(* A thread stands for a request from its arrival to its reply: a worker's  *)
(* only thread, or a handler of a server.  What a server does between two   *)
(* awaits holds its event loop, so that part excludes the others of its     *)
(* process, and not those of another.                                       *)
(***************************************************************************)
EXTENDS Integers, FiniteSets, Tools

CONSTANTS Process,   \* containers
          Thread,    \* who handles one request at a time
          Nobody,    \* holds a lock that is free
          Pid,       \* process ids: containers need not differ in theirs
          Blob,      \* the name of a published file, no temporary one's
          Key,       \* the requests that are made, which their hashes tell apart
          Images,    \* what an image may carry: the tools that import in it
          MaxCalls   \* bound: the calls that are made

ASSUME KeyAssumption == Key # {} /\ Key \subseteq Request
ASSUME ImagesAssumption == Images \subseteq SUBSET ToolName
ASSUME NameAssumption == Nobody \notin Thread /\ Blob \notin Pid
ASSUME ThreadAssumption == IsFiniteSet(Thread)
ASSUME CallsAssumption == MaxCalls \in Nat

VARIABLES files, types,              \* of ResultCache
          models, locks,             \* of ModelCache
          seeded, voice, speaking,   \* of Voices
          home,     \* the process of a thread
          pid,      \* `os.getpid()` of a process, the same after a restart
          mounted,  \* the tools of each process that is up
          up,       \* processes that serve
          thread,   \* what each thread is at
          calls,    \* how many calls were made
          torn,     \* history: keys with a `put` cut short after its rename
          raced     \* history: keys that two containers of one pid put at a time

INSTANCE ResultCache
INSTANCE ModelCache
INSTANCE Voices

deployment == <<home, pid>>
process == <<mounted, up>>
cache == <<files, types>>
modelCache == <<models, locks>>
voices == <<seeded, voice, speaking>>
history == <<torn, raced>>
vars == <<deployment, process, cache, modelCache, voices, thread, calls, history>>

\* Calls that are answered at once, and change nothing.  A keepalive of the proxy:
Ping == [tool |-> "__warm__"]

\* ... a lease on a server, which is always warm:
LeaseCall == [tool |-> "warm"]

\* ... one with none of the keys that a server accepts, if it has any:
Unauthorised == [tool |-> "unauthorised"]

\* ... one that names no tool, or has a field that is missing, malformed or too large.
Refused == [tool |-> "none"]

JobCalls == Key \cup {Ping, Refused}
RouteCalls == Key \cup {LeaseCall, Unauthorised, Refused}

\* A server's thread holds its event loop from the moment it finds a blob, or begins a
\* `put`, to its reply.
Looking == {"hit"}
Storing == {"writing", "moving", "typing", "typed"}
Tooling == {"run", "queue", "load", "tool", "voice", "primed", "drawing"}
Phase == {"idle", "lookup", "store"} \cup Looking \cup Storing \cup Tooling

\* `left`: models still to fetch.  `right`: the result is the one its request
\* promises.
ThreadState == [at : Phase, req : Key, left : Seq(Model), right : BOOLEAN]

ThreadsOf(p) == {t \in Thread : home[t] = p}

\* A server with one request at a time differs from a worker in nothing here.
IsWorker(p) == Cardinality(ThreadsOf(p)) = 1
IsServer(p) == Cardinality(ThreadsOf(p)) > 1

\* Who has a temporary file of k's, and who has published k and not typed it yet.
Writing(k) == {t \in Thread : thread[t].at \in {"writing", "moving"} /\ thread[t].req = k}
Typing(k) == {t \in Thread : thread[t].at \in {"typing", "typed"} /\ thread[t].req = k}

WorkerTypeOK ==
  /\ CacheTypeOK
  /\ ModelCacheTypeOK
  /\ VoicesTypeOK
  /\ home \in [Thread -> Process]
  /\ pid \in [Process -> Pid]
  /\ mounted \in [Process -> SUBSET ToolName]
  /\ up \subseteq Process
  /\ thread \in [Thread -> ThreadState]
  /\ calls \in 0..MaxCalls
  /\ torn \subseteq Key
  /\ raced \subseteq Key

Resting == [at |-> "idle", req |-> CHOOSE r \in Key : TRUE, left |-> <<>>,
            right |-> TRUE]

WorkerInit ==
  /\ CacheInit
  /\ ModelCacheInit
  /\ VoicesInit
  /\ home \in [Thread -> Process]
  /\ pid \in [Process -> Pid]
  /\ mounted = [p \in Process |-> {}]
  /\ up = {}
  /\ thread = [t \in Thread |-> Resting]
  /\ calls = 0
  /\ torn = {}
  /\ raced = {}

Goto(t, phase) == thread' = [thread EXCEPT ![t].at = phase]

\* The call ends: with a reply, or with an exception that the caller's framework makes
\* one of.
Reply(t) == thread' = [thread EXCEPT ![t] = Resting]

-----------------------------------------------------------------------------
(***************************************************************************)
(* Processes                                                               *)
(***************************************************************************)
\* `registry.discover`: a tool whose import fails is left out.
Discover(p) == \E found \in Images : mounted' = [mounted EXCEPT ![p] = found]

\* The models of the tools that were found are declared and warmed, and a failure is
\* left to the first request that needs the model.
Build(p) ==
  /\ p \notin up
  /\ up' = up \cup {p}
  /\ Discover(p)
  /\ Warm(p, Wanted(mounted'[p]))
  /\ UNCHANGED <<deployment, cache, voices, thread, calls, history>>

\* `serverless.init`, before the worker takes a job.
StartWorker(p) == IsWorker(p) /\ Build(p)

\* `create_app` and its `lifespan`, before the server takes a request.
StartServer(p) == IsServer(p) /\ Build(p)

\* The container goes away: what is on the volume stays.
Crash(p) ==
  /\ p \in up
  /\ up' = up \ {p}
  /\ mounted' = [mounted EXCEPT ![p] = {}]
  /\ CloseAll(ThreadsOf(p))
  /\ Forget(p)
  /\ Hush(p)
  /\ torn' = torn \cup {k \in Key : Typing(k) \cap ThreadsOf(p) # {}}
  /\ thread' = [t \in Thread |-> IF home[t] = p THEN Resting ELSE thread[t]]
  /\ UNCHANGED <<deployment, types, calls, raced>>

-----------------------------------------------------------------------------
(***************************************************************************)
(* A call, up to the tool                                                  *)
(***************************************************************************)
Arrive(t) ==
  /\ home[t] \in up
  /\ thread[t].at = "idle"
  /\ calls < MaxCalls
  /\ calls' = calls + 1
  /\ UNCHANGED <<deployment, process, cache, modelCache, voices, history>>

Accept(t, r) ==
  thread' = [thread EXCEPT ![t] = [Resting EXCEPT !.at = "lookup", !.req = r]]

\* `handler` up to the cache.  A ping is answered without a look at the tools.
TakeJob(t, c) ==
  /\ IsWorker(home[t])
  /\ Arrive(t)
  /\ IF c.tool \in mounted[home[t]] THEN Accept(t, c) ELSE Reply(t)

\* A route of the server: a tool that was not found has none.
Serve(t, c) ==
  /\ IsServer(home[t])
  /\ Arrive(t)
  /\ IF c.tool \in mounted[home[t]] THEN Accept(t, c) ELSE Reply(t)

\* The event loop, or the worker, is at nobody else's request.
LoopFree(t) ==
  \A u \in Thread \ {t} : home[u] = home[t] => thread[u].at \notin Looking \cup Storing

\* `cache.get` finds the blob, and looks for its type ...
Find(t) ==
  /\ thread[t].at = "lookup"
  /\ LoopFree(t)
  /\ Exists(thread[t].req)
  /\ Goto(t, "hit")
  /\ UNCHANGED <<deployment, process, cache, modelCache, voices, calls, history>>

\* ... and what is in the blob by now is the answer.
ReadHit(t) ==
  /\ thread[t].at = "hit"
  /\ Reply(t)
  /\ UNCHANGED <<deployment, process, cache, modelCache, voices, calls, history>>

\* ... or there is none, and the tool is run.
Miss(t) ==
  /\ thread[t].at = "lookup"
  /\ LoopFree(t)
  /\ ~Exists(thread[t].req)
  /\ IF Known(thread[t].req)
       THEN thread' = [thread EXCEPT ![t].at = "run", ![t].left = ModelsOf(thread[t].req)]
       ELSE Reply(t)
  /\ UNCHANGED <<deployment, process, cache, modelCache, voices, calls, history>>

-----------------------------------------------------------------------------
(***************************************************************************)
(* The tool's models                                                       *)
(***************************************************************************)
SlotOf(t) == <<home[t], Head(thread[t].left)>>

Fetched(t) ==
  thread' = [thread EXCEPT ![t].at = "run", ![t].left = Tail(@)]

\* `ModelCache.get`, before the lock.  What no tool has declared is an error.
Get(t) ==
  /\ thread[t].at = "run"
  /\ thread[t].left # <<>>
  /\ IF Loaded(SlotOf(t)) THEN Fetched(t)
     ELSE IF Head(thread[t].left) \in Declared(mounted[home[t]]) THEN Goto(t, "queue")
     ELSE Reply(t)
  /\ UNCHANGED <<deployment, process, cache, modelCache, voices, calls, history>>

Recheck(t) ==
  /\ thread[t].at = "queue"
  /\ FindLoaded(SlotOf(t))
  /\ Fetched(t)
  /\ UNCHANGED <<deployment, process, cache, voices, calls, history>>

Load(t) ==
  /\ thread[t].at = "queue"
  /\ BeginLoad(t, SlotOf(t))
  /\ Goto(t, "load")
  /\ UNCHANGED <<deployment, process, cache, voices, calls, history>>

LoadEnds(t, loads) ==
  /\ thread[t].at = "load"
  /\ EndLoad(SlotOf(t), loads)
  /\ IF loads THEN Fetched(t) ELSE Reply(t)
  /\ UNCHANGED <<deployment, process, cache, voices, calls, history>>

-----------------------------------------------------------------------------
(***************************************************************************)
(* The tool's result                                                       *)
(***************************************************************************)
Speaks(t) == thread[t].req.tool = "tts"
SpokenBy(t) == <<home[t], ModelsOf(thread[t].req)[1]>>

\* A sampling model is seeded: by `synthesize`, or in the call of the pipeline.
Seeds(t) ==
  /\ thread[t].at = "run"
  /\ thread[t].left = <<>>
  /\ IF Stochastic(thread[t].req) THEN SetSeed(t, home[t]) ELSE UNCHANGED seeded
  /\ Goto(t, IF Speaks(t) THEN "voice" ELSE "primed")
  /\ UNCHANGED <<deployment, process, cache, modelCache, voice, speaking, calls, history>>

\* A line waits until the model is done with another's.
Voiced(t) ==
  /\ thread[t].at = "voice"
  /\ PutVoice(t, SpokenBy(t), VoiceOf(thread[t].req))
  /\ Goto(t, "primed")
  /\ UNCHANGED <<deployment, process, cache, modelCache, seeded, calls, history>>

\* `generate`, `pipe.run` or `reconstruct` begins ...
Generate(t) ==
  /\ thread[t].at = "primed"
  /\ IF Stochastic(thread[t].req) THEN Draw(t, home[t]) ELSE UNCHANGED seeded
  /\ Goto(t, "drawing")
  /\ UNCHANGED <<deployment, process, cache, modelCache, voice, speaking, calls, history>>

\* ... and ends, in the voice that is on the model and from the seed, if that held.
Generated(t) ==
  LET right == /\ Stochastic(thread[t].req) => InSeed(t, home[t])
               /\ Speaks(t) => voice[SpokenBy(t)] = VoiceOf(thread[t].req)
  IN  /\ thread[t].at = "drawing"
      /\ IF Stochastic(thread[t].req) THEN Spend(home[t]) ELSE UNCHANGED seeded
      /\ Unlock(t)
      /\ thread' = [thread EXCEPT ![t].at = "store", ![t].right = right]
      /\ UNCHANGED <<deployment, process, cache, modelCache, voice, calls, history>>

\* `run` raises: a reference that cannot be analysed, no mesh, no memory.
Fails(t) ==
  /\ thread[t].at \in {"primed", "drawing"}
  /\ Unlock(t)
  /\ Reply(t)
  /\ UNCHANGED <<deployment, process, cache, modelCache, seeded, voice, calls, history>>

-----------------------------------------------------------------------------
(***************************************************************************)
(* The result is put in the cache, and is the reply                        *)
(*                                                                         *)
(* Each of its steps may raise, as a volume that is full or fails makes it: *)
(* `put` is not in the `try` of `handler`, nor in that of a route.          *)
(***************************************************************************)
TempName(t) == TempOf(pid[home[t]])

\* Who is at the same key with the same pid, in another container.
Namesakes(t) == {u \in Writing(thread[t].req) \ {t} : pid[home[u]] = pid[home[t]]}

Open(t) ==
  /\ thread[t].at = "store"
  /\ LoopFree(t)
  /\ OpenTemp(t, thread[t].req, TempName(t))
  /\ Goto(t, "writing")
  /\ raced' = IF Namesakes(t) # {} THEN raced \cup {thread[t].req} ELSE raced
  /\ UNCHANGED <<deployment, process, types, modelCache, voices, calls, torn>>

\* No directory, or no temporary file.
OpenRaises(t) ==
  /\ thread[t].at = "store"
  /\ LoopFree(t)
  /\ Reply(t)
  /\ UNCHANGED <<deployment, process, cache, modelCache, voices, calls, history>>

Write(t) ==
  /\ thread[t].at = "writing"
  /\ WriteOut(t, thread[t].req, thread[t].right, TRUE)
  /\ Goto(t, "moving")
  /\ UNCHANGED <<deployment, process, types, modelCache, voices, calls, history>>

\* The temporary file stays, with some of its bytes.
WriteRaises(t) ==
  /\ thread[t].at = "writing"
  /\ WriteOut(t, thread[t].req, thread[t].right, FALSE)
  /\ Reply(t)
  /\ UNCHANGED <<deployment, process, types, modelCache, voices, calls, history>>

Replace(t) ==
  /\ thread[t].at = "moving"
  /\ Publish(thread[t].req, TempName(t))
  /\ Goto(t, "typing")
  /\ UNCHANGED <<deployment, process, types, modelCache, voices, calls, history>>

\* The temporary file is gone, or it cannot be renamed.
ReplaceRaises(t) ==
  /\ thread[t].at = "moving"
  /\ Reply(t)
  /\ UNCHANGED <<deployment, process, cache, modelCache, voices, calls, history>>

BeginType(t) ==
  /\ thread[t].at = "typing"
  /\ OpenType(thread[t].req)
  /\ Goto(t, "typed")
  /\ UNCHANGED <<deployment, process, files, modelCache, voices, calls, history>>

EndType(t) ==
  /\ thread[t].at = "typed"
  /\ WriteType(thread[t].req)
  /\ Reply(t)
  /\ UNCHANGED <<deployment, process, files, modelCache, voices, calls, history>>

\* The file of the media type is not opened, or not filled: the blob is published.
TypeRaises(t) ==
  /\ thread[t].at \in {"typing", "typed"}
  /\ Reply(t)
  /\ torn' = torn \cup {thread[t].req}
  /\ UNCHANGED <<deployment, process, cache, modelCache, voices, calls, raced>>

-----------------------------------------------------------------------------
\* What a thread does on its own.
Work(t) ==
  \/ Find(t) \/ ReadHit(t) \/ Miss(t)
  \/ Get(t) \/ Recheck(t) \/ Load(t)
  \/ \E loads \in BOOLEAN : LoadEnds(t, loads)
  \/ Seeds(t) \/ Voiced(t) \/ Generate(t) \/ Generated(t) \/ Fails(t)
  \/ Open(t) \/ Write(t) \/ Replace(t) \/ BeginType(t) \/ EndType(t)
  \/ OpenRaises(t) \/ WriteRaises(t) \/ ReplaceRaises(t) \/ TypeRaises(t)

WorkerNext ==
  \/ \E p \in Process : StartWorker(p) \/ StartServer(p) \/ Crash(p)
  \/ \E t \in Thread : \/ \E c \in JobCalls : TakeJob(t, c)
                       \/ \E c \in RouteCalls : Serve(t, c)
  \/ \E t \in Thread : Work(t)

\* A thread that can go on does.  No lock is fair to those who wait for it: it is
\* enough that calls come to an end.
WorkerFairness == \A t \in Thread : WF_vars(Work(t))

WorkerSpec == WorkerInit /\ [][WorkerNext]_vars /\ WorkerFairness

-----------------------------------------------------------------------------
(***************************************************************************)
(* Properties                                                              *)
(***************************************************************************)
OneThreadEach == \A p \in Process : Cardinality(ThreadsOf(p)) <= 1

\* "Safe for concurrent writers" (core/cache.py:39): "a concurrent reader never observes
\* a half-written blob" (core/cache.py:59-60), whoever else writes it.
SafeForWriters == \A k \in Key : Exists(k) => files[k][Blob].whole

\* How far that goes, where containers crash and volumes fail: a blob is half written,
\* or a `put` finds its temporary file gone, only under a key that two containers of
\* one pid have put at the same time.
OnlyNamesakesCollide ==
  \A k \in Key \ raced :
    /\ Exists(k) => files[k][Blob].whole
    /\ \A t \in Thread : thread[t].req = k /\ thread[t].at = "moving" =>
         files[k][TempName(t)] # NoFile

\* A blob without its media type, which a hit then serves as octets or as nothing, is
\* there only while a `put` that has published it goes on, or because one was cut short
\* right then: by a crash, or by a volume on which the type could not be written.
UntypedInPassing ==
  \A k \in Key : Exists(k) /\ types[k] # "typed" => k \in torn \/ Typing(k) # {}

\* While a line is spoken, the model has the line's voice on it, and its lock is held
\* by that line, also when another thread waits with another voice.
RightVoice ==
  \A t \in Thread : Speaks(t) /\ thread[t].at \in {"primed", "drawing"} =>
    /\ speaking[SpokenBy(t)] = t
    /\ voice[SpokenBy(t)] = VoiceOf(thread[t].req)

\* "the seed makes a take reproducible and cacheable" (tools/tts/tool.py:78-79) where every
\* process has one thread, as RunPod's workers have: what the cache keeps under a
\* request is what the request's seed makes, whoever else writes it.
TakesAreReproducible ==
  OneThreadEach => \A k \in Key : Exists(k) => files[k][Blob].right

\* Threads of one process that need a model load it once, and one at a time, after a
\* load that failed too.
Loads == INSTANCE ModelLoads WITH
  ready <- models,
  loading <- {s \in Slot : locks[s] # Nobody}
LoadedOnce == Loads!Spec

\* Every call ends, whatever it waits for: a lock is let go of when a loader or a tool
\* raises.
Answered == \A t \in Thread : thread[t].at # "idle" ~> thread[t].at = "idle"

=============================================================================
