---------------------------- MODULE WorkerProofs ----------------------------
(***************************************************************************)
(* What threads of workers and servers do to each other's models and        *)
(* voices, for every set of processes, threads and requests: every state    *)
(* has its type, a model is loaded as ModelLoads has it, and a line is      *)
(* spoken in its own voice.                                                 *)
(***************************************************************************)
EXTENDS Worker, FiniteSetTheorems, TLAPS

-----------------------------------------------------------------------------
(***************************************************************************)
(* The inductive invariant                                                 *)
(***************************************************************************)
\* A thread waits for models that it has still to fetch, and works in a process that is
\* up; what a server does between two awaits has its event loop for itself.
ThreadInv ==
  /\ \A t \in Thread : thread[t].at \in {"queue", "load"} => thread[t].left # <<>>
  /\ \A t \in Thread : thread[t].at # "idle" => home[t] \in up
  /\ \A t, u \in Thread :
       t # u /\ home[t] = home[u] /\ thread[t].at \in Looking \cup Storing
         => thread[u].at \notin Looking \cup Storing

\* Only a process that is up has models, or loads them; a loader holds its lock.
ModelInv ==
  /\ \A s \in Slot : s \in models \/ locks[s] # Nobody => s[1] \in up
  /\ \A t \in Thread : thread[t].at = "load" => locks[SlotOf(t)] = t

-----------------------------------------------------------------------------
(***************************************************************************)
(* Requests, models and threads                                            *)
(***************************************************************************)
LEMMA KeyTypes == \A k \in Key : k \in Request
BY KeyAssumption

LEMMA VoiceType == \A r \in Request : VoiceOf(r) \in Voice
BY DEF VoiceOf, Request, Speech, Sketch, Drawing, Voice

\* A speaking tool fetches one model, which is one of the speaking ones.
LEMMA SpeakerType ==
  ASSUME NEW r \in Request, r.tool = "tts"
  PROVE  ModelsOf(r)[1] \in Model
BY DEF ModelsOf, ModelsOfSpeech, Model

LEMMA ModelsType ==
  ASSUME NEW r \in Request, Known(r)
  PROVE  ModelsOf(r) \in Seq(Model)
<1>1. CASE r \in Speech
  <2>1. ModelsOf(r) = ModelsOfSpeech(r)
    BY <1>1 DEF ModelsOf, Speech
  <2> QED
    BY <2>1 DEF ModelsOfSpeech, Model
<1>2. CASE r \in Sketch
  <2>1. ModelsOf(r) = <<"trellis">> /\ "trellis" \in Model
    BY <1>2 DEF ModelsOf, Sketch, Model
  <2> QED
    BY <2>1
<1>3. CASE r \in Drawing
  <2>1. r.tool = "reangle" /\ r.backbone \in Backbone
    BY <1>3 DEF Known, Drawing
  <2>2. ModelsOf(r) = <<r.backbone, "isnet">>
    BY <2>1 DEF ModelsOf, ModelsOfDrawing, ModelKeyFor
  <2> QED
    BY <2>1, <2>2 DEF Backbone, Model
<1> QED
  BY <1>1, <1>2, <1>3 DEF Request

\* Whatever an image can import needs models there are.
LEMMA WantedType ==
  ASSUME NEW found \in SUBSET ToolName
  PROVE  Wanted(found) \in SUBSET Model
<1>1. ASSUME NEW n \in ToolName
      PROVE  ToolOf[n].needed \cup {ToolOf[n].warmup} \subseteq Model
  <2>1. ToolOf[n] \in {TtsTool, MeshTool, ReangleTool}
    BY DEF ToolOf, ToolName
  <2>2. /\ TtsTool.needed \subseteq Model /\ TtsTool.warmup \in Model
        /\ MeshTool.needed \subseteq Model /\ MeshTool.warmup \in Model
    BY DEF TtsTool, MeshTool, Model
  <2>3. ReangleTool.needed \subseteq Model /\ ReangleTool.warmup \in Model
    BY BackboneAssumption DEF ReangleTool, ModelKeyFor, Model, Backbone
  <2> QED
    BY <2>1, <2>2, <2>3
<1> QED
  BY <1>1 DEF Wanted

LEMMA RestingType ==
  /\ Resting \in ThreadState
  /\ Resting.at = "idle" /\ Resting.right
<1>1. (CHOOSE r \in Key : TRUE) \in Key
  BY KeyAssumption
<1>2. "idle" \in Phase /\ <<>> \in Seq(Model)
  BY DEF Phase
<1>3. Resting \in ThreadState
  BY <1>1, <1>2 DEF Resting, ThreadState
<1>4. Resting.at = "idle" /\ Resting.right
  BY DEF Resting
<1> QED
  BY <1>3, <1>4

LEMMA AcceptedType ==
  ASSUME NEW r \in Key
  PROVE  [Resting EXCEPT !.at = "lookup", !.req = r] \in ThreadState
BY RestingType DEF ThreadState, Phase

LEMMA SlotTypes ==
  ASSUME WorkerTypeOK, NEW t \in Thread, thread[t].left # <<>>
  PROVE  SlotOf(t) \in Slot /\ Tail(thread[t].left) \in Seq(Model)
BY DEF WorkerTypeOK, ThreadState, SlotOf, Slot

LEMMA SpokenByType ==
  ASSUME WorkerTypeOK, NEW t \in Thread, Speaks(t)
  PROVE  SpokenBy(t) \in Process \X Model
BY SpeakerType, KeyTypes DEF WorkerTypeOK, ThreadState, Speaks, SpokenBy

\* A call that takes a thread to a tool is a request.
LEMMA CallType ==
  ASSUME NEW c \in JobCalls \cup RouteCalls, NEW found \in SUBSET ToolName, c.tool \in found
  PROVE  c \in Key
BY DEF JobCalls, RouteCalls, Ping, LeaseCall, Unauthorised, Refused, ToolName

-----------------------------------------------------------------------------
(***************************************************************************)
(* What a thread does to itself                                            *)
(***************************************************************************)
\* Thread t goes on, and no other.  Nobody waits for a model without one to fetch, and
\* whoever takes the event loop finds it free.
Moved(t) ==
  /\ thread' \in [Thread -> ThreadState]
  /\ \A u \in Thread \ {t} : thread'[u] = thread[u]
  /\ UNCHANGED <<deployment, up>>
  /\ home[t] \in up
  /\ thread'[t].at \in {"queue", "load"} => thread'[t].left # <<>>
  /\ thread'[t].at \in Looking \cup Storing =>
       LoopFree(t) \/ thread[t].at \in Looking \cup Storing

LEMMA GotoMoves ==
  ASSUME WorkerTypeOK, NEW t \in Thread, NEW phase \in Phase, Goto(t, phase)
  PROVE  /\ thread' \in [Thread -> ThreadState]
         /\ \A u \in Thread \ {t} : thread'[u] = thread[u]
         /\ thread'[t].at = phase
         /\ thread'[t].req = thread[t].req /\ thread'[t].left = thread[t].left
         /\ thread'[t].right = thread[t].right
<1>1. thread[t] \in ThreadState /\ thread \in [Thread -> ThreadState]
  BY DEF WorkerTypeOK
<1>2. thread' = [thread EXCEPT ![t] = [thread[t] EXCEPT !.at = phase]]
  BY DEF Goto
<1>3. [thread[t] EXCEPT !.at = phase] \in ThreadState
  BY <1>1 DEF ThreadState
<1> QED
  BY <1>1, <1>2, <1>3 DEF ThreadState

LEMMA ReplyMoves ==
  ASSUME WorkerTypeOK, NEW t \in Thread, Reply(t)
  PROVE  /\ thread' \in [Thread -> ThreadState]
         /\ \A u \in Thread \ {t} : thread'[u] = thread[u]
         /\ thread'[t] = Resting
BY RestingType DEF WorkerTypeOK, Reply

LEMMA FetchedMoves ==
  ASSUME WorkerTypeOK, NEW t \in Thread, thread[t].left # <<>>, Fetched(t)
  PROVE  /\ thread' \in [Thread -> ThreadState]
         /\ \A u \in Thread \ {t} : thread'[u] = thread[u]
         /\ thread'[t].at = "run" /\ thread'[t].right = thread[t].right
         /\ thread'[t].req = thread[t].req
<1>1. thread[t] \in ThreadState /\ thread \in [Thread -> ThreadState]
  BY DEF WorkerTypeOK
<1>2. Tail(thread[t].left) \in Seq(Model) /\ "run" \in Phase
  BY SlotTypes DEF Phase, Tooling
<1>3. thread' = [thread EXCEPT ![t] = [thread[t] EXCEPT !.at = "run", !.left = Tail(@)]]
  BY DEF Fetched
<1>4. [thread[t] EXCEPT !.at = "run", !.left = Tail(@)] \in ThreadState
  BY <1>1, <1>2 DEF ThreadState
<1> QED
  BY <1>1, <1>3, <1>4 DEF ThreadState

LEMMA ArriveMoves ==
  ASSUME WorkerTypeOK, NEW t \in Thread, NEW c \in JobCalls \cup RouteCalls,
         TakeJob(t, c) \/ Serve(t, c)
  PROVE  /\ Moved(t) /\ thread[t].at = "idle"
         /\ \/ thread'[t] = Resting
            \/ c \in Key /\ thread'[t] = [Resting EXCEPT !.at = "lookup", !.req = c]
<1>1. /\ home[t] \in up /\ thread[t].at = "idle" /\ UNCHANGED <<deployment, up>>
      /\ IF c.tool \in mounted[home[t]] THEN Accept(t, c) ELSE Reply(t)
  BY DEF TakeJob, Serve, Arrive, process
<1>2. mounted[home[t]] \in SUBSET ToolName
  BY DEF WorkerTypeOK
<1>3. CASE c.tool \in mounted[home[t]]
  <2>1. c \in Key
    BY <1>2, <1>3, CallType
  <2>2. /\ thread' \in [Thread -> ThreadState]
        /\ \A u \in Thread \ {t} : thread'[u] = thread[u]
        /\ thread'[t] = [Resting EXCEPT !.at = "lookup", !.req = c]
    BY <1>1, <1>3, <2>1, AcceptedType DEF Accept, WorkerTypeOK
  <2>3. thread'[t].at = "lookup"
    BY <2>2, RestingType DEF ThreadState
  <2> QED
    BY <1>1, <2>1, <2>2, <2>3 DEF Moved, Looking, Storing
<1>4. CASE c.tool \notin mounted[home[t]]
  BY <1>1, <1>4, ReplyMoves, RestingType DEF Moved, Looking, Storing
<1> QED
  BY <1>3, <1>4

LEMMA WorkMoves ==
  ASSUME WorkerTypeOK, ThreadInv, NEW t \in Thread, Work(t)
  PROVE  Moved(t)
<1>1. home[t] \in up /\ UNCHANGED <<deployment, up>>
  <2>1. thread[t].at # "idle"
    BY DEF Work, Find, ReadHit, Miss, Get, Recheck, Load, LoadEnds, Seeds, Voiced, Generate,
           Generated, Fails, Open, Write, Replace, BeginType, EndType, OpenRaises, WriteRaises,
           ReplaceRaises, TypeRaises
  <2>2. UNCHANGED <<deployment, process>>
    BY DEF Work, Find, ReadHit, Miss, Get, Recheck, Load, LoadEnds, Seeds, Voiced, Generate,
           Generated, Fails, Open, Write, Replace, BeginType, EndType, OpenRaises, WriteRaises,
           ReplaceRaises, TypeRaises
  <2> QED
    BY <2>1, <2>2 DEF ThreadInv, process
<1>2. ASSUME \/ ReadHit(t) \/ Fails(t) \/ EndType(t)
             \/ OpenRaises(t) \/ WriteRaises(t) \/ ReplaceRaises(t) \/ TypeRaises(t)
             \/ Miss(t) /\ ~Known(thread[t].req)
             \/ LoadEnds(t, FALSE)
             \/ Get(t) /\ Reply(t)
      PROVE  Moved(t)
  <2>1. Reply(t)
    BY <1>2 DEF ReadHit, Fails, EndType, OpenRaises, WriteRaises, ReplaceRaises, TypeRaises,
                Miss, LoadEnds
  <2> QED
    BY <1>1, <2>1, ReplyMoves, RestingType DEF Moved, Looking, Storing
<1>3. ASSUME thread[t].left # <<>>, Fetched(t)
      PROVE  Moved(t)
  BY <1>1, <1>3, FetchedMoves DEF Moved, Looking, Storing
<1>4. ASSUME NEW phase \in Phase, Goto(t, phase),
             phase \in {"queue", "load"} => thread[t].left # <<>>,
             phase \in Looking \cup Storing =>
               LoopFree(t) \/ thread[t].at \in Looking \cup Storing
      PROVE  Moved(t)
  BY <1>1, <1>4, GotoMoves DEF Moved
<1>5. CASE Find(t)
  BY <1>4, <1>5 DEF Find, Phase, Looking
<1>6. CASE Miss(t)
  <2>1. CASE Known(thread[t].req)
    <3>1. thread[t] \in ThreadState /\ ModelsOf(thread[t].req) \in Seq(Model) /\ "run" \in Phase
      BY <2>1, ModelsType, KeyTypes DEF WorkerTypeOK, ThreadState, Phase, Tooling
    <3>2. thread' = [thread EXCEPT ![t] = [thread[t] EXCEPT !.at = "run",
                                                           !.left = ModelsOf(thread[t].req)]]
      BY <1>6, <2>1 DEF Miss
    <3>3. /\ [thread[t] EXCEPT !.at = "run", !.left = ModelsOf(thread[t].req)] \in ThreadState
          /\ [thread[t] EXCEPT !.at = "run", !.left = ModelsOf(thread[t].req)].at = "run"
      BY <3>1 DEF ThreadState
    <3> QED
      BY <1>1, <3>2, <3>3 DEF Moved, WorkerTypeOK, Looking, Storing
  <2> QED
    BY <1>2, <1>6, <2>1
<1>7. CASE Get(t)
  <2>1. thread[t].left # <<>> /\ (Fetched(t) \/ Goto(t, "queue") \/ Reply(t))
    BY <1>7 DEF Get
  <2> QED
    BY <1>2, <1>3, <1>4, <1>7, <2>1 DEF Phase, Tooling, Looking, Storing
<1>8. CASE Recheck(t)
  BY <1>3, <1>8 DEF Recheck, ThreadInv
<1>9. CASE Load(t)
  BY <1>4, <1>9 DEF Load, ThreadInv, Phase, Tooling, Looking, Storing
<1>10. ASSUME NEW loads \in BOOLEAN, LoadEnds(t, loads)
       PROVE  Moved(t)
  <2>1. thread[t].left # <<>>
    BY <1>10 DEF LoadEnds, ThreadInv
  <2> QED
    BY <1>2, <1>3, <1>10, <2>1 DEF LoadEnds
<1>11. CASE Seeds(t) \/ Voiced(t) \/ Generate(t)
  <2>1. Goto(t, "voice") \/ Goto(t, "primed") \/ Goto(t, "drawing")
    BY <1>11 DEF Seeds, Voiced, Generate
  <2> QED
    BY <1>4, <2>1 DEF Phase, Tooling, Looking, Storing
<1>12. CASE Generated(t)
  <2> DEFINE right == /\ Stochastic(thread[t].req) => InSeed(t, home[t])
                      /\ Speaks(t) => voice[SpokenBy(t)] = VoiceOf(thread[t].req)
  <2>1. thread[t] \in ThreadState /\ right \in BOOLEAN /\ "store" \in Phase
    BY DEF WorkerTypeOK, Phase
  <2>2. thread' = [thread EXCEPT ![t] = [thread[t] EXCEPT !.at = "store", !.right = right]]
    BY <1>12 DEF Generated
  <2> HIDE DEF right
  <2>3. /\ [thread[t] EXCEPT !.at = "store", !.right = right] \in ThreadState
        /\ [thread[t] EXCEPT !.at = "store", !.right = right].at = "store"
    BY <2>1 DEF ThreadState
  <2> QED
    BY <1>1, <2>2, <2>3 DEF Moved, WorkerTypeOK, Looking, Storing
<1>13. CASE Open(t)
  BY <1>4, <1>13 DEF Open, Phase, Storing
<1>14. CASE Write(t) \/ Replace(t) \/ BeginType(t)
  <2>1. /\ thread[t].at \in Storing
        /\ Goto(t, "moving") \/ Goto(t, "typing") \/ Goto(t, "typed")
    BY <1>14 DEF Write, Replace, BeginType, Storing
  <2> QED
    BY <1>4, <2>1 DEF Phase, Storing
<1> QED
  BY <1>2, <1>5, <1>6, <1>7, <1>8, <1>9, <1>10, <1>11, <1>12, <1>13, <1>14 DEF Work

LEMMA ThreadInvMoved ==
  ASSUME WorkerTypeOK, ThreadInv, NEW t \in Thread, Moved(t)
  PROVE  ThreadInv'
<1>1. \A u \in Thread : thread'[u].at \in {"queue", "load"} => thread'[u].left # <<>>
  BY DEF ThreadInv, Moved
<1>2. \A u \in Thread : thread'[u].at # "idle" => home'[u] \in up'
  BY DEF ThreadInv, Moved, deployment
<1>3. ASSUME NEW u \in Thread, NEW v \in Thread, u # v, home[u] = home[v],
             thread'[u].at \in Looking \cup Storing
      PROVE  thread'[v].at \notin Looking \cup Storing
  <2>1. CASE t \notin {u, v}
    BY <1>3, <2>1 DEF ThreadInv, Moved
  <2>2. CASE t = u
    BY <1>3, <2>2 DEF ThreadInv, Moved, LoopFree
  <2>3. CASE t = v
    BY <1>3, <2>3 DEF ThreadInv, Moved, LoopFree
  <2> QED
    BY <2>1, <2>2, <2>3
<1> QED
  BY <1>1, <1>2, <1>3 DEF ThreadInv, Moved, deployment

\* Which step brings a thread to a phase, and what it takes along.
CameBy(t) ==
  LET old == thread[t]
      new == thread'[t]
  IN  /\ new.at \notin {"idle", "lookup"} => new.req = old.req
      /\ new.at = "load" => Load(t)
      /\ new.at = "voice" => Seeds(t)
      /\ new.at = "primed" => Seeds(t) \/ Voiced(t)
      /\ new.at = "drawing" => Generate(t)
      /\ new.at = "writing" => Open(t)
      /\ new.at = "moving" => Write(t)
      /\ new.at = "typing" => Replace(t)
      /\ new.at = "typed" => BeginType(t)
      /\ new.right \/ ~old.right \/ Generated(t)

LEMMA ArriveCameBy ==
  ASSUME WorkerTypeOK, NEW t \in Thread, NEW c \in JobCalls \cup RouteCalls,
         TakeJob(t, c) \/ Serve(t, c)
  PROVE  CameBy(t)
<1>1. \/ thread'[t] = Resting
      \/ c \in Key /\ thread'[t] = [Resting EXCEPT !.at = "lookup", !.req = c]
  BY ArriveMoves
<1>2. thread'[t].at \in {"idle", "lookup"} /\ thread'[t].right
  BY <1>1, RestingType DEF ThreadState
<1> QED
  BY <1>2 DEF CameBy

LEMMA WorkCameBy ==
  ASSUME WorkerTypeOK, ThreadInv, NEW t \in Thread, Work(t)
  PROVE  CameBy(t)
<1>1. ASSUME Reply(t)
      PROVE  CameBy(t)
  BY <1>1, ReplyMoves, RestingType DEF CameBy
<1>2. ASSUME thread[t].left # <<>>, Fetched(t)
      PROVE  CameBy(t)
  BY <1>2, FetchedMoves DEF CameBy
<1>3. ASSUME NEW phase \in Phase, Goto(t, phase),
             \/ phase \in {"hit", "queue"}
             \/ phase = "load" /\ Load(t)
             \/ phase = "voice" /\ Seeds(t)
             \/ phase = "primed" /\ (Seeds(t) \/ Voiced(t))
             \/ phase = "drawing" /\ Generate(t)
             \/ phase = "writing" /\ Open(t)
             \/ phase = "moving" /\ Write(t)
             \/ phase = "typing" /\ Replace(t)
             \/ phase = "typed" /\ BeginType(t)
      PROVE  CameBy(t)
  BY <1>3, GotoMoves DEF CameBy
<1>4. CASE \/ ReadHit(t) \/ Fails(t) \/ EndType(t)
          \/ OpenRaises(t) \/ WriteRaises(t) \/ ReplaceRaises(t) \/ TypeRaises(t)
  BY <1>1, <1>4 DEF ReadHit, Fails, EndType, OpenRaises, WriteRaises, ReplaceRaises, TypeRaises
<1>5. CASE Miss(t)
  <2>1. CASE Known(thread[t].req)
    <3>1. /\ thread[t] \in ThreadState
          /\ thread'[t] = [thread[t] EXCEPT !.at = "run", !.left = ModelsOf(thread[t].req)]
      BY <1>5, <2>1 DEF Miss, WorkerTypeOK
    <3> QED
      BY <3>1 DEF CameBy, ThreadState
  <2> QED
    BY <1>1, <1>5, <2>1 DEF Miss
<1>6. CASE Get(t)
  <2>1. thread[t].left # <<>> /\ (Fetched(t) \/ Goto(t, "queue") \/ Reply(t))
    BY <1>6 DEF Get
  <2> QED
    BY <1>1, <1>2, <1>3, <2>1 DEF Phase, Tooling
<1>7. CASE Recheck(t) \/ \E loads \in BOOLEAN : LoadEnds(t, loads)
  <2>1. thread[t].left # <<>> /\ (Fetched(t) \/ Reply(t))
    BY <1>7 DEF Recheck, LoadEnds, ThreadInv
  <2> QED
    BY <1>1, <1>2, <2>1
<1>8. CASE Generated(t)
  <2> DEFINE right == /\ Stochastic(thread[t].req) => InSeed(t, home[t])
                      /\ Speaks(t) => voice[SpokenBy(t)] = VoiceOf(thread[t].req)
  <2>1. /\ thread[t] \in ThreadState
        /\ thread'[t] = [thread[t] EXCEPT !.at = "store", !.right = right]
    BY <1>8 DEF Generated, WorkerTypeOK
  <2> HIDE DEF right
  <2> QED
    BY <1>8, <2>1 DEF CameBy, ThreadState
<1>9. CASE Find(t) \/ Load(t)
  BY <1>3, <1>9 DEF Find, Load, Phase, Looking, Tooling
<1>10. CASE Seeds(t) \/ Voiced(t) \/ Generate(t)
  <2>1. \/ Seeds(t) /\ (Goto(t, "voice") \/ Goto(t, "primed"))
        \/ Voiced(t) /\ Goto(t, "primed")
        \/ Generate(t) /\ Goto(t, "drawing")
    BY <1>10 DEF Seeds, Voiced, Generate
  <2> QED
    BY <1>3, <2>1 DEF Phase, Tooling
<1>11. CASE Open(t) \/ Write(t) \/ Replace(t) \/ BeginType(t)
  <2>1. \/ Open(t) /\ Goto(t, "writing")
        \/ Write(t) /\ Goto(t, "moving")
        \/ Replace(t) /\ Goto(t, "typing")
        \/ BeginType(t) /\ Goto(t, "typed")
    BY <1>11 DEF Open, Write, Replace, BeginType
  <2> QED
    BY <1>3, <2>1 DEF Phase, Storing
<1> QED
  BY <1>4, <1>5, <1>6, <1>7, <1>8, <1>9, <1>10, <1>11 DEF Work

\* A step is of one thread, or of a process that starts or dies.
LEMMA WorkerSteps ==
  ASSUME WorkerTypeOK, ThreadInv, [WorkerNext]_vars
  PROVE  \/ \E t \in Thread : Moved(t) /\ CameBy(t) /\
              (Work(t) \/ \E c \in JobCalls \cup RouteCalls : TakeJob(t, c) \/ Serve(t, c))
         \/ \E p \in Process : Build(p) \/ Crash(p)
         \/ UNCHANGED vars
BY ArriveMoves, ArriveCameBy, WorkMoves, WorkCameBy DEF WorkerNext, StartWorker, StartServer

\* What dies with a process is at rest when it is started again.
LEMMA CrashMoves ==
  ASSUME WorkerTypeOK, NEW p \in Process, Crash(p)
  PROVE  /\ thread' \in [Thread -> ThreadState]
         /\ \A t \in Thread : thread'[t] = IF home[t] = p THEN Resting ELSE thread[t]
         /\ up' = up \ {p} /\ UNCHANGED deployment
BY RestingType DEF WorkerTypeOK, Crash

LEMMA ThreadInvStep ==
  ASSUME WorkerTypeOK, ThreadInv, [WorkerNext]_vars
  PROVE  ThreadInv' /\ thread' \in [Thread -> ThreadState]
<1>1. ASSUME NEW t \in Thread, Moved(t)
      PROVE  ThreadInv' /\ thread' \in [Thread -> ThreadState]
  BY <1>1, ThreadInvMoved DEF Moved
<1>2. ASSUME NEW p \in Process, Build(p)
      PROVE  ThreadInv' /\ thread' \in [Thread -> ThreadState]
  BY <1>2 DEF Build, ThreadInv, deployment, WorkerTypeOK
<1>3. ASSUME NEW p \in Process, Crash(p)
      PROVE  ThreadInv' /\ thread' \in [Thread -> ThreadState]
  BY <1>3, CrashMoves, RestingType DEF ThreadInv, deployment, Looking, Storing
<1>4. CASE UNCHANGED vars
  BY <1>4 DEF vars, deployment, process, ThreadInv, WorkerTypeOK
<1> QED
  BY <1>1, <1>2, <1>3, <1>4, WorkerSteps

-----------------------------------------------------------------------------
(***************************************************************************)
(* Models                                                                  *)
(***************************************************************************)
\* The models of all processes, and who loads which.
ModelsOK == models' \subseteq Slot /\ locks' \in [Slot -> Thread \cup {Nobody}]

LEMMA WorkModels ==
  ASSUME NEW t \in Thread,
         \/ Work(t)
         \/ \E c \in JobCalls \cup RouteCalls : TakeJob(t, c) \/ Serve(t, c)
  PROVE  \/ Load(t)
         \/ \E loads \in BOOLEAN : LoadEnds(t, loads)
         \/ UNCHANGED modelCache
BY DEF Work, Find, ReadHit, Miss, Get, Recheck, FindLoaded, Seeds, Voiced, Generate, Generated,
       Fails, Open, Write, Replace, BeginType, EndType, OpenRaises, WriteRaises, ReplaceRaises,
       TypeRaises, TakeJob, Serve, Arrive, modelCache

LEMMA LoadMoves ==
  ASSUME WorkerTypeOK, ThreadInv, ModelInv, NEW t \in Thread, Load(t), Moved(t)
  PROVE  ModelsOK /\ ModelInv' /\ Loads!Next
<1>1. SlotOf(t) \in Slot /\ SlotOf(t)[1] = home[t] /\ home[t] \in up /\ UNCHANGED <<home, up>>
  BY SlotTypes DEF Load, ThreadInv, SlotOf, Moved, deployment
<1>2. /\ locks[SlotOf(t)] = Nobody /\ SlotOf(t) \notin models /\ UNCHANGED models
      /\ locks' = [locks EXCEPT ![SlotOf(t)] = t]
  BY DEF Load, BeginLoad, Loaded
<1>3. models \subseteq Slot /\ locks \in [Slot -> Thread \cup {Nobody}]
  BY DEF WorkerTypeOK, ModelCacheTypeOK
<1>4. \A u \in Thread \ {t} : SlotOf(u)' = SlotOf(u) /\ thread'[u] = thread[u]
  BY <1>1 DEF Moved, SlotOf
<1>5. SlotOf(t)' = SlotOf(t)
  BY <1>1, GotoMoves DEF Load, SlotOf, Phase, Tooling
<1>6. ModelInv'
  <2>1. \A s \in Slot : s \in models' \/ locks'[s] # Nobody => s[1] \in up'
    BY <1>1, <1>2, <1>3 DEF ModelInv
  <2>2. ASSUME NEW u \in Thread, thread'[u].at = "load"
        PROVE  locks'[SlotOf(u)'] = u
    <3>1. CASE u = t
      BY <1>1, <1>2, <1>3, <1>5, <3>1
    <3>2. CASE u # t
      <4>1. locks[SlotOf(u)] = u /\ SlotOf(u)' = SlotOf(u)
        BY <1>4, <2>2, <3>2 DEF ModelInv
      <4>2. SlotOf(u) # SlotOf(t)
        BY <1>2, <4>1, NameAssumption
      <4> QED
        BY <1>2, <1>3, <4>1, <4>2
    <3> QED
      BY <3>1, <3>2
  <2> QED
    BY <2>1, <2>2 DEF ModelInv
<1>7. Loads!Next
  <2>1. PICK s \in Slot : s = SlotOf(t)
    BY <1>1
  <2>2. Loads!Begin(s)
    BY <1>2, <1>3, <2>1, NameAssumption DEF Loads!Begin
  <2> QED
    BY <2>2 DEF Loads!Next, Slot
<1> QED
  BY <1>1, <1>2, <1>3, <1>6, <1>7 DEF ModelsOK

LEMMA LoadEndsMoves ==
  ASSUME WorkerTypeOK, ThreadInv, ModelInv, NEW t \in Thread, NEW loads \in BOOLEAN,
         LoadEnds(t, loads), Moved(t), CameBy(t)
  PROVE  ModelsOK /\ ModelInv' /\ Loads!Next
<1>1. SlotOf(t) \in Slot /\ SlotOf(t)[1] = home[t] /\ home[t] \in up /\ UNCHANGED <<home, up>>
  BY SlotTypes DEF LoadEnds, ThreadInv, SlotOf, Moved, deployment
<1>2. /\ locks[SlotOf(t)] = t
      /\ locks' = [locks EXCEPT ![SlotOf(t)] = Nobody]
      /\ models' = IF loads THEN models \cup {SlotOf(t)} ELSE models
  BY DEF LoadEnds, EndLoad, ModelInv
<1>3. models \subseteq Slot /\ locks \in [Slot -> Thread \cup {Nobody}]
  BY DEF WorkerTypeOK, ModelCacheTypeOK
<1>4. \A u \in Thread \ {t} : SlotOf(u)' = SlotOf(u) /\ thread'[u] = thread[u]
  BY <1>1 DEF Moved, SlotOf
<1>5. thread'[t].at # "load"
  BY DEF CameBy, Load, LoadEnds
<1>6. ModelInv'
  <2>1. \A s \in Slot : s \in models' \/ locks'[s] # Nobody => s[1] \in up'
    BY <1>1, <1>2, <1>3 DEF ModelInv
  <2>2. ASSUME NEW u \in Thread, thread'[u].at = "load"
        PROVE  locks'[SlotOf(u)'] = u
    <3>1. u # t /\ locks[SlotOf(u)] = u /\ SlotOf(u)' = SlotOf(u)
      BY <1>4, <1>5, <2>2 DEF ModelInv
    <3>2. SlotOf(u) # SlotOf(t)
      BY <1>2, <3>1
    <3> QED
      BY <1>2, <1>3, <3>1, <3>2
  <2> QED
    BY <2>1, <2>2 DEF ModelInv
<1>7. Loads!Next
  <2>1. PICK s \in Slot : s = SlotOf(t)
    BY <1>1
  <2>2. s \in {r \in Slot : locks[r] # Nobody}
    BY <1>2, <2>1, NameAssumption
  <2>3. {r \in Slot : locks'[r] # Nobody} = {r \in Slot : locks[r] # Nobody} \ {s}
    BY <1>2, <1>3, <2>1
  <2>4. Loads!Succeed(s) \/ Loads!Fail(s)
    BY <1>2, <2>1, <2>2, <2>3 DEF Loads!Succeed, Loads!Fail
  <2> QED
    BY <2>4 DEF Loads!Next, Slot
<1> QED
  BY <1>1, <1>2, <1>3, <1>6, <1>7 DEF ModelsOK

LEMMA BuildModels ==
  ASSUME WorkerTypeOK, ModelInv, NEW p \in Process, Build(p)
  PROVE  /\ ModelsOK /\ ModelInv' /\ mounted' \in [Process -> SUBSET ToolName]
         /\ Loads!Start(p)
<1>1. /\ p \notin up /\ up' = up \cup {p} /\ UNCHANGED <<home, thread>>
      /\ Warm(p, Wanted(mounted'[p]))
  BY DEF Build, deployment
<1>2. mounted' \in [Process -> SUBSET ToolName] /\ mounted'[p] \in SUBSET ToolName
  BY ImagesAssumption DEF Build, Discover, WorkerTypeOK
<1>3. Wanted(mounted'[p]) \in SUBSET Model
  BY <1>2, WantedType
<1>4. PICK got \in SUBSET Model : models' = models \cup ({p} \X got) /\ UNCHANGED locks
  BY <1>1, <1>3 DEF Warm
<1>5. models \subseteq Slot /\ locks \in [Slot -> Thread \cup {Nobody}]
  BY DEF WorkerTypeOK, ModelCacheTypeOK
<1>6. ModelsOK
  BY <1>4, <1>5 DEF ModelsOK, Slot
<1>7. ModelInv'
  BY <1>1, <1>4, <1>5 DEF ModelInv, SlotOf
<1>8. Loads!Start(p)
  <2>1. \A s \in Slot : s \in models \/ locks[s] # Nobody => s \notin {p} \X Model
    BY <1>1 DEF ModelInv
  <2> QED
    BY <1>4, <1>5, <2>1 DEF Loads!Start, Loads!Of
<1> QED
  BY <1>2, <1>6, <1>7, <1>8

LEMMA CrashModels ==
  ASSUME WorkerTypeOK, ThreadInv, ModelInv, NEW p \in Process, Crash(p)
  PROVE  /\ ModelsOK /\ ModelInv' /\ mounted' \in [Process -> SUBSET ToolName]
         /\ Loads!End(p)
<1>1. /\ models' = models \ ({p} \X Model)
      /\ locks' = [s \in Slot |-> IF s \in {p} \X Model THEN Nobody ELSE locks[s]]
      /\ mounted' = [mounted EXCEPT ![p] = {}]
  BY DEF Crash, Forget, SlotsOf
<1>2. models \subseteq Slot /\ locks \in [Slot -> Thread \cup {Nobody}]
  BY DEF WorkerTypeOK, ModelCacheTypeOK
<1>3. ModelsOK /\ mounted' \in [Process -> SUBSET ToolName]
  BY <1>1, <1>2 DEF ModelsOK, WorkerTypeOK
<1>4. ModelInv'
  <2>1. \A s \in Slot : s \in models' \/ locks'[s] # Nobody => s[1] \in up'
    BY <1>1, <1>2, CrashMoves DEF ModelInv, Slot
  <2>2. ASSUME NEW t \in Thread, thread'[t].at = "load"
        PROVE  locks'[SlotOf(t)'] = t
    <3>1. home[t] # p /\ thread'[t] = thread[t] /\ UNCHANGED home
      BY <2>2, CrashMoves, RestingType DEF deployment
    <3>2. SlotOf(t)' = SlotOf(t) /\ SlotOf(t) \in Slot /\ SlotOf(t)[1] # p
      BY <2>2, <3>1, SlotTypes DEF SlotOf, ThreadInv
    <3> QED
      BY <1>1, <2>2, <3>1, <3>2 DEF ModelInv
  <2> QED
    BY <2>1, <2>2 DEF ModelInv
<1>5. Loads!End(p)
  BY <1>1, <1>2 DEF Loads!End, Loads!Of
<1> QED
  BY <1>3, <1>4, <1>5

LEMMA SameModels ==
  ASSUME WorkerTypeOK, ModelInv, NEW t \in Thread, Moved(t), CameBy(t),
         UNCHANGED modelCache, ~Load(t)
  PROVE  ModelsOK /\ ModelInv'
<1>1. UNCHANGED <<models, locks, home, up>>
  BY DEF modelCache, Moved, deployment
<1>2. \A u \in Thread : thread'[u].at = "load" => thread'[u] = thread[u]
  BY DEF Moved, CameBy
<1> QED
  BY <1>1, <1>2 DEF WorkerTypeOK, ModelCacheTypeOK, ModelsOK, ModelInv, SlotOf

\* What a step does to the models of the processes, of those that ModelLoads allows.
LEMMA ModelStep ==
  ASSUME WorkerTypeOK, ThreadInv, ModelInv, [WorkerNext]_vars
  PROVE  ModelsOK /\ ModelInv' /\ (Loads!Next \/ UNCHANGED modelCache)
<1>1. ASSUME NEW t \in Thread, Moved(t), CameBy(t),
             \/ Work(t)
             \/ \E c \in JobCalls \cup RouteCalls : TakeJob(t, c) \/ Serve(t, c)
      PROVE  ModelsOK /\ ModelInv' /\ (Loads!Next \/ UNCHANGED modelCache)
  <2>1. CASE Load(t)
    BY <1>1, <2>1, LoadMoves
  <2>2. ASSUME NEW loads \in BOOLEAN, LoadEnds(t, loads)
        PROVE  ModelsOK /\ ModelInv' /\ Loads!Next
    BY <1>1, <2>2, LoadEndsMoves
  <2>3. CASE UNCHANGED modelCache /\ ~Load(t)
    BY <1>1, <2>3, SameModels
  <2> QED
    BY <1>1, <2>1, <2>2, <2>3, WorkModels
<1>2. ASSUME NEW p \in Process, Build(p) \/ Crash(p)
      PROVE  ModelsOK /\ ModelInv' /\ Loads!Next
  BY <1>2, BuildModels, CrashModels DEF Loads!Next
<1>3. CASE UNCHANGED vars
  BY <1>3 DEF vars, modelCache, deployment, process, ModelsOK, ModelInv, SlotOf, WorkerTypeOK,
              ModelCacheTypeOK
<1> QED
  BY <1>1, <1>2, <1>3, WorkerSteps

\* A thread starts and ends no process.  Only the raise of a media type tears a `put`,
\* and only an opened file is one that others may share.
LEMMA WorkKeeps ==
  ASSUME NEW t \in Thread,
         \/ Work(t)
         \/ \E c \in JobCalls \cup RouteCalls : TakeJob(t, c) \/ Serve(t, c)
  PROVE  /\ UNCHANGED <<deployment, process>>
         /\ torn' = torn \/ (TypeRaises(t) /\ torn' = torn \cup {thread[t].req})
         /\ raced' = raced \/ (Open(t) /\ raced' = raced \cup {thread[t].req})
BY DEF Work, Find, ReadHit, Miss, Get, Recheck, Load, LoadEnds, Seeds, Voiced, Generate,
       Generated, Fails, Open, Write, Replace, BeginType, EndType, OpenRaises, WriteRaises,
       ReplaceRaises, TypeRaises, TakeJob, Serve, Arrive, history

LEMMA HistoryStep ==
  ASSUME WorkerTypeOK, [WorkerNext]_vars
  PROVE  torn' \subseteq Key /\ raced' \subseteq Key
<1>1. ASSUME NEW t \in Thread,
             \/ Work(t)
             \/ \E c \in JobCalls \cup RouteCalls : TakeJob(t, c) \/ Serve(t, c)
      PROVE  torn' \subseteq Key /\ raced' \subseteq Key
  <2>1. thread[t].req \in Key
    BY DEF WorkerTypeOK, ThreadState
  <2> QED
    BY <1>1, <2>1, WorkKeeps DEF WorkerTypeOK
<1>2. ASSUME NEW p \in Process, Build(p) \/ Crash(p)
      PROVE  torn' \subseteq Key /\ raced' \subseteq Key
  BY <1>2 DEF Build, Crash, history, WorkerTypeOK
<1>3. CASE UNCHANGED vars
  BY <1>3 DEF vars, history, WorkerTypeOK
<1> QED
  BY <1>1, <1>2, <1>3 DEF WorkerNext, StartWorker, StartServer

\* What a process has mounted, and whether it is up.
LEMMA ProcessStep ==
  ASSUME WorkerTypeOK, [WorkerNext]_vars
  PROVE  /\ home' \in [Thread -> Process] /\ pid' \in [Process -> Pid]
         /\ mounted' \in [Process -> SUBSET ToolName] /\ up' \subseteq Process
<1>1. ASSUME NEW p \in Process, Build(p)
      PROVE  /\ mounted' \in [Process -> SUBSET ToolName] /\ up' \subseteq Process
             /\ UNCHANGED deployment
  BY <1>1, ImagesAssumption DEF WorkerTypeOK, Build, Discover
<1>2. ASSUME NEW p \in Process, Crash(p)
      PROVE  /\ mounted' \in [Process -> SUBSET ToolName] /\ up' \subseteq Process
             /\ UNCHANGED deployment
  BY <1>2 DEF WorkerTypeOK, Crash
<1> QED
  BY <1>1, <1>2, WorkKeeps
     DEF WorkerNext, StartWorker, StartServer, WorkerTypeOK, vars, deployment, process

LEMMA CallsStep == WorkerTypeOK /\ [WorkerNext]_vars => calls' \in 0..MaxCalls
<1> SUFFICES ASSUME WorkerTypeOK, [WorkerNext]_vars
             PROVE  calls' \in 0..MaxCalls
  OBVIOUS
<1>1. ASSUME NEW t \in Thread, NEW c \in JobCalls \cup RouteCalls, TakeJob(t, c) \/ Serve(t, c)
      PROVE  calls' \in 0..MaxCalls
  BY <1>1, CallsAssumption DEF WorkerTypeOK, TakeJob, Serve, Arrive
<1>2. ASSUME NEW p \in Process, Build(p) \/ Crash(p)
      PROVE  UNCHANGED calls
  BY <1>2 DEF Build, Crash
<1>3. ASSUME NEW t \in Thread, Work(t)
      PROVE  UNCHANGED calls
  BY <1>3 DEF Work, Find, ReadHit, Miss, Get, Recheck, Load, LoadEnds, Seeds, Voiced, Generate,
              Generated, Fails, Open, Write, Replace, BeginType, EndType, OpenRaises,
              WriteRaises, ReplaceRaises, TypeRaises
<1> QED
  BY <1>1, <1>2, <1>3 DEF WorkerNext, StartWorker, StartServer, WorkerTypeOK, vars

-----------------------------------------------------------------------------
(***************************************************************************)
(* Voices and random numbers                                               *)
(***************************************************************************)
VoicesOK == VoicesTypeOK' /\ RightVoice'

LEMMA WorkVoices ==
  ASSUME NEW t \in Thread,
         \/ Work(t)
         \/ \E c \in JobCalls \cup RouteCalls : TakeJob(t, c) \/ Serve(t, c)
  PROVE  \/ Seeds(t) \/ Voiced(t) \/ Generate(t) \/ Generated(t) \/ Fails(t)
         \/ UNCHANGED voices
BY DEF Work, Find, ReadHit, Miss, Get, Recheck, Load, LoadEnds, Open, Write, Replace,
       BeginType, EndType, OpenRaises, WriteRaises, ReplaceRaises, TypeRaises, TakeJob, Serve,
       Arrive, voices

\* Another thread's line goes on as it did.
LEMMA OthersSpeak ==
  ASSUME NEW t \in Thread, Moved(t), NEW u \in Thread \ {t}
  PROVE  /\ thread'[u] = thread[u] /\ SpokenBy(u)' = SpokenBy(u) /\ Speaks(u)' = Speaks(u)
BY DEF Moved, deployment, SpokenBy, Speaks

LEMMA VoicedMoves ==
  ASSUME WorkerTypeOK, RightVoice, NEW t \in Thread, Voiced(t), Moved(t), CameBy(t)
  PROVE  VoicesOK
<1> DEFINE s == SpokenBy(t)
<1>1. /\ speaking[s] = Nobody /\ UNCHANGED seeded
      /\ speaking' = [speaking EXCEPT ![s] = t]
      /\ voice' = [voice EXCEPT ![s] = VoiceOf(thread[t].req)]
  BY DEF Voiced, PutVoice
<1>2. VoicesTypeOK
  BY DEF WorkerTypeOK
<1>3. VoiceOf(thread[t].req) \in Voice
  BY VoiceType, KeyTypes DEF WorkerTypeOK, ThreadState
<1>4. VoicesTypeOK'
  BY <1>1, <1>2, <1>3 DEF VoicesTypeOK
<1>5. ASSUME NEW u \in Thread, Speaks(u)', thread'[u].at \in {"primed", "drawing"}
      PROVE  /\ speaking'[SpokenBy(u)'] = u
             /\ voice'[SpokenBy(u)'] = VoiceOf(thread'[u].req)
  <2>1. CASE u = t
    <3>1. thread'[t].req = thread[t].req /\ Speaks(t) /\ SpokenBy(t)' = s
      BY <1>5, <2>1, GotoMoves DEF Voiced, Phase, Tooling, Speaks, SpokenBy, Moved, deployment
    <3>2. s \in Process \X Model
      BY <3>1, SpokenByType
    <3> QED
      BY <1>1, <1>2, <2>1, <3>1, <3>2 DEF VoicesTypeOK
  <2>2. CASE u # t
    <3>1. /\ Speaks(u) /\ thread[u].at \in {"primed", "drawing"}
          /\ SpokenBy(u)' = SpokenBy(u) /\ thread'[u] = thread[u]
      BY <1>5, <2>2, OthersSpeak
    <3>2. speaking[SpokenBy(u)] = u /\ voice[SpokenBy(u)] = VoiceOf(thread[u].req)
      BY <3>1 DEF RightVoice
    <3>3. SpokenBy(u) # s
      BY <1>1, <3>2, NameAssumption
    <3> HIDE DEF s
    <3> QED
      BY <1>1, <1>2, <3>1, <3>2, <3>3, SpokenByType DEF VoicesTypeOK
  <2> QED
    BY <2>1, <2>2
<1> QED
  BY <1>4, <1>5 DEF VoicesOK, RightVoice

\* A line that ends lets go of its own lock, and of no other.
LEMMA UnlockMoves ==
  ASSUME WorkerTypeOK, RightVoice, NEW t \in Thread, Moved(t), Unlock(t),
         thread'[t].at \notin {"primed", "drawing"},
         seeded' \in [Process -> Thread \cup {Nobody}], UNCHANGED voice
  PROVE  VoicesOK
<1>1. VoicesTypeOK
  BY DEF WorkerTypeOK
<1>2. VoicesTypeOK'
  BY <1>1 DEF VoicesTypeOK, Unlock
<1>3. ASSUME NEW u \in Thread, Speaks(u)', thread'[u].at \in {"primed", "drawing"}
      PROVE  /\ speaking'[SpokenBy(u)'] = u
             /\ voice'[SpokenBy(u)'] = VoiceOf(thread'[u].req)
  <2>1. /\ u # t /\ Speaks(u) /\ thread[u].at \in {"primed", "drawing"}
        /\ SpokenBy(u)' = SpokenBy(u) /\ thread'[u] = thread[u]
    BY <1>3, OthersSpeak
  <2>2. /\ speaking[SpokenBy(u)] = u /\ voice[SpokenBy(u)] = VoiceOf(thread[u].req)
        /\ SpokenBy(u) \in Process \X Model
    BY <2>1, SpokenByType DEF RightVoice
  <2> QED
    BY <2>1, <2>2 DEF Unlock
<1> QED
  BY <1>2, <1>3 DEF VoicesOK, RightVoice

\* A step that puts no voice on a model and takes no lock.
LEMMA VoicesStay ==
  ASSUME WorkerTypeOK, RightVoice, NEW t \in Thread, Moved(t), CameBy(t), ~Voiced(t),
         UNCHANGED <<voice, speaking>>, seeded' \in [Process -> Thread \cup {Nobody}]
  PROVE  VoicesOK
<1>1. VoicesTypeOK'
  BY DEF WorkerTypeOK, VoicesTypeOK
<1>2. ASSUME Speaks(t)', thread'[t].at \in {"primed", "drawing"}
      PROVE  /\ Speaks(t) /\ thread[t].at = "primed"
             /\ SpokenBy(t)' = SpokenBy(t) /\ thread'[t].req = thread[t].req
  <2>1. thread'[t].req = thread[t].req /\ (Seeds(t) \/ Generate(t))
    BY <1>2 DEF CameBy
  <2>2. Speaks(t) /\ SpokenBy(t)' = SpokenBy(t)
    BY <1>2, <2>1 DEF Speaks, SpokenBy, Moved, deployment
  <2>3. ~Seeds(t)
    <3>1. Seeds(t) => Goto(t, "voice")
      BY <2>2 DEF Seeds
    <3> QED
      BY <1>2, <3>1, GotoMoves DEF Phase, Tooling
  <2> QED
    BY <2>1, <2>2, <2>3 DEF Generate
<1>3. ASSUME NEW u \in Thread, Speaks(u)', thread'[u].at \in {"primed", "drawing"}
      PROVE  /\ speaking'[SpokenBy(u)'] = u
             /\ voice'[SpokenBy(u)'] = VoiceOf(thread'[u].req)
  <2>1. /\ Speaks(u) /\ thread[u].at \in {"primed", "drawing"}
        /\ SpokenBy(u)' = SpokenBy(u) /\ thread'[u].req = thread[u].req
    BY <1>2, <1>3, OthersSpeak
  <2> QED
    BY <2>1 DEF RightVoice
<1> QED
  BY <1>1, <1>3 DEF VoicesOK, RightVoice

LEMMA CrashVoices ==
  ASSUME WorkerTypeOK, RightVoice, NEW p \in Process, Crash(p)
  PROVE  VoicesOK
<1>1. /\ seeded' = [seeded EXCEPT ![p] = Nobody]
      /\ voice' = [s \in Process \X Model |-> IF s[1] = p THEN OwnVoice ELSE voice[s]]
      /\ speaking' = [s \in Process \X Model |-> IF s[1] = p THEN Nobody ELSE speaking[s]]
  BY DEF Crash, Hush
<1>2. VoicesTypeOK'
  BY <1>1 DEF WorkerTypeOK, VoicesTypeOK, Voice
<1>3. ASSUME NEW u \in Thread, Speaks(u)', thread'[u].at \in {"primed", "drawing"}
      PROVE  /\ speaking'[SpokenBy(u)'] = u
             /\ voice'[SpokenBy(u)'] = VoiceOf(thread'[u].req)
  <2>1. home[u] # p /\ thread'[u] = thread[u] /\ UNCHANGED home
    BY <1>3, CrashMoves, RestingType DEF deployment
  <2>2. Speaks(u) /\ SpokenBy(u)' = SpokenBy(u) /\ SpokenBy(u)[1] = home[u]
    BY <1>3, <2>1 DEF Speaks, SpokenBy
  <2>3. /\ speaking[SpokenBy(u)] = u /\ voice[SpokenBy(u)] = VoiceOf(thread[u].req)
        /\ SpokenBy(u) \in Process \X Model
    BY <1>3, <2>1, <2>2, SpokenByType DEF RightVoice
  <2> QED
    BY <1>1, <2>1, <2>2, <2>3
<1> QED
  BY <1>2, <1>3 DEF VoicesOK, RightVoice

LEMMA VoiceStep ==
  ASSUME WorkerTypeOK, ThreadInv, RightVoice, [WorkerNext]_vars
  PROVE  VoicesOK
<1>1. ASSUME NEW t \in Thread, Moved(t), CameBy(t),
             \/ Work(t)
             \/ \E c \in JobCalls \cup RouteCalls : TakeJob(t, c) \/ Serve(t, c)
      PROVE  VoicesOK
  <2>1. /\ seeded \in [Process -> Thread \cup {Nobody}] /\ home[t] \in Process
    BY DEF WorkerTypeOK, VoicesTypeOK
  <2>2. CASE Voiced(t)
    BY <1>1, <2>2, VoicedMoves
  <2>3. CASE (Seeds(t) \/ Generate(t)) /\ ~Voiced(t)
    <3>1. UNCHANGED <<voice, speaking>> /\ seeded' \in [Process -> Thread \cup {Nobody}]
      BY <2>1, <2>3 DEF Seeds, SetSeed, Generate, Draw
    <3> QED
      BY <1>1, <2>3, <3>1, VoicesStay
  <2>4. CASE Generated(t) \/ Fails(t)
    <3>1. /\ Unlock(t) /\ UNCHANGED voice
          /\ seeded' \in [Process -> Thread \cup {Nobody}]
      BY <2>1, <2>4 DEF Generated, Spend, Fails
    <3>2. thread'[t].at \notin {"primed", "drawing"}
      <4>1. CASE Generated(t)
        BY <1>1, <4>1 DEF CameBy, Seeds, Voiced, Generate, Generated
      <4>2. CASE Fails(t)
        BY <4>2, ReplyMoves, RestingType DEF Fails
      <4> QED
        BY <2>4, <4>1, <4>2
    <3> QED
      BY <1>1, <3>1, <3>2, UnlockMoves
  <2>5. CASE UNCHANGED voices /\ ~Voiced(t)
    BY <1>1, <2>1, <2>5, VoicesStay DEF voices
  <2> QED
    BY <1>1, <2>2, <2>3, <2>4, <2>5, WorkVoices
<1>2. ASSUME NEW p \in Process, Build(p)
      PROVE  VoicesOK
  BY <1>2 DEF Build, deployment, voices, VoicesOK, RightVoice, WorkerTypeOK, VoicesTypeOK,
              Speaks, SpokenBy
<1>3. CASE UNCHANGED vars
  BY <1>3 DEF vars, deployment, voices, VoicesOK, RightVoice, WorkerTypeOK, VoicesTypeOK,
              Speaks, SpokenBy
<1> QED
  BY <1>1, <1>2, <1>3, CrashVoices, WorkerSteps

-----------------------------------------------------------------------------
(***************************************************************************)
(* Files                                                                   *)
(***************************************************************************)
LEMMA NoFileType == NoFile \notin File
<1>1. ASSUME NoFile \in File
      PROVE  FALSE
  <2>1. DOMAIN NoFile = {"whole", "right", "last", "writers"}
    BY <1>1 DEF File
  <2>2. DOMAIN NoFile = {"whole"}
    BY DEF NoFile
  <2>3. "right" \in DOMAIN NoFile /\ "right" \notin DOMAIN NoFile
    BY <2>1, <2>2
  <2> QED
    BY <2>3
<1> QED
  BY <1>1

LEMMA TempType ==
  ASSUME WorkerTypeOK, NEW t \in Thread
  PROVE  TempName(t) \in Pid /\ TempName(t) \in Name /\ TempName(t) # Blob
BY NameAssumption DEF WorkerTypeOK, TempName, TempOf, Name

\* What a writer leaves of a file that it has open.
LEMMA WrittenType ==
  ASSUME NEW f \in File \cup {NoFile}, NEW t \in Thread, NEW right \in BOOLEAN,
         NEW all \in BOOLEAN
  PROVE  LET g == Written(f, t, right, all)
         IN  /\ g \in File \cup {NoFile}
             /\ g = NoFile <=> f = NoFile
             /\ f # NoFile =>
                  /\ g.last = f.last
                  /\ f.whole => g.whole
                  /\ all /\ f.last = t /\ t \in f.writers => g.whole
                  /\ f.right /\ right => g.right
                  /\ \A u \in f.writers : u # t => u \in g.writers
<1> DEFINE afresh == all /\ f.last = t
           g == [whole   |-> f.whole \/ afresh,
                 right   |-> right /\ (f.right \/ afresh),
                 last    |-> f.last,
                 writers |-> f.writers \ {t}]
<1>1. CASE f = NoFile \/ t \notin f.writers
  <2>1. Written(f, t, right, all) = f
    BY <1>1 DEF Written
  <2> QED
    BY <1>1, <2>1
<1>2. CASE f # NoFile /\ t \in f.writers
  <2>1. Written(f, t, right, all) = g
    BY <1>2 DEF Written
  <2>2. f \in File /\ afresh \in BOOLEAN
    BY <1>2
  <2>3. /\ f.whole \in BOOLEAN /\ f.right \in BOOLEAN /\ f.last \in Thread
        /\ f.writers \in SUBSET Thread
    BY <2>2 DEF File
  <2>4. afresh <=> all /\ f.last = t
    OBVIOUS
  <2> HIDE DEF afresh
  <2>5. g \in File
    BY <2>2, <2>3 DEF File
  <2>6. /\ g.last = f.last
        /\ f.whole => g.whole
        /\ all /\ f.last = t => g.whole
        /\ f.right /\ right => g.right
        /\ \A u \in f.writers : u # t => u \in g.writers
    BY <2>2, <2>3, <2>4
  <2> HIDE DEF g
  <2> QED
    BY <1>2, <2>1, <2>5, <2>6, NoFileType
<1> QED
  BY <1>1, <1>2

LEMMA FileTypes ==
  ASSUME WorkerTypeOK, NEW k \in Key, NEW n \in Name
  PROVE  files[k][n] \in File \cup {NoFile}
BY DEF WorkerTypeOK, CacheTypeOK

LEMMA RequestTypes ==
  ASSUME WorkerTypeOK, NEW t \in Thread
  PROVE  thread[t].req \in Key /\ thread[t].right \in BOOLEAN
BY DEF WorkerTypeOK, ThreadState

LEMMA WorkCache ==
  ASSUME NEW t \in Thread,
         \/ Work(t)
         \/ \E c \in JobCalls \cup RouteCalls : TakeJob(t, c) \/ Serve(t, c)
  PROVE  \/ Open(t) \/ Write(t) \/ WriteRaises(t) \/ Replace(t)
         \/ BeginType(t) \/ EndType(t) \/ (TypeRaises(t) /\ UNCHANGED cache)
         \/ UNCHANGED cache /\ thread[t].at \notin {"writing", "typing", "typed"}
BY DEF Work, Find, ReadHit, Miss, Get, Recheck, Load, LoadEnds, Seeds, Voiced, Generate,
       Generated, Fails, OpenRaises, ReplaceRaises, TypeRaises, TakeJob, Serve, Arrive, cache

\* What each step of a `put` does to the files of its own key, and of the others.
LEMMA OpenFiles ==
  ASSUME WorkerTypeOK, NEW t \in Thread, Open(t)
  PROVE  \E new \in File :
           /\ new.right /\ new.last = t /\ t \in new.writers
           /\ files' \in [Key -> [Name -> File \cup {NoFile}]]
           /\ \A k \in Key, n \in Name :
                files'[k][n] = IF k = thread[t].req /\ n = TempName(t) THEN new ELSE files[k][n]
<1> DEFINE k0 == thread[t].req
           n0 == TempName(t)
           old == IF files[k0][n0] = NoFile THEN {} ELSE files[k0][n0].writers
           new == [whole |-> FALSE, right |-> TRUE, last |-> t, writers |-> old \cup {t}]
<1>1. k0 \in Key /\ n0 \in Name /\ files \in [Key -> [Name -> File \cup {NoFile}]]
  BY RequestTypes, TempType DEF WorkerTypeOK, CacheTypeOK
<1>2. old \in SUBSET Thread
  BY <1>1, FileTypes DEF File
<1>3. new \in File /\ new.right /\ new.last = t /\ t \in new.writers
  BY <1>2 DEF File
<1>4. files' = [files EXCEPT ![k0][n0] = new]
  BY DEF Open, OpenTemp
<1> HIDE DEF k0, n0, new
<1>5. \A k \in Key, n \in Name :
        files'[k][n] = IF k = k0 /\ n = n0 THEN new ELSE files[k][n]
  BY <1>1, <1>4
<1>6. files' \in [Key -> [Name -> File \cup {NoFile}]]
  BY <1>1, <1>3, <1>4
<1> QED
  BY <1>3, <1>5, <1>6 DEF k0, n0

LEMMA WriteFiles ==
  ASSUME WorkerTypeOK, NEW t \in Thread, Write(t) \/ WriteRaises(t)
  PROVE  \E all \in BOOLEAN :
           /\ Write(t) => all
           /\ files' \in [Key -> [Name -> File \cup {NoFile}]]
           /\ \A k \in Key, n \in Name :
                files'[k][n] = IF k = thread[t].req
                                 THEN Written(files[k][n], t, thread[t].right, all)
                                 ELSE files[k][n]
<1>1. /\ thread[t].req \in Key /\ thread[t].right \in BOOLEAN
      /\ files \in [Key -> [Name -> File \cup {NoFile}]]
  BY RequestTypes DEF WorkerTypeOK, CacheTypeOK
<1>2. PICK all \in BOOLEAN :
        /\ Write(t) => all
        /\ files' = [files EXCEPT ![thread[t].req] =
             [n \in Name |-> Written(files[thread[t].req][n], t, thread[t].right, all)]]
  <2>1. CASE Write(t)
    BY <2>1 DEF Write, WriteOut
  <2>2. CASE ~Write(t)
    BY <2>2 DEF WriteRaises, WriteOut
  <2> QED
    BY <2>1, <2>2
<1>3. \A k \in Key, n \in Name :
        Written(files[k][n], t, thread[t].right, all) \in File \cup {NoFile}
  BY <1>1, FileTypes, WrittenType
<1>4. files' \in [Key -> [Name -> File \cup {NoFile}]]
  BY <1>1, <1>2, <1>3
<1>5. \A k \in Key, n \in Name :
        files'[k][n] = IF k = thread[t].req
                         THEN Written(files[k][n], t, thread[t].right, all)
                         ELSE files[k][n]
  BY <1>1, <1>2
<1> QED
  BY <1>2, <1>4, <1>5

LEMMA ReplaceFiles ==
  ASSUME WorkerTypeOK, NEW t \in Thread, Replace(t)
  PROVE  /\ files[thread[t].req][TempName(t)] # NoFile
         /\ files' \in [Key -> [Name -> File \cup {NoFile}]]
         /\ \A k \in Key, n \in Name :
              files'[k][n] = IF k # thread[t].req THEN files[k][n]
                             ELSE IF n = Blob THEN files[k][TempName(t)]
                             ELSE IF n = TempName(t) THEN NoFile
                             ELSE files[k][n]
<1> DEFINE k0 == thread[t].req
           n0 == TempName(t)
<1>1. /\ k0 \in Key /\ n0 \in Name /\ n0 # Blob /\ Blob \in Name
      /\ files \in [Key -> [Name -> File \cup {NoFile}]]
  BY RequestTypes, TempType DEF WorkerTypeOK, CacheTypeOK, Name
<1>2. /\ files[k0][n0] # NoFile
      /\ files' = [files EXCEPT ![k0][Blob] = files[k0][n0], ![k0][n0] = NoFile]
  BY DEF Replace, Publish
<1> HIDE DEF k0, n0
<1>3. files' = [files EXCEPT ![k0] = [files[k0] EXCEPT ![Blob] = files[k0][n0], ![n0] = NoFile]]
  BY <1>1, <1>2
<1>4. [files[k0] EXCEPT ![Blob] = files[k0][n0], ![n0] = NoFile] \in [Name -> File \cup {NoFile}]
  BY <1>1
<1>5. files' \in [Key -> [Name -> File \cup {NoFile}]]
  BY <1>1, <1>3, <1>4
<1>6. \A k \in Key, n \in Name :
        files'[k][n] = IF k # k0 THEN files[k][n]
                       ELSE IF n = Blob THEN files[k][n0]
                       ELSE IF n = n0 THEN NoFile
                       ELSE files[k][n]
  BY <1>1, <1>3
<1> QED
  BY <1>2, <1>5, <1>6 DEF k0, n0

LEMMA CrashFiles ==
  ASSUME WorkerTypeOK, NEW p \in Process, Crash(p)
  PROVE  /\ files' \in [Key -> [Name -> File \cup {NoFile}]]
         /\ \A k \in Key, n \in Name :
              /\ files'[k][n] = NoFile <=> files[k][n] = NoFile
              /\ files[k][n] # NoFile =>
                   /\ files'[k][n].whole = files[k][n].whole
                   /\ files'[k][n].right = files[k][n].right
                   /\ files'[k][n].last = files[k][n].last
                   /\ files'[k][n].writers = files[k][n].writers \ ThreadsOf(p)
<1> DEFINE Closed(f) == [f EXCEPT !.writers = @ \ ThreadsOf(p)]
<1>1. ASSUME NEW f \in File
      PROVE  /\ Closed(f) \in File
             /\ Closed(f).whole = f.whole /\ Closed(f).right = f.right /\ Closed(f).last = f.last
             /\ Closed(f).writers = f.writers \ ThreadsOf(p)
  BY <1>1 DEF File
<1>2. files' = [k \in Key |-> [n \in Name |->
                  IF files[k][n] = NoFile THEN NoFile ELSE Closed(files[k][n])]]
  BY DEF Crash, CloseAll
<1> HIDE DEF Closed
<1>3. \A k \in Key, n \in Name : files[k][n] = NoFile \/ files[k][n] \in File
  BY FileTypes
<1> QED
  BY <1>1, <1>2, <1>3, NoFileType

LEMMA CacheStep ==
  ASSUME WorkerTypeOK, ThreadInv, [WorkerNext]_vars
  PROVE  CacheTypeOK'
<1>1. files \in [Key -> [Name -> File \cup {NoFile}]]
      /\ types \in [Key -> {"none", "empty", "typed"}]
  BY DEF WorkerTypeOK, CacheTypeOK
<1>2. ASSUME NEW t \in Thread,
             \/ Work(t)
             \/ \E c \in JobCalls \cup RouteCalls : TakeJob(t, c) \/ Serve(t, c)
      PROVE  CacheTypeOK'
  <2>1. CASE Open(t) \/ Write(t) \/ WriteRaises(t) \/ Replace(t)
    <3>1. UNCHANGED types
      BY <2>1 DEF Open, Write, WriteRaises, Replace
    <3> QED
      BY <1>1, <2>1, <3>1, OpenFiles, WriteFiles, ReplaceFiles DEF CacheTypeOK
  <2>2. CASE BeginType(t) \/ EndType(t)
    BY <1>1, <2>2, RequestTypes DEF BeginType, OpenType, EndType, WriteType, CacheTypeOK
  <2>3. CASE UNCHANGED cache
    BY <1>1, <2>3 DEF cache, CacheTypeOK
  <2> QED
    BY <1>2, <2>1, <2>2, <2>3, WorkCache
<1>3. ASSUME NEW p \in Process, Crash(p)
      PROVE  CacheTypeOK'
  <2>1. UNCHANGED types
    BY <1>3 DEF Crash
  <2> QED
    BY <1>1, <1>3, <2>1, CrashFiles DEF CacheTypeOK
<1>4. ASSUME (\E p \in Process : Build(p)) \/ UNCHANGED vars
      PROVE  CacheTypeOK'
  BY <1>1, <1>4 DEF Build, vars, cache, CacheTypeOK
<1> QED
  BY <1>2, <1>3, <1>4, WorkerSteps

-----------------------------------------------------------------------------
(***************************************************************************)
(* The theorems                                                            *)
(***************************************************************************)
WorkerInv == WorkerTypeOK /\ ThreadInv /\ ModelInv /\ RightVoice

LEMMA InitWorkerInv == WorkerInit => WorkerInv
<1> SUFFICES ASSUME WorkerInit
             PROVE  WorkerInv
  OBVIOUS
<1>1. \A t \in Thread : thread[t] = Resting
  BY DEF WorkerInit
<1>2. WorkerTypeOK
  <2>1. CacheTypeOK
    BY DEF WorkerInit, CacheInit, CacheTypeOK
  <2>2. ModelCacheTypeOK /\ VoicesTypeOK
    BY DEF WorkerInit, ModelCacheInit, ModelCacheTypeOK, VoicesInit, VoicesTypeOK, Voice
  <2>3. thread \in [Thread -> ThreadState]
    BY RestingType DEF WorkerInit
  <2>4. mounted \in [Process -> SUBSET ToolName] /\ calls \in 0..MaxCalls
    BY CallsAssumption DEF WorkerInit
  <2> QED
    BY <2>1, <2>2, <2>3, <2>4 DEF WorkerInit, WorkerTypeOK
<1>3. ThreadInv
  BY <1>1, RestingType DEF ThreadInv, Looking, Storing
<1>4. ModelInv
  BY <1>1, RestingType DEF WorkerInit, ModelCacheInit, ModelInv
<1>5. RightVoice
  BY <1>1, RestingType DEF RightVoice
<1> QED
  BY <1>2, <1>3, <1>4, <1>5 DEF WorkerInv

LEMMA NextWorkerInv == WorkerInv /\ [WorkerNext]_vars => WorkerInv'
<1> SUFFICES ASSUME WorkerInv, [WorkerNext]_vars
             PROVE  WorkerInv'
  OBVIOUS
<1> USE DEF WorkerInv
<1>1. ThreadInv' /\ thread' \in [Thread -> ThreadState]
  BY ThreadInvStep
<1>2. ModelInv' /\ ModelCacheTypeOK'
  BY ModelStep DEF ModelsOK, ModelCacheTypeOK
<1>3. RightVoice' /\ VoicesTypeOK'
  BY VoiceStep DEF VoicesOK
<1>4. WorkerTypeOK'
  BY <1>1, <1>2, <1>3, CacheStep, ProcessStep, HistoryStep, CallsStep DEF WorkerTypeOK
<1> QED
  BY <1>1, <1>2, <1>3, <1>4

LEMMA WorkerInductive == WorkerSpec => []WorkerInv
BY InitWorkerInv, NextWorkerInv, PTL DEF WorkerSpec

\* Every state of the workers and servers is one of its types: no request has a model to
\* fetch that there is not, and no temporary file is taken for a published one.
THEOREM WorkerTypeCorrect == WorkerSpec => []WorkerTypeOK
<1>1. WorkerInv => WorkerTypeOK
  BY DEF WorkerInv
<1> QED
  BY <1>1, WorkerInductive, PTL

\* A line is spoken in its own voice, with the model's lock held from `use` to the end of
\* `generate` (tools/tts/tool.py).
THEOREM VoiceIsRight == WorkerSpec => []RightVoice
<1>1. WorkerInv => RightVoice
  BY DEF WorkerInv
<1> QED
  BY <1>1, WorkerInductive, PTL

\* The models of all processes implement ModelLoads: a model is loaded by one thread at
\* a time, never again while its process lives, and the lock of a load that raises is
\* let go of.
THEOREM LoadsOnce == WorkerSpec => LoadedOnce
<1>1. WorkerInit => Loads!Init
  BY DEF WorkerInit, ModelCacheInit, Loads!Init
<1>2. WorkerInv /\ [WorkerNext]_vars => [Loads!Next]_(Loads!loads)
  BY ModelStep DEF WorkerInv, Loads!loads, modelCache
<1> QED
  BY <1>1, <1>2, WorkerInductive, PTL DEF WorkerSpec, LoadedOnce, Loads!Spec

=============================================================================
