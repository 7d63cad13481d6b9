-------------------------- MODULE WorkerCacheProofs -------------------------
(***************************************************************************)
(* What workers and servers leave in the directory that they share, for     *)
(* every set of processes, threads, process ids and requests: blobs are     *)
(* whole, have their media types, and are what their requests promise, each *)
(* where the deployment allows it.                                          *)
(***************************************************************************)
EXTENDS WorkerProofs

-----------------------------------------------------------------------------
(***************************************************************************)
(* The inductive invariants                                                *)
(***************************************************************************)
\* Whoever writes has its temporary file.
OwnFile(t) ==
  LET f == files[thread[t].req][TempName(t)]
  IN  /\ thread[t].at = "writing" => f # NoFile /\ f.last = t /\ t \in f.writers
      /\ thread[t].at = "moving" => f # NoFile /\ f.whole

\* The files of a key whose writers have temporary files of different names, so that
\* nobody opens, moves or misses another's.
KeyInv(k) ==
  /\ Exists(k) => files[k][Blob].whole
  /\ \A t \in Writing(k) : OwnFile(t)
  /\ \A t, u \in Writing(k) : t # u => TempName(t) # TempName(u)

FileInv == \A k \in Key \ raced : KeyInv(k)

\* No two containers have the same process id.
PidsDiffer == \A p, q \in Process : p # q => pid[p] # pid[q]

\* Two threads of one process are not both at the cache, so where pids differ, so do the
\* names of the temporary files.
RacedInv == PidsDiffer => raced = {}

\* The random numbers follow the seed of whoever is about to draw from them.
OwnSeed(t) ==
  Stochastic(thread[t].req) /\ thread[t].at \in {"voice", "primed", "drawing"}
    => seeded[home[t]] = t

\* Where every process has one thread, its seed holds, and no result and no file is
\* anything else than its request promises.
TakeInv ==
  OneThreadEach =>
    /\ \A t \in Thread : OwnSeed(t) /\ thread[t].right
    /\ \A k \in Key, n \in Name : files[k][n] # NoFile => files[k][n].right

-----------------------------------------------------------------------------
(***************************************************************************)
(* Whole files                                                             *)
(***************************************************************************)
\* Another thread of a step is where it was, and its temporary file has the name it had.
LEMMA OthersKeep ==
  ASSUME NEW t \in Thread, Moved(t), NEW u \in Thread
  PROVE  (u # t => thread'[u] = thread[u]) /\ TempName(u)' = TempName(u)
BY DEF Moved, deployment, TempName, TempOf

\* A step that leaves the files of k alone, and makes nobody one of its writers.
LEMMA SameFiles ==
  ASSUME NEW k \in Key, KeyInv(k), NEW t \in Thread, Moved(t),
         \A n \in Name : files'[k][n] = files[k][n],
         thread'[t].req = k => thread'[t].at \notin {"writing", "moving"},
         WorkerTypeOK
  PROVE  KeyInv(k)'
<1>1. files'[k][Blob] = files[k][Blob]
  BY DEF Name
<1>2. ASSUME NEW u \in Thread, thread'[u].at \in {"writing", "moving"}, thread'[u].req = k
      PROVE  /\ u \in Writing(k) /\ thread'[u] = thread[u] /\ TempName(u)' = TempName(u)
             /\ files'[k][TempName(u)] = files[k][TempName(u)] /\ thread[u].req = k
  BY <1>2, OthersKeep, TempType DEF Writing
<1>3. \A u \in Writing(k)' : u \in Thread /\ thread'[u].at \in {"writing", "moving"}
                             /\ thread'[u].req = k
  BY DEF Writing
<1>4. \A u \in Writing(k)' : OwnFile(u)'
  BY <1>2, <1>3 DEF KeyInv, OwnFile
<1>5. \A u, v \in Writing(k)' : u # v => TempName(u)' # TempName(v)'
  BY <1>2, <1>3 DEF KeyInv
<1> QED
  BY <1>1, <1>4, <1>5 DEF KeyInv, Exists

\* `open` truncates the writer's own file, which no other writer of the key has.
LEMMA OpenKeepsFiles ==
  ASSUME WorkerTypeOK, NEW t \in Thread, Open(t), Moved(t), NEW k \in Key, k = thread[t].req,
         KeyInv(k), k \notin raced'
  PROVE  KeyInv(k)'
<1>1. PICK new \in File :
        /\ new.last = t /\ t \in new.writers
        /\ \A c \in Key, n \in Name :
             files'[c][n] = IF c = thread[t].req /\ n = TempName(t) THEN new ELSE files[c][n]
  BY OpenFiles
<1>2. TempName(t) \in Name /\ TempName(t) # Blob /\ Blob \in Name
  BY TempType DEF Name
<1>3. files'[k][Blob] = files[k][Blob]
  BY <1>1, <1>2
<1>4. /\ thread'[t].at = "writing" /\ thread'[t].req = k /\ thread[t].at = "store"
      /\ Namesakes(t) = {}
  BY GotoMoves DEF Open, Phase, Storing
<1>5. ASSUME NEW u \in Thread, u # t, thread'[u].at \in {"writing", "moving"}, thread'[u].req = k
      PROVE  /\ u \in Writing(k) /\ thread'[u] = thread[u] /\ thread[u].req = k
             /\ TempName(u)' = TempName(u) /\ TempName(u) # TempName(t)
             /\ files'[k][TempName(u)] = files[k][TempName(u)]
  <2>1. u \in Writing(k) /\ thread'[u] = thread[u] /\ TempName(u)' = TempName(u)
    BY <1>5, OthersKeep DEF Writing
  <2>2. TempName(u) # TempName(t)
    BY <1>4, <1>5, <2>1 DEF Namesakes, TempName, TempOf
  <2> QED
    BY <1>1, <1>5, <2>1, <2>2, TempType
<1>6. \A u \in Writing(k)' : u \in Thread /\ thread'[u].at \in {"writing", "moving"}
                             /\ thread'[u].req = k
  BY DEF Writing
<1>7. TempName(t)' = TempName(t) /\ files'[k][TempName(t)] = new
  BY <1>1, <1>2, OthersKeep
<1>8. OwnFile(t)'
  BY <1>1, <1>4, <1>7, NoFileType DEF OwnFile
<1>9. \A u \in Writing(k)' : OwnFile(u)'
  BY <1>5, <1>6, <1>8 DEF KeyInv, OwnFile
<1>10. \A u, v \in Writing(k)' : u # v => TempName(u)' # TempName(v)'
  BY <1>5, <1>6, <1>7 DEF KeyInv
<1> QED
  BY <1>3, <1>9, <1>10 DEF KeyInv, Exists

\* What is written in full is whole, and what is not is nobody's to rename.
LEMMA WriteKeepsFiles ==
  ASSUME WorkerTypeOK, NEW t \in Thread, Write(t) \/ WriteRaises(t), Moved(t),
         NEW k \in Key, k = thread[t].req, KeyInv(k)
  PROVE  KeyInv(k)'
<1>1. PICK all \in BOOLEAN :
        /\ Write(t) => all
        /\ \A n \in Name : files'[k][n] = Written(files[k][n], t, thread[t].right, all)
  BY WriteFiles
<1>2. thread[t].right \in BOOLEAN /\ Blob \in Name
  BY RequestTypes DEF Name
<1>3. ASSUME NEW n \in Name
      PROVE  /\ files'[k][n] = NoFile <=> files[k][n] = NoFile
             /\ files[k][n] # NoFile =>
                  /\ files'[k][n].last = files[k][n].last
                  /\ files[k][n].whole => files'[k][n].whole
                  /\ all /\ files[k][n].last = t /\ t \in files[k][n].writers
                       => files'[k][n].whole
                  /\ \A u \in files[k][n].writers : u # t => u \in files'[k][n].writers
  <2>1. files[k][n] \in File \cup {NoFile}
    BY FileTypes
  <2>2. files'[k][n] = Written(files[k][n], t, thread[t].right, all)
    BY <1>1
  <2> QED
    BY <1>2, <2>1, <2>2, WrittenType
<1>4. Exists(k)' => files'[k][Blob].whole
  BY <1>2, <1>3 DEF KeyInv, Exists
<1>5. t \in Writing(k) /\ thread[t].at = "writing"
  BY DEF Write, WriteRaises, Writing
<1>6. \/ Write(t) /\ thread'[t].at = "moving" /\ thread'[t].req = k
      \/ thread'[t].at = "idle"
  <2>1. CASE Write(t)
    BY <2>1, GotoMoves DEF Write, Phase, Storing
  <2>2. CASE WriteRaises(t)
    BY <2>2, ReplyMoves, RestingType DEF WriteRaises
  <2> QED
    BY <2>1, <2>2
<1>7. ASSUME NEW u \in Thread, thread'[u].at \in {"writing", "moving"}, thread'[u].req = k
      PROVE  u \in Writing(k) /\ TempName(u)' = TempName(u)
  BY <1>5, <1>7, OthersKeep DEF Writing
<1>8. \A u \in Writing(k)' : u \in Thread /\ thread'[u].at \in {"writing", "moving"}
                             /\ thread'[u].req = k
  BY DEF Writing
<1>9. ASSUME NEW u \in Writing(k)'
      PROVE  OwnFile(u)'
  <2>1. /\ u \in Thread /\ u \in Writing(k) /\ TempName(u)' = TempName(u)
        /\ TempName(u) \in Name /\ thread'[u].req = k /\ thread[u].req = k
    BY <1>7, <1>8, <1>9, TempType DEF Writing
  <2>2. OwnFile(u)
    BY <2>1 DEF KeyInv
  <2>3. CASE u = t
    BY <1>1, <1>3, <1>5, <1>6, <1>8, <1>9, <2>1, <2>2, <2>3 DEF OwnFile
  <2>4. CASE u # t
    <3>1. thread'[u] = thread[u]
      BY <2>1, <2>4, OthersKeep
    <3> QED
      BY <1>3, <2>1, <2>2, <2>4, <3>1 DEF OwnFile
  <2> QED
    BY <2>3, <2>4
<1>10. \A u, v \in Writing(k)' : u # v => TempName(u)' # TempName(v)'
  BY <1>7, <1>8 DEF KeyInv
<1> QED
  BY <1>4, <1>9, <1>10 DEF KeyInv

\* A file that is renamed into place is whole, and no other writer's.
LEMMA ReplaceKeepsFiles ==
  ASSUME WorkerTypeOK, NEW t \in Thread, Replace(t), Moved(t),
         NEW k \in Key, k = thread[t].req, KeyInv(k)
  PROVE  KeyInv(k)'
<1>1. \A n \in Name :
        files'[k][n] = IF n = Blob THEN files[k][TempName(t)]
                       ELSE IF n = TempName(t) THEN NoFile
                       ELSE files[k][n]
  BY ReplaceFiles
<1>2. t \in Writing(k) /\ thread[t].at = "moving" /\ Blob \in Name
  BY DEF Replace, Writing, Name
<1>3. Exists(k)' => files'[k][Blob].whole
  BY <1>1, <1>2 DEF KeyInv, OwnFile, Exists
<1>4. thread'[t].at = "typing"
  BY GotoMoves DEF Replace, Phase, Storing
<1>5. ASSUME NEW u \in Thread, thread'[u].at \in {"writing", "moving"}, thread'[u].req = k
      PROVE  /\ u \in Writing(k) /\ thread'[u] = thread[u] /\ thread[u].req = k
             /\ TempName(u)' = TempName(u)
             /\ files'[k][TempName(u)] = files[k][TempName(u)]
  <2>1. u # t /\ u \in Writing(k) /\ thread'[u] = thread[u] /\ TempName(u)' = TempName(u)
    BY <1>4, <1>5, OthersKeep DEF Writing
  <2>2. TempName(u) # TempName(t) /\ TempName(u) # Blob /\ TempName(u) \in Name
    BY <1>2, <2>1, TempType DEF KeyInv
  <2> QED
    BY <1>1, <1>5, <2>1, <2>2
<1>6. \A u \in Writing(k)' : u \in Thread /\ thread'[u].at \in {"writing", "moving"}
                             /\ thread'[u].req = k
  BY DEF Writing
<1>7. \A u \in Writing(k)' : OwnFile(u)'
  BY <1>5, <1>6 DEF KeyInv, OwnFile
<1>8. \A u, v \in Writing(k)' : u # v => TempName(u)' # TempName(v)'
  BY <1>5, <1>6 DEF KeyInv
<1> QED
  BY <1>3, <1>7, <1>8 DEF KeyInv

\* A process that dies closes its files, and those that stay have theirs.
LEMMA CrashKeepsFiles ==
  ASSUME WorkerTypeOK, NEW p \in Process, Crash(p), NEW k \in Key, KeyInv(k)
  PROVE  KeyInv(k)'
<1>1. Exists(k)' => files'[k][Blob].whole
  BY CrashFiles DEF KeyInv, Exists, Name
<1>2. ASSUME NEW u \in Thread, thread'[u].at \in {"writing", "moving"}, thread'[u].req = k
      PROVE  /\ u \in Writing(k) /\ thread'[u] = thread[u] /\ thread[u].req = k
             /\ TempName(u)' = TempName(u) /\ TempName(u) \in Name /\ u \notin ThreadsOf(p)
  BY <1>2, CrashMoves, RestingType, TempType
     DEF Writing, deployment, TempName, TempOf, ThreadsOf
<1>3. \A u \in Writing(k)' : u \in Thread /\ thread'[u].at \in {"writing", "moving"}
                             /\ thread'[u].req = k
  BY DEF Writing
<1>4. ASSUME NEW u \in Writing(k)'
      PROVE  OwnFile(u)'
  <2>1. /\ u \in Writing(k) /\ thread'[u] = thread[u] /\ thread[u].req = k
        /\ TempName(u)' = TempName(u) /\ TempName(u) \in Name /\ u \notin ThreadsOf(p)
    BY <1>2, <1>3, <1>4
  <2>2. OwnFile(u)
    BY <2>1 DEF KeyInv
  <2> QED
    BY <2>1, <2>2, CrashFiles DEF OwnFile
<1>5. \A u, v \in Writing(k)' : u # v => TempName(u)' # TempName(v)'
  BY <1>2, <1>3 DEF KeyInv
<1> QED
  BY <1>1, <1>4, <1>5 DEF KeyInv

LEMMA FileStep ==
  ASSUME WorkerTypeOK, ThreadInv, FileInv, [WorkerNext]_vars
  PROVE  FileInv'
<1> SUFFICES ASSUME NEW k \in Key, k \notin raced'
             PROVE  KeyInv(k)'
  BY DEF FileInv
<1>1. ASSUME NEW t \in Thread, Moved(t), CameBy(t),
             \/ Work(t)
             \/ \E c \in JobCalls \cup RouteCalls : TakeJob(t, c) \/ Serve(t, c)
      PROVE  KeyInv(k)'
  <2>1. KeyInv(k)
    BY <1>1, WorkKeeps DEF FileInv
  <2>2. CASE Open(t) /\ k = thread[t].req
    BY <1>1, <2>1, <2>2, OpenKeepsFiles
  <2>3. CASE (Write(t) \/ WriteRaises(t)) /\ k = thread[t].req
    BY <1>1, <2>1, <2>3, WriteKeepsFiles
  <2>4. CASE Replace(t) /\ k = thread[t].req
    BY <1>1, <2>1, <2>4, ReplaceKeepsFiles
  <2>5. CASE ~(\/ Open(t) \/ Write(t) \/ WriteRaises(t) \/ Replace(t)) \/ k # thread[t].req
    <3>1. \A n \in Name : files'[k][n] = files[k][n]
      <4>1. CASE Open(t) \/ Write(t) \/ WriteRaises(t) \/ Replace(t)
        BY <2>5, <4>1, OpenFiles, WriteFiles, ReplaceFiles
      <4>2. BeginType(t) \/ EndType(t) \/ UNCHANGED cache => UNCHANGED files
        BY DEF BeginType, EndType, cache
      <4> QED
        BY <1>1, <4>1, <4>2, WorkCache
    <3>2. thread'[t].req = k => thread'[t].at \notin {"writing", "moving"}
      BY <1>1, <2>5 DEF CameBy
    <3> QED
      BY <1>1, <2>1, <3>1, <3>2, SameFiles
  <2> QED
    BY <2>2, <2>3, <2>4, <2>5
<1>2. ASSUME NEW p \in Process, Crash(p)
      PROVE  KeyInv(k)'
  <2>1. KeyInv(k)
    BY <1>2 DEF Crash, FileInv
  <2> QED
    BY <1>2, <2>1, CrashKeepsFiles
<1>3. ASSUME (\E p \in Process : Build(p)) \/ UNCHANGED vars
      PROVE  KeyInv(k)'
  <2>1. UNCHANGED <<files, thread, home, pid, raced>>
    BY <1>3 DEF Build, vars, cache, deployment, history
  <2> QED
    BY <2>1 DEF FileInv, KeyInv, Exists, OwnFile, Writing, TempName, TempOf
<1> QED
  BY <1>1, <1>2, <1>3, WorkerSteps

LEMMA RacedStep ==
  ASSUME WorkerTypeOK, ThreadInv, RacedInv, [WorkerNext]_vars
  PROVE  RacedInv'
<1> SUFFICES ASSUME PidsDiffer'
             PROVE  raced' = {}
  BY DEF RacedInv
<1>1. PidsDiffer
  <2>1. UNCHANGED deployment
    BY WorkerSteps DEF Moved, Build, Crash, vars
  <2> QED
    BY <2>1 DEF PidsDiffer, deployment
<1>2. raced = {}
  BY <1>1 DEF RacedInv
<1>3. ASSUME NEW t \in Thread, Open(t)
      PROVE  UNCHANGED raced
  <2>1. ASSUME NEW u \in Namesakes(t)
        PROVE  FALSE
    <3>1. /\ u \in Thread \ {t} /\ pid[home[u]] = pid[home[t]]
          /\ thread[u].at \in {"writing", "moving"}
      BY <2>1 DEF Namesakes, Writing
    <3>2. home[u] = home[t]
      BY <1>1, <3>1 DEF PidsDiffer, WorkerTypeOK
    <3> QED
      BY <1>3, <3>1, <3>2 DEF Open, LoopFree, Storing
  <2> QED
    BY <1>3, <2>1 DEF Open
<1>4. ASSUME NEW t \in Thread,
             \/ Work(t)
             \/ \E c \in JobCalls \cup RouteCalls : TakeJob(t, c) \/ Serve(t, c)
      PROVE  UNCHANGED raced
  BY <1>3, <1>4, WorkKeeps
<1>5. ASSUME (\E p \in Process : Build(p) \/ Crash(p)) \/ UNCHANGED vars
      PROVE  UNCHANGED raced
  BY <1>5 DEF Build, Crash, vars, history
<1> QED
  BY <1>2, <1>4, <1>5, WorkerSteps

-----------------------------------------------------------------------------
(***************************************************************************)
(* Media types                                                             *)
(***************************************************************************)
\* Only `os.replace` makes a blob where there was none.
LEMMA BlobsAppear ==
  ASSUME WorkerTypeOK, NEW t \in Thread,
         \/ Work(t)
         \/ \E c \in JobCalls \cup RouteCalls : TakeJob(t, c) \/ Serve(t, c)
  PROVE  \A k \in Key : Exists(k)' => Exists(k) \/ (Replace(t) /\ k = thread[t].req)
<1>1. Blob \in Name /\ TempName(t) # Blob
  BY TempType DEF Name
<1>2. CASE Open(t)
  BY <1>1, <1>2, OpenFiles DEF Exists
<1>3. CASE Write(t) \/ WriteRaises(t)
  <2>1. PICK all \in BOOLEAN : \A k \in Key :
          files'[k][Blob] \in {files[k][Blob], Written(files[k][Blob], t, thread[t].right, all)}
    BY <1>1, <1>3, WriteFiles
  <2>2. ASSUME NEW k \in Key
        PROVE  Written(files[k][Blob], t, thread[t].right, all) = NoFile
                 <=> files[k][Blob] = NoFile
    <3>1. files[k][Blob] \in File \cup {NoFile} /\ thread[t].right \in BOOLEAN
      BY <1>1, FileTypes, RequestTypes
    <3> QED
      BY <3>1, WrittenType
  <2> QED
    BY <2>1, <2>2 DEF Exists
<1>4. CASE Replace(t)
  BY <1>1, <1>4, ReplaceFiles DEF Exists
<1>5. CASE BeginType(t) \/ EndType(t) \/ UNCHANGED cache
  BY <1>5 DEF BeginType, EndType, cache, Exists
<1> QED
  BY <1>2, <1>3, <1>4, <1>5, WorkCache

LEMMA UntypedWork ==
  ASSUME WorkerTypeOK, ThreadInv, UntypedInPassing, NEW t \in Thread, Moved(t), CameBy(t),
         \/ Work(t)
         \/ \E c \in JobCalls \cup RouteCalls : TakeJob(t, c) \/ Serve(t, c)
  PROVE  UntypedInPassing'
<1> SUFFICES ASSUME NEW k \in Key, Exists(k)', types'[k] # "typed", k \notin torn'
             PROVE  Typing(k)' # {}
  BY DEF UntypedInPassing
<1>1. k \notin torn
  BY WorkKeeps
<1>2. ASSUME NEW u \in Thread \ {t}, thread[u].req = k, thread[u].at \in {"typing", "typed"}
      PROVE  Typing(k)' # {}
  BY <1>2 DEF Moved, Typing
<1>3. ASSUME thread'[t].req = k, thread'[t].at \in {"typing", "typed"}
      PROVE  Typing(k)' # {}
  BY <1>3 DEF Typing
<1>4. types \in [Key -> {"none", "empty", "typed"}] /\ thread[t].req \in Key
  BY RequestTypes DEF WorkerTypeOK, CacheTypeOK
<1>5. CASE Replace(t) /\ k = thread[t].req
  <2>1. thread'[t].req = k /\ thread'[t].at = "typing"
    BY <1>5, GotoMoves DEF Replace, Phase, Storing
  <2> QED
    BY <1>3, <2>1
<1>6. CASE BeginType(t) /\ k = thread[t].req
  <2>1. thread'[t].req = k /\ thread'[t].at = "typed"
    BY <1>6, GotoMoves DEF BeginType, Phase, Storing
  <2> QED
    BY <1>3, <2>1
<1>7. ASSUME Exists(k), types[k] # "typed",
             thread[t].at \in {"typing", "typed"} => thread[t].req # k
      PROVE  Typing(k)' # {}
  <2>1. PICK u \in Thread : thread[u].req = k /\ thread[u].at \in {"typing", "typed"}
    BY <1>1, <1>7 DEF UntypedInPassing, Typing
  <2> QED
    BY <1>2, <1>7, <2>1
<1>8. CASE EndType(t) /\ k = thread[t].req
  BY <1>4, <1>8 DEF EndType, WriteType
<1>9. CASE ~ (Replace(t) /\ k = thread[t].req)
  <2>1. Exists(k)
    BY <1>9, BlobsAppear
  <2>2. CASE (BeginType(t) \/ EndType(t)) /\ k # thread[t].req
    <3>1. types[k] # "typed"
      BY <1>4, <2>2 DEF BeginType, OpenType, EndType, WriteType
    <3> QED
      BY <1>7, <2>1, <2>2, <3>1
  <2>3. CASE TypeRaises(t) /\ UNCHANGED cache
    <3>1. types[k] # "typed" /\ thread[t].req # k
      BY <2>3 DEF TypeRaises, cache
    <3> QED
      BY <1>7, <2>1, <3>1
  <2>4. CASE \/ Open(t) \/ Write(t) \/ WriteRaises(t) \/ Replace(t)
             \/ UNCHANGED cache /\ thread[t].at \notin {"writing", "typing", "typed"}
    <3>1. UNCHANGED types /\ thread[t].at \notin {"typing", "typed"}
      BY <2>4 DEF Open, Write, WriteRaises, Replace, cache
    <3> QED
      BY <1>7, <2>1, <3>1
  <2> QED
    BY <1>6, <1>8, <2>2, <2>3, <2>4, WorkCache
<1> QED
  BY <1>5, <1>9

LEMMA UntypedStep ==
  ASSUME WorkerTypeOK, ThreadInv, UntypedInPassing, [WorkerNext]_vars
  PROVE  UntypedInPassing'
<1>1. ASSUME NEW p \in Process, Crash(p), NEW k \in Key, Exists(k)', types'[k] # "typed",
             k \notin torn'
      PROVE  Typing(k)' # {}
  <2>1. /\ Exists(k) /\ types[k] # "typed"
        /\ k \notin torn /\ Typing(k) \cap ThreadsOf(p) = {}
    BY <1>1, CrashFiles DEF Crash, Exists, Name
  <2>2. PICK t \in Typing(k) : TRUE
    BY <2>1 DEF UntypedInPassing
  <2>3. t \in Thread /\ thread'[t] = thread[t]
    BY <1>1, <2>1, <2>2, CrashMoves DEF Typing, ThreadsOf
  <2> QED
    BY <2>2, <2>3 DEF Typing
<1>2. ASSUME (\E p \in Process : Build(p)) \/ UNCHANGED vars
      PROVE  UntypedInPassing'
  <2>1. UNCHANGED <<files, types, thread, torn>>
    BY <1>2 DEF Build, vars, cache, history
  <2> QED
    BY <2>1 DEF UntypedInPassing, Exists, Typing
<1> QED
  BY <1>1, <1>2, UntypedWork, WorkerSteps DEF UntypedInPassing

-----------------------------------------------------------------------------
(***************************************************************************)
(* Seeds                                                                   *)
(***************************************************************************)
\* Where no process has two threads, threads are in different processes.
LEMMA Alone ==
  ASSUME WorkerTypeOK, OneThreadEach, NEW t \in Thread, NEW u \in Thread, t # u
  PROVE  home[t] # home[u]
<1>1. ASSUME home[t] = home[u]
      PROVE  FALSE
  <2> DEFINE S == ThreadsOf(home[t])
  <2>1. S \subseteq Thread /\ {t, u} \subseteq S /\ home[t] \in Process
    BY <1>1 DEF ThreadsOf, WorkerTypeOK
  <2>2. IsFiniteSet(S)
    BY <2>1, ThreadAssumption, FS_Subset
  <2>3. Cardinality({t, u}) <= Cardinality(S) /\ Cardinality(S) \in Nat
    BY <2>1, <2>2, FS_Subset, FS_CardinalityType
  <2>4. Cardinality({t, u}) = 2
    <3>1. IsFiniteSet({t}) /\ Cardinality({t}) = 1
      BY FS_Singleton
    <3>2. {t, u} = {t} \cup {u} /\ u \notin {t}
      OBVIOUS
    <3> QED
      BY <3>1, <3>2, FS_AddElement
  <2>5. Cardinality(S) <= 1
    BY <2>1 DEF OneThreadEach
  <2> QED
    BY <2>3, <2>4, <2>5
<1> QED
  BY <1>1

LEMMA WorkSeeds ==
  ASSUME NEW t \in Thread,
         \/ Work(t)
         \/ \E c \in JobCalls \cup RouteCalls : TakeJob(t, c) \/ Serve(t, c)
  PROVE  Seeds(t) \/ Generate(t) \/ Generated(t) \/ UNCHANGED seeded
BY DEF Work, Find, ReadHit, Miss, Get, Recheck, Load, LoadEnds, Voiced, Fails, Open, Write,
       Replace, BeginType, EndType, OpenRaises, WriteRaises, ReplaceRaises, TypeRaises,
       TakeJob, Serve, Arrive, voices

LEMMA OthersSeeds ==
  ASSUME WorkerTypeOK, OneThreadEach, TakeInv, NEW t \in Thread, NEW u \in Thread \ {t},
         Moved(t),
         Seeds(t) \/ Generate(t) \/ Generated(t) \/ UNCHANGED seeded
  PROVE  OwnSeed(u)'
<1>1. home[t] # home[u] /\ home[u] \in Process /\ UNCHANGED home /\ thread'[u] = thread[u]
  BY Alone DEF WorkerTypeOK, Moved, deployment
<1>2. seeded \in [Process -> Thread \cup {Nobody}]
  BY DEF WorkerTypeOK, VoicesTypeOK
<1>3. seeded'[home[u]] = seeded[home[u]]
  BY <1>1, <1>2 DEF Seeds, SetSeed, Generate, Draw, Generated, Spend
<1> QED
  BY <1>1, <1>3 DEF TakeInv, OwnSeed

LEMMA OwnSeedMoves ==
  ASSUME WorkerTypeOK, OneThreadEach, TakeInv, NEW t \in Thread, Moved(t), CameBy(t),
         Seeds(t) \/ Generate(t) \/ Generated(t) \/ UNCHANGED seeded
  PROVE  OwnSeed(t)'
<1> SUFFICES ASSUME Stochastic(thread'[t].req), thread'[t].at \in {"voice", "primed", "drawing"}
             PROVE  seeded'[home[t]] = t
  BY DEF OwnSeed, Moved, deployment
<1>1. /\ seeded \in [Process -> Thread \cup {Nobody}] /\ home[t] \in Process
      /\ thread'[t].req = thread[t].req
  BY DEF WorkerTypeOK, VoicesTypeOK, CameBy
<1>2. CASE Seeds(t)
  BY <1>1, <1>2 DEF Seeds, SetSeed
<1>3. CASE Voiced(t)
  BY <1>1, <1>3 DEF Voiced, TakeInv, OwnSeed
<1>4. CASE Generate(t)
  <2>1. seeded[home[t]] = t
    BY <1>1, <1>4 DEF Generate, TakeInv, OwnSeed
  <2> QED
    BY <1>1, <1>4, <2>1 DEF Generate, Draw
<1> QED
  BY <1>2, <1>3, <1>4 DEF CameBy

\* A result that was drawn from the seed, in the voice, is right.
LEMMA GeneratedRight ==
  ASSUME WorkerTypeOK, OneThreadEach, TakeInv, RightVoice, NEW t \in Thread, Generated(t)
  PROVE  thread'[t].right
<1> DEFINE right == /\ Stochastic(thread[t].req) => InSeed(t, home[t])
                    /\ Speaks(t) => voice[SpokenBy(t)] = VoiceOf(thread[t].req)
<1>1. /\ thread[t] \in ThreadState /\ thread[t].at = "drawing"
      /\ thread'[t] = [thread[t] EXCEPT !.at = "store", !.right = right]
  BY DEF WorkerTypeOK, Generated
<1>2. right
  BY <1>1 DEF TakeInv, OwnSeed, InSeed, RightVoice
<1> HIDE DEF right
<1> QED
  BY <1>1, <1>2 DEF ThreadState

\* Every file is right, as long as those who write are.
LEMMA RightFiles ==
  ASSUME WorkerTypeOK, OneThreadEach, TakeInv, NEW t \in Thread,
         \/ Work(t)
         \/ \E c \in JobCalls \cup RouteCalls : TakeJob(t, c) \/ Serve(t, c)
  PROVE  \A k \in Key, n \in Name : files'[k][n] # NoFile => files'[k][n].right
<1>1. thread[t].right /\ \A k \in Key, n \in Name : files[k][n] # NoFile => files[k][n].right
  BY DEF TakeInv
<1>2. CASE Open(t)
  BY <1>1, <1>2, OpenFiles
<1>3. CASE Write(t) \/ WriteRaises(t)
  <2>1. PICK all \in BOOLEAN : \A k \in Key, n \in Name :
          files'[k][n] \in {files[k][n], Written(files[k][n], t, thread[t].right, all)}
    BY <1>3, WriteFiles
  <2>2. ASSUME NEW k \in Key, NEW n \in Name,
               Written(files[k][n], t, thread[t].right, all) # NoFile
        PROVE  Written(files[k][n], t, thread[t].right, all).right
    <3>1. files[k][n] \in File \cup {NoFile} /\ thread[t].right \in BOOLEAN
      BY FileTypes, RequestTypes
    <3> DEFINE f == files[k][n]
               g == Written(f, t, thread[t].right, all)
    <3>2. (g = NoFile <=> f = NoFile) /\ (f # NoFile => (f.right /\ thread[t].right => g.right))
      BY <3>1, WrittenType
    <3>3. f # NoFile /\ f.right
      BY <1>1, <2>2, <3>2
    <3>4. thread[t].right
      BY <1>1
    <3> QED
      BY <3>2, <3>3, <3>4, Zenon
  <2> QED
    BY <1>1, <2>1, <2>2
<1>4. CASE Replace(t)
  BY <1>1, <1>4, ReplaceFiles, TempType
<1>5. CASE BeginType(t) \/ EndType(t) \/ UNCHANGED cache
  BY <1>1, <1>5 DEF BeginType, EndType, cache
<1> QED
  BY <1>2, <1>3, <1>4, <1>5, WorkCache

LEMMA TakeStep ==
  ASSUME WorkerTypeOK, ThreadInv, RightVoice, TakeInv, [WorkerNext]_vars
  PROVE  TakeInv'
<1> SUFFICES ASSUME OneThreadEach'
             PROVE  /\ \A u \in Thread : OwnSeed(u)' /\ thread'[u].right
                    /\ \A k \in Key, n \in Name : files'[k][n] # NoFile => files'[k][n].right
  BY DEF TakeInv
<1>1. OneThreadEach
  <2>1. UNCHANGED home
    BY WorkerSteps DEF Moved, Build, Crash, vars, deployment
  <2> QED
    BY <2>1 DEF OneThreadEach, ThreadsOf
<1>2. ASSUME NEW t \in Thread, Moved(t), CameBy(t),
             \/ Work(t)
             \/ \E c \in JobCalls \cup RouteCalls : TakeJob(t, c) \/ Serve(t, c)
      PROVE  /\ \A u \in Thread : OwnSeed(u)' /\ thread'[u].right
             /\ \A k \in Key, n \in Name : files'[k][n] # NoFile => files'[k][n].right
  <2>1. Seeds(t) \/ Generate(t) \/ Generated(t) \/ UNCHANGED seeded
    BY <1>2, WorkSeeds
  <2>2. \A u \in Thread : OwnSeed(u)'
    BY <1>1, <1>2, <2>1, OthersSeeds, OwnSeedMoves
  <2>3. \A u \in Thread : thread'[u].right
    BY <1>1, <1>2, GeneratedRight DEF TakeInv, Moved, CameBy
  <2>4. \A k \in Key, n \in Name : files'[k][n] # NoFile => files'[k][n].right
    BY <1>1, <1>2, RightFiles
  <2> QED
    BY <2>2, <2>3, <2>4
<1>3. ASSUME NEW p \in Process, Crash(p)
      PROVE  /\ \A u \in Thread : OwnSeed(u)' /\ thread'[u].right
             /\ \A k \in Key, n \in Name : files'[k][n] # NoFile => files'[k][n].right
  <2>1. \A u \in Thread : OwnSeed(u)' /\ thread'[u].right
    <3>1. /\ seeded' = [seeded EXCEPT ![p] = Nobody] /\ UNCHANGED home
          /\ seeded \in [Process -> Thread \cup {Nobody}] /\ home \in [Thread -> Process]
      BY <1>3 DEF Crash, Hush, deployment, WorkerTypeOK, VoicesTypeOK
    <3> QED
      BY <1>1, <1>3, <3>1, CrashMoves, RestingType DEF TakeInv, OwnSeed
  <2>2. \A k \in Key, n \in Name : files'[k][n] # NoFile => files'[k][n].right
    BY <1>1, <1>3, CrashFiles DEF TakeInv
  <2> QED
    BY <2>1, <2>2
<1>4. ASSUME (\E p \in Process : Build(p)) \/ UNCHANGED vars
      PROVE  /\ \A u \in Thread : OwnSeed(u)' /\ thread'[u].right
             /\ \A k \in Key, n \in Name : files'[k][n] # NoFile => files'[k][n].right
  <2>1. UNCHANGED <<files, thread, home, seeded>>
    BY <1>4 DEF Build, vars, cache, deployment, voices
  <2> QED
    BY <1>1, <2>1 DEF TakeInv, OwnSeed
<1> QED
  BY <1>2, <1>3, <1>4, WorkerSteps

-----------------------------------------------------------------------------
(***************************************************************************)
(* The theorems                                                            *)
(***************************************************************************)
SharedInv == FileInv /\ RacedInv /\ UntypedInPassing /\ TakeInv

LEMMA InitSharedInv == WorkerInit => SharedInv
<1> SUFFICES ASSUME WorkerInit
             PROVE  SharedInv
  OBVIOUS
<1>1. /\ \A t \in Thread : thread[t] = Resting
      /\ \A k \in Key, n \in Name : files[k][n] = NoFile
      /\ \A k \in Key : ~Exists(k)
  BY DEF WorkerInit, CacheInit, Exists, Name
<1> QED
  BY <1>1, RestingType
     DEF WorkerInit, SharedInv, FileInv, KeyInv, Writing, RacedInv, UntypedInPassing, TakeInv,
         OwnSeed

LEMMA NextSharedInv == WorkerInv /\ SharedInv /\ [WorkerNext]_vars => SharedInv'
BY FileStep, RacedStep, UntypedStep, TakeStep DEF WorkerInv, SharedInv

LEMMA SharedInductive == WorkerSpec => []SharedInv
BY WorkerInductive, InitSharedInv, NextSharedInv, PTL DEF WorkerSpec

\* Around crashes and writes that fail, a reader finds a blob half written, and a `put`
\* its temporary file gone, only under a key that two containers of one pid have put at
\* the same time (core/cache.py:58-64).
THEOREM WritersAreSafe == WorkerSpec => []OnlyNamesakesCollide
<1>1. ASSUME FileInv
      PROVE  OnlyNamesakesCollide
  <2>1. ASSUME NEW k \in Key \ raced, NEW t \in Thread, thread[t].req = k,
               thread[t].at = "moving"
        PROVE  files[k][TempName(t)] # NoFile
    BY <1>1, <2>1 DEF FileInv, KeyInv, Writing, OwnFile
  <2> QED
    BY <1>1, <2>1 DEF FileInv, KeyInv, OnlyNamesakesCollide
<1>2. SharedInv => OnlyNamesakesCollide
  BY <1>1 DEF SharedInv
<1> QED
  BY <1>2, SharedInductive, PTL

\* So `put` is "safe for concurrent writers" (core/cache.py:39) where no two containers on a
\* volume share a process id.
COROLLARY PidsMakeWritersSafe == WorkerSpec => [](PidsDiffer => SafeForWriters)
<1>1. SharedInv => (PidsDiffer => SafeForWriters)
  BY DEF SharedInv, FileInv, KeyInv, RacedInv, SafeForWriters
<1> QED
  BY <1>1, SharedInductive, PTL

\* A blob lacks its media type only while its `put` goes on, or because that was cut short
\* right there, by a crash or by a volume that failed.
THEOREM UntypedOnlyInPassing == WorkerSpec => []UntypedInPassing
<1>1. SharedInv => UntypedInPassing
  BY DEF SharedInv
<1> QED
  BY <1>1, SharedInductive, PTL

\* What the cache keeps under a request is what the request's seed makes, where every
\* process has one thread, as RunPod's workers have.
THEOREM TakesReproduce == WorkerSpec => []TakesAreReproducible
<1>1. SharedInv => TakesAreReproducible
  BY DEF SharedInv, TakeInv, TakesAreReproducible, Exists, Name
<1> QED
  BY <1>1, SharedInductive, PTL

=============================================================================
