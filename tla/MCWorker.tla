------------------------------ MODULE MCWorker ------------------------------
(***************************************************************************)
(* Worker on a small instance: two threads, of one process or of two.       *)
(***************************************************************************)
EXTENDS Worker, CacheKeys

First(S) == CHOOSE x \in S : TRUE

\* Two lines by the same model in different voices, and two drawings, of which
\* one names no backbone there is.
Line(v) == [tool |-> "tts", language |-> "en", reference |-> v, seed |-> First(Seed)]
Calls == {Line(v) : v \in Voice} \cup
         {[tool |-> "reangle", backbone |-> "trellis", seed |-> First(Seed)],
          [tool |-> "reangle", backbone |-> "unknown", seed |-> First(Seed)]}

\* One drawing.
OneCall == {[tool |-> "reangle", backbone |-> "trellis", seed |-> First(Seed)]}

\* Every tool can be imported everywhere: it is the weights that an image may lack.
ImagesHere == {ToolName}

\* "(b"ab", b"c") and (b"a", b"bc")" (core/cache.py:19): two requests are digested
\* alike only if they are one, be their bytes those of a length.  A part is up to two
\* bytes long here, and a request has at most one field besides its tool.
Bytes == BoundedSeq(0..2, 2)
Fields == BoundedSeq(Bytes \X Bytes, 1)
Identities == {KeyParts(tool, <<1>>, f) : tool \in Bytes, f \in Fields} \cup BoundedSeq(Bytes, 3)

ASSUME KeysTellApart ==
  Cardinality({Digested(parts) : parts \in Identities}) = Cardinality(Identities)

\* Names are all alike: the first thread is in the first process, which has the first
\* pid, and so has a process without threads.
MCInit ==
  /\ WorkerInit
  /\ home[First(Thread)] = First(Process)
  /\ \A p \in Process : p = First(Process) \/ ThreadsOf(p) = {} => pid[p] = First(Pid)

MCSpec == MCInit /\ [][WorkerNext]_vars /\ WorkerFairness

=============================================================================
