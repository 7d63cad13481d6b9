---------------------------- MODULE ResultCache -----------------------------
(***************************************************************************)
(* `ResultCache` of core/cache.py: a directory of results, one file for the *)
(* bytes and one for their media type, by the hash of the request.          *)
(*                                                                         *)
(* The directory may be a network volume that several containers mount, so  *)
(* it outlives them, and each step of a `put` is a step of its own.  A file *)
(* that is renamed keeps those who have it open.                            *)
(***************************************************************************)
EXTENDS FiniteSets

CONSTANTS Key,      \* hashes of requests; two requests never share one
          Thread,   \* who reads and writes
          Pid,      \* process ids: containers that share a volume may share one
          Blob      \* the name of a published file, next to the temporary ones

VARIABLES files,  \* per key: the blob and the temporary files, by name
          types   \* per key: the file of the media type

Name == Pid \cup {Blob}

\* A file: are all the bytes there, are they the right ones, who opened it last
\* (which truncates it), and who has yet to write.
File == [whole : BOOLEAN, right : BOOLEAN, last : Thread, writers : SUBSET Thread]
NoFile == [whole |-> FALSE]

CacheTypeOK ==
  /\ files \in [Key -> [Name -> File \cup {NoFile}]]
  /\ types \in [Key -> {"none", "empty", "typed"}]

CacheInit ==
  /\ files = [k \in Key |-> [n \in Name |-> NoFile]]
  /\ types = [k \in Key |-> "none"]

\* `get` finds the blob, or it does not.
Exists(k) == files[k][Blob] # NoFile

\* The name of a temporary file tells processes apart by their pids.
TempOf(n) == n

\* Mutant: there is no temporary file, the blob itself is opened.
OpenInPlace(t, k, n) ==
  LET old == IF Exists(k) THEN files[k][Blob].writers ELSE {}
  IN  files' = [files EXCEPT ![k][Blob] = [whole |-> FALSE, right |-> TRUE, last |-> t,
                                           writers |-> old \cup {t}]]

\* `put`, step by step.  The temporary file is opened, and truncated:
OpenTemp(t, k, n) ==
  LET old == IF files[k][n] = NoFile THEN {} ELSE files[k][n].writers
  IN  files' = [files EXCEPT ![k][n] = [whole |-> FALSE, right |-> TRUE, last |-> t,
                                        writers |-> old \cup {t}]]

\* ... it is written, whatever its name is by now: in full, or until the volume fails.
\* Whoever opened it last writes it whole; another leaves a hole where its bytes went
\* before the file was truncated.  Either way it is closed.
Written(f, t, right, all) ==
  IF f = NoFile \/ t \notin f.writers THEN f
  ELSE LET afresh == all /\ f.last = t
       IN  [whole   |-> f.whole \/ afresh,
            right   |-> right /\ (f.right \/ afresh),
            last    |-> f.last,
            writers |-> f.writers \ {t}]

WriteOut(t, k, right, all) ==
  files' = [files EXCEPT ![k] = [n \in Name |-> Written(files[k][n], t, right, all)]]

\* ... it is renamed into place, when it is still there:
Publish(k, n) ==
  /\ files[k][n] # NoFile
  /\ files' = [files EXCEPT ![k][Blob] = files[k][n], ![k][n] = NoFile]

\* ... and the media type is written: a file that is opened, and then filled.
OpenType(k) == types' = [types EXCEPT ![k] = "empty"]

\* Mutant: the file is touched, no more.
TouchType(k) == UNCHANGED types

WriteType(k) == types' = [types EXCEPT ![k] = "typed"]

\* A process that dies closes its files, as they are.
CloseAll(dead) ==
  files' = [k \in Key |-> [n \in Name |->
              IF files[k][n] = NoFile THEN NoFile
              ELSE [files[k][n] EXCEPT !.writers = @ \ dead]]]

=============================================================================
