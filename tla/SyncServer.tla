----------------------------- MODULE SyncServer -----------------------------
(***************************************************************************)
(* The sync server (src/sync-demo/server/app.py): its handlers, run by the *)
(* threads of one process, over a directory of chunk files and a database. *)
(* _lock guards the database only; put_chunk, missing and get_file run     *)
(* without it.  The files, temporary ones included, and the committed rows *)
(* survive a crash of the process.                                         *)
(*                                                                         *)
(* A chunk stands for its content and for its digest.  Requests that are   *)
(* refused before they touch any state (400, 401, 404) are left out.       *)
(***************************************************************************)
EXTENDS Naturals, Sequences, FiniteSets

CONSTANTS
  Thread,     \* threads of the server; a request has one to itself
  Chunk,      \* contents a chunk file can have
  Path,       \* paths of the clients' files
  Manifests,  \* the lists of chunks the clients commit
  None,       \* no file, no row, nobody
  Partial     \* content of a file that is being written

ASSUME ChunkAssumption == None \notin Chunk /\ Partial \notin Chunk
ASSUME NoneAssumption == None # Partial /\ None \notin Thread
ASSUME ManifestsAssumption == Manifests \subseteq Seq(Chunk)

VARIABLES
  file,       \* file[h]: content of the file named h
  temp,       \* temp[t][h]: content of the file named h.tmp.<pid>.<t>
  manifests,  \* manifests[p]: the row of path p, or None
  lock,       \* the thread that holds _lock, or None
  job         \* job[t]: the request thread t handles, and its locals

vars == <<file, temp, manifests, lock, job>>

Content == Chunk \cup {None, Partial}
Row == [chunks : Seq(Chunk), deleted : BOOLEAN]
ASSUME RowAssumption == None \notin Row

Job ==
  [ pc : {"idle", "test", "open", "write", "replace", "ask", "lock", "check",
          "stream"},
    hash : Chunk \cup {None},     \* put: the name of the chunk
    data : Chunk \cup {None},     \* put: the decompressed body
    path : Path \cup {None},      \* commit, delete, get
    list : Seq(Chunk) \cup {None},   \* commit, get: the manifest
    todo : SUBSET Chunk,          \* missing, commit: hashes not looked up yet
    missing : SUBSET Chunk,
    out : Seq(Content) ]          \* get: what was streamed so far

Idle ==
  [ pc |-> "idle", hash |-> None, data |-> None, path |-> None, list |-> None,
    todo |-> {}, missing |-> {}, out |-> <<>> ]

TypeOK ==
  /\ file \in [Chunk -> Content]
  /\ temp \in [Thread -> [Chunk -> Content]]
  /\ manifests \in [Path -> Row \cup {None}]
  /\ lock \in Thread \cup {None}
  /\ job \in [Thread -> Job]

Referenced(m) == {m[i] : i \in DOMAIN m}
Have(h) == file[h] # None

Init ==
  /\ file = [h \in Chunk |-> None]
  /\ temp = [t \in Thread |-> [h \in Chunk |-> None]]
  /\ manifests = [p \in Path |-> None]
  /\ lock = None
  /\ job = [t \in Thread |-> Idle]

At(t, pc) == job[t].pc = pc
Goto(t, pc) == job' = [job EXCEPT ![t].pc = pc]
Begin(t, request) == At(t, "idle") /\ job' = [job EXCEPT ![t] = request]
Answer(t) == job' = [job EXCEPT ![t] = Idle]

-----------------------------------------------------------------------------
(* PUT of a chunk: verify, test, write a temporary file, rename it.        *)

\* A body with another digest is refused (409) and nothing is written.
PutBegin(t, h, d) ==
  /\ d = h
  /\ Begin(t, [Idle EXCEPT !.pc = "test", !.hash = h, !.data = d])
  /\ UNCHANGED <<file, temp, manifests, lock>>

PutTest(t) ==
  /\ At(t, "test")
  /\ IF Have(job[t].hash) THEN Answer(t) ELSE Goto(t, "open")
  /\ UNCHANGED <<file, temp, manifests, lock>>

\* Opening truncates what an earlier process left under the same name.
PutOpen(t) ==
  /\ At(t, "open")
  /\ temp' = [temp EXCEPT ![t][job[t].hash] = Partial]
  /\ Goto(t, "write")
  /\ UNCHANGED <<file, manifests, lock>>

PutWrite(t) ==
  /\ At(t, "write")
  /\ temp' = [temp EXCEPT ![t][job[t].hash] = job[t].data]
  /\ Goto(t, "replace")
  /\ UNCHANGED <<file, manifests, lock>>

\* Mutant of PutFails: a failed write is published like a successful one.
PutFailsPublished(t) ==
  /\ At(t, "write")
  /\ Goto(t, "replace")
  /\ UNCHANGED <<file, temp, manifests, lock>>

\* The disk is full: 500, and the temporary file stays.
PutFails(t) ==
  /\ At(t, "write")
  /\ Answer(t)
  /\ UNCHANGED <<file, temp, manifests, lock>>

PutReplace(t) ==
  /\ At(t, "replace")
  /\ file' = [file EXCEPT ![job[t].hash] = temp[t][job[t].hash]]
  /\ temp' = [temp EXCEPT ![t][job[t].hash] = None]
  /\ Answer(t)
  /\ UNCHANGED <<manifests, lock>>

-----------------------------------------------------------------------------
(* The question for missing chunks, and the commit of a manifest.          *)

MissingBegin(t, hashes) ==
  /\ Begin(t, [Idle EXCEPT !.pc = "ask", !.todo = hashes])
  /\ UNCHANGED <<file, temp, manifests, lock>>

\* One step of the comprehension over the hashes, in missing() and commit().
LookUp(t, h) ==
  /\ At(t, "ask") \/ At(t, "check")
  /\ h \in job[t].todo
  /\ job' = [job EXCEPT ![t].todo = @ \ {h},
                        ![t].missing = IF Have(h) THEN @ ELSE @ \cup {h}]
  /\ UNCHANGED <<file, temp, manifests, lock>>

MissingAnswer(t) ==
  /\ At(t, "ask") /\ job[t].todo = {}
  /\ Answer(t)
  /\ UNCHANGED <<file, temp, manifests, lock>>

\* list is None in a delete.
WriteBegin(t, p, m) ==
  /\ Begin(t, [Idle EXCEPT !.pc = "lock", !.path = p, !.list = m,
                           !.todo = IF m = None THEN {} ELSE Referenced(m)])
  /\ UNCHANGED <<file, temp, manifests, lock>>

TakeLock(t) ==
  /\ At(t, "lock") /\ lock = None
  /\ lock' = t
  /\ Goto(t, "check")
  /\ UNCHANGED <<file, temp, manifests>>

Locked(t) == At(t, "check") /\ job[t].todo = {}

\* Mutant of CommitMissing: the early return keeps the lock.
CommitMissingLocked(t) ==
  /\ Locked(t) /\ job[t].list # None
  /\ job[t].missing # {}
  /\ Answer(t)
  /\ UNCHANGED <<file, temp, manifests, lock>>

CommitMissing(t) ==
  /\ Locked(t) /\ job[t].list # None
  /\ job[t].missing # {}
  /\ lock' = None
  /\ Answer(t)
  /\ UNCHANGED <<file, temp, manifests>>

\* Mutant of CommitWrite: the references are not validated.
CommitWriteUnchecked(t) ==
  /\ Locked(t) /\ job[t].list # None
  /\ manifests' = [manifests EXCEPT ![job[t].path] =
                     [chunks |-> job[t].list, deleted |-> FALSE]]
  /\ lock' = None
  /\ Answer(t)
  /\ UNCHANGED <<file, temp>>

CommitWrite(t) ==
  /\ Locked(t) /\ job[t].list # None
  /\ job[t].missing = {}
  /\ manifests' = [manifests EXCEPT ![job[t].path] =
                     [chunks |-> job[t].list, deleted |-> FALSE]]
  /\ lock' = None
  /\ Answer(t)
  /\ UNCHANGED <<file, temp>>

\* Mutant of DeleteWrite: a path without a row gets one.
DeleteWriteInserts(t) ==
  /\ Locked(t) /\ job[t].list = None
  /\ manifests' = [manifests EXCEPT ![job[t].path] =
       [chunks |-> IF @ = None THEN None ELSE @.chunks, deleted |-> TRUE]]
  /\ lock' = None
  /\ Answer(t)
  /\ UNCHANGED <<file, temp>>

\* UPDATE: a path without a row stays without one.
DeleteWrite(t) ==
  /\ Locked(t) /\ job[t].list = None
  /\ manifests' =
       IF manifests[job[t].path] = None THEN manifests
       ELSE [manifests EXCEPT ![job[t].path].deleted = TRUE]
  /\ lock' = None
  /\ Answer(t)
  /\ UNCHANGED <<file, temp>>

-----------------------------------------------------------------------------
(* The reassembly of a file: the row first, then its chunks one by one.    *)

GetBegin(t, p) ==
  /\ manifests[p] # None
  /\ ~manifests[p].deleted
  /\ Begin(t, [Idle EXCEPT !.pc = "stream", !.path = p,
                           !.list = manifests[p].chunks])
  /\ UNCHANGED <<file, temp, manifests, lock>>

Streamed(t) == Len(job[t].out) = Len(job[t].list)

\* Mutant of StreamChunk: the row is read again for every chunk.
StreamChunkReread(t) ==
  LET list == manifests[job[t].path].chunks
      i == Len(job[t].out) + 1
  IN /\ At(t, "stream") /\ i \in DOMAIN list
     /\ Have(list[i])
     /\ job' = [job EXCEPT ![t].out = Append(@, file[list[i]]),
                           ![t].list = list]
     /\ UNCHANGED <<file, temp, manifests, lock>>

StreamChunk(t) ==
  LET h == job[t].list[Len(job[t].out) + 1] IN
  /\ At(t, "stream") /\ ~Streamed(t)
  /\ Have(h)
  /\ job' = [job EXCEPT ![t].out = Append(@, file[h])]
  /\ UNCHANGED <<file, temp, manifests, lock>>

StreamEnd(t) ==
  /\ At(t, "stream") /\ Streamed(t)
  /\ Answer(t)
  /\ UNCHANGED <<file, temp, manifests, lock>>

-----------------------------------------------------------------------------
\* The process dies; the one that replaces it finds the files and the rows.
Crash ==
  /\ \E t \in Thread : job[t] # Idle
  /\ lock' = None
  /\ job' = [t \in Thread |-> Idle]
  /\ UNCHANGED <<file, temp, manifests>>

Request(t) ==
  \/ \E h, d \in Chunk : PutBegin(t, h, d)
  \/ \E hashes \in SUBSET Chunk : MissingBegin(t, hashes)
  \/ \E p \in Path, m \in Manifests \cup {None} : WriteBegin(t, p, m)
  \/ \E p \in Path : GetBegin(t, p)

Handle(t) ==
  \/ PutTest(t) \/ PutOpen(t) \/ PutWrite(t) \/ PutFails(t) \/ PutReplace(t)
  \/ \E h \in Chunk : LookUp(t, h)
  \/ MissingAnswer(t)
  \/ CommitMissing(t) \/ CommitWrite(t) \/ DeleteWrite(t)
  \/ StreamChunk(t) \/ StreamEnd(t)

Next == Crash \/ \E t \in Thread : Request(t) \/ TakeLock(t) \/ Handle(t)

Spec == Init /\ [][Next]_vars

(***************************************************************************)
(* Every thread runs, and none waits for _lock while the others take it    *)
(* over and over.  Nothing is assumed of the clients or the crashes.       *)
(***************************************************************************)
FairSpec ==
  /\ Spec
  /\ \A t \in Thread : WF_vars(Handle(t)) /\ SF_vars(TakeLock(t))

-----------------------------------------------------------------------------
(* Properties.                                                             *)

\* The store is never poisoned: whatever puts, crashes and full disks come
\* between, a chunk's file is absent or has exactly the content it is named for.
StoreSound == \A h \in Chunk : file[h] \in {None, h}

\* A file streamed to a client is, chunk for chunk, one committed version, also
\* when commits and deletes of the path come between two chunks.
Served(t) ==
  /\ Len(job[t].out) <= Len(job[t].list)
  /\ \A i \in DOMAIN job[t].out : job[t].out[i] = job[t].list[i]
  /\ \A h \in Referenced(job[t].list) : Have(h)
ServedWhole == \A t \in Thread : At(t, "stream") => Served(t)

\* The threads together are the atomic store that the client counts on.
S == INSTANCE ChunkStore WITH held <- {h \in Chunk : file[h] = h}
ImplementsStore == S!Spec

\* Every request that is accepted is answered: no handler waits for ever for
\* the lock, or for a chunk a manifest names.
Answered == \A t \in Thread : ~At(t, "idle") ~> At(t, "idle")

-----------------------------------------------------------------------------
(* The parts of the inductive invariant behind the safety properties.      *)

\* A temporary file about to be renamed is complete and of its name's content.
PutInv(t) ==
  /\ job[t].pc \in {"test", "open", "write", "replace"} =>
       job[t].hash \in Chunk /\ job[t].data = job[t].hash
  /\ At(t, "replace") => temp[t][job[t].hash] = job[t].data

\* The lock is held by the thread that is between the test and the write.
LockInv(t) == At(t, "check") <=> lock = t

\* A commit under way has found every chunk it neither misses nor has yet to
\* look up.
CheckInv(t) ==
  /\ At(t, "lock") \/ At(t, "check") =>
       job[t].path \in Path /\ job[t].list \in Manifests \cup {None}
  /\ At(t, "lock") /\ job[t].list # None => Referenced(job[t].list) \subseteq job[t].todo
  /\ At(t, "check") /\ job[t].list # None =>
       \A h \in Referenced(job[t].list) :
         h \in job[t].todo \cup job[t].missing \/ Have(h)

\* A download follows the list it has read, which it was given whole.
StreamInv(t) == At(t, "stream") => job[t].list \in Seq(Chunk) /\ Served(t)

JobInv(t) == PutInv(t) /\ LockInv(t) /\ CheckInv(t) /\ StreamInv(t)

\* A published manifest names only chunks the store holds.
ReferencesHeld ==
  \A p \in Path :
    manifests[p] # None => \A h \in Referenced(manifests[p].chunks) : Have(h)

IInv ==
  /\ TypeOK
  /\ StoreSound
  /\ ReferencesHeld
  /\ \A t \in Thread : JobInv(t)
=============================================================================
