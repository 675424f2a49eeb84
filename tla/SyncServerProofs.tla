-------------------------- MODULE SyncServerProofs --------------------------
(***************************************************************************)
(* Theorems about SyncServer, for any number of threads, chunks and paths  *)
(* and any manifests: what the store and a download may contain, and that  *)
(* the threads together implement the atomic store of ChunkStore.          *)
(***************************************************************************)
EXTENDS SyncServer, TLAPS

-----------------------------------------------------------------------------
(* Lemmas about the operators.                                             *)

LEMMA IdleType == Idle \in Job
BY DEF Idle, Job

LEMMA ReferencedType == \A m \in Seq(Chunk) : Referenced(m) \subseteq Chunk
BY DEF Referenced

\* What one thread does leaves the invariant of the others alone, when the
\* chunks that are there stay there.
LEMMA OtherJob ==
  ASSUME IInv, NEW u \in Thread,
         job'[u] = job[u], temp'[u] = temp[u], lock' = u <=> lock = u,
         \A h \in Chunk : Have(h) => Have(h)'
  PROVE  JobInv(u)'
<1>1. PutInv(u)' /\ LockInv(u)'
  BY DEF IInv, JobInv, PutInv, LockInv, At
<1>2. CheckInv(u)'
  <2>1. job[u].list # None /\ job[u].list \in Manifests \cup {None} =>
          Referenced(job[u].list) \subseteq Chunk
    BY ReferencedType, ManifestsAssumption
  <2> QED
    BY <2>1 DEF IInv, JobInv, CheckInv, At
<1>3. StreamInv(u)'
  BY ReferencedType DEF IInv, JobInv, StreamInv, Served, At
<1> QED
  BY <1>1, <1>2, <1>3 DEF JobInv

\* A thread that is done keeps nothing, the lock neither.
LEMMA IdleJob ==
  ASSUME NEW t \in Thread, job'[t] = Idle, lock' # t
  PROVE  JobInv(t)'
BY DEF JobInv, PutInv, LockInv, CheckInv, StreamInv, At, Idle

\* A step of one thread, with its locals given as a record.
LEMMA ThreadStep ==
  ASSUME IInv, NEW t \in Thread, NEW j \in Job,
         job' = [job EXCEPT ![t] = j],
         file' \in [Chunk -> Content], StoreSound',
         \A h \in Chunk : Have(h) => Have(h)',
         temp' \in [Thread -> [Chunk -> Content]],
         manifests' \in [Path -> Row \cup {None}], ReferencesHeld',
         lock' \in Thread \cup {None},
         \A u \in Thread \ {t} : temp'[u] = temp[u] /\ (lock' = u <=> lock = u),
         JobInv(t)'
  PROVE  IInv'
<1>1. job \in [Thread -> Job]
  BY DEF IInv, TypeOK
<1>2. TypeOK'
  BY <1>1 DEF TypeOK
<1>3. ASSUME NEW u \in Thread
      PROVE  JobInv(u)'
  <2>1. CASE u = t
    BY <2>1
  <2>2. CASE u # t
    <3>1. job'[u] = job[u]
      BY <1>1, <2>2
    <3> QED
      BY <2>2, <3>1, OtherJob
  <2> QED
    BY <2>1, <2>2
<1> QED
  BY <1>2, <1>3 DEF IInv

\* ... that leaves the files and the rows alone.
LEMMA QuietStep ==
  ASSUME IInv, NEW t \in Thread, NEW j \in Job,
         job' = [job EXCEPT ![t] = j],
         UNCHANGED <<file, temp, manifests>>,
         lock' \in Thread \cup {None},
         \A u \in Thread \ {t} : lock' = u <=> lock = u,
         JobInv(t)'
  PROVE  IInv'
<1>1. /\ file' \in [Chunk -> Content]
      /\ temp' \in [Thread -> [Chunk -> Content]]
      /\ manifests' \in [Path -> Row \cup {None}]
  BY DEF IInv, TypeOK
<1>2. StoreSound' /\ ReferencesHeld' /\ \A h \in Chunk : Have(h) => Have(h)'
  BY DEF IInv, StoreSound, ReferencesHeld, Have
<1> QED
  BY <1>1, <1>2, ThreadStep

\* A thread answers without a change of the files and the rows.
LEMMA QuietAnswer ==
  ASSUME IInv, NEW t \in Thread, job' = [job EXCEPT ![t] = Idle],
         UNCHANGED <<file, temp, manifests>>,
         (lock' = lock /\ lock # t) \/ (lock' = None /\ lock = t)
  PROVE  IInv'
<1>1. job \in [Thread -> Job] /\ lock \in Thread \cup {None} /\ None \notin Thread
  BY NoneAssumption DEF IInv, TypeOK
<1>2. job'[t] = Idle /\ lock' # t
  BY <1>1
<1>3. JobInv(t)'
  BY <1>2, IdleJob
<1> QED
  BY <1>1, <1>3, IdleType, QuietStep

-----------------------------------------------------------------------------
(* The steps that touch neither the files nor the rows.                    *)

LEMMA PutBeginInv ==
  ASSUME IInv, NEW t \in Thread, NEW h \in Chunk, NEW d \in Chunk,
         PutBegin(t, h, d)
  PROVE  IInv'
<1> DEFINE j == [Idle EXCEPT !.pc = "test", !.hash = h, !.data = d]
<1>1. j \in Job /\ j.pc = "test" /\ j.hash = h /\ j.data = h
  BY IdleType DEF PutBegin, Job
<1>2. job' = [job EXCEPT ![t] = j] /\ UNCHANGED <<file, temp, manifests, lock>>
  BY DEF PutBegin, Begin
<1>3. job'[t] = j /\ lock # t /\ lock \in Thread \cup {None}
  BY <1>2 DEF PutBegin, Begin, IInv, TypeOK, JobInv, LockInv, At
<1>4. JobInv(t)'
  BY <1>1, <1>2, <1>3 DEF JobInv, PutInv, LockInv, CheckInv, StreamInv, At
<1> QED
  BY <1>1, <1>2, <1>3, <1>4, QuietStep

LEMMA MissingBeginInv ==
  ASSUME IInv, NEW t \in Thread, NEW hashes \in SUBSET Chunk,
         MissingBegin(t, hashes)
  PROVE  IInv'
<1> DEFINE j == [Idle EXCEPT !.pc = "ask", !.todo = hashes]
<1>1. j \in Job /\ j.pc = "ask"
  BY IdleType DEF Job
<1>2. job' = [job EXCEPT ![t] = j] /\ UNCHANGED <<file, temp, manifests, lock>>
  BY DEF MissingBegin, Begin
<1>3. job'[t] = j /\ lock # t /\ lock \in Thread \cup {None}
  BY <1>2 DEF MissingBegin, Begin, IInv, TypeOK, JobInv, LockInv, At
<1>4. JobInv(t)'
  BY <1>1, <1>2, <1>3 DEF JobInv, PutInv, LockInv, CheckInv, StreamInv, At
<1> QED
  BY <1>1, <1>2, <1>3, <1>4, QuietStep

LEMMA WriteBeginInv ==
  ASSUME IInv, NEW t \in Thread, NEW p \in Path, NEW m \in Manifests \cup {None},
         WriteBegin(t, p, m)
  PROVE  IInv'
<1> DEFINE todo == IF m = None THEN {} ELSE Referenced(m)
           j == [Idle EXCEPT !.pc = "lock", !.path = p, !.list = m, !.todo = todo]
<1>1. todo \in SUBSET Chunk
  BY ReferencedType, ManifestsAssumption
<1>2. /\ j \in Job /\ j.pc = "lock"
      /\ j.path = p /\ j.list = m /\ j.todo = todo
  BY <1>1, IdleType, ManifestsAssumption DEF Job
<1>3. job' = [job EXCEPT ![t] = j] /\ UNCHANGED <<file, temp, manifests, lock>>
  BY DEF WriteBegin, Begin
<1>4. job'[t] = j /\ lock # t /\ lock \in Thread \cup {None}
  BY <1>3 DEF WriteBegin, Begin, IInv, TypeOK, JobInv, LockInv, At
<1>5. JobInv(t)'
  BY <1>2, <1>3, <1>4 DEF JobInv, PutInv, LockInv, CheckInv, StreamInv, At
<1> QED
  BY <1>2, <1>3, <1>4, <1>5, QuietStep

LEMMA GetBeginInv ==
  ASSUME IInv, NEW t \in Thread, NEW p \in Path, GetBegin(t, p)
  PROVE  IInv'
<1> DEFINE list == manifests[p].chunks
           j == [Idle EXCEPT !.pc = "stream", !.path = p, !.list = list]
<1>1. list \in Seq(Chunk) /\ \A h \in Referenced(list) : Have(h)
  BY DEF GetBegin, IInv, TypeOK, Row, ReferencesHeld
<1>2. j \in Job /\ j.pc = "stream" /\ j.list = list /\ j.out = <<>>
  <2>1. Idle.out = <<>>
    BY DEF Idle
  <2> QED
    BY <1>1, <2>1, IdleType DEF Job
<1>3. job' = [job EXCEPT ![t] = j] /\ UNCHANGED <<file, temp, manifests, lock>>
  BY DEF GetBegin, Begin
<1>4. job'[t] = j /\ lock # t /\ lock \in Thread \cup {None}
  BY <1>3 DEF GetBegin, Begin, IInv, TypeOK, JobInv, LockInv, At
<1>5. Served(t)'
  <2>1. job'[t].out = <<>> /\ job'[t].list = list /\ file' = file
    BY <1>2, <1>3, <1>4
  <2>2. Len(<<>>) <= Len(list) /\ DOMAIN <<>> = {}
    BY <1>1
  <2>3. \A h \in Referenced(list) : Have(h)'
    BY <1>1, <2>1 DEF Have
  <2> QED
    BY <2>1, <2>2, <2>3 DEF Served
<1>6. JobInv(t)'
  BY <1>1, <1>2, <1>3, <1>4, <1>5
  DEF JobInv, PutInv, LockInv, CheckInv, StreamInv, At
<1> QED
  BY <1>2, <1>3, <1>4, <1>6, QuietStep

LEMMA RequestInv ==
  ASSUME IInv, NEW t \in Thread, Request(t)
  PROVE  IInv'
BY PutBeginInv, MissingBeginInv, WriteBeginInv, GetBeginInv DEF Request

LEMMA PutTestInv ==
  ASSUME IInv, NEW t \in Thread, PutTest(t)
  PROVE  IInv'
<1>1. lock # t /\ lock \in Thread \cup {None}
  BY DEF PutTest, IInv, TypeOK, JobInv, LockInv, At
<1>2. CASE Answer(t)
  <2>1. UNCHANGED <<file, temp, manifests>> /\ lock' = lock
    BY DEF PutTest
  <2> QED
    BY <1>1, <1>2, <2>1, QuietAnswer DEF Answer
<1>3. CASE Goto(t, "open")
  <2> DEFINE j == [job[t] EXCEPT !.pc = "open"]
  <2>1. job[t] \in Job
    BY DEF IInv, TypeOK
  <2>2. j \in Job /\ j.pc = "open" /\ j.hash = job[t].hash /\ j.data = job[t].data
    BY <2>1 DEF Job
  <2>3. job' = [job EXCEPT ![t] = j] /\ job'[t] = j
    BY <1>3 DEF Goto, IInv, TypeOK
  <2>4. UNCHANGED <<file, temp, manifests, lock>>
    BY DEF PutTest
  <2>5. JobInv(t)'
    BY <1>1, <2>2, <2>3, <2>4
    DEF PutTest, IInv, JobInv, PutInv, LockInv, CheckInv, StreamInv, At
  <2> QED
    BY <1>1, <2>2, <2>3, <2>4, <2>5, QuietStep
<1> QED
  BY <1>2, <1>3 DEF PutTest

\* A thread goes on to another place and changes nothing else.
LEMMA GotoType ==
  ASSUME IInv, NEW t \in Thread, NEW pc \in {"open", "write", "replace", "check"},
         NEW j, j = [job[t] EXCEPT !.pc = pc], Goto(t, pc)
  PROVE  /\ j \in Job /\ job' = [job EXCEPT ![t] = j] /\ job'[t] = j
         /\ j.pc = pc /\ j.hash = job[t].hash /\ j.data = job[t].data
         /\ j.path = job[t].path /\ j.list = job[t].list
         /\ j.todo = job[t].todo /\ j.missing = job[t].missing
<1>1. job[t] \in Job
  BY DEF IInv, TypeOK
<1>2. j \in Job
  BY <1>1 DEF Job
<1>3. job' = [job EXCEPT ![t] = j] /\ job'[t] = j
  BY DEF Goto, IInv, TypeOK
<1> QED
  BY <1>1, <1>2, <1>3 DEF Job

LEMMA LookUpInv ==
  ASSUME IInv, NEW t \in Thread, NEW h \in Chunk, LookUp(t, h)
  PROVE  IInv'
<1> DEFINE missing == IF Have(h) THEN job[t].missing ELSE job[t].missing \cup {h}
           j == [job[t] EXCEPT !.todo = @ \ {h}, !.missing = missing]
<1>1. job[t] \in Job /\ lock \in Thread \cup {None}
  BY DEF IInv, TypeOK
<1>2. missing \in SUBSET Chunk /\ job[t].todo \ {h} \in SUBSET Chunk
  BY <1>1 DEF Job
<1>3. /\ j \in Job /\ j.pc = job[t].pc /\ j.path = job[t].path /\ j.list = job[t].list
      /\ j.todo = job[t].todo \ {h} /\ j.missing = missing
  BY <1>1, <1>2 DEF Job
<1>4. job' = [job EXCEPT ![t] = j] /\ UNCHANGED <<file, temp, manifests, lock>>
  BY DEF LookUp, IInv, TypeOK
<1>5. job'[t] = j
  BY <1>4 DEF IInv, TypeOK
<1>6. job[t].pc = "ask" \/ job[t].pc = "check"
  BY DEF LookUp, At
<1>7. CheckInv(t)'
  <2>1. ASSUME At(t, "check"), job[t].list # None,
               NEW g \in Referenced(job[t].list)
        PROVE  g \in j.todo \cup j.missing \/ Have(g)
    BY <1>3, <2>1 DEF IInv, JobInv, CheckInv
  <2>2. \A g : Have(g)' <=> Have(g)
    BY <1>4 DEF Have
  <2> QED
    BY <1>3, <1>4, <1>5, <1>6, <2>1, <2>2 DEF IInv, JobInv, CheckInv, At
<1>8. JobInv(t)'
  BY <1>3, <1>4, <1>5, <1>6, <1>7
  DEF IInv, JobInv, PutInv, LockInv, StreamInv, At
<1> QED
  BY <1>1, <1>3, <1>4, <1>8, QuietStep

LEMMA TakeLockInv ==
  ASSUME IInv, NEW t \in Thread, TakeLock(t)
  PROVE  IInv'
<1> DEFINE j == [job[t] EXCEPT !.pc = "check"]
<1>1. /\ j \in Job /\ job' = [job EXCEPT ![t] = j] /\ job'[t] = j
      /\ j.pc = "check" /\ j.path = job[t].path /\ j.list = job[t].list
      /\ j.todo = job[t].todo
  BY GotoType DEF TakeLock
<1>2. /\ UNCHANGED <<file, temp, manifests>>
      /\ lock = None /\ lock' = t
  BY DEF TakeLock
<1>3. JobInv(t)'
  BY <1>1, <1>2 DEF TakeLock, IInv, JobInv, PutInv, LockInv, CheckInv, StreamInv, At
<1> QED
  BY <1>1, <1>2, <1>3, NoneAssumption, QuietStep

LEMMA PutOpenInv ==
  ASSUME IInv, NEW t \in Thread, PutOpen(t)
  PROVE  IInv'
<1> DEFINE j == [job[t] EXCEPT !.pc = "write"]
           h == job[t].hash
<1>1. /\ j \in Job /\ job' = [job EXCEPT ![t] = j] /\ job'[t] = j
      /\ j.pc = "write" /\ j.hash = h /\ j.data = job[t].data
  BY GotoType DEF PutOpen
<1>2. h \in Chunk /\ job[t].data = h /\ lock # t
  BY DEF PutOpen, IInv, JobInv, PutInv, LockInv, At
<1>3. temp' = [temp EXCEPT ![t][h] = Partial] /\ UNCHANGED <<file, manifests, lock>>
  BY DEF PutOpen
<1>4. /\ temp' \in [Thread -> [Chunk -> Content]]
      /\ \A u \in Thread \ {t} : temp'[u] = temp[u]
  BY <1>2, <1>3 DEF IInv, TypeOK, Content
<1>5. JobInv(t)'
  BY <1>1, <1>2, <1>3 DEF JobInv, PutInv, LockInv, CheckInv, StreamInv, At
<1>6. /\ StoreSound' /\ ReferencesHeld' /\ \A g \in Chunk : Have(g) => Have(g)'
      /\ file' \in [Chunk -> Content] /\ lock' \in Thread \cup {None}
      /\ manifests' \in [Path -> Row \cup {None}]
  BY <1>3 DEF IInv, TypeOK, StoreSound, ReferencesHeld, Have
<1> QED
  BY <1>1, <1>3, <1>4, <1>5, <1>6, ThreadStep

LEMMA PutWriteInv ==
  ASSUME IInv, NEW t \in Thread, PutWrite(t)
  PROVE  IInv'
<1> DEFINE j == [job[t] EXCEPT !.pc = "replace"]
           h == job[t].hash
<1>1. /\ j \in Job /\ job' = [job EXCEPT ![t] = j] /\ job'[t] = j
      /\ j.pc = "replace" /\ j.hash = h /\ j.data = job[t].data
  BY GotoType DEF PutWrite
<1>2. h \in Chunk /\ job[t].data = h /\ lock # t
  BY DEF PutWrite, IInv, JobInv, PutInv, LockInv, At
<1>3. temp' = [temp EXCEPT ![t][h] = h] /\ UNCHANGED <<file, manifests, lock>>
  BY <1>2 DEF PutWrite
<1>4. /\ temp' \in [Thread -> [Chunk -> Content]]
      /\ \A u \in Thread \ {t} : temp'[u] = temp[u]
      /\ temp'[t][h] = h
  BY <1>2, <1>3 DEF IInv, TypeOK, Content
<1>5. JobInv(t)'
  BY <1>1, <1>2, <1>3, <1>4 DEF JobInv, PutInv, LockInv, CheckInv, StreamInv, At
<1>6. /\ StoreSound' /\ ReferencesHeld' /\ \A g \in Chunk : Have(g) => Have(g)'
      /\ file' \in [Chunk -> Content] /\ lock' \in Thread \cup {None}
      /\ manifests' \in [Path -> Row \cup {None}]
  BY <1>3 DEF IInv, TypeOK, StoreSound, ReferencesHeld, Have
<1> QED
  BY <1>1, <1>3, <1>4, <1>5, <1>6, ThreadStep

\* The rename publishes a complete chunk under its own name, so whoever has
\* found that chunk, or another one, still has it.
LEMMA PutReplaced ==
  ASSUME IInv, NEW t \in Thread, PutReplace(t)
  PROVE  job[t].hash \in Chunk /\ file' = [file EXCEPT ![job[t].hash] = job[t].hash]
BY DEF PutReplace, IInv, JobInv, PutInv, At

LEMMA PutReplaceInv ==
  ASSUME IInv, NEW t \in Thread, PutReplace(t)
  PROVE  IInv'
<1> DEFINE h == job[t].hash
<1>1. h \in Chunk /\ file' = [file EXCEPT ![h] = h] /\ file \in [Chunk -> Content]
  BY PutReplaced DEF IInv, TypeOK
<1>2. /\ file' \in [Chunk -> Content]
      /\ StoreSound'
      /\ \A g \in Chunk : Have(g) => Have(g)'
  BY <1>1, ChunkAssumption DEF IInv, StoreSound, Have, Content
<1>3. job' = [job EXCEPT ![t] = Idle] /\ UNCHANGED <<manifests, lock>>
  BY DEF PutReplace, Answer
<1>4. /\ temp' \in [Thread -> [Chunk -> Content]]
      /\ \A u \in Thread \ {t} : temp'[u] = temp[u]
  BY <1>1 DEF PutReplace, IInv, TypeOK, Content
<1>5. /\ manifests' \in [Path -> Row \cup {None}] /\ lock' \in Thread \cup {None}
      /\ lock' # t /\ job'[t] = Idle
  BY <1>3 DEF PutReplace, IInv, TypeOK, JobInv, LockInv, At
<1>6. ReferencesHeld'
  <2>1. ASSUME NEW p \in Path, manifests[p] # None
        PROVE  Referenced(manifests[p].chunks) \subseteq Chunk
    BY <2>1, ReferencedType DEF IInv, TypeOK, Row
  <2> QED
    BY <1>2, <1>3, <2>1 DEF IInv, ReferencesHeld
<1>7. JobInv(t)'
  BY <1>5, IdleJob
<1> QED
  BY <1>2, <1>3, <1>4, <1>5, <1>6, <1>7, IdleType, ThreadStep

-----------------------------------------------------------------------------
(* The answers of a commit and a delete.                                   *)

\* A row is written by the thread that holds the lock.
LEMMA RowWritten ==
  ASSUME IInv, NEW t \in Thread, Locked(t), Answer(t),
         UNCHANGED <<file, temp>>, lock' = None,
         manifests' \in [Path -> Row \cup {None}], ReferencesHeld'
  PROVE  IInv'
<1>1. lock = t /\ None \notin Thread
  BY NoneAssumption DEF Locked, IInv, JobInv, LockInv, At
<1>2. job' = [job EXCEPT ![t] = Idle] /\ job'[t] = Idle
  BY DEF Answer, IInv, TypeOK
<1>3. /\ file' \in [Chunk -> Content] /\ temp' \in [Thread -> [Chunk -> Content]]
      /\ StoreSound' /\ \A h \in Chunk : Have(h) => Have(h)'
  BY DEF IInv, TypeOK, StoreSound, Have
<1>4. JobInv(t)'
  BY <1>1, <1>2, IdleJob
<1> QED
  BY <1>1, <1>2, <1>3, <1>4, IdleType, ThreadStep

\* What a commit publishes is one of the manifests, and all of it is held.
LEMMA CommitChecked ==
  ASSUME IInv, NEW t \in Thread, CommitWrite(t)
  PROVE  /\ job[t].path \in Path /\ job[t].list \in Manifests
         /\ \A h \in Referenced(job[t].list) : Have(h)
BY DEF CommitWrite, Locked, IInv, JobInv, CheckInv, At

LEMMA CommitWriteInv ==
  ASSUME IInv, NEW t \in Thread, CommitWrite(t)
  PROVE  IInv'
<1> DEFINE p == job[t].path
           r == [chunks |-> job[t].list, deleted |-> FALSE]
<1>1. p \in Path /\ r \in Row /\ \A h \in Referenced(r.chunks) : Have(h)
  BY CommitChecked, ManifestsAssumption DEF Row
<1>2. manifests' = [manifests EXCEPT ![p] = r] /\ UNCHANGED <<file, temp>>
  BY DEF CommitWrite
<1>3. manifests' \in [Path -> Row \cup {None}]
  BY <1>1, <1>2 DEF IInv, TypeOK
<1>4. ReferencesHeld'
  BY <1>1, <1>2 DEF IInv, TypeOK, ReferencesHeld, Have
<1> QED
  BY <1>2, <1>3, <1>4, RowWritten DEF CommitWrite

LEMMA RowMarked ==
  ASSUME NEW r \in Row, NEW b \in BOOLEAN
  PROVE  [r EXCEPT !.deleted = b] = [chunks |-> r.chunks, deleted |-> b]
BY DEF Row

\* A tombstone keeps the chunks of the row, and needs one.
LEMMA Tombstoned ==
  ASSUME IInv, NEW t \in Thread, DeleteWrite(t)
  PROVE  LET p == job[t].path IN
         /\ p \in Path
         /\ \/ manifests[p] = None /\ manifests' = manifests
            \/ /\ manifests[p] \in Row
               /\ manifests' = [manifests EXCEPT ![p] =
                                  [chunks |-> manifests[p].chunks, deleted |-> TRUE]]
<1>1. job[t].path \in Path
  BY DEF DeleteWrite, Locked, IInv, JobInv, CheckInv, At
<1>2. CASE manifests[job[t].path] = None
  BY <1>1, <1>2 DEF DeleteWrite
<1>3. CASE manifests[job[t].path] # None
  <2> DEFINE r == manifests[job[t].path]
  <2>1. r \in Row
    BY <1>1, <1>3 DEF IInv, TypeOK
  <2>2. [r EXCEPT !.deleted = TRUE] = [chunks |-> r.chunks, deleted |-> TRUE]
    BY <2>1, RowMarked
  <2>3. manifests' = [manifests EXCEPT ![job[t].path] = [r EXCEPT !.deleted = TRUE]]
    BY <1>3 DEF DeleteWrite
  <2> QED
    BY <1>1, <2>1, <2>2, <2>3
<1> QED
  BY <1>2, <1>3

LEMMA DeleteWriteInv ==
  ASSUME IInv, NEW t \in Thread, DeleteWrite(t)
  PROVE  IInv'
<1> DEFINE p == job[t].path
           r == [chunks |-> manifests[p].chunks, deleted |-> TRUE]
<1>1. Locked(t) /\ Answer(t) /\ UNCHANGED <<file, temp>> /\ lock' = None
  BY DEF DeleteWrite
<1>2. manifests' \in [Path -> Row \cup {None}] /\ ReferencesHeld'
  <2>1. CASE manifests' = manifests
    BY <1>1, <2>1 DEF IInv, TypeOK, ReferencesHeld, Have
  <2>2. CASE p \in Path /\ manifests[p] \in Row /\ manifests' = [manifests EXCEPT ![p] = r]
    <3>1. r \in Row /\ r.chunks = manifests[p].chunks
      BY <2>2 DEF Row
    <3> QED
      BY <1>1, <2>2, <3>1, RowAssumption DEF IInv, TypeOK, ReferencesHeld, Have
  <2> QED
    BY <2>1, <2>2, Tombstoned
<1> QED
  BY <1>1, <1>2, RowWritten

LEMMA CommitMissingInv ==
  ASSUME IInv, NEW t \in Thread, CommitMissing(t)
  PROVE  IInv'
<1>1. job' = [job EXCEPT ![t] = Idle] /\ UNCHANGED <<file, temp, manifests>>
  BY DEF CommitMissing, Answer
<1>2. lock' = None /\ lock = t
  BY DEF CommitMissing, Locked, IInv, JobInv, LockInv, At
<1> QED
  BY <1>1, <1>2, QuietAnswer

-----------------------------------------------------------------------------
(* The rest: answers without effect, the stream of a file, a crash.        *)

LEMMA AnswersInv ==
  ASSUME IInv, NEW t \in Thread, PutFails(t) \/ MissingAnswer(t) \/ StreamEnd(t)
  PROVE  IInv'
<1>1. job' = [job EXCEPT ![t] = Idle] /\ UNCHANGED <<file, temp, manifests, lock>>
  BY DEF PutFails, MissingAnswer, StreamEnd, Answer
<1>2. lock # t
  BY DEF PutFails, MissingAnswer, StreamEnd, IInv, JobInv, LockInv, At
<1> QED
  BY <1>1, <1>2, QuietAnswer

LEMMA StreamChunkInv ==
  ASSUME IInv, NEW t \in Thread, StreamChunk(t)
  PROVE  IInv'
<1> DEFINE list == job[t].list
           n == Len(job[t].out) + 1
           out == Append(job[t].out, file[list[n]])
           j == [job[t] EXCEPT !.out = out]
<1>1. /\ job[t] \in Job /\ job[t].out \in Seq(Content)
      /\ list \in Seq(Chunk) /\ Served(t) /\ lock # t
  BY DEF StreamChunk, IInv, TypeOK, Job, JobInv, StreamInv, LockInv, At
<1>2. n \in 1..Len(list)
  BY <1>1 DEF StreamChunk, Streamed, Served
<1>3. list[n] \in Chunk /\ file[list[n]] = list[n]
  BY <1>1, <1>2 DEF StreamChunk, IInv, StoreSound, Have
<1>4. /\ out \in Seq(Content) /\ Len(out) = n
      /\ \A i \in 1..n : out[i] = IF i = n THEN list[n] ELSE job[t].out[i]
  BY <1>1, <1>2, <1>3 DEF Content
<1>5. /\ j \in Job /\ j.pc = "stream" /\ j.list = list /\ j.out = out
  BY <1>1, <1>4 DEF StreamChunk, At, Job
<1>6. /\ job' = [job EXCEPT ![t] = j] /\ job'[t] = j
      /\ UNCHANGED <<file, temp, manifests, lock>>
  BY DEF StreamChunk, IInv, TypeOK
<1>7. Served(t)'
  <2>1. \A i \in DOMAIN out : out[i] = list[i]
    <3>1. DOMAIN out = 1..n /\ DOMAIN job[t].out = 1..(n - 1) /\ n \in Nat
      BY <1>1, <1>4
    <3> QED
      BY <1>1, <1>4, <3>1 DEF Served
  <2>2. \A h \in Referenced(list) : Have(h)'
    BY <1>1, <1>6 DEF Served, Have
  <2> QED
    BY <1>2, <1>4, <1>5, <1>6, <2>1, <2>2 DEF Served
<1>8. JobInv(t)'
  BY <1>1, <1>5, <1>6, <1>7 DEF JobInv, PutInv, LockInv, CheckInv, StreamInv, At
<1> QED
  BY <1>1, <1>5, <1>6, <1>8, QuietStep DEF IInv, TypeOK

LEMMA CrashInv ==
  ASSUME IInv, Crash
  PROVE  IInv'
<1>1. /\ TypeOK' /\ StoreSound' /\ ReferencesHeld'
  BY IdleType DEF Crash, IInv, TypeOK, StoreSound, ReferencesHeld, Have
<1>2. ASSUME NEW t \in Thread
      PROVE  JobInv(t)'
  <2>1. job'[t] = Idle /\ lock' # t
    BY NoneAssumption DEF Crash
  <2> QED
    BY <2>1, IdleJob
<1> QED
  BY <1>1, <1>2 DEF IInv

-----------------------------------------------------------------------------
(* The invariant.                                                          *)

LEMMA InitInv == Init => IInv
<1> SUFFICES ASSUME Init
             PROVE  IInv
  OBVIOUS
<1>1. TypeOK /\ StoreSound /\ ReferencesHeld
  BY IdleType DEF Init, TypeOK, Content, StoreSound, ReferencesHeld
<1>2. ASSUME NEW t \in Thread
      PROVE  JobInv(t)
  BY NoneAssumption
  DEF Init, JobInv, PutInv, LockInv, CheckInv, StreamInv, At, Idle
<1> QED
  BY <1>1, <1>2 DEF IInv

LEMMA HandleInv ==
  ASSUME IInv, NEW t \in Thread, Handle(t)
  PROVE  IInv'
BY PutTestInv, PutOpenInv, PutWriteInv, PutReplaceInv, LookUpInv, AnswersInv,
   CommitMissingInv, CommitWriteInv, DeleteWriteInv, StreamChunkInv
DEF Handle

LEMMA StutterInv == IInv /\ UNCHANGED vars => IInv'
<1> SUFFICES ASSUME IInv, UNCHANGED vars
             PROVE  IInv'
  OBVIOUS
<1>1. TypeOK' /\ StoreSound' /\ ReferencesHeld'
  BY DEF vars, IInv, TypeOK, StoreSound, ReferencesHeld, Have
<1>2. ASSUME NEW t \in Thread
      PROVE  JobInv(t)'
  BY OtherJob DEF vars, Have
<1> QED
  BY <1>1, <1>2 DEF IInv

LEMMA NextInv == IInv /\ [Next]_vars => IInv'
BY RequestInv, TakeLockInv, HandleInv, CrashInv, StutterInv DEF Next

LEMMA Invariant == Spec => []IInv
BY InitInv, NextInv, PTL DEF Spec

-----------------------------------------------------------------------------
(* What the invariant says of every server.                                *)

\* Every file, row, lock and request of the server keeps its type (TypeOK of
\* app.py's state), through every interleaving of its threads and every crash.
THEOREM TypeCorrect == Spec => []TypeOK
<1>1. IInv => TypeOK
  BY DEF IInv
<1> QED
  BY <1>1, Invariant, PTL

\* The store is never poisoned: however puts of one chunk race, fail for want
\* of space or die half way (put_chunk), a chunk's file is absent or has
\* exactly the content it is named for.
THEOREM StoreAlwaysSound == Spec => []StoreSound
<1>1. IInv => StoreSound
  BY DEF IInv
<1> QED
  BY <1>1, Invariant, PTL

\* A file that get_file streams is, chunk for chunk, one committed version, and
\* no chunk of it is ever absent, though the stream runs without the lock.
THEOREM DownloadsAreWhole == Spec => []ServedWhole
<1>1. IInv => ServedWhole
  BY DEF IInv, JobInv, StreamInv, ServedWhole
<1> QED
  BY <1>1, Invariant, PTL

-----------------------------------------------------------------------------
(* The refinement of ChunkStore: a rename keeps a chunk, a commit publishes,*)
(* a delete retracts, and nothing else is visible.                         *)

KeptNow == {h \in Chunk : file[h] = h}

LEMMA InitRefined == Init => S!Init
BY ChunkAssumption DEF Init, S!Init

LEMMA PutRefined ==
  ASSUME IInv, NEW t \in Thread, PutReplace(t)
  PROVE  S!Keep
<1> DEFINE h == job[t].hash
<1>1. h \in Chunk /\ file' = [file EXCEPT ![h] = h]
  BY PutReplaced
<1>2. file \in [Chunk -> Content] /\ manifests' = manifests
  BY DEF IInv, TypeOK, PutReplace
<1>3. KeptNow' = KeptNow \cup {h}
  BY <1>1, <1>2 DEF KeptNow
<1> QED
  BY <1>1, <1>2, <1>3 DEF S!Keep, KeptNow

LEMMA CommitRefined ==
  ASSUME IInv, NEW t \in Thread, CommitWrite(t)
  PROVE  \E p \in Path : S!Publish(p)
<1> DEFINE p == job[t].path
           m == job[t].list
<1>1. p \in Path /\ m \in Manifests
  BY DEF CommitWrite, Locked, IInv, JobInv, CheckInv, At
<1>2. S!Referenced(m) \subseteq KeptNow
  <2>1. \A h \in Referenced(m) : Have(h) /\ h \in Chunk
    BY CommitChecked, <1>1, ManifestsAssumption DEF Referenced
  <2> QED
    BY <2>1 DEF S!Referenced, Referenced, Have, KeptNow, IInv, StoreSound
<1>3. manifests' = [manifests EXCEPT ![p] = S!Row(m, FALSE)] /\ KeptNow' = KeptNow
  BY DEF CommitWrite, S!Row, KeptNow
<1> QED
  BY <1>1, <1>2, <1>3 DEF S!Publish, KeptNow

LEMMA DeleteRefined ==
  ASSUME IInv, NEW t \in Thread, DeleteWrite(t)
  PROVE  (\E p \in Path : S!Retract(p)) \/ UNCHANGED <<KeptNow, manifests>>
<1> DEFINE p == job[t].path
<1>1. KeptNow' = KeptNow
  BY DEF DeleteWrite, KeptNow
<1>2. CASE manifests' = manifests
  BY <1>1, <1>2
<1>3. CASE /\ p \in Path /\ manifests[p] \in Row
           /\ manifests' = [manifests EXCEPT ![p] =
                              [chunks |-> manifests[p].chunks, deleted |-> TRUE]]
  <2>1. S!Retract(p)
    BY <1>1, <1>3, RowAssumption DEF S!Retract, S!Row, KeptNow
  <2> QED
    BY <1>3, <2>1
<1> QED
  BY <1>2, <1>3, Tombstoned

LEMMA OthersRefined ==
  ASSUME UNCHANGED <<file, manifests>>
  PROVE  UNCHANGED <<KeptNow, manifests>>
BY DEF KeptNow

LEMMA NextRefined ==
  IInv /\ [Next]_vars => [S!Next]_<<KeptNow, manifests>>
<1> SUFFICES ASSUME IInv, [Next]_vars
             PROVE  S!Next \/ UNCHANGED <<KeptNow, manifests>>
  OBVIOUS
<1>1. CASE UNCHANGED vars \/ Crash
  BY <1>1, OthersRefined DEF vars, Crash
<1>2. ASSUME NEW t \in Thread, Request(t) \/ TakeLock(t)
      PROVE  UNCHANGED <<KeptNow, manifests>>
  BY <1>2, OthersRefined
  DEF Request, TakeLock, PutBegin, MissingBegin, WriteBegin, GetBegin
<1>3. ASSUME NEW t \in Thread, Handle(t)
      PROVE  S!Next \/ UNCHANGED <<KeptNow, manifests>>
  <2>1. CASE PutReplace(t)
    BY <2>1, PutRefined DEF S!Next
  <2>2. CASE CommitWrite(t)
    BY <2>2, CommitRefined DEF S!Next
  <2>3. CASE DeleteWrite(t)
    BY <2>3, DeleteRefined DEF S!Next
  <2>4. CASE \/ PutTest(t) \/ PutOpen(t) \/ PutWrite(t) \/ PutFails(t)
             \/ (\E h \in Chunk : LookUp(t, h)) \/ MissingAnswer(t)
             \/ CommitMissing(t) \/ StreamChunk(t) \/ StreamEnd(t)
    BY <2>4, OthersRefined
    DEF PutTest, PutOpen, PutWrite, PutFails, LookUp, MissingAnswer,
        CommitMissing, StreamChunk, StreamEnd
  <2> QED
    BY <1>3, <2>1, <2>2, <2>3, <2>4 DEF Handle
<1> QED
  BY <1>1, <1>2, <1>3 DEF Next

\* The threads, the lock and the renames of app.py together are the atomic store
\* the client counts on: chunks kept for good, a manifest published only with
\* all its chunks, a tombstone only over a row.
THEOREM StoreImplemented == Spec => ImplementsStore
<1>1. IInv /\ [Next]_vars => [S!Next]_<<{h \in Chunk : file[h] = h}, manifests>>
  BY NextRefined DEF KeptNow
<1> QED
  BY <1>1, InitRefined, Invariant, PTL DEF Spec, S!Spec, ImplementsStore
=============================================================================
