-------------------------- MODULE PublicationProofs --------------------------
(***************************************************************************)
(* More theorems about SingleFileTransfer: what the baseline, the removal  *)
(* of a source and a published manifest may rest on.                       *)
(***************************************************************************)
EXTENDS SingleFileTransferProofs

-----------------------------------------------------------------------------
(* Which steps move what.                                                  *)

\* Only five statements of the client write the row.
LEMMA RowSteps ==
  ASSUME [Next]_vars
  PROVE  \/ UNCHANGED row
         \/ MarkDirtyAndReturn \/ PersistManifest
         \/ MarkSyncedStep \/ ForgetStep
<1>1. Writer \/ Advance \/ UNCHANGED vars => UNCHANGED row
  BY DEF Writer, WriteInPlace, AtomicSave, Unlink, Written, Advance, vars
<1>2. Begin => UNCHANGED row \/ MarkDirtyAndReturn
  BY DEF Begin, SyncVanished, SyncUnchanged, SyncResumeRaises, SyncResume,
     SyncAfresh, vars
<1>3. Chunking => UNCHANGED row \/ MarkDirtyAndReturn \/ PersistManifest
  BY DEF Chunking, OpenToChunk, OpenVanished, ReadChunk, MapFault, AnchorRead,
     TornRead
<1>4. Sending => UNCHANGED row \/ MarkDirtyAndReturn
  BY DEF Sending, AskMissing, OpenToUpload, PutChunk, UploadDone,
     UploadRejected, UploadLost, CommitOk, CommitMissing, CommitExhausted
<1>5. Finishing => \/ UNCHANGED row
                   \/ MarkDirtyAndReturn \/ MarkSyncedStep \/ ForgetStep
  BY DEF Finishing, RemoveSource, RemoveVanished
<1>6. Faulty => UNCHANGED row
  BY DEF Faulty, PutLost, Unanswered, UploadFailover, CommitAnswerLost,
     CommitDelayed, CommitArrives, Crash, RemoveDenied
<1> QED
  BY <1>1, <1>2, <1>3, <1>4, <1>5, <1>6 DEF Next, Client

\* Only an accepted commit, answered, lost or late, writes a server's row.
LEMMA PublishingSteps ==
  ASSUME TypeInv, [Next]_vars
  PROVE  \/ UNCHANGED published
         \/ CommitOk \/ CommitAnswerLost
         \/ \E m \in late : CommitArrives(m)
<1>1. Writer \/ Advance \/ Begin \/ Chunking \/ Finishing => UNCHANGED published
  BY DEF Writer, WriteInPlace, AtomicSave, Unlink, Written, Advance, Begin,
     SyncVanished, SyncUnchanged, SyncResumeRaises, SyncResume, SyncAfresh,
     Chunking, OpenToChunk, OpenVanished, ReadChunk, MapFault, AnchorRead,
     TornRead, PersistManifest, Finishing, MarkSyncedStep, RemoveSource,
     RemoveVanished, ForgetStep, MarkDirtyAndReturn, serverVars, vars
<1>2. Sending => UNCHANGED published \/ CommitOk
  BY DEF Sending, AskMissing, OpenToUpload, PutChunk, UploadDone,
     UploadRejected, UploadLost, CommitMissing, CommitExhausted,
     MarkDirtyAndReturn, serverVars
<1>3. Faulty => \/ UNCHANGED published
                \/ CommitAnswerLost
                \/ \E m \in late : CommitArrives(m)
  BY DEF Faulty, PutLost, Unanswered, UploadFailover, CommitDelayed, Crash,
     RemoveDenied, serverVars
<1> QED
  BY <1>1, <1>2, <1>3 DEF Next, Client, vars

\* Only the writers add to the history; only they and the removal of the source
\* touch the file.
LEMMA FileSteps ==
  ASSUME [Next]_vars
  PROVE  \/ UNCHANGED fileVars
         \/ \E c \in Contents : WriteInPlace(c) \/ AtomicSave(c)
         \/ Unlink \/ RemoveSource
<1>1. Writer => \/ \E c \in Contents : WriteInPlace(c) \/ AtomicSave(c)
                \/ Unlink
  BY DEF Writer
<1>2. Advance \/ Begin \/ Chunking \/ Sending \/ Faulty \/ UNCHANGED vars
        => UNCHANGED fileVars
  BY DEF Advance, Begin, SyncVanished, SyncUnchanged, SyncResumeRaises,
     SyncResume, SyncAfresh, Chunking, OpenToChunk, OpenVanished, ReadChunk,
     MapFault, AnchorRead, TornRead, PersistManifest, MarkDirtyAndReturn,
     Sending, AskMissing, OpenToUpload, PutChunk, UploadDone, UploadRejected,
     UploadLost, CommitOk, CommitMissing, CommitExhausted, Faulty, PutLost,
     Unanswered, UploadFailover, CommitAnswerLost, CommitDelayed, CommitArrives,
     Crash, RemoveDenied, fileVars, vars
<1>3. Finishing => UNCHANGED fileVars \/ RemoveSource
  BY DEF Finishing, MarkSyncedStep, RemoveVanished, ForgetStep,
     MarkDirtyAndReturn, fileVars
<1> QED
  BY <1>1, <1>2, <1>3 DEF Next, Client

\* A call comes to "mark" by an accepted commit only, and to the removal of its
\* source by the mark only.
LEMMA Arrivals ==
  ASSUME TypeInv, [Next]_vars
  PROVE  /\ job'.pc = "mark" =>
              CommitOk \/ (job.pc = "mark" /\ job'.manifest = job.manifest)
         /\ job'.pc \in {"remove", "forget"} =>
              \/ MarkSyncedStep
              \/ job.pc \in {"remove", "forget"} /\ UNCHANGED row
<1> DEFINE Stays == /\ job'.pc = job.pc /\ job'.manifest = job.manifest
                    /\ UNCHANGED row
           Before == job'.pc \notin {"mark", "remove", "forget"}
<1> USE DEF TypeInv, TypeOK, Job
<1>1. Return => Before
  BY DEF Return, Idle
<1>2. Writer \/ Advance \/ UNCHANGED vars => Stays
  BY DEF Writer, WriteInPlace, AtomicSave, Unlink, Written, Orphan, Advance,
     vars
<1>3. MarkDirtyAndReturn => Before
  BY <1>1 DEF MarkDirtyAndReturn
<1>4. ASSUME NEW s \in Server, SyncResume(s) \/ SyncAfresh(s) PROVE Before
  BY <1>4, IdleType DEF SyncResume, SyncAfresh, Send, Call
<1>5. Begin => Before \/ Stays
  BY <1>3, <1>4 DEF Begin, SyncVanished, SyncUnchanged, SyncResumeRaises, vars
<1>6. PersistManifest => Before
  BY DEF PersistManifest, Send
<1>7. Chunking => Before
  BY <1>1, <1>3, <1>6
  DEF Chunking, OpenToChunk, OpenVanished, ReadChunk, MapFault, AnchorRead,
      TornRead
<1>8. Sending => Before \/ CommitOk
  BY <1>1, <1>3
  DEF Sending, AskMissing, OpenToUpload, PutChunk, UploadDone, UploadRejected,
      UploadLost, CommitMissing, CommitExhausted
<1>9. CommitOk => job'.pc = "mark"
  BY DEF CommitOk
<1>10. Finishing => \/ Before \/ MarkSyncedStep
                    \/ /\ job.pc \in {"remove", "forget"} /\ UNCHANGED row
                       /\ job'.pc = "forget"
  BY <1>1, <1>3 DEF Finishing, RemoveSource, RemoveVanished, ForgetStep
<1>11. MarkSyncedStep => job'.pc # "mark"
  BY <1>1 DEF MarkSyncedStep
<1>12. Faulty => Before \/ Stays
  BY <1>1
  DEF Faulty, PutLost, Unanswered, UploadFailover, CommitAnswerLost,
      CommitDelayed, CommitArrives, Crash, RemoveDenied, NextEndpoint
<1> QED
  BY <1>2, <1>5, <1>7, <1>8, <1>9, <1>10, <1>11, <1>12 DEF Next, Client

-----------------------------------------------------------------------------
(* The baseline: the chunks the next call will not ask about.              *)

HeldInv == TypeInv /\ ResumeInv /\ MarkInv /\ BaselineHeld

\* Only a put, answered or not, adds to a store, and only what it should be.
LEMMA StoreSteps ==
  ASSUME [Next]_vars
  PROVE  \/ UNCHANGED store
         \/ \E i \in DOMAIN job.puts : Matches(i) /\ Stored(i)
<1>1. Writer \/ Advance \/ Begin \/ Chunking \/ Finishing => UNCHANGED store
  BY DEF Writer, WriteInPlace, AtomicSave, Unlink, Written, Advance, Begin,
     SyncVanished, SyncUnchanged, SyncResumeRaises, SyncResume, SyncAfresh,
     Chunking, OpenToChunk, OpenVanished, ReadChunk, MapFault, AnchorRead,
     TornRead, PersistManifest, Finishing, MarkSyncedStep, RemoveSource,
     RemoveVanished, ForgetStep, MarkDirtyAndReturn, serverVars, vars
<1>2. Sending => \/ UNCHANGED store
                 \/ \E i \in DOMAIN job.puts : Matches(i) /\ Stored(i)
  BY DEF Sending, AskMissing, OpenToUpload, PutChunk, UploadDone,
     UploadRejected, UploadLost, CommitOk, CommitMissing, CommitExhausted,
     MarkDirtyAndReturn, serverVars
<1>3. Faulty => \/ UNCHANGED store
                \/ \E i \in DOMAIN job.puts : Matches(i) /\ Stored(i)
  BY DEF Faulty, PutLost, Unanswered, UploadFailover, CommitAnswerLost,
     CommitDelayed, CommitArrives, Crash, RemoveDenied, serverVars
<1> QED
  BY <1>1, <1>2, <1>3 DEF Next, Client, vars

LEMMA StoresGrow ==
  ASSUME TypeInv, [Next]_vars
  PROVE  (UNION {store[s] : s \in Server})
           \subseteq UNION {store'[s] : s \in Server}
<1>1. CASE UNCHANGED store
  BY <1>1
<1>2. ASSUME NEW i \in DOMAIN job.puts, Stored(i)
      PROVE  \A s \in Server : store[s] \subseteq store'[s]
  BY <1>2 DEF Stored, TypeInv, TypeOK
<1> QED
  BY <1>1, <1>2, StoreSteps

\* How a step moves the baseline: it keeps it, drops it, or takes the manifest
\* of the row for it.
LEMMA BaselineMoves ==
  ASSUME TypeInv, ResumeInv, [Next]_vars
  PROVE  \/ PrevHashes(row') = PrevHashes(row)
         \/ PrevHashes(row') = {}
         \/ MarkSyncedStep /\ PrevHashes(row') = Hashes(job.manifest)
<1>1. MarkDirty(row).synced_manifest = row.synced_manifest
  BY DEF MarkDirty, TypeInv, TypeOK, FileRec
<1>2. CASE MarkDirtyAndReturn
  BY <1>1, <1>2 DEF MarkDirtyAndReturn, PrevHashes
<1>3. CASE PersistManifest
  BY <1>3 DEF PersistManifest, SaveChunked, PrevHashes, TypeInv, TypeOK, FileRec
<1>4. CASE MarkSyncedStep
  <2>1. row.state = "chunked" /\ row.manifest = job.manifest
    BY <1>4 DEF MarkSyncedStep, ResumeInv
  <2>2. row'.synced_manifest = job.manifest
    BY <1>4, <2>1, RowAfter DEF MarkSyncedStep
  <2>3. job.manifest # None
    BY NoneAssumption DEF TypeInv, TypeOK, Job, Manifest
  <2> QED
    BY <1>4, <2>2, <2>3 DEF PrevHashes
<1>5. CASE ForgetStep
  BY <1>5 DEF ForgetStep, Forget, AbsentRow, PrevHashes
<1>6. CASE UNCHANGED row
  BY <1>6
<1>7. UNCHANGED row \/ MarkDirtyAndReturn \/ PersistManifest \/ MarkSyncedStep
      \/ ForgetStep
  BY RowSteps
<1> QED
  BY <1>2, <1>3, <1>4, <1>5, <1>6, <1>7

LEMMA HeldNext ==
  ASSUME HeldInv, [Next]_vars
  PROVE  HeldInv'
<1> DEFINE Stores == UNION {store[s] : s \in Server}
<1>1. TypeInv' /\ ResumeInv'
  BY TypeNext, ResumeNext DEF HeldInv
<1>2. Stores \subseteq Stores'
  BY StoresGrow DEF HeldInv
<1>3. CommitOk => /\ Hashes(job.manifest) \subseteq Stores
                  /\ job'.manifest = job.manifest
  BY DEF CommitOk, Lacks, HeldInv, TypeInv, TypeOK, Job
<1>4. MarkInv'
  <2> SUFFICES ASSUME job'.pc = "mark"
               PROVE  Hashes(job'.manifest) \subseteq Stores'
    BY DEF MarkInv
  <2>1. /\ job'.manifest = job.manifest
        /\ Hashes(job.manifest) \subseteq Stores
    BY <1>3, Arrivals DEF HeldInv, MarkInv
  <2> QED
    BY <1>2, <2>1
<1>5. PrevHashes(row') \subseteq Stores
  <2>1. MarkSyncedStep => Hashes(job.manifest) \subseteq Stores
    BY DEF MarkSyncedStep, HeldInv, MarkInv
  <2> QED
    BY <2>1, BaselineMoves DEF HeldInv, BaselineHeld
<1>6. BaselineHeld'
  BY <1>2, <1>5 DEF BaselineHeld
<1> QED
  BY <1>1, <1>4, <1>6 DEF HeldInv

\* The chunks a call skips as already known are held by some server: neither a
\* rejected upload, nor a torn read, nor a lost answer or a crash lets the
\* baseline run ahead of what was stored.
THEOREM BaselineAlwaysHeld == Spec => []BaselineHeld
<1>1. Init => HeldInv
  BY TypeInit
  DEF Init, HeldInv, ResumeInv, MarkInv, BaselineHeld, PrevHashes, AbsentRow,
      Idle
<1>2. HeldInv /\ [Next]_vars => HeldInv'
  BY HeldNext
<1>3. HeldInv => BaselineHeld
  BY DEF HeldInv
<1> QED
  BY <1>1, <1>2, <1>3, PTL DEF Spec

-----------------------------------------------------------------------------
(* Removal: a row is dropped only at the end of a call that synced it.     *)

LEMMA RemoveNext ==
  ASSUME TypeInv, ResumeInv, RemoveInv, [Next]_vars
  PROVE  RemoveInv'
<1>1. MarkSyncedStep => row'.state = "synced"
  <2> SUFFICES ASSUME MarkSyncedStep PROVE row'.state = "synced"
    OBVIOUS
  <2>1. row.state = "chunked"
    BY DEF MarkSyncedStep, ResumeInv
  <2> QED
    BY <2>1 DEF MarkSyncedStep, MarkSynced, TypeInv, TypeOK, FileRec
<1> QED
  BY <1>1, Arrivals DEF RemoveInv

LEMMA ForgetSteps ==
  ASSUME TypeInv, ResumeInv, [Next]_vars,
         row.state # "absent", row'.state = "absent"
  PROVE  ForgetStep
<1>1. ~ MarkDirtyAndReturn
  BY DEF MarkDirtyAndReturn, MarkDirty, TypeInv, TypeOK, FileRec
<1>2. ~ PersistManifest
  BY DEF PersistManifest, SaveChunked, TypeInv, TypeOK, FileRec
<1>3. ~ MarkSyncedStep
  BY DEF MarkSyncedStep, MarkSynced, TypeInv, TypeOK, FileRec
<1> QED
  BY <1>1, <1>2, <1>3, RowSteps

\* The row of a file removed after its sync is dropped only while a server
\* publishes the manifest that row calls synced, whatever has become of the file
\* since, provided no commit is applied after its client gave it up.
THEOREM ForgottenOnceSynced ==
  ASSUME LateCommits = FALSE
  PROVE  Spec => ForgottenWasPublished
<1> DEFINE IInv == SyncedInv /\ RemoveInv
<1>1. Init => IInv
  BY TypeInit
  DEF Init, SyncedInv, ResumeInv, CommitInv, SyncedWasPublished, RemoveInv,
      AbsentRow, Idle
<1>2. IInv /\ [Next]_vars => IInv'
  BY SyncedNext, RemoveNext DEF SyncedInv
<1>3. ASSUME IInv, [Next]_vars
      PROVE  [row.state # "absent" /\ row'.state = "absent"
                => \E s \in Server :
                     /\ published[s] # None
                     /\ published[s].chunks = row.synced_manifest]_vars
  <2> SUFFICES ASSUME row.state # "absent", row'.state = "absent"
               PROVE  \E s \in Server :
                        /\ published[s] # None
                        /\ published[s].chunks = row.synced_manifest
    OBVIOUS
  <2>1. ForgetStep
    BY <1>3, ForgetSteps DEF SyncedInv
  <2>2. row.state = "synced"
    BY <1>3, <2>1 DEF ForgetStep, RemoveInv
  <2> QED
    BY <1>3, <2>2 DEF SyncedInv, SyncedWasPublished
<1> QED
  BY <1>1, <1>2, <1>3, PTL DEF Spec, ForgottenWasPublished

-----------------------------------------------------------------------------
(* Torn manifests: when no two writes carry the same mtime.                *)

TornInv == TypeInv /\ ResumeInv /\ StampInv /\ PastInv /\ NoTornPublication

LEMMA StampMonotone ==
  ASSUME NEW t \in Nat
  PROVE  Stamp(t) <= Stamp(t + 1)
<1> DEFINE a == t \div Tick
           b == (t + 1) \div Tick
<1>1. a \in Nat /\ b \in Nat /\ Tick \in Nat /\ Tick > 0
  BY TickAssumption
<1>2. a * Tick <= t /\ t + 1 < b * Tick + Tick
  BY StampBounds DEF Stamp
<1> HIDE DEF a, b
<1>3. a * Tick < (b + 1) * Tick
  BY <1>1, <1>2
<1>4. a <= b
  BY <1>1, <1>3, SMTT(30)
<1>5. a * Tick <= b * Tick
  BY <1>1, <1>4, SMTT(30)
<1> QED
  BY <1>5 DEF Stamp, a, b

\* A write shows in the mtime, even if the file was unlinked in between.
LEMMA WriteShows ==
  ASSUME FineStamps = TRUE, TypeInv, mtime <= Stamp(now),
         NEW c \in Contents, Written(c)
  PROVE  mtime' = Stamp(now) /\ mtime < mtime' /\ mtime' \in Nat
BY StampBounds DEF Written, TypeInv, TypeOK

LEMMA StampNext ==
  ASSUME FineStamps = TRUE, TypeInv, StampInv, [Next]_vars
  PROVE  StampInv'
<1> USE DEF StampInv
<1>1. ASSUME UNCHANGED <<disk, mtime, now>>,
             job'.pc \notin {"open", "chunk", "stat2"}
      PROVE  StampInv'
  BY <1>1
<1>2. ASSUME UNCHANGED <<disk, mtime, now, job>> PROVE StampInv'
  BY <1>2 DEF Stat, ReadSoFar
<1>3. ASSUME Return, UNCHANGED <<disk, mtime, now>> PROVE StampInv'
  BY <1>1, <1>3 DEF Return, Idle
<1>4. CASE MarkDirtyAndReturn
  BY <1>3, <1>4 DEF MarkDirtyAndReturn, fileVars
<1>5. CASE Writer
  <2>1. /\ UNCHANGED now /\ job'.pc = job.pc /\ job'.st = job.st
        /\ job'.manifest = job.manifest
    BY <1>5
    DEF Writer, WriteInPlace, AtomicSave, Unlink, Written, Orphan, TypeInv,
        TypeOK, Job
  <2>2. CASE Unlink
    <3>1. disk' = None /\ UNCHANGED mtime
      BY <2>2 DEF Unlink
    <3> QED
      BY <2>1, <3>1
  <2>3. ASSUME NEW c \in Contents, Written(c) PROVE StampInv'
    <3>1. /\ mtime' = Stamp(now) /\ mtime < mtime'
          /\ mtime' \in Nat /\ mtime \in Nat
      BY <2>3, WriteShows DEF TypeInv, TypeOK
    <3>2. mtime' <= Stamp(now)'
      BY <2>1, <3>1 DEF Stamp
    <3>3. job.st.mtime \in Nat
      BY DEF TypeInv, TypeOK, Job, StatResult
    <3>4. job.pc \in {"open", "chunk", "stat2"} =>
            job.st.mtime <= mtime' /\ job.st.mtime # mtime'
      BY <3>1, <3>3
    <3>5. job.pc \in {"chunk", "stat2"} => Stat' # job.st
      BY <3>4 DEF Stat
    <3> QED
      BY <2>1, <3>2, <3>4, <3>5
  <2> QED
    BY <1>5, <2>2, <2>3 DEF Writer, WriteInPlace, AtomicSave
<1>6. CASE Advance
  <2>1. now' = now + 1 /\ UNCHANGED <<disk, mtime, job>> /\ now \in Nat
    BY <1>6 DEF Advance, fileVars, TypeInv, TypeOK
  <2>2. /\ Stamp(now) \in Nat /\ Stamp(now + 1) \in Nat /\ mtime \in Nat
        /\ Stamp(now) <= Stamp(now + 1)
    BY <2>1, StampBounds, StampMonotone DEF TypeInv, TypeOK
  <2>3. mtime' <= Stamp(now')
    BY <2>1, <2>2
  <2> QED
    BY <2>1, <2>3 DEF Stat, ReadSoFar
<1>7. CASE Begin
  <2>1. ASSUME NEW s \in Server, SyncResume(s) PROVE StampInv'
    <3>1. job'.pc = "ask"
      BY <2>1, IdleType DEF SyncResume, Send, Call, Job
    <3> QED
      BY <1>1, <2>1, <3>1 DEF SyncResume, fileVars
  <2>2. ASSUME NEW s \in Server, SyncAfresh(s) PROVE StampInv'
    <3>1. job'.pc = "open" /\ job'.st = Stat /\ job'.manifest = <<>>
      BY <2>2 DEF SyncAfresh, Call, Idle
    <3>2. UNCHANGED <<disk, mtime, now>> /\ mtime \in Nat
      BY <2>2 DEF SyncAfresh, fileVars, TypeInv, TypeOK
    <3> QED
      BY <3>1, <3>2 DEF Stat
  <2> QED
    BY <1>2, <1>4, <1>7, <2>1, <2>2
    DEF Begin, SyncVanished, SyncUnchanged, SyncResumeRaises, vars
<1>8. CASE Chunking
  <2>1. CASE OpenToChunk \/ ReadChunk
    <3>1. /\ UNCHANGED <<disk, mtime, now>> /\ job'.pc = "chunk"
          /\ job'.st = job.st /\ job.pc \in {"open", "chunk"}
      BY <2>1 DEF OpenToChunk, ReadChunk, fileVars, TypeInv, TypeOK, Job
    <3>2. ASSUME disk # None, Stat = job.st PROVE ReadSoFar'
      BY <2>1, <3>2, OpenRead, ReadOn DEF OpenToChunk, ReadChunk
    <3> QED
      BY <3>1, <3>2 DEF Stat
  <2>2. CASE AnchorRead
    <3>1. /\ UNCHANGED <<disk, mtime, now>> /\ job'.pc = "stat2"
          /\ job'.st = job.st /\ job'.manifest = job.manifest
          /\ job.pc = "chunk"
      BY <2>2 DEF AnchorRead, fileVars, TypeInv, TypeOK, Job
    <3>2. ASSUME disk # None, Stat = job.st PROVE job.manifest = disk
      BY <2>2, <3>1, <3>2, ReadAll
    <3> QED
      BY <3>1, <3>2 DEF Stat
  <2>3. CASE PersistManifest
    <3>1. job'.pc = "ask"
      BY <2>3 DEF PersistManifest, Send, TypeInv, TypeOK, Job
    <3> QED
      BY <1>1, <2>3, <3>1 DEF PersistManifest, fileVars
  <2> QED
    BY <1>3, <1>4, <1>8, <2>1, <2>2, <2>3
    DEF Chunking, OpenVanished, MapFault, TornRead, fileVars
<1>9. CASE Sending
  <2>1. CASE ~ UploadRejected
    <3>1. UNCHANGED <<disk, mtime, now>>
      BY <1>9, <2>1
      DEF Sending, AskMissing, OpenToUpload, PutChunk, UploadDone, UploadLost,
          CommitOk, CommitMissing, CommitExhausted, fileVars
    <3>2. Return \/ job'.pc \notin {"open", "chunk", "stat2"}
      BY <1>9, <2>1
      DEF Sending, AskMissing, OpenToUpload, PutChunk, UploadDone, UploadLost,
          CommitOk, CommitMissing, CommitExhausted, TypeInv, TypeOK, Job
    <3> QED
      BY <1>1, <1>3, <3>1, <3>2
  <2> QED
    BY <1>4, <2>1 DEF UploadRejected
<1>10. CASE Finishing
  <2>1. CASE MarkSyncedStep \/ ForgetStep
    <3>1. Return \/ job'.pc = "remove"
      BY <2>1 DEF MarkSyncedStep, ForgetStep, TypeInv, TypeOK, Job
    <3> QED
      BY <1>1, <1>3, <2>1, <3>1 DEF MarkSyncedStep, ForgetStep, fileVars
  <2>2. CASE RemoveSource
    BY <2>2 DEF RemoveSource, TypeInv, TypeOK, Job
  <2> QED
    BY <1>4, <1>10, <2>1, <2>2 DEF Finishing, RemoveVanished
<1>11. CASE Faulty
  <2>1. UNCHANGED <<disk, mtime, now>>
    BY <1>11
    DEF Faulty, PutLost, Unanswered, UploadFailover, CommitAnswerLost,
        CommitDelayed, CommitArrives, Crash, RemoveDenied, fileVars
  <2>2. \/ Return \/ UNCHANGED job
        \/ job'.pc \notin {"open", "chunk", "stat2"}
    BY <1>11
    DEF Faulty, PutLost, Unanswered, UploadFailover, CommitAnswerLost,
        CommitDelayed, CommitArrives, Crash, RemoveDenied, NextEndpoint,
        TypeInv, TypeOK, Job
  <2> QED
    BY <1>1, <1>2, <1>3, <2>1, <2>2
<1> QED
  BY <1>2, <1>5, <1>6, <1>7, <1>8, <1>9, <1>10, <1>11 DEF Next, Client, vars

\* The manifest a call sends is a content the file had.
LEMMA SentIsPast ==
  ASSUME ResumeInv, PastInv, job.pc = "commit"
  PROVE  job.manifest \in past
BY DEF ResumeInv, PastInv

LEMMA LateSteps ==
  ASSUME [Next]_vars
  PROVE  late' \subseteq late \/ CommitDelayed
<1>1. Writer \/ Advance \/ Begin \/ Chunking \/ Sending \/ Finishing
        => UNCHANGED late
  BY DEF Writer, WriteInPlace, AtomicSave, Unlink, Written, Advance, Begin,
     SyncVanished, SyncUnchanged, SyncResumeRaises, SyncResume, SyncAfresh,
     Chunking, OpenToChunk, OpenVanished, ReadChunk, MapFault, AnchorRead,
     TornRead, PersistManifest, Sending, AskMissing, OpenToUpload, PutChunk,
     UploadDone, UploadRejected, UploadLost, CommitOk, CommitMissing,
     CommitExhausted, Finishing, MarkSyncedStep, RemoveSource, RemoveVanished,
     ForgetStep, MarkDirtyAndReturn, serverVars, vars
<1>2. Faulty => late' \subseteq late \/ CommitDelayed
  BY DEF Faulty, PutLost, Unanswered, UploadFailover, CommitAnswerLost,
     CommitArrives, Crash, RemoveDenied, serverVars
<1> QED
  BY <1>1, <1>2 DEF Next, Client, vars

LEMMA PastGrows ==
  ASSUME [Next]_vars
  PROVE  past \subseteq past'
BY FileSteps
DEF fileVars, WriteInPlace, AtomicSave, Written, Unlink, RemoveSource

\* A commit that a server accepts, from whichever call, gives it a content the
\* file had.
LEMMA PublishedIsPast ==
  ASSUME TypeInv, PastInv, NoTornPublication, NEW s \in Server,
         NEW manifest \in past, Published(s, manifest), past \subseteq past'
  PROVE  NoTornPublication'
BY DEF NoTornPublication, Published, TypeInv, TypeOK

LEMMA TornNext ==
  ASSUME FineStamps = TRUE, TornInv, [Next]_vars
  PROVE  TornInv'
<1>1. TypeInv' /\ ResumeInv' /\ StampInv'
  BY TypeNext, ResumeNext, StampNext DEF TornInv
<1>2. past \subseteq past'
  BY PastGrows
<1>3. disk' # None => disk' \in past'
  BY <1>2, FileSteps
  DEF fileVars, WriteInPlace, AtomicSave, Written, Unlink, RemoveSource,
      TornInv, PastInv
<1>4. row'.state = "chunked" => row'.manifest \in past
  <2>1. CASE PersistManifest
    <3>1. row'.manifest = job.manifest
      BY <2>1
      DEF PersistManifest, SaveChunked, TornInv, TypeInv, TypeOK, FileRec
    <3>2. job.manifest = disk /\ disk \in past
      BY <2>1 DEF PersistManifest, TornInv, StampInv, PastInv
    <3> QED
      BY <3>1, <3>2
  <2>2. CASE MarkDirtyAndReturn
    BY <2>2, DirtyKeeps DEF TornInv
  <2>3. CASE MarkSyncedStep
    BY <2>3, RowAfter DEF MarkSyncedStep, TornInv
  <2>4. CASE ForgetStep
    BY <2>4 DEF ForgetStep, Forget, AbsentRow
  <2>5. CASE UNCHANGED row
    BY <2>5 DEF TornInv, PastInv
  <2> QED
    BY <2>1, <2>2, <2>3, <2>4, <2>5, RowSteps
<1>5. \A m \in late' : m.chunks \in past
  <2>1. CASE CommitDelayed
    <3>1. job.manifest \in past
      BY <2>1, SentIsPast DEF CommitDelayed, TornInv
    <3> QED
      BY <2>1, <3>1 DEF CommitDelayed, TornInv, PastInv
  <2>2. CASE late' \subseteq late
    BY <2>2 DEF TornInv, PastInv
  <2> QED
    BY <2>1, <2>2, LateSteps
<1>6. NoTornPublication'
  <2>1. CASE CommitOk \/ CommitAnswerLost
    <3>1. job.server \in Server /\ job.manifest \in past
      BY <2>1, SentIsPast
      DEF CommitOk, CommitAnswerLost, TornInv, TypeInv, TypeOK, Job
    <3> QED
      BY <1>2, <2>1, <3>1, PublishedIsPast
      DEF CommitOk, CommitAnswerLost, TornInv
  <2>2. CASE UNCHANGED published
    BY <1>2, <2>2 DEF TornInv, NoTornPublication
  <2>3. ASSUME NEW m \in late, CommitArrives(m) PROVE NoTornPublication'
    <3>1. m.server \in Server /\ m.chunks \in past
      BY DEF TornInv, TypeInv, TypeOK, PastInv
    <3> QED
      BY <1>2, <2>2, <2>3, <3>1, PublishedIsPast DEF CommitArrives, TornInv
  <2> QED
    BY <2>1, <2>2, <2>3, PublishingSteps DEF TornInv
<1>7. PastInv'
  BY <1>2, <1>3, <1>4, <1>5 DEF PastInv
<1> QED
  BY <1>1, <1>6, <1>7 DEF TornInv

LEMMA TornInit == Init => TornInv
<1> SUFFICES ASSUME Init PROVE TornInv
  OBVIOUS
<1>1. Stamp(now) \in Nat /\ mtime <= Stamp(now)
  BY StampBounds DEF Init
<1> QED
  BY <1>1, TypeInit
  DEF Init, TornInv, ResumeInv, StampInv, PastInv, NoTornPublication, AbsentRow,
      Idle

\* No published manifest mixes two generations of the file, provided no two
\* writes carry the same mtime: the two stats around a chunking find every write
\* made during it, and what is resumed, sent again or applied late was read
\* between two such stats.
THEOREM NeverTorn ==
  ASSUME FineStamps = TRUE
  PROVE  Spec => []NoTornPublication
<1>1. Init => TornInv
  BY TornInit
<1>2. TornInv /\ [Next]_vars => TornInv'
  BY TornNext
<1>3. TornInv => NoTornPublication
  BY DEF TornInv
<1> QED
  BY <1>1, <1>2, <1>3, PTL DEF Spec

-----------------------------------------------------------------------------
(* The row's stat, again when no two writes carry the same mtime: the      *)
(* quick check and the removal, without any assumption on the guard.       *)

LEMMA KeyNext ==
  ASSUME FineStamps = TRUE, TypeInv, ResumeInv, StampInv, KeyInv, [Next]_vars
  PROVE  KeyInv'
<1>1. CASE UNCHANGED <<disk, mtime, row>>
  BY <1>1 DEF KeyInv, Stat
<1>2. ASSUME NEW c \in Contents, Written(c) PROVE KeyInv'
  <2>1. UNCHANGED row /\ mtime < mtime' /\ mtime \in Nat /\ mtime' \in Nat
    BY <1>2, WriteShows DEF Written, StampInv, TypeInv, TypeOK
  <2>2. row.key.mtime \in Nat
    BY DEF TypeInv, TypeOK, FileRec, StatResult
  <2>3. row.state \in {"chunked", "synced"} =>
          row.key.mtime <= mtime' /\ row.key # Stat'
    BY <2>1, <2>2 DEF KeyInv, Stat
  <2> QED
    BY <2>1, <2>3 DEF KeyInv
<1>3. CASE Unlink \/ RemoveSource
  BY <1>3 DEF Unlink, RemoveSource, KeyInv
<1>4. CASE MarkDirtyAndReturn
  BY <1>4, DirtyKeeps DEF KeyInv
<1>5. CASE PersistManifest
  <2>1. /\ row'.key = Stat /\ row'.state = "chunked"
        /\ row'.manifest = job.manifest
    BY <1>5 DEF PersistManifest, SaveChunked, TypeInv, TypeOK, FileRec
  <2>2. job.manifest = disk
    BY <1>5 DEF PersistManifest, StampInv
  <2>3. UNCHANGED <<disk, mtime>> /\ mtime \in Nat
    BY <1>5 DEF PersistManifest, fileVars, TypeInv, TypeOK
  <2> QED
    BY <2>1, <2>2, <2>3 DEF KeyInv, Stat
<1>6. CASE MarkSyncedStep
  <2>1. /\ row.state = "chunked" /\ row'.key = row.key
        /\ row'.state \in {"absent", "synced"}
        /\ row'.synced_manifest = row.manifest
    BY <1>6, RowAfter DEF MarkSyncedStep, ResumeInv
  <2>2. UNCHANGED <<disk, mtime>>
    BY <1>6 DEF MarkSyncedStep, fileVars
  <2> QED
    BY <2>1, <2>2 DEF KeyInv, Stat
<1>7. CASE ForgetStep
  BY <1>7 DEF ForgetStep, Forget, AbsentRow, KeyInv
<1>8. CASE UNCHANGED fileVars
  BY <1>1, <1>4, <1>5, <1>6, <1>7, <1>8, RowSteps DEF fileVars
<1> QED
  BY <1>2, <1>3, <1>8, FileSteps DEF WriteInPlace, AtomicSave

LEMMA KeyInit == Init => KeyInv
BY DEF Init, KeyInv, AbsentRow

\* Where the file system stamps every write apart, the quick check has no false
\* negative at all: the guard is there for coarse stamps only, and a chunking
\* may take any time.
THEOREM DistinctStampsSuffice ==
  ASSUME FineStamps = TRUE
  PROVE  Spec => []NoFalseNegative
<1> DEFINE IInv == TornInv /\ KeyInv
<1>1. Init => IInv
  BY TornInit, KeyInit
<1>2. IInv /\ [Next]_vars => IInv'
  BY TornNext, KeyNext DEF TornInv
<1>3. IInv => NoFalseNegative
  <2> SUFFICES ASSUME IInv, disk # None, Classify(row, Stat) = "UNCHANGED"
               PROVE  row.synced_manifest = disk
    BY DEF NoFalseNegative
  <2>1. row.state = "synced" /\ Stat = row.key
    BY DEF Classify, TornInv, TypeInv, TypeOK, FileRec
  <2> QED
    BY <2>1 DEF KeyInv
<1> QED
  BY <1>1, <1>2, <1>3, PTL DEF Spec

\* End to end under the same assumption: what the kernel calls unchanged is on a
\* server, byte for byte, if no commit is applied late.
THEOREM DistinctStampsMirrored ==
  ASSUME FineStamps = TRUE, LateCommits = FALSE
  PROVE  Spec => []UnchangedIsMirrored
BY UnchangedAndSynced, TypeCorrect, DistinctStampsSuffice,
   SyncedAlwaysPublished, PTL

\* What SYNC_DELETE_AFTER may lose is exactly what was written after the last
\* stat: a source that still has the stat of its row, when the call comes to
\* remove it, is on a server.
THEOREM RemovableAlwaysMirrored ==
  ASSUME FineStamps = TRUE, LateCommits = FALSE
  PROVE  Spec => []RemovableIsMirrored
<1> DEFINE IInv == TornInv /\ KeyInv /\ SyncedInv /\ RemoveInv
<1>1. Init => IInv
  BY TornInit, KeyInit
  DEF Init, TornInv, SyncedInv, CommitInv, SyncedWasPublished, RemoveInv,
      AbsentRow, Idle
<1>2. IInv /\ [Next]_vars => IInv'
  BY TornNext, KeyNext, SyncedNext, RemoveNext DEF TornInv
<1>3. IInv => RemovableIsMirrored
  <2> SUFFICES ASSUME IInv, job.pc = "remove", disk # None, Stat = row.key
               PROVE  Mirrored
    BY DEF RemovableIsMirrored
  <2>1. row.state = "synced" /\ row.synced_manifest = disk
    BY DEF RemoveInv, KeyInv
  <2> QED
    BY <2>1 DEF SyncedInv, SyncedWasPublished, Mirrored
<1> QED
  BY <1>1, <1>2, <1>3, PTL DEF Spec
=============================================================================
