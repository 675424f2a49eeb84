---------------------- MODULE SingleFileTransferProofs ----------------------
(***************************************************************************)
(* Theorems about SingleFileTransfer, for every set of chunks, contents    *)
(* and servers and every value of the times and bounds.                    *)
(***************************************************************************)
EXTENDS SingleFileTransfer, TLAPS

-----------------------------------------------------------------------------
(* Lemmas about the operators.                                             *)

LEMMA HomeIsServer == Home \in Server
BY ServerAssumption DEF Home

LEMMA IdleType == \A s \in Server : Idle(s) \in Job
BY BoundAssumption
DEF Idle, Job, AbsentRow, StatResult, Manifest

LEMMA StampBounds ==
  ASSUME NEW t \in Nat
  PROVE  Stamp(t) \in Nat /\ Stamp(t) <= t /\ t < Stamp(t) + Tick
BY TickAssumption, SMTT(30) DEF Stamp

LEMMA RowOperations ==
  ASSUME NEW rec \in FileRec
  PROVE  /\ MarkSynced(rec) \in FileRec
         /\ MarkDirty(rec) \in FileRec
         /\ Forget(rec) \in FileRec
BY DEF FileRec, MarkSynced, MarkDirty, Forget, AbsentRow, StatResult

LEMMA SaveChunkedType ==
  ASSUME NEW rec \in FileRec, NEW key \in StatResult,
         NEW manifest \in Manifest, NEW at \in Nat
  PROVE  SaveChunked(rec, key, manifest, at) \in FileRec
BY DEF FileRec, SaveChunked

LEMMA HashesType == \A manifest \in Manifest : Hashes(manifest) \subseteq Chunk
BY DEF Hashes, Manifest

LEMMA SendType ==
  ASSUME NEW j \in Job, NEW manifest \in Manifest
  PROVE  Send(j, manifest) \in Job /\ Send(j, manifest).fd = j.fd
<1>1. Hashes(manifest) \ PrevHashes(row) \in SUBSET Chunk
  BY HashesType
<1>2. 1 \in 0..MaxRounds
  BY BoundAssumption
<1> QED
  BY <1>1, <1>2 DEF Send, Job

-----------------------------------------------------------------------------
(* Type correctness, together with the discipline of the descriptor: a     *)
(* read through a descriptor is a read of a file.                          *)

TypeInv == TypeOK /\ DescriptorInv

LEMMA TypeInit == Init => TypeInv
BY HomeIsServer, IdleType, RowOperations
DEF Init, TypeInv, TypeOK, DescriptorInv, Idle, AbsentRow, FileRec, StatResult

LEMMA EmptySequence == <<>> \in Seq(Chunk)
OBVIOUS

LEMMA ReturnType == TypeInv /\ Return => job' \in Job /\ job'.fd = "closed"
BY HomeIsServer, IdleType DEF Return, Idle

LEMMA DirtyType == TypeInv /\ MarkDirtyAndReturn => TypeInv'
BY ReturnType, RowOperations
DEF MarkDirtyAndReturn, TypeInv, TypeOK, DescriptorInv, serverVars, fileVars

LEMMA TypeWriter == TypeInv /\ Writer => TypeInv'
<1> SUFFICES ASSUME TypeInv, Writer PROVE TypeInv'
  OBVIOUS
<1> USE DEF TypeInv, TypeOK, DescriptorInv, serverVars
<1>1. Stamp(now) \in Nat
  BY StampBounds
<1>2. ASSUME NEW c \in Contents, WriteInPlace(c) PROVE TypeInv'
  BY <1>1, <1>2, NoneAssumption, ContentsAssumption DEF WriteInPlace, Written
<1>3. disk # None /\ Orphan => job' \in Job /\ job'.fd # "linked"
                               /\ job'.pc = job.pc
                               /\ (job'.fd # "closed" => job.fd # "closed")
  BY ContentsAssumption DEF Orphan, Job
<1>4. ASSUME NEW c \in Contents, AtomicSave(c) PROVE TypeInv'
  BY <1>1, <1>3, <1>4, NoneAssumption, ContentsAssumption DEF AtomicSave, Written
<1>5. ASSUME Unlink PROVE TypeInv'
  BY <1>3, <1>5 DEF Unlink
<1> QED
  BY <1>2, <1>4, <1>5 DEF Writer

LEMMA TypeBegin == TypeInv /\ Begin => TypeInv'
<1> SUFFICES ASSUME TypeInv, Begin PROVE TypeInv'
  OBVIOUS
<1> USE DEF TypeInv, TypeOK, DescriptorInv, serverVars, fileVars
<1>1. CASE SyncVanished
  BY <1>1, DirtyType DEF SyncVanished
<1>2. CASE SyncUnchanged \/ SyncResumeRaises
  BY <1>2 DEF SyncUnchanged, SyncResumeRaises, vars
<1>3. ASSUME NEW s \in Server, NEW pc \in {"ask", "open"}, disk # None
      PROVE  /\ Call(pc, s) \in Job /\ Call(pc, s).fd = "closed"
             /\ Call(pc, s).manifest = <<>>
  <2>1. Stat \in StatResult
    BY <1>3, ContentsAssumption DEF Stat, StatResult
  <2>2. Idle(s) \in Job /\ Idle(s).fd = "closed" /\ Idle(s).manifest = <<>>
    BY IdleType DEF Idle
  <2> HIDE DEF Stat, Idle
  <2> QED
    BY <2>1, <2>2 DEF Call, Job
<1>4. ASSUME NEW s \in Server, SyncAfresh(s) PROVE TypeInv'
  BY <1>3, <1>4 DEF SyncAfresh
<1>5. ASSUME NEW s \in Server, SyncResume(s) PROVE TypeInv'
  BY <1>3, <1>5, SendType DEF SyncResume, ResumeManifest, FileRec
<1> QED
  BY <1>1, <1>2, <1>4, <1>5 DEF Begin

LEMMA TypeChunking == TypeInv /\ Chunking => TypeInv'
<1> SUFFICES ASSUME TypeInv, Chunking PROVE TypeInv'
  OBVIOUS
<1> USE DEF TypeInv, TypeOK, DescriptorInv, serverVars, fileVars
<1>1. CASE OpenToChunk
  <2>1. Len(disk) \in Nat
    BY <1>1, ContentsAssumption DEF OpenToChunk
  <2> QED
    BY <1>1, <2>1 DEF OpenToChunk, Job
<1>2. CASE OpenVanished \/ TornRead
  BY <1>2, DirtyType DEF OpenVanished, TornRead
<1>3. CASE ReadChunk
  <2>1. Data \in Seq(Chunk)
    BY ContentsAssumption DEF Data, Job
  <2>2. Len(job.manifest) + 1 \in 1..Len(Data) /\ job.manifest \in Seq(Chunk)
    BY <1>3, <2>1 DEF ReadChunk, Job, Manifest
  <2>3. Append(job.manifest, Data[Len(job.manifest) + 1]) \in Manifest
    BY <2>1, <2>2 DEF Manifest
  <2> HIDE DEF Data
  <2> QED
    BY <1>3, <2>3 DEF ReadChunk, Job
<1>4. CASE MapFault
  BY <1>4, ReturnType DEF MapFault
<1>5. CASE AnchorRead
  BY <1>5, EmptySequence DEF AnchorRead, Job
<1>6. CASE PersistManifest
  <2>1. /\ job.st \in StatResult
        /\ job.manifest \in Manifest
        /\ job.verified_at \in Nat
        /\ job.fd = "closed"
    BY <1>6 DEF PersistManifest, Job
  <2> QED
    BY <1>6, <2>1, SendType, SaveChunkedType DEF PersistManifest
<1> QED
  BY <1>1, <1>2, <1>3, <1>4, <1>5, <1>6 DEF Chunking

LEMMA PutType ==
  ASSUME TypeInv, NEW i \in DOMAIN job.puts, job.pc = "upload"
  PROVE  /\ \A p \in PutState :
              LET j == [job EXCEPT !.puts[i] = p] IN
              j \in Job /\ j.fd = job.fd /\ j.pc = job.pc
         /\ Matches(i) => job.manifest[i] \in Chunk
         /\ Matches(i) /\ Stored(i) => store' \in [Server -> SUBSET Chunk]
<1>1. job.puts \in Seq(PutState)
  BY DEF TypeInv, TypeOK, Job
<1>2. ASSUME NEW p \in PutState
      PROVE  LET j == [job EXCEPT !.puts[i] = p] IN
             j \in Job /\ j.fd = job.fd /\ j.pc = job.pc
  <2>1. [job.puts EXCEPT ![i] = p] \in Seq(PutState)
    BY <1>1
  <2> QED
    BY <2>1 DEF TypeInv, TypeOK, Job
<1>3. Data \in Seq(Chunk)
  BY ContentsAssumption DEF Data, Job, TypeInv, TypeOK, DescriptorInv
<1>4. Matches(i) => job.manifest[i] \in Chunk
  BY <1>1, <1>3 DEF Matches
<1>5. Matches(i) /\ Stored(i) => store' \in [Server -> SUBSET Chunk]
  BY <1>4 DEF Stored, Job, TypeInv, TypeOK
<1> QED
  BY <1>2, <1>4, <1>5

LEMMA TypeSending == TypeInv /\ Sending => TypeInv'
<1> SUFFICES ASSUME TypeInv, Sending PROVE TypeInv'
  OBVIOUS
<1> USE DEF TypeInv, TypeOK, DescriptorInv, serverVars, fileVars
<1>1. CASE AskMissing
  <2> DEFINE missing == job.ask \ store[job.server]
             puts == [i \in DOMAIN job.manifest |->
                        IF job.manifest[i] \in missing THEN "todo" ELSE "skip"]
  <2>1. puts \in Seq(PutState)
    <3>1. job.manifest \in Seq(Chunk)
      BY DEF Job, Manifest
    <3>2. DOMAIN job.manifest = 1..Len(job.manifest) /\ Len(job.manifest) \in Nat
      BY <3>1
    <3> QED
      BY <3>2 DEF PutState
  <2> HIDE DEF puts
  <2> QED
    BY <1>1, <2>1 DEF AskMissing, Job, puts
<1>2. CASE OpenToUpload
  BY <1>2 DEF OpenToUpload, Job
<1>3. ASSUME NEW i \in DOMAIN job.puts, PutChunk(i) PROVE TypeInv'
  <2>1. job' \in Job /\ job'.fd = job.fd /\ job'.pc = job.pc
    BY <1>3, PutType DEF PutChunk, PutState
  <2>2. store' \in [Server -> SUBSET Chunk]
    BY <1>3, PutType DEF PutChunk
  <2> QED
    BY <1>3, <2>1, <2>2 DEF PutChunk
<1>4. CASE UploadDone
  BY <1>4, EmptySequence DEF UploadDone, Job
<1>5. CASE UploadRejected
  BY <1>5, DirtyType DEF UploadRejected
<1>6. CASE UploadLost \/ CommitExhausted
  BY <1>6, ReturnType DEF UploadLost, CommitExhausted
<1>7. CASE CommitOk
  BY <1>7 DEF CommitOk, Published, Publication, Job
<1>8. CASE CommitMissing
  <2>1. Lacks(job.server, job.manifest) \in SUBSET Chunk
    BY HashesType DEF Lacks, Job
  <2>2. job.round + 1 \in 0..MaxRounds
    BY <1>8, BoundAssumption DEF CommitMissing, Job
  <2> QED
    BY <1>8, <2>1, <2>2 DEF CommitMissing, Job
<1> QED
  BY <1>1, <1>2, <1>3, <1>4, <1>5, <1>6, <1>7, <1>8 DEF Sending

LEMMA TypeFinishing == TypeInv /\ Finishing => TypeInv'
<1> SUFFICES ASSUME TypeInv, Finishing PROVE TypeInv'
  OBVIOUS
<1> USE DEF TypeInv, TypeOK, DescriptorInv, serverVars, fileVars
<1>1. CASE MarkSyncedStep
  BY <1>1, ReturnType, RowOperations DEF MarkSyncedStep, Job
<1>2. CASE RemoveSource
  BY <1>2 DEF RemoveSource, Job
<1>3. CASE RemoveVanished
  BY <1>3, DirtyType DEF RemoveVanished
<1>4. CASE ForgetStep
  BY <1>4, ReturnType, RowOperations DEF ForgetStep
<1> QED
  BY <1>1, <1>2, <1>3, <1>4 DEF Finishing

LEMMA GiveUpType ==
  TypeInv /\ (Return \/ NextEndpoint) =>
    /\ job' \in Job
    /\ job'.fd = "closed" \/ (job'.fd = job.fd /\ job'.pc = job.pc)
<1>1. TypeInv /\ NextEndpoint =>
        job' \in Job /\ job'.fd = job.fd /\ job'.pc = job.pc
  <2> SUFFICES ASSUME TypeInv, NEW s \in Server,
                      job' = [job EXCEPT !.server = s]
               PROVE  job' \in Job /\ job'.fd = job.fd /\ job'.pc = job.pc
    BY DEF NextEndpoint
  <2> QED
    BY DEF TypeInv, TypeOK, Job
<1> QED
  BY <1>1, ReturnType

LEMMA TypeFaulty == TypeInv /\ Faulty => TypeInv'
<1> SUFFICES ASSUME TypeInv, Faulty PROVE TypeInv'
  OBVIOUS
<1> USE DEF TypeInv, TypeOK, DescriptorInv, serverVars, fileVars, Fault
<1>1. Return \/ NextEndpoint =>
        /\ job' \in Job
        /\ job'.fd = "closed" \/ (job'.fd = job.fd /\ job'.pc = job.pc)
  BY GiveUpType
<1>2. ASSUME NEW i \in DOMAIN job.puts, PutLost(i) PROVE TypeInv'
  <2>1. /\ job' \in Job /\ job'.fd = job.fd /\ job'.pc = job.pc
    BY <1>2, PutType DEF PutLost, PutState
  <2>2. store' \in [Server -> SUBSET Chunk]
    BY <1>2, PutType DEF PutLost
  <2> QED
    BY <1>2, <2>1, <2>2, BoundAssumption DEF PutLost
<1>3. CASE Unanswered \/ UploadFailover
  BY <1>1, <1>3, BoundAssumption DEF Unanswered, UploadFailover
<1>4. CASE CommitAnswerLost
  BY <1>1, <1>4, BoundAssumption DEF CommitAnswerLost, Published, Publication, Job
<1>5. CASE CommitDelayed
  BY <1>1, <1>5, BoundAssumption DEF CommitDelayed, Job
<1>6. ASSUME NEW m \in late, CommitArrives(m) PROVE TypeInv'
  <2>1. m.server \in Server /\ m.chunks \in Manifest
    OBVIOUS
  <2>2. [chunks |-> m.chunks, deleted |-> FALSE] \in Publication
    BY <2>1 DEF Publication
  <2>3. published' \in [Server -> Publication \cup {None}]
    BY <1>6, <2>2 DEF CommitArrives, Published
  <2> QED
    BY <1>6, <2>3 DEF CommitArrives
<1>7. CASE Crash \/ RemoveDenied
  BY <1>7, ReturnType, BoundAssumption DEF Crash, RemoveDenied
<1> QED
  BY <1>2, <1>3, <1>4, <1>5, <1>6, <1>7 DEF Faulty

LEMMA TypeNext == TypeInv /\ [Next]_vars => TypeInv'
<1> SUFFICES ASSUME TypeInv, [Next]_vars PROVE TypeInv'
  OBVIOUS
<1>1. CASE Advance
  BY <1>1
  DEF Advance, TypeInv, TypeOK, DescriptorInv, serverVars, fileVars
<1>2. CASE UNCHANGED vars
  BY <1>2 DEF vars, TypeInv, TypeOK, DescriptorInv
<1> QED
  BY <1>1, <1>2, TypeWriter, TypeBegin, TypeChunking, TypeSending,
     TypeFinishing, TypeFaulty
  DEF Next, Client

\* The state of the transfer keeps its types: every row, local and server
\* record the steps of sync_file build is one the next step can use.
THEOREM TypeCorrect == Spec => []TypeOK
<1>1. Spec => []TypeInv
  BY TypeInit, TypeNext, PTL DEF Spec
<1>2. TypeInv => TypeOK
  BY DEF TypeInv
<1> QED
  BY <1>1, <1>2, PTL

-----------------------------------------------------------------------------
(* References: a store only grows, and a manifest is published only while  *)
(* the server holds every chunk of it, whichever request brings it.        *)

LEMMA ReferencesPublished ==
  ASSUME TypeInv, ReferencesHeld, NEW s \in Server, NEW manifest \in Manifest,
         Lacks(s, manifest) = {}, Published(s, manifest), UNCHANGED store
  PROVE  ReferencesHeld'
BY DEF TypeInv, TypeOK, ReferencesHeld, Lacks, Published

LEMMA ReferencesStored ==
  ASSUME TypeInv, ReferencesHeld, NEW i \in DOMAIN job.puts, Stored(i),
         UNCHANGED published
  PROVE  ReferencesHeld'
BY DEF TypeInv, TypeOK, ReferencesHeld, Stored

LEMMA ReferencesNext == TypeInv /\ ReferencesHeld /\ [Next]_vars => ReferencesHeld'
<1> SUFFICES ASSUME TypeInv, ReferencesHeld, [Next]_vars PROVE ReferencesHeld'
  OBVIOUS
<1>1. job.server \in Server /\ job.manifest \in Manifest
  BY DEF TypeInv, TypeOK, Job
<1>2. CASE UNCHANGED <<store, published>>
  BY <1>2 DEF ReferencesHeld, Hashes
<1>3. CASE CommitOk
  BY <1>1, <1>3, ReferencesPublished DEF CommitOk
<1>4. CASE CommitAnswerLost
  BY <1>1, <1>4, ReferencesPublished DEF CommitAnswerLost
<1>5. ASSUME NEW m \in late, CommitArrives(m) PROVE ReferencesHeld'
  <2>1. m.server \in Server /\ m.chunks \in Manifest
    BY DEF TypeInv, TypeOK
  <2> QED
    BY <1>2, <1>5, <2>1, ReferencesPublished DEF CommitArrives
<1>6. ASSUME NEW i \in DOMAIN job.puts, PutChunk(i) \/ PutLost(i)
      PROVE  ReferencesHeld'
  BY <1>2, <1>6, ReferencesStored DEF PutChunk, PutLost
<1>7. Writer \/ Advance \/ Begin \/ Chunking \/ Finishing
        => UNCHANGED <<store, published>>
  BY DEF Writer, WriteInPlace, AtomicSave, Unlink, Written, Advance, Begin,
     SyncVanished, SyncUnchanged, SyncResumeRaises, SyncResume, SyncAfresh,
     Chunking, OpenToChunk, OpenVanished, ReadChunk, MapFault, AnchorRead,
     TornRead, PersistManifest, Finishing, MarkSyncedStep, RemoveSource,
     RemoveVanished, ForgetStep, MarkDirtyAndReturn, serverVars, vars
<1>8. Sending => \/ UNCHANGED <<store, published>>
                 \/ CommitOk
                 \/ \E i \in DOMAIN job.puts : PutChunk(i)
  BY DEF Sending, AskMissing, OpenToUpload, UploadDone, UploadRejected,
     UploadLost, CommitMissing, CommitExhausted, MarkDirtyAndReturn, serverVars
<1>9. Faulty => \/ UNCHANGED <<store, published>>
                \/ CommitAnswerLost
                \/ \E m \in late : CommitArrives(m)
                \/ \E i \in DOMAIN job.puts : PutLost(i)
  BY DEF Faulty, Unanswered, UploadFailover, CommitDelayed, Crash,
     RemoveDenied, serverVars
<1> QED
  BY <1>2, <1>3, <1>4, <1>5, <1>6, <1>7, <1>8, <1>9 DEF Next, Client, vars

\* Whatever the servers a call falls on and the answers it misses, the
\* manifests a server publishes refer only to chunks it holds.
THEOREM ReferencesAlwaysHeld == Spec => []ReferencesHeld
<1>1. Spec => []TypeInv
  BY TypeInit, TypeNext, PTL DEF Spec
<1>2. Init => ReferencesHeld
  BY DEF Init, ReferencesHeld
<1> QED
  BY <1>1, <1>2, ReferencesNext, PTL DEF Spec

-----------------------------------------------------------------------------
(* The row and the call: a manifest is sent only while the row would       *)
(* resume with it.                                                         *)

LEMMA RowAfter ==
  ASSUME TypeInv
  PROVE  /\ MarkDirty(row).state \in {"absent", "dirty"}
         /\ MarkSynced(row).state \in {"absent", "synced"}
         /\ MarkDirty(row).verified_at = row.verified_at
         /\ MarkSynced(row).verified_at = row.verified_at
         /\ row.state = "chunked" =>
              /\ MarkSynced(row).synced_manifest = row.manifest
              /\ MarkSynced(row).key = row.key
BY DEF TypeInv, TypeOK, FileRec, MarkDirty, MarkSynced

LEMMA DirtyKeeps ==
  TypeInv /\ MarkDirtyAndReturn =>
    /\ row'.state \in {"absent", "dirty"}
    /\ row'.verified_at = row.verified_at
    /\ job' = Idle(Home)
    /\ UNCHANGED <<disk, mtime, now, store, published>>
BY RowAfter DEF MarkDirtyAndReturn, Return, fileVars, serverVars

LEMMA ResumeNext == TypeInv /\ ResumeInv /\ [Next]_vars => ResumeInv'
<1> SUFFICES ASSUME TypeInv, ResumeInv, [Next]_vars PROVE ResumeInv'
  OBVIOUS
<1>1. ASSUME UNCHANGED row,
             \/ job'.pc \notin {"ask", "reopen", "upload", "commit", "mark"}
             \/ /\ job.pc \in {"ask", "reopen", "upload", "commit", "mark"}
                /\ job'.manifest = job.manifest
      PROVE  ResumeInv'
  BY <1>1 DEF ResumeInv
<1>2. Return => job'.pc = "idle"
  BY DEF Return, Idle
<1>3. CASE MarkDirtyAndReturn
  BY <1>3, DirtyKeeps DEF ResumeInv, Idle
<1>4. CASE Writer \/ Advance \/ UNCHANGED vars
  <2>1. UNCHANGED row /\ job'.pc = job.pc /\ job'.manifest = job.manifest
    BY <1>4
    DEF Writer, WriteInPlace, AtomicSave, Unlink, Written, Orphan, Advance,
        vars, TypeInv, TypeOK, Job
  <2> QED
    BY <2>1 DEF ResumeInv
<1>5. CASE Begin
  <2>1. ASSUME NEW s \in Server, SyncResume(s) PROVE ResumeInv'
    <3>1. job'.manifest = row.manifest
      BY <2>1, IdleType DEF SyncResume, Send, Call, Job
    <3> QED
      BY <2>1, <3>1 DEF SyncResume, CanResume, ResumeInv
  <2>2. ASSUME NEW s \in Server, SyncAfresh(s) PROVE ResumeInv'
    <3>1. UNCHANGED row /\ job'.pc = "open"
      BY <2>2 DEF SyncAfresh, Call, Idle
    <3> QED
      BY <1>1, <3>1
  <2>3. CASE SyncUnchanged \/ SyncResumeRaises
    BY <1>4, <2>3 DEF SyncUnchanged, SyncResumeRaises
  <2> QED
    BY <1>3, <1>5, <2>1, <2>2, <2>3 DEF Begin, SyncVanished
<1>6. CASE Chunking
  <2>1. CASE OpenToChunk \/ ReadChunk \/ MapFault \/ AnchorRead
    <3>1. UNCHANGED row /\ job'.pc \in {"chunk", "stat2", "idle"}
      BY <1>2, <2>1
      DEF OpenToChunk, ReadChunk, MapFault, AnchorRead, TypeInv, TypeOK, Job
    <3> QED
      BY <1>1, <3>1
  <2>2. CASE PersistManifest
    <3>1. job' \in Job /\ job'.pc = "ask" /\ job'.manifest = job.manifest
      BY <2>2, SendType DEF PersistManifest, TypeInv, TypeOK, Job, Send
    <3>2. row'.state = "chunked" /\ row'.manifest = job.manifest
      BY <2>2 DEF PersistManifest, SaveChunked, TypeInv, TypeOK, FileRec
    <3>3. job.manifest # None
      BY NoneAssumption DEF TypeInv, TypeOK, Job, Manifest
    <3> QED
      BY <3>1, <3>2, <3>3 DEF ResumeInv
  <2> QED
    BY <1>3, <1>6, <2>1, <2>2 DEF Chunking, OpenVanished, TornRead
<1>7. CASE Sending
  <2>1. CASE \/ AskMissing \/ OpenToUpload \/ UploadDone \/ CommitOk
             \/ CommitMissing \/ \E i \in DOMAIN job.puts : PutChunk(i)
    <3>1. /\ UNCHANGED row
          /\ job.pc \in {"ask", "reopen", "upload", "commit"}
          /\ job'.manifest = job.manifest
      BY <2>1
      DEF AskMissing, OpenToUpload, UploadDone, CommitOk, CommitMissing,
          PutChunk, TypeInv, TypeOK, Job
    <3> QED
      BY <1>1, <3>1
  <2>2. CASE UploadLost \/ CommitExhausted
    BY <1>1, <1>2, <2>2 DEF UploadLost, CommitExhausted
  <2> QED
    BY <1>3, <1>7, <2>1, <2>2 DEF Sending, UploadRejected
<1>8. CASE Finishing
  <2>1. CASE MarkSyncedStep
    <3>1. job'.pc \in {"remove", "idle"}
      BY <1>2, <2>1 DEF MarkSyncedStep, TypeInv, TypeOK, Job
    <3>2. row' = MarkSynced(row) /\ row.state = "chunked"
      BY <2>1 DEF MarkSyncedStep, ResumeInv
    <3> QED
      BY <3>1, <3>2, RowAfter DEF ResumeInv
  <2>2. CASE RemoveSource
    <3>1. UNCHANGED row /\ job'.pc = "forget"
      BY <2>2 DEF RemoveSource, TypeInv, TypeOK, Job
    <3> QED
      BY <1>1, <3>1
  <2>3. CASE ForgetStep
    BY <1>2, <2>3 DEF ForgetStep, Forget, AbsentRow, ResumeInv
  <2> QED
    BY <1>3, <1>8, <2>1, <2>2, <2>3 DEF Finishing, RemoveVanished
<1>9. CASE Faulty
  <2>1. UNCHANGED row
    BY <1>9
    DEF Faulty, PutLost, Unanswered, UploadFailover, CommitAnswerLost,
        CommitDelayed, CommitArrives, Crash, RemoveDenied
  <2>2. \/ job'.pc = "idle"
        \/ job'.pc = job.pc /\ job'.manifest = job.manifest
    BY <1>2, <1>9
    DEF Faulty, PutLost, Unanswered, UploadFailover, CommitAnswerLost,
        CommitDelayed, CommitArrives, Crash, RemoveDenied, NextEndpoint,
        TypeInv, TypeOK, Job
  <2> QED
    BY <2>1, <2>2 DEF ResumeInv
<1> QED
  BY <1>4, <1>5, <1>6, <1>7, <1>8, <1>9 DEF Next, Client

-----------------------------------------------------------------------------
(* A row called synced: when no commit outlives the call that sent it.     *)

SyncedInv ==
  /\ TypeInv
  /\ ResumeInv
  /\ late = {}
  /\ CommitInv
  /\ SyncedWasPublished

LEMMA NoLateCommit ==
  ASSUME LateCommits = FALSE, TypeInv, late = {}, [Next]_vars
  PROVE  late' = {}
<1>1. ~ \E m \in late : CommitArrives(m)
  OBVIOUS
<1>2. ~ CommitDelayed
  BY DEF CommitDelayed
<1>3. Writer \/ Advance \/ Begin \/ Chunking \/ Sending \/ Finishing
        => UNCHANGED late
  BY DEF Writer, WriteInPlace, AtomicSave, Unlink, Written, Advance, Begin,
     SyncVanished, SyncUnchanged, SyncResumeRaises, SyncResume, SyncAfresh,
     Chunking, OpenToChunk, OpenVanished, ReadChunk, MapFault, AnchorRead,
     TornRead, PersistManifest, Sending, AskMissing, OpenToUpload, PutChunk,
     UploadDone, UploadRejected, UploadLost, CommitOk, CommitMissing,
     CommitExhausted, Finishing, MarkSyncedStep, RemoveSource, RemoveVanished,
     ForgetStep, MarkDirtyAndReturn, serverVars, vars
<1>4. Faulty => UNCHANGED late
  BY <1>1, <1>2
  DEF Faulty, PutLost, Unanswered, UploadFailover, CommitAnswerLost, Crash,
      RemoveDenied, serverVars
<1> QED
  BY <1>3, <1>4 DEF Next, Client, vars

LEMMA SyncedNext ==
  ASSUME LateCommits = FALSE, SyncedInv, [Next]_vars
  PROVE  SyncedInv'
<1>1. TypeInv' /\ ResumeInv' /\ late' = {}
  BY TypeNext, ResumeNext, NoLateCommit DEF SyncedInv
<1>2. ASSUME UNCHANGED <<row, published>>,
             job'.pc = "mark" => job.pc = "mark" /\ job'.manifest = job.manifest
      PROVE  SyncedInv'
  BY <1>1, <1>2 DEF SyncedInv, CommitInv, SyncedWasPublished
<1>3. CASE MarkDirtyAndReturn
  BY <1>1, <1>3, DirtyKeeps DEF SyncedInv, CommitInv, SyncedWasPublished, Idle
<1>4. Return => job'.pc = "idle"
  BY DEF Return, Idle
<1>5. CASE \/ Writer \/ Advance \/ UNCHANGED vars
           \/ SyncUnchanged \/ SyncResumeRaises
  <2>1. UNCHANGED <<row, published>> /\ job'.pc = job.pc
        /\ job'.manifest = job.manifest
    BY <1>5
    DEF Writer, WriteInPlace, AtomicSave, Unlink, Written, Orphan, Advance,
        SyncUnchanged, SyncResumeRaises, serverVars, vars, SyncedInv, TypeInv,
        TypeOK, Job
  <2> QED
    BY <1>2, <2>1
<1>6. ASSUME NEW s \in Server, SyncResume(s) \/ SyncAfresh(s) PROVE SyncedInv'
  <2>1. job'.pc \in {"ask", "open"}
    BY <1>6, IdleType DEF SyncResume, SyncAfresh, Send, Call, Job
  <2> QED
    BY <1>2, <1>6, <2>1 DEF SyncResume, SyncAfresh, serverVars
<1>7. CASE OpenToChunk \/ ReadChunk \/ MapFault \/ AnchorRead
  <2>1. job'.pc \in {"chunk", "stat2", "idle"}
    BY <1>4, <1>7
    DEF OpenToChunk, ReadChunk, MapFault, AnchorRead, SyncedInv, TypeInv,
        TypeOK, Job
  <2> QED
    BY <1>2, <1>7, <2>1
    DEF OpenToChunk, ReadChunk, MapFault, AnchorRead, serverVars
<1>8. CASE PersistManifest
  <2>1. job'.pc = "ask"
    BY <1>8 DEF PersistManifest, Send, SyncedInv, TypeInv, TypeOK, Job
  <2>2. row'.state = "chunked"
    BY <1>8 DEF PersistManifest, SaveChunked, SyncedInv, TypeInv, TypeOK, FileRec
  <2> QED
    BY <1>1, <2>1, <2>2 DEF SyncedInv, CommitInv, SyncedWasPublished
<1>9. CASE \/ AskMissing \/ OpenToUpload \/ UploadDone \/ UploadLost
           \/ CommitMissing \/ CommitExhausted
           \/ \E i \in DOMAIN job.puts : PutChunk(i) \/ PutLost(i)
  <2>1. job'.pc # "mark"
    BY <1>4, <1>9
    DEF AskMissing, OpenToUpload, UploadDone, UploadLost, CommitMissing,
        CommitExhausted, PutChunk, PutLost, SyncedInv, TypeInv, TypeOK, Job
  <2> QED
    BY <1>2, <1>9, <2>1
    DEF AskMissing, OpenToUpload, UploadDone, UploadLost, CommitMissing,
        CommitExhausted, PutChunk, PutLost, serverVars
<1>10. CASE CommitOk \/ CommitAnswerLost
  <2>1. row'.state = "chunked"
    BY <1>10 DEF CommitOk, CommitAnswerLost, SyncedInv, ResumeInv
  <2>2. CASE CommitOk
    <3>1. /\ job.server \in Server
          /\ published'[job.server] =
               [chunks |-> job.manifest, deleted |-> FALSE]
      BY <2>2 DEF CommitOk, Published, SyncedInv, TypeInv, TypeOK, Job
    <3>2. published'[job.server] # None
      <4>1. job.manifest \in Manifest
        BY DEF SyncedInv, TypeInv, TypeOK, Job
      <4>2. [chunks |-> job.manifest, deleted |-> FALSE] \in Publication
        BY <4>1 DEF Publication
      <4> QED
        BY <3>1, <4>2, PublicationAssumption
    <3>3. job'.manifest = job.manifest
      BY <2>2 DEF CommitOk, SyncedInv, TypeInv, TypeOK, Job
    <3> QED
      BY <1>1, <2>1, <3>1, <3>2, <3>3
      DEF SyncedInv, CommitInv, SyncedWasPublished
  <2>3. CASE CommitAnswerLost
    <3>1. job'.pc # "mark"
      BY <1>4, <2>3
      DEF CommitAnswerLost, NextEndpoint, SyncedInv, TypeInv, TypeOK, Job
    <3> QED
      BY <1>1, <2>1, <3>1 DEF SyncedInv, CommitInv, SyncedWasPublished
  <2> QED
    BY <1>10, <2>2, <2>3
<1>11. CASE MarkSyncedStep
  <2>1. job'.pc # "mark"
    BY <1>4, <1>11 DEF MarkSyncedStep, SyncedInv, TypeInv, TypeOK, Job
  <2>2. row'.synced_manifest = job.manifest
    BY <1>11, RowAfter DEF MarkSyncedStep, SyncedInv, ResumeInv
  <2>3. UNCHANGED published
    BY <1>11 DEF MarkSyncedStep, serverVars
  <2> QED
    BY <1>1, <1>11, <2>1, <2>2, <2>3
    DEF MarkSyncedStep, SyncedInv, CommitInv, SyncedWasPublished
<1>12. CASE RemoveSource
  BY <1>2, <1>12 DEF RemoveSource, serverVars, SyncedInv, TypeInv, TypeOK, Job
<1>13. CASE ForgetStep
  BY <1>1, <1>4, <1>13
  DEF ForgetStep, Forget, AbsentRow, SyncedInv, CommitInv, SyncedWasPublished
<1>14. CASE Unanswered \/ UploadFailover \/ Crash \/ RemoveDenied
  <2>1. job'.pc # "mark"
    BY <1>4, <1>14
    DEF Unanswered, UploadFailover, Crash, RemoveDenied, NextEndpoint,
        SyncedInv, TypeInv, TypeOK, Job
  <2> QED
    BY <1>2, <1>14, <2>1
    DEF Unanswered, UploadFailover, Crash, RemoveDenied, serverVars
<1>15. ~ CommitDelayed /\ ~ \E m \in late : CommitArrives(m)
  BY DEF CommitDelayed, SyncedInv
<1> QED
  BY <1>3, <1>5, <1>6, <1>7, <1>8, <1>9, <1>10, <1>11, <1>12, <1>13, <1>14,
     <1>15
  DEF Next, Client, Begin, SyncVanished, Chunking, OpenVanished, TornRead,
      Sending, UploadRejected, Finishing, RemoveVanished, Faulty

\* A row the client calls synced is backed by a server that publishes exactly
\* its manifest, through resumed calls, lost answers, failovers and crashes,
\* provided no commit is applied after its client gave it up.
THEOREM SyncedAlwaysPublished ==
  ASSUME LateCommits = FALSE
  PROVE  Spec => []SyncedWasPublished
<1>1. Init => SyncedInv
  BY TypeInit
  DEF Init, SyncedInv, ResumeInv, CommitInv, SyncedWasPublished, AbsentRow, Idle
<1>2. SyncedInv /\ [Next]_vars => SyncedInv'
  BY SyncedNext
<1>3. SyncedInv => SyncedWasPublished
  BY DEF SyncedInv
<1> QED
  BY <1>1, <1>2, <1>3, PTL DEF Spec

-----------------------------------------------------------------------------
(* The quick check: when the guard covers the tick of the file system and  *)
(* the time a chunking takes.                                              *)

DatedInv == ClockInv /\ ChunkInv /\ AnchorInv /\ GuardInv

LEMMA WriteIsRecent ==
  ASSUME TypeInv, NEW c \in Contents, Written(c)
  PROVE  mtime' \in Nat /\ now < mtime' + Tick
BY StampBounds DEF Written, TypeInv, TypeOK

\* A step that leaves the file and the row alone, outside the chunking.
LEMMA DatedFrame ==
  ASSUME DatedInv, UNCHANGED <<disk, mtime, row, now>>,
         job'.pc \notin {"open", "chunk", "stat2"},
         job'.verified_at <= now, job'.began <= now
  PROVE  DatedInv'
BY DEF DatedInv, ClockInv, ChunkInv, ReadSoFar, AnchorInv, GuardInv, Stat

LEMMA ReturnDates ==
  ASSUME TypeInv, Return
  PROVE  job'.pc = "idle" /\ job'.verified_at <= now /\ job'.began <= now
BY DEF Return, Idle, TypeInv, TypeOK

\* A row that resumes nothing and calls nothing synced satisfies GuardInv.
LEMMA DatedDirty ==
  ASSUME TypeInv, DatedInv, MarkDirtyAndReturn
  PROVE  DatedInv'
<1>1. /\ row'.state \notin {"chunked", "synced"}
      /\ row'.verified_at = row.verified_at
  BY DirtyKeeps DEF MarkDirtyAndReturn, TypeInv, TypeOK, MarkDirty, FileRec
<1>2. UNCHANGED <<disk, mtime, now>>
  BY DEF MarkDirtyAndReturn, fileVars
<1> QED
  BY <1>1, <1>2, ReturnDates
  DEF DatedInv, ClockInv, ChunkInv, ReadSoFar, AnchorInv, GuardInv,
      MarkDirtyAndReturn

LEMMA DatedWriter ==
  ASSUME Tick + ReadTime <= Guard, TypeInv, DatedInv, Writer
  PROVE  DatedInv'
<1>1. UNCHANGED <<now, row>> /\ (disk' = None \/ now < mtime' + Tick)
      /\ mtime' \in Nat
  <2>1. CASE Unlink
    BY <2>1 DEF Unlink, TypeInv, TypeOK
  <2>2. ASSUME NEW c \in Contents, Written(c)
        PROVE  UNCHANGED <<now, row>> /\ now < mtime' + Tick /\ mtime' \in Nat
    BY <2>2, WriteIsRecent DEF Written
  <2> QED
    BY <2>1, <2>2 DEF Writer, WriteInPlace, AtomicSave
<1>2. /\ job'.pc = job.pc /\ job'.verified_at = job.verified_at
      /\ job'.began = job.began /\ job'.manifest = job.manifest
  BY DEF Writer, WriteInPlace, AtomicSave, Unlink, Orphan, TypeInv, TypeOK, Job
<1>3. /\ now \in Nat /\ Tick \in Nat /\ Guard \in Nat /\ ReadTime \in Nat
      /\ job.verified_at \in Nat /\ job.began \in Nat /\ row.verified_at \in Nat
  BY TickAssumption, GuardAssumption, ReadTimeAssumption
  DEF TypeInv, TypeOK, Job, FileRec
<1>4. ClockInv'
  BY <1>1, <1>2 DEF DatedInv, ClockInv
<1>5. disk' # None => /\ ~ mtime' + Tick <= job'.began
                      /\ ~ mtime' < job'.verified_at - Guard
                      /\ ~ mtime' < row'.verified_at - Guard
  BY <1>1, <1>2, <1>3 DEF DatedInv, ClockInv
<1>6. ChunkInv'
  BY <1>2, <1>5 DEF DatedInv, ChunkInv, ReadSoFar
<1> QED
  BY <1>4, <1>5, <1>6 DEF DatedInv, AnchorInv, GuardInv

LEMMA DatedBegin ==
  ASSUME TypeInv, DatedInv, Begin
  PROVE  DatedInv'
<1>1. ASSUME NEW s \in Server, SyncResume(s) PROVE DatedInv'
  <2>1. job'.pc = "ask" /\ job'.verified_at = 0 /\ job'.began = now
    BY <1>1, IdleType DEF SyncResume, Send, Call, Job, Idle
  <2> QED
    BY <1>1, <2>1, DatedFrame DEF SyncResume, fileVars, TypeInv, TypeOK
<1>2. ASSUME NEW s \in Server, SyncAfresh(s) PROVE DatedInv'
  <2>1. /\ job'.pc = "open" /\ job'.verified_at = 0 /\ job'.began = now
        /\ job'.manifest = <<>>
    BY <1>2 DEF SyncAfresh, Call, Idle
  <2>2. UNCHANGED <<disk, mtime, now, row>>
    BY <1>2 DEF SyncAfresh, fileVars
  <2> QED
    BY <2>1, <2>2, ReadTimeAssumption
    DEF DatedInv, ClockInv, ChunkInv, ReadSoFar, AnchorInv, GuardInv, Stat,
        TypeInv, TypeOK
<1>3. CASE SyncUnchanged \/ SyncResumeRaises
  BY <1>3
  DEF SyncUnchanged, SyncResumeRaises, vars, DatedInv, ClockInv, ChunkInv,
      AnchorInv, GuardInv, Stat
<1> QED
  BY <1>1, <1>2, <1>3, DatedDirty DEF Begin, SyncVanished

\* A chunking whose file is not written reads that file from end to end.
LEMMA OpenRead ==
  ASSUME TypeInv, job.manifest = <<>>, OpenToChunk
  PROVE  ReadSoFar'
<1>1. /\ job'.manifest = <<>> /\ job'.length = Len(disk) /\ UNCHANGED disk
      /\ Len(disk) \in Nat
      /\ job'.fd = "linked" \/ job'.length = 0
  BY ContentsAssumption DEF OpenToChunk, fileVars, TypeInv, TypeOK, Job
<1> QED
  BY <1>1 DEF ReadSoFar

LEMMA ReadOn ==
  ASSUME TypeInv, disk # None, ReadSoFar, ReadChunk
  PROVE  ReadSoFar'
<1> DEFINE i == Len(job.manifest) + 1
<1>1. /\ job'.manifest = Append(job.manifest, Data[i])
      /\ job'.length = job.length /\ job'.fd = job.fd /\ UNCHANGED disk
      /\ i <= job.length /\ i <= Len(Data)
  BY DEF ReadChunk, fileVars, TypeInv, TypeOK, Job
<1>2. /\ job.manifest \in Seq(Chunk) /\ job.length \in Nat
      /\ disk \in Seq(Chunk)
  BY ContentsAssumption DEF TypeInv, TypeOK, Job, Manifest
<1>3. /\ job.length = Len(disk)
      /\ \A k \in 1..Len(job.manifest) : job.manifest[k] = disk[k]
      /\ job.fd = "linked" \/ job.length = 0
  BY DEF ReadSoFar
<1>4. Data = disk
  BY <1>1, <1>2, <1>3 DEF Data
<1>5. disk[i] \in Chunk
  BY <1>1, <1>2, <1>4
<1>6. /\ Len(job'.manifest) = i
      /\ \A k \in 1..i : job'.manifest[k] = disk[k]
  BY <1>1, <1>2, <1>3, <1>4, <1>5
<1> QED
  BY <1>1, <1>3, <1>6 DEF ReadSoFar

LEMMA ReadAll ==
  ASSUME TypeInv, disk # None, ReadSoFar, AnchorRead
  PROVE  job.manifest = disk
<1>1. job.manifest \in Seq(Chunk) /\ disk \in Seq(Chunk)
  BY ContentsAssumption DEF TypeInv, TypeOK, Job, Manifest
<1>2. /\ Len(job.manifest) = Len(disk)
      /\ \A i \in 1..Len(job.manifest) : job.manifest[i] = disk[i]
  BY DEF AnchorRead, ReadSoFar
<1> QED
  BY <1>1, <1>2

LEMMA DatedReading ==
  ASSUME TypeInv, DatedInv, OpenToChunk \/ ReadChunk
  PROVE  DatedInv'
<1>1. /\ UNCHANGED <<disk, mtime, now, row>> /\ job'.pc = "chunk"
      /\ job'.verified_at = job.verified_at /\ job'.began = job.began
      /\ job'.st = job.st /\ job.pc \in {"open", "chunk"}
  BY DEF OpenToChunk, ReadChunk, fileVars, TypeInv, TypeOK, Job
<1>2. ClockInv' /\ AnchorInv' /\ GuardInv'
  BY <1>1 DEF DatedInv, ClockInv, AnchorInv, GuardInv, Stat
<1>3. CASE OpenToChunk
  <2>1. ReadSoFar'
    BY <1>3, OpenRead DEF OpenToChunk, DatedInv, ChunkInv
  <2>2. ChunkInv'
    BY <1>1, <2>1 DEF ChunkInv
  <2> QED
    BY <1>2, <2>2 DEF DatedInv
<1>4. CASE ReadChunk
  <2>1. ASSUME disk # None, Stat = job.st, mtime + Tick <= job.began
        PROVE  ReadSoFar'
    BY <1>4, <2>1, ReadOn DEF ReadChunk, DatedInv, ChunkInv
  <2>2. ChunkInv'
    BY <1>1, <2>1 DEF ChunkInv, Stat
  <2> QED
    BY <1>2, <2>2 DEF DatedInv
<1> QED
  BY <1>3, <1>4

LEMMA DatedChunking ==
  ASSUME Tick + ReadTime <= Guard, TypeInv, DatedInv, Chunking
  PROVE  DatedInv'
<1>1. CASE MapFault
  BY <1>1, ReturnDates, DatedFrame DEF MapFault, fileVars
<1>2. CASE AnchorRead
  <2>1. /\ UNCHANGED <<disk, mtime, now, row>>
        /\ job.pc = "chunk" /\ job'.pc = "stat2"
        /\ job'.verified_at = now /\ job'.began = job.began
        /\ job'.st = job.st /\ job'.manifest = job.manifest
        /\ Len(job.manifest) = job.length
    BY <1>2 DEF AnchorRead, fileVars, TypeInv, TypeOK, Job
  <2>2. ASSUME disk # None, Stat = job.st, mtime < now - Guard
        PROVE  job.manifest = disk
    <3>1. mtime + Tick <= job.began
      <4>1. now <= job.began + ReadTime
        BY <2>1 DEF DatedInv, ClockInv
      <4>2. /\ mtime \in Nat /\ now \in Nat /\ job.began \in Nat
            /\ Tick \in Nat /\ ReadTime \in Nat /\ Guard \in Nat
        BY TickAssumption, ReadTimeAssumption, GuardAssumption
        DEF TypeInv, TypeOK, Job
      <4> QED
        BY <2>2, <4>1, <4>2
    <3> QED
      BY <1>2, <2>1, <2>2, <3>1, ReadAll DEF DatedInv, ChunkInv
  <2>3. ClockInv' /\ ChunkInv' /\ GuardInv'
    BY <2>1 DEF DatedInv, ClockInv, ChunkInv, ReadSoFar, GuardInv, Stat,
                TypeInv, TypeOK
  <2>4. AnchorInv'
    BY <2>1, <2>2 DEF AnchorInv, Stat
  <2> QED
    BY <2>3, <2>4 DEF DatedInv
<1>3. CASE PersistManifest
  <2>1. /\ UNCHANGED <<disk, mtime, now>> /\ disk # None /\ Stat = job.st
        /\ job.pc = "stat2"
    BY <1>3 DEF PersistManifest, fileVars
  <2>2. /\ job'.pc = "ask" /\ job'.verified_at = job.verified_at
        /\ job'.began = job.began
    BY <1>3 DEF PersistManifest, Send, TypeInv, TypeOK, Job
  <2>3. /\ row'.state = "chunked" /\ row'.manifest = job.manifest
        /\ row'.verified_at = job.verified_at
    BY <1>3 DEF PersistManifest, SaveChunked, TypeInv, TypeOK, FileRec
  <2>4. ClockInv' /\ ChunkInv' /\ AnchorInv'
    BY <2>1, <2>2, <2>3 DEF DatedInv, ClockInv, ChunkInv, ReadSoFar, AnchorInv
  <2>5. GuardInv'
    BY <2>1, <2>3 DEF DatedInv, AnchorInv, GuardInv
  <2> QED
    BY <2>4, <2>5 DEF DatedInv
<1> QED
  BY <1>1, <1>2, <1>3, DatedReading, DatedDirty
  DEF Chunking, OpenVanished, TornRead

LEMMA DatedFinishing ==
  ASSUME TypeInv, ResumeInv, DatedInv, Finishing
  PROVE  DatedInv'
<1>1. CASE MarkSyncedStep
  <2>1. /\ UNCHANGED <<disk, mtime, now>> /\ job'.pc \in {"remove", "idle"}
        /\ job'.verified_at <= now /\ job'.began <= now
    BY <1>1, ReturnDates
    DEF MarkSyncedStep, fileVars, DatedInv, ClockInv, TypeInv, TypeOK, Job
  <2>2. /\ row'.verified_at = row.verified_at /\ row'.state # "chunked"
        /\ row'.key = row.key /\ row'.synced_manifest = row.manifest
        /\ row.state = "chunked"
    BY <1>1, RowAfter DEF MarkSyncedStep, ResumeInv
  <2>3. ClockInv' /\ ChunkInv' /\ AnchorInv'
    BY <2>1, <2>2 DEF DatedInv, ClockInv, ChunkInv, ReadSoFar, AnchorInv
  <2>4. GuardInv'
    BY <2>1, <2>2 DEF DatedInv, GuardInv, Stat
  <2> QED
    BY <2>3, <2>4 DEF DatedInv
<1>2. CASE RemoveSource
  <2>1. /\ disk' = None /\ UNCHANGED <<now, row>> /\ job'.pc = "forget"
        /\ job'.verified_at = job.verified_at /\ job'.began = job.began
    BY <1>2 DEF RemoveSource, TypeInv, TypeOK, Job
  <2> QED
    BY <2>1 DEF DatedInv, ClockInv, ChunkInv, ReadSoFar, AnchorInv, GuardInv
<1>3. CASE ForgetStep
  <2>1. /\ UNCHANGED <<disk, mtime, now>> /\ job'.pc = "idle"
        /\ job'.verified_at <= now /\ job'.began <= now
        /\ row'.state = "absent" /\ row'.verified_at = 0
    BY <1>3, ReturnDates DEF ForgetStep, Forget, AbsentRow, fileVars
  <2> QED
    BY <2>1 DEF DatedInv, ClockInv, ChunkInv, ReadSoFar, AnchorInv, GuardInv,
                TypeInv, TypeOK
<1> QED
  BY <1>1, <1>2, <1>3, DatedDirty DEF Finishing, RemoveVanished

LEMMA DatedNext ==
  ASSUME Tick + ReadTime <= Guard, TypeInv, ResumeInv, DatedInv, [Next]_vars
  PROVE  DatedInv'
<1>1. CASE UNCHANGED vars
  BY <1>1 DEF vars, DatedInv, ClockInv, ChunkInv, ReadSoFar, AnchorInv,
              GuardInv, Stat
<1>2. CASE Advance
  <2>1. /\ now' = now + 1 /\ UNCHANGED <<disk, mtime, row, job>>
        /\ job.pc \in {"open", "chunk"} => now - job.began < ReadTime
    BY <1>2 DEF Advance, fileVars
  <2>2. /\ now \in Nat /\ job.began \in Nat /\ job.verified_at \in Nat
        /\ row.verified_at \in Nat /\ ReadTime \in Nat
    BY ReadTimeAssumption DEF TypeInv, TypeOK, Job, FileRec
  <2>3. ClockInv'
    BY <2>1, <2>2 DEF DatedInv, ClockInv
  <2> QED
    BY <2>1, <2>3 DEF DatedInv, ChunkInv, ReadSoFar, AnchorInv, GuardInv, Stat
<1>3. ASSUME UNCHANGED <<disk, mtime, now, row>>,
             \/ Return
             \/ /\ job'.pc \notin {"open", "chunk", "stat2"}
                /\ job'.verified_at = job.verified_at /\ job'.began = job.began
      PROVE  DatedInv'
  BY <1>3, ReturnDates, DatedFrame DEF DatedInv, ClockInv
<1>4. CASE Sending
  <2>1. CASE UploadRejected
    BY <2>1, DatedDirty DEF UploadRejected
  <2>2. CASE ~ UploadRejected
    BY <1>3, <1>4, <2>2
    DEF Sending, AskMissing, OpenToUpload, PutChunk, UploadDone, UploadLost,
        CommitOk, CommitMissing, CommitExhausted, fileVars, TypeInv, TypeOK, Job
  <2> QED
    BY <2>1, <2>2
<1>5. CASE Faulty
  <2>1. CASE \E m \in late : CommitArrives(m)
    BY <2>1
    DEF CommitArrives, fileVars, DatedInv, ClockInv, ChunkInv, ReadSoFar,
        AnchorInv,
        GuardInv, Stat
  <2>2. CASE \/ \E i \in DOMAIN job.puts : PutLost(i)
             \/ Unanswered \/ UploadFailover \/ CommitAnswerLost
             \/ CommitDelayed \/ RemoveDenied
    BY <1>3, <2>2
    DEF PutLost, Unanswered, UploadFailover, CommitAnswerLost, CommitDelayed,
        RemoveDenied, NextEndpoint, fileVars, TypeInv, TypeOK, Job
  <2>3. CASE Crash
    BY <1>3, <2>3 DEF Crash, fileVars
  <2> QED
    BY <1>5, <2>1, <2>2, <2>3 DEF Faulty
<1> QED
  BY <1>1, <1>2, <1>4, <1>5, DatedWriter, DatedBegin, DatedChunking,
     DatedFinishing
  DEF Next, Client

\* The quick check has no false negative: whenever the guard is at least the
\* tick of the file system plus the time a chunking takes, a file the kernel
\* calls unchanged holds the content that was last synced, whatever the
\* writers, the servers, the faults and the crashes do.
THEOREM NoFalseNegatives ==
  ASSUME Tick + ReadTime <= Guard
  PROVE  Spec => []NoFalseNegative
<1> DEFINE IInv == TypeInv /\ ResumeInv /\ DatedInv
<1>1. Init => IInv
  BY TypeInit, GuardAssumption
  DEF Init, ResumeInv, DatedInv, ClockInv, ChunkInv, ReadSoFar, AnchorInv,
      GuardInv,
      AbsentRow, Idle
<1>2. IInv /\ [Next]_vars => IInv'
  BY TypeNext, ResumeNext, DatedNext
<1>3. IInv => NoFalseNegative
  <2> SUFFICES ASSUME IInv, disk # None, Classify(row, Stat) = "UNCHANGED"
               PROVE  row.synced_manifest = disk
    BY DEF NoFalseNegative
  <2>1. row.state = "synced" /\ Stat = row.key
        /\ ~ Stat.mtime >= row.verified_at - Guard
    BY DEF Classify, TypeInv, TypeOK, FileRec
  <2>2. mtime \in Nat /\ row.verified_at \in Nat /\ Guard \in Nat
    BY GuardAssumption DEF TypeInv, TypeOK, FileRec
  <2>3. mtime < row.verified_at - Guard
    BY <2>1, <2>2 DEF Stat
  <2> QED
    BY <2>1, <2>3 DEF DatedInv, GuardInv
<1> QED
  BY <1>1, <1>2, <1>3, PTL DEF Spec

\* The two halves of the promise together: what is unchanged is what was synced,
\* and what was synced is published.
LEMMA UnchangedAndSynced ==
  ASSUME TypeOK, NoFalseNegative, SyncedWasPublished
  PROVE  UnchangedIsMirrored
<1> SUFFICES ASSUME disk # None, Classify(row, Stat) = "UNCHANGED"
             PROVE  Mirrored
  BY DEF UnchangedIsMirrored
<1>1. row.state = "synced"
  BY DEF Classify, TypeOK, FileRec
<1>2. row.synced_manifest = disk
  BY DEF NoFalseNegative
<1> QED
  BY <1>1, <1>2 DEF SyncedWasPublished, Mirrored

\* End to end, for a guard that covers the tick and the chunking and commits
\* that are not applied late: a file the kernel calls unchanged is published by
\* a server, byte for byte.
THEOREM UnchangedAlwaysMirrored ==
  ASSUME Tick + ReadTime <= Guard, LateCommits = FALSE
  PROVE  Spec => []UnchangedIsMirrored
BY UnchangedAndSynced, TypeCorrect, NoFalseNegatives, SyncedAlwaysPublished, PTL
=============================================================================
