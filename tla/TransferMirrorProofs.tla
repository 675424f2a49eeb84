------------------------- MODULE TransferMirrorProofs -------------------------
(***************************************************************************)
(* SingleFileTransfer implements Mirror, for every set of contents and of  *)
(* servers, while no two writes carry the same mtime and no commit         *)
(* outlives the call that sent it; and each server it uses is a ChunkStore *)
(* to it, whether or not commits are applied late.                         *)
(***************************************************************************)
EXTENDS TransferMirror, PublicationProofs

MirrorInv == TornInv /\ SyncedInv

LEMMA InitMirrored == Init => M!Init
BY DEF Init, M!Init, Copy, Synced, AbsentRow

-----------------------------------------------------------------------------
(* What each kind of step is to the mirror.                                *)

\* A row that is not synced says nothing to the user.
LEMMA DoubtMirrored ==
  ASSUME row'.state # "synced", UNCHANGED <<past, published>>
  PROVE  M!Doubt
BY DEF M!Doubt, Copy, Synced

\* A commit gives a server a whole version of the file.
LEMMA PublishMirrored ==
  ASSUME MirrorInv, job.pc = "commit", Published(job.server, job.manifest),
         UNCHANGED <<past, row>>
  PROVE  \E s \in Server : M!Publish(s)
<1>1. /\ job.server \in Server /\ job.manifest \in past
      /\ job.manifest \in Manifest
  BY SentIsPast DEF MirrorInv, TornInv, TypeInv, TypeOK, Job
<1>2. [chunks |-> job.manifest, deleted |-> FALSE] # None
  <2>1. [chunks |-> job.manifest, deleted |-> FALSE] \in Publication
    BY <1>1 DEF Publication
  <2> QED
    BY <2>1, PublicationAssumption
<1>3. \A s \in Server :
        published'[s] = IF s = job.server
                        THEN [chunks |-> job.manifest, deleted |-> FALSE]
                        ELSE published[s]
  BY <1>1 DEF Published, MirrorInv, TornInv, TypeInv, TypeOK
<1>4. Copy' = [Copy EXCEPT ![job.server] = job.manifest]
  <2> DEFINE new == [chunks |-> job.manifest, deleted |-> FALSE]
  <2>1. new.chunks = job.manifest /\ new # None
    BY <1>2
  <2> HIDE DEF new
  <2>2. \A s \in Server :
          published'[s] = IF s = job.server THEN new ELSE published[s]
    BY <1>3 DEF new
  <2> QED
    BY <2>1, <2>2 DEF Copy
<1>5. UNCHANGED Synced
  BY DEF Synced
<1> QED
  BY <1>1, <1>4, <1>5 DEF M!Publish

\* MarkSyncedStep records what some server holds.
LEMMA MarkMirrored ==
  ASSUME MirrorInv, MarkSyncedStep
  PROVE  M!Acknowledge
<1>1. row.state = "chunked" /\ row.manifest = job.manifest
  BY DEF MarkSyncedStep, MirrorInv, SyncedInv, ResumeInv
<1>2. row'.state = "synced" /\ row'.synced_manifest = job.manifest
  BY <1>1, RowAfter
  DEF MarkSyncedStep, MarkSynced, MirrorInv, SyncedInv, TypeInv, TypeOK, FileRec
<1>3. PICK s \in Server :
        published[s] # None /\ published[s].chunks = job.manifest
  BY DEF MarkSyncedStep, MirrorInv, SyncedInv, CommitInv
<1>4. job.manifest # None
  BY NoneAssumption DEF MirrorInv, TornInv, TypeInv, TypeOK, Job, Manifest
<1>5. Copy[s] # None /\ Synced' = Copy[s]
  BY <1>2, <1>3, <1>4 DEF Copy, Synced
<1>6. UNCHANGED <<past, Copy>>
  BY DEF MarkSyncedStep, fileVars, serverVars, Copy
<1> QED
  BY <1>5, <1>6 DEF M!Acknowledge

\* A write of the file adds a version.
LEMMA WriteMirrored ==
  ASSUME NEW c \in Contents, Written(c)
  PROVE  M!Write(c)
BY DEF Written, serverVars, M!Write, Copy, Synced

LEMMA NextMirrored ==
  ASSUME LateCommits = FALSE, MirrorInv, [Next]_vars
  PROVE  M!Next \/ UNCHANGED <<past, Copy, Synced>>
<1>1. CASE UNCHANGED <<past, published, row>>
  BY <1>1 DEF Copy, Synced
<1>2. ASSUME NEW c \in Contents, WriteInPlace(c) \/ AtomicSave(c) PROVE M!Next
  BY <1>2, WriteMirrored DEF WriteInPlace, AtomicSave, M!Next
<1>3. CASE CommitOk \/ CommitAnswerLost
  <2>1. UNCHANGED <<past, row>>
    BY <1>3 DEF CommitOk, CommitAnswerLost, fileVars
  <2> QED
    BY <1>3, <2>1, PublishMirrored DEF CommitOk, CommitAnswerLost, M!Next
<1>4. CASE MarkSyncedStep
  BY <1>4, MarkMirrored DEF M!Next
<1>5. CASE MarkDirtyAndReturn \/ PersistManifest \/ ForgetStep
  <2>1. row'.state # "synced"
    <3>1. CASE MarkDirtyAndReturn
      BY <3>1, DirtyKeeps DEF MirrorInv, TornInv
    <3>2. CASE PersistManifest
      BY <3>2
      DEF PersistManifest, SaveChunked, MirrorInv, TornInv, TypeInv, TypeOK,
          FileRec
    <3>3. CASE ForgetStep
      BY <3>3 DEF ForgetStep, Forget, AbsentRow
    <3> QED
      BY <1>5, <3>1, <3>2, <3>3
  <2>2. UNCHANGED <<past, published>>
    BY <1>5
    DEF MarkDirtyAndReturn, PersistManifest, ForgetStep, fileVars, serverVars
  <2> QED
    BY <2>1, <2>2, DoubtMirrored DEF M!Next
<1>6. ~ \E m \in late : CommitArrives(m)
  BY DEF MirrorInv, SyncedInv
<1>7. CASE Unlink \/ RemoveSource
  BY <1>1, <1>7 DEF Unlink, RemoveSource, serverVars
<1>8. CASE UNCHANGED fileVars /\ UNCHANGED row /\ UNCHANGED published
  BY <1>1, <1>8 DEF fileVars
<1>9. TypeInv
  BY DEF MirrorInv, TornInv
<1>10. CASE UNCHANGED fileVars
  BY <1>3, <1>4, <1>5, <1>6, <1>8, <1>9, <1>10, RowSteps, PublishingSteps
<1> QED
  BY <1>2, <1>7, <1>10, FileSteps

\* Through torn reads, rejected uploads, resumed manifests, lost answers,
\* failovers and crashes, a transfer only ever gives a server a whole version
\* the file had, and calls synced only what a server holds.
THEOREM MirrorImplemented ==
  ASSUME FineStamps = TRUE, LateCommits = FALSE
  PROVE  Spec => ImplementsMirror
<1>1. Init => MirrorInv
  BY TornInit
  DEF Init, MirrorInv, SyncedInv, TornInv, CommitInv, SyncedWasPublished,
      AbsentRow, Idle
<1>2. MirrorInv /\ [Next]_vars => MirrorInv'
  BY TornNext, SyncedNext DEF MirrorInv
<1>3. MirrorInv /\ [Next]_vars => [M!Next]_<<past, Copy, Synced>>
  BY NextMirrored
<1> QED
  BY <1>1, <1>2, <1>3, InitMirrored, PTL
  DEF Spec, M!Spec, M!vars, ImplementsMirror

-----------------------------------------------------------------------------
(* What each step is to each server.                                       *)

LEMMA StoreInit ==
  ASSUME NEW s \in Server, Init
  PROVE  ServerOf(s)!Init
BY DEF Init, ServerOf!Init

\* A put gives one server a chunk to keep.
LEMMA StoreKeeps ==
  ASSUME TypeInv, NEW s \in Server, NEW i \in DOMAIN job.puts,
         Matches(i), Stored(i), UNCHANGED published
  PROVE  ServerOf(s)!Keep \/ UNCHANGED <<store[s], published[s]>>
<1>1. job.manifest[i] \in Chunk
  <2>1. i \in Nat /\ i >= 1
    BY DEF TypeInv, TypeOK, Job
  <2>2. Data \in Seq(Chunk)
    BY ContentsAssumption DEF Data, Job, TypeInv, TypeOK, DescriptorInv
  <2> QED
    BY <2>1, <2>2 DEF Matches
<1>2. CASE s = job.server
  <2>1. store'[s] = store[s] \cup {job.manifest[i]}
    BY <1>2 DEF Stored, TypeInv, TypeOK
  <2> QED
    BY <1>1, <2>1 DEF ServerOf!Keep
<1>3. CASE s # job.server
  BY <1>3 DEF Stored, TypeInv, TypeOK
<1> QED
  BY <1>2, <1>3

\* A commit that is accepted publishes a manifest of chunks the server has.
LEMMA StorePublishes ==
  ASSUME TypeInv, NEW s \in Server, NEW t \in Server, NEW m \in past,
         Lacks(t, m) = {}, Published(t, m), UNCHANGED store
  PROVE  \/ \E p \in {"path"} : ServerOf(s)!Publish(p)
         \/ UNCHANGED <<store[s], published[s]>>
<1>1. CASE s # t
  BY <1>1 DEF Published, TypeInv, TypeOK
<1>2. CASE s = t
  <2>1. published'[s] = [chunks |-> m, deleted |-> FALSE]
    BY <1>2 DEF Published, TypeInv, TypeOK
  <2>2. m \in Contents /\ Hashes(m) \subseteq store[s]
    BY <1>2 DEF Lacks, TypeInv, TypeOK
  <2> QED
    BY <2>1, <2>2
    DEF ServerOf!Publish, ServerOf!Referenced, ServerOf!Row, Hashes
<1> QED
  BY <1>1, <1>2

LEMMA StoreNext ==
  ASSUME TornInv, [Next]_vars, NEW s \in Server
  PROVE  ServerOf(s)!Next \/ UNCHANGED <<store[s], published[s]>>
<1>1. TypeInv
  BY DEF TornInv
<1>2. CASE UNCHANGED <<store, published>>
  BY <1>2
<1>3. CASE CommitOk \/ CommitAnswerLost
  <2>1. /\ job.server \in Server /\ job.manifest \in past
        /\ Lacks(job.server, job.manifest) = {}
        /\ Published(job.server, job.manifest) /\ UNCHANGED store
    BY <1>3, SentIsPast
    DEF CommitOk, CommitAnswerLost, TornInv, TypeInv, TypeOK, Job
  <2> QED
    BY <1>1, <2>1, StorePublishes DEF ServerOf!Next
<1>4. ASSUME NEW m \in late, CommitArrives(m)
      PROVE  ServerOf(s)!Next \/ UNCHANGED <<store[s], published[s]>>
  <2>1. m.server \in Server /\ m.chunks \in past /\ UNCHANGED store
    BY <1>4 DEF CommitArrives, TornInv, PastInv, TypeInv, TypeOK
  <2>2. \/ UNCHANGED published
        \/ Lacks(m.server, m.chunks) = {} /\ Published(m.server, m.chunks)
    BY <1>4 DEF CommitArrives
  <2> QED
    BY <1>1, <1>2, <2>1, <2>2, StorePublishes DEF ServerOf!Next
<1>5. CASE UNCHANGED published
  BY <1>1, <1>2, <1>5, StoreSteps, StoreKeeps DEF ServerOf!Next
<1> QED
  BY <1>1, <1>3, <1>4, <1>5, PublishingSteps

\* For every server, as the transfer uses it, the promise of ChunkStore is all
\* that it takes, and SyncServer keeps that promise (SyncServerProofs): the two
\* halves of the protocol, proved apart, meet.  Late commits are no exception.
THEOREM StoresUsedAsPromised ==
  ASSUME FineStamps = TRUE
  PROVE  Spec => ServersAreStores
<1>1. TornInv /\ [Next]_vars =>
        [\A s \in Server : [ServerOf(s)!Next]_<<store[s], published[s]>>]_vars
  BY StoreNext
<1>2. Init => \A s \in Server : ServerOf(s)!Init
  BY StoreInit
<1> QED
  BY <1>1, <1>2, TornInit, TornNext, PTL DEF Spec, ServersAreStores
=============================================================================
