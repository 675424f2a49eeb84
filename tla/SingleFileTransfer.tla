------------------------- MODULE SingleFileTransfer -------------------------
(***************************************************************************)
(* The transfer of one file (src/sync-demo/client/single_file_transfer.py) *)
(* as sync_file() performs it: stat, chunk, stat again, persist the        *)
(* manifest, ask, upload, commit, record.  The client interleaves with     *)
(*   - the programs that write the file, in place, by rename or unlink;    *)
(*   - a clock, of which the file system records only multiples of Tick;   *)
(*   - servers that answer, answer too late, or do not answer;             *)
(*   - crashes of the client, of which the row and the servers survive.    *)
(***************************************************************************)
EXTENDS ChangeDetection, FiniteSets

CONSTANTS
  Server,       \* the endpoints a request can reach
  Contents,     \* the contents the writers give the file
  Tick,         \* granularity of the file system's mtime
  ReadTime,     \* the longest a chunking takes, from its stat to its anchor
  FineStamps,   \* TRUE: no two writes carry the same mtime
  LateCommits,  \* TRUE: a commit that timed out may be applied later
  DeleteAfter,  \* the values SYNC_DELETE_AFTER takes from call to call
  MaxRounds,    \* MAX_COMMIT_ROUNDS
  MaxTime, MaxEdits, MaxFaults    \* bounds on the clock, the writes, the faults

ASSUME ServerAssumption == Server # {}
ASSUME TickAssumption == Tick \in Nat \ {0}
ASSUME ReadTimeAssumption == ReadTime \in Nat
ASSUME ContentsAssumption == Contents \subseteq Seq(Chunk)
ASSUME SwitchAssumption ==
  FineStamps \in BOOLEAN /\ LateCommits \in BOOLEAN /\ DeleteAfter \subseteq BOOLEAN
ASSUME BoundAssumption ==
  /\ MaxRounds \in Nat \ {0}
  /\ MaxTime \in Nat /\ MaxEdits \in Nat /\ MaxFaults \in Nat

VARIABLES
  disk,       \* content of the file at the path, or None
  mtime,      \* its mtime (the last one, when there is no file)
  past,       \* history: every content the file ever had
  now,        \* the clock
  row,        \* the path's row in the client's database
  job,        \* the locals of the sync_file call under way
  store,      \* store[s]: the chunks server s holds
  published,  \* published[s]: the manifest row of the path at s, or None
  late,       \* commits on the wire whose client has given up
  edits, faults

vars == <<disk, mtime, past, now, row, job, store, published, late, edits, faults>>
fileVars == <<disk, mtime, past, edits>>
serverVars == <<store, published, late>>

PutState == {"skip", "todo", "ok", "rejected", "lost"}

Job ==
  [ pc : {"idle", "open", "chunk", "stat2", "ask", "reopen", "upload", "commit",
          "mark", "remove", "forget"},
    server : Server,
    st : StatResult,              \* the stat the call began with
    began : Nat,                  \* when it was taken
    fd : {"closed", "linked", "unlinked"},
    inode : Seq(Chunk),           \* content of an open file no longer at the path
    length : Nat,                 \* chunks in the file when it was mapped
    manifest : Manifest,
    verified_at : Nat,
    ask : SUBSET Chunk,
    puts : Seq(PutState),         \* one entry per chunk of the manifest
    round : 0..MaxRounds ]

Publication == [chunks : Manifest, deleted : BOOLEAN]
ASSUME PublicationAssumption == None \notin Publication

TypeOK ==
  /\ disk \in Contents \cup {None}
  /\ mtime \in Nat
  /\ past \subseteq Contents
  /\ now \in Nat
  /\ row \in FileRec
  /\ job \in Job
  /\ store \in [Server -> SUBSET Chunk]
  /\ published \in [Server -> Publication \cup {None}]
  /\ late \subseteq [server : Server, chunks : Manifest]
  /\ edits \in Nat
  /\ faults \in Nat

-----------------------------------------------------------------------------
Stat == [size |-> Len(disk), mtime |-> mtime]
Stamp(t) == (t \div Tick) * Tick

\* What a read through the client's descriptor sees.
Data == IF job.fd = "linked" THEN disk ELSE job.inode

\* A call that is over leaves no locals behind; s only keeps the type.
Idle(s) ==
  [ pc |-> "idle", server |-> s, st |-> AbsentRow.key, began |-> 0,
    fd |-> "closed", inode |-> <<>>, length |-> 0, manifest |-> <<>>,
    verified_at |-> 0, ask |-> {}, puts |-> <<>>, round |-> 0 ]
Home == CHOOSE s \in Server : TRUE
Return == job' = Idle(Home)

Fault == faults < MaxFaults /\ faults' = faults + 1
MarkDirtyAndReturn ==
  row' = MarkDirty(row) /\ Return /\ UNCHANGED <<fileVars, now, serverVars, faults>>

Init ==
  /\ disk \in Contents
  /\ mtime = 0
  /\ past = {disk}
  /\ now = 0
  /\ row = AbsentRow
  /\ job = Idle(Home)
  /\ store = [s \in Server |-> {}]
  /\ published = [s \in Server |-> None]
  /\ late = {}
  /\ edits = 0
  /\ faults = 0

-----------------------------------------------------------------------------
(* The environment: writers of the file, and the clock.                    *)

Written(c) ==
  /\ edits < MaxEdits
  /\ FineStamps => Stamp(now) # mtime
  /\ disk' = c
  /\ mtime' = Stamp(now)
  /\ past' = past \cup {c}
  /\ edits' = edits + 1
  /\ UNCHANGED <<now, row, serverVars, faults>>

\* An open descriptor keeps the inode that leaves the path.
Orphan ==
  job' = IF job.fd = "linked"
         THEN [job EXCEPT !.fd = "unlinked", !.inode = disk] ELSE job

WriteInPlace(c) == disk # None /\ c # disk /\ Written(c) /\ UNCHANGED job

\* Write-temp-then-rename, or the creation of a file that is not there.
AtomicSave(c) ==
  /\ c # disk
  /\ Written(c)
  /\ IF disk = None THEN UNCHANGED job ELSE Orphan

Unlink ==
  /\ disk # None
  /\ edits < MaxEdits
  /\ disk' = None
  /\ edits' = edits + 1
  /\ Orphan
  /\ UNCHANGED <<mtime, past, now, row, serverVars, faults>>

Advance ==
  /\ now < MaxTime
  /\ job.pc \in {"open", "chunk"} => now - job.began < ReadTime
  /\ now' = now + 1
  /\ UNCHANGED <<fileVars, row, job, serverVars, faults>>

-----------------------------------------------------------------------------
(* _sync_file() up to the persisted manifest.  The database is local, so   *)
(* the row is read and tested in the step that takes the stat.             *)

Call(pc, s) == [Idle(s) EXCEPT !.pc = pc, !.st = Stat, !.began = now]

\* The job that sends a manifest: only hashes outside the baseline are asked.
Send(j, manifest) ==
  [j EXCEPT !.pc = "ask", !.manifest = manifest,
            !.ask = Hashes(manifest) \ PrevHashes(row), !.round = 1]

CanResume == row.state = "chunked" /\ row.key = Stat

\* The stat raises FileNotFoundError.
SyncVanished ==
  job.pc = "idle" /\ disk = None /\ MarkDirtyAndReturn

\* "Provably unchanged": the early return.
SyncUnchanged ==
  /\ job.pc = "idle" /\ disk # None
  /\ row.state = "synced" /\ row.key = Stat
  /\ mtime < row.verified_at - Guard
  /\ UNCHANGED vars

\* s is the endpoint the requests of this call go to while it answers.
SyncResume(s) ==
  /\ job.pc = "idle" /\ disk # None
  /\ CanResume
  /\ ResumeManifest(row) # None
  /\ job' = Send(Call("ask", s), row.manifest)
  /\ UNCHANGED <<fileVars, now, row, serverVars, faults>>

\* Iterating over None raises TypeError, which run_once logs; nothing changed.
SyncResumeRaises ==
  /\ job.pc = "idle" /\ disk # None
  /\ CanResume
  /\ ResumeManifest(row) = None
  /\ UNCHANGED vars

SyncAfresh(s) ==
  /\ job.pc = "idle" /\ disk # None
  /\ ~ ( /\ row.state = "synced" /\ row.key = Stat
         /\ mtime < row.verified_at - Guard )
  /\ ~ CanResume
  /\ job' = Call("open", s)
  /\ UNCHANGED <<fileVars, now, row, serverVars, faults>>

\* getsize() and the mapping of the file; an empty file is not mapped.
OpenToChunk ==
  /\ job.pc = "open" /\ disk # None
  /\ job' = [job EXCEPT !.pc = "chunk", !.length = Len(disk),
                        !.fd = IF Len(disk) = 0 THEN "closed" ELSE "linked"]
  /\ UNCHANGED <<fileVars, now, row, serverVars, faults>>

ReadChunk ==
  LET i == Len(job.manifest) + 1 IN
  /\ job.pc = "chunk"
  /\ i <= job.length /\ i <= Len(Data)
  /\ job' = [job EXCEPT !.manifest = Append(job.manifest, Data[i])]
  /\ UNCHANGED <<fileVars, now, row, serverVars, faults>>

\* Reading a mapping beyond the end of a file that shrank kills the process.
MapFault ==
  /\ job.pc = "chunk"
  /\ Len(Data) < Len(job.manifest) + 1 /\ Len(job.manifest) < job.length
  /\ Return
  /\ UNCHANGED <<fileVars, now, row, serverVars, faults>>

\* Mutant of AnchorRead: the guard is taken off the anchor that is stored.
AnchorReadGuarded ==
  /\ job.pc = "chunk"
  /\ Len(job.manifest) = job.length
  /\ job' = [job EXCEPT !.pc = "stat2", !.verified_at = now - Guard,
                        !.fd = "closed", !.inode = <<>>]
  /\ UNCHANGED <<fileVars, now, row, serverVars, faults>>

\* verified_at = time.time_ns(), once the last chunk is read.
AnchorRead ==
  /\ job.pc = "chunk"
  /\ Len(job.manifest) = job.length
  /\ job' = [job EXCEPT !.pc = "stat2", !.verified_at = now,
                        !.fd = "closed", !.inode = <<>>]
  /\ UNCHANGED <<fileVars, now, row, serverVars, faults>>

\* The torn-read guard, then the resume point.
TornRead ==
  /\ job.pc = "stat2"
  /\ disk # None => Stat # job.st
  /\ MarkDirtyAndReturn

\* Mutants of PersistManifest: the anchor is the time of the write to the
\* database; the second stat is not compared.
PersistManifestDatedNow ==
  /\ job.pc = "stat2" /\ disk # None
  /\ Stat = job.st
  /\ row' = SaveChunked(row, job.st, job.manifest, now)
  /\ job' = Send(job, job.manifest)
  /\ UNCHANGED <<fileVars, now, serverVars, faults>>

PersistManifestUnchecked ==
  /\ job.pc = "stat2" /\ disk # None
  /\ row' = SaveChunked(row, job.st, job.manifest, job.verified_at)
  /\ job' = Send(job, job.manifest)
  /\ UNCHANGED <<fileVars, now, serverVars, faults>>

PersistManifest ==
  /\ job.pc = "stat2" /\ disk # None
  /\ Stat = job.st
  /\ row' = SaveChunked(row, job.st, job.manifest, job.verified_at)
  /\ job' = Send(job, job.manifest)
  /\ UNCHANGED <<fileVars, now, serverVars, faults>>

\* The path is gone when it is opened, to be chunked or to be uploaded.
OpenVanished ==
  job.pc \in {"open", "reopen"} /\ disk = None /\ MarkDirtyAndReturn

-----------------------------------------------------------------------------
(* The rounds: ask, upload, commit.                                        *)

\* Mutant of AskMissing: nothing to upload is taken for nothing to commit.
AskMissingSkipsCommit ==
  LET missing == job.ask \ store[job.server]
      puts == [i \in DOMAIN job.manifest |->
                 IF job.manifest[i] \in missing THEN "todo" ELSE "skip"]
  IN /\ job.pc = "ask"
     /\ job' = [job EXCEPT !.pc = IF missing = {} THEN "mark" ELSE "reopen",
                           !.puts = puts]
     /\ UNCHANGED <<fileVars, now, row, serverVars, faults>>

AskMissing ==
  LET missing == job.ask \ store[job.server]
      puts == [i \in DOMAIN job.manifest |->
                 IF job.manifest[i] \in missing THEN "todo" ELSE "skip"]
  IN /\ job.pc = "ask"
     /\ job' = [job EXCEPT !.pc = IF missing = {} THEN "commit" ELSE "reopen",
                           !.puts = puts]
     /\ UNCHANGED <<fileVars, now, row, serverVars, faults>>

OpenToUpload ==
  /\ job.pc = "reopen" /\ disk # None
  /\ job' = [job EXCEPT !.pc = "upload", !.fd = "linked"]
  /\ UNCHANGED <<fileVars, now, row, serverVars, faults>>

\* The file still holds chunk i of the manifest: the server accepts it.
Matches(i) == i <= Len(Data) /\ Data[i] = job.manifest[i]
Stored(i) ==
  store' = [store EXCEPT ![job.server] = @ \cup {job.manifest[i]}]

\* One worker's pread, compression and put, which the server verifies.
PutChunk(i) ==
  /\ job.pc = "upload" /\ job.puts[i] = "todo"
  /\ IF Matches(i)
     THEN Stored(i) /\ job' = [job EXCEPT !.puts[i] = "ok"]
     ELSE UNCHANGED store /\ job' = [job EXCEPT !.puts[i] = "rejected"]
  /\ UNCHANGED <<fileVars, now, row, published, late, faults>>

\* Every attempt of _retry fails; the chunk may have arrived all the same.
PutLost(i) ==
  /\ job.pc = "upload" /\ job.puts[i] = "todo"
  /\ Fault
  /\ \/ UNCHANGED store
     \/ Matches(i) /\ Stored(i)
  /\ job' = [job EXCEPT !.puts[i] = "lost"]
  /\ UNCHANGED <<fileVars, now, row, published, late>>

\* Mutant of UploadDone: the row is marked synced before the commit.
UploadDoneMarks ==
  /\ job.pc = "upload"
  /\ \A i \in DOMAIN job.puts : job.puts[i] \in {"skip", "ok"}
  /\ job' = [job EXCEPT !.pc = "mark", !.fd = "closed", !.inode = <<>>]
  /\ UNCHANGED <<fileVars, now, row, serverVars, faults>>

UploadDone ==
  /\ job.pc = "upload"
  /\ \A i \in DOMAIN job.puts : job.puts[i] \in {"skip", "ok"}
  /\ job' = [job EXCEPT !.pc = "commit", !.fd = "closed", !.inode = <<>>]
  /\ UNCHANGED <<fileVars, now, row, serverVars, faults>>

\* The pool surfaces the first failure in the order of the manifest.
FirstFailure(i) ==
  /\ job.puts[i] \in {"rejected", "lost"}
  /\ \A j \in DOMAIN job.puts : j < i => job.puts[j] \in {"skip", "ok"}

\* Mutant of UploadRejected: the rejected chunk is asked for and sent again.
UploadRejectedRetries ==
  /\ job.pc = "upload"
  /\ \E i \in DOMAIN job.puts : FirstFailure(i) /\ job.puts[i] = "rejected"
  /\ job' = [job EXCEPT !.pc = "ask", !.fd = "closed", !.inode = <<>>]
  /\ UNCHANGED <<fileVars, now, row, serverVars, faults>>

UploadRejected ==
  /\ job.pc = "upload"
  /\ \E i \in DOMAIN job.puts : FirstFailure(i) /\ job.puts[i] = "rejected"
  /\ MarkDirtyAndReturn

UploadLost ==
  /\ job.pc = "upload"
  /\ \E i \in DOMAIN job.puts : FirstFailure(i) /\ job.puts[i] = "lost"
  /\ Return
  /\ UNCHANGED <<fileVars, now, row, serverVars, faults>>

Lacks(s, manifest) == Hashes(manifest) \ store[s]
Published(s, manifest) ==
  published' = [published EXCEPT ![s] = [chunks |-> manifest, deleted |-> FALSE]]

\* Mutant of CommitOk: the server does not look for the chunks of a commit.
CommitOkUnchecked ==
  /\ job.pc = "commit"
  /\ Published(job.server, job.manifest)
  /\ job' = [job EXCEPT !.pc = "mark"]
  /\ UNCHANGED <<fileVars, now, row, store, late, faults>>

CommitOk ==
  /\ job.pc = "commit"
  /\ Lacks(job.server, job.manifest) = {}
  /\ Published(job.server, job.manifest)
  /\ job' = [job EXCEPT !.pc = "mark"]
  /\ UNCHANGED <<fileVars, now, row, store, late, faults>>

\* Mutant of CommitMissing: the next round asks the same question again.
CommitMissingSameAsk ==
  /\ job.pc = "commit" /\ job.round < MaxRounds
  /\ Lacks(job.server, job.manifest) # {}
  /\ job' = [job EXCEPT !.pc = "ask", !.round = @ + 1]
  /\ UNCHANGED <<fileVars, now, row, serverVars, faults>>

CommitMissing ==
  /\ job.pc = "commit" /\ job.round < MaxRounds
  /\ Lacks(job.server, job.manifest) # {}
  /\ job' = [job EXCEPT !.pc = "ask", !.ask = Lacks(job.server, job.manifest),
                        !.round = @ + 1]
  /\ UNCHANGED <<fileVars, now, row, serverVars, faults>>

\* Mutant of CommitExhausted: the loop over the rounds has no else branch.
CommitExhaustedMarks ==
  /\ job.pc = "commit" /\ job.round = MaxRounds
  /\ Lacks(job.server, job.manifest) # {}
  /\ job' = [job EXCEPT !.pc = "mark"]
  /\ UNCHANGED <<fileVars, now, row, serverVars, faults>>

\* The last round lost too: RuntimeError, logged by run_once.
CommitExhausted ==
  /\ job.pc = "commit" /\ job.round = MaxRounds
  /\ Lacks(job.server, job.manifest) # {}
  /\ Return
  /\ UNCHANGED <<fileVars, now, row, serverVars, faults>>

-----------------------------------------------------------------------------
(* Requests without an answer, and crashes.                                *)

\* The transport moves on to another endpoint, or raises ConnectionError.
NextEndpoint ==
  \E s \in Server \ {job.server} : job' = [job EXCEPT !.server = s]

Unanswered ==
  /\ job.pc \in {"ask", "commit"}
  /\ Fault
  /\ Return \/ NextEndpoint
  /\ UNCHANGED <<fileVars, now, row, serverVars>>

\* Later puts go to another endpoint.
UploadFailover ==
  /\ job.pc = "upload"
  /\ Fault
  /\ NextEndpoint
  /\ UNCHANGED <<fileVars, now, row, serverVars>>

\* The commit is applied, its answer is not received.
CommitAnswerLost ==
  /\ job.pc = "commit"
  /\ Lacks(job.server, job.manifest) = {}
  /\ Fault
  /\ Published(job.server, job.manifest)
  /\ Return \/ NextEndpoint
  /\ UNCHANGED <<fileVars, now, row, store, late>>

\* The client gives up on a commit the server has yet to process.
CommitDelayed ==
  /\ LateCommits
  /\ job.pc = "commit"
  /\ Fault
  /\ late' = late \cup {[server |-> job.server, chunks |-> job.manifest]}
  /\ Return \/ NextEndpoint
  /\ UNCHANGED <<fileVars, now, row, store, published>>

CommitArrives(m) ==
  /\ late' = late \ {m}
  /\ IF Lacks(m.server, m.chunks) = {}
     THEN Published(m.server, m.chunks) ELSE UNCHANGED published
  /\ UNCHANGED <<fileVars, now, row, job, store, faults>>

Crash ==
  /\ job.pc # "idle"
  /\ Fault
  /\ Return
  /\ UNCHANGED <<fileVars, now, row, serverVars>>

-----------------------------------------------------------------------------
(* After a commit that succeeded.                                          *)

MarkSyncedStep ==
  /\ job.pc = "mark"
  /\ row' = MarkSynced(row)
  /\ \/ TRUE \in DeleteAfter /\ job' = [job EXCEPT !.pc = "remove"]
     \/ FALSE \in DeleteAfter /\ Return
  /\ UNCHANGED <<fileVars, now, serverVars, faults>>

\* os.remove(path), of whatever is at the path by now.
RemoveSource ==
  /\ job.pc = "remove" /\ disk # None
  /\ disk' = None
  /\ job' = [job EXCEPT !.pc = "forget"]
  /\ UNCHANGED <<mtime, past, edits, now, row, serverVars, faults>>

RemoveVanished ==
  job.pc = "remove" /\ disk = None /\ MarkDirtyAndReturn

\* os.remove raises PermissionError, which run_once logs.
RemoveDenied ==
  /\ job.pc = "remove" /\ disk # None
  /\ Fault
  /\ Return
  /\ UNCHANGED <<fileVars, now, row, serverVars>>

ForgetStep ==
  /\ job.pc = "forget"
  /\ row' = Forget(row)
  /\ Return
  /\ UNCHANGED <<fileVars, now, serverVars, faults>>

-----------------------------------------------------------------------------
Writer ==
  \/ \E c \in Contents : WriteInPlace(c) \/ AtomicSave(c)
  \/ Unlink

Begin ==
  \/ SyncVanished \/ SyncUnchanged \/ SyncResumeRaises
  \/ \E s \in Server : SyncResume(s) \/ SyncAfresh(s)

Chunking ==
  \/ OpenToChunk \/ OpenVanished \/ ReadChunk \/ MapFault
  \/ AnchorRead \/ TornRead \/ PersistManifest

Sending ==
  \/ AskMissing \/ OpenToUpload
  \/ \E i \in DOMAIN job.puts : PutChunk(i)
  \/ UploadDone \/ UploadRejected \/ UploadLost
  \/ CommitOk \/ CommitMissing \/ CommitExhausted

Finishing ==
  \/ MarkSyncedStep \/ RemoveSource \/ RemoveVanished \/ ForgetStep

Client == Begin \/ Chunking \/ Sending \/ Finishing

Faulty ==
  \/ \E i \in DOMAIN job.puts : PutLost(i)
  \/ Unanswered \/ UploadFailover \/ CommitAnswerLost \/ CommitDelayed
  \/ \E m \in late : CommitArrives(m)
  \/ Crash \/ RemoveDenied

Next == Writer \/ Advance \/ Client \/ Faulty

Spec == Init /\ [][Next]_vars

(***************************************************************************)
(* run_once calls sync_file again in every pass and every call proceeds;   *)
(* nothing is assumed of the writers, the clock or the faults.             *)
(***************************************************************************)
FairSpec == Spec /\ WF_vars(Client)

-----------------------------------------------------------------------------
(* Properties.                                                             *)

\* A manifest a server has published refers only to chunks that server holds,
\* although the client skips the hashes of its baseline and may change servers
\* between asking, uploading and committing.
ReferencesHeld ==
  \A s \in Server :
    published[s] # None => Hashes(published[s].chunks) \subseteq store[s]

\* The chunks the client believes known ("already on the server") are held by
\* some server, through rejected uploads, torn reads, lost answers and crashes.
BaselineHeld == PrevHashes(row) \subseteq UNION {store[s] : s \in Server}

\* A file the kernel declares provably unchanged has the content that was
\* last synced: the quick check has no false negative.
NoFalseNegative ==
  disk # None /\ Classify(row, Stat) = "UNCHANGED" => row.synced_manifest = disk

\* Some server publishes the content the file has now.
Mirrored ==
  \E s \in Server : published[s] # None /\ published[s].chunks = disk

\* A row in state synced is backed by a published manifest, whatever call,
\* resumed call or lost answer brought it to that state.
SyncedWasPublished ==
  row.state = "synced" =>
    \E s \in Server :
      published[s] # None /\ published[s].chunks = row.synced_manifest

\* End to end: a file the client will not look at again is on a server, byte
\* for byte.
UnchangedIsMirrored ==
  disk # None /\ Classify(row, Stat) = "UNCHANGED" => Mirrored

\* No published manifest mixes two generations of the file: each is a content
\* the file really had.
NoTornPublication ==
  \A s \in Server : published[s] # None => published[s].chunks \in past

\* A call about to remove its source finds there what a server publishes, if the
\* stat is still the one the row was synced with.
RemovableIsMirrored ==
  job.pc = "remove" /\ disk # None /\ Stat = row.key => Mirrored

\* The row of a file removed after its sync is dropped only while a server
\* publishes what that row calls synced.
ForgottenWasPublished ==
  [][row.state # "absent" /\ row'.state = "absent"
       => \E s \in Server :
            /\ published[s] # None
            /\ published[s].chunks = row.synced_manifest]_vars

\* When the writers, the faults and the restarts are over, a server publishes
\* what the file holds, and does so for good.
Converges == <>[](disk # None => Mirrored)

\* Every call of sync_file returns: no round is repeated for ever.
CallsReturn == []<>(job.pc = "idle")

-----------------------------------------------------------------------------
(* The parts of the inductive invariant behind the safety properties.      *)

\* A descriptor is open only while it is read, and is linked to a file.
DescriptorInv ==
  /\ job.fd = "linked" => disk # None
  /\ job.fd # "closed" => job.pc \in {"chunk", "upload"}

\* The manifest being sent is the one the row would resume with.
ResumeInv ==
  /\ row.state = "chunked" => row.manifest # None
  /\ row.state = "synced" => row.synced_manifest # None
  /\ job.pc \in {"ask", "reopen", "upload", "commit", "mark"} =>
       row.state = "chunked" /\ row.manifest = job.manifest

\* Nothing is dated in the future, and a chunking ends within ReadTime.
ClockInv ==
  /\ row.verified_at <= now
  /\ job.verified_at <= now
  /\ job.began <= now
  /\ job.pc \in {"open", "chunk"} => now <= job.began + ReadTime

\* The chunks read so far are those at the path, and so will be the next one.
ReadSoFar ==
  /\ job.length = Len(disk)
  /\ Len(job.manifest) <= job.length
  /\ \A i \in 1..Len(job.manifest) : job.manifest[i] = disk[i]
  /\ job.fd = "linked" \/ job.length = 0

\* A manifest read since a stat taken after the tick of the mtime it found is
\* a prefix of the file: a write since that stat would show in the mtime.
ChunkInv ==
  /\ job.pc = "open" => job.manifest = <<>>
  /\ /\ job.pc = "chunk" /\ disk # None
     /\ Stat = job.st
     /\ mtime + Tick <= job.began
     => ReadSoFar

\* An anchor beyond the guard window, on a manifest not yet persisted.
AnchorInv ==
  /\ job.pc = "stat2" /\ disk # None
  /\ Stat = job.st
  /\ mtime < job.verified_at - Guard
  => job.manifest = disk

\* The same anchor in the row: the content has not changed since.
GuardInv ==
  disk # None /\ row.key = Stat /\ mtime < row.verified_at - Guard =>
    /\ row.state = "chunked" => row.manifest = disk
    /\ row.state = "synced" => row.synced_manifest = disk

\* What a server answered before the row becomes synced, and after.
CommitInv ==
  job.pc = "mark" =>
    \E s \in Server :
      published[s] # None /\ published[s].chunks = job.manifest

\* A commit a server accepted names only chunks that server holds.
MarkInv ==
  job.pc = "mark" => Hashes(job.manifest) \subseteq UNION {store[s] : s \in Server}

\* A call removes the file, and then its row, only after it was synced.
RemoveInv == job.pc \in {"remove", "forget"} => row.state = "synced"

\* When no two writes carry the same mtime, the second stat finds every write
\* since the first, by whatever sequence of renames and unlinks it came.
StampInv ==
  /\ mtime <= Stamp(now)
  /\ job.pc \in {"open", "chunk", "stat2"} => job.st.mtime <= mtime
  /\ job.pc = "open" => job.manifest = <<>>
  /\ job.pc = "chunk" /\ disk # None /\ Stat = job.st => ReadSoFar
  /\ job.pc = "stat2" /\ disk # None /\ Stat = job.st => job.manifest = disk

\* The stat in the row then tells whether the file was written since its
\* manifest was read, however little before.
KeyInv ==
  /\ row.state \in {"chunked", "synced"} => row.key.mtime <= mtime
  /\ disk # None /\ row.key = Stat =>
       /\ row.state = "chunked" => row.manifest = disk
       /\ row.state = "synced" => row.synced_manifest = disk

\* A manifest that may still reach a server is a content the file had: the one
\* a call would resume with, and those of the commits on the wire.
PastInv ==
  /\ disk # None => disk \in past
  /\ row.state = "chunked" => row.manifest \in past
  /\ \A m \in late : m.chunks \in past
=============================================================================
