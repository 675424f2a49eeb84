# file-delta-relay: a verification of the sync client and server

file-delta-relay keeps copies of the files of a client machine on one or more
servers. A client process scans its roots, decides per file from a stat whether
anything may have changed, cuts a changed file into content-defined chunks,
uploads the chunks the server lacks and commits a manifest. This directory holds
TLA+ models of that client, of its server and of the sampler that measures them,
TLC runs that check them on small instances, and TLAPS proofs of the properties
that matter most for every value of the constants.

## 1. Inventory of the system

| Component (source, under `src/sync-demo/`) | State | Operations | Modelled in |
|---|---|---|---|
| Decision kernel (`client/change_detection.py`, `classify`) | none | row, stat -> NEW, INTERRUPTED, STAT_CHANGED, BOUNDARY, unchanged | `ChangeDetection` |
| Scan and check (`client/change_detection.py`) | `seen`, `unreadable`, stack of one sweep | walk, classify, deletion sweep; check of reported paths | `RunOnce` |
| State store (`StateDB`) | one SQLite row per path: key, state, manifest, synced_manifest, verified_at_ns | get, save_chunked, mark_synced, mark_dirty, prev_hashes, forget, all_paths | `ChangeDetection`, `RunOnce` |
| Single file transfer (`client/single_file_transfer.py`) | locals of `_sync_file`, an open descriptor, the upload pool | stat, chunk, stat, persist, ask, upload, commit, record, remove | `SingleFileTransfer` |
| Transport (`client/transport.py`, `ServerEndpoint`, `HttpServer`) | healthy, failures, last_probe per endpoint; preferred endpoint | pick, probe, request, refresh | `Endpoints`; `SingleFileTransfer` and `RunOnce` keep what a transfer and a pass see of it |
| Run loop (`run_once`, `__main__`) | the scan under way | tombstone or sync each change, isolate or propagate errors | `RunOnce`; refresh and preference in `Endpoints` |
| Server (`server/app.py`) | chunk files, `manifests` table, `_lock` | missing, put_chunk, commit, delete, get_file | `SyncServer`, `ChunkStore` |
| Sampler (`evidence/ab_benchmark.py`, `StatsSampler`, `_derive`, `_aggregate`) | the docker process, the flag, the samples | start, sample, restart after an outage, stop, fold | `StatsSampler` |
| nginx proxy, network shaping, API key, health and statistics, traffic mimicry, other evidence, figures | none of their own | | no |

How they interact. `run_once` iterates over `scan`, a generator that reads the
disk and the database; for each change it calls `sync_file`, which reads and
writes the row and calls the server through `HttpServer`. `HttpServer` sends
each request to the first endpoint it believes healthy and moves on when one
does not answer. The servers do not replicate: what one endpoint holds another
lacks. Nothing is locked against the programs that write the files. In a server
each request has a thread; `_lock` is around the database, while chunk files are
written and read without it and published by a rename. The sampler is a thread
beside the benchmark: it reads `docker stats` of the containers that the
benchmark stops and starts, and is stopped from the main thread.

The behaviours that are hard to test, each listed at its line under `hazards` in
`PROJECT.json`:

- *stale decisions*: everything between two stats of a file, two writes in one
  tick of the mtime, a manifest resumed after a restart, a baseline that is true
  of one server and not of another;
- *lost and late answers*: a request that timed out may have been processed, or
  may be processed later;
- *crashes* between a step on the server and its record on the client;
- *partial failure* of an upload by several workers, or of the walk of a tree;
- *a scan that takes long*: the walk is a generator that stands still during
  every upload, so what it saw, what the rows say and what is on the disk at the
  sweep are three different things;
- *threads of the server*: puts of one chunk, commits, deletes and downloads of
  one path, a full disk, and a process killed with temporary files open;
- *counters that reset*, a sampling thread that blocks on a silent process;
- *progress*: rounds of ask, upload, commit; endpoints that come back; a path
  that fails for ever in front of others.

What makes the components correct: the kernel never calls a changed file
unchanged; a row in state synced is backed by a server; a published manifest has
all its chunks and describes a content the file had; a deletion is reported only
for a file that is gone, and the copy of a file that is gone is retracted; a
request is refused only when no endpoint can serve it, and traffic returns to
the primary; a chunk file has the content it is named for, a download is one
version of the file; every change is eventually on a server; a total counts no
byte twice.

## 2. Modules

`ChangeDetection` - the kernel and the statements of `StateDB` for one path, as
functions of a row. A chunk is its digest (collisions are left out), a manifest
the sequence of its chunks: offset and length follow from the position, and the
file hash, which is the digest of that sequence, is not stored twice. The state
`"absent"` is a path without a row. `ResumeManifest` is what `get()` makes of
the stored blob: the empty blob of an empty file reads back as None.

`SingleFileTransfer` - one path, one client, the servers it can reach.
Variables:

| Variable | Code |
|---|---|
| `disk`, `mtime` | what `os.stat` and the descriptors see at the path |
| `past` | history variable: every content the file had |
| `now` | `time.time_ns()`, and the clock the file system stamps with |
| `row` | the path's row in the client's SQLite file; survives crashes |
| `job` | the locals of the `sync_file` call under way, `pc` being the place it is at; the upload pool is `puts`, one entry per chunk |
| `store`, `published` | chunk files and manifest row of each server |
| `late` | commits still on the wire after their client gave up |
| `edits`, `faults` | only bound the writers and the faults |

Actions, in the order of the code: `SyncVanished`, `SyncUnchanged`,
`SyncResume`, `SyncResumeRaises`, `SyncAfresh` (stat, row, the two tests),
`OpenToChunk`, `ReadChunk`, `MapFault`, `AnchorRead` (`chunk_manifest` and the
anchor), `TornRead`, `PersistManifest`, `OpenVanished`, then `AskMissing`,
`OpenToUpload`, `PutChunk`, `UploadDone`, `UploadRejected`, `UploadLost`,
`CommitOk`, `CommitMissing`, `CommitExhausted` (the rounds), and
`MarkSyncedStep`, `RemoveSource`, `RemoveVanished`, `ForgetStep`. The path back
to `"idle"` is a `return` or an exception that `run_once` logs. The environment
is `WriteInPlace`, `AtomicSave`, `Unlink` (any program, at any moment),
`Advance` (the clock) and the faults: `PutLost`, `Unanswered`, `UploadFailover`,
`CommitAnswerLost`, `CommitDelayed` then `CommitArrives`, `Crash`,
`RemoveDenied`.

Granularity: reading the row and testing it is one step with the stat, because
the database is local and has one user. Each chunk read, each put, each request
is a step of its own. Server handlers are atomic, as `commit()` is under its
lock and `put_chunk()` through `os.replace`. Definitions marked as mutants
repeat one action with a plausible bug in it; no specification uses them.

`Mirror` - what the client promises for one file, with no stats, chunks,
requests or restarts: a server's copy is always a whole version the file had,
and the client calls a version synced only when a server holds it.
`TransferMirror` relates the two by a refinement mapping, and each server, as
the transfer uses it, to `ChunkStore` below. `MCSingleFileTransfer` gives the
constants values. The theorems are in `SingleFileTransferProofs` (types,
references, synced rows, the guard window), `PublicationProofs` (the baseline,
removals, and all that holds of mtimes that tell writes apart) and
`TransferMirrorProofs` (the two refinements).

`Endpoints` - the choice of an endpoint for every request, with all the threads
that send. Variables:

| Variable | Code |
|---|---|
| `up` | whether each server answers (below 500 to a request, 200 to a probe) |
| `healthy`, `failures` | the fields of `ServerEndpoint`; `failures` is counted up to the threshold, beyond which no test tells counts apart |
| `age` | the time since `last_probe`, counted up to the interval, beyond which every time is alike; a store of an older reading makes it jump |
| `preferred` | `preferred_endpoint`, 0 for None |
| `phase` | the run loop: in or before `refresh()`, or in a pass |
| `job` | per thread, the locals of `_request`, `_pick`, `_probe` or `refresh`; `loop` tells the first scan of `_pick` from its last resort and from `refresh()`, `read` is the age of a reading of the clock that is still to be stored |
| `claimed` | history variable: the time since the last claim of each endpoint, counted up to `Spacing` |

`job[t].steady`, a history field too, is the set of endpoints that have been up
since the call began. Actions: `Begin`; `PickPreferred`, `PickScan`,
`ScanHealthy`, `ScanDown`, `ScanResort`, `ScanEnds` (one look of `_pick` or
`refresh` at one endpoint); `ClaimWon`, `ClaimLost`, `ReadClock`, `StoreClaim`
(`claim_probe`); `ReadClock` again, `StoreProbe`, `ProbeAnswered`, `ProbeOk`,
`ProbeFailed` (`_probe`); `Answered`, `BrokenOff`, `Served`, `MovesOn`,
`Refused`; and `RefreshBegin`, `Prefer`, `PreferNone`, `PassEnds` of the run
loop. The environment is `ComeUp`, `GoDown` and `Tick`.

Granularity: every read of `healthy` is a step, since it takes no lock, and so
is every mark, since it holds the lock throughout. A claim holds the lock over
three: its test, its reading of the clock, and the store of it. `_probe` reads
the clock and stores it without the lock, in two steps, so that its store may
put an older time over a newer one, of a claim or of another probe, and may come
between the test of a claim and its store. `Lag` bounds how long a thread may
stand between a reading and its store; it is stated as a guard of `Tick`. An
attempt to send and what is made of its outcome are two steps. The main thread
and the workers never send at once, because `_upload` waits for its pool;
`AllIdle` says so of the steps of the run loop. `MCEndpoints` gives the
constants values, `EndpointsProofs` holds the theorems.

`Endpoints` and `SingleFileTransfer` meet at `_request`: the transfer's choice
of any server, its `Unanswered` and its failovers are what requests of
`Endpoints` can end in, so nothing proved of the transfer depends on which
endpoint is believed healthy.

`SyncServer` - one server process, with all its threads. Variables:

| Variable | Code |
|---|---|
| `file` | the chunk files, by the digest they are named for; a chunk stands for its content and for its digest |
| `temp` | the temporary files: `<digest>.tmp.<pid>.<thread>` belongs to one thread, and stays behind a crash |
| `manifests` | the committed rows of the database |
| `lock` | who holds `_lock` |
| `job` | the request a thread handles and the locals of its handler, `pc` being the place it is at |

Actions: `PutBegin` (with the test of the digest), `PutTest`, `PutOpen`,
`PutWrite` or `PutFails`, `PutReplace`; `MissingBegin`, `LookUp` per hash,
`MissingAnswer`; `WriteBegin`, `TakeLock`, `LookUp` again, then `CommitMissing`,
`CommitWrite` or `DeleteWrite`; `GetBegin`, `StreamChunk` per chunk,
`StreamEnd`; and `Crash`. Each test of a file, each write and each chunk sent is
a step of its own; the statement on the database and its commit are one, as
SQLite makes them. `ChunkStore` is what a client may count on - chunks are kept
for good, a manifest is published with all its chunks, a tombstone hides a row
that exists - and `SyncServer` implements it. It is the server with atomic
handlers that `SingleFileTransfer` and `RunOnce` use; `TransferMirror` states
that the transfer asks no more of it (`ServersAreStores`).

`RunOnce` - the passes of the client over a tree. Variables:

| Variable | Code |
|---|---|
| `disk`, `dir` | files (a version stands for a stat) and directories: there or not, readable, searchable |
| `row` | the rows of the database, by path |
| `scan` | the generator (`stack`, entries of the open directory, `seen`, `unreadable`, rows still to sweep) and the change `run_once` is at; `pc` is the place, `back` where the generator goes on |
| `roots`, `deleteAfter` | the configuration, read at the start of the process |
| `published`, `up` | what each server has of each path, and whether it answers |
| `lost` | history variable: paths the users removed, at the start of the pass or since |
| `edits`, `faults` | only bound the users and the faults |

Actions: `Start`, `PassBegin`; the walk `OpenDir`, `OpenDirRaises`, `WalkDir`,
`WalkSkip`, `WalkFile`, `WalkUp`; the sweep `SweepBegin`, `SweepPath`; `check()`
as `CheckBegin`, `CheckSkip`, `CheckDeleted`, `CheckFile`; `PassEnd`. A change
is handled by `SyncVanished`, `SyncRaises`, `SyncChunked`, `SyncAbandoned`,
`SyncCommitted`, `SyncMarked`, `SourceRemoved`, or by `RetractServed` and
`Forget`; a request may end in `Offline`, `AnswerLost` or `Refused`. The
environment is `Write`, `Remove`, `Chmod`, `MoveAway`, `Replace`, `ServerDown`,
`ServerUp` and `Crash`. Granularity: the read of one directory, the look at one
entry and the look at one row are steps; the entries are listed when the
directory is opened, while `os.scandir` may list them as it goes, so that the
model sees at least the files a real walk can miss. The inside of `sync_file` is
in `SingleFileTransfer`. No runner of the repository calls `check()` yet:
`Watched` is `{}` for the program as shipped, and a set of paths for a watcher
put in front of it. `MCRunOnce` gives the constants values; `RunOnceProofs` and
`PassProofs` hold the theorems.

`StatsSampler` - the sampling thread (`test`, `popen`, `assign`, `read`,
`check`, `record`, `eof`, `pause`), `stop()` on the main thread (`look`,
`terminate`, `wait`, `kill`, `join`), the docker process and its pipe, and the
containers. `seen` holds, per container, what `_derive` and `_aggregate` make of
the samples so far: both fold the samples in order. `spent` is a history
variable, what a container used in all its lives; `late` records that the flag
was already up when the thread stored its process. `stop()` reads `self._proc`
anew at each use, so that each use is a step. `MCStatsSampler` gives the
constants values, `StatsSamplerProofs` holds the theorems. The times of two
samples are readings of the wall clock, which may step back; of them only what
`_derive` asks is kept, whether the second is later, chosen freely at each row.
`forward` is a history field: every change of the counter so far was seen at a
later time.

## 3. Properties and runs

| Run | Bounds | Properties | What it shows |
|---|---|---|---|
| `transfer` | 1 server, contents of two chunks, one and none, late commits, coarse mtimes, clock 0..5, guard 2, tick 1, chunking at most 1, 2 edits, 1 fault | `TypeOK`, `NoFalseNegative`, `BaselineHeld` | the quick check and the dedup baseline, through writes at any moment, crashes and lost answers |
| `failover` | 2 servers, 2 contents, fine mtimes, clock 0..2, guard 1, chunking of any length, 2 rounds, 2 edits, 2 faults, `SYNC_DELETE_AFTER` set or not from call to call | `ReferencesHeld`, `UnchangedIsMirrored`, `SyncedWasPublished`, `NoTornPublication`, `RemovableIsMirrored`, `ForgottenWasPublished`, `ImplementsMirror`, `ServersAreStores`, `Converges`, `CallsReturn` | requests of one call spread over independent servers; the transfer implements `Mirror` and takes each server for a `ChunkStore`; the file ends on a server |
| `endpoints` | 2 endpoints, the main thread and 2 workers, threshold 1, interval 2, lag 1 | `TypeOK`, `ServedWhenUp`, `TriedOnce`, `ClaimsSpaced` | requests of several threads over shared health, their claims and the late stores of their probes |
| `failback` | 2 endpoints, the main thread and 1 worker, threshold 2, interval 2, lag 1, fairness of threads, clock and run loop | `FailsBack`, `RequestsEnd` | every request ends, and a recovered endpoint is used again |
| `server` | 2 threads, 2 chunks, 1 path, manifests `ab`, `ba` and the empty one | `TypeOK`, `StoreSound`, `ServedWhole`, `ImplementsStore`, `Answered` | concurrent handlers, a full disk and crashes: the atomic store, and every request answered |
| `passes` | a root with a file and a directory of two files, roots that narrow to it, 1 server, `c` always raises, `b` is watched, 2 edits of the tree, 1 fault | `TypeOK`, `OnlyRemovedIsRetracted`, `LiveHasRow`, `UnchangedIsCopied`, `TakenKeepsCopy`, `Propagates`, `Retracts` | whole passes and checks against a tree that changes under them |
| `sampler` | 2 containers, one of which uses 2 units, 2 stops, 1 row in the pipe | `TypeOK`, `TotalsBounded`, `RatesAgree`, `SamplesStill`, `StreamReaped`, `StopReturns`, `Resumes` | the sampling thread against `stop()`, and the fold against resets and a clock that steps back |

Why these bounds. Two contents of two chunks each, without a chunk in common,
let a chunking be overtaken half way and make a mix recognisable; `transfer`
adds a one-chunk content (a file that shrinks, a chunk in common) and the empty
file. Two edits give a write during the call and one after it. The clock reaches
the far side of the guard window for an anchor taken after a write: with the
guard at 2 and the tick at 1, six instants hold a write, a chunking and a later
quick check. A second server and one fault are what it takes for the baseline to
be wrong where the call lands; two rounds what it takes to lose one and exhaust
them. Deadlock is checked everywhere but in `sampler`, whose main thread
returns: an idle client can always be called again.

`Endpoints` needs no bound on the clock or on the counts: the two it keeps are
capped where the code stops telling them apart. Two endpoints are one ahead of
the other, and let one be down, tried, or probed while the other serves. With
threshold 1 in `endpoints` every failed attempt takes the endpoint down, so that
probes and claims are at their most frequent; with threshold 2 in `failback` the
marks of two threads add up or cancel. With interval 2 and lag 1 a store can
come late by less than the interval: the claims are spaced by 1 there, and not
by 2. Two workers race for one claim. They are interchangeable, so `endpoints`
takes them up to symmetry, which `failback`, a run for liveness, does not.

`SyncServer` has no bound at all: threads, chunks and paths are finite and
nothing counts. Two threads are a put against a put, a commit against a delete
or against a download; two manifests of the same two chunks in another order
make a download that mixes them show. More threads, chunks and paths are what
the theorems of section 4 are for.

In `RunOnce` three paths are one a sync is held up at, one beside it and one in
another directory; with two directories the tree can change behind, at and ahead
of the walk, and the narrower roots leave rows outside them. Two edits are a
file that is made and removed, or a directory that is locked, moved, and put
back; one fault is a crash, a lost answer, a refusal or a server that is down.
`passes` has no crash between `os.remove` and `forget` (`RemovalCrashes` is
FALSE): the run `removal_crash` has one, and the sweep after the restart
retracts the copy of a file no user removed, so that both `TakenKeepsCopy` and
`OnlyRemovedIsRetracted` fail. What else other values of the constants give:
with two servers a retraction lands on one and the copy on the other stays
(`Retracts` fails: the servers are independent by design and a row names none).
In `SingleFileTransfer`, with coarse mtimes a write of the same size in the tick
of the first stat passes the torn-read guard and a mix is published until the
guard window brings the file back (`NoTornPublication` fails,
`UnchangedIsMirrored` does not), and with `LateCommits` a commit applied after
its client gave it up replaces a newer one (`SyncedWasPublished` fails). These
are stated as assumptions of the runs and theorems rather than as runs of their
own.

Five further runs are refutations of what a comment or document of the
repository says, each recorded under `findings`:

| Run | Statement | What the code does |
|---|---|---|
| `slow_chunking` | the check has no false negative | the anchor is taken after the last chunk is read, so a chunking longer than the guard hides a write in the tick of the first stat |
| `removal_crash` | `SYNC_DELETE_AFTER` leaves the server copy unaffected | a crash between `os.remove` and `forget` leaves a synced row without a file, and the next sweep retracts the copy |
| `empty_resume` | an interrupted upload resumes | an empty file's manifest reads back as None, and every resumed call raises TypeError |
| `scan_error` | a scan error is never mistaken for a deletion | in a directory that can be listed and not searched every stat raises, the walk skips the files as deleted ones, and the sweep retracts them |
| `lost_retraction` | every step is idempotent or resumes from persisted state | when the answer to a retraction is lost and the file is moved back with its old stat, its row still says synced and the copy stays tombstoned |

Fairness. `FairSpec` adds weak fairness of `Client`, the disjunction of every
step of a call and of the start of the next: `run_once` runs again after every
poll interval, `scan` returns every path whose row is not synced or whose quick
check is inconclusive, and a process that runs takes its next step. Nothing is
assumed of the writers, the clock, the faults or the choice of server, so a
counterexample may always choose the least favourable server. `Converges` says
`<>[]` because edits and faults are bounded: after the last of them the client
needs no luck.

The `FairSpec` of `Endpoints` assumes that the clock runs, that every thread
under way takes its next step (each request and probe has a timeout), and that
`refresh()` starts when the run loop is there. A pass handles the finitely many
changes of one scan with finitely many requests, so it ends however they
interleave: `PreferNone` and `PassEnds`, which need every thread idle, are
strongly fair. No fairness is assumed of the servers, of `Prefer` or of `Begin`:
`FailsBack` holds of an endpoint no request ever asks for.

`SyncServer` assumes that every thread takes its next step, and that none waits
for `_lock` while others take it over and over (strong fairness of `TakeLock`:
the lock is free again and again, and a `threading.Lock` wakes its waiters).
Clients and crashes owe nothing. `RunOnce` assumes that the process runs, that
somebody starts it again when it has died (an operator: `docker-compose.yml` has
no restart policy, and `OpenDirRaises` shows how one tree can end it), that
servers come back, and that scans are not put off for ever by a watcher's
reports (strong fairness of `PassBegin`, since a reported path makes another
pass begin instead). The users of the tree owe nothing; their edits and the
faults are bounded, hence `<>[]`. `StatsSampler` assumes that both threads run
and that docker writes rows of each container while it runs and work goes on; a
process that was told to end may hang, and an outage may end the stream or not.

## 4. Proofs

The theorems about `SingleFileTransfer` hold for any sets of chunks, contents
and servers, any guard, tick and bounds that satisfy the named assumptions of
the modules. Where a theorem needs more of a constant, its `ASSUME` says so.

In `SingleFileTransferProofs`:

- `TypeCorrect`: `Spec => []TypeOK`. Inductive together with `DescriptorInv`: a
  descriptor is open only while it is read and linked only to a file that
  exists.
- `ReferencesAlwaysHeld`: `Spec => []ReferencesHeld`. Chunks are never removed
  and every publication tests the references in the step that publishes.
- `SyncedAlwaysPublished`: `Spec => []SyncedWasPublished` when no commit is
  applied late. Strengthened by `ResumeInv` (while a manifest is sent, the row
  is chunked and holds that manifest) and `CommitInv` (at mark_synced a server
  publishes it). With late commits the property fails, as section 3 says.
- `NoFalseNegatives`: `Spec => []NoFalseNegative` when
  `Tick + ReadTime <= Guard`. The invariant follows an anchor through the code.
  `ClockInv`: nothing is dated in the future and a chunking ends within
  `ReadTime`. `ChunkInv`: a manifest under way whose stat was taken after the
  tick of the mtime is a prefix of the file (`ReadSoFar`), since a later write
  would show in the mtime. `AnchorInv`: an anchor beyond the guard, minus the
  time to read, lies in that case, so the finished manifest is the file.
  `GuardInv`: the same of the row, until the stat changes. A write disturbs none
  of them, because its stamp lies within one tick of the clock and the anchors
  lie in the past. The run `slow_chunking` shows the assumption is needed.
- `UnchangedAlwaysMirrored`: `Spec => []UnchangedIsMirrored` under both
  assumptions, from the previous two.

In `PublicationProofs`:

- `BaselineAlwaysHeld`: `Spec => []BaselineHeld`, without any assumption. The
  baseline is the manifest of the last `mark_synced`, and `MarkInv` says that a
  call that has come there sent a manifest all of whose chunks some server
  holds: a commit that was accepted tested them, and no store loses a chunk.
- `ForgottenOnceSynced`: `Spec => ForgottenWasPublished` when no commit is
  applied late. `RemoveInv` (a call removes, and forgets, only with its row
  synced) turns `SyncedWasPublished` into the action property.
- `NeverTorn`: `Spec => []NoTornPublication` when `FineStamps`, that is when no
  two writes carry the same mtime. `StampInv` follows the two stats around a
  chunking: the mtime of the file never goes back and is passed by any write, so
  as long as the stat is the one taken first, what was read is a prefix of the
  file, and after the second stat all of it. `PastInv` carries it on to whatever
  may still reach a server: the manifest of a chunked row, which a later call
  resumes with, and the commits on the wire. Late commits are allowed.
- `DistinctStampsSuffice`: under the same assumption `Spec => []NoFalseNegative`
  for every `Guard`, `Tick` and `ReadTime`: `KeyInv` says of the stat in the row
  what `StampInv` says of the one in the call. The guard window is there for
  coarse stamps only, and this is the case the assumption of `NoFalseNegatives`
  leaves out.
- `DistinctStampsMirrored`: `Spec => []UnchangedIsMirrored` under `FineStamps`
  and without late commits, the constants of the run `failover`.
- `RemovableAlwaysMirrored`: `Spec => []RemovableIsMirrored` under the same two:
  a source that still has the stat of its row when it is about to be removed is
  on a server. What a removal can lose is what was written since the last stat,
  which the code does not take again: a content saved during the upload is
  removed with the file.

In `TransferMirrorProofs`, `MirrorImplemented`: `Spec => ImplementsMirror`, that
is `Spec => M!Spec`, under `FineStamps` and without late commits. The invariant
is that of `NeverTorn` with that of `SyncedAlwaysPublished`. Writes are writes
of `Mirror`; a commit, answered or not, gives one server a version the file had
(`PastInv`); `mark_synced` calls synced what a server holds (`CommitInv`); the
steps that leave the state synced forget; all else stutters.
`StoresUsedAsPromised`: `Spec => ServersAreStores` under `FineStamps`, late
commits included: to each server a put that matches is a `Keep`, an accepted
commit a `Publish` of contents the file had (`TornInv`), all else a stutter.
`StoreImplemented` below proves of the real server, with its threads and files,
that it is a `ChunkStore`: the two halves of the protocol meet there.

The parts of these invariants are definitions of `SingleFileTransfer`.

The theorems of `EndpointsProofs` hold for any number of endpoints and threads,
any threshold and any interval. A thread changes only its own locals, so the
invariant is `JobInv`, a predicate of the locals of one thread and of `up`, and
one lemma (`LocalsInv`) lifts it to all of them.

- `TypeCorrect`, `EachTriedOnce`: the endpoint that is claimed, probed or picked
  has not been tried by this call.
- `RefusedOnlyWhenDown`: `Spec => []ServedWhenUp`. `SteadyInv` follows an
  endpoint that has been up since the call began: it is not among those tried
  without an answer, a first scan probes it only if it takes it, and a last
  resort has not passed it. A call that ends its last resort has none left. One
  that has tried as many endpoints as there are has tried them all (`AllTried`,
  by counting), and each of them failed it.
- `ClaimsAreSpaced`: `Spec => ClaimsSpaced`, for any lag up to the interval.
  `AgeInv`: while no claim holds the lock, `last_probe` is older than the last
  claim by at most `Lag`, because a claim stores a reading of its own and every
  later store, of whichever thread, is of a reading no older than `Lag`. A claim
  that finds the interval elapsed is therefore at least the interval less the
  lag after the one before. Without a bound on the lag nothing of the kind holds
  of the code.

The theorems of `SyncServerProofs` hold for any number of threads, chunks and
paths and any manifests over them. The invariant `IInv` has two parts. Of the
store: a chunk file is absent or right (`StoreSound`) and a row's chunks are
there (`ReferencesHeld`). Of each thread, `JobInv`: a body under way has its
digest and a temporary file about to be renamed is complete (`PutInv`); a thread
between its test and its write holds the lock (`LockInv`); every hash of a
commit is there, missing, or not looked up yet (`CheckInv`), which holds because
chunks never go away, not because of the lock; a download follows a list that
was whole when it was read (`StreamInv`). Steps of other threads leave a
thread's part alone as long as chunks stay (`OtherJob`), and a crash sets every
thread back to idle.

- `TypeCorrect`, `StoreAlwaysSound` and `DownloadsAreWhole`
  (`Spec => []ServedWhole`) follow from `IInv`.
- `StoreImplemented`: `Spec => ImplementsStore`, that is `Spec => S!Spec` with
  the chunks whose file is right for `held`. `PutReplace` keeps a chunk,
  `CommitWrite` publishes (`CommitChecked`: nothing missing, so all there),
  `DeleteWrite` retracts or changes nothing (`Tombstoned`), all else stutters.

The theorems about `RunOnce` hold for any tree of directories that satisfies
`TreeAssumption`, any roots from one start to the next, any watched paths and
any number of edits and faults.

In `RunOnceProofs`:

- `TypeCorrect`: `Spec => []TypeOK`. Inductive with `HereInv`: a change that is
  handled has a path, from the commit on it has a row, a sync of the walk is of
  a path already seen, and a retraction comes from the sweep or from `check`.
- `OnlyRemovedAreRetracted`: `Spec => []OnlyRemovedIsRetracted` when no
  directory can be listed without being searchable and no crash falls between
  `os.remove` and `forget`; the runs `scan_error` and `removal_crash` show that
  both are needed. A path that was removed and made again behind the walk counts
  as removed: it may be retracted while it is there, as in the code, and
  `Propagates` says that its content is sent again. `RowInv`: a path with a row
  is there, or was removed by a user, or is the one just removed by the client.
  `WalkInv`: as long as the walk lasts, and during every upload it stops at, a
  path with a row that no user removed since the pass began is seen, or ahead
  (an entry, or below a directory that waits), or below a directory that could
  not be read. `SweepInv`: of the rows still to sweep nothing is ahead any more,
  so a path that was not seen was removed or is below an unreadable directory,
  which is the test of the sweep. A step of the walk moves a path from ahead to
  seen or unread (`Accounted`); an upload leaves all of it alone
  (`HandlingKeeps`).
- `LiveAlwaysHasRow`: `Spec => []LiveHasRow` with one server. The row is saved
  before the commit is sent, and `RetractedInv` says that it is dropped after a
  server has taken the retraction. With two servers the property fails: the
  retraction reaches one of them.

In `PassProofs`, `PassedOverIsCopied`: `Spec => []UnchangedIsCopied` for any
number of servers, under the assumptions of `OnlyRemovedAreRetracted` and when
what left the tree does not come back with its old stat (`~MovesBack`; the run
`lost_retraction` shows what happens when it does). A row of a commit that was
not served is not synced (`SyncMarkInv`), so the danger is in retractions: one
that the server has taken, and whose row is still there because its answer was
lost, must not be of a file the kernel would pass over. `StaleInv` says so, and
of every removed path the walk has yet to see as well, since the sweep will
choose among those; it needs `SweepInv` for what the sweep chooses, and
`VersionInv` (no row is of a version yet to be written), by which a file that is
made anew under a removed name never matches the row that stayed behind. The
properties of a transfer seen from inside are those of `UnchangedIsMirrored`;
here whole passes, retractions and restarts are in play. `TakenStaysCopied`:
`Spec => []TakenKeepsCopy` with no other assumption than `~RemovalCrashes`,
directories that are not searchable, old stats and several servers included.
`RemoveInv`: a source is removed only when a server has published it. After that
nothing retracts it: by `RowInv` a path the client removed has no row once it is
forgotten, and by `RetireInv` whatever is retracted, or still to be swept, has
one.

The theorems of `StatsSamplerProofs` hold for any containers, any number of
stops and a pipe of any length, from one invariant, `IInv`.

- `TypesHold`, `NoLateSample` (`FlagInv`: once the main thread has gone on, the
  flag is up and no recording is left), `ProcessReaped` (`ReapInv`: past
  `terminate`, the process that `stop()` saw has ended, or the thread stored
  another one meanwhile).
- `SeriesAgrees`: `Spec => []RatesAgree`, from `FoldInv`: the total is what was
  banked at the resets and the last reading, and the rates follow it. A growth
  between two samples whose times do not increase gives no rate (the test
  `dt > 0`), so the two views are equal only in a run that saw each growth at a
  later time and no reset; the rates never exceed the total.
- `NothingCountedTwice`: `Spec => []TotalsBounded`. A row lies in the pipe while
  its container goes on, is stopped and starts from zero, so the invariant dates
  every row: `DatedInv` says that there are readings of the counters - a value,
  what the container had used by then in all its lives, how often one had been
  stopped - for the last row folded and for the rows still to be folded, each
  later than those before it and all before today. `Later` compares two readings
  of one life, or of two; the fold of a later reading adds at most what was used
  in between, and labels a restart only where there was a stop.

Left to TLC: the liveness properties `Converges`, `CallsReturn`, `FailsBack`,
`RequestsEnd`, `Answered`, `Propagates`, `Retracts`, `StopReturns` and
`Resumes`, since liveness under fairness is out of reach of the prover. Every
safety invariant and every action property that a passing run checks is a
theorem.

## 5. What is not modelled

- In the transfer, a clock that steps backwards, `utime`, and renames that bring
  an old mtime with them: the code declares forged times out of scope, and the
  model stamps every write with the clock.
- Equality of digests of different chunks; compression; the layout of chunks
  (FastCDC is a function of the content, which the model represents by the
  sequence of chunks).
- The gap between `getsize()` and the mapping of the file in `chunk_manifest`,
  in which a file that becomes empty raises ValueError; a path replaced by a
  directory or a symbolic link between scan and call.
- Reading a mapping beyond the end of a file that shrank is a crash of the
  client (`MapFault`), as the signal is on Linux.
- In `Endpoints`: `wait_healthy`, which only delays the start; a server that
  answers requests but not its status path; a thread suspended for more than
  `Lag` between reading the clock and storing it in `last_probe`; and the rule
  that the main thread prefers an endpoint for every file when it believes one
  healthy, which the model allows it to skip.
- In `SyncServer`: requests refused before they touch any state (400, 401, 404),
  the API key, `health` and `stats`, which read and change nothing; errors of
  SQLite such as a busy database, whose one writer is this process; the removal
  of chunks, which the server never does.
- In `RunOnce`: the random poll interval, a delay without effect; the order in
  which `scandir` and the stack give their entries (any order); `scandir`
  listing lazily, which is a snapshot here; symbolic links, which the walk
  skips; the inside of a sync and of an endpoint's choice, which are other
  modules.
- In `StatsSampler`: `Popen` itself raising, which ends the thread; what a
  container used before the first sample, which `_aggregate` counts in; a
  restart whose counter is past the previous sample when it is seen, which no
  reader of the counters can tell; the settling sleeps, peaks, means and the
  report.
- `render_writeup.py`, whose loop does not end on a line that starts like a
  block and is none (listed as a hazard): a document tool outside the running
  system.
- Authentication, HTTP encodings, traffic mimicry, the nginx proxy, and the
  other scripts under `evidence/`, `figures/`, `scenarios/` and `tools/`: they
  keep no state of the running system and have no operation a property could be
  about.

## 6. Plan

The transfer came first, being where content can be lost, then the endpoints,
the server, the passes and the sampler. Every component with state is modelled,
and every safety property of the runs is proved. What could still be proved:

1. `SingleFileTransfer` with coarse stamps: that a mix published in the tick of
   its first stat is replaced, as far as it is a safety property
   (`UnchangedAlwaysMirrored` has the part about the quick check).
2. `RunOnce` with several servers: which of them a live copy without a row can
   be on, in place of `LiveHasRow`.
3. The part of `CallsReturn` that is safety: the rounds of a call never exceed
   `MaxRounds`, and each of them has fewer chunks to send or another server.
