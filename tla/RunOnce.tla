------------------------------ MODULE RunOnce -------------------------------
(***************************************************************************)
(* The passes of the client over its roots: scan() of change_detection.py, *)
(* the generator that run_once() of transport.py draws changes from, what  *)
(* run_once() does with each of them, and the loop around it.              *)
(*                                                                         *)
(* The walk stops at every change until that path is synced, so whole      *)
(* uploads come between two looks at the tree, and the sweep at the end    *)
(* sets the rows of the database against what the walk saw on its way.     *)
(* A pass may also draw its changes from check(), the counterpart of       *)
(* scan() for paths a watcher of the file system names.                    *)
(*                                                                         *)
(* SingleFileTransfer has the inside of sync_file(); here it is what       *)
(* run_once() can tell: chunked, committed, marked, deferred or raised.    *)
(***************************************************************************)
EXTENDS Naturals, FiniteSets

CONSTANTS
  Path, Dir,      \* the files and the directories that can be in the tree
  Parent,         \* Parent[x]: the directory x is an entry of, or None
  Above,          \* Above[x]: every directory x is strictly inside
  RootSets,       \* the values SYNC_ROOTS takes from one start to the next
  Server,
  None,
  Taken,          \* no file, because the client removed it after its sync
  Tombstone,      \* a row of the server with deleted = 1
  Odd,            \* paths whose sync raises, for a reason of their own
  Watched,        \* paths a watcher reports; {} as the client is shipped
  Modes,          \* what the permissions of a directory can become
  MovesBack,      \* TRUE: what left the tree may come back with its stat
  RemovalCrashes, \* TRUE: a crash may come between os.remove and forget
  MaxEdits, MaxFaults     \* bounds on the changes of the tree, the faults

\* Files are in directories, and what is above x is its directory and what is
\* above that; on the way down from there, each step leads to an entry.
ASSUME TreeAssumption ==
  /\ Path \cap Dir = {}
  /\ Parent \in [Path \cup Dir -> Dir \cup {None}] /\ None \notin Dir
  /\ \A p \in Path : Parent[p] \in Dir
  /\ Above \in [Path \cup Dir -> SUBSET Dir]
  /\ \A x \in Path \cup Dir : Parent[x] # None =>
       Above[x] = Above[Parent[x]] \cup {Parent[x]}
  /\ \A x \in Path \cup Dir : \A d \in Above[x] : Above[d] \subseteq Above[x]
  /\ \A x \in Path \cup Dir : \A d \in Above[x] :
       Parent[x] = d \/ \E e \in Above[x] : Parent[e] = d
  /\ RootSets \subseteq SUBSET Dir
ASSUME OddAssumption == Odd \subseteq Path
ASSUME WatchedAssumption == Watched \subseteq Path
ASSUME ModesAssumption == Modes \subseteq {"ok", "noread", "nosearch"}
ASSUME BoundAssumption == MaxEdits \in Nat /\ MaxFaults \in Nat

VARIABLES
  disk,         \* disk[p]: version of the file (its stat), None or Taken
  dir,          \* dir[d]: "ok", "noread", "nosearch" or "gone"
  lost,         \* history: paths the users removed, at the pass's start or since
  row,          \* row[p]: the client's record of the path, or None
  scan,         \* the pass under way, and the locals of its generator
  roots, deleteAfter,     \* SYNC_ROOTS, SYNC_DELETE_AFTER
  published,    \* published[s][p]: version, Tombstone or None
  up,           \* the servers that answer
  edits, faults

vars == <<disk, dir, lost, row, scan, roots, deleteAfter, published, up, edits, faults>>
treeVars == <<disk, dir, lost, edits>>
configVars == <<roots, deleteAfter>>
serverVars == <<published, up>>

Version == 0..MaxEdits
Record == [state : {"dirty", "chunked", "synced"}, ver : Version]
ASSUME ValueAssumption ==
  /\ None \notin Record /\ None \notin Path /\ None # Taken
  /\ \A v \in {None, Taken, Tombstone} : v \notin Nat

Scan ==
  [ pc : {"idle", "dead", "pop", "entry", "sweep", "check", "sync", "commit",
          "mark", "remove", "removed", "retract", "forget"},
    stack : SUBSET Dir,         \* directories still to be opened
    entries : SUBSET (Path \cup Dir),   \* of the open directory, or reported
    seen : SUBSET Path,
    unreadable : SUBSET Dir,
    sweep : SUBSET Path,        \* rows the sweep has yet to look at
    path : Path \cup {None},    \* the change run_once() is at
    back : {"entry", "sweep", "check"} ] \* where the generator goes on

TypeOK ==
  /\ disk \in [Path -> Version \cup {None, Taken}]
  /\ dir \in [Dir -> {"ok", "noread", "nosearch", "gone"}]
  /\ lost \subseteq Path
  /\ row \in [Path -> Record \cup {None}]
  /\ scan \in Scan
  /\ roots \in RootSets
  /\ deleteAfter \in BOOLEAN
  /\ published \in [Server -> [Path -> Version \cup {Tombstone, None}]]
  /\ up \subseteq Server
  /\ edits \in 0..MaxEdits /\ faults \in 0..MaxFaults

-----------------------------------------------------------------------------
Contains(d, x) == d \in Above[x]
DirThere(d) == \A e \in Above[d] \cup {d} : dir[e] # "gone"
Reachable(x) == \A d \in Above[x] : dir[d] = "ok" \/ dir[d] = "noread"
Exists(p) == disk[p] \in Version /\ DirThere(Parent[p])
RemovedByUser(p) == ~Exists(p) /\ (disk[p] # Taken \/ ~DirThere(Parent[p]))

Readable(d) == dir[d] # "noread" /\ Reachable(d)
CanStat(p) == Exists(p) /\ Reachable(p)
\* What stops the lookup is that something is not there.
NotFound(p) ==
  /\ ~Exists(p)
  /\ \A d \in Above[p] : dir[d] = "nosearch" => ~DirThere(d)

Fault == faults < MaxFaults /\ faults' = faults + 1

Rest(pc) ==
  [ pc |-> pc, stack |-> {}, entries |-> {}, seen |-> {}, unreadable |-> {},
    sweep |-> {}, path |-> None, back |-> "entry" ]

\* run_once() is done with a change and draws the next one.
NextChange == scan' = [scan EXCEPT !.pc = scan.back, !.path = None]
EndPass == scan' = Rest("idle")
Goto(pc) == scan' = [scan EXCEPT !.pc = pc]
Here == scan.path

Init ==
  /\ disk \in [Path -> {0, None}]
  /\ dir = [d \in Dir |-> "ok"]
  /\ lost = {}
  /\ row = [p \in Path |-> None]
  /\ scan = Rest("dead")
  /\ roots \in RootSets
  /\ deleteAfter \in BOOLEAN
  /\ published = [s \in Server |-> [p \in Path |-> None]]
  /\ up = Server
  /\ edits = 0
  /\ faults = 0

-----------------------------------------------------------------------------
(* The users of the tree, and the servers.                                 *)

Edit ==
  /\ edits < MaxEdits
  /\ edits' = edits + 1
  /\ UNCHANGED <<row, scan, configVars, serverVars, faults>>

Write(p) ==
  /\ DirThere(Parent[p])
  /\ Edit
  /\ disk' = [disk EXCEPT ![p] = edits + 1]
  /\ UNCHANGED <<dir, lost>>

Remove(p) ==
  /\ Exists(p)
  /\ Edit
  /\ disk' = [disk EXCEPT ![p] = None]
  /\ lost' = lost \cup {p}
  /\ UNCHANGED dir

Chmod(d, mode) ==
  /\ DirThere(d) /\ dir[d] # mode
  /\ Edit
  /\ dir' = [dir EXCEPT ![d] = mode]
  /\ UNCHANGED <<disk, lost>>

\* A directory is moved out of the tree with all it holds, ...
MoveAway(d) ==
  /\ DirThere(d)
  /\ Edit
  /\ dir' = [dir EXCEPT ![d] = "gone"]
  /\ lost' = lost \cup {p \in Path : Contains(d, p)}
  /\ UNCHANGED disk

\* ... and moved back, or another one is made in its place.
Replace(d) ==
  /\ dir[d] = "gone" /\ \A e \in Above[d] : dir[e] # "gone"
  /\ Edit
  /\ IF MovesBack
     THEN dir' = [dir EXCEPT ![d] = "ok"] /\ UNCHANGED disk
     ELSE /\ dir' = [e \in Dir |-> IF e = d THEN "ok"
                                  ELSE IF Contains(d, e) THEN "gone" ELSE dir[e]]
          /\ disk' = [p \in Path |-> IF Contains(d, p) THEN None ELSE disk[p]]
  /\ UNCHANGED lost

ServerDown(s) ==
  /\ s \in up
  /\ Fault
  /\ up' = up \ {s}
  /\ UNCHANGED <<treeVars, row, scan, configVars, published>>

ServerUp(s) ==
  /\ s \notin up
  /\ up' = up \cup {s}
  /\ UNCHANGED <<treeVars, row, scan, configVars, published, faults>>

-----------------------------------------------------------------------------
(* The loop of __main__.                                                   *)

\* Locals are lost; the rows and the servers' copies are not.
Crash ==
  /\ scan.pc # "dead"
  /\ scan.pc = "removed" => RemovalCrashes
  /\ Fault
  /\ scan' = Rest("dead")
  /\ UNCHANGED <<treeVars, row, configVars, serverVars>>

\* It gives up, and the process ends, unless some server answers.
WaitHealthy == up # {}

Start(rs) ==
  /\ scan.pc = "dead"
  /\ WaitHealthy
  /\ roots' = rs
  /\ scan' = Rest("idle")
  /\ UNCHANGED <<treeVars, row, deleteAfter, serverVars, faults>>

PassBegin ==
  /\ scan.pc = "idle"
  /\ scan' = [Rest("pop") EXCEPT !.stack = roots]
  /\ lost' = {p \in Path : RemovedByUser(p)}
  /\ UNCHANGED <<disk, dir, edits, row, configVars, serverVars, faults>>

-----------------------------------------------------------------------------
(* The walk of scan().                                                     *)

Walking == UNCHANGED <<treeVars, row, configVars, serverVars, faults>>

OpenDir(d) ==
  LET popped == [scan EXCEPT !.stack = @ \ {d}] IN
  /\ scan.pc = "pop" /\ d \in scan.stack
  /\ scan' =
       IF ~DirThere(d) THEN popped
       ELSE IF ~Readable(d)
       THEN [popped EXCEPT !.unreadable = @ \cup {d}]
       ELSE [popped EXCEPT !.pc = "entry",
               !.entries = {x \in Path \cup Dir :
                 Parent[x] = d /\ IF x \in Dir THEN dir[x] # "gone"
                                  ELSE disk[x] \in Version}]
  /\ Walking

\* scandir() raises something else, outside the try of run_once().
OpenDirRaises ==
  /\ scan.pc = "pop" /\ scan.stack # {}
  /\ Fault
  /\ scan' = Rest("dead")
  /\ UNCHANGED <<treeVars, row, configVars, serverVars>>

\* The entry says by itself that it is a directory.
WalkDir(d) ==
  /\ scan.pc = "entry" /\ d \in scan.entries \cap Dir
  /\ scan' = [scan EXCEPT !.entries = @ \ {d}, !.stack = @ \cup {d}]
  /\ Walking

\* Its stat raises: gone since, or not to be looked at.
WalkSkip(p) ==
  /\ scan.pc = "entry" /\ p \in scan.entries \cap Path
  /\ ~CanStat(p)
  /\ scan' = [scan EXCEPT !.entries = @ \ {p}]
  /\ Walking

Unchanged(p) == row[p] = [state |-> "synced", ver |-> disk[p]]

\* A file within its guard window is yielded too, though unchanged.
WalkFile(p) ==
  LET saw == [scan EXCEPT !.entries = @ \ {p}, !.seen = @ \cup {p}] IN
  /\ scan.pc = "entry" /\ p \in scan.entries \cap Path
  /\ CanStat(p)
  /\ \/ scan' = [saw EXCEPT !.pc = "sync", !.path = p, !.back = "entry"]
     \/ Unchanged(p) /\ scan' = saw
  /\ Walking

WalkUp ==
  /\ scan.pc = "entry" /\ scan.entries = {}
  /\ Goto("pop")
  /\ Walking

AllPaths == {p \in Path : row[p] # None}

\* Mutant of SweepBegin: only rows in state synced are looked at.
SweepBeginSynced ==
  /\ scan.pc = "pop" /\ scan.stack = {}
  /\ scan' = [scan EXCEPT !.pc = "sweep",
       !.sweep = {p \in AllPaths : row[p].state = "synced"}]
  /\ Walking

\* all_paths() is read once, when the walk is over.
SweepBegin ==
  /\ scan.pc = "pop" /\ scan.stack = {}
  /\ scan' = [scan EXCEPT !.pc = "sweep", !.sweep = AllPaths]
  /\ Walking

InRoots(p) == \E d \in roots : Contains(d, p)
Swept(p) == [scan EXCEPT !.sweep = @ \ {p}]
Retracting(s, p) == [s EXCEPT !.pc = "retract", !.path = p, !.back = scan.pc]

\* Mutant of SweepPath: unreadable directories are taken for empty ones.
SweepPathUnreadable(p) ==
  /\ scan.pc = "sweep" /\ p \in scan.sweep
  /\ scan' =
       IF /\ p \notin scan.seen
          /\ InRoots(p)
       THEN Retracting(Swept(p), p) ELSE Swept(p)
  /\ Walking

SweepPath(p) ==
  /\ scan.pc = "sweep" /\ p \in scan.sweep
  /\ scan' =
       IF /\ p \notin scan.seen
          /\ InRoots(p)
          /\ \A d \in scan.unreadable : ~Contains(d, p)
       THEN Retracting(Swept(p), p) ELSE Swept(p)
  /\ Walking

-----------------------------------------------------------------------------
(* check(), over the paths a watcher reports.                              *)

CheckBegin(paths) ==
  /\ scan.pc = "idle" /\ paths # {}
  /\ scan' = [Rest("check") EXCEPT !.entries = paths]
  /\ lost' = {p \in Path : RemovedByUser(p)}
  /\ UNCHANGED <<disk, dir, edits, row, configVars, serverVars, faults>>

\* Outside the roots, unchanged, or not to be looked at.
CheckSkip(p) ==
  /\ scan.pc = "check" /\ p \in scan.entries
  /\ \/ ~InRoots(p)
     \/ NotFound(p) /\ row[p] = None
     \/ ~NotFound(p) /\ ~CanStat(p)
     \/ CanStat(p) /\ Unchanged(p)
  /\ scan' = [scan EXCEPT !.entries = @ \ {p}]
  /\ Walking

CheckDeleted(p) ==
  /\ scan.pc = "check" /\ p \in scan.entries
  /\ InRoots(p) /\ NotFound(p)
  /\ row[p] # None
  /\ scan' = Retracting([scan EXCEPT !.entries = @ \ {p}], p)
  /\ Walking

CheckFile(p) ==
  /\ scan.pc = "check" /\ p \in scan.entries
  /\ InRoots(p) /\ CanStat(p)
  /\ scan' = [scan EXCEPT !.entries = @ \ {p}, !.pc = "sync", !.path = p,
                          !.back = "check"]
  /\ Walking

PassEnd ==
  /\ \/ scan.pc = "sweep" /\ scan.sweep = {}
     \/ scan.pc = "check" /\ scan.entries = {}
  /\ EndPass
  /\ Walking

-----------------------------------------------------------------------------
(* A path that changed: sync_file().                                       *)

\* Mutant of MarkDirty: a path without a row gets one.
MarkDirtyInserts(p) ==
  row' = [row EXCEPT ![p] =
           [state |-> "dirty", ver |-> IF row[p] = None THEN None ELSE row[p].ver]]

\* UPDATE: a path without a row stays without one.
MarkDirty(p) ==
  row' = IF row[p] = None THEN row ELSE [row EXCEPT ![p].state = "dirty"]

SyncVanished ==
  /\ scan.pc \in {"sync", "remove"} /\ ~Exists(Here)
  /\ MarkDirty(Here)
  /\ NextChange
  /\ UNCHANGED <<treeVars, configVars, serverVars, faults>>

\* Mutant of SyncRaises: what is wrong with one path ends the pass.
SyncRaisesOut ==
  /\ scan.pc = "sync" /\ Exists(Here)
  /\ Here \in Odd \/ ~CanStat(Here)
  /\ EndPass
  /\ Walking

\* Logged by run_once(), which goes on with the rest of the pass.
SyncRaises ==
  /\ scan.pc = "sync" /\ Exists(Here)
  /\ Here \in Odd \/ ~CanStat(Here)
  /\ NextChange
  /\ Walking

SyncChunked ==
  /\ scan.pc = "sync" /\ CanStat(Here)
  /\ Here \notin Odd
  /\ row' = [row EXCEPT ![Here] = [state |-> "chunked", ver |-> disk[Here]]]
  /\ Goto("commit")
  /\ UNCHANGED <<treeVars, configVars, serverVars, faults>>

\* Torn while it was read, a chunk rejected, or the file gone: the path is done
\* next pass.
SyncAbandoned ==
  /\ scan.pc = "commit"
  /\ disk[Here] # row[Here].ver \/ ~Exists(Here)
  /\ MarkDirty(Here)
  /\ NextChange
  /\ UNCHANGED <<treeVars, configVars, serverVars, faults>>

Publish(s) ==
  published' = [published EXCEPT ![s][Here] = row[Here].ver]

\* The preferred endpoint is a random one, and any that answers may serve.
SyncCommitted(s) ==
  /\ scan.pc = "commit" /\ s \in up
  /\ Publish(s)
  /\ Goto("mark")
  /\ UNCHANGED <<treeVars, row, configVars, up, faults>>

SyncMarked ==
  /\ scan.pc = "mark"
  /\ row' = [row EXCEPT ![Here].state = "synced"]
  /\ IF deleteAfter THEN Goto("remove") ELSE NextChange
  /\ UNCHANGED <<treeVars, configVars, serverVars, faults>>

SourceRemoved ==
  /\ scan.pc = "remove" /\ Exists(Here)
  /\ disk' = [disk EXCEPT ![Here] = Taken]
  /\ Goto("removed")
  /\ UNCHANGED <<dir, lost, edits, row, configVars, serverVars, faults>>

-----------------------------------------------------------------------------
(* A path that is gone: delete_file(), then forget().                      *)

\* UPDATE on the server: a path it has no manifest of stays without one.
Retract(s) ==
  published' = [published EXCEPT ![s][Here] = IF @ = None THEN @ ELSE Tombstone]

RetractServed(s) ==
  /\ scan.pc = "retract" /\ s \in up
  /\ Retract(s)
  /\ Goto("forget")
  /\ UNCHANGED <<treeVars, row, configVars, up, faults>>

\* Mutant of Forget: the row of a file the client removed is left as it is.
ForgetRetracted ==
  /\ scan.pc \in {"removed", "forget"}
  /\ row' = IF scan.pc = "forget" THEN [row EXCEPT ![Here] = None] ELSE row
  /\ NextChange
  /\ UNCHANGED <<treeVars, configVars, serverVars, faults>>

Forget ==
  /\ scan.pc \in {"removed", "forget"}
  /\ row' = [row EXCEPT ![Here] = None]
  /\ NextChange
  /\ UNCHANGED <<treeVars, configVars, serverVars, faults>>

-----------------------------------------------------------------------------
(* Requests that fail.                                                     *)

Requesting == scan.pc \in {"commit", "retract"}

\* Mutant of Offline: the row of a path to retract is dropped all the same.
OfflineForgets ==
  /\ Requesting
  /\ up = {}
  /\ EndPass
  /\ row' = IF scan.pc = "retract" THEN [row EXCEPT ![Here] = None] ELSE row
  /\ UNCHANGED <<treeVars, configVars, serverVars, faults>>

\* ConnectionError ends the pass: no server answers ...
Offline ==
  /\ Requesting
  /\ up = {}
  /\ EndPass
  /\ Walking

\* ... or the last one took the request and its answer is lost.
AnswerLost(s) ==
  /\ Requesting /\ s \in up
  /\ Fault
  /\ IF scan.pc = "commit" THEN Publish(s) ELSE Retract(s)
  /\ EndPass
  /\ UNCHANGED <<treeVars, row, configVars, up>>

\* Mutant of Refused: the error of the commit is logged, and the row marked.
RefusedMarks ==
  /\ Requesting
  /\ Fault
  /\ row' = IF scan.pc = "commit" THEN [row EXCEPT ![Here].state = "synced"] ELSE row
  /\ NextChange
  /\ UNCHANGED <<treeVars, configVars, serverVars>>

\* Any other error, like a request the server refuses, is logged.
Refused ==
  /\ Requesting
  /\ Fault
  /\ NextChange
  /\ UNCHANGED <<treeVars, row, configVars, serverVars>>

-----------------------------------------------------------------------------
Environment ==
  \/ \E p \in Path : Write(p) \/ Remove(p)
  \/ \E d \in Dir : MoveAway(d) \/ Replace(d)
  \/ \E d \in Dir, mode \in Modes : Chmod(d, mode)
  \/ \E s \in Server : ServerDown(s) \/ AnswerLost(s)
  \/ \E paths \in SUBSET Watched : CheckBegin(paths)
  \/ Crash \/ OpenDirRaises \/ Refused

Client ==
  \/ PassBegin \/ PassEnd
  \/ \E d \in Dir : OpenDir(d) \/ WalkDir(d)
  \/ \E p \in Path : WalkSkip(p) \/ WalkFile(p) \/ SweepPath(p)
  \/ WalkUp \/ SweepBegin
  \/ \E p \in Path : CheckSkip(p) \/ CheckDeleted(p) \/ CheckFile(p)
  \/ SyncVanished \/ SyncRaises \/ SyncChunked \/ SyncAbandoned
  \/ \E s \in Server : SyncCommitted(s) \/ RetractServed(s)
  \/ SyncMarked \/ SourceRemoved \/ Forget \/ Offline

Restart == \E rs \in RootSets : Start(rs)

Next == Environment \/ Client \/ Restart \/ \E s \in Server : ServerUp(s)

Spec == Init /\ [][Next]_vars

(***************************************************************************)
(* The client's process runs, somebody starts it again when it has died,   *)
(* and servers come back.  Scans are never put off for ever by reports of  *)
(* a watcher.  Nothing is assumed of the users of the tree.                *)
(***************************************************************************)
FairSpec ==
  /\ Spec
  /\ WF_vars(Client) /\ SF_vars(PassBegin) /\ WF_vars(Restart)
  /\ \A s \in Server : WF_vars(ServerUp(s))

-----------------------------------------------------------------------------
(* Properties.                                                             *)

\* A deletion is reported to a server only of a path that a user removed, before
\* the pass or during it: an error of the walk, a failed or raising sync of the
\* path, and a restart make the client retract nothing that stayed in the tree.
\* A path that was removed and made again behind the walk is retracted while it
\* is there; Propagates says that its content is sent again.
OnlyRemovedIsRetracted == scan.pc = "retract" => Here \in lost

\* A live copy on a server has a row that will retract it one day, through lost
\* answers and crashes between the request and the row.
LiveHasRow ==
  ~deleteAfter =>
    \A s \in Server, p \in Path : published[s][p] \in Version => row[p] # None

\* Of a file the client took off the disk after its sync, a server keeps a copy:
\* no later pass takes that for a removal by a user, and retracts it.
TakenKeepsCopy ==
  \A p \in Path : disk[p] = Taken =>
    \E s \in Server : published[s][p] \in Version

Copied(p) == \E s \in Server : published[s][p] = disk[p]

\* A file that scan() passes over as unchanged is on a server with what it holds,
\* though the request that retracts a path and the statement that forgets it are
\* apart, and so are what the walk saw and what the sweep makes of it.
UnchangedIsCopied == \A p \in Path : Exists(p) /\ Unchanged(p) => Copied(p)

\* When the tree stays as it is, each file that can be read ends on a server
\* with what it holds, whatever the sync of some other path raises.
Covered(p) ==
  /\ InRoots(p)
  /\ \A d \in Above[p] : dir[d] = "ok"
Propagates ==
  \A p \in Path \ Odd : <>[](Exists(p) /\ Covered(p) => Copied(p))

\* ... and a file that was removed from it does not stay live on a server.
Retracts ==
  \A p \in Path :
    <>[](~deleteAfter /\ disk[p] = None /\ Covered(p) =>
           \A s \in Server : published[s][p] \notin Version)

-----------------------------------------------------------------------------
(* The parts of the inductive invariants behind the safety properties.     *)

Syncing == {"sync", "commit", "mark", "remove", "removed"}
Retiring == {"retract", "forget"}

\* What run_once() knows of the change it is at, and where it came from.
HereInv ==
  /\ scan.pc \in Syncing \cup Retiring => Here \in Path
  /\ scan.pc \in Syncing \ {"sync"} => row[Here] # None
  /\ scan.pc \in {"remove", "removed"} => deleteAfter
  /\ scan.pc \in Syncing =>
       scan.back = "check" \/ (scan.back = "entry" /\ Here \in scan.seen)
  /\ scan.pc \in Retiring => scan.back \in {"sweep", "check"}
  /\ scan.pc = "pop" => scan.entries = {}

\* A row is forgotten when no server has the copy.
RetractedInv ==
  scan.pc = "forget" /\ ~deleteAfter =>
    \A s \in Server : published[s][Here] \notin Version

Searchable == \A d \in Dir : dir[d] # "nosearch"

\* A file that has a row, and that no user removed, is there, or the client is
\* about to forget it; one that the client took and forgot has no row.
RowInv ==
  \A p \in Path : row[p] # None /\ ~(scan.pc = "removed" /\ Here = p) =>
    disk[p] # Taken /\ (p \in lost \/ Exists(p))

\* The walk has still to come to x: it is an entry, or below a directory that is
\* one or waits to be opened.
Ahead(x) ==
  \/ x \in scan.entries
  \/ \E d \in Above[x] : d \in scan.stack \cup scan.entries
Unread(x) == \E d \in scan.unreadable : Contains(d, x)

\* A path with a row that was there since the pass began is accounted for, until
\* the walk is over ...
InWalk == scan.pc \in {"pop", "entry"} \/ (scan.pc \in Syncing /\ scan.back = "entry")
WalkInv ==
  InWalk => \A p \in Path \ (lost \cup scan.seen) :
              row[p] # None /\ InRoots(p) => Ahead(p) \/ Unread(p)

\* ... and during the sweep.
InSweep == scan.pc = "sweep" \/ (scan.pc \in Retiring /\ scan.back = "sweep")
SweepInv ==
  InSweep => \A p \in scan.sweep \ (lost \cup scan.seen) : InRoots(p) => Unread(p)

\* What the client retracts is not a file it would pass over; neither is, until
\* the walk comes to it, a path that was removed during the pass.
Recorded(p) == Exists(p) /\ row[p] # None /\ row[p].ver = disk[p]
StaleInv ==
  /\ scan.pc = "retract" => ~Recorded(Here)
  /\ InWalk \/ InSweep => \A p \in lost \ scan.seen : ~Recorded(p)

\* mark_synced() comes after a commit that some server took.
SyncMarkInv ==
  scan.pc = "mark" => \E s \in Server : published[s][Here] = row[Here].ver

\* What is retracted, and what the sweep has still to look at, has a row: the
\* client is not about to retract a path it forgot.
RetireInv ==
  /\ scan.pc \in Retiring => row[Here] # None
  /\ InSweep => \A p \in scan.sweep :
                  row[p] # None /\ (scan.pc \in Retiring => p # Here)

\* The client removes only what it has published.
RemoveInv ==
  scan.pc = "remove" => \E s \in Server : published[s][Here] \in Version

\* No record is of a version the file has yet to get.
VersionInv ==
  \A p \in Path : /\ disk[p] \in Version => disk[p] <= edits
                  /\ row[p] # None => row[p].ver <= edits
=============================================================================
