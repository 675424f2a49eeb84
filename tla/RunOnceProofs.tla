---------------------------- MODULE RunOnceProofs ----------------------------
(***************************************************************************)
(* Theorems about RunOnce, for any tree, any roots, any faults and any     *)
(* edits: what the client reports as deleted was removed by the users, and *)
(* what is live on the server has a row that will retract it.              *)
(***************************************************************************)
EXTENDS RunOnce, TLAPS

TypeInv == TypeOK /\ HereInv

-----------------------------------------------------------------------------
(* Lemmas about the operators.                                             *)

LEMMA RestFields ==
  ASSUME NEW pc \in {"idle", "dead", "pop", "check"}
  PROVE  /\ Rest(pc) \in Scan
         /\ Rest(pc).pc = pc /\ Rest(pc).stack = {} /\ Rest(pc).entries = {}
         /\ Rest(pc).seen = {} /\ Rest(pc).unreadable = {} /\ Rest(pc).back = "entry"
BY DEF Rest, Scan

\* The generator goes on where it was.
LEMMA NextChangeFields ==
  ASSUME TypeInv, scan.pc \in Syncing \cup Retiring, NextChange
  PROVE  /\ scan' \in Scan /\ HereInv' /\ scan'.pc = scan.back
         /\ scan'.pc \in {"entry", "sweep", "check"}
         /\ scan'.stack = scan.stack /\ scan'.entries = scan.entries
         /\ scan'.seen = scan.seen /\ scan'.unreadable = scan.unreadable
         /\ scan'.sweep = scan.sweep /\ scan'.back = scan.back
<1>1. /\ scan' \in Scan /\ scan'.pc = scan.back
      /\ scan'.stack = scan.stack /\ scan'.entries = scan.entries
      /\ scan'.seen = scan.seen /\ scan'.unreadable = scan.unreadable
      /\ scan'.sweep = scan.sweep /\ scan'.back = scan.back
      /\ scan.back \in {"entry", "sweep", "check"}
  BY DEF TypeInv, TypeOK, NextChange, Scan
<1>2. HereInv'
  BY <1>1 DEF HereInv, Here, Syncing, Retiring
<1> QED
  BY <1>1, <1>2

\* run_once() goes on with its change.
LEMMA GotoFields ==
  ASSUME TypeInv, NEW pc \in Syncing \cup Retiring \cup {"pop"}, Goto(pc)
  PROVE  /\ scan' \in Scan /\ scan'.pc = pc /\ scan'.path = scan.path
         /\ scan'.stack = scan.stack /\ scan'.entries = scan.entries
         /\ scan'.seen = scan.seen /\ scan'.unreadable = scan.unreadable
         /\ scan'.sweep = scan.sweep /\ scan'.back = scan.back
BY DEF TypeInv, TypeOK, Goto, Scan, Syncing, Retiring

LEMMA EndPassFields ==
  ASSUME EndPass
  PROVE  scan' \in Scan /\ HereInv' /\ scan'.pc = "idle"
BY RestFields DEF EndPass, HereInv, Here, Syncing, Retiring

LEMMA DeadFields ==
  ASSUME scan' = Rest("dead")
  PROVE  scan' \in Scan /\ HereInv' /\ scan'.pc = "dead"
BY RestFields DEF HereInv, Here, Syncing, Retiring

\* A path without a row stays without one, and no other.
LEMMA Dirtied ==
  ASSUME TypeOK, NEW p \in Path, MarkDirty(p)
  PROVE  /\ row' \in [Path -> Record \cup {None}]
         /\ \A q \in Path : row'[q] = None <=> row[q] = None
<1>1. CASE row[p] = None
  BY <1>1 DEF MarkDirty, TypeOK
<1>2. CASE row[p] # None
  <2> DEFINE rec == [row[p] EXCEPT !.state = "dirty"]
  <2>1. row[p] \in Record
    BY <1>2 DEF TypeOK
  <2>2. rec \in Record
    BY <2>1 DEF Record
  <2>3. row' = [row EXCEPT ![p] = rec]
    BY <1>2 DEF MarkDirty
  <2> HIDE DEF rec
  <2> QED
    BY <1>2, <2>2, <2>3, ValueAssumption DEF TypeOK
<1> QED
  BY <1>1, <1>2

LEMMA Marked ==
  ASSUME TypeOK, SyncMarked, Here \in Path, row[Here] # None
  PROVE  /\ row' \in [Path -> Record \cup {None}]
         /\ \A q \in Path : row'[q] = None <=> row[q] = None
<1> DEFINE rec == [row[Here] EXCEPT !.state = "synced"]
<1>1. row[Here] \in Record
  BY DEF TypeOK
<1>2. rec \in Record
  BY <1>1 DEF Record
<1>3. row' = [row EXCEPT ![Here] = rec]
  BY DEF SyncMarked
<1> HIDE DEF rec
<1> QED
  BY <1>2, <1>3, ValueAssumption DEF TypeOK

Copies == [Server -> [Path -> Version \cup {Tombstone, None}]]

LEMMA Published ==
  ASSUME TypeOK, NEW s \in Server, Here \in Path, row[Here] # None, Publish(s)
  PROVE  /\ published' \in Copies
         /\ \A t \in Server, p \in Path :
              p # Here => published'[t][p] = published[t][p]
<1> DEFINE copies == [published[s] EXCEPT ![Here] = row[Here].ver]
<1>1. row[Here].ver \in Version
  BY DEF TypeOK, Record
<1>2. copies \in [Path -> Version \cup {Tombstone, None}]
  BY <1>1 DEF TypeOK
<1>3. published' = [published EXCEPT ![s] = copies]
  BY DEF Publish
<1>4. \A p \in Path : p # Here => copies[p] = published[s][p]
  BY DEF TypeOK
<1> HIDE DEF copies
<1> QED
  BY <1>2, <1>3, <1>4 DEF TypeOK, Copies

LEMMA Retracted ==
  ASSUME TypeOK, NEW s \in Server, Here \in Path, Retract(s)
  PROVE  /\ published' \in Copies
         /\ published'[s][Here] \notin Version
         /\ \A t \in Server, p \in Path :
              published'[t][p] \in Version => published[t][p] \in Version
<1> DEFINE copies == [published[s] EXCEPT ![Here] = IF @ = None THEN @ ELSE Tombstone]
<1>1. copies \in [Path -> Version \cup {Tombstone, None}]
  BY DEF TypeOK
<1>2. published' = [published EXCEPT ![s] = copies]
  BY DEF Retract
<1>3. None \notin Version /\ Tombstone \notin Version
  BY ValueAssumption, BoundAssumption DEF Version
<1>4. copies[Here] \notin Version
  BY <1>3 DEF TypeOK
<1>5. \A p \in Path : copies[p] \in Version => published[s][p] \in Version
  BY <1>3 DEF TypeOK
<1> HIDE DEF copies
<1> QED
  BY <1>1, <1>2, <1>4, <1>5 DEF TypeOK, Copies

-----------------------------------------------------------------------------
(* The types, and the change run_once() is at.                             *)

\* A step that leaves the client's process alone.
LEMMA TypeUsers ==
  ASSUME TypeInv,
         \/ \E p \in Path : Write(p) \/ Remove(p)
         \/ \E d \in Dir : MoveAway(d) \/ Replace(d)
         \/ \E d \in Dir, mode \in Modes : Chmod(d, mode)
  PROVE  TypeInv' /\ UNCHANGED <<row, scan, configVars, serverVars>>
<1>1. edits < MaxEdits /\ edits' = edits + 1
      /\ UNCHANGED <<row, scan, configVars, serverVars, faults>>
  BY DEF Write, Remove, MoveAway, Replace, Chmod, Edit
<1>2. edits' \in 0..MaxEdits /\ edits + 1 \in Version
  BY <1>1, BoundAssumption DEF TypeInv, TypeOK, Version
<1>3. /\ disk' \in [Path -> Version \cup {None, Taken}]
      /\ dir' \in [Dir -> {"ok", "noread", "nosearch", "gone"}]
      /\ lost' \subseteq Path
  <2> USE DEF TypeInv, TypeOK
  <2>1. ASSUME NEW p \in Path, Write(p) \/ Remove(p)
        PROVE  <1>3!:
    BY <1>2, <2>1 DEF Write, Remove
  <2>2. ASSUME NEW d \in Dir, MoveAway(d)
        PROVE  <1>3!:
    BY <2>2 DEF MoveAway
  <2>3. ASSUME NEW d \in Dir, Replace(d)
        PROVE  <1>3!:
    <3>1. CASE MovesBack
      BY <2>3, <3>1 DEF Replace
    <3>2. CASE ~MovesBack
      BY <2>3, <3>2 DEF Replace
    <3> QED
      BY <3>1, <3>2
  <2>4. ASSUME NEW d \in Dir, NEW mode \in Modes, Chmod(d, mode)
        PROVE  <1>3!:
    BY <2>4, ModesAssumption DEF Chmod
  <2> QED
    BY <2>1, <2>2, <2>3, <2>4
<1> QED
  BY <1>1, <1>2, <1>3
  DEF TypeInv, TypeOK, HereInv, Here, configVars, serverVars

LEMMA TypeFaults ==
  ASSUME TypeInv,
         \/ \E s \in Server : ServerDown(s) \/ ServerUp(s) \/ AnswerLost(s)
         \/ \E rs \in RootSets : Start(rs)
         \/ \E paths \in SUBSET Watched : CheckBegin(paths)
         \/ Crash \/ OpenDirRaises \/ Refused \/ PassBegin
  PROVE  TypeInv'
<1> USE DEF TypeInv, TypeOK, configVars, serverVars, treeVars
<1>1. Fault => faults' \in 0..MaxFaults
  BY BoundAssumption DEF Fault
<1>2. ASSUME NEW s \in Server, ServerDown(s) \/ ServerUp(s)
      PROVE  TypeInv'
  BY <1>1, <1>2 DEF ServerDown, ServerUp, HereInv, Here
<1>3. ASSUME NEW s \in Server, AnswerLost(s)
      PROVE  TypeInv'
  <2>1. Here \in Path /\ (scan.pc = "commit" => row[Here] # None)
    BY <1>3 DEF AnswerLost, Requesting, HereInv, Here, Syncing, Retiring
  <2>2. published' \in Copies
    BY <1>3, <2>1, Published, Retracted DEF AnswerLost
  <2>3. scan' \in Scan /\ HereInv'
    BY <1>3, EndPassFields DEF AnswerLost
  <2> QED
    BY <1>1, <1>3, <2>2, <2>3 DEF AnswerLost, Copies
<1>4. ASSUME NEW rs \in RootSets, Start(rs)
      PROVE  TypeInv'
  <2>1. scan' \in Scan /\ HereInv'
    BY <1>4, RestFields DEF Start, HereInv, Here, Syncing, Retiring
  <2> QED
    BY <1>4, <2>1 DEF Start
<1>5. ASSUME NEW paths \in SUBSET Watched, CheckBegin(paths)
      PROVE  TypeInv'
  <2>1. scan' \in Scan /\ scan'.pc = "check"
    BY <1>5, RestFields, WatchedAssumption DEF CheckBegin, Scan
  <2>2. HereInv'
    BY <2>1 DEF HereInv, Here, Syncing, Retiring
  <2> QED
    BY <1>5, <2>1, <2>2 DEF CheckBegin
<1>6. CASE Crash \/ OpenDirRaises
  BY <1>1, <1>6, DeadFields DEF Crash, OpenDirRaises
<1>7. CASE Refused
  <2>1. scan' \in Scan /\ HereInv'
    BY <1>7, NextChangeFields DEF Refused, Requesting, Syncing, Retiring
  <2> QED
    BY <1>1, <1>7, <2>1 DEF Refused
<1>8. CASE PassBegin
  <2>1. roots \in SUBSET Dir
    BY TreeAssumption
  <2>2. scan' \in Scan /\ scan'.pc = "pop" /\ scan'.entries = {}
    BY <1>8, <2>1, RestFields DEF PassBegin, Scan
  <2>3. HereInv'
    BY <2>2 DEF HereInv, Here, Syncing, Retiring
  <2> QED
    BY <1>8, <2>2, <2>3 DEF PassBegin
<1> QED
  BY <1>2, <1>3, <1>4, <1>5, <1>6, <1>7, <1>8

\* The steps of the generator: the walk, the sweep, the check.
Generator ==
  \/ \E d \in Dir : OpenDir(d) \/ WalkDir(d)
  \/ \E p \in Path : WalkSkip(p) \/ WalkFile(p) \/ SweepPath(p)
  \/ WalkUp \/ SweepBegin \/ PassEnd
  \/ \E p \in Path : CheckSkip(p) \/ CheckDeleted(p) \/ CheckFile(p)

LEMMA RetractingFields ==
  ASSUME TypeInv, NEW p \in Path, NEW t \in Scan, scan.pc \in {"sweep", "check"}
  PROVE  LET u == Retracting(t, p) IN
         /\ u \in Scan /\ u.pc = "retract" /\ u.path = p /\ u.back = scan.pc
         /\ u.stack = t.stack /\ u.entries = t.entries /\ u.seen = t.seen
         /\ u.unreadable = t.unreadable /\ u.sweep = t.sweep
BY DEF Retracting, Scan

LEMMA TypeGenerator ==
  ASSUME TypeInv, Generator
  PROVE  /\ TypeInv' /\ scan'.pc # "forget"
         /\ UNCHANGED <<treeVars, row, configVars, serverVars, faults>>
<1> USE DEF TypeInv
<1>1. UNCHANGED <<treeVars, row, configVars, serverVars, faults>>
  BY DEF Generator, Walking, OpenDir, WalkDir, WalkSkip, WalkFile, SweepPath, WalkUp,
         SweepBegin, PassEnd, CheckSkip, CheckDeleted, CheckFile
<1>2. scan \in Scan
  BY DEF TypeOK
<1> DEFINE Kept == scan' \in Scan /\ HereInv' /\ scan'.pc # "forget"
<1>3. ASSUME NEW d \in Dir, OpenDir(d)
      PROVE  Kept
  <2> DEFINE popped == [scan EXCEPT !.stack = @ \ {d}]
             listed == {x \in Path \cup Dir :
                          Parent[x] = d /\ IF x \in Dir THEN dir[x] # "gone"
                                           ELSE disk[x] \in Version}
  <2>1. popped \in Scan /\ popped.pc = "pop" /\ popped.entries = {}
        /\ popped.unreadable \subseteq Dir
    BY <1>2, <1>3 DEF OpenDir, Scan, HereInv
  <2>2. listed \subseteq Path \cup Dir
    OBVIOUS
  <2>3. \/ scan' = popped
        \/ scan' = [popped EXCEPT !.unreadable = @ \cup {d}]
        \/ scan' = [popped EXCEPT !.pc = "entry", !.entries = listed]
    BY <1>3 DEF OpenDir
  <2> HIDE DEF popped, listed
  <2>4. CASE scan' = popped
    BY <2>1, <2>4 DEF HereInv, Here, Syncing, Retiring
  <2>5. CASE scan' = [popped EXCEPT !.unreadable = @ \cup {d}]
    <3>1. scan' \in Scan /\ scan'.pc = "pop" /\ scan'.entries = {}
      BY <2>1, <2>5 DEF Scan
    <3> QED
      BY <3>1 DEF HereInv, Here, Syncing, Retiring
  <2>6. CASE scan' = [popped EXCEPT !.pc = "entry", !.entries = listed]
    <3>1. scan' \in Scan /\ scan'.pc = "entry"
      BY <2>1, <2>2, <2>6 DEF Scan
    <3> QED
      BY <3>1 DEF HereInv, Here, Syncing, Retiring
  <2> QED
    BY <2>3, <2>4, <2>5, <2>6
<1>4. ASSUME NEW d \in Dir, WalkDir(d)
      PROVE  Kept
  <2>1. scan' \in Scan /\ scan'.pc = "entry"
    BY <1>2, <1>4 DEF WalkDir, Scan
  <2> QED
    BY <2>1 DEF HereInv, Here, Syncing, Retiring
<1>5. ASSUME NEW p \in Path, WalkSkip(p)
      PROVE  Kept
  <2>1. scan' \in Scan /\ scan'.pc = "entry"
    BY <1>2, <1>5 DEF WalkSkip, Scan
  <2> QED
    BY <2>1 DEF HereInv, Here, Syncing, Retiring
<1>6. ASSUME NEW p \in Path, WalkFile(p)
      PROVE  Kept
  <2> DEFINE saw == [scan EXCEPT !.entries = @ \ {p}, !.seen = @ \cup {p}]
  <2>1. saw \in Scan /\ saw.pc = "entry" /\ p \in saw.seen
    BY <1>2, <1>6 DEF WalkFile, Scan
  <2>2. \/ scan' = [saw EXCEPT !.pc = "sync", !.path = p, !.back = "entry"]
        \/ scan' = saw
    BY <1>6 DEF WalkFile
  <2> HIDE DEF saw
  <2>3. /\ scan' \in Scan
        /\ \/ scan'.pc = "entry"
           \/ /\ scan'.pc = "sync" /\ scan'.path = p
              /\ scan'.back = "entry" /\ p \in scan'.seen
    BY <2>1, <2>2 DEF Scan
  <2> QED
    BY <2>3 DEF HereInv, Here, Syncing, Retiring
<1>7. ASSUME NEW p \in Path, SweepPath(p)
      PROVE  Kept
  <2>1. Swept(p) \in Scan /\ Swept(p).pc = "sweep" /\ scan.pc = "sweep"
    BY <1>2, <1>7 DEF SweepPath, Swept, Scan
  <2>2. scan' = Swept(p) \/ scan' = Retracting(Swept(p), p)
    BY <1>7 DEF SweepPath
  <2>3. /\ scan' \in Scan
        /\ \/ scan'.pc = "sweep"
           \/ scan'.pc = "retract" /\ scan'.path = p /\ scan'.back = "sweep"
    BY <2>1, <2>2, RetractingFields
  <2> QED
    BY <2>3 DEF HereInv, Here, Syncing, Retiring
<1>8. ASSUME WalkUp
      PROVE  Kept
  BY <1>8, GotoFields DEF WalkUp, HereInv, Here, Syncing, Retiring
<1>9. ASSUME SweepBegin
      PROVE  Kept
  <2>1. scan' \in Scan /\ scan'.pc = "sweep"
    BY <1>2, <1>9 DEF SweepBegin, AllPaths, Scan
  <2> QED
    BY <2>1 DEF HereInv, Here, Syncing, Retiring
<1>10. ASSUME PassEnd
       PROVE  Kept
  BY <1>10, EndPassFields DEF PassEnd
<1>11. ASSUME NEW p \in Path, CheckSkip(p)
       PROVE  Kept
  <2>1. scan' \in Scan /\ scan'.pc = "check"
    BY <1>2, <1>11 DEF CheckSkip, Scan
  <2> QED
    BY <2>1 DEF HereInv, Here, Syncing, Retiring
<1>12. ASSUME NEW p \in Path, CheckDeleted(p)
       PROVE  Kept
  <2> DEFINE t == [scan EXCEPT !.entries = @ \ {p}]
  <2>1. t \in Scan
    BY <1>2 DEF Scan
  <2>2. scan' = Retracting(t, p) /\ scan.pc = "check"
    BY <1>12 DEF CheckDeleted
  <2> HIDE DEF t
  <2>3. scan' \in Scan /\ scan'.pc = "retract" /\ scan'.path = p /\ scan'.back = "check"
    BY <2>1, <2>2, RetractingFields
  <2> QED
    BY <2>3 DEF HereInv, Here, Syncing, Retiring
<1>13. ASSUME NEW p \in Path, CheckFile(p)
       PROVE  Kept
  <2>1. scan' \in Scan /\ scan'.pc = "sync" /\ scan'.path = p /\ scan'.back = "check"
    BY <1>2, <1>13 DEF CheckFile, Scan
  <2> QED
    BY <2>1 DEF HereInv, Here, Syncing, Retiring
<1>14. Kept
  BY <1>3, <1>4, <1>5, <1>6, <1>7, <1>8, <1>9, <1>10, <1>11, <1>12, <1>13
  DEF Generator
<1> QED
  BY <1>1, <1>14 DEF TypeOK, treeVars, configVars, serverVars

\* What run_once() does with a change.
Handling ==
  \/ SyncVanished \/ SyncRaises \/ SyncChunked \/ SyncAbandoned
  \/ \E s \in Server : SyncCommitted(s) \/ RetractServed(s)
  \/ SyncMarked \/ SourceRemoved \/ Forget \/ Offline

LEMMA TypeHandling ==
  ASSUME TypeInv, Handling
  PROVE  TypeInv'
<1> USE DEF configVars, serverVars, treeVars
<1>1. scan.pc \in Syncing \cup Retiring /\ Here \in Path
  BY DEF Handling, SyncVanished, SyncRaises, SyncChunked, SyncAbandoned, SyncCommitted,
         RetractServed, SyncMarked, SourceRemoved, Forget, Offline, Requesting,
         TypeInv, HereInv, Syncing, Retiring
<1>2. scan.pc \in Syncing \ {"sync"} => row[Here] # None
  BY DEF TypeInv, HereInv
<1>3. NextChange => scan' \in Scan /\ HereInv'
  BY <1>1, NextChangeFields
<1>4. CASE SyncVanished \/ SyncAbandoned
  <2>1. row' \in [Path -> Record \cup {None}]
    BY <1>1, <1>4, Dirtied DEF SyncVanished, SyncAbandoned, TypeInv
  <2> QED
    BY <1>3, <1>4, <2>1 DEF SyncVanished, SyncAbandoned, TypeInv, TypeOK
<1>5. CASE SyncRaises
  BY <1>3, <1>5 DEF SyncRaises, Walking, TypeInv, TypeOK
<1>6. CASE SyncChunked
  <2> DEFINE rec == [state |-> "chunked", ver |-> disk[Here]]
  <2>1. rec \in Record
    BY <1>6 DEF SyncChunked, CanStat, Exists, Record
  <2>2. row' = [row EXCEPT ![Here] = rec]
    BY <1>6 DEF SyncChunked
  <2> HIDE DEF rec
  <2>3. row' \in [Path -> Record \cup {None}] /\ row'[Here] # None
    BY <1>1, <2>1, <2>2, ValueAssumption DEF TypeInv, TypeOK
  <2>4. /\ scan' \in Scan /\ scan'.pc = "commit" /\ scan'.path = Here
        /\ scan'.back = scan.back /\ scan'.seen = scan.seen
    BY <1>6, GotoFields DEF SyncChunked, Here, Syncing
  <2>5. HereInv'
    BY <1>1, <1>6, <2>3, <2>4 DEF SyncChunked, TypeInv, HereInv, Here, Syncing, Retiring
  <2> QED
    BY <1>6, <2>3, <2>4, <2>5 DEF SyncChunked, TypeInv, TypeOK
<1>7. ASSUME NEW s \in Server, SyncCommitted(s)
      PROVE  TypeInv'
  <2>1. row[Here] # None
    BY <1>2, <1>7 DEF SyncCommitted, Syncing
  <2>2. published' \in Copies
    BY <1>1, <1>7, <2>1, Published DEF SyncCommitted, TypeInv
  <2>3. /\ scan' \in Scan /\ scan'.pc = "mark" /\ scan'.path = Here
        /\ scan'.back = scan.back /\ scan'.seen = scan.seen
    BY <1>7, GotoFields DEF SyncCommitted, Here, Syncing
  <2>4. HereInv'
    BY <1>1, <1>7, <2>1, <2>3 DEF SyncCommitted, TypeInv, HereInv, Here, Syncing, Retiring
  <2> QED
    BY <1>7, <2>2, <2>3, <2>4 DEF SyncCommitted, TypeInv, TypeOK, Copies
<1>8. ASSUME NEW s \in Server, RetractServed(s)
      PROVE  TypeInv'
  <2>1. published' \in Copies
    BY <1>1, <1>8, Retracted DEF RetractServed, TypeInv
  <2>2. /\ scan' \in Scan /\ scan'.pc = "forget" /\ scan'.path = Here
        /\ scan'.back = scan.back
    BY <1>8, GotoFields DEF RetractServed, Here, Retiring
  <2>3. HereInv'
    BY <1>1, <1>8, <2>2 DEF RetractServed, TypeInv, HereInv, Here, Syncing, Retiring
  <2> QED
    BY <1>8, <2>1, <2>2, <2>3 DEF RetractServed, TypeInv, TypeOK, Copies
<1>9. CASE SyncMarked
  <2>1. row[Here] # None
    BY <1>2, <1>9 DEF SyncMarked, Syncing
  <2>2. row' \in [Path -> Record \cup {None}] /\ row'[Here] # None
    BY <1>1, <1>9, <2>1, Marked DEF TypeInv
  <2>3. scan' \in Scan /\ HereInv'
    <3>1. CASE deleteAfter
      <4>1. /\ scan' \in Scan /\ scan'.pc = "remove" /\ scan'.path = Here
            /\ scan'.back = scan.back /\ scan'.seen = scan.seen
        BY <1>9, <3>1, GotoFields DEF SyncMarked, Here, Syncing
      <4> QED
        BY <1>1, <1>9, <2>2, <3>1, <4>1
        DEF SyncMarked, TypeInv, HereInv, Here, Syncing, Retiring
    <3>2. CASE ~deleteAfter
      BY <1>3, <1>9, <3>2 DEF SyncMarked
    <3> QED
      BY <3>1, <3>2
  <2> QED
    BY <1>9, <2>2, <2>3 DEF SyncMarked, TypeInv, TypeOK
<1>10. CASE SourceRemoved
  <2>1. /\ scan' \in Scan /\ scan'.pc = "removed" /\ scan'.path = Here
        /\ scan'.back = scan.back /\ scan'.seen = scan.seen
    BY <1>10, GotoFields DEF SourceRemoved, Here, Syncing
  <2>2. HereInv'
    BY <1>1, <1>2, <1>10, <2>1
    DEF SourceRemoved, TypeInv, HereInv, Here, Syncing, Retiring
  <2>3. disk' \in [Path -> Version \cup {None, Taken}]
    BY <1>10 DEF SourceRemoved, TypeInv, TypeOK
  <2> QED
    BY <1>10, <2>1, <2>2, <2>3 DEF SourceRemoved, TypeInv, TypeOK
<1>11. CASE Forget
  <2>1. row' \in [Path -> Record \cup {None}]
    BY <1>11 DEF Forget, TypeInv, TypeOK
  <2> QED
    BY <1>3, <1>11, <2>1 DEF Forget, TypeInv, TypeOK
<1>12. CASE Offline
  BY <1>12, EndPassFields DEF Offline, Walking, TypeInv, TypeOK
<1> QED
  BY <1>4, <1>5, <1>6, <1>7, <1>8, <1>9, <1>10, <1>11, <1>12 DEF Handling

LEMMA TypeInit == Init => TypeInv
<1> SUFFICES ASSUME Init
             PROVE  TypeInv
  OBVIOUS
<1>1. scan \in Scan /\ scan.pc = "dead"
  BY RestFields DEF Init
<1>2. HereInv
  BY <1>1 DEF HereInv, Syncing, Retiring
<1>3. 0 \in 0..MaxEdits /\ 0 \in 0..MaxFaults /\ 0 \in Version
  BY BoundAssumption DEF Version
<1>4. row \in [Path -> Record \cup {None}] /\ published \in Copies
  BY DEF Init, Copies
<1>5. /\ disk \in [Path -> Version \cup {None, Taken}]
      /\ dir \in [Dir -> {"ok", "noread", "nosearch", "gone"}]
      /\ lost \subseteq Path
  BY <1>3 DEF Init
<1> QED
  BY <1>1, <1>2, <1>3, <1>4, <1>5 DEF Init, TypeInv, TypeOK, Copies

LEMMA NextCases ==
  ASSUME [Next]_vars
  PROVE  \/ \/ \E p \in Path : Write(p) \/ Remove(p)
            \/ \E d \in Dir : MoveAway(d) \/ Replace(d)
            \/ \E d \in Dir, mode \in Modes : Chmod(d, mode)
         \/ \/ \E s \in Server : ServerDown(s) \/ ServerUp(s) \/ AnswerLost(s)
            \/ \E rs \in RootSets : Start(rs)
            \/ \E paths \in SUBSET Watched : CheckBegin(paths)
            \/ Crash \/ OpenDirRaises \/ Refused \/ PassBegin
         \/ Generator
         \/ Handling
         \/ UNCHANGED vars
BY DEF Next, Environment, Client, Restart, Generator, Handling

LEMMA TypeStep == TypeInv /\ [Next]_vars => TypeInv'
<1> SUFFICES ASSUME TypeInv, [Next]_vars
             PROVE  TypeInv'
  OBVIOUS
<1>1. CASE UNCHANGED vars
  BY <1>1 DEF vars, TypeInv, TypeOK, HereInv, Here
<1> QED
  BY <1>1, NextCases, TypeUsers, TypeFaults, TypeGenerator, TypeHandling

-----------------------------------------------------------------------------
(* Live copies.                                                            *)

LEMMA LiveStep ==
  ASSUME NEW only, Server = {only},
         TypeInv, TypeInv', LiveHasRow, RetractedInv, [Next]_vars
  PROVE  LiveHasRow' /\ RetractedInv'
<1> USE DEF configVars, serverVars, treeVars
<1>1. deleteAfter' = deleteAfter
  BY DEF Next, Environment, Client, Restart, Write, Remove, MoveAway, Replace, Chmod, Edit,
         ServerDown, ServerUp, AnswerLost, CheckBegin, Crash, OpenDirRaises, Refused,
         Start, PassBegin, PassEnd, OpenDir, WalkDir, WalkSkip, WalkFile, SweepPath,
         WalkUp, SweepBegin, CheckSkip, CheckDeleted, CheckFile, Walking,
         SyncVanished, SyncRaises, SyncChunked, SyncAbandoned, SyncCommitted,
         RetractServed, SyncMarked, SourceRemoved, Forget, Offline, vars
<1>2. ASSUME \A p \in Path : row[p] # None => row'[p] # None,
             \A s \in Server, p \in Path :
               published'[s][p] \in Version =>
                 published[s][p] \in Version \/ row'[p] # None,
             scan'.pc # "forget"
      PROVE  LiveHasRow' /\ RetractedInv'
  BY <1>1, <1>2 DEF LiveHasRow, RetractedInv
<1>3. scan.pc \in Syncing \cup Retiring =>
        /\ Here \in Path
        /\ NextChange => scan'.pc # "forget"
        /\ scan.pc \in Syncing \ {"sync"} => row[Here] # None
  BY NextChangeFields DEF TypeInv, HereInv
<1>4. CASE \/ \E p \in Path : Write(p) \/ Remove(p)
           \/ \E d \in Dir : MoveAway(d) \/ Replace(d)
           \/ \E d \in Dir, mode \in Modes : Chmod(d, mode)
  BY <1>1, <1>4, TypeUsers DEF LiveHasRow, RetractedInv, Here
<1>5. ASSUME NEW s \in Server, ServerDown(s) \/ ServerUp(s)
      PROVE  LiveHasRow' /\ RetractedInv'
  BY <1>1, <1>5 DEF ServerDown, ServerUp, LiveHasRow, RetractedInv, Here
<1>6. ASSUME NEW s \in Server, AnswerLost(s)
      PROVE  LiveHasRow' /\ RetractedInv'
  <2>1. scan'.pc = "idle" /\ row' = row
    BY <1>6, EndPassFields DEF AnswerLost
  <2>2. \A t \in Server, p \in Path :
          published'[t][p] \in Version => published[t][p] \in Version \/ row[p] # None
    BY <1>3, <1>6, Published, Retracted
    DEF AnswerLost, Requesting, Syncing, Retiring, TypeInv
  <2> QED
    BY <1>2, <2>1, <2>2
<1>7. CASE \/ \E rs \in RootSets : Start(rs)
           \/ \E paths \in SUBSET Watched : CheckBegin(paths)
           \/ Crash \/ OpenDirRaises \/ PassBegin
  <2>1. row' = row /\ published' = published
    BY <1>7 DEF Start, CheckBegin, Crash, OpenDirRaises, PassBegin
  <2>2. scan'.pc # "forget"
    BY <1>7, RestFields DEF Start, CheckBegin, Crash, OpenDirRaises, PassBegin, Scan
  <2> QED
    BY <1>2, <2>1, <2>2
<1>8. CASE Refused \/ SyncRaises
  BY <1>2, <1>3, <1>8 DEF Refused, SyncRaises, Walking, Requesting, Syncing, Retiring
<1>9. CASE Generator
  BY <1>2, <1>9, TypeGenerator
<1>10. CASE SyncVanished \/ SyncAbandoned
  <2>1. MarkDirty(Here) /\ Here \in Path /\ published' = published /\ scan'.pc # "forget"
    BY <1>3, <1>10 DEF SyncVanished, SyncAbandoned, Syncing
  <2> QED
    BY <1>2, <2>1, Dirtied DEF TypeInv
<1>11. CASE SyncChunked
  <2>1. row' = [row EXCEPT ![Here] = [state |-> "chunked", ver |-> disk[Here]]]
        /\ published' = published /\ Here \in Path
    BY <1>3, <1>11 DEF SyncChunked, Syncing
  <2>2. row'[Here] # None
    BY <1>11, <2>1, ValueAssumption DEF SyncChunked, CanStat, Exists, Record, TypeInv, TypeOK
  <2>3. \A p \in Path : row[p] # None => row'[p] # None
    BY <2>1, <2>2 DEF TypeInv, TypeOK
  <2>4. scan'.pc # "forget"
    BY <1>11, GotoFields DEF SyncChunked, Syncing
  <2> QED
    BY <1>2, <2>1, <2>3, <2>4
<1>12. ASSUME NEW s \in Server, SyncCommitted(s)
       PROVE  LiveHasRow' /\ RetractedInv'
  <2>1. Here \in Path /\ row[Here] # None /\ row' = row
    BY <1>3, <1>12 DEF SyncCommitted, Syncing
  <2>2. \A t \in Server, p \in Path :
          published'[t][p] \in Version => published[t][p] \in Version \/ row[p] # None
    BY <1>12, <2>1, Published DEF SyncCommitted, TypeInv
  <2>3. scan'.pc # "forget"
    BY <1>12, GotoFields DEF SyncCommitted, Syncing
  <2> QED
    BY <1>2, <2>1, <2>2, <2>3
<1>13. ASSUME NEW s \in Server, RetractServed(s)
       PROVE  LiveHasRow' /\ RetractedInv'
  <2>1. Here \in Path /\ row' = row /\ s = only
    BY <1>3, <1>13 DEF RetractServed, Retiring
  <2>2. /\ published'[s][Here] \notin Version
        /\ \A t \in Server, p \in Path :
             published'[t][p] \in Version => published[t][p] \in Version
    BY <1>13, <2>1, Retracted DEF RetractServed, TypeInv
  <2>3. Here' = Here
    BY <1>13, GotoFields DEF RetractServed, Here, Retiring
  <2> QED
    BY <1>1, <2>1, <2>2, <2>3 DEF LiveHasRow, RetractedInv
<1>14. CASE SyncMarked
  <2>1. Here \in Path /\ row[Here] # None /\ published' = published
    BY <1>3, <1>14 DEF SyncMarked, Syncing
  <2>2. scan'.pc # "forget"
    BY <1>3, <1>14, GotoFields DEF SyncMarked, Syncing
  <2> QED
    BY <1>2, <1>14, <2>1, <2>2, Marked DEF TypeInv
<1>15. CASE SourceRemoved
  <2>1. row' = row /\ published' = published
    BY <1>15 DEF SourceRemoved
  <2>2. scan'.pc # "forget"
    BY <1>15, GotoFields DEF SourceRemoved, Syncing
  <2> QED
    BY <1>2, <2>1, <2>2
<1>16. CASE Forget
  <2>1. Here \in Path /\ published' = published /\ scan'.pc # "forget"
    BY <1>3, <1>16 DEF Forget, Syncing, Retiring
  <2>2. ~deleteAfter => \A s \in Server : published[s][Here] \notin Version
    BY <1>16 DEF Forget, RetractedInv, TypeInv, HereInv
  <2>3. \A p \in Path : p # Here => row'[p] = row[p]
    BY <1>16 DEF Forget, TypeInv, TypeOK
  <2> QED
    BY <1>1, <2>1, <2>2, <2>3 DEF LiveHasRow, RetractedInv
<1>17. CASE Offline
  BY <1>2, <1>17, EndPassFields DEF Offline, Walking
<1>18. CASE UNCHANGED vars
  BY <1>18 DEF vars, LiveHasRow, RetractedInv, Here
<1> QED
  BY <1>4, <1>5, <1>6, <1>7, <1>8, <1>9, <1>10, <1>11, <1>12, <1>13, <1>14, <1>15,
     <1>16, <1>17, <1>18, NextCases
  DEF Handling

-----------------------------------------------------------------------------
(* What the rows say of the tree.                                          *)

\* A file is there when it is in its directory, and all above that are.
LEMMA ExistsIn ==
  ASSUME NEW p \in Path
  PROVE  /\ Exists(p) <=> disk[p] \in Version /\ \A d \in Above[p] : dir[d] # "gone"
         /\ Exists(p)' <=> disk'[p] \in Version /\ \A d \in Above[p] : dir'[d] # "gone"
         /\ Above[p] \subseteq Dir
<1>1. Parent[p] # None /\ Above[p] = Above[Parent[p]] \cup {Parent[p]}
  BY TreeAssumption
<1>2. Above[p] \subseteq Dir
  BY TreeAssumption
<1> QED
  BY <1>1, <1>2 DEF Exists, DirThere

\* What the users do to a file: it stays, or it is lost, and none of them can do
\* what only the client does.
LEMMA UsersRemove ==
  ASSUME TypeInv, TypeInv', NEW q \in Path,
         \/ \E p \in Path : Write(p) \/ Remove(p)
         \/ \E d \in Dir : MoveAway(d) \/ Replace(d)
         \/ \E d \in Dir, mode \in Modes : Chmod(d, mode)
  PROVE  /\ disk[q] # Taken => disk'[q] # Taken
         /\ Exists(q) => Exists(q)' \/ q \in lost'
         /\ lost \subseteq lost'
<1> USE DEF TypeInv, TypeOK
<1>1. None # Taken
  BY ValueAssumption
<1>2. ASSUME NEW p \in Path, Write(p)
      PROVE  /\ disk[q] # Taken => disk'[q] # Taken
             /\ Exists(q) => Exists(q)'
             /\ lost' = lost
  <2>1. edits + 1 \in Version /\ edits + 1 # Taken
    BY <1>2, ValueAssumption, BoundAssumption DEF Write, Edit, Version
  <2>2. disk'[q] = disk[q] \/ disk'[q] = edits + 1
    BY <1>2 DEF Write
  <2>3. dir' = dir /\ lost' = lost
    BY <1>2 DEF Write
  <2> QED
    BY <2>1, <2>2, <2>3, ExistsIn
<1>3. ASSUME NEW p \in Path, Remove(p)
      PROVE  /\ disk[q] # Taken => disk'[q] # Taken
             /\ Exists(q) => Exists(q)' \/ q \in lost'
             /\ lost \subseteq lost'
  BY <1>1, <1>3, ExistsIn DEF Remove
<1>4. ASSUME NEW d \in Dir, MoveAway(d)
      PROVE  /\ disk[q] # Taken => disk'[q] # Taken
             /\ Exists(q) => Exists(q)' \/ q \in lost'
             /\ lost \subseteq lost'
  <2>1. disk' = disk /\ dir' = [dir EXCEPT ![d] = "gone"]
        /\ lost' = lost \cup {p \in Path : d \in Above[p]}
    BY <1>4 DEF MoveAway, Contains
  <2> QED
    BY <2>1, ExistsIn
<1>5. ASSUME NEW d \in Dir, Replace(d)
      PROVE  /\ disk[q] # Taken => disk'[q] # Taken
             /\ Exists(q) => Exists(q)'
             /\ lost' = lost
  <2>1. dir[d] = "gone" /\ lost' = lost
    BY <1>5 DEF Replace
  <2>2. Exists(q) => d \notin Above[q]
    BY <2>1, ExistsIn
  <2>3. CASE MovesBack
    BY <1>5, <2>1, <2>2, <2>3, ExistsIn DEF Replace
  <2>4. CASE ~MovesBack
    <3>1. /\ dir' = [e \in Dir |-> IF e = d THEN "ok"
                                   ELSE IF d \in Above[e] THEN "gone" ELSE dir[e]]
          /\ disk' = [p \in Path |-> IF d \in Above[p] THEN None ELSE disk[p]]
      BY <1>5, <2>4 DEF Replace, Contains
    <3>2. \A e \in Above[q] : Above[e] \subseteq Above[q]
      BY TreeAssumption
    <3>3. ASSUME Exists(q)
          PROVE  Exists(q)'
      <4>1. disk'[q] = disk[q]
        BY <2>2, <3>1, <3>3
      <4>2. \A e \in Above[q] : dir'[e] = dir[e]
        BY <2>2, <3>1, <3>2, <3>3, ExistsIn
      <4> QED
        BY <3>3, <4>1, <4>2, ExistsIn
    <3> QED
      BY <1>1, <2>1, <3>1, <3>3
  <2> QED
    BY <2>3, <2>4
<1>6. ASSUME NEW d \in Dir, NEW mode \in Modes, Chmod(d, mode)
      PROVE  /\ disk[q] # Taken => disk'[q] # Taken
             /\ Exists(q) => Exists(q)'
             /\ lost' = lost
  <2>1. mode # "gone"
    BY ModesAssumption
  <2>2. dir' = [dir EXCEPT ![d] = mode] /\ disk' = disk /\ lost' = lost
    BY <1>6 DEF Chmod
  <2> QED
    BY <2>1, <2>2, ExistsIn
<1> QED
  BY <1>2, <1>3, <1>4, <1>5, <1>6

\* What a step does to a row and to the tree around it.
LEMMA RowStep ==
  ASSUME ~RemovalCrashes, TypeInv, TypeInv', RowInv, [Next]_vars
  PROVE  RowInv'
<1> USE DEF configVars, serverVars, treeVars
<1>1. ASSUME UNCHANGED <<disk, dir, lost>>, scan.pc # "removed",
             \A p \in Path : row'[p] # None => row[p] # None
      PROVE  RowInv'
  BY <1>1, ExistsIn DEF RowInv
<1>2. CASE \/ \E p \in Path : Write(p) \/ Remove(p)
           \/ \E d \in Dir : MoveAway(d) \/ Replace(d)
           \/ \E d \in Dir, mode \in Modes : Chmod(d, mode)
  <2>1. row' = row /\ scan' = scan
    BY <1>2, TypeUsers
  <2>2. \A q \in Path : /\ disk[q] # Taken => disk'[q] # Taken
                        /\ Exists(q) => Exists(q)' \/ q \in lost'
                        /\ lost \subseteq lost'
    BY <1>2, UsersRemove
  <2> QED
    BY <2>1, <2>2 DEF RowInv, Here
<1>3. ASSUME NEW s \in Server, ServerDown(s) \/ ServerUp(s)
      PROVE  RowInv'
  BY <1>3, ExistsIn DEF ServerDown, ServerUp, RowInv, Here
<1>4. CASE \/ \E s \in Server : AnswerLost(s)
           \/ \E rs \in RootSets : Start(rs)
           \/ Crash \/ OpenDirRaises \/ Refused \/ Offline \/ SyncRaises
  BY <1>1, <1>4
  DEF AnswerLost, Start, Crash, OpenDirRaises, Refused, Offline, SyncRaises, Walking, Requesting
<1>5. CASE PassBegin \/ \E paths \in SUBSET Watched : CheckBegin(paths)
  <2>1. /\ scan.pc = "idle" /\ UNCHANGED <<disk, dir, row>>
        /\ lost' = {p \in Path : RemovedByUser(p)}
    BY <1>5 DEF PassBegin, CheckBegin
  <2>2. \A p \in Path : disk[p] # Taken => p \in lost' \/ Exists(p)
    BY <2>1 DEF RemovedByUser
  <2>3. \A p \in Path : Exists(p)' <=> Exists(p)
    BY <2>1, ExistsIn
  <2> QED
    BY <2>1, <2>2, <2>3 DEF RowInv
<1>6. CASE Generator
  <2>1. scan.pc # "removed"
    BY <1>6 DEF Generator, OpenDir, WalkDir, WalkSkip, WalkFile, SweepPath, WalkUp,
                SweepBegin, PassEnd, CheckSkip, CheckDeleted, CheckFile
  <2> QED
    BY <1>1, <1>6, <2>1, TypeGenerator
<1>7. CASE SyncVanished \/ SyncAbandoned
  <2>1. MarkDirty(Here) /\ Here \in Path /\ scan.pc # "removed"
        /\ UNCHANGED <<disk, dir, lost>>
    BY <1>7 DEF SyncVanished, SyncAbandoned, TypeInv, HereInv, Syncing
  <2> QED
    BY <1>1, <2>1, Dirtied DEF TypeInv
<1>8. CASE SyncChunked
  <2>1. Exists(Here) /\ Here \in Path /\ scan.pc = "sync"
    BY <1>8 DEF SyncChunked, CanStat, TypeInv, HereInv, Syncing
  <2>2. \A p \in Path : p # Here => row'[p] = row[p]
    BY <1>8 DEF SyncChunked, TypeInv, TypeOK
  <2>3. UNCHANGED <<disk, dir, lost>>
    BY <1>8 DEF SyncChunked
  <2>4. disk[Here] # Taken
    BY <2>1, ValueAssumption, BoundAssumption DEF Exists, Version
  <2>5. \A p \in Path : Exists(p)' <=> Exists(p)
    BY <2>3, ExistsIn
  <2> QED
    BY <2>1, <2>2, <2>3, <2>4, <2>5 DEF RowInv
<1>9. CASE \E s \in Server : SyncCommitted(s) \/ RetractServed(s)
  BY <1>1, <1>9 DEF SyncCommitted, RetractServed
<1>10. CASE SyncMarked
  <2>1. Here \in Path /\ row[Here] # None /\ scan.pc = "mark"
        /\ UNCHANGED <<disk, dir, lost>>
    BY <1>10 DEF SyncMarked, TypeInv, HereInv, Syncing
  <2> QED
    BY <1>1, <1>10, <2>1, Marked DEF TypeInv
<1>11. CASE SourceRemoved
  <2>1. /\ scan.pc = "remove" /\ row' = row /\ dir' = dir /\ lost' = lost
        /\ Here \in Path /\ \A p \in Path : p # Here => disk'[p] = disk[p]
    BY <1>11 DEF SourceRemoved, TypeInv, TypeOK, HereInv, Syncing
  <2>2. scan'.pc = "removed" /\ Here' = Here
    BY <1>11, GotoFields DEF SourceRemoved, Here, Syncing
  <2>3. \A p \in Path : p # Here => (Exists(p)' <=> Exists(p))
    BY <2>1, ExistsIn
  <2> QED
    BY <2>1, <2>2, <2>3 DEF RowInv
<1>12. CASE Forget
  <2>1. /\ Here \in Path /\ row'[Here] = None /\ UNCHANGED <<disk, dir, lost>>
        /\ \A p \in Path : p # Here => row'[p] = row[p]
    BY <1>12 DEF Forget, TypeInv, TypeOK, HereInv, Syncing, Retiring
  <2>2. \A p \in Path : Exists(p)' <=> Exists(p)
    BY <2>1, ExistsIn
  <2> QED
    BY <2>1, <2>2 DEF RowInv
<1>13. CASE UNCHANGED vars
  BY <1>13, ExistsIn DEF vars, RowInv, Here
<1> QED
  BY <1>2, <1>3, <1>4, <1>5, <1>6, <1>7, <1>8, <1>9, <1>10, <1>11, <1>12, <1>13,
     NextCases
  DEF Handling

LEMMA SearchableStep ==
  ASSUME "nosearch" \notin Modes, TypeInv, TypeInv', Searchable, [Next]_vars
  PROVE  Searchable'
<1> USE DEF TypeInv, TypeOK, treeVars
<1>1. CASE dir' = dir
  BY <1>1 DEF Searchable
<1>2. ASSUME NEW d \in Dir, MoveAway(d)
      PROVE  Searchable'
  BY <1>2 DEF MoveAway, Searchable
<1>3. ASSUME NEW d \in Dir, Replace(d)
      PROVE  Searchable'
  <2>1. CASE MovesBack
    BY <1>3, <2>1 DEF Replace, Searchable
  <2>2. CASE ~MovesBack
    BY <1>3, <2>2 DEF Replace, Searchable
  <2> QED
    BY <2>1, <2>2
<1>4. ASSUME NEW d \in Dir, NEW mode \in Modes, Chmod(d, mode)
      PROVE  Searchable'
  BY <1>4 DEF Chmod, Searchable
<1>5. ASSUME NEW p \in Path, Write(p) \/ Remove(p)
      PROVE  Searchable'
  BY <1>1, <1>5 DEF Write, Remove
<1>6. CASE Generator
  BY <1>1, <1>6, TypeGenerator
<1>7. CASE Handling
  BY <1>1, <1>7
  DEF Handling, SyncVanished, SyncRaises, SyncChunked, SyncAbandoned, SyncCommitted,
      RetractServed, SyncMarked, SourceRemoved, Forget, Offline, Walking
<1>8. CASE \/ \E s \in Server : ServerDown(s) \/ ServerUp(s) \/ AnswerLost(s)
           \/ \E rs \in RootSets : Start(rs)
           \/ \E paths \in SUBSET Watched : CheckBegin(paths)
           \/ Crash \/ OpenDirRaises \/ Refused \/ PassBegin
  BY <1>1, <1>8
  DEF ServerDown, ServerUp, AnswerLost, Start, CheckBegin, Crash, OpenDirRaises, Refused,
      PassBegin
<1>9. CASE UNCHANGED vars
  BY <1>1, <1>9 DEF vars
<1> QED
  BY <1>2, <1>3, <1>4, <1>5, <1>6, <1>7, <1>8, <1>9, NextCases

-----------------------------------------------------------------------------
(* The walk.                                                               *)

\* A step of the walk or of an upload of it accounts for what it leaves behind.
LEMMA Accounted ==
  ASSUME TypeInv, TypeInv', WalkInv, InWalk, roots' = roots, lost \subseteq lost',
         \A p \in Path : row'[p] # None => row[p] # None \/ p \in scan'.seen,
         scan.seen \subseteq scan'.seen,
         \A p \in Path \ (lost' \cup scan'.seen) : row[p] # None =>
           /\ Ahead(p) => Ahead(p)' \/ Unread(p)'
           /\ Unread(p) => Unread(p)'
  PROVE  WalkInv'
BY DEF WalkInv, InRoots

LEMMA WalkGenerator ==
  ASSUME TypeInv, TypeInv', Searchable, RowInv, WalkInv, Generator
  PROVE  WalkInv'
<1>1. UNCHANGED <<disk, dir, lost, row, roots>>
  BY TypeGenerator DEF treeVars, configVars
<1>2. scan \in Scan
  BY DEF TypeInv, TypeOK
<1>3. ASSUME NEW p \in Path, p \notin lost, row[p] # None, scan.pc # "removed"
      PROVE  CanStat(p) /\ disk[p] \in Version /\ \A d \in Above[p] : dir[d] # "gone"
  <2>1. disk[p] \in Version /\ \A d \in Above[p] : dir[d] # "gone"
    BY <1>3, ExistsIn DEF RowInv
  <2>2. \A d \in Above[p] : dir[d] \in {"ok", "noread"}
    BY <2>1, ExistsIn DEF Searchable, TypeInv, TypeOK
  <2> QED
    BY <2>1, <2>2, ExistsIn DEF CanStat, Reachable
<1>4. ASSUME NEW d \in Dir, OpenDir(d)
      PROVE  WalkInv'
  <2> DEFINE popped == [scan EXCEPT !.stack = @ \ {d}]
             listed == {x \in Path \cup Dir :
                          Parent[x] = d /\ IF x \in Dir THEN dir[x] # "gone"
                                           ELSE disk[x] \in Version}
  <2>1. /\ popped \in Scan /\ popped.pc = "pop" /\ popped.stack = scan.stack \ {d}
        /\ popped.entries = {} /\ popped.seen = scan.seen
        /\ popped.unreadable = scan.unreadable
    BY <1>2, <1>4 DEF OpenDir, Scan, TypeInv, HereInv
  <2>2. /\ ~DirThere(d) => scan' = popped
        /\ DirThere(d) /\ ~Readable(d) =>
             scan' = [popped EXCEPT !.unreadable = @ \cup {d}]
        /\ DirThere(d) /\ Readable(d) =>
             scan' = [popped EXCEPT !.pc = "entry", !.entries = listed]
    BY <1>4 DEF OpenDir
  <2>3. scan.pc = "pop" /\ scan.entries = {} /\ d \in scan.stack
    BY <1>4 DEF OpenDir, TypeInv, HereInv
  <2> HIDE DEF popped
  <2>4. scan'.stack = scan.stack \ {d} /\ scan'.seen = scan.seen
        /\ scan.unreadable \subseteq scan'.unreadable
    BY <2>1, <2>2 DEF Scan
  <2>5. ASSUME NEW p \in Path \ (lost' \cup scan'.seen), row[p] # None, Ahead(p)
        PROVE  Ahead(p)' \/ Unread(p)'
    <3>1. PICK e \in Above[p] : e \in scan.stack
      BY <2>3, <2>5 DEF Ahead
    <3>2. disk[p] \in Version /\ \A c \in Above[p] : dir[c] # "gone"
      BY <1>1, <1>3, <2>3, <2>5
    <3>3. CASE e # d
      BY <2>4, <3>1, <3>3 DEF Ahead
    <3>4. CASE e = d
      <4>1. DirThere(d)
        BY <3>1, <3>2, <3>4, TreeAssumption DEF DirThere
      <4>2. CASE ~Readable(d)
        <5>1. d \in scan'.unreadable
          BY <2>1, <2>2, <4>1, <4>2 DEF Scan
        <5> QED
          BY <3>1, <3>4, <5>1 DEF Unread, Contains
      <4>3. CASE Readable(d)
        <5>1. scan'.entries = listed
          BY <2>1, <2>2, <4>1, <4>3 DEF Scan
        <5>2. Parent[p] = d \/ \E c \in Above[p] : Parent[c] = d
          BY <3>1, <3>4, TreeAssumption
        <5>3. CASE Parent[p] = d
          <6>1. p \in listed
            BY <3>2, <5>3, TreeAssumption
          <6> QED
            BY <5>1, <6>1 DEF Ahead
        <5>4. ASSUME NEW c \in Above[p], Parent[c] = d
              PROVE  Ahead(p)'
          <6>1. c \in Dir /\ c \in listed
            BY <3>2, <5>4, ExistsIn
          <6> QED
            BY <5>1, <6>1 DEF Ahead
        <5> QED
          BY <5>2, <5>3, <5>4
      <4> QED
        BY <4>2, <4>3
    <3> QED
      BY <3>3, <3>4
  <2>6. \A p \in Path : Unread(p) => Unread(p)'
    BY <2>4 DEF Unread
  <2>7. InWalk
    BY <2>3 DEF InWalk
  <2> QED
    BY <1>1, <2>4, <2>5, <2>6, <2>7, Accounted
<1>5. ASSUME NEW d \in Dir, WalkDir(d)
      PROVE  WalkInv'
  <2>1. /\ scan'.stack = scan.stack \cup {d} /\ scan'.entries = scan.entries \ {d}
        /\ scan'.seen = scan.seen /\ scan'.unreadable = scan.unreadable
    BY <1>2, <1>5 DEF WalkDir, Scan
  <2>2. \A p \in Path : p # d
    BY TreeAssumption
  <2>3. \A p \in Path : (Ahead(p) => Ahead(p)') /\ (Unread(p) => Unread(p)')
    BY <2>1, <2>2 DEF Ahead, Unread
  <2>4. InWalk
    BY <1>5 DEF WalkDir, InWalk
  <2> QED
    BY <1>1, <2>1, <2>3, <2>4, Accounted
<1>6. ASSUME NEW q \in Path, WalkSkip(q)
      PROVE  WalkInv'
  <2>1. /\ scan'.stack = scan.stack /\ scan'.entries = scan.entries \ {q}
        /\ scan'.seen = scan.seen /\ scan'.unreadable = scan.unreadable
        /\ scan.pc = "entry"
    BY <1>2, <1>6 DEF WalkSkip, Scan
  <2>2. q \in lost \/ row[q] = None
    BY <1>3, <1>6, <2>1 DEF WalkSkip
  <2>3. q \notin Dir
    BY TreeAssumption
  <2>4. ASSUME NEW p \in Path \ (lost' \cup scan'.seen), row[p] # None
        PROVE  (Ahead(p) => Ahead(p)') /\ (Unread(p) => Unread(p)')
    BY <1>1, <2>1, <2>2, <2>3, <2>4, ExistsIn DEF Ahead, Unread
  <2>5. InWalk
    BY <2>1 DEF InWalk
  <2> QED
    BY <1>1, <2>1, <2>4, <2>5, Accounted
<1>7. ASSUME NEW q \in Path, WalkFile(q)
      PROVE  WalkInv'
  <2> DEFINE saw == [scan EXCEPT !.entries = @ \ {q}, !.seen = @ \cup {q}]
  <2>1. /\ saw \in Scan /\ saw.stack = scan.stack /\ saw.entries = scan.entries \ {q}
        /\ saw.seen = scan.seen \cup {q} /\ saw.unreadable = scan.unreadable
    BY <1>2 DEF Scan
  <2>2. \/ scan' = [saw EXCEPT !.pc = "sync", !.path = q, !.back = "entry"]
        \/ scan' = saw
    BY <1>7 DEF WalkFile
  <2> HIDE DEF saw
  <2>3. /\ scan'.stack = scan.stack /\ scan'.entries = scan.entries \ {q}
        /\ scan'.seen = scan.seen \cup {q} /\ scan'.unreadable = scan.unreadable
    BY <2>1, <2>2 DEF Scan
  <2>4. q \notin Dir
    BY TreeAssumption
  <2>5. ASSUME NEW p \in Path \ (lost' \cup scan'.seen), row[p] # None
        PROVE  (Ahead(p) => Ahead(p)') /\ (Unread(p) => Unread(p)')
    BY <2>3, <2>4, <2>5, ExistsIn DEF Ahead, Unread
  <2>6. InWalk
    BY <1>7 DEF WalkFile, InWalk
  <2> QED
    BY <1>1, <2>3, <2>5, <2>6, Accounted
<1>8. ASSUME WalkUp
      PROVE  WalkInv'
  <2>1. /\ scan'.stack = scan.stack /\ scan'.entries = scan.entries
        /\ scan'.seen = scan.seen /\ scan'.unreadable = scan.unreadable
    BY <1>8, GotoFields DEF WalkUp
  <2>2. \A p \in Path : (Ahead(p) => Ahead(p)') /\ (Unread(p) => Unread(p)')
    BY <2>1 DEF Ahead, Unread
  <2>3. InWalk
    BY <1>8 DEF WalkUp, InWalk
  <2> QED
    BY <1>1, <2>1, <2>2, <2>3, Accounted
<1>9. ASSUME SweepBegin
      PROVE  ~InWalk'
  <2>1. scan'.pc = "sweep"
    BY <1>2, <1>9 DEF SweepBegin, Scan
  <2> QED
    BY <2>1 DEF InWalk, Syncing
<1>10. ASSUME NEW q \in Path, SweepPath(q)
       PROVE  ~InWalk'
  <2>1. Swept(q) \in Scan /\ Swept(q).pc = "sweep" /\ scan.pc = "sweep"
    BY <1>2, <1>10 DEF SweepPath, Swept, Scan
  <2>2. scan'.pc \in {"sweep", "retract"}
    BY <1>10, <2>1, RetractingFields DEF SweepPath
  <2> QED
    BY <2>2 DEF InWalk, Syncing
<1>11. ASSUME PassEnd
       PROVE  ~InWalk'
  BY <1>11, EndPassFields DEF PassEnd, InWalk, Syncing
<1>12. ASSUME NEW q \in Path, CheckSkip(q) \/ CheckDeleted(q) \/ CheckFile(q)
       PROVE  ~InWalk'
  <2> DEFINE t == [scan EXCEPT !.entries = @ \ {q}]
  <2>1. t \in Scan /\ t.pc = scan.pc
    BY <1>2 DEF Scan
  <2>2. scan.pc = "check"
    BY <1>12 DEF CheckSkip, CheckDeleted, CheckFile
  <2>3. CASE CheckSkip(q)
    BY <1>2, <2>2, <2>3 DEF CheckSkip, InWalk, Syncing, Scan
  <2>4. CASE CheckDeleted(q)
    <3>1. scan'.pc = "retract"
      BY <2>1, <2>2, <2>4, RetractingFields DEF CheckDeleted
    <3> QED
      BY <3>1 DEF InWalk, Syncing
  <2>5. CASE CheckFile(q)
    <3>1. scan'.pc = "sync" /\ scan'.back = "check"
      BY <1>2, <2>5 DEF CheckFile, Scan
    <3> QED
      BY <3>1 DEF InWalk
  <2> QED
    BY <1>12, <2>3, <2>4, <2>5
<1>13. ~InWalk' => WalkInv'
  BY DEF WalkInv
<1> QED
  BY <1>4, <1>5, <1>6, <1>7, <1>8, <1>9, <1>10, <1>11, <1>12, <1>13 DEF Generator

\* A change that is handled takes nothing from the walk, and no row comes from it
\* but of a path that was seen.
LEMMA HandlingKeeps ==
  ASSUME TypeInv, Handling \/ Refused
  PROVE  /\ lost' = lost /\ roots' = roots
         /\ \A p \in Path : row'[p] # None => row[p] # None \/ (scan.pc = "sync" /\ p = Here)
         /\ \/ scan'.pc = "idle"
            \/ /\ scan'.stack = scan.stack /\ scan'.entries = scan.entries
               /\ scan'.seen = scan.seen /\ scan'.unreadable = scan.unreadable
               /\ scan'.sweep = scan.sweep /\ scan'.back = scan.back
               /\ \/ scan'.pc = scan.back
                  \/ scan.pc \in Syncing /\ scan'.pc \in Syncing
                  \/ scan.pc \in Retiring /\ scan'.pc \in Retiring /\ scan'.path = Here
<1> USE DEF configVars, serverVars, treeVars
<1>1. /\ scan.pc \in Syncing \cup Retiring /\ Here \in Path
      /\ scan.pc \in Syncing \ {"sync"} => row[Here] # None
  BY DEF Handling, SyncVanished, SyncRaises, SyncChunked, SyncAbandoned, SyncCommitted,
         RetractServed, SyncMarked, SourceRemoved, Forget, Offline, Requesting, Refused,
         TypeInv, HereInv, Syncing, Retiring
<1>2. lost' = lost /\ roots' = roots
  BY DEF Handling, SyncVanished, SyncRaises, SyncChunked, SyncAbandoned, SyncCommitted,
         RetractServed, SyncMarked, SourceRemoved, Forget, Offline, Refused, Walking
<1>3. \A p \in Path : row'[p] # None => row[p] # None \/ (scan.pc = "sync" /\ p = Here)
  <2>1. CASE SyncVanished \/ SyncAbandoned
    BY <1>1, <2>1, Dirtied DEF SyncVanished, SyncAbandoned, TypeInv
  <2>2. CASE SyncMarked
    BY <1>1, <2>2, Marked DEF SyncMarked, TypeInv, Syncing
  <2>3. CASE SyncChunked
    BY <2>3 DEF SyncChunked, TypeInv, TypeOK
  <2>4. CASE Forget
    BY <2>4 DEF Forget, TypeInv, TypeOK
  <2>5. CASE row' = row
    BY <2>5
  <2> QED
    BY <2>1, <2>2, <2>3, <2>4, <2>5
    DEF Handling, SyncRaises, SyncCommitted, RetractServed, SourceRemoved, Offline, Refused,
        Walking
<1>4. CASE NextChange
  BY <1>1, <1>2, <1>3, <1>4, NextChangeFields
<1>5. CASE EndPass
  BY <1>2, <1>3, <1>5, EndPassFields
<1>6. ASSUME NEW pc \in Syncing \cup Retiring, Goto(pc),
             \/ scan.pc \in Syncing /\ pc \in Syncing
             \/ scan.pc \in Retiring /\ pc \in Retiring
      PROVE  /\ scan'.stack = scan.stack /\ scan'.entries = scan.entries
             /\ scan'.seen = scan.seen /\ scan'.unreadable = scan.unreadable
             /\ scan'.sweep = scan.sweep /\ scan'.back = scan.back
             /\ \/ scan.pc \in Syncing /\ scan'.pc \in Syncing
                \/ scan.pc \in Retiring /\ scan'.pc \in Retiring /\ scan'.path = Here
  BY <1>6, GotoFields DEF Here
<1>7. \/ NextChange \/ EndPass
      \/ scan.pc \in Syncing /\ \E pc \in Syncing : Goto(pc)
      \/ scan.pc \in Retiring /\ \E pc \in Retiring : Goto(pc)
  BY DEF Handling, SyncVanished, SyncRaises, SyncChunked, SyncAbandoned, SyncCommitted,
         RetractServed, SyncMarked, SourceRemoved, Forget, Offline, Refused, Syncing, Retiring
<1> QED
  BY <1>2, <1>3, <1>4, <1>5, <1>6, <1>7

LEMMA WalkStep ==
  ASSUME TypeInv, TypeInv', Searchable, RowInv, WalkInv, [Next]_vars
  PROVE  WalkInv'
<1> USE DEF configVars, serverVars, treeVars
<1>1. CASE \/ \E p \in Path : Write(p) \/ Remove(p)
           \/ \E d \in Dir : MoveAway(d) \/ Replace(d)
           \/ \E d \in Dir, mode \in Modes : Chmod(d, mode)
  <2>1. row' = row /\ scan' = scan /\ roots' = roots
    BY <1>1, TypeUsers
  <2>2. lost \subseteq lost'
    BY <1>1, UsersRemove DEF TypeInv, TypeOK
  <2> QED
    BY <2>1, <2>2 DEF WalkInv, InWalk, Ahead, Unread, InRoots
<1>2. CASE PassBegin
  <2>1. /\ scan'.pc = "pop" /\ scan'.stack = roots /\ roots' = roots
    BY <1>2, RestFields DEF PassBegin, Scan
  <2>2. \A p \in Path : InRoots(p)' => Ahead(p)'
    BY <2>1 DEF InRoots, Ahead, Contains
  <2> QED
    BY <2>2 DEF WalkInv
<1>3. CASE \/ \E rs \in RootSets : Start(rs)
           \/ \E paths \in SUBSET Watched : CheckBegin(paths)
           \/ Crash \/ OpenDirRaises
  <2>1. scan'.pc \in {"idle", "check", "dead"}
    BY <1>3, RestFields DEF Start, CheckBegin, Crash, OpenDirRaises, Scan
  <2> QED
    BY <2>1 DEF WalkInv, InWalk, Syncing
<1>4. ASSUME NEW s \in Server, AnswerLost(s)
      PROVE  WalkInv'
  <2>1. scan'.pc = "idle"
    BY <1>4, EndPassFields DEF AnswerLost
  <2> QED
    BY <2>1 DEF WalkInv, InWalk, Syncing
<1>5. ASSUME NEW s \in Server, ServerDown(s) \/ ServerUp(s)
      PROVE  WalkInv'
  BY <1>5 DEF ServerDown, ServerUp, WalkInv, InWalk, Ahead, Unread, InRoots
<1>6. CASE Generator
  BY <1>6, WalkGenerator
<1>7. CASE Handling \/ Refused
  <2>1. CASE ~InWalk'
    BY <2>1 DEF WalkInv
  <2>2. CASE InWalk'
    <3>1. scan.pc \in Syncing \cup Retiring
      BY <1>7 DEF Handling, SyncVanished, SyncRaises, SyncChunked, SyncAbandoned,
           SyncCommitted, RetractServed, SyncMarked, SourceRemoved, Forget, Offline,
           Requesting, Refused, Syncing, Retiring
    <3>2. /\ scan'.stack = scan.stack /\ scan'.entries = scan.entries
          /\ scan'.seen = scan.seen /\ scan'.unreadable = scan.unreadable
          /\ scan'.back = scan.back
      BY <1>7, <2>2, HandlingKeeps DEF InWalk, Syncing
    <3>3. scan.pc \in Syncing /\ scan.back = "entry"
      BY <1>7, <2>2, <3>1, HandlingKeeps DEF InWalk, TypeInv, HereInv, Syncing, Retiring
    <3>4. InWalk /\ Here \in scan.seen
      BY <3>3 DEF InWalk, TypeInv, HereInv
    <3>5. \A p \in Path : (Ahead(p) => Ahead(p)') /\ (Unread(p) => Unread(p)')
      BY <3>2 DEF Ahead, Unread
    <3> QED
      BY <1>7, <3>2, <3>4, <3>5, HandlingKeeps, Accounted
  <2> QED
    BY <2>1, <2>2
<1>8. CASE UNCHANGED vars
  BY <1>8 DEF vars, WalkInv, InWalk, Ahead, Unread, InRoots
<1> QED
  BY <1>1, <1>2, <1>3, <1>4, <1>5, <1>6, <1>7, <1>8, NextCases

-----------------------------------------------------------------------------
(* The sweep.                                                              *)

LEMMA SweepStep ==
  ASSUME TypeInv, TypeInv', WalkInv, SweepInv, [Next]_vars
  PROVE  SweepInv'
<1> USE DEF configVars, serverVars, treeVars
<1>1. ASSUME InSweep, roots' = roots, lost \subseteq lost', scan'.seen = scan.seen,
             scan'.sweep \subseteq scan.sweep, scan'.unreadable = scan.unreadable
      PROVE  SweepInv'
  BY <1>1 DEF SweepInv, InRoots, Unread
<1>2. ~InSweep' => SweepInv'
  BY DEF SweepInv
<1>3. scan \in Scan
  BY DEF TypeInv, TypeOK
<1>4. CASE \/ \E p \in Path : Write(p) \/ Remove(p)
           \/ \E d \in Dir : MoveAway(d) \/ Replace(d)
           \/ \E d \in Dir, mode \in Modes : Chmod(d, mode)
  <2>1. scan' = scan /\ roots' = roots
    BY <1>4, TypeUsers
  <2>2. lost \subseteq lost'
    BY <1>4, UsersRemove DEF TypeInv, TypeOK
  <2> QED
    BY <1>1, <1>2, <2>1, <2>2 DEF InSweep
<1>5. CASE \/ \E rs \in RootSets : Start(rs)
           \/ \E paths \in SUBSET Watched : CheckBegin(paths)
           \/ \E s \in Server : AnswerLost(s)
           \/ Crash \/ OpenDirRaises \/ PassBegin
  <2>1. scan'.pc \in {"idle", "check", "dead", "pop"}
    BY <1>5, RestFields, EndPassFields
    DEF Start, CheckBegin, AnswerLost, Crash, OpenDirRaises, PassBegin, Scan
  <2> QED
    BY <1>2, <2>1 DEF InSweep, Retiring
<1>6. ASSUME NEW s \in Server, ServerDown(s) \/ ServerUp(s)
      PROVE  SweepInv'
  BY <1>1, <1>2, <1>6 DEF ServerDown, ServerUp, InSweep
<1>7. CASE Handling \/ Refused
  <2>1. CASE InSweep'
    <3>1. scan.pc \in Syncing \cup Retiring
      BY <1>7 DEF Handling, SyncVanished, SyncRaises, SyncChunked, SyncAbandoned,
           SyncCommitted, RetractServed, SyncMarked, SourceRemoved, Forget, Offline,
           Requesting, Refused, Syncing, Retiring
    <3>2. InSweep
      BY <1>7, <2>1, <3>1, HandlingKeeps DEF InSweep, TypeInv, HereInv, Syncing, Retiring
    <3>3. /\ scan'.seen = scan.seen /\ scan'.sweep = scan.sweep
          /\ scan'.unreadable = scan.unreadable /\ lost' = lost /\ roots' = roots
      BY <1>7, <2>1, HandlingKeeps DEF InSweep, Retiring
    <3> QED
      BY <1>1, <3>2, <3>3
  <2> QED
    BY <1>2, <2>1
<1>8. CASE SweepBegin
  <2>1. /\ scan.pc = "pop" /\ scan.stack = {} /\ scan.entries = {}
        /\ scan'.seen = scan.seen /\ scan'.unreadable = scan.unreadable
        /\ scan'.sweep = {p \in Path : row[p] # None}
        /\ roots' = roots /\ lost' = lost
    BY <1>3, <1>8 DEF SweepBegin, AllPaths, Walking, TypeInv, HereInv, Scan
  <2>2. \A p \in Path : ~Ahead(p)
    BY <2>1 DEF Ahead
  <2>3. \A p \in Path \ (lost \cup scan.seen) : row[p] # None /\ InRoots(p) => Unread(p)
    BY <2>1, <2>2 DEF WalkInv, InWalk
  <2> QED
    BY <2>1, <2>3 DEF SweepInv, InRoots, Unread
<1>9. ASSUME NEW q \in Path, SweepPath(q)
      PROVE  SweepInv'
  <2>1. /\ Swept(q) \in Scan /\ Swept(q).sweep = scan.sweep \ {q} /\ scan.pc = "sweep"
        /\ Swept(q).seen = scan.seen /\ Swept(q).unreadable = scan.unreadable
    BY <1>3, <1>9 DEF SweepPath, Swept, Scan
  <2>2. /\ scan'.seen = scan.seen /\ scan'.unreadable = scan.unreadable
        /\ scan'.sweep = scan.sweep \ {q}
    BY <1>9, <2>1, RetractingFields DEF SweepPath
  <2>3. roots' = roots /\ lost' = lost
    BY <1>9 DEF SweepPath, Walking
  <2> QED
    BY <1>1, <2>1, <2>2, <2>3 DEF InSweep
<1>10. ASSUME NEW d \in Dir, OpenDir(d)
       PROVE  ~InSweep'
  <2> DEFINE popped == [scan EXCEPT !.stack = @ \ {d}]
  <2>1. popped \in Scan /\ popped.pc = "pop"
    BY <1>3, <1>10 DEF OpenDir, Scan
  <2>2. scan'.pc \in {"pop", "entry"}
    BY <1>10, <2>1 DEF OpenDir, Scan
  <2> QED
    BY <2>2 DEF InSweep, Retiring
<1>11. CASE \/ \E d \in Dir : WalkDir(d)
            \/ \E p \in Path : WalkSkip(p) \/ CheckSkip(p)
            \/ WalkUp \/ PassEnd
  <2>1. scan'.pc \in {"entry", "check", "pop", "idle"}
    BY <1>3, <1>11, EndPassFields
    DEF WalkDir, WalkSkip, CheckSkip, WalkUp, Goto, PassEnd, Scan
  <2> QED
    BY <1>2, <2>1 DEF InSweep, Retiring
<1>12. ASSUME NEW q \in Path, WalkFile(q) \/ CheckFile(q)
       PROVE  ~InSweep'
  <2>1. scan'.pc \in {"entry", "sync"}
    BY <1>3, <1>12 DEF WalkFile, CheckFile, Scan
  <2> QED
    BY <2>1 DEF InSweep, Retiring
<1>13. ASSUME NEW q \in Path, CheckDeleted(q)
       PROVE  ~InSweep'
  <2> DEFINE t == [scan EXCEPT !.entries = @ \ {q}]
  <2>1. t \in Scan
    BY <1>3 DEF Scan
  <2>2. scan'.pc = "retract" /\ scan'.back = "check"
    BY <1>13, <2>1, RetractingFields DEF CheckDeleted
  <2> QED
    BY <2>2 DEF InSweep
<1>14. CASE UNCHANGED vars
  BY <1>14 DEF vars, SweepInv, InSweep, InRoots, Unread
<1> QED
  BY <1>2, <1>4, <1>5, <1>6, <1>7, <1>8, <1>9, <1>10, <1>11, <1>12, <1>13, <1>14, NextCases
  DEF Generator

\* What is about to be retracted was removed.
LEMMA RetractStep ==
  ASSUME TypeInv, TypeInv', RowInv, SweepInv, OnlyRemovedIsRetracted, [Next]_vars
  PROVE  OnlyRemovedIsRetracted'
<1> USE DEF configVars, serverVars, treeVars
<1>1. scan \in Scan
  BY DEF TypeInv, TypeOK
<1>2. ASSUME scan'.pc # "retract"
      PROVE  OnlyRemovedIsRetracted'
  BY <1>2 DEF OnlyRemovedIsRetracted
<1>3. ASSUME scan' = scan, lost \subseteq lost'
      PROVE  OnlyRemovedIsRetracted'
  BY <1>3 DEF OnlyRemovedIsRetracted, Here
<1>4. CASE \/ \E p \in Path : Write(p) \/ Remove(p)
           \/ \E d \in Dir : MoveAway(d) \/ Replace(d)
           \/ \E d \in Dir, mode \in Modes : Chmod(d, mode)
  <2>1. scan' = scan
    BY <1>4, TypeUsers
  <2>2. lost \subseteq lost'
    BY <1>4, UsersRemove DEF TypeInv, TypeOK
  <2> QED
    BY <1>3, <2>1, <2>2
<1>5. CASE \/ \E rs \in RootSets : Start(rs)
           \/ \E paths \in SUBSET Watched : CheckBegin(paths)
           \/ \E s \in Server : AnswerLost(s)
           \/ Crash \/ OpenDirRaises \/ PassBegin
  <2>1. scan'.pc \in {"idle", "check", "dead", "pop"}
    BY <1>5, RestFields, EndPassFields
    DEF Start, CheckBegin, AnswerLost, Crash, OpenDirRaises, PassBegin, Scan
  <2> QED
    BY <1>2, <2>1
<1>6. ASSUME NEW s \in Server, ServerDown(s) \/ ServerUp(s)
      PROVE  OnlyRemovedIsRetracted'
  BY <1>3, <1>6 DEF ServerDown, ServerUp
<1>7. CASE Handling \/ Refused
  <2>1. NextChange => scan'.pc = scan.back /\ scan.back # "retract"
    BY <1>1 DEF NextChange, Scan
  <2>2. \A pc \in {"commit", "mark", "remove", "removed", "forget"} :
          Goto(pc) => scan'.pc = pc
    BY <1>1 DEF Goto, Scan
  <2>3. \/ NextChange \/ EndPass
        \/ \E pc \in {"commit", "mark", "remove", "removed", "forget"} : Goto(pc)
    BY <1>7 DEF Handling, SyncVanished, SyncRaises, SyncChunked, SyncAbandoned,
         SyncCommitted, RetractServed, SyncMarked, SourceRemoved, Forget, Offline, Refused
  <2>4. scan'.pc # "retract"
    BY <2>1, <2>2, <2>3, EndPassFields
  <2> QED
    BY <1>2, <2>4
<1>8. ASSUME NEW q \in Path, SweepPath(q)
      PROVE  OnlyRemovedIsRetracted'
  <2>1. Swept(q) \in Scan /\ Swept(q).pc = "sweep" /\ scan.pc = "sweep" /\ lost' = lost
    BY <1>1, <1>8 DEF SweepPath, Swept, Scan, Walking
  <2>2. CASE scan' = Swept(q)
    BY <1>2, <2>1, <2>2
  <2>3. CASE scan' # Swept(q)
    <3>1. /\ q \in scan.sweep /\ q \notin scan.seen /\ InRoots(q) /\ ~Unread(q)
          /\ scan' = Retracting(Swept(q), q)
      BY <1>8, <2>3 DEF SweepPath, Unread
    <3>2. q \in lost
      BY <2>1, <3>1 DEF SweepInv, InSweep
    <3>3. scan'.path = q
      BY <2>1, <3>1, RetractingFields
    <3> QED
      BY <2>1, <3>2, <3>3 DEF OnlyRemovedIsRetracted, Here
  <2> QED
    BY <2>2, <2>3
<1>9. ASSUME NEW q \in Path, CheckDeleted(q)
      PROVE  OnlyRemovedIsRetracted'
  <2> DEFINE t == [scan EXCEPT !.entries = @ \ {q}]
  <2>1. t \in Scan
    BY <1>1 DEF Scan
  <2>2. /\ scan.pc = "check" /\ scan' = Retracting(t, q) /\ lost' = lost
        /\ row[q] # None /\ ~Exists(q)
    BY <1>9 DEF CheckDeleted, Walking, NotFound
  <2> HIDE DEF t
  <2>3. scan'.path = q
    BY <2>1, <2>2, RetractingFields
  <2>4. q \in lost
    BY <2>2 DEF RowInv
  <2> QED
    BY <2>2, <2>3, <2>4 DEF OnlyRemovedIsRetracted, Here
<1>10. ASSUME NEW d \in Dir, OpenDir(d)
       PROVE  scan'.pc # "retract"
  <2> DEFINE popped == [scan EXCEPT !.stack = @ \ {d}]
  <2>1. popped \in Scan /\ popped.pc = "pop"
    BY <1>1, <1>10 DEF OpenDir, Scan
  <2> QED
    BY <1>10, <2>1 DEF OpenDir, Scan
<1>11. CASE \/ \E d \in Dir : WalkDir(d)
            \/ \E p \in Path : WalkSkip(p) \/ CheckSkip(p) \/ WalkFile(p) \/ CheckFile(p)
            \/ WalkUp \/ SweepBegin \/ PassEnd
  <2>1. scan'.pc \in {"entry", "check", "sync", "pop", "sweep", "idle"}
    BY <1>1, <1>11, EndPassFields
    DEF WalkDir, WalkSkip, CheckSkip, WalkFile, CheckFile, WalkUp, SweepBegin, Goto,
        PassEnd, Scan
  <2> QED
    BY <1>2, <2>1
<1>12. CASE UNCHANGED vars
  BY <1>3, <1>12 DEF vars
<1> QED
  BY <1>2, <1>4, <1>5, <1>6, <1>7, <1>8, <1>9, <1>10, <1>11, <1>12, NextCases
  DEF Generator

-----------------------------------------------------------------------------
(* Theorems.                                                               *)

\* The types; and run_once() has the path of the change it handles, and the row
\* that mark_synced() and the removal of the source build on.
LEMMA TypeInvariant == Spec => []TypeInv
BY TypeInit, TypeStep, PTL DEF Spec

THEOREM TypeCorrect == Spec => []TypeOK
<1>1. TypeInv => TypeOK
  BY DEF TypeInv
<1> QED
  BY <1>1, TypeInvariant, PTL

\* With one server, whatever the client publishes has a row that will retract it:
\* a lost answer leaves the row that was saved before, a failed retraction its own,
\* and a row is forgotten only when the server has taken the retraction.
THEOREM LiveAlwaysHasRow ==
  ASSUME NEW only, Server = {only}
  PROVE  Spec => []LiveHasRow
<1> DEFINE Inv == TypeInv /\ LiveHasRow /\ RetractedInv
<1>1. Init => Inv
  <2> SUFFICES ASSUME Init
               PROVE  LiveHasRow /\ RetractedInv
    BY TypeInit
  <2>1. None \notin Version
    BY ValueAssumption, BoundAssumption DEF Version
  <2>2. scan.pc = "dead"
    BY RestFields DEF Init
  <2> QED
    BY <2>1, <2>2 DEF Init, LiveHasRow, RetractedInv
<1>2. Inv /\ [Next]_vars => Inv'
  BY TypeStep, LiveStep
<1>3. Inv => LiveHasRow
  OBVIOUS
<1> QED
  BY <1>1, <1>2, <1>3, PTL DEF Spec

\* However the tree changes under the walk, the uploads it stops at and the sweep,
\* whichever directories cannot be listed, whatever roots the next start has, and
\* wherever a pass is cut short: a retraction is of a path the users removed.
\* Directories that can be listed and not searched, and a crash between os.remove
\* and forget, are what the code does not cope with.
THEOREM OnlyRemovedAreRetracted ==
  ASSUME "nosearch" \notin Modes, ~RemovalCrashes
  PROVE  Spec => []OnlyRemovedIsRetracted
<1> DEFINE Inv == /\ TypeInv /\ Searchable /\ RowInv /\ WalkInv /\ SweepInv
                  /\ OnlyRemovedIsRetracted
<1>1. Init => Inv
  <2> SUFFICES ASSUME Init
               PROVE  /\ Searchable /\ RowInv /\ WalkInv /\ SweepInv
                      /\ OnlyRemovedIsRetracted
    BY TypeInit
  <2>1. scan.pc = "dead"
    BY RestFields DEF Init
  <2>2. Searchable /\ RowInv
    BY DEF Init, Searchable, RowInv
  <2> QED
    BY <2>1, <2>2
    DEF WalkInv, InWalk, SweepInv, InSweep, OnlyRemovedIsRetracted, Syncing, Retiring
<1>2. Inv /\ [Next]_vars => Inv'
  <2> SUFFICES ASSUME Inv, [Next]_vars
               PROVE  Inv'
    OBVIOUS
  <2>1. TypeInv'
    BY TypeStep
  <2> QED
    BY <2>1, SearchableStep, RowStep, WalkStep, SweepStep, RetractStep
<1>3. Inv => OnlyRemovedIsRetracted
  OBVIOUS
<1> QED
  BY <1>1, <1>2, <1>3, PTL DEF Spec
=============================================================================
