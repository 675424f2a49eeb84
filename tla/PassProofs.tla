----------------------------- MODULE PassProofs -----------------------------
(***************************************************************************)
(* Theorems about the passes of RunOnce, for any tree, roots, servers,     *)
(* faults and edits: a file that a scan passes over is on a server, and so *)
(* is one that the client has removed itself.                              *)
(***************************************************************************)
EXTENDS RunOnceProofs

Users ==
  \/ \E p \in Path : Write(p) \/ Remove(p)
  \/ \E d \in Dir : MoveAway(d) \/ Replace(d)
  \/ \E d \in Dir, mode \in Modes : Chmod(d, mode)

-----------------------------------------------------------------------------
(* Versions, and what the users can do to the file of a row.               *)

LEMMA VersionNat == Version \subseteq Nat /\ None \notin Version /\ Taken \notin Version
BY ValueAssumption, BoundAssumption DEF Version

\* No user brings a file back to the version in its row: what is written is new,
\* and what left the tree does not come back as it was.
LEMMA UsersRecord ==
  ASSUME ~MovesBack, TypeInv, TypeInv', VersionInv, Users, NEW q \in Path
  PROVE  /\ Recorded(q)' => Recorded(q) /\ disk'[q] = disk[q]
         /\ q \in lost' => q \in lost \/ ~Recorded(q)'
<1> USE DEF TypeInv, TypeOK
<1>1. row' = row
  BY TypeUsers DEF Users
<1>2. ASSUME NEW p \in Path, Write(p)
      PROVE  /\ Recorded(q)' => Recorded(q) /\ disk'[q] = disk[q]
             /\ lost' = lost
  <2>1. /\ dir' = dir /\ lost' = lost
        /\ disk' = [disk EXCEPT ![p] = edits + 1]
    BY <1>2 DEF Write
  <2>2. Recorded(q)' => q # p
    <3> SUFFICES ASSUME Recorded(q)', q = p
                 PROVE  FALSE
      OBVIOUS
    <3>1. row[q].ver = edits + 1 /\ row[q] # None
      BY <1>1, <2>1 DEF Recorded
    <3>2. row[q].ver <= edits /\ edits \in Nat
      BY <3>1, BoundAssumption DEF VersionInv
    <3> QED
      BY <3>1, <3>2
  <2>3. Recorded(q)' => disk'[q] = disk[q]
    BY <2>1, <2>2
  <2> QED
    BY <1>1, <2>1, <2>3, ExistsIn DEF Recorded
<1>3. ASSUME NEW p \in Path, Remove(p)
      PROVE  /\ Recorded(q)' => Recorded(q) /\ disk'[q] = disk[q]
             /\ q \in lost' => q \in lost \/ ~Recorded(q)'
  <2>1. /\ dir' = dir /\ lost' = lost \cup {p}
        /\ disk' = [disk EXCEPT ![p] = None]
    BY <1>3 DEF Remove
  <2>2. Recorded(q)' => q # p
    BY <2>1, VersionNat, ExistsIn DEF Recorded
  <2> QED
    BY <1>1, <2>1, <2>2, ExistsIn DEF Recorded
<1>4. ASSUME NEW d \in Dir, MoveAway(d)
      PROVE  /\ Recorded(q)' => Recorded(q) /\ disk'[q] = disk[q]
             /\ q \in lost' => q \in lost \/ ~Recorded(q)'
  <2>1. disk' = disk /\ dir' = [dir EXCEPT ![d] = "gone"]
        /\ lost' = lost \cup {p \in Path : d \in Above[p]}
    BY <1>4 DEF MoveAway, Contains
  <2>2. Recorded(q)' => d \notin Above[q]
    BY <2>1, ExistsIn DEF Recorded
  <2>3. Recorded(q)' => Exists(q)
    BY <2>1, ExistsIn DEF Recorded
  <2> QED
    BY <1>1, <2>1, <2>2, <2>3 DEF Recorded
<1>5. ASSUME NEW d \in Dir, Replace(d)
      PROVE  /\ Recorded(q)' => Recorded(q) /\ disk'[q] = disk[q]
             /\ lost' = lost
  <2>1. /\ dir' = [e \in Dir |-> IF e = d THEN "ok"
                                 ELSE IF d \in Above[e] THEN "gone" ELSE dir[e]]
        /\ disk' = [p \in Path |-> IF d \in Above[p] THEN None ELSE disk[p]]
        /\ lost' = lost
    BY <1>5 DEF Replace, Contains
  <2>2. Recorded(q)' => d \notin Above[q]
    BY <2>1, VersionNat, ExistsIn DEF Recorded
  <2>3. Recorded(q)' => disk'[q] = disk[q]
    BY <2>1, <2>2
  <2>4. Recorded(q)' => \A e \in Above[q] : dir[e] # "gone"
    BY <2>1, <2>2, ExistsIn DEF Recorded
  <2>5. Recorded(q)' => Exists(q)
    BY <2>3, <2>4, ExistsIn DEF Recorded
  <2> QED
    BY <1>1, <2>1, <2>3, <2>5 DEF Recorded
<1>6. ASSUME NEW d \in Dir, NEW mode \in Modes, Chmod(d, mode)
      PROVE  /\ Recorded(q)' => Recorded(q) /\ disk'[q] = disk[q]
             /\ lost' = lost
  <2>1. dir' = [dir EXCEPT ![d] = mode] /\ disk' = disk /\ lost' = lost
        /\ dir[d] # "gone"
    BY <1>6 DEF Chmod, DirThere
  <2>2. Recorded(q)' => Exists(q)
    BY <2>1, ExistsIn DEF Recorded
  <2> QED
    BY <1>1, <2>1, <2>2 DEF Recorded
<1> QED
  BY <1>2, <1>3, <1>4, <1>5, <1>6 DEF Users

-----------------------------------------------------------------------------
(* What the client does to the rows and to the copies.                     *)

LEMMA DirtiedRow ==
  ASSUME TypeOK, NEW p \in Path, MarkDirty(p), NEW q \in Path
  PROVE  /\ q # p => row'[q] = row[q]
         /\ row[q] = None => row'[q] = None
         /\ row[q] # None => row'[q] # None /\ row'[q].ver = row[q].ver
         /\ row'[p] # None => row'[p].state = "dirty"
<1>1. CASE row[p] = None
  BY <1>1 DEF MarkDirty
<1>2. CASE row[p] # None
  <2> DEFINE rec == [row[p] EXCEPT !.state = "dirty"]
  <2>1. row[p] \in Record
    BY <1>2 DEF TypeOK
  <2>2. rec \in Record /\ rec.ver = row[p].ver /\ rec.state = "dirty"
    BY <2>1 DEF Record
  <2>3. row' = [row EXCEPT ![p] = rec]
    BY <1>2 DEF MarkDirty
  <2> HIDE DEF rec
  <2> QED
    BY <1>2, <2>2, <2>3, ValueAssumption DEF TypeOK
<1> QED
  BY <1>1, <1>2

LEMMA MarkedRow ==
  ASSUME TypeInv, SyncMarked, NEW q \in Path
  PROVE  /\ Here \in Path /\ row[Here] # None
         /\ q # Here => row'[q] = row[q]
         /\ row'[Here] # None /\ row'[Here].ver = row[Here].ver
<1> DEFINE rec == [row[Here] EXCEPT !.state = "synced"]
<1>1. Here \in Path /\ row[Here] # None
  BY DEF SyncMarked, TypeInv, HereInv, Syncing
<1>2. row[Here] \in Record
  BY <1>1 DEF TypeInv, TypeOK
<1>3. rec \in Record /\ rec.ver = row[Here].ver
  BY <1>2 DEF Record
<1>4. row' = [row EXCEPT ![Here] = rec]
  BY DEF SyncMarked
<1> HIDE DEF rec
<1> QED
  BY <1>1, <1>3, <1>4, ValueAssumption DEF TypeInv, TypeOK

LEMMA PublishedHere ==
  ASSUME TypeOK, NEW s \in Server, Here \in Path, Publish(s)
  PROVE  published'[s][Here] = row[Here].ver
<1> DEFINE copies == [published[s] EXCEPT ![Here] = row[Here].ver]
<1>1. copies[Here] = row[Here].ver
  BY DEF TypeOK
<1>2. published' = [published EXCEPT ![s] = copies]
  BY DEF Publish
<1> HIDE DEF copies
<1> QED
  BY <1>1, <1>2 DEF TypeOK

LEMMA RetractedElsewhere ==
  ASSUME TypeOK, NEW s \in Server, Here \in Path, Retract(s)
  PROVE  \A t \in Server, p \in Path : p # Here => published'[t][p] = published[t][p]
<1> DEFINE copies == [published[s] EXCEPT ![Here] = IF @ = None THEN @ ELSE Tombstone]
<1>1. \A p \in Path : p # Here => copies[p] = published[s][p]
  BY DEF TypeOK
<1>2. published' = [published EXCEPT ![s] = copies]
  BY DEF Retract
<1> HIDE DEF copies
<1> QED
  BY <1>1, <1>2 DEF TypeOK

\* The steps of the servers, of the loop, and the failures.
Faults ==
  \/ \E s \in Server : ServerDown(s) \/ ServerUp(s) \/ AnswerLost(s)
  \/ \E rs \in RootSets : Start(rs)
  \/ \E paths \in SUBSET Watched : CheckBegin(paths)
  \/ Crash \/ OpenDirRaises \/ Refused \/ PassBegin

\* The client touches no row but that of its change, and only chunking a file
\* gives a row another version.
LEMMA ClientRow ==
  ASSUME TypeInv, Faults \/ Generator \/ Handling, NEW q \in Path
  PROVE  /\ dir' = dir /\ edits' = edits
         /\ \/ disk'[q] = disk[q]
            \/ disk'[q] = Taken
         /\ \/ row'[q] = row[q]
            \/ row'[q] = None
            \/ row'[q] # None /\ row[q] # None /\ row'[q].ver = row[q].ver
            \/ /\ SyncChunked /\ q = Here
               /\ row'[q] = [state |-> "chunked", ver |-> disk[q]]
<1> USE DEF treeVars
<1>1. CASE Faults
  BY <1>1 DEF Faults, ServerDown, ServerUp, AnswerLost, Start, CheckBegin, Crash,
              OpenDirRaises, Refused, PassBegin
<1>2. CASE Generator
  BY <1>2, TypeGenerator
<1>3. CASE SyncVanished \/ SyncAbandoned
  <2>1. MarkDirty(Here) /\ Here \in Path /\ UNCHANGED <<disk, dir, edits>>
    BY <1>3 DEF SyncVanished, SyncAbandoned, TypeInv, HereInv, Syncing
  <2> QED
    BY <2>1, DirtiedRow DEF TypeInv
<1>4. CASE SyncChunked
  BY <1>4 DEF SyncChunked, TypeInv, TypeOK
<1>5. CASE SyncMarked
  <2>1. UNCHANGED <<disk, dir, edits>>
    BY <1>5 DEF SyncMarked
  <2> QED
    BY <1>5, <2>1, MarkedRow
<1>6. CASE Forget
  BY <1>6 DEF Forget, TypeInv, TypeOK
<1>7. CASE SourceRemoved
  BY <1>7 DEF SourceRemoved, TypeInv, TypeOK
<1>8. CASE SyncRaises \/ Offline \/ \E s \in Server : SyncCommitted(s) \/ RetractServed(s)
  BY <1>8 DEF SyncRaises, Offline, SyncCommitted, RetractServed, Walking
<1> QED
  BY <1>1, <1>2, <1>3, <1>4, <1>5, <1>6, <1>7, <1>8 DEF Handling

\* So no file comes to have a current row but the one that is chunked.
LEMMA ClientRecord ==
  ASSUME TypeInv, Faults \/ Generator \/ Handling, NEW q \in Path, Recorded(q)'
  PROVE  /\ Recorded(q) \/ (SyncChunked /\ q = Here)
         /\ disk'[q] = disk[q]
<1>1. disk'[q] \in Version /\ row'[q] # None /\ row'[q].ver = disk'[q]
  BY ExistsIn DEF Recorded
<1>2. disk'[q] = disk[q] /\ dir' = dir
  BY <1>1, ClientRow, VersionNat
<1>3. Exists(q)
  BY <1>2, ExistsIn DEF Recorded
<1>4. CASE row'[q] = row[q]
  BY <1>1, <1>2, <1>3, <1>4 DEF Recorded
<1>5. CASE row[q] # None /\ row'[q].ver = row[q].ver
  BY <1>1, <1>2, <1>3, <1>5 DEF Recorded
<1> QED
  BY <1>1, <1>2, <1>4, <1>5, ClientRow

-----------------------------------------------------------------------------
(* Where a step of the generator leads.                                    *)

\* Only the sweep and the check come to a retraction, each of a path it looked at;
\* what the walk has seen stays seen.
LEMMA GeneratorGoes ==
  ASSUME TypeInv, Generator
  PROVE  /\ scan'.pc \in {"pop", "entry", "sweep", "check", "sync", "idle", "retract"}
         /\ InWalk' \/ InSweep' =>
              (InWalk \/ InSweep) /\ scan.seen \subseteq scan'.seen
         /\ scan'.pc = "retract" =>
              \/ \E q \in Path :
                   /\ scan'.path = q /\ scan.pc = "sweep"
                   /\ q \in scan.sweep \ scan.seen /\ InRoots(q) /\ ~Unread(q)
              \/ \E q \in Path : scan'.path = q /\ ~Exists(q)
<1> DEFINE Goes == /\ scan'.pc \in {"pop", "entry", "sweep", "sync"}
                   /\ InWalk \/ InSweep
                   /\ scan.seen \subseteq scan'.seen
<1>1. scan \in Scan
  BY DEF TypeInv, TypeOK
<1>2. ASSUME NEW d \in Dir, OpenDir(d)
      PROVE  Goes
  <2> DEFINE popped == [scan EXCEPT !.stack = @ \ {d}]
  <2>1. popped \in Scan /\ popped.pc = "pop" /\ popped.seen = scan.seen
    BY <1>1, <1>2 DEF OpenDir, Scan
  <2> HIDE DEF popped
  <2>2. scan'.pc \in {"pop", "entry"} /\ scan'.seen = scan.seen
    BY <1>2, <2>1 DEF OpenDir, Scan, popped
  <2> QED
    BY <1>2, <2>2 DEF OpenDir, InWalk
<1>3. ASSUME NEW d \in Dir, WalkDir(d)
      PROVE  Goes
  BY <1>1, <1>3 DEF WalkDir, InWalk, Scan
<1>4. ASSUME NEW p \in Path, WalkSkip(p)
      PROVE  Goes
  BY <1>1, <1>4 DEF WalkSkip, InWalk, Scan
<1>5. ASSUME NEW p \in Path, WalkFile(p)
      PROVE  Goes
  <2> DEFINE saw == [scan EXCEPT !.entries = @ \ {p}, !.seen = @ \cup {p}]
  <2>1. saw \in Scan /\ saw.pc = "entry" /\ saw.seen = scan.seen \cup {p}
    BY <1>1, <1>5 DEF WalkFile, Scan
  <2>2. \/ scan' = [saw EXCEPT !.pc = "sync", !.path = p, !.back = "entry"]
        \/ scan' = saw
    BY <1>5 DEF WalkFile
  <2> HIDE DEF saw
  <2>3. scan'.pc \in {"sync", "entry"} /\ scan'.seen = scan.seen \cup {p}
    BY <2>1, <2>2 DEF Scan
  <2> QED
    BY <1>5, <2>3 DEF WalkFile, InWalk
<1>6. ASSUME WalkUp
      PROVE  Goes
  BY <1>1, <1>6 DEF WalkUp, Goto, InWalk, Scan
<1>7. ASSUME SweepBegin
      PROVE  Goes
  <2>1. scan'.pc = "sweep" /\ scan'.seen = scan.seen
    BY <1>1, <1>7 DEF SweepBegin, Scan
  <2> QED
    BY <1>7, <2>1 DEF SweepBegin, InWalk
<1>8. ASSUME NEW p \in Path, SweepPath(p)
      PROVE  /\ scan'.pc \in {"sweep", "retract"} /\ InSweep
             /\ scan'.seen = scan.seen
             /\ scan'.pc = "retract" =>
                  /\ scan'.path = p /\ scan.pc = "sweep"
                  /\ p \in scan.sweep \ scan.seen /\ InRoots(p) /\ ~Unread(p)
  <2>1. /\ Swept(p) \in Scan /\ Swept(p).pc = "sweep" /\ scan.pc = "sweep"
        /\ Swept(p).seen = scan.seen
    BY <1>1, <1>8 DEF SweepPath, Swept, Scan
  <2>2. CASE scan' = Swept(p)
    BY <2>1, <2>2 DEF InSweep
  <2>3. CASE scan' # Swept(p)
    <3>1. /\ p \in scan.sweep /\ p \notin scan.seen /\ InRoots(p) /\ ~Unread(p)
          /\ scan' = Retracting(Swept(p), p)
      BY <1>8, <2>3 DEF SweepPath, Unread
    <3>2. scan'.path = p /\ scan'.pc = "retract" /\ scan'.seen = scan.seen
      BY <2>1, <3>1, RetractingFields
    <3> QED
      BY <2>1, <3>1, <3>2 DEF InSweep
  <2> QED
    BY <2>2, <2>3
<1>9. ASSUME PassEnd
      PROVE  scan'.pc = "idle"
  BY <1>9, EndPassFields DEF PassEnd
<1>10. ASSUME NEW p \in Path, CheckSkip(p)
       PROVE  scan'.pc = "check"
  BY <1>1, <1>10 DEF CheckSkip, Scan
<1>11. ASSUME NEW p \in Path, CheckDeleted(p)
       PROVE  /\ scan'.pc = "retract" /\ scan'.back = "check"
              /\ scan'.path = p /\ ~Exists(p)
  <2> DEFINE t == [scan EXCEPT !.entries = @ \ {p}]
  <2>1. t \in Scan
    BY <1>1 DEF Scan
  <2>2. scan.pc = "check" /\ scan' = Retracting(t, p) /\ ~Exists(p)
    BY <1>11 DEF CheckDeleted, NotFound
  <2> HIDE DEF t
  <2> QED
    BY <2>1, <2>2, RetractingFields
<1>12. ASSUME NEW p \in Path, CheckFile(p)
       PROVE  scan'.pc = "sync" /\ scan'.back = "check"
  BY <1>1, <1>12 DEF CheckFile, Scan
<1>13. /\ scan'.pc \in {"idle", "check"} => ~InWalk' /\ ~InSweep'
       /\ scan'.pc \in {"sync", "retract"} /\ scan'.back = "check" =>
            ~InWalk' /\ ~InSweep'
  BY DEF InWalk, InSweep, Syncing, Retiring
<1>14. \/ Goes \/ PassEnd
       \/ \E p \in Path : SweepPath(p) \/ CheckDeleted(p) \/ CheckSkip(p) \/ CheckFile(p)
  BY <1>2, <1>3, <1>4, <1>5, <1>6, <1>7 DEF Generator
<1> QED
  BY <1>8, <1>9, <1>10, <1>11, <1>12, <1>13, <1>14

-----------------------------------------------------------------------------
(* The invariant: versions, what is retracted, what is marked.             *)

LEMMA StepCases ==
  ASSUME [Next]_vars
  PROVE  Users \/ Faults \/ Generator \/ Handling \/ UNCHANGED vars
BY NextCases DEF Users, Faults

LEMMA VersionStep ==
  ASSUME TypeInv, TypeInv', VersionInv, [Next]_vars
  PROVE  VersionInv'
<1>1. \A p \in Path : row[p] # None => row[p].ver \in Nat
  BY VersionNat DEF TypeInv, TypeOK, Record
<1>2. edits \in Nat
  BY BoundAssumption DEF TypeInv, TypeOK
<1>3. CASE Users
  <2>1. edits' = edits + 1 /\ row' = row
    BY <1>3, TypeUsers DEF Users, Write, Remove, MoveAway, Replace, Chmod, Edit
  <2>2. ASSUME NEW q \in Path, disk'[q] \in Version
        PROVE  disk'[q] = disk[q] \/ disk'[q] = edits + 1
    <3> USE DEF TypeInv, TypeOK
    <3>1. ASSUME NEW p \in Path, Write(p)
          PROVE  disk'[q] = disk[q] \/ disk'[q] = edits + 1
      BY <3>1 DEF Write
    <3>2. ASSUME NEW p \in Path, Remove(p)
          PROVE  disk'[q] = disk[q]
      BY <2>2, <3>2, VersionNat DEF Remove
    <3>3. ASSUME NEW d \in Dir, MoveAway(d)
          PROVE  disk'[q] = disk[q]
      BY <3>3 DEF MoveAway
    <3>4. ASSUME NEW d \in Dir, Replace(d)
          PROVE  disk'[q] = disk[q]
      BY <2>2, <3>4, VersionNat DEF Replace
    <3>5. ASSUME NEW d \in Dir, NEW mode \in Modes, Chmod(d, mode)
          PROVE  disk'[q] = disk[q]
      BY <3>5 DEF Chmod
    <3> QED
      BY <1>3, <3>1, <3>2, <3>3, <3>4, <3>5 DEF Users
  <2>3. \A p \in Path : disk[p] \in Version => disk[p] \in Nat
    BY VersionNat
  <2>4. \A p \in Path : disk'[p] \in Version => disk'[p] <= edits + 1
    BY <1>2, <2>2, <2>3 DEF VersionInv
  <2>5. \A p \in Path : row[p] # None => row[p].ver <= edits + 1
    BY <1>1, <1>2 DEF VersionInv
  <2> QED
    BY <2>1, <2>4, <2>5 DEF VersionInv
<1>4. CASE Faults \/ Generator \/ Handling
  <2>1. edits' = edits \/ Path = {}
    BY <1>4, ClientRow
  <2>2. ASSUME NEW q \in Path
        PROVE  /\ disk'[q] \in Version => disk'[q] = disk[q]
               /\ row'[q] # None =>
                    \/ row[q] # None /\ row'[q].ver = row[q].ver
                    \/ disk[q] \in Version /\ row'[q].ver = disk[q]
    <3>1. disk'[q] \in Version => disk'[q] = disk[q]
      BY <1>4, ClientRow, VersionNat
    <3>2. ASSUME SyncChunked, q = Here,
                 row'[q] = [state |-> "chunked", ver |-> disk[q]]
          PROVE  disk[q] \in Version /\ row'[q].ver = disk[q]
      BY <3>2 DEF SyncChunked, CanStat, Exists
    <3>3. CASE row'[q] = row[q] \/ row'[q] = None
      BY <3>1, <3>3
    <3> QED
      BY <1>4, <3>1, <3>2, <3>3, ClientRow
  <2> QED
    BY <2>1, <2>2 DEF VersionInv
<1>5. CASE UNCHANGED vars
  BY <1>5 DEF vars, VersionInv
<1> QED
  BY <1>3, <1>4, <1>5, StepCases

\* mark_synced() is reached from a commit that was served, and from nowhere else.
LEMMA SyncMarkStep ==
  ASSUME TypeInv, TypeInv', SyncMarkInv, [Next]_vars
  PROVE  SyncMarkInv'
<1> USE DEF configVars, serverVars, treeVars
<1>1. scan \in Scan
  BY DEF TypeInv, TypeOK
<1>2. scan'.pc # "mark" => SyncMarkInv'
  BY DEF SyncMarkInv
<1>3. ASSUME scan' = scan, row' = row, published' = published
      PROVE  SyncMarkInv'
  BY <1>3 DEF SyncMarkInv, Here
<1>4. CASE Users
  BY <1>3, <1>4, TypeUsers DEF Users
<1>5. ASSUME NEW s \in Server, ServerDown(s) \/ ServerUp(s)
      PROVE  SyncMarkInv'
  BY <1>3, <1>5 DEF ServerDown, ServerUp
<1>6. CASE \/ \E rs \in RootSets : Start(rs)
           \/ \E paths \in SUBSET Watched : CheckBegin(paths)
           \/ \E s \in Server : AnswerLost(s)
           \/ Crash \/ OpenDirRaises \/ PassBegin
  <2>1. scan'.pc \in {"idle", "check", "dead", "pop"}
    BY <1>6, RestFields, EndPassFields
    DEF Start, CheckBegin, AnswerLost, Crash, OpenDirRaises, PassBegin, Scan
  <2> QED
    BY <1>2, <2>1
<1>7. ASSUME NEW s \in Server, SyncCommitted(s)
      PROVE  SyncMarkInv'
  <2>1. Here \in Path /\ Publish(s) /\ row' = row
    BY <1>7 DEF SyncCommitted, TypeInv, HereInv, Syncing
  <2>2. scan'.path = Here
    BY <1>7, GotoFields DEF SyncCommitted, Here, Syncing
  <2>3. published'[s][Here] = row[Here].ver
    BY <2>1, PublishedHere DEF TypeInv
  <2> QED
    BY <2>1, <2>2, <2>3 DEF SyncMarkInv, Here
<1>8. CASE \/ SyncVanished \/ SyncRaises \/ SyncChunked \/ SyncAbandoned \/ SyncMarked
           \/ SourceRemoved \/ Forget \/ Offline \/ Refused
           \/ \E s \in Server : RetractServed(s)
  <2>1. NextChange => scan'.pc = scan.back /\ scan.back # "mark"
    BY <1>1 DEF NextChange, Scan
  <2>2. \A pc \in {"commit", "remove", "removed", "forget"} : Goto(pc) => scan'.pc = pc
    BY <1>1 DEF Goto, Scan
  <2>3. \/ NextChange \/ EndPass
        \/ \E pc \in {"commit", "remove", "removed", "forget"} : Goto(pc)
    BY <1>8 DEF SyncVanished, SyncRaises, SyncChunked, SyncAbandoned,
         RetractServed, SyncMarked, SourceRemoved, Forget, Offline, Refused
  <2> QED
    BY <1>2, <2>1, <2>2, <2>3, EndPassFields
<1>9. CASE Generator
  <2>1. scan.pc \in {"pop", "entry", "sweep", "check"}
    BY <1>9 DEF Generator, OpenDir, WalkDir, WalkSkip, WalkFile, SweepPath, WalkUp,
                SweepBegin, PassEnd, CheckSkip, CheckDeleted, CheckFile
  <2>2. scan'.pc # "mark"
    BY <1>9, GeneratorGoes
  <2> QED
    BY <1>2, <2>2
<1>10. CASE UNCHANGED vars
  BY <1>3, <1>10 DEF vars
<1> QED
  BY <1>4, <1>5, <1>6, <1>7, <1>8, <1>9, <1>10, StepCases DEF Faults, Handling

\* StaleInv, by paths.
LEMMA StaleAt ==
  ASSUME TypeInv',
         \A q \in Path : scan'.pc = "retract" /\ scan'.path = q => ~Recorded(q)',
         InWalk' \/ InSweep' => \A q \in lost' \ scan'.seen : ~Recorded(q)'
  PROVE  StaleInv'
<1>1. scan'.pc = "retract" => scan'.path \in Path
  BY DEF TypeInv, HereInv, Here, Retiring
<1>2. scan'.pc = "retract" => ~Recorded(Here)'
  <2> SUFFICES ASSUME scan'.pc = "retract"
               PROVE  ~Recorded(Here)'
    OBVIOUS
  <2>1. PICK q \in Path : q = scan'.path
    BY <1>1
  <2>2. ~Recorded(q)'
    BY <2>1
  <2> QED
    BY <2>1, <2>2 DEF Recorded, Exists, DirThere, Here
<1> QED
  BY <1>2 DEF StaleInv

\* No step makes a record current that is to be retracted, or that the walk has
\* still to come to.
LEMMA StaleStep ==
  ASSUME ~MovesBack, TypeInv, TypeInv', VersionInv, SweepInv, StaleInv, [Next]_vars
  PROVE  StaleInv'
<1> USE DEF configVars, serverVars, treeVars
<1> DEFINE Away(q) == scan'.pc = "retract" /\ scan'.path = q => ~Recorded(q)'
           Left(q) == (InWalk' \/ InSweep') /\ q \in lost' \ scan'.seen => ~Recorded(q)'
<1> SUFFICES ASSUME NEW q \in Path
             PROVE  Away(q) /\ Left(q)
  BY StaleAt DEF TypeInv, TypeOK
<1>1. scan \in Scan
  BY DEF TypeInv, TypeOK
<1>2. /\ scan.pc = "retract" /\ scan.path = q => ~Recorded(q)
      /\ InWalk \/ InSweep => (q \in lost \ scan.seen => ~Recorded(q))
  BY DEF StaleInv, Here
<1>3. CASE Users
  <2>1. scan' = scan /\ (InWalk' <=> InWalk) /\ (InSweep' <=> InSweep)
    BY <1>3, TypeUsers DEF Users, InWalk, InSweep
  <2>2. /\ Recorded(q)' => Recorded(q)
        /\ q \in lost' => q \in lost \/ ~Recorded(q)'
    BY <1>3, UsersRecord
  <2> QED
    BY <1>2, <2>1, <2>2
<1>4. CASE PassBegin \/ \E paths \in SUBSET Watched : CheckBegin(paths)
  <2>1. /\ UNCHANGED <<disk, dir, row>>
        /\ lost' = {p \in Path : RemovedByUser(p)}
        /\ scan'.pc \in {"pop", "check"}
    BY <1>4, RestFields DEF PassBegin, CheckBegin, Scan
  <2>2. q \in lost' => ~Exists(q)
    BY <2>1 DEF RemovedByUser
  <2>3. q \in lost' => ~Recorded(q)'
    BY <2>1, <2>2, ExistsIn DEF Recorded
  <2> QED
    BY <2>1, <2>3
<1>5. CASE \/ \E rs \in RootSets : Start(rs)
           \/ \E s \in Server : AnswerLost(s)
           \/ Crash \/ OpenDirRaises
  <2>1. scan'.pc \in {"idle", "dead"}
    BY <1>5, RestFields, EndPassFields DEF Start, AnswerLost, Crash, OpenDirRaises, Scan
  <2> QED
    BY <2>1 DEF InWalk, InSweep, Syncing, Retiring
<1>6. ASSUME NEW s \in Server, ServerDown(s) \/ ServerUp(s)
      PROVE  Away(q) /\ Left(q)
  <2>1. UNCHANGED <<disk, dir, lost, row, scan>>
    BY <1>6 DEF ServerDown, ServerUp
  <2>2. (Recorded(q)' => Recorded(q)) /\ (InWalk' <=> InWalk) /\ (InSweep' <=> InSweep)
    BY <2>1, ExistsIn DEF Recorded, InWalk, InSweep
  <2> QED
    BY <1>2, <2>1, <2>2
<1>7. CASE Generator
  <2>1. UNCHANGED <<disk, dir, lost, row>>
    BY <1>7, TypeGenerator
  <2>2. Recorded(q)' => Recorded(q)
    BY <2>1, ExistsIn DEF Recorded
  <2>3. Left(q)
    BY <1>2, <1>7, <2>1, <2>2, GeneratorGoes
  <2>4. ASSUME q \in scan.sweep \ scan.seen, InRoots(q), ~Unread(q), scan.pc = "sweep"
        PROVE  ~Recorded(q)
    BY <1>2, <2>4 DEF SweepInv, InSweep
  <2>5. Recorded(q) => Exists(q)
    BY DEF Recorded
  <2>6. Away(q)
    BY <1>7, <2>2, <2>4, <2>5, GeneratorGoes
  <2> QED
    BY <2>3, <2>6
<1>8. CASE Handling \/ Refused
  <2>1. scan.pc \in Syncing \cup Retiring
    BY <1>8 DEF Handling, SyncVanished, SyncRaises, SyncChunked, SyncAbandoned,
         SyncCommitted, RetractServed, SyncMarked, SourceRemoved, Forget, Offline,
         Requesting, Refused, Syncing, Retiring
  <2>2. scan'.pc # "retract"
    <3>1. NextChange => scan'.pc = scan.back /\ scan.back # "retract"
      BY <1>1 DEF NextChange, Scan
    <3>2. \A pc \in {"commit", "mark", "remove", "removed", "forget"} :
            Goto(pc) => scan'.pc = pc
      BY <1>1 DEF Goto, Scan
    <3>3. \/ NextChange \/ EndPass
          \/ \E pc \in {"commit", "mark", "remove", "removed", "forget"} : Goto(pc)
      BY <1>8 DEF Handling, SyncVanished, SyncRaises, SyncChunked, SyncAbandoned,
           SyncCommitted, RetractServed, SyncMarked, SourceRemoved, Forget, Offline, Refused
    <3> QED
      BY <3>1, <3>2, <3>3, EndPassFields
  <2>3. CASE InWalk' \/ InSweep'
    <3>1. /\ lost' = lost /\ scan'.seen = scan.seen /\ scan'.back = scan.back
          /\ \/ scan'.pc = scan.back
             \/ scan.pc \in Syncing /\ scan'.pc \in Syncing
             \/ scan.pc \in Retiring /\ scan'.pc \in Retiring
      BY <1>8, <2>3, HandlingKeeps DEF InWalk, InSweep, Syncing, Retiring
    <3>2. \/ scan.pc \in Syncing /\ scan.back = "entry"
          \/ scan.pc \in Retiring /\ scan.back = "sweep"
      BY <2>1, <2>3, <3>1 DEF InWalk, InSweep, TypeInv, HereInv, Syncing, Retiring
    <3>3. InWalk \/ InSweep
      BY <3>2 DEF InWalk, InSweep
    <3>4. SyncChunked => Here \in scan.seen
      BY <3>2 DEF SyncChunked, TypeInv, HereInv, Syncing, Retiring
    <3>5. Recorded(q)' => Recorded(q) \/ q \in scan.seen
      BY <1>8, <3>4, ClientRecord DEF Faults
    <3> QED
      BY <1>2, <2>2, <3>1, <3>3, <3>5
  <2> QED
    BY <2>2, <2>3
<1>9. CASE UNCHANGED vars
  <2>1. UNCHANGED <<disk, dir, lost, row, scan>>
    BY <1>9 DEF vars
  <2>2. (Recorded(q)' => Recorded(q)) /\ (InWalk' <=> InWalk) /\ (InSweep' <=> InSweep)
    BY <2>1, ExistsIn DEF Recorded, InWalk, InSweep
  <2> QED
    BY <1>2, <2>1, <2>2
<1> HIDE DEF Away, Left
<1> QED
  BY <1>3, <1>4, <1>5, <1>6, <1>7, <1>8, <1>9, StepCases DEF Faults

-----------------------------------------------------------------------------
(* A file that is passed over has its copy.                                *)

LEMMA PassedOver ==
  ASSUME NEW p \in Path
  PROVE  /\ Exists(p) /\ Unchanged(p) =>
              /\ row[p] # None /\ row[p].state = "synced" /\ row[p].ver = disk[p]
              /\ Recorded(p)
         /\ Exists(p)' /\ Unchanged(p)' =>
              /\ row'[p] # None /\ row'[p].state = "synced" /\ row'[p].ver = disk'[p]
              /\ Recorded(p)'
<1> DEFINE Rec(v) == [state |-> "synced", ver |-> v]
<1>1. ASSUME NEW v \in Version
      PROVE  Rec(v) # None /\ Rec(v).state = "synced" /\ Rec(v).ver = v
  <2>1. Rec(v) \in Record /\ Rec(v).state = "synced" /\ Rec(v).ver = v
    BY DEF Record
  <2> HIDE DEF Rec
  <2> QED
    BY <2>1, ValueAssumption
<1>2. /\ Exists(p) => disk[p] \in Version
      /\ Exists(p)' => disk'[p] \in Version
  BY ExistsIn
<1>3. /\ Unchanged(p) => row[p] = Rec(disk[p])
      /\ Unchanged(p)' => row'[p] = Rec(disk'[p])
  BY DEF Unchanged
<1> HIDE DEF Rec
<1> QED
  BY <1>1, <1>2, <1>3 DEF Recorded

\* The copies of a path that the step leaves alone.
LEMMA CopiedAlone ==
  ASSUME NEW p \in Path, dir' = dir, disk'[p] = disk[p], row'[p] = row[p],
         \A s \in Server : published'[s][p] = published[s][p],
         Exists(p) /\ Unchanged(p) => Copied(p)
  PROVE  (Exists(p) /\ Unchanged(p) => Copied(p))'
BY ExistsIn DEF Unchanged, Copied

LEMMA CopiedStep ==
  ASSUME ~MovesBack, TypeInv, TypeInv', VersionInv, StaleInv, SyncMarkInv,
         UnchangedIsCopied, [Next]_vars
  PROVE  UnchangedIsCopied'
<1> USE DEF configVars, serverVars, treeVars
<1> DEFINE Held(p) == (Exists(p) /\ Unchanged(p) => Copied(p))'
<1> SUFFICES ASSUME NEW p \in Path
             PROVE  Held(p)
  BY DEF UnchangedIsCopied
<1>1. Exists(p) /\ Unchanged(p) => Copied(p)
  BY DEF UnchangedIsCopied
<1>2. scan.pc \in Syncing \cup Retiring => Here \in Path
  BY DEF TypeInv, HereInv
<1>3. ASSUME dir' = dir, disk'[p] = disk[p], row'[p] = row[p], published' = published
      PROVE  Held(p)
  BY <1>1, <1>3, CopiedAlone
<1>4. ASSUME NEW s \in Server, Publish(s), Here \in Path, row[Here] # None,
             UNCHANGED <<disk, dir, row>>
      PROVE  Held(p)
  <2>1. CASE p # Here
    BY <1>1, <1>4, <2>1, Published, CopiedAlone DEF TypeInv
  <2>2. CASE p = Here
    <3>1. published'[s][p] = row'[p].ver
      BY <1>4, <2>2, PublishedHere DEF TypeInv
    <3>2. (Exists(p) /\ Unchanged(p))' => row'[p].ver = disk'[p]
      BY PassedOver
    <3> QED
      BY <3>1, <3>2 DEF Copied
  <2> QED
    BY <2>1, <2>2
<1>5. ASSUME NEW s \in Server, Retract(s), scan.pc = "retract", UNCHANGED <<disk, dir, row>>
      PROVE  Held(p)
  <2>1. Here \in Path
    BY <1>2, <1>5 DEF Retiring
  <2>2. CASE p # Here
    BY <1>1, <1>5, <2>1, <2>2, RetractedElsewhere, CopiedAlone DEF TypeInv
  <2>3. CASE p = Here
    <3>1. ~Recorded(p)
      BY <1>5, <2>3 DEF StaleInv
    <3>2. ~(Exists(p) /\ Unchanged(p))
      BY <3>1, PassedOver
    <3>3. ~(Exists(p) /\ Unchanged(p))'
      BY <1>5, <3>2, ExistsIn DEF Unchanged
    <3> QED
      BY <3>3
  <2> QED
    BY <2>2, <2>3
<1>6. CASE Users
  <2>1. row' = row /\ published' = published
    BY <1>6, TypeUsers DEF Users
  <2>2. ASSUME (Exists(p) /\ Unchanged(p))'
        PROVE  Copied(p)'
    <3>1. Recorded(p)'
      BY <2>2, PassedOver
    <3>2. Recorded(p) /\ disk'[p] = disk[p]
      BY <1>6, <3>1, UsersRecord
    <3> QED
      BY <1>1, <2>1, <2>2, <3>2 DEF Recorded, Unchanged, Copied
  <2> QED
    BY <2>2
<1>7. ASSUME NEW s \in Server, AnswerLost(s)
      PROVE  Held(p)
  BY <1>2, <1>4, <1>5, <1>7 DEF AnswerLost, Requesting, Syncing, TypeInv, HereInv
<1>8. CASE \/ \E s \in Server : ServerDown(s) \/ ServerUp(s)
           \/ \E rs \in RootSets : Start(rs)
           \/ \E paths \in SUBSET Watched : CheckBegin(paths)
           \/ Crash \/ OpenDirRaises \/ Refused \/ PassBegin
  BY <1>3, <1>8
  DEF ServerDown, ServerUp, Start, CheckBegin, Crash, OpenDirRaises, Refused, PassBegin
<1>9. CASE Generator
  BY <1>3, <1>9, TypeGenerator
<1>10. CASE SyncVanished \/ SyncAbandoned
  <2>1. MarkDirty(Here) /\ Here \in Path /\ UNCHANGED <<disk, dir, published>>
    BY <1>2, <1>10 DEF SyncVanished, SyncAbandoned, Syncing
  <2>2. CASE p # Here
    BY <1>3, <2>1, <2>2, DirtiedRow DEF TypeInv
  <2>3. CASE p = Here
    <3>1. row'[p] # None => row'[p].state = "dirty"
      BY <2>1, <2>3, DirtiedRow DEF TypeInv
    <3> QED
      BY <3>1, PassedOver
  <2> QED
    BY <2>2, <2>3
<1>11. CASE SyncChunked
  <2>1. /\ UNCHANGED <<disk, dir, published>>
        /\ p # Here => row'[p] = row[p]
        /\ p = Here => row'[p] = [state |-> "chunked", ver |-> disk[p]]
    BY <1>11 DEF SyncChunked, TypeInv, TypeOK
  <2>2. CASE p # Here
    BY <1>3, <2>1, <2>2
  <2>3. CASE p = Here
    <3>1. row'[p].state = "chunked"
      BY <2>1, <2>3
    <3> QED
      BY <3>1, PassedOver
  <2> QED
    BY <2>2, <2>3
<1>12. ASSUME NEW s \in Server, SyncCommitted(s)
       PROVE  Held(p)
  BY <1>2, <1>4, <1>12 DEF SyncCommitted, Syncing, TypeInv, HereInv
<1>13. ASSUME NEW s \in Server, RetractServed(s)
       PROVE  Held(p)
  BY <1>5, <1>13 DEF RetractServed
<1>14. CASE SyncMarked
  <2>1. UNCHANGED <<disk, dir, published>>
    BY <1>14 DEF SyncMarked
  <2>2. CASE p # Here
    BY <1>3, <1>14, <2>1, <2>2, MarkedRow
  <2>3. CASE p = Here
    <3>1. row'[p].ver = row[p].ver
      BY <1>14, <2>3, MarkedRow
    <3>2. \E s \in Server : published'[s][p] = row'[p].ver
      BY <1>14, <2>1, <2>3, <3>1 DEF SyncMarked, SyncMarkInv
    <3> QED
      BY <3>2, PassedOver DEF Copied
  <2> QED
    BY <2>2, <2>3
<1>15. CASE SourceRemoved
  <2>1. /\ dir' = dir /\ row' = row /\ published' = published
        /\ p # Here => disk'[p] = disk[p]
        /\ p = Here => disk'[p] = Taken
    BY <1>15 DEF SourceRemoved, TypeInv, TypeOK
  <2>2. CASE p # Here
    BY <1>3, <2>1, <2>2
  <2>3. CASE p = Here
    <3>1. ~Exists(p)'
      BY <2>1, <2>3, VersionNat, ExistsIn
    <3> QED
      BY <3>1
  <2> QED
    BY <2>2, <2>3
<1>16. CASE Forget
  <2>1. /\ UNCHANGED <<disk, dir, published>>
        /\ p # Here => row'[p] = row[p]
        /\ p = Here => row'[p] = None
    BY <1>16 DEF Forget, TypeInv, TypeOK
  <2>2. CASE p # Here
    BY <1>3, <2>1, <2>2
  <2>3. CASE p = Here
    BY <2>1, <2>3, PassedOver
  <2> QED
    BY <2>2, <2>3
<1>17. CASE SyncRaises \/ Offline
  BY <1>3, <1>17 DEF SyncRaises, Offline, Walking
<1>18. CASE UNCHANGED vars
  BY <1>3, <1>18 DEF vars
<1> HIDE DEF Held
<1> QED
  BY <1>6, <1>7, <1>8, <1>9, <1>10, <1>11, <1>12, <1>13, <1>14, <1>15, <1>16, <1>17,
     <1>18, StepCases
  DEF Faults, Handling

-----------------------------------------------------------------------------
(* Theorem.                                                                *)

\* Whatever is lost between a request, its answer and the row it is about, and
\* whatever the users do to the tree between two looks at it: a file that scan()
\* passes over is on a server with what it holds.  A commit is marked only after
\* it was served, and what is retracted has no current row.  A file that comes
\* back with its old stat, a directory that can be listed and not searched, and a
\* crash between os.remove and forget are left out.
THEOREM PassedOverIsCopied ==
  ASSUME "nosearch" \notin Modes, ~RemovalCrashes, ~MovesBack
  PROVE  Spec => []UnchangedIsCopied
<1> DEFINE Inv == /\ TypeInv /\ Searchable /\ RowInv /\ WalkInv /\ SweepInv
                  /\ VersionInv /\ StaleInv /\ SyncMarkInv /\ UnchangedIsCopied
<1>1. Init => Inv
  <2> SUFFICES ASSUME Init
               PROVE  Inv
    OBVIOUS
  <2>1. scan.pc = "dead" /\ TypeInv
    BY RestFields, TypeInit DEF Init
  <2>2. \A p \in Path : row[p] = None
    BY DEF Init
  <2>3. Searchable
    BY DEF Init, Searchable
  <2>4. VersionInv
    <3>1. edits = 0 /\ \A p \in Path : disk[p] \in {0, None}
      BY DEF Init
    <3> QED
      BY <2>2, <3>1, VersionNat DEF VersionInv
  <2>5. UnchangedIsCopied
    BY <2>2, PassedOver DEF UnchangedIsCopied
  <2> QED
    BY <2>1, <2>2, <2>3, <2>4, <2>5
    DEF RowInv, WalkInv, InWalk, SweepInv, InSweep, StaleInv, SyncMarkInv, Syncing, Retiring
<1>2. Inv /\ [Next]_vars => Inv'
  <2> SUFFICES ASSUME Inv, [Next]_vars
               PROVE  Inv'
    OBVIOUS
  <2>1. TypeInv'
    BY TypeStep
  <2>2. (Searchable /\ RowInv /\ WalkInv /\ SweepInv)'
    BY <2>1, SearchableStep, RowStep, WalkStep, SweepStep
  <2>3. (VersionInv /\ StaleInv /\ SyncMarkInv /\ UnchangedIsCopied)'
    BY <2>1, VersionStep, StaleStep, SyncMarkStep, CopiedStep
  <2> QED
    BY <2>1, <2>2, <2>3
<1>3. Inv => UnchangedIsCopied
  OBVIOUS
<1> QED
  BY <1>1, <1>2, <1>3, PTL DEF Spec

-----------------------------------------------------------------------------
(* The copies of the files that the client removes itself.                 *)

\* Only the sweep and check() come to a retraction, of a path with a row, and
\* only the end of a retraction takes a row away during the sweep.
LEMMA RetireStep == TypeInv /\ TypeInv' /\ RetireInv /\ [Next]_vars => RetireInv'
<1> SUFFICES ASSUME TypeInv, TypeInv', RetireInv, [Next]_vars
             PROVE  RetireInv'
  OBVIOUS
<1> USE DEF configVars, serverVars, treeVars
<1>1. scan \in Scan /\ row \in [Path -> Record \cup {None}]
  BY DEF TypeInv, TypeOK
<1>2. scan'.pc \notin Retiring \cup {"sweep"} => RetireInv'
  BY DEF RetireInv, InSweep
<1>3. ASSUME scan' = scan, row' = row
      PROVE  RetireInv'
  BY <1>3 DEF RetireInv, InSweep, Here
<1>4. CASE Users
  BY <1>3, <1>4, TypeUsers DEF Users
<1>5. ASSUME NEW s \in Server, ServerDown(s) \/ ServerUp(s)
      PROVE  RetireInv'
  BY <1>3, <1>5 DEF ServerDown, ServerUp
<1>6. CASE \/ \E rs \in RootSets : Start(rs)
           \/ \E paths \in SUBSET Watched : CheckBegin(paths)
           \/ \E s \in Server : AnswerLost(s)
           \/ Crash \/ OpenDirRaises \/ PassBegin
  <2>1. scan'.pc \in {"idle", "check", "dead", "pop"}
    BY <1>6, RestFields, EndPassFields
    DEF Start, CheckBegin, AnswerLost, Crash, OpenDirRaises, PassBegin, Scan
  <2> QED
    BY <1>2, <2>1 DEF Retiring
<1>7. CASE SweepBegin
  <2>1. /\ scan'.pc = "sweep" /\ scan'.sweep = AllPaths
        /\ row' = row
    BY <1>1, <1>7 DEF SweepBegin, Walking, Scan
  <2> QED
    BY <2>1 DEF RetireInv, InSweep, AllPaths, Retiring
<1>8. ASSUME NEW p \in Path, SweepPath(p)
      PROVE  RetireInv'
  <2>1. /\ Swept(p) \in Scan /\ Swept(p).pc = "sweep" /\ scan.pc = "sweep"
        /\ Swept(p).sweep = scan.sweep \ {p} /\ p \in scan.sweep /\ row' = row
    BY <1>1, <1>8 DEF SweepPath, Swept, Walking, Scan
  <2>2. \A q \in scan.sweep : row[q] # None
    BY <2>1 DEF RetireInv, InSweep
  <2>3. CASE scan' = Swept(p)
    BY <2>1, <2>2, <2>3 DEF RetireInv, InSweep, Retiring
  <2>4. CASE scan' # Swept(p)
    <3>1. scan' = Retracting(Swept(p), p)
      BY <1>8, <2>4 DEF SweepPath
    <3>2. /\ scan'.path = p /\ scan'.pc = "retract"
          /\ scan'.sweep = scan.sweep \ {p}
      BY <2>1, <3>1, RetractingFields
    <3> QED
      BY <2>1, <2>2, <3>2 DEF RetireInv, Here
  <2> QED
    BY <2>3, <2>4
<1>9. ASSUME NEW p \in Path, CheckDeleted(p)
      PROVE  RetireInv'
  <2> DEFINE t == [scan EXCEPT !.entries = @ \ {p}]
  <2>1. /\ t \in Scan /\ scan.pc = "check" /\ scan' = Retracting(t, p)
        /\ row[p] # None /\ row' = row
    BY <1>1, <1>9 DEF CheckDeleted, Walking, Scan
  <2> HIDE DEF t
  <2>2. scan'.path = p /\ scan'.pc = "retract" /\ scan'.back = "check"
    BY <2>1, RetractingFields
  <2> QED
    BY <2>1, <2>2 DEF RetireInv, InSweep, Here
<1>10. CASE \/ \E d \in Dir : OpenDir(d) \/ WalkDir(d)
            \/ \E p \in Path : WalkSkip(p) \/ WalkFile(p)
            \/ WalkUp
            \/ PassEnd
            \/ \E p \in Path : CheckSkip(p) \/ CheckFile(p)
  <2>1. ASSUME NEW d \in Dir, OpenDir(d)
        PROVE  scan'.pc \in {"pop", "entry"}
    <3> DEFINE popped == [scan EXCEPT !.stack = @ \ {d}]
    <3>1. popped \in Scan /\ popped.pc = "pop"
      BY <1>1, <2>1 DEF OpenDir, Scan
    <3> HIDE DEF popped
    <3> QED
      BY <2>1, <3>1 DEF OpenDir, Scan, popped
  <2>2. ASSUME NEW p \in Path, WalkFile(p)
        PROVE  scan'.pc \in {"sync", "entry"}
    <3> DEFINE saw == [scan EXCEPT !.entries = @ \ {p}, !.seen = @ \cup {p}]
    <3>1. saw \in Scan /\ saw.pc = "entry"
      BY <1>1, <2>2 DEF WalkFile, Scan
    <3>2. \/ scan' = [saw EXCEPT !.pc = "sync", !.path = p, !.back = "entry"]
          \/ scan' = saw
      BY <2>2 DEF WalkFile
    <3> HIDE DEF saw
    <3> QED
      BY <3>1, <3>2 DEF Scan
  <2>3. ASSUME NEW d \in Dir, WalkDir(d)
        PROVE  scan'.pc = "entry"
    BY <1>1, <2>3 DEF WalkDir, Scan
  <2>4. ASSUME NEW p \in Path, WalkSkip(p) \/ CheckSkip(p) \/ CheckFile(p)
        PROVE  scan'.pc \in {"entry", "check", "sync"}
    BY <1>1, <2>4 DEF WalkSkip, CheckSkip, CheckFile, Scan
  <2>5. CASE WalkUp \/ PassEnd
    BY <1>1, <1>2, <2>5, EndPassFields DEF WalkUp, PassEnd, Goto, Scan, Retiring
  <2> QED
    BY <1>2, <1>10, <2>1, <2>2, <2>3, <2>4, <2>5 DEF Retiring
<1>11. CASE \/ SyncVanished \/ SyncRaises \/ SyncChunked \/ SyncAbandoned
            \/ SyncMarked \/ SourceRemoved \/ \E s \in Server : SyncCommitted(s)
            \/ Offline
  <2>1. scan.pc \in Syncing \/ EndPass
    BY <1>11 DEF SyncVanished, SyncRaises, SyncChunked, SyncAbandoned,
         SyncMarked, SourceRemoved, SyncCommitted, Offline, Syncing
  <2>2. scan.pc \in Syncing => scan.back \in {"entry", "check"}
    BY DEF TypeInv, HereInv
  <2>3. NextChange => scan'.pc = scan.back
    BY <1>1 DEF NextChange, Scan
  <2>4. \A pc \in {"commit", "mark", "remove", "removed"} :
          Goto(pc) => scan'.pc = pc
    BY <1>1 DEF Goto, Scan
  <2>5. \/ NextChange \/ EndPass
        \/ \E pc \in {"commit", "mark", "remove", "removed"} : Goto(pc)
    BY <1>11 DEF SyncVanished, SyncRaises, SyncChunked, SyncAbandoned,
         SyncMarked, SourceRemoved, SyncCommitted, Offline
  <2> QED
    BY <1>2, <2>1, <2>2, <2>3, <2>4, <2>5, EndPassFields DEF Retiring
<1>12. ASSUME NEW s \in Server, RetractServed(s)
       PROVE  RetireInv'
  <2>1. /\ scan.pc = "retract" /\ Goto("forget") /\ row' = row
    BY <1>12 DEF RetractServed
  <2>2. /\ scan'.pc = "forget" /\ scan'.path = scan.path
        /\ scan'.sweep = scan.sweep /\ scan'.back = scan.back
    BY <2>1, GotoFields DEF Retiring
  <2> QED
    BY <2>1, <2>2 DEF RetireInv, InSweep, Here, Retiring
<1>13. CASE Forget \/ Refused
  <2>1. /\ scan.pc \in Syncing \cup Retiring /\ NextChange /\ Here \in Path
        /\ \A q \in Path : q # Here => row'[q] = row[q]
        /\ Refused => row' = row
    BY <1>1, <1>13
    DEF Forget, Refused, Requesting, TypeInv, HereInv, Syncing, Retiring
  <2>2. /\ scan'.pc = scan.back /\ scan'.pc \in {"entry", "sweep", "check"}
        /\ scan'.sweep = scan.sweep
    BY <2>1, NextChangeFields
  <2>3. CASE scan'.pc = "sweep"
    <3>1. scan.pc \in Retiring /\ InSweep
      BY <2>1, <2>2, <2>3 DEF TypeInv, HereInv, InSweep
    <3>2. \A q \in scan.sweep : q \in Path /\ row[q] # None /\ q # Here
      BY <1>1, <3>1 DEF RetireInv, Scan
    <3> QED
      BY <2>1, <2>2, <2>3, <3>2 DEF RetireInv, Retiring
  <2>4. CASE scan'.pc # "sweep"
    BY <1>2, <2>2, <2>4 DEF Retiring
  <2> QED
    BY <2>3, <2>4
<1>14. CASE UNCHANGED vars
  BY <1>3, <1>14 DEF vars
<1>15. CASE Generator
  BY <1>7, <1>8, <1>9, <1>10, <1>15 DEF Generator
<1>16. CASE Handling
  BY <1>11, <1>12, <1>13, <1>16 DEF Handling
<1> QED
  BY <1>4, <1>5, <1>6, <1>13, <1>14, <1>15, <1>16, StepCases DEF Faults

LEMMA RemoveStep ==
  TypeInv /\ SyncMarkInv /\ RemoveInv /\ [Next]_vars => RemoveInv'
<1> SUFFICES ASSUME TypeInv, SyncMarkInv, RemoveInv, [Next]_vars
             PROVE  RemoveInv'
  OBVIOUS
<1> USE DEF configVars, serverVars, treeVars
<1>1. scan \in Scan
  BY DEF TypeInv, TypeOK
<1>2. scan'.pc # "remove" => RemoveInv'
  BY DEF RemoveInv
<1>3. ASSUME scan' = scan, published' = published
      PROVE  RemoveInv'
  BY <1>3 DEF RemoveInv, Here
<1>4. CASE Users
  BY <1>3, <1>4, TypeUsers DEF Users
<1>5. ASSUME NEW s \in Server, ServerDown(s) \/ ServerUp(s)
      PROVE  RemoveInv'
  BY <1>3, <1>5 DEF ServerDown, ServerUp
<1>6. CASE \/ \E rs \in RootSets : Start(rs)
           \/ \E paths \in SUBSET Watched : CheckBegin(paths)
           \/ \E s \in Server : AnswerLost(s)
           \/ Crash \/ OpenDirRaises \/ PassBegin
  <2>1. scan'.pc \in {"idle", "check", "dead", "pop"}
    BY <1>6, RestFields, EndPassFields
    DEF Start, CheckBegin, AnswerLost, Crash, OpenDirRaises, PassBegin, Scan
  <2> QED
    BY <1>2, <2>1
<1>7. CASE SyncMarked
  <2>1. PICK s \in Server : published[s][Here] = row[Here].ver
    BY <1>7 DEF SyncMarked, SyncMarkInv
  <2>2. row[Here].ver \in Version
    <3>1. Here \in Path /\ row[Here] # None
      BY <1>7 DEF SyncMarked, TypeInv, HereInv, Syncing
    <3>2. row[Here] \in Record
      BY <3>1 DEF TypeInv, TypeOK
    <3> QED
      BY <3>2 DEF Record
  <2>3. published' = published
    BY <1>7 DEF SyncMarked
  <2>4. scan'.pc = "remove" => scan'.path = scan.path
    BY <1>1, <1>7 DEF SyncMarked, Goto, NextChange, Scan
  <2> QED
    BY <2>1, <2>2, <2>3, <2>4 DEF RemoveInv, Here
<1>8. CASE \/ SyncVanished \/ SyncRaises \/ SyncChunked \/ SyncAbandoned
           \/ SourceRemoved \/ Forget \/ Offline \/ Refused
           \/ \E s \in Server : RetractServed(s) \/ SyncCommitted(s)
  <2>1. NextChange => scan'.pc = scan.back /\ scan.back # "remove"
    BY <1>1 DEF NextChange, Scan
  <2>2. \A pc \in {"commit", "mark", "removed", "forget"} :
          Goto(pc) => scan'.pc = pc
    BY <1>1 DEF Goto, Scan
  <2>3. \/ NextChange \/ EndPass
        \/ \E pc \in {"commit", "mark", "removed", "forget"} : Goto(pc)
    BY <1>8 DEF SyncVanished, SyncRaises, SyncChunked, SyncAbandoned,
         RetractServed, SyncCommitted, SourceRemoved, Forget, Offline, Refused
  <2> QED
    BY <1>2, <2>1, <2>2, <2>3, EndPassFields
<1>9. CASE Generator
  BY <1>2, <1>9, GeneratorGoes
<1>10. CASE UNCHANGED vars
  BY <1>3, <1>10 DEF vars
<1> QED
  BY <1>4, <1>5, <1>6, <1>7, <1>8, <1>9, <1>10, StepCases DEF Faults, Handling

\* A file becomes Taken when its copy is there; what is retracted has a row, and
\* what has a row is not Taken.
LEMMA TakenStep ==
  ASSUME TypeInv, TypeInv', RowInv, RetireInv, RemoveInv, TakenKeepsCopy,
         [Next]_vars
  PROVE  TakenKeepsCopy'
<1> USE DEF configVars, serverVars, treeVars
<1> DEFINE Held(p) == disk'[p] = Taken =>
                        \E s \in Server : published'[s][p] \in Version
<1> SUFFICES ASSUME NEW p \in Path
             PROVE  Held(p)
  BY DEF TakenKeepsCopy, Version
<1>1. disk[p] = Taken => \E s \in Server : published[s][p] \in Version
  BY DEF TakenKeepsCopy
<1>2. ASSUME disk'[p] = Taken => disk[p] = Taken,
             \A s \in Server : published'[s][p] = published[s][p]
      PROVE  Held(p)
  BY <1>1, <1>2
<1>3. ASSUME NEW s \in Server, Publish(s), Here \in Path, row[Here] # None,
             disk' = disk
      PROVE  Held(p)
  <2>1. CASE p # Here
    BY <1>2, <1>3, <2>1, Published DEF TypeInv
  <2>2. CASE p = Here
    <3>1. published'[s][p] = row[p].ver
      BY <1>3, <2>2, PublishedHere DEF TypeInv
    <3>2. row[p].ver \in Version
      BY <1>3, <2>2 DEF TypeInv, TypeOK, Record
    <3> QED
      BY <3>1, <3>2
  <2> QED
    BY <2>1, <2>2
<1>4. ASSUME NEW s \in Server, Retract(s), scan.pc = "retract", disk' = disk
      PROVE  Held(p)
  <2>1. Here \in Path /\ row[Here] # None
    BY <1>4 DEF TypeInv, HereInv, RetireInv, Retiring
  <2>2. CASE p # Here
    BY <1>2, <1>4, <2>1, <2>2, RetractedElsewhere DEF TypeInv
  <2>3. CASE p = Here
    BY <1>4, <2>1, <2>3 DEF RowInv
  <2> QED
    BY <2>2, <2>3
<1>5. CASE Users
  <2>1. published' = published
    BY <1>5, TypeUsers DEF Users
  <2>2. disk[p] # Taken => disk'[p] # Taken
    BY <1>5, UsersRemove DEF Users
  <2> QED
    BY <1>2, <2>1, <2>2
<1>6. ASSUME NEW s \in Server, AnswerLost(s)
      PROVE  Held(p)
  BY <1>3, <1>4, <1>6
  DEF AnswerLost, Requesting, Syncing, TypeInv, HereInv
<1>7. CASE \/ \E s \in Server : ServerDown(s) \/ ServerUp(s)
           \/ \E rs \in RootSets : Start(rs)
           \/ \E paths \in SUBSET Watched : CheckBegin(paths)
           \/ Crash \/ OpenDirRaises \/ Refused \/ PassBegin
  BY <1>2, <1>7
  DEF ServerDown, ServerUp, Start, CheckBegin, Crash, OpenDirRaises, Refused,
      PassBegin
<1>8. CASE Generator
  BY <1>2, <1>8, TypeGenerator
<1>9. CASE \/ SyncVanished \/ SyncRaises \/ SyncChunked \/ SyncAbandoned
           \/ SyncMarked \/ Forget \/ Offline
  BY <1>2, <1>9
  DEF SyncVanished, SyncRaises, SyncChunked, SyncAbandoned, SyncMarked, Forget,
      Offline, Walking
<1>10. ASSUME NEW s \in Server, SyncCommitted(s) \/ RetractServed(s)
       PROVE  Held(p)
  BY <1>3, <1>4, <1>10
  DEF SyncCommitted, RetractServed, Syncing, TypeInv, HereInv
<1>11. CASE SourceRemoved
  <2>1. published' = published /\ (p # Here => disk'[p] = disk[p])
    BY <1>11 DEF SourceRemoved, TypeInv, TypeOK
  <2>2. \E s \in Server : published[s][Here] \in Version
    BY <1>11 DEF SourceRemoved, RemoveInv
  <2> QED
    BY <1>2, <2>1, <2>2
<1>12. CASE UNCHANGED vars
  BY <1>2, <1>12 DEF vars
<1> HIDE DEF Held
<1> QED
  BY <1>5, <1>6, <1>7, <1>8, <1>9, <1>10, <1>11, <1>12, StepCases
  DEF Faults, Handling

\* A file that the client took off the disk after its sync keeps a copy on some
\* server, through any tree, roots, servers, faults and edits, unless a crash
\* comes between os.remove and forget: the client retracts only what has a row,
\* and it has none of what it removed itself.
THEOREM TakenStaysCopied ==
  ASSUME ~RemovalCrashes
  PROVE  Spec => []TakenKeepsCopy
<1> DEFINE Inv == /\ TypeInv /\ RowInv /\ SyncMarkInv
                  /\ RetireInv /\ RemoveInv /\ TakenKeepsCopy
<1>1. Init => Inv
  <2> SUFFICES ASSUME Init
               PROVE  Inv
    OBVIOUS
  <2>1. scan.pc = "dead" /\ TypeInv
    BY RestFields, TypeInit DEF Init
  <2>2. \A p \in Path : row[p] = None
    BY DEF Init
  <2>3. \A p \in Path : disk[p] # Taken
    BY ValueAssumption DEF Init
  <2> QED
    BY <2>1, <2>2, <2>3
    DEF RowInv, SyncMarkInv, RetireInv, InSweep, RemoveInv, TakenKeepsCopy,
        Syncing, Retiring
<1>2. Inv /\ [Next]_vars => Inv'
  <2> SUFFICES ASSUME Inv, [Next]_vars
               PROVE  Inv'
    OBVIOUS
  <2>1. TypeInv'
    BY TypeStep
  <2>2. (RowInv /\ SyncMarkInv)'
    BY <2>1, RowStep, SyncMarkStep
  <2>3. (RetireInv /\ RemoveInv /\ TakenKeepsCopy)'
    BY <2>1, RetireStep, RemoveStep, TakenStep
  <2> QED
    BY <2>1, <2>2, <2>3
<1>3. Inv => TakenKeepsCopy
  OBVIOUS
<1> QED
  BY <1>1, <1>2, <1>3, PTL DEF Spec
=============================================================================
