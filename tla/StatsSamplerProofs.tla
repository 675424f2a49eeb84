------------------------- MODULE StatsSamplerProofs -------------------------
(***************************************************************************)
(* Theorems about StatsSampler, for any containers, any bounds and pipes   *)
(* of any length: what the totals, the restarts and the rates of a report  *)
(* are worth, and in what state stop() leaves the thread and its process.  *)
(***************************************************************************)
EXTENDS StatsSampler, TLAPS

IInv == TypeOK /\ LineInv /\ FlagInv /\ ReapInv /\ FoldInv /\ DatedInv

-----------------------------------------------------------------------------
(* The types, and what the program counters say.                           *)

LEMMA FoldType ==
  /\ \A value \in Nat : First(value) \in Seen
  /\ \A a \in Seen, value \in Nat, later \in BOOLEAN :
       Following(a, value, later) \in Seen
<1>1. ASSUME NEW value \in Nat
      PROVE  First(value) \in Seen
  BY DEF First, Seen
<1>2. ASSUME NEW a \in Seen, NEW value \in Nat, NEW later \in BOOLEAN
      PROVE  Following(a, value, later) \in Seen
  <2> DEFINE carry == Carry(a, value)
             moved == Moved(a, value, later)
             restarts == IF Reset(a, value) THEN a.restarts + 1 ELSE a.restarts
             forward == a.forward /\ (value # a.last => later)
  <2>1. carry \in Nat
    BY DEF Carry, Seen
  <2>2. moved \in Nat
    BY DEF Moved, Seen
  <2>3. restarts \in Nat
    BY DEF Seen
  <2>4. forward \in BOOLEAN
    OBVIOUS
  <2>5. Following(a, value, later) =
          [a EXCEPT !.last = value, !.carry = carry, !.total = carry + value,
                    !.restarts = restarts, !.moved = moved,
                    !.forward = forward]
    BY DEF Following, Seen
  <2>6. carry + value \in Nat
    BY <2>1
  <2> HIDE DEF carry, moved, restarts, forward
  <2>7. Following(a, value, later) =
          [first |-> a.first, last |-> value, carry |-> carry,
           total |-> carry + value, restarts |-> restarts, moved |-> moved,
           forward |-> forward]
    BY <2>5 DEF Seen
  <2> QED
    BY <2>1, <2>2, <2>3, <2>4, <2>6, <2>7 DEF Seen
<1> QED
  BY <1>1, <1>2

\* The fields of the next sample's fold.
LEMMA FollowingFields ==
  ASSUME NEW a \in Seen, NEW value \in Nat, NEW later \in BOOLEAN
  PROVE  LET b == Following(a, value, later) IN
         /\ b.first = a.first /\ b.last = value
         /\ b.carry = Carry(a, value) /\ b.total = Carry(a, value) + value
         /\ b.restarts = (IF Reset(a, value) THEN a.restarts + 1
                          ELSE a.restarts)
         /\ b.moved = Moved(a, value, later)
         /\ b.forward = (a.forward /\ (value # a.last => later))
BY DEF Following, Seen

\* What a step of Record leaves in seen.
LEMMA Folded ==
  ASSUME TypeOK, LineInv, Record, NEW c \in Container
  PROVE  /\ line \in Row
         /\ c = line.c /\ line.value # None => line.value \in Nat
         /\ c = line.c /\ line.value # None /\ seen[c] = None =>
              seen'[c] = First(line.value)
         /\ c = line.c /\ line.value # None /\ seen[c] # None =>
              \E later \in BOOLEAN :
                seen'[c] = Following(seen[c], line.value, later)
         /\ ~(c = line.c /\ line.value # None) => seen'[c] = seen[c]
<1>1. line \in Row
  BY DEF LineInv, Record
<1>2. line.c \in Container /\ line.value \in Nat \cup {None}
  BY <1>1 DEF Row
<1> QED
  BY <1>1, <1>2 DEF Record, TypeOK

LEMMA TypeStep ==
  ASSUME TypeOK, LineInv, [Next]_vars
  PROVE  TypeOK'
<1> USE DEF ThreadGoto, MainGoto, containerVars
<1>1. CASE Test
  BY <1>1 DEF Test, TypeOK
<1>2. CASE Popen
  BY <1>2 DEF Popen, TypeOK
<1>3. CASE Assign
  BY <1>3 DEF Assign, TypeOK
<1>4. CASE ReadLine
  <2>1. lines \in Seq(Row) /\ lines # <<>>
    BY <1>4 DEF ReadLine, TypeOK
  <2>2. Head(lines) \in Row /\ Tail(lines) \in Seq(Row)
    BY <2>1
  <2> QED
    BY <1>4, <2>2 DEF ReadLine, TypeOK
<1>5. CASE CheckStop
  BY <1>5 DEF CheckStop, TypeOK
<1>6. CASE Record
  <2>1. seen' \in [Container -> Seen \cup {None}]
    <3>1. line \in Row /\ line.c \in Container /\ line.value \in Nat \cup {None}
      BY <1>6 DEF Record, LineInv, Row
    <3>2. seen[line.c] \in Seen \cup {None}
      BY <3>1 DEF TypeOK
    <3>3. CASE line.value = None
      BY <1>6, <3>3 DEF Record, TypeOK
    <3>4. CASE line.value # None
      <4>1. \E new \in Seen : seen' = [seen EXCEPT ![line.c] = new]
        <5>1. CASE seen[line.c] = None
          BY <1>6, <3>1, <3>4, <5>1, FoldType DEF Record
        <5>2. CASE seen[line.c] # None
          <6>1. PICK later \in BOOLEAN :
                  seen' = [seen EXCEPT ![line.c] =
                             Following(seen[line.c], line.value, later)]
            BY <1>6, <3>4, <5>2 DEF Record
          <6> QED
            BY <3>1, <3>2, <3>4, <5>2, <6>1, FoldType
        <5> QED
          BY <5>1, <5>2
      <4> QED
        BY <4>1 DEF TypeOK
    <3> QED
      BY <3>3, <3>4
  <2> QED
    BY <1>6, <2>1 DEF Record, TypeOK
<1>7. CASE ReadEnd
  BY <1>7 DEF ReadEnd, TypeOK
<1>8. CASE AfterEnd
  BY <1>8 DEF AfterEnd, TypeOK
<1>9. CASE Paused
  BY <1>9 DEF Paused, TypeOK
<1>10. CASE StopSet
  BY <1>10 DEF StopSet, TypeOK
<1>11. CASE Look
  BY <1>11, NoneAssumption DEF Look, TypeOK
<1>12. CASE Terminate
  BY <1>12 DEF Terminate, TypeOK
<1>13. CASE Waited
  BY <1>13 DEF Waited, TypeOK
<1>14. CASE WaitExpires
  BY <1>14 DEF WaitExpires, TypeOK
<1>15. CASE Kill
  BY <1>15 DEF Kill, TypeOK
<1>16. CASE Join
  BY <1>16 DEF Join, TypeOK
<1>17. CASE StreamEnds
  BY <1>17 DEF StreamEnds, TypeOK
<1>18. ASSUME NEW c \in Container, Use(c)
       PROVE  TypeOK'
  <2>1. use'[c] = use[c] + 1 /\ use[c] \in Nat /\ spent[c] \in Nat
    BY <1>18 DEF Use, TypeOK
  <2> QED
    BY <1>18, <2>1 DEF Use, TypeOK
<1>19. ASSUME NEW c \in Container, StopContainer(c)
       PROVE  TypeOK'
  BY <1>19, BoundAssumption DEF StopContainer, TypeOK
<1>20. ASSUME NEW c \in Container, StartContainer(c)
       PROVE  TypeOK'
  BY <1>20 DEF StartContainer, TypeOK
<1>21. ASSUME NEW c \in Container, Emit(c)
       PROVE  TypeOK'
  <2> DEFINE row == [c |-> c, value |-> IF running[c] THEN use[c] ELSE None]
  <2>1. row \in Row
    BY DEF Row, TypeOK
  <2>2. Append(lines, row) \in Seq(Row)
    BY <2>1 DEF TypeOK
  <2> QED
    BY <1>21, <2>2 DEF Emit, TypeOK
<1>22. CASE UNCHANGED vars
  BY <1>22 DEF vars, TypeOK
<1> QED
  BY <1>1, <1>2, <1>3, <1>4, <1>5, <1>6, <1>7, <1>8, <1>9, <1>10, <1>11, <1>12,
     <1>13, <1>14, <1>15, <1>16, <1>17, <1>18, <1>19, <1>20, <1>21, <1>22
  DEF Next, Thread, Stopping

\* LineInv, FlagInv and ReapInv, together with the types.
LEMMA ControlStep ==
  ASSUME TypeOK, LineInv, FlagInv, ReapInv, [Next]_vars
  PROVE  LineInv' /\ FlagInv' /\ ReapInv'
<1> USE DEF ThreadGoto, MainGoto, containerVars
<1> DEFINE C == LineInv' /\ FlagInv' /\ ReapInv'
<1>1. CASE Test
  BY <1>1 DEF Test, LineInv, FlagInv, ReapInv
<1>2. CASE Popen
  BY <1>2, NoneAssumption DEF Popen, LineInv, FlagInv, ReapInv
<1>3. CASE Assign
  BY <1>3 DEF Assign, LineInv, FlagInv, ReapInv
<1>4. CASE ReadLine
  <2>1. Head(lines) \in Row
    BY <1>4 DEF ReadLine, TypeOK
  <2> QED
    BY <1>4, <2>1 DEF ReadLine, LineInv, FlagInv, ReapInv
<1>5. CASE CheckStop
  BY <1>5 DEF CheckStop, LineInv, FlagInv, ReapInv
<1>6. CASE Record
  BY <1>6 DEF Record, LineInv, FlagInv, ReapInv
<1>7. CASE ReadEnd
  BY <1>7 DEF ReadEnd, LineInv, FlagInv, ReapInv
<1>8. CASE AfterEnd
  BY <1>8 DEF AfterEnd, LineInv, FlagInv, ReapInv
<1>9. CASE Paused
  BY <1>9 DEF Paused, LineInv, FlagInv, ReapInv
<1>10. CASE StopSet
  BY <1>10 DEF StopSet, LineInv, FlagInv, ReapInv
<1>11. CASE Look
  BY <1>11, NoneAssumption DEF Look, LineInv, FlagInv, ReapInv
<1>12. CASE Terminate
  BY <1>12 DEF Terminate, LineInv, FlagInv, ReapInv
<1>13. CASE Waited
  BY <1>13 DEF Waited, LineInv, FlagInv, ReapInv
<1>14. CASE WaitExpires
  BY <1>14 DEF WaitExpires, LineInv, FlagInv, ReapInv
<1>15. CASE Kill
  BY <1>15 DEF Kill, LineInv, FlagInv, ReapInv
<1>16. CASE Join
  BY <1>16 DEF Join, Blocked, LineInv, FlagInv, ReapInv
<1>17. CASE StreamEnds
  BY <1>17 DEF StreamEnds, LineInv, FlagInv, ReapInv
<1>18. ASSUME NEW c \in Container,
              Use(c) \/ StopContainer(c) \/ StartContainer(c) \/ Emit(c)
       PROVE  C
  BY <1>18 DEF Use, StopContainer, StartContainer, Emit, LineInv, FlagInv, ReapInv
<1>19. CASE UNCHANGED vars
  BY <1>19 DEF vars, LineInv, FlagInv, ReapInv
<1> QED
  BY <1>1, <1>2, <1>3, <1>4, <1>5, <1>6, <1>7, <1>8, <1>9, <1>10, <1>11, <1>12,
     <1>13, <1>14, <1>15, <1>16, <1>17, <1>18, <1>19
  DEF Next, Thread, Stopping

-----------------------------------------------------------------------------
(* The fold.                                                               *)

LEMMA FoldStep ==
  ASSUME TypeOK, LineInv, FoldInv, Record
  PROVE  FoldInv'
<1> SUFFICES ASSUME NEW c \in Container, seen'[c] # None
             PROVE  LET a == seen'[c] IN
                    /\ a.total = a.carry + a.last
                    /\ a.first + a.moved <= a.total
                    /\ a.restarts = 0 /\ a.forward =>
                         a.first + a.moved = a.total
  BY DEF FoldInv
<1>1. CASE ~(c = line.c /\ line.value # None)
  BY <1>1, Folded DEF FoldInv
<1>2. CASE c = line.c /\ line.value # None
  <2> DEFINE v == line.value
  <2>1. v \in Nat
    BY <1>2, Folded
  <2>2. CASE seen[c] = None
    <3>1. seen'[c] = First(v)
      BY <1>2, <2>2, Folded
    <3> QED
      BY <2>1, <3>1 DEF First
  <2>3. CASE seen[c] # None
    <3> DEFINE a == seen[c]
               b == seen'[c]
    <3>1. PICK later \in BOOLEAN : a \in Seen /\ b = Following(a, v, later)
      BY <1>2, <2>3, Folded DEF TypeOK
    <3>2. /\ a.total = a.carry + a.last
          /\ a.first + a.moved <= a.total
          /\ a.restarts = 0 /\ a.forward => a.first + a.moved = a.total
      BY <2>3 DEF FoldInv
    <3>3. /\ a.first \in Nat /\ a.last \in Nat /\ a.carry \in Nat
          /\ a.total \in Nat /\ a.restarts \in Nat /\ a.moved \in Nat
      BY <3>1 DEF Seen
    <3>4. /\ b.first = a.first /\ b.last = v
          /\ b.carry = Carry(a, v) /\ b.total = Carry(a, v) + v
          /\ b.restarts = (IF Reset(a, v) THEN a.restarts + 1 ELSE a.restarts)
          /\ b.moved = Moved(a, v, later)
          /\ b.forward = (a.forward /\ (v # a.last => later))
      BY <2>1, <3>1, FollowingFields
    <3>5. CASE v < a.last
      <4>1. /\ b.carry = a.carry + a.last /\ b.restarts = a.restarts + 1
            /\ b.moved = a.moved
        BY <2>1, <3>3, <3>4, <3>5 DEF Carry, Reset, Moved
      <4>2. b.total = a.carry + a.last + v /\ b.restarts # 0
        BY <3>3, <3>4, <4>1
      <4> HIDE DEF a, b, v
      <4> QED
        BY <2>1, <3>2, <3>3, <3>4, <4>1, <4>2 DEF b
    <3>6. CASE ~(v < a.last)
      <4>1. b.carry = a.carry /\ b.restarts = a.restarts
        BY <2>1, <3>3, <3>4, <3>6 DEF Carry, Reset
      <4>2. b.total = a.carry + v
        BY <3>3, <3>4, <4>1
      <4>3. CASE later
        <5>1. b.moved = a.moved + (v - a.last)
          BY <2>1, <3>3, <3>4, <3>6, <4>3 DEF Moved
        <5>2. b.forward => a.forward
          BY <3>4
        <5> HIDE DEF a, b, v
        <5> QED
          BY <2>1, <3>2, <3>3, <3>4, <3>6, <4>1, <4>2, <5>1, <5>2 DEF b
      <4>4. CASE ~later
        <5>1. b.moved = a.moved
          BY <2>1, <3>3, <3>4, <4>4 DEF Moved
        <5>2. b.forward => a.forward /\ v = a.last
          BY <3>4, <4>4
        <5> HIDE DEF a, b, v
        <5> QED
          BY <2>1, <3>2, <3>3, <3>4, <3>6, <4>1, <4>2, <5>1, <5>2 DEF b
      <4> QED
        BY <4>3, <4>4
    <3> QED
      BY <3>5, <3>6
  <2> QED
    BY <2>2, <2>3
<1> QED
  BY <1>1, <1>2

-----------------------------------------------------------------------------
(* The rows that are still to be folded, and how a step changes them.      *)

LEMMA PendingType ==
  ASSUME TypeOK, LineInv
  PROVE  Pending \in Seq(Row)
<1>1. lines \in Seq(Row)
  BY DEF TypeOK
<1>2. CASE thread \in {"check", "record"}
  <2>1. <<line>> \in Seq(Row)
    BY <1>2 DEF LineInv
  <2> QED
    BY <1>1, <1>2, <2>1 DEF Pending
<1>3. CASE thread \notin {"check", "record"}
  BY <1>1, <1>3 DEF Pending
<1> QED
  BY <1>2, <1>3

\* Without a row in the thread's hands, they are the rows of the pipe.
LEMMA PendingLines ==
  ASSUME lines \in Seq(Row), thread \notin {"check", "record"}
  PROVE  Pending = lines
BY DEF Pending

LEMMA PendingHead ==
  ASSUME TypeOK, LineInv, thread \in {"check", "record"}
  PROVE  /\ Len(Pending) = Len(lines) + 1 /\ Pending[1] = line
         /\ Tail(Pending) = lines
         /\ \A i \in 1..Len(lines) : Pending[i + 1] = lines[i]
<1>1. line \in Row /\ lines \in Seq(Row)
  BY DEF TypeOK, LineInv
<1>2. Pending = <<line>> \o lines
  BY DEF Pending
<1>3. /\ Len(Pending) = Len(lines) + 1 /\ Pending[1] = line
      /\ \A i \in 1..Len(lines) : Pending[i + 1] = lines[i]
  BY <1>1, <1>2
<1>4. Tail(Pending) = lines
  BY <1>1, <1>2
<1> QED
  BY <1>3, <1>4

LEMMA PendingRead ==
  ASSUME TypeOK, ReadLine
  PROVE  Pending' = Pending
<1>1. lines \in Seq(Row) /\ lines # <<>>
  BY DEF TypeOK, ReadLine
<1>2. Pending = lines
  BY <1>1, PendingLines DEF ReadLine
<1>3. Pending' = <<Head(lines)>> \o Tail(lines)
  BY DEF Pending, ReadLine, ThreadGoto
<1> QED
  BY <1>1, <1>2, <1>3

LEMMA PendingEmit ==
  ASSUME TypeOK, LineInv, NEW row \in Row,
         lines' = Append(lines, row), UNCHANGED <<thread, line>>
  PROVE  Pending' = Append(Pending, row)
<1>1. lines \in Seq(Row)
  BY DEF TypeOK
<1>2. CASE thread \in {"check", "record"}
  <2>1. Pending = <<line>> \o lines /\ Pending' = <<line>> \o Append(lines, row)
    BY <1>2 DEF Pending
  <2> QED
    BY <1>1, <1>2, <2>1 DEF LineInv
<1>3. CASE thread \notin {"check", "record"}
  <2>1. Pending = lines
    BY <1>1, <1>3, PendingLines
  <2>2. lines' \in Seq(Row)
    BY <1>1
  <2>3. Pending' = lines'
    BY <1>3, <2>2 DEF Pending
  <2> QED
    BY <2>1, <2>3
<1> QED
  BY <1>2, <1>3

-----------------------------------------------------------------------------
(* Readings.                                                               *)

LEMMA ReadingFields ==
  \A v, u, n : LET a == Reading(v, u, n) IN
    a.value = v /\ a.used = u /\ a.stopped = n
BY DEF Reading

\* Today's reading is one.
LEMMA TodayType ==
  ASSUME TypeOK, NEW c \in Container
  PROVE  /\ Today(c) \in Readings
         /\ Today(c).value = use[c] /\ Today(c).used = spent[c]
         /\ Today(c).stopped = stops
         /\ use[c] \in Nat /\ spent[c] \in Nat /\ stops \in Nat
BY BoundAssumption DEF TypeOK, Today, Reading, Readings

\* Whatever the containers do, what was read before it was read before.
LEMMA StillBefore ==
  ASSUME TypeOK, TypeOK', NEW c \in Container, Sound(Today(c)),
         \/ UNCHANGED containerVars
         \/ \E d \in Container : Use(d) \/ StopContainer(d) \/ StartContainer(d)
  PROVE  /\ Sound(Today(c))'
         /\ \A a \in Readings : Before(c, a) => Before(c, a)'
<1> DEFINE v == use[c]
           u == spent[c]
           n == stops
<1>1. v \in Nat /\ u \in Nat /\ n \in Nat
  BY TodayType
<1>2. v' \in Nat /\ u' \in Nat /\ n' \in Nat
  BY BoundAssumption DEF TypeOK
<1>3. Today(c).value = v /\ Today(c).used = u /\ Today(c).stopped = n
  BY TodayType
<1>4. Today(c)'.value = v' /\ Today(c)'.used = u' /\ Today(c)'.stopped = n'
  BY DEF Today, Reading
<1>5. running[c] \in BOOLEAN
  BY DEF TypeOK
<1>6. \/ v' = v /\ u' = u /\ n' = n /\ running'[c] = running[c]
      \/ v' = v + 1 /\ u' = u + 1 /\ n' = n /\ running'[c] = running[c]
      \/ v' = v /\ u' = u /\ n' = n + 1
      \/ v' = 0 /\ u' = u /\ n' = n /\ ~running[c] /\ running'[c]
  <2>1. CASE UNCHANGED containerVars
    BY <2>1 DEF containerVars
  <2>2. ASSUME NEW d \in Container, Use(d)
        PROVE  \/ v' = v /\ u' = u /\ n' = n /\ running'[c] = running[c]
               \/ v' = v + 1 /\ u' = u + 1 /\ n' = n /\ running'[c] = running[c]
    BY <2>2 DEF Use, TypeOK
  <2>3. ASSUME NEW d \in Container, StopContainer(d)
        PROVE  v' = v /\ u' = u /\ n' = n + 1
    BY <2>3 DEF StopContainer
  <2>4. ASSUME NEW d \in Container, StartContainer(d)
        PROVE  \/ v' = v /\ u' = u /\ n' = n /\ running'[c] = running[c]
               \/ v' = 0 /\ u' = u /\ n' = n /\ ~running[c] /\ running'[c]
    BY <2>4 DEF StartContainer, TypeOK
  <2> QED
    BY <2>1, <2>2, <2>3, <2>4
<1>7. v <= u
  BY <1>3 DEF Sound
<1>8. v' <= u'
  BY <1>1, <1>6, <1>7
<1>9. ASSUME NEW a \in Readings, Before(c, a)
      PROVE  Before(c, a)'
  <2>1. a.value \in Nat /\ a.used \in Nat /\ a.stopped \in Nat
    BY DEF Readings
  <2>2. /\ a.value <= a.used
        /\ a.used <= u /\ a.stopped <= n
        /\ \/ v - a.value = u - a.used
           \/ v + a.used <= u /\ a.stopped < n
        /\ ~running[c] => a.stopped < n
    BY <1>3, <1>9 DEF Before, Sound, Later
  <2> HIDE DEF v, u, n
  <2>3. a.used <= u' /\ a.stopped <= n'
    BY <1>1, <1>6, <2>1, <2>2
  <2>4. \/ v' - a.value = u' - a.used
        \/ v' + a.used <= u' /\ a.stopped < n'
    BY <1>1, <1>6, <2>1, <2>2
  <2>5. ~running'[c] => a.stopped < n'
    BY <1>1, <1>6, <2>1, <2>2
  <2> QED
    BY <1>4, <2>2, <2>3, <2>4, <2>5 DEF Before, Sound, Later, v, u, n
<1> QED
  BY <1>4, <1>8, <1>9 DEF Sound

\* When a step changes neither the rows nor the fold, the readings stay.
LEMMA StillDated ==
  ASSUME TypeOK, TypeOK', LineInv, NEW c \in Container,
         NEW r0 \in Readings, NEW r \in Seq(Readings),
         Len(r) = Len(Pending), DatedBy(c, r0, r),
         Pending' = Pending, seen'[c] = seen[c],
         \/ UNCHANGED containerVars
         \/ \E d \in Container : Use(d) \/ StopContainer(d) \/ StartContainer(d)
  PROVE  DatedBy(c, r0, r)'
<1>1. /\ Sound(Today(c))'
      /\ \A a \in Readings : Before(c, a) => Before(c, a)'
  BY StillBefore DEF DatedBy
<1>2. Pending \in Seq(Row)
  BY PendingType
<1>3. \A i \in DOMAIN Pending : IsSample(i, c)' <=> IsSample(i, c)
  BY DEF IsSample
<1>4. \A i \in DOMAIN Pending : r[i] \in Readings
  BY <1>2
<1> QED
  BY <1>1, <1>2, <1>3, <1>4 DEF DatedBy

LEMMA DatedType ==
  ASSUME TypeOK, LineInv, NEW c \in Container,
         NEW r0 \in Readings, NEW r \in Seq(Readings),
         Len(r) = Len(Pending), DatedBy(c, r0, r)
  PROVE  /\ Pending \in Seq(Row) /\ DOMAIN Pending = 1..Len(Pending)
         /\ DOMAIN r = 1..Len(Pending)
         /\ \A i \in 1..Len(Pending) : r[i] \in Readings /\ Pending[i] \in Row
<1>1. Pending \in Seq(Row)
  BY PendingType
<1> QED
  BY <1>1

\* The first row goes without a trace: it is no sample, or nobody folds it.
LEMMA HeadDropped ==
  ASSUME TypeOK, TypeOK', LineInv, NEW c \in Container,
         NEW r0 \in Readings, NEW r \in Seq(Readings),
         Len(r) = Len(Pending), DatedBy(c, r0, r),
         thread \in {"check", "record"}, Pending' = lines,
         seen'[c] = seen[c], UNCHANGED containerVars
  PROVE  Tail(r) \in Seq(Readings) /\ Len(Tail(r)) = Len(Pending')
         /\ DatedBy(c, r0, Tail(r))'
<1>1. /\ Sound(Today(c))'
      /\ \A a \in Readings : Before(c, a) => Before(c, a)'
  BY StillBefore DEF DatedBy
<1> DEFINE n == Len(lines)
           t == Tail(r)
<1>2. lines \in Seq(Row) /\ n \in Nat /\ Len(Pending) = n + 1
  BY PendingHead DEF TypeOK
<1>3. t \in Seq(Readings) /\ Len(t) = n /\ \A i \in 1..n : t[i] = r[i + 1]
  BY <1>2
<1>4. /\ DOMAIN Pending = 1..(n + 1)
      /\ DOMAIN Pending' = 1..n
      /\ \A i \in 1..(n + 1) : r[i] \in Readings
  BY <1>2, DatedType
<1>5. \A i \in 1..n : Pending'[i] = Pending[i + 1]
  BY PendingHead
<1>6. \A i \in 1..n : IsSample(i, c)' => IsSample(i + 1, c)
  BY <1>5 DEF IsSample
<1>7. \A i \in 1..n : i + 1 \in 1..(n + 1)
  BY <1>2
<1> HIDE DEF n, t
<1>8. seen'[c] # None => \A i \in 1..n : IsSample(i, c)' => Later(r0, t[i])
  BY <1>3, <1>4, <1>6, <1>7 DEF DatedBy
<1>9. ASSUME NEW i \in 1..n, IsSample(i, c)'
      PROVE  /\ t[i].value = Pending'[i].value
             /\ Before(c, t[i])'
             /\ \A j \in 1..n : i < j /\ IsSample(j, c)' => Later(t[i], t[j])
  <2>1. i + 1 \in DOMAIN Pending /\ IsSample(i + 1, c) /\ t[i] = r[i + 1]
    BY <1>3, <1>4, <1>6, <1>7, <1>9
  <2>2. t[i].value = Pending'[i].value /\ Before(c, t[i])'
    BY <1>1, <1>4, <1>5, <2>1 DEF DatedBy
  <2>3. ASSUME NEW j \in 1..n, i < j, IsSample(j, c)'
        PROVE  Later(t[i], t[j])
    <3>1. j + 1 \in DOMAIN Pending /\ IsSample(j + 1, c) /\ t[j] = r[j + 1]
      BY <1>3, <1>4, <1>6, <1>7, <2>3
    <3>2. i + 1 < j + 1
      BY <1>2, <2>3
    <3> QED
      BY <2>1, <3>1, <3>2 DEF DatedBy
  <2> QED
    BY <2>2, <2>3
<1>10. seen'[c] # None =>
         /\ r0.value = seen'[c].last /\ Before(c, r0)'
         /\ seen'[c].total <= r0.used /\ seen'[c].restarts <= r0.stopped
  BY <1>1 DEF DatedBy
<1>11. Len(t) = Len(Pending')
  BY <1>2, <1>3 DEF n
<1>12. DatedBy(c, r0, t)'
  BY <1>1, <1>4, <1>8, <1>9, <1>10 DEF DatedBy
<1> QED
  BY <1>3, <1>11, <1>12 DEF t

\* Bounds add up, and pass over to a later count.
LEMMA BelowSum ==
  ASSUME NEW k \in Nat, NEW l \in Nat, NEW m \in Nat, NEW v \in Nat,
         k <= l, v + l <= m
  PROVE  k + v <= m
OBVIOUS
LEMMA BelowNext ==
  ASSUME NEW k \in Nat, NEW l \in Nat, NEW m \in Nat, k <= l, l < m
  PROVE  k + 1 <= m
OBVIOUS

\* The first row is a sample of c, and its reading becomes the last one folded.
LEMMA HeadFolded ==
  ASSUME TypeOK, TypeOK', LineInv, FoldInv, NEW c \in Container,
         NEW r0 \in Readings, NEW r \in Seq(Readings),
         Len(r) = Len(Pending), DatedBy(c, r0, r),
         Record, line.c = c, line.value # None
  PROVE  /\ r[1] \in Readings /\ Tail(r) \in Seq(Readings)
         /\ Len(Tail(r)) = Len(Pending')
         /\ DatedBy(c, r[1], Tail(r))'
<1> DEFINE n == Len(lines)
           t == Tail(r)
           v == line.value
<1>1. thread = "record" /\ Pending' = lines /\ UNCHANGED containerVars
  <2>1. thread' = "read" /\ lines' = lines /\ lines \in Seq(Row)
    BY DEF Record, ThreadGoto, TypeOK
  <2> QED
    BY <2>1 DEF Pending, Record, ThreadGoto
<1>2. /\ Sound(Today(c))'
      /\ \A a \in Readings : Before(c, a) => Before(c, a)'
  BY <1>1, StillBefore DEF DatedBy
<1>3. /\ lines \in Seq(Row) /\ n \in Nat /\ Len(Pending) = n + 1
      /\ Pending[1] = line
  BY <1>1, PendingHead DEF TypeOK
<1>4. t \in Seq(Readings) /\ Len(t) = n /\ \A i \in 1..n : t[i] = r[i + 1]
  BY <1>3
<1>5. /\ DOMAIN Pending = 1..(n + 1)
      /\ DOMAIN Pending' = 1..n
      /\ \A i \in 1..(n + 1) : r[i] \in Readings
  BY <1>1, <1>3, DatedType
<1>6. \A i \in 1..n : Pending'[i] = Pending[i + 1]
  BY <1>1, PendingHead
<1>7. \A i \in 1..n : IsSample(i, c)' => IsSample(i + 1, c)
  BY <1>6 DEF IsSample
<1>8. \A i \in 1..n : i + 1 \in 1..(n + 1) /\ 1 < i + 1
  BY <1>3
<1>9. 1 \in DOMAIN Pending /\ IsSample(1, c)
  BY <1>3, <1>5 DEF IsSample
<1>10. r[1] \in Readings /\ r[1].value = v /\ Before(c, r[1]) /\ v \in Nat
  BY <1>5, <1>9, <1>3, Folded DEF DatedBy
<1> HIDE DEF n, t, v
<1>11. ASSUME NEW i \in 1..n, IsSample(i, c)'
       PROVE  /\ t[i].value = Pending'[i].value
              /\ Before(c, t[i])' /\ Later(r[1], t[i])
              /\ \A j \in 1..n : i < j /\ IsSample(j, c)' => Later(t[i], t[j])
  <2>1. i + 1 \in DOMAIN Pending /\ IsSample(i + 1, c) /\ t[i] = r[i + 1]
    BY <1>4, <1>5, <1>7, <1>8, <1>11
  <2>2. t[i].value = Pending'[i].value /\ Before(c, t[i])'
    BY <1>2, <1>5, <1>6, <2>1 DEF DatedBy
  <2>3. Later(r[1], t[i])
    BY <1>8, <1>9, <2>1 DEF DatedBy
  <2>4. ASSUME NEW j \in 1..n, i < j, IsSample(j, c)'
        PROVE  Later(t[i], t[j])
    <3>1. j + 1 \in DOMAIN Pending /\ IsSample(j + 1, c) /\ t[j] = r[j + 1]
      BY <1>4, <1>5, <1>7, <1>8, <2>4
    <3>2. i + 1 < j + 1
      BY <1>3, <2>4
    <3> QED
      BY <2>1, <3>1, <3>2 DEF DatedBy
  <2> QED
    BY <2>2, <2>3, <2>4
<1>12. /\ r[1].value = seen'[c].last /\ Before(c, r[1])'
       /\ seen'[c].total <= r[1].used /\ seen'[c].restarts <= r[1].stopped
  <2>1. Before(c, r[1])'
    BY <1>2, <1>10
  <2>2. /\ r[1].value \in Nat /\ r[1].used \in Nat /\ r[1].stopped \in Nat
        /\ r[1].value <= r[1].used
    BY <1>10 DEF Readings, Before, Sound
  <2>3. CASE seen[c] = None
    <3>1. seen'[c] = First(v)
      BY <2>3, Folded DEF v
    <3>2. seen'[c].last = v /\ seen'[c].total = v /\ seen'[c].restarts = 0
      BY <3>1 DEF First
    <3> QED
      BY <1>10, <2>1, <2>2, <3>2
  <2>4. CASE seen[c] # None
    <3> DEFINE a == seen[c]
               b == seen'[c]
    <3>1. PICK later \in BOOLEAN : a \in Seen /\ b = Following(a, v, later)
      BY <2>4, Folded DEF TypeOK, v
    <3>2. /\ b.last = v /\ b.total = Carry(a, v) + v
          /\ b.restarts = (IF Reset(a, v) THEN a.restarts + 1 ELSE a.restarts)
      BY <1>10, <3>1, FollowingFields
    <3>3. /\ a.total = a.carry + a.last /\ a.last \in Nat /\ a.carry \in Nat
          /\ a.total \in Nat /\ a.restarts \in Nat
      BY <2>4, <3>1 DEF FoldInv, Seen
    <3>4. /\ r0.value = a.last /\ a.total <= r0.used /\ a.restarts <= r0.stopped
          /\ Later(r0, r[1])
      BY <1>9, <2>4 DEF DatedBy
    <3>5. r0.value \in Nat /\ r0.used \in Nat /\ r0.stopped \in Nat
      BY DEF Readings
    <3>6. /\ r0.used <= r[1].used /\ r0.stopped <= r[1].stopped
          /\ \/ v - a.last = r[1].used - r0.used
             \/ v + r0.used <= r[1].used /\ r0.stopped < r[1].stopped
      BY <1>10, <3>4 DEF Later
    <3>7. CASE v < a.last
      <4>1. b.total = a.total + v /\ b.restarts = a.restarts + 1
        BY <1>10, <3>2, <3>3, <3>7 DEF Carry, Reset
      <4>2. v + r0.used <= r[1].used /\ r0.stopped < r[1].stopped
        <5> HIDE DEF a
        <5> QED
          BY <1>10, <2>2, <3>3, <3>5, <3>6, <3>7
      <4> HIDE DEF a, b
      <4>3. b.total <= r[1].used /\ b.restarts <= r[1].stopped
        <5>1. b.total <= r[1].used
          BY <1>10, <2>2, <3>3, <3>4, <3>5, <4>1, <4>2, BelowSum
        <5>2. b.restarts <= r[1].stopped
          BY <2>2, <3>3, <3>4, <3>5, <4>1, <4>2, BelowNext
        <5> QED
          BY <5>1, <5>2
      <4> QED
        BY <1>10, <2>1, <3>2, <4>3 DEF b
    <3>8. CASE ~(v < a.last)
      <4>1. b.total = a.carry + v /\ b.restarts = a.restarts
        BY <1>10, <3>2, <3>3, <3>8 DEF Carry, Reset
      <4>2. v - a.last <= r[1].used - r0.used
        <5> HIDE DEF a
        <5> QED
          BY <1>10, <2>2, <3>3, <3>5, <3>6, <3>8
      <4> HIDE DEF a, b
      <4>3. b.restarts <= r[1].stopped
        BY <2>2, <3>3, <3>4, <3>5, <3>6, <4>1
      <4>4. b.total <= r[1].used
        BY <1>10, <2>2, <3>3, <3>4, <3>5, <4>1, <4>2
      <4> QED
        BY <1>10, <2>1, <3>2, <4>3, <4>4 DEF b
    <3> QED
      BY <3>7, <3>8
  <2> QED
    BY <2>3, <2>4
<1>13. Len(t) = Len(Pending')
  BY <1>1, <1>4 DEF n
<1>14. DatedBy(c, r[1], t)'
  BY <1>2, <1>5, <1>11, <1>12 DEF DatedBy
<1> QED
  BY <1>4, <1>10, <1>13, <1>14 DEF t

\* docker reads its counters anew for a row.
LEMMA RowEmitted ==
  ASSUME TypeOK, TypeOK', LineInv, NEW c \in Container,
         NEW r0 \in Readings, NEW r \in Seq(Readings),
         Len(r) = Len(Pending), DatedBy(c, r0, r),
         NEW d \in Container, Emit(d)
  PROVE  \E e \in Seq(Readings) : Len(e) = Len(Pending') /\ DatedBy(c, r0, e)'
<1> DEFINE row == [c |-> d, value |-> IF running[d] THEN use[d] ELSE None]
<1>1. row \in Row /\ row.c = d /\ (running[d] => row.value = use[d])
      /\ (~running[d] => row.value = None)
  BY DEF Row, TypeOK
<1>2. Pending' = Append(Pending, row)
  BY <1>1, PendingEmit DEF Emit
<1>3. PICK today \in Readings : today = Today(c)
  BY TodayType
<1>4. PICK n \in Nat : n = Len(Pending)
  BY PendingType
<1> DEFINE e == Append(r, today)
<1>5. /\ Pending \in Seq(Row)
      /\ DOMAIN Pending = 1..n /\ \A i \in 1..n : r[i] \in Readings
  BY <1>4, DatedType
<1> HIDE DEF row
<1>6. /\ DOMAIN Pending' = 1..(n + 1) /\ Len(Pending') = n + 1
      /\ Pending'[n + 1] = row /\ \A i \in 1..n : Pending'[i] = Pending[i]
  BY <1>1, <1>2, <1>5, <1>4
<1>7. /\ e \in Seq(Readings) /\ Len(e) = n + 1 /\ e[n + 1] = today
      /\ \A i \in 1..n : e[i] = r[i]
  BY <1>5, <1>4
<1>8. \A i \in 1..n : IsSample(i, c)' => IsSample(i, c)
  BY <1>6 DEF IsSample
<1>9. IsSample(n + 1, c)' => today.value = Pending'[n + 1].value /\ Before(c, today)
  <2>1. SUFFICES ASSUME IsSample(n + 1, c)'
                 PROVE  today.value = Pending'[n + 1].value /\ Before(c, today)
    OBVIOUS
  <2>2. d = c /\ row.value # None
    BY <1>1, <1>6, <2>1 DEF IsSample
  <2>3. running[c] /\ row.value = use[c]
    BY <1>1, <2>2
  <2>4. Later(Today(c), Today(c))
    BY TodayType DEF Later
  <2>5. Sound(Today(c))
    BY DEF DatedBy
  <2> QED
    BY <1>6, <1>3, <2>3, <2>4, <2>5, TodayType DEF Before
<1>10. /\ Sound(Today(c))'
      /\ \A a \in Readings : Before(c, a) => Before(c, a)'
  <2>1. UNCHANGED containerVars
    BY DEF Emit
  <2> QED
    BY <2>1, StillBefore DEF DatedBy
<1> HIDE DEF e
<1>11. \A a \in Readings : Before(c, a) => Later(a, today)
  BY <1>3 DEF Before
<1>12. seen'[c] = seen[c]
  BY DEF Emit
<1>13. seen'[c] # None =>
         /\ r0.value = seen'[c].last /\ Before(c, r0)'
         /\ seen'[c].total <= r0.used /\ seen'[c].restarts <= r0.stopped
         /\ \A i \in 1..(n + 1) : IsSample(i, c)' => Later(r0, e[i])
  <2>1. SUFFICES ASSUME seen[c] # None, NEW i \in 1..(n + 1), IsSample(i, c)'
                 PROVE  Later(r0, e[i])
    BY <1>10, <1>12 DEF DatedBy
  <2>2. CASE i \in 1..n
    BY <1>5, <1>7, <1>8, <2>1, <2>2 DEF DatedBy
  <2>3. CASE i = n + 1
    BY <1>7, <1>11, <2>1, <2>3 DEF DatedBy
  <2> QED
    BY <1>5, <2>2, <2>3
<1>14. ASSUME NEW i \in 1..(n + 1), IsSample(i, c)'
       PROVE  /\ e[i].value = Pending'[i].value
              /\ Before(c, e[i])'
              /\ \A j \in 1..(n + 1) :
                   i < j /\ IsSample(j, c)' => Later(e[i], e[j])
  <2>1. CASE i \in 1..n
    <3>1. IsSample(i, c) /\ e[i] = r[i] /\ i \in DOMAIN Pending /\ e[i] \in Readings
      BY <1>5, <1>7, <1>8, <1>14, <2>1
    <3>2. e[i].value = Pending'[i].value /\ Before(c, e[i])
      BY <1>6, <2>1, <3>1 DEF DatedBy
    <3>3. ASSUME NEW j \in 1..(n + 1), i < j, IsSample(j, c)'
          PROVE  Later(e[i], e[j])
      <4>1. CASE j \in 1..n
        BY <1>5, <1>7, <1>8, <3>1, <3>3, <4>1 DEF DatedBy
      <4>2. CASE j = n + 1
        BY <1>7, <1>11, <3>1, <3>2, <4>2
      <4> QED
        BY <1>5, <4>1, <4>2
    <3> QED
      BY <1>10, <3>1, <3>2, <3>3
  <2>2. CASE i = n + 1
    <3>1. \A j \in 1..(n + 1) : ~(i < j)
      BY <1>5, <2>2
    <3> QED
      BY <1>7, <1>9, <1>10, <1>14, <2>2, <3>1
  <2> QED
    BY <1>5, <2>1, <2>2
<1>15. DatedBy(c, r0, e)'
  BY <1>6, <1>10, <1>13, <1>14 DEF DatedBy
<1> QED
  BY <1>6, <1>7, <1>15 DEF e

LEMMA DatedStep ==
  ASSUME TypeOK, TypeOK', LineInv, LineInv', FoldInv, DatedInv, [Next]_vars
  PROVE  DatedInv'
<1> SUFFICES ASSUME NEW c \in Container
             PROVE  \E r0 \in Readings, r \in Seq(Readings) :
                      Len(r) = Len(Pending') /\ DatedBy(c, r0, r)'
  BY DEF DatedInv
<1>1. PICK r0 \in Readings, r \in Seq(Readings) :
        Len(r) = Len(Pending) /\ DatedBy(c, r0, r)
  BY DEF DatedInv
<1>2. lines \in Seq(Row)
  BY DEF TypeOK
<1>3. ASSUME Pending' = Pending, seen' = seen, UNCHANGED containerVars
      PROVE  DatedBy(c, r0, r)'
  BY <1>1, <1>3, StillDated
<1>4. CASE Record
  <2>1. thread = "record" /\ Pending' = lines /\ UNCHANGED containerVars
    BY <1>2, <1>4 DEF Pending, Record, ThreadGoto
  <2>2. CASE line.c = c /\ line.value # None
    BY <1>1, <1>4, <2>2, HeadFolded
  <2>3. CASE ~(line.c = c /\ line.value # None)
    <3>1. seen'[c] = seen[c]
      BY <1>4, <2>3, Folded
    <3> QED
      BY <1>1, <2>1, <3>1, HeadDropped
  <2> QED
    BY <2>2, <2>3
<1>5. CASE CheckStop
  <2>1. thread = "check" /\ seen' = seen /\ UNCHANGED <<line, lines, containerVars>>
    BY <1>5 DEF CheckStop, ThreadGoto
  <2>2. CASE stop
    <3>1. Pending' = lines
      BY <1>2, <1>5, <2>1, <2>2 DEF CheckStop, ThreadGoto, Pending
    <3> QED
      BY <1>1, <2>1, <3>1, HeadDropped
  <2>3. CASE ~stop
    <3>1. Pending' = Pending
      BY <1>5, <2>1, <2>3 DEF CheckStop, ThreadGoto, Pending
    <3> QED
      BY <1>1, <1>3, <2>1, <3>1
  <2> QED
    BY <2>2, <2>3
<1>6. CASE Popen
  <2>1. Pending' = <<>> /\ seen' = seen /\ UNCHANGED containerVars
    BY <1>6 DEF Popen, ThreadGoto, Pending
  <2>2. DatedBy(c, r0, <<>>)'
    <3>1. /\ Sound(Today(c))'
          /\ \A a \in Readings : Before(c, a) => Before(c, a)'
      BY <1>1, <2>1, StillBefore DEF DatedBy
    <3>2. DOMAIN Pending' = {}
      BY <2>1
    <3> QED
      BY <1>1, <2>1, <3>1, <3>2 DEF DatedBy
  <2>3. <<>> \in Seq(Readings) /\ Len(<<>>) = Len(Pending')
    BY <2>1
  <2> QED
    BY <2>2, <2>3
<1>7. CASE ReadLine
  <2>1. Pending' = Pending /\ seen' = seen /\ UNCHANGED containerVars
    BY <1>7, PendingRead DEF ReadLine, ThreadGoto
  <2> QED
    BY <1>1, <1>3, <2>1
<1>8. CASE Test \/ Assign \/ ReadEnd \/ AfterEnd \/ Paused
  <2>1. Pending' = Pending /\ seen' = seen /\ UNCHANGED containerVars
    BY <1>8 DEF Test, Assign, ReadEnd, AfterEnd, Paused, ThreadGoto, Pending
  <2> QED
    BY <1>1, <1>3, <2>1
<1>9. CASE StopSet \/ Stopping \/ StreamEnds \/ UNCHANGED vars
  <2>1. Pending' = Pending /\ seen' = seen /\ UNCHANGED containerVars
    BY <1>9 DEF StopSet, Stopping, Look, Terminate, Waited, WaitExpires, Kill, Join,
                StreamEnds, MainGoto, Pending, vars, containerVars
  <2> QED
    BY <1>1, <1>3, <2>1
<1>10. ASSUME NEW d \in Container, Use(d) \/ StopContainer(d) \/ StartContainer(d)
       PROVE  DatedBy(c, r0, r)' /\ Len(r) = Len(Pending')
  <2>1. Pending' = Pending /\ seen' = seen
    BY <1>10 DEF Use, StopContainer, StartContainer, Pending
  <2>2. \E x \in Container : Use(x) \/ StopContainer(x) \/ StartContainer(x)
    BY <1>10
  <2> QED
    BY <1>1, <2>1, <2>2, StillDated
<1>11. ASSUME NEW d \in Container, Emit(d)
       PROVE  \E s \in Seq(Readings) : Len(s) = Len(Pending') /\ DatedBy(c, r0, s)'
  BY <1>1, <1>11, RowEmitted
<1> QED
  BY <1>1, <1>4, <1>5, <1>6, <1>7, <1>8, <1>9, <1>10, <1>11 DEF Next, Thread

-----------------------------------------------------------------------------
(* The inductive invariant.                                                *)

LEMMA InitInv == Init => IInv
<1> SUFFICES ASSUME Init
             PROVE  IInv
  OBVIOUS
<1> USE DEF Init, FreshSampler
<1>1. TypeOK
  <2>1. running \in [Container -> BOOLEAN] /\ seen \in [Container -> Seen \cup {None}]
    OBVIOUS
  <2>2. use \in [Container -> Nat] /\ spent \in [Container -> Nat]
    OBVIOUS
  <2>3. stops \in 0..MaxStops /\ lines \in Seq(Row)
    BY BoundAssumption
  <2> QED
    BY <2>1, <2>2, <2>3 DEF TypeOK
<1>2. LineInv /\ FlagInv /\ ReapInv /\ FoldInv
  BY DEF LineInv, FlagInv, ReapInv, FoldInv
<1>3. DatedInv
  <2> SUFFICES ASSUME NEW c \in Container
               PROVE  \E r0 \in Readings, r \in Seq(Readings) :
                        Len(r) = Len(Pending) /\ DatedBy(c, r0, r)
    BY DEF DatedInv
  <2>1. Pending = <<>> /\ DOMAIN Pending = {}
    BY DEF Pending
  <2>2. Sound(Today(c)) /\ Today(c) \in Readings
    BY <1>1, TodayType DEF Sound
  <2>3. DatedBy(c, Today(c), <<>>)
    BY <2>1, <2>2 DEF DatedBy
  <2>4. <<>> \in Seq(Readings) /\ Len(<<>>) = Len(Pending)
    BY <2>1
  <2> QED
    BY <2>2, <2>3, <2>4
<1> QED
  BY <1>1, <1>2, <1>3 DEF IInv

LEMMA StepInv == IInv /\ [Next]_vars => IInv'
<1> SUFFICES ASSUME IInv, [Next]_vars
             PROVE  IInv'
  OBVIOUS
<1> USE DEF IInv
<1>1. TypeOK'
  BY TypeStep
<1>2. LineInv' /\ FlagInv' /\ ReapInv'
  BY ControlStep
<1>3. FoldInv'
  <2>1. CASE Record
    BY <2>1, FoldStep
  <2>2. CASE ~Record
    <3>1. seen' = seen
      BY <2>2 DEF Next, Thread, Stopping, Test, Popen, Assign, ReadLine, CheckStop,
                  ReadEnd, AfterEnd, Paused, StopSet, Look, Terminate, Waited,
                  WaitExpires, Kill, Join, StreamEnds, Use, StopContainer,
                  StartContainer, Emit, MainGoto, vars
    <3> QED
      BY <3>1 DEF FoldInv
  <2> QED
    BY <2>1, <2>2
<1>4. DatedInv'
  BY <1>1, <1>2, DatedStep
<1> QED
  BY <1>1, <1>2, <1>3, <1>4

LEMMA InvariantLemma == Spec => []IInv
BY InitInv, StepInv, PTL DEF Spec

\* The types of the sampler, the containers and the process: in particular the
\* fold only ever sees rows that are there, and no difference goes below zero.
THEOREM TypesHold == Spec => []TypeOK
<1>1. IInv => TypeOK
  BY DEF IInv
<1> QED
  BY <1>1, InvariantLemma, PTL

\* However the resets of docker's counters fall between the rows, wherever the
\* rows wait in the pipe and whichever of them are lost with a process, _aggregate
\* reports no more than was used, and no restart there was not.
THEOREM NothingCountedTwice == Spec => []TotalsBounded
<1>1. IInv => TotalsBounded
  <2> SUFFICES ASSUME IInv, NEW c \in Container, seen[c] # None
               PROVE  seen[c].total <= spent[c] /\ seen[c].restarts <= stops
    BY DEF TotalsBounded
  <2>1. PICK r0 \in Readings, r \in Seq(Readings) : DatedBy(c, r0, r)
    BY DEF IInv, DatedInv
  <2>2. /\ seen[c].total <= r0.used /\ seen[c].restarts <= r0.stopped
        /\ Later(r0, Today(c))
    BY <2>1 DEF DatedBy, Before
  <2>3. r0.used <= spent[c] /\ r0.stopped <= stops
    BY <2>2, TodayType DEF Later, IInv
  <2>4. /\ seen[c].total \in Nat /\ seen[c].restarts \in Nat
        /\ r0.used \in Nat /\ r0.stopped \in Nat /\ spent[c] \in Nat /\ stops \in Nat
    BY TodayType DEF IInv, TypeOK, Seen, Readings
  <2> QED
    BY <2>2, <2>3, <2>4
<1> QED
  BY <1>1, InvariantLemma, PTL

\* The series of _derive never shows more than the total of _aggregate, whatever
\* resets, and steps back of the clock, fall between the samples; and it shows
\* just that when no counter was reset and each growth has a later timestamp.
THEOREM SeriesAgrees == Spec => []RatesAgree
<1>1. IInv => RatesAgree
  BY DEF IInv, FoldInv, RatesAgree
<1> QED
  BY <1>1, InvariantLemma, PTL

\* After stop() the thread appends no sample to the list that the report reads,
\* even if it was left behind in a read.
THEOREM NoLateSample == Spec => []SamplesStill
<1>1. IInv => SamplesStill
  BY DEF IInv, FlagInv, SamplesStill
<1> QED
  BY <1>1, InvariantLemma, PTL

\* A docker process can outlive stop() only if the thread stored it in self._proc
\* after the flag was up.
THEOREM ProcessReaped == Spec => []StreamReaped
<1>1. IInv => StreamReaped
  BY DEF IInv, ReapInv, StreamReaped
<1> QED
  BY <1>1, InvariantLemma, PTL
=============================================================================
