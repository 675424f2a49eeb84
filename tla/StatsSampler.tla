---------------------------- MODULE StatsSampler ----------------------------
(***************************************************************************)
(* The measurement of a run (src/sync-demo/evidence/ab_benchmark.py): a    *)
(* thread reads the rows of `docker stats` while the workload stops and    *)
(* starts the containers it measures, and the main thread stops it and     *)
(* reports totals that have to survive the resets of docker's counters.    *)
(*                                                                         *)
(* _derive and _aggregate fold the samples in the order they were taken,   *)
(* so they are folded here as they come, in seen; one counter stands for   *)
(* the four, peaks are left out, and of the times of two samples only what *)
(* _derive asks of them is kept: whether the second is later.  They are    *)
(* readings of the wall clock, which may step back.                        *)
(***************************************************************************)
EXTENDS Naturals, Integers, Sequences

CONSTANTS
  Container,
  None,               \* no sample yet; a column of a container that is down
  MaxUse, MaxStops,   \* bounds on what containers use and on their stops
  MaxLines            \* bound on the rows in the pipe

ASSUME BoundAssumption ==
  /\ MaxUse \in [Container -> Nat]
  /\ MaxStops \in Nat /\ MaxLines \in Nat \ {0}
ASSUME NoneAssumption == None \notin Nat /\ None \notin {"earlier", "last"}

VARIABLES
  running, use,   \* use[c]: docker's counter, since c was started
  spent,          \* history: what c used in all its lives
  stops,
  stream,         \* the last docker process: SIGTERM has "told" it to end
  lines,          \* the rows in its pipe
  proc,           \* self._proc: that process, an earlier one, or None
  late,           \* history: it was set when the flag was up
  stop,           \* the flag self._stop
  thread, main,   \* program counters
  line,           \* the row in the thread's hands
  seen            \* seen[c]: the samples of c so far, or None

vars == <<running, use, spent, stops, stream, lines, proc, late, stop,
          thread, main, line, seen>>
containerVars == <<running, use, spent, stops>>

Row == [c : Container, value : Nat \cup {None}]
Seen == [ first : Nat, last : Nat,
          carry : Nat, total : Nat, restarts : Nat,   \* of _aggregate
          moved : Nat,            \* of _derive: the rates times their gaps
          forward : BOOLEAN ]     \* history: each change was seen at a later time

TypeOK ==
  /\ running \in [Container -> BOOLEAN]
  /\ use \in [Container -> Nat] /\ spent \in [Container -> Nat]
  /\ stops \in 0..MaxStops
  /\ stream \in {"none", "runs", "told", "ended"}
  /\ lines \in Seq(Row)
  /\ proc \in {None, "earlier", "last"}
  /\ late \in BOOLEAN /\ stop \in BOOLEAN
  /\ thread \in {"test", "popen", "assign", "read", "check", "record",
                 "eof", "pause", "done"}
  /\ main \in {"work", "look", "terminate", "wait", "kill", "join", "report"}
  /\ line \in Row \cup {None}
  /\ seen \in [Container -> Seen \cup {None}]

\* A sampler as it is made, and its thread as it is started.
FreshSampler ==
  /\ proc = None /\ late = FALSE /\ stop = FALSE
  /\ thread = "test" /\ line = None
  /\ seen = [c \in Container |-> None]

\* main() refuses to start unless every container is running.
Init ==
  /\ FreshSampler
  /\ running = [c \in Container |-> TRUE]
  /\ use = [c \in Container |-> 0] /\ spent = use
  /\ stops = 0
  /\ stream = "none" /\ lines = <<>>
  /\ main = "work"

-----------------------------------------------------------------------------
(* The containers, and the docker process.                                 *)

Use(c) ==
  /\ running[c] /\ spent[c] < MaxUse[c]
  /\ use' = [use EXCEPT ![c] = @ + 1]
  /\ spent' = [spent EXCEPT ![c] = @ + 1]
  /\ UNCHANGED <<running, stops, stream, lines, proc, late, stop, thread,
                 main, line, seen>>

\* The workload stops containers and starts them again; main() waits for it.
StopContainer(c) ==
  /\ main = "work"
  /\ running[c] /\ stops < MaxStops
  /\ running' = [running EXCEPT ![c] = FALSE]
  /\ stops' = stops + 1
  /\ UNCHANGED <<use, spent, stream, lines, proc, late, stop, thread, main,
                 line, seen>>

StartContainer(c) ==
  /\ main = "work"
  /\ ~running[c]
  /\ running' = [running EXCEPT ![c] = TRUE]
  /\ use' = [use EXCEPT ![c] = 0]
  /\ UNCHANGED <<spent, stops, stream, lines, proc, late, stop, thread, main,
                 line, seen>>

Emit(c) ==
  /\ stream \in {"runs", "told"} /\ Len(lines) < MaxLines
  /\ lines' = Append(lines, [c |-> c, value |-> IF running[c] THEN use[c] ELSE None])
  /\ UNCHANGED <<containerVars, stream, proc, late, stop, thread, main, line, seen>>

\* It exits when a container it was given is down, or when it is told to.
StreamEnds ==
  /\ \/ stream = "told"
     \/ stream = "runs" /\ \E c \in Container : ~running[c]
  /\ stream' = "ended"
  /\ UNCHANGED <<containerVars, lines, proc, late, stop, thread, main, line, seen>>

-----------------------------------------------------------------------------
(* _run(), on the thread.                                                  *)

ThreadGoto(pc) ==
  /\ thread' = pc
  /\ UNCHANGED <<containerVars, stop, main>>

Test ==
  /\ thread = "test"
  /\ ThreadGoto(IF stop THEN "done" ELSE "popen")
  /\ UNCHANGED <<stream, lines, proc, late, line, seen>>

Popen ==
  /\ thread = "popen"
  /\ stream' = "runs" /\ lines' = <<>>
  /\ proc' = IF proc = None THEN None ELSE "earlier"
  /\ ThreadGoto("assign")
  /\ UNCHANGED <<late, line, seen>>

Assign ==
  /\ thread = "assign"
  /\ proc' = "last"
  /\ late' = stop
  /\ ThreadGoto("read")
  /\ UNCHANGED <<stream, lines, line, seen>>

ReadLine ==
  /\ thread = "read" /\ lines # <<>>
  /\ line' = Head(lines) /\ lines' = Tail(lines)
  /\ ThreadGoto("check")
  /\ UNCHANGED <<stream, proc, late, seen>>

\* Mutant of CheckStop: rows are recorded whatever the flag says.
CheckStopNot ==
  /\ thread = "check"
  /\ ThreadGoto("record")
  /\ UNCHANGED <<stream, lines, proc, late, line, seen>>

CheckStop ==
  /\ thread = "check"
  /\ ThreadGoto(IF stop THEN "done" ELSE "record")
  /\ UNCHANGED <<stream, lines, proc, late, line, seen>>

ReadEnd ==
  /\ thread = "read" /\ lines = <<>>
  /\ stream = "ended"
  /\ ThreadGoto("eof")
  /\ UNCHANGED <<stream, lines, proc, late, line, seen>>

\* Mutant of AfterEnd: the thread ends with its stream.
AfterEndReturns ==
  /\ thread = "eof"
  /\ ThreadGoto("done")
  /\ UNCHANGED <<stream, lines, proc, late, line, seen>>

AfterEnd ==
  /\ thread = "eof"
  /\ ThreadGoto(IF stop THEN "done" ELSE "pause")
  /\ UNCHANGED <<stream, lines, proc, late, line, seen>>

Paused ==
  /\ thread = "pause"
  /\ ThreadGoto("test")
  /\ UNCHANGED <<stream, lines, proc, late, line, seen>>

-----------------------------------------------------------------------------
(* A sample, and what the report makes of it.                              *)

\* Mutant of Moved: negative differences, of a reset counter, count as well.
MovedBack(a, value, later) ==
  a.moved + (IF later THEN value - a.last ELSE 0)

\* Mutant of Moved: differences are taken to the first sample.
MovedFromFirst(a, value, later) ==
  a.moved + (IF later /\ value >= a.last THEN value - a.first ELSE 0)

\* No rate without a positive gap, nor from a counter that was reset.
Moved(a, value, later) ==
  a.moved + (IF later /\ value >= a.last THEN value - a.last ELSE 0)

\* Mutant of Reset: a counter that stands still is taken for a reset one.
ResetStill(a, value) == value <= a.last

Reset(a, value) == value < a.last

\* The predecessor of a counter that was reset is banked.
Carry(a, value) == a.carry + (IF Reset(a, value) THEN a.last ELSE 0)

First(value) ==
  [ first |-> value, last |-> value, carry |-> 0, total |-> value,
    restarts |-> 0, moved |-> 0, forward |-> TRUE ]
Following(a, value, later) ==
  [ a EXCEPT !.last = value, !.carry = Carry(a, value),
             !.total = Carry(a, value) + value,
             !.restarts = IF Reset(a, value) THEN @ + 1 ELSE @,
             !.moved = Moved(a, value, later),
             !.forward = @ /\ (value # a.last => later) ]

\* A row of a container that is down is no sample of zero.
Record ==
  /\ thread = "record"
  /\ LET a == seen[line.c] IN
     \/ line.value = None /\ UNCHANGED seen
     \/ /\ line.value # None /\ a = None
        /\ seen' = [seen EXCEPT ![line.c] = First(line.value)]
     \/ /\ line.value # None /\ a # None
        /\ \E later \in BOOLEAN :
             seen' = [seen EXCEPT ![line.c] = Following(a, line.value, later)]
  /\ line' = None
  /\ ThreadGoto("read")
  /\ UNCHANGED <<stream, lines, proc, late>>

-----------------------------------------------------------------------------
(* stop(), on the main thread.  Each use of self._proc reads it anew.      *)

MainGoto(pc) ==
  /\ main' = pc
  /\ UNCHANGED <<containerVars, lines, proc, late, thread, line, seen>>

StopSet ==
  /\ main = "work"
  /\ stop' = TRUE
  /\ MainGoto("look")
  /\ UNCHANGED stream

Look ==
  /\ main = "look"
  /\ MainGoto(IF proc = None THEN "join" ELSE "terminate")
  /\ UNCHANGED <<stream, stop>>

Terminate ==
  /\ main = "terminate"
  /\ stream' = IF proc = "last" /\ stream = "runs" THEN "told" ELSE stream
  /\ MainGoto("wait")
  /\ UNCHANGED stop

Waited ==
  /\ main = "wait"
  /\ proc = "last" => stream = "ended"
  /\ MainGoto("join")
  /\ UNCHANGED <<stream, stop>>

\* Mutant of WaitExpires: the process is left to itself.
WaitExpiresLeft ==
  /\ main = "wait" /\ proc = "last" /\ stream # "ended"
  /\ MainGoto("join")
  /\ UNCHANGED <<stream, stop>>

WaitExpires ==
  /\ main = "wait" /\ proc = "last" /\ stream # "ended"
  /\ MainGoto("kill")
  /\ UNCHANGED <<stream, stop>>

Kill ==
  /\ main = "kill"
  /\ stream' = IF proc = "last" THEN "ended" ELSE stream
  /\ MainGoto("join")
  /\ UNCHANGED stop

\* Waiting for a process to start, or for a row of a process that is silent.
Blocked ==
  \/ thread = "popen"
  \/ thread = "read" /\ lines = <<>> /\ stream # "ended"

\* Mutant of Join: without a timeout.
JoinForever ==
  /\ main = "join"
  /\ thread = "done"
  /\ MainGoto("report")
  /\ UNCHANGED <<stream, stop>>

\* Five seconds are over only for a thread that is blocked.
Join ==
  /\ main = "join"
  /\ thread = "done" \/ Blocked
  /\ MainGoto("report")
  /\ UNCHANGED <<stream, stop>>

-----------------------------------------------------------------------------
Thread ==
  \/ Test \/ Popen \/ Assign \/ ReadLine \/ CheckStop \/ Record
  \/ ReadEnd \/ AfterEnd \/ Paused
Stopping == Look \/ Terminate \/ Waited \/ WaitExpires \/ Kill \/ Join

Next ==
  \/ Thread \/ StopSet \/ Stopping \/ StreamEnds
  \/ \E c \in Container :
       Use(c) \/ StopContainer(c) \/ StartContainer(c) \/ Emit(c)

Spec == Init /\ [][Next]_vars

(***************************************************************************)
(* Both threads run.  docker writes a row of each container now and then   *)
(* as long as it runs, except one it was told to end: it may hang.         *)
(***************************************************************************)
FairSpec ==
  /\ Spec
  /\ WF_vars(Thread) /\ WF_vars(Stopping)
  /\ \A c \in Container : SF_vars(Emit(c) /\ stream = "runs" /\ main = "work")

-----------------------------------------------------------------------------
(* Properties.                                                             *)

\* No byte is counted twice: whatever resets fall between two samples, a
\* container's total is at most what it used in all its lives, and as many
\* restarts are labelled as it had at most.
TotalsBounded ==
  \A c \in Container : seen[c] # None =>
    seen[c].total <= spent[c] /\ seen[c].restarts <= stops

\* The two views of the samples agree: the rates times their gaps never add up to
\* more than the total, less what was used before; and they add up to just that
\* in a run that saw no restart, and each growth at a later time.
RatesAgree ==
  \A c \in Container : seen[c] # None =>
    LET a == seen[c] IN
    /\ a.first + a.moved <= a.total
    /\ a.restarts = 0 /\ a.forward => a.first + a.moved = a.total

\* The samples are still when the report reads them, even if join() gave up on
\* a thread that was blocked.
SamplesStill == main = "report" => thread # "record"

\* A docker process that was in self._proc when stop() was called has ended when
\* it returns, however the thread and stop() interleave and if it ignores SIGTERM.
StreamReaped == main = "report" /\ stream \in {"runs", "told"} /\ proc = "last" => late

\* stop() returns, also when docker hangs.
StopReturns == main = "look" ~> main = "report"

\* The series goes on after an outage: when the containers run again for good,
\* what they have used since is sampled.
Resumes ==
  <>[](main = "work" /\ \A c \in Container : running[c]) =>
    \A c \in Container : <>[](seen[c] # None /\ seen[c].last = use[c])

-----------------------------------------------------------------------------
(* The parts of the inductive invariant behind the safety properties.      *)

\* The thread has a row in its hands when it looks at it.
LineInv == thread \in {"check", "record"} => line \in Row

\* The flag is up as soon as stop() has begun, and a thread that stop() no longer
\* waits for does not record.
FlagInv ==
  /\ main # "work" => stop
  /\ main = "report" => thread # "record"

\* stop() is past the process it saw, or the thread stored another one since.
ReapInv ==
  main \in {"join", "report"} /\ stream \in {"runs", "told"} /\ proc = "last" => late

\* What is banked and what is seen make the total, and the rates follow it.
FoldInv ==
  \A c \in Container : seen[c] # None =>
    LET a == seen[c] IN
    /\ a.total = a.carry + a.last
    /\ a.first + a.moved <= a.total
    /\ a.restarts = 0 /\ a.forward => a.first + a.moved = a.total

\* The rows that are still to be folded.
Pending ==
  (IF thread \in {"check", "record"} THEN <<line>> ELSE <<>>) \o lines
IsSample(i, c) == Pending[i].c = c /\ Pending[i].value # None

\* A reading of a counter: its value, what c had used by then in all its lives,
\* and the stops there had been.
Reading(value, used, stopped) == [value |-> value, used |-> used, stopped |-> stopped]
Readings == [value : Nat, used : Nat, stopped : Nat]

\* Reading b was made after reading a: in the same life, or in a later one.
Later(a, b) ==
  /\ a.used <= b.used /\ a.stopped <= b.stopped
  /\ \/ b.value - a.value = b.used - a.used
     \/ b.value + a.used <= b.used /\ a.stopped < b.stopped
Sound(a) == a.value <= a.used
Today(c) == Reading(use[c], spent[c], stops)
Before(c, a) == Sound(a) /\ Later(a, Today(c)) /\ (~running[c] => a.stopped < stops)

\* Readings r of the rows to be folded and r0 of the last one folded that can be
\* those of c: each is later than those before, and today's later than all.
DatedBy(c, r0, r) ==
  /\ Sound(Today(c))
  /\ seen[c] # None =>
       /\ r0.value = seen[c].last
       /\ Before(c, r0)
       /\ seen[c].total <= r0.used /\ seen[c].restarts <= r0.stopped
       /\ \A i \in DOMAIN Pending : IsSample(i, c) => Later(r0, r[i])
  /\ \A i \in DOMAIN Pending : IsSample(i, c) =>
       /\ r[i].value = Pending[i].value
       /\ Before(c, r[i])
       /\ \A j \in DOMAIN Pending : i < j /\ IsSample(j, c) => Later(r[i], r[j])
DatedInv ==
  \A c \in Container : \E r0 \in Readings, r \in Seq(Readings) :
    Len(r) = Len(Pending) /\ DatedBy(c, r0, r)
=============================================================================
