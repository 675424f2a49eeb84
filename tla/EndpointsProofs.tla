-------------------------- MODULE EndpointsProofs --------------------------
(***************************************************************************)
(* Theorems about Endpoints, for any number of endpoints and threads.      *)
(*                                                                         *)
(* A thread changes only its own locals, so the inductive invariant is a   *)
(* predicate JobInv of the locals of one thread and of `up`.               *)
(***************************************************************************)
EXTENDS Endpoints, FiniteSetTheorems, TLAPS

Probing == {"start", "store", "probe", "mark"}
Busy == {"claim", "won", "stamp", "send", "answered"} \cup Probing
Picking == {"pick", "scan", "claim", "won", "stamp"} \cup Probing

\* What a call knows of an endpoint e that has been up since it began.
SteadyInv(j, e) ==
  /\ up[e]
  /\ j.pc # "refused"
  /\ j.pc \in Picking => e \notin Tried(j)
  /\ j.pc \in {"send", "answered"} /\ e \in Tried(j) => e = j.at
  /\ j.pc \in {"mark", "answered"} /\ e = j.at => j.answer
  /\ j.loop = "scan" /\ e \in j.probed =>
       j.pc \in Probing /\ e = j.at
  /\ j.loop = "resort" => e \notin j.probed /\ j.at <= e

JobInv(j) ==
  /\ j.pc \in Busy => j.at \in Endpoint
  /\ j.pc \in {"claim", "won", "stamp"} => j.loop # "resort"
  /\ \A i, k \in DOMAIN j.tried : j.tried[i] = j.tried[k] => i = k
  /\ j.pc \in Picking \ {"pick", "scan"} => j.at \notin Tried(j)
  /\ \A e \in j.steady : SteadyInv(j, e)

JobsInv == \A t \in Thread : JobInv(job[t])
IInv == TypeOK /\ JobsInv

-----------------------------------------------------------------------------
(* The locals of a thread.                                                 *)

LEMMA SpacingType ==
  /\ Lag \in Nat /\ Lag <= Interval /\ 0 \in 0..Lag
  /\ Spacing \in Nat /\ Spacing <= Interval
BY IntervalAssumption, LagAssumption DEF Spacing

LEMMA IdleType ==
  /\ Idle \in Job
  /\ \A j \in Job : Attempt(j) \in Job
<1>1. 1 \in 1..(N + 1) /\ <<>> \in Seq(Endpoint) /\ {} \in SUBSET Endpoint
  BY EndpointAssumption
<1> QED
  BY <1>1, SpacingType DEF Idle, Attempt, Job

LEMMA IdleInv == JobInv(Idle)
BY DEF Idle, JobInv, Busy, Picking, Probing

\* The locals of a request that has picked e.
Picked(j, e) ==
  [Attempt(j) EXCEPT !.pc = "send", !.at = e, !.tried = Append(j.tried, e)]

LEMMA PickedType ==
  ASSUME NEW j \in Job, NEW e \in Endpoint
  PROVE  Picked(j, e) \in Job
<1>1. Attempt(j) \in Job /\ e \in 1..(N + 1)
  BY IdleType, EndpointAssumption DEF Endpoint
<1>2. Append(j.tried, e) \in Seq(Endpoint)
  BY DEF Job
<1> QED
  BY <1>1, <1>2 DEF Picked, Job

LEMMA PickedInv ==
  ASSUME NEW j \in Job, NEW e \in Endpoint, JobInv(j),
         e \notin Tried(j), j.pc \in Picking
  PROVE  JobInv(Picked(j, e))
<1> DEFINE p == Picked(j, e)
<1>1. /\ p.pc = "send" /\ p.loop = "scan" /\ p.at = e /\ p.probed = {}
      /\ p.tried = Append(j.tried, e) /\ p.steady = j.steady
  BY DEF Picked, Attempt, Idle
<1>2. j.tried \in Seq(Endpoint)
  BY DEF Job
<1> HIDE DEF p
<1>3. Tried(p) = Tried(j) \cup {e}
  BY <1>1, <1>2 DEF Tried
<1>4. \A i, k \in DOMAIN p.tried : p.tried[i] = p.tried[k] => i = k
  BY <1>1, <1>2 DEF JobInv, Tried
<1>5. \A f \in p.steady : SteadyInv(p, f)
  BY <1>1, <1>3 DEF JobInv, SteadyInv, Picking, Probing
<1>6. JobInv(p)
  BY <1>1, <1>4, <1>5 DEF JobInv, Busy, Picking, Probing
<1> QED
  BY <1>6 DEF p

\* A thread that changes its own locals leaves those of the others alone.
LEMMA LocalsInv ==
  ASSUME IInv, NEW t \in Thread, NEW j \in Job, JobInv(j), Locals(t, j),
         UNCHANGED up
  PROVE  job' \in [Thread -> Job] /\ JobsInv'
<1>1. job' \in [Thread -> Job]
  BY DEF IInv, TypeOK, Locals
<1>2. \A u \in Thread : job'[u] = IF u = t THEN j ELSE job[u]
  BY DEF IInv, TypeOK, Locals
<1>3. \A u \in Thread : JobInv(job'[u])
  BY <1>2 DEF IInv, JobsInv
<1> QED
  BY <1>1, <1>3 DEF JobsInv, JobInv, SteadyInv, Tried
-----------------------------------------------------------------------------
(* What the steps do to endpoints.                                         *)

LEMMA MarkType ==
  ASSUME TypeOK, NEW e \in Endpoint, MarkSuccess(e) \/ MarkFailure(e)
  PROVE  /\ healthy' \in [Endpoint -> BOOLEAN]
         /\ failures' \in [Endpoint -> 0..Threshold]
<1>1. CASE MarkSuccess(e)
  BY <1>1, ThresholdAssumption DEF MarkSuccess, TypeOK
<1>2. CASE MarkFailure(e)
  <2> DEFINE count ==
        IF failures[e] < Threshold THEN failures[e] + 1 ELSE Threshold
  <2>1. failures' = [failures EXCEPT ![e] = count]
    BY <1>2 DEF MarkFailure
  <2>2. \E b \in BOOLEAN : healthy' = [healthy EXCEPT ![e] = b]
    <3>1. CASE healthy[e] /\ count < Threshold
      <4>1. healthy' = [healthy EXCEPT ![e] = TRUE]
        BY <1>2, <3>1 DEF MarkFailure
      <4> QED
        BY <4>1
    <3>2. CASE ~ (healthy[e] /\ count < Threshold)
      <4>1. healthy' = [healthy EXCEPT ![e] = FALSE]
        BY <1>2, <3>2 DEF MarkFailure
      <4> QED
        BY <4>1
    <3> QED
      BY <3>1, <3>2
  <2>3. count \in 0..Threshold
    BY ThresholdAssumption DEF TypeOK
  <2> HIDE DEF count
  <2>4. failures' \in [Endpoint -> 0..Threshold]
    BY <2>1, <2>3 DEF TypeOK
  <2>5. healthy' \in [Endpoint -> BOOLEAN]
    BY <2>2 DEF TypeOK
  <2> QED
    BY <2>4, <2>5
<1> QED
  BY <1>1, <1>2

\* A request that has tried as many endpoints as there are has tried them all.
LEMMA AllTried ==
  ASSUME NEW j \in Job, JobInv(j), Len(j.tried) >= N
  PROVE  Tried(j) = Endpoint
<1>1. j.tried \in Seq(Endpoint) /\ DOMAIN j.tried = 1..Len(j.tried)
      /\ Len(j.tried) \in Nat
  BY DEF Job
<1>2. IsFiniteSet(Endpoint) /\ Cardinality(Endpoint) = N
  BY FS_Interval, EndpointAssumption DEF Endpoint
<1>3. Tried(j) \subseteq Endpoint
  BY <1>1 DEF Tried
<1>4. IsFiniteSet(Tried(j)) /\ Cardinality(Tried(j)) <= N
  BY <1>2, <1>3, FS_Subset
<1>5. j.tried \in Bijection(1..Len(j.tried), Tried(j))
  BY <1>1 DEF Tried, JobInv, Bijection, Injection, Surjection, IsInjective
<1>6. Cardinality(Tried(j)) = Len(j.tried)
  BY <1>1, <1>5, FS_CountingElements DEF ExistsBijection
<1>7. Cardinality(Tried(j)) = Cardinality(Endpoint)
  BY <1>1, <1>2, <1>4, <1>6, EndpointAssumption
<1> QED
  BY <1>2, <1>3, <1>7, FS_Subset
-----------------------------------------------------------------------------
(* The choice of an endpoint.                                              *)

LEMMA TakeInv ==
  ASSUME IInv, NEW t \in Thread, NEW e \in Endpoint, Take(t, e),
         e \notin Tried(job[t]), job[t].pc \in Picking, UNCHANGED up
  PROVE  job' \in [Thread -> Job] /\ JobsInv'
<1>1. job[t] \in Job /\ JobInv(job[t])
  BY DEF IInv, TypeOK, JobsInv
<1>2. Picked(job[t], e) \in Job /\ JobInv(Picked(job[t], e))
  BY <1>1, PickedType, PickedInv
<1>3. Locals(t, Picked(job[t], e))
  BY DEF Take, Picked
<1> QED
  BY <1>2, <1>3, LocalsInv

LEMMA PickInv ==
  ASSUME IInv, NEW t \in Thread, PickPreferred(t) \/ PickScan(t)
  PROVE  IInv'
<1>1. job[t] \in Job /\ JobInv(job[t])
  BY DEF IInv, TypeOK, JobsInv
<1>2. CASE PickPreferred(t)
  <2>1. preferred \in Endpoint
    BY <1>2, EndpointAssumption
    DEF PickPreferred, Wanted, IInv, TypeOK, Endpoint
  <2>2. job' \in [Thread -> Job] /\ JobsInv'
    BY <1>2, <2>1, TakeInv DEF PickPreferred, Wanted, Picking
  <2> QED
    BY <1>2, <2>2 DEF PickPreferred, healthVars, timeVars, IInv, TypeOK
<1>3. CASE PickScan(t)
  <2> DEFINE j == [job[t] EXCEPT !.pc = "scan"]
  <2>1. j \in Job
    BY <1>1 DEF Job
  <2>2. JobInv(j)
    BY <1>1, <1>3 DEF PickScan, JobInv, SteadyInv, Busy, Picking, Probing, Tried, Job
  <2>3. Locals(t, j) /\ UNCHANGED up
    BY <1>3 DEF PickScan
  <2>4. job' \in [Thread -> Job] /\ JobsInv'
    BY <2>1, <2>2, <2>3, LocalsInv
  <2> QED
    BY <1>3, <2>4 DEF PickScan, healthVars, timeVars, IInv, TypeOK
<1> QED
  BY <1>2, <1>3

\* A scan steps over endpoints that are not ahead of it: already tried, or
\* before it.
LEMMA ScanInv ==
  ASSUME IInv, NEW t \in Thread, NEW e \in Endpoint,
         ScanHealthy(t, e) \/ ScanDown(t, e) \/ ScanResort(t, e)
  PROVE  IInv'
<1>1. job[t] \in Job /\ JobInv(job[t])
  BY DEF IInv, TypeOK, JobsInv
<1>2. /\ e \notin Tried(job[t]) /\ job[t].pc = "scan" /\ job[t].at <= e
      /\ \A f \in Ahead(job[t]) : e <= f
      /\ UNCHANGED up
  BY DEF ScanHealthy, ScanDown, ScanResort, IsNext, Ahead
<1>3. e \in 1..(N + 1) /\ e + 1 \in 1..(N + 1)
  BY EndpointAssumption DEF Endpoint
<1>4. CASE ScanHealthy(t, e) /\ job[t].loop = "scan"
  <2>1. Take(t, e)
    BY <1>4 DEF ScanHealthy
  <2>2. job' \in [Thread -> Job] /\ JobsInv'
    BY <1>2, <2>1, TakeInv DEF Picking, Probing
  <2> QED
    BY <1>4, <2>2 DEF ScanHealthy, healthVars, timeVars, IInv, TypeOK
<1>5. CASE ScanHealthy(t, e) /\ job[t].loop = "refresh"
  <2> DEFINE j == [job[t] EXCEPT !.at = e + 1]
  <2>1. j \in Job
    BY <1>1, <1>3 DEF Job
  <2>2. JobInv(j)
    BY <1>1, <1>2, <1>5 DEF JobInv, SteadyInv, Busy, Picking, Probing, Tried, Job
  <2>3. Locals(t, j)
    BY <1>5 DEF ScanHealthy
  <2>4. job' \in [Thread -> Job] /\ JobsInv'
    BY <1>2, <2>1, <2>2, <2>3, LocalsInv
  <2> QED
    BY <1>5, <2>4 DEF ScanHealthy, healthVars, timeVars, IInv, TypeOK
<1>6. CASE ScanDown(t, e)
  <2> DEFINE j == [job[t] EXCEPT !.pc = "claim", !.at = e]
  <2>1. j \in Job
    BY <1>1, <1>3 DEF Job
  <2>2. job[t].loop \in {"scan", "refresh"}
    BY <1>6 DEF ScanDown
  <2>3. JobInv(j)
    BY <1>1, <1>2, <2>2 DEF JobInv, SteadyInv, Busy, Picking, Probing, Tried, Job
  <2>4. Locals(t, j)
    BY <1>6 DEF ScanDown
  <2>5. job' \in [Thread -> Job] /\ JobsInv'
    BY <1>2, <2>1, <2>3, <2>4, LocalsInv
  <2> QED
    BY <1>6, <2>5 DEF ScanDown, healthVars, timeVars, IInv, TypeOK
<1>7. CASE ScanResort(t, e)
  <2> DEFINE j == [job[t] EXCEPT !.pc = "start", !.at = e]
  <2>1. j \in Job
    BY <1>1, <1>3 DEF Job
  <2>2. job[t].loop = "resort"
    BY <1>7 DEF ScanResort
  <2>3. \A f \in j.steady : f \in Ahead(job[t])
    BY <1>1, <1>2, <2>2 DEF JobInv, SteadyInv, Picking, Probing, Ahead, Job
  <2>4. JobInv(j)
    BY <1>1, <1>2, <2>2, <2>3
    DEF JobInv, SteadyInv, Busy, Picking, Probing, Tried, Job
  <2>5. Locals(t, j)
    BY <1>7 DEF ScanResort
  <2>6. job' \in [Thread -> Job] /\ JobsInv'
    BY <1>2, <2>1, <2>4, <2>5, LocalsInv
  <2> QED
    BY <1>7, <2>6 DEF ScanResort, healthVars, timeVars, IInv, TypeOK
<1> QED
  BY <1>4, <1>5, <1>6, <1>7 DEF ScanHealthy

LEMMA ScanEndsInv ==
  ASSUME IInv, NEW t \in Thread, ScanEnds(t)
  PROVE  IInv'
<1>1. job[t] \in Job /\ JobInv(job[t])
  BY DEF IInv, TypeOK, JobsInv
<1>2. /\ job[t].pc = "scan" /\ Ahead(job[t]) = {} /\ UNCHANGED up
      /\ 1 \in 1..(N + 1)
  BY EndpointAssumption DEF ScanEnds
<1>3. /\ job' \in [Thread -> Job] /\ JobsInv'
      /\ phase' \in {"refresh", "pass"}
  <2>1. CASE job[t].loop = "scan"
    <3> DEFINE j == [job[t] EXCEPT !.loop = "resort", !.at = 1]
    <3>1. j \in Job
      BY <1>1, <1>2 DEF Job
    <3>2. JobInv(j)
      BY <1>1, <1>2, <2>1
      DEF JobInv, SteadyInv, Busy, Picking, Probing, Tried, Job, Endpoint
    <3>3. Locals(t, j) /\ UNCHANGED phase
      BY <2>1 DEF ScanEnds
    <3> QED
      BY <1>2, <3>1, <3>2, <3>3, LocalsInv DEF IInv, TypeOK
  <2>2. CASE job[t].loop = "resort"
    <3> DEFINE j == [job[t] EXCEPT !.pc = "refused"]
    <3>1. j \in Job
      BY <1>1 DEF Job
    <3>2. job[t].steady = {}
      BY <1>1, <1>2, <2>2 DEF JobInv, SteadyInv, Picking, Probing, Ahead, Job
    <3>3. JobInv(j)
      BY <1>1, <1>2, <3>2 DEF JobInv, Busy, Picking, Probing, Tried, Job
    <3>4. Locals(t, j) /\ UNCHANGED phase
      BY <2>2 DEF ScanEnds
    <3> QED
      BY <1>2, <3>1, <3>3, <3>4, LocalsInv DEF IInv, TypeOK
  <2>3. CASE job[t].loop = "refresh"
    <3>1. Locals(t, Idle) /\ phase' = "pass"
      BY <2>3 DEF ScanEnds
    <3> QED
      BY <1>2, <3>1, IdleType, IdleInv, LocalsInv
  <2> QED
    BY <1>1, <2>1, <2>2, <2>3 DEF Job
<1> QED
  BY <1>3 DEF ScanEnds, healthVars, timeVars, IInv, TypeOK
-----------------------------------------------------------------------------
(* Claims, probes and answers.                                             *)

LEMMA BusyType ==
  ASSUME IInv, NEW t \in Thread, job[t].pc \in Busy
  PROVE  /\ job[t] \in Job /\ JobInv(job[t])
         /\ job[t].at \in Endpoint /\ job[t].at + 1 \in 1..(N + 1)
<1>1. job[t] \in Job /\ JobInv(job[t])
  BY DEF IInv, TypeOK, JobsInv
<1> QED
  BY <1>1, EndpointAssumption DEF JobInv, Endpoint

LEMMA ClaimInv ==
  ASSUME IInv, NEW t \in Thread, ClaimWon(t) \/ ClaimLost(t)
  PROVE  IInv'
<1> DEFINE e == job[t].at
<1>1. /\ job[t] \in Job /\ JobInv(job[t]) /\ job[t].pc = "claim"
      /\ e \in Endpoint /\ e + 1 \in 1..(N + 1) /\ UNCHANGED up
  BY BusyType DEF ClaimWon, ClaimLost, Busy
<1>2. CASE ClaimWon(t)
  <2> DEFINE j == [job[t] EXCEPT !.pc = "won"]
  <2>1. j \in Job
    BY <1>1 DEF Job
  <2>2. JobInv(j)
    BY <1>1 DEF JobInv, SteadyInv, Busy, Picking, Probing, Tried, Job
  <2>3. Locals(t, j)
    BY <1>2 DEF ClaimWon
  <2>4. job' \in [Thread -> Job] /\ JobsInv'
    BY <1>1, <2>1, <2>2, <2>3, LocalsInv
  <2>5. claimed' \in [Endpoint -> 0..Spacing]
    BY <1>1, <1>2, SpacingType DEF ClaimWon, IInv, TypeOK
  <2> QED
    BY <1>2, <2>4, <2>5 DEF ClaimWon, healthVars, IInv, TypeOK
<1>3. CASE ClaimLost(t)
  <2> DEFINE j == [job[t] EXCEPT !.pc = "scan", !.at = job[t].at + 1]
  <2>1. j \in Job
    BY <1>1 DEF Job
  <2>2. JobInv(j)
    BY <1>1 DEF JobInv, SteadyInv, Busy, Picking, Probing, Tried, Job
  <2>3. Locals(t, j)
    BY <1>3 DEF ClaimLost
  <2>4. job' \in [Thread -> Job] /\ JobsInv'
    BY <1>1, <2>1, <2>2, <2>3, LocalsInv
  <2> QED
    BY <1>3, <2>4 DEF ClaimLost, healthVars, timeVars, IInv, TypeOK
<1> QED
  BY <1>2, <1>3

LEMMA StoreInv ==
  ASSUME IInv, NEW t \in Thread,
         ReadClock(t) \/ StoreClaim(t) \/ StoreProbe(t)
  PROVE  IInv'
<1> DEFINE e == job[t].at
<1>1. /\ job[t] \in Job /\ JobInv(job[t]) /\ e \in Endpoint /\ UNCHANGED up
  BY BusyType DEF ReadClock, StoreClaim, StoreProbe, Busy, Probing
<1>2. job[t].read \in 0..Interval /\ 0 \in 0..Lag
  <2>1. job[t].read \in 0..Lag
    BY <1>1 DEF Job
  <2> QED
    BY <2>1, SpacingType, IntervalAssumption
<1>3. CASE ReadClock(t)
  <2> DEFINE next == IF job[t].pc = "won" THEN "stamp" ELSE "store"
             j == [job[t] EXCEPT !.pc = next]
  <2>1. \/ job[t].pc = "won" /\ next = "stamp"
        \/ job[t].pc = "start" /\ next = "store"
    BY <1>3 DEF ReadClock
  <2>2. Locals(t, j)
    BY <1>3 DEF ReadClock
  <2> HIDE DEF next
  <2>3. j \in Job
    BY <1>1, <2>1 DEF Job
  <2>4. JobInv(j)
    BY <1>1, <2>1 DEF JobInv, SteadyInv, Busy, Picking, Probing, Tried, Job
  <2>5. job' \in [Thread -> Job] /\ JobsInv'
    BY <1>1, <2>2, <2>3, <2>4, LocalsInv
  <2> QED
    BY <1>3, <2>5 DEF ReadClock, healthVars, timeVars, IInv, TypeOK
<1>4. CASE StoreClaim(t)
  <2> DEFINE j == [job[t] EXCEPT !.pc = "start", !.read = 0,
                                 !.probed = job[t].probed \cup {e}]
  <2>1. j \in Job
    BY <1>1, <1>2 DEF Job
  <2>2. JobInv(j)
    BY <1>1, <1>4
    DEF StoreClaim, JobInv, SteadyInv, Busy, Picking, Probing, Tried, Job
  <2>3. Locals(t, j)
    BY <1>4 DEF StoreClaim
  <2>4. job' \in [Thread -> Job] /\ JobsInv'
    BY <1>1, <2>1, <2>2, <2>3, LocalsInv
  <2>5. age' \in [Endpoint -> 0..Interval]
    BY <1>1, <1>2, <1>4 DEF StoreClaim, IInv, TypeOK
  <2> QED
    BY <1>4, <2>4, <2>5 DEF StoreClaim, healthVars, IInv, TypeOK
<1>5. CASE StoreProbe(t)
  <2> DEFINE j == [job[t] EXCEPT !.pc = "probe", !.read = 0]
  <2>1. j \in Job
    BY <1>1, <1>2 DEF Job
  <2>2. JobInv(j)
    BY <1>1, <1>5
    DEF StoreProbe, JobInv, SteadyInv, Busy, Picking, Probing, Tried, Job
  <2>3. Locals(t, j)
    BY <1>5 DEF StoreProbe
  <2>4. job' \in [Thread -> Job] /\ JobsInv'
    BY <1>1, <2>1, <2>2, <2>3, LocalsInv
  <2>5. age' \in [Endpoint -> 0..Interval]
    BY <1>1, <1>2, <1>5 DEF StoreProbe, IInv, TypeOK
  <2> QED
    BY <1>5, <2>4, <2>5 DEF StoreProbe, healthVars, IInv, TypeOK
<1> QED
  BY <1>3, <1>4, <1>5

LEMMA ProbeInv ==
  ASSUME IInv, NEW t \in Thread, ProbeAnswered(t)
  PROVE  IInv'
<1> DEFINE j == [job[t] EXCEPT !.pc = "mark", !.answer = up[job[t].at]]
<1>1. /\ job[t] \in Job /\ JobInv(job[t]) /\ job[t].pc = "probe"
      /\ job[t].at \in Endpoint /\ UNCHANGED up
  BY BusyType DEF ProbeAnswered, Busy, Probing
<1>2. up[job[t].at] \in BOOLEAN
  BY <1>1 DEF IInv, TypeOK
<1>3. j \in Job
  BY <1>1, <1>2 DEF Job
<1>4. JobInv(j)
  BY <1>1 DEF JobInv, SteadyInv, Busy, Picking, Probing, Tried, Job
<1>5. Locals(t, j)
  BY DEF ProbeAnswered
<1>6. job' \in [Thread -> Job] /\ JobsInv'
  BY <1>1, <1>3, <1>4, <1>5, LocalsInv
<1> QED
  BY <1>6 DEF ProbeAnswered, healthVars, timeVars, IInv, TypeOK

\* A failed probe was not of an endpoint that has been up throughout.
LEMMA ProbedInv ==
  ASSUME IInv, NEW t \in Thread, ProbeOk(t) \/ ProbeFailed(t)
  PROVE  IInv'
<1>1. /\ job[t] \in Job /\ JobInv(job[t]) /\ job[t].pc = "mark"
      /\ job[t].at \in Endpoint /\ job[t].at + 1 \in 1..(N + 1)
      /\ UNCHANGED up
  BY BusyType DEF ProbeOk, ProbeFailed, Busy, Probing
<1>2. job' \in [Thread -> Job] /\ JobsInv'
  <2>1. CASE ProbeOk(t) /\ job[t].loop = "refresh"
    <3> DEFINE j == [job[t] EXCEPT !.pc = "scan", !.at = job[t].at + 1,
                                   !.answer = FALSE]
    <3>1. j \in Job
      BY <1>1 DEF Job
    <3>2. JobInv(j)
      BY <1>1, <2>1 DEF JobInv, SteadyInv, Busy, Picking, Probing, Tried, Job
    <3>3. Locals(t, j)
      BY <2>1 DEF ProbeOk
    <3> QED
      BY <1>1, <3>1, <3>2, <3>3, LocalsInv
  <2>2. CASE ProbeOk(t) /\ job[t].loop # "refresh"
    <3>1. Take(t, job[t].at)
      BY <2>2 DEF ProbeOk
    <3>2. job[t].at \notin Tried(job[t])
      BY <1>1 DEF JobInv, Picking, Probing
    <3> QED
      BY <1>1, <3>1, <3>2, TakeInv DEF Picking, Probing
  <2>3. CASE ProbeFailed(t)
    <3> DEFINE j == [job[t] EXCEPT !.pc = "scan", !.at = job[t].at + 1]
    <3>1. j \in Job
      BY <1>1 DEF Job
    <3>2. job[t].at \notin job[t].steady
      BY <1>1, <2>3 DEF ProbeFailed, JobInv, SteadyInv
    <3>3. JobInv(j)
      BY <1>1, <3>2
      DEF JobInv, SteadyInv, Busy, Picking, Probing, Tried, Job, Endpoint
    <3>4. Locals(t, j)
      BY <2>3 DEF ProbeFailed
    <3> QED
      BY <1>1, <3>1, <3>3, <3>4, LocalsInv
  <2> QED
    BY <2>1, <2>2, <2>3
<1>3. MarkSuccess(job[t].at) \/ MarkFailure(job[t].at)
  BY DEF ProbeOk, ProbeFailed
<1>4. /\ healthy' \in [Endpoint -> BOOLEAN]
      /\ failures' \in [Endpoint -> 0..Threshold]
  BY <1>1, <1>3, MarkType DEF IInv
<1> QED
  BY <1>2, <1>4 DEF ProbeOk, ProbeFailed, timeVars, IInv, TypeOK

\* A request that moves on has tried one more endpoint that went down; when
\* it has tried them all, every endpoint went down.
LEMMA AnswerInv ==
  ASSUME IInv, NEW t \in Thread,
         \/ Answered(t) \/ BrokenOff(t)
         \/ Served(t) \/ MovesOn(t) \/ Refused(t)
  PROVE  IInv'
<1>1. job[t] \in Job /\ JobInv(job[t]) /\ UNCHANGED up
  BY DEF IInv, TypeOK, JobsInv, Answered, BrokenOff, Served,
         MovesOn, Refused
<1>2. CASE Answered(t)
  <2> DEFINE j == [job[t] EXCEPT !.pc = "answered", !.answer = up[job[t].at]]
  <2>1. job[t].pc = "send" /\ job[t].at \in Endpoint
    BY <1>2, BusyType DEF Answered, Busy
  <2>2. j \in Job
    BY <1>1, <2>1 DEF Job, IInv, TypeOK
  <2>3. JobInv(j)
    BY <1>1, <2>1 DEF JobInv, SteadyInv, Busy, Picking, Probing, Tried, Job
  <2>4. Locals(t, j)
    BY <1>2 DEF Answered
  <2>5. job' \in [Thread -> Job] /\ JobsInv'
    BY <1>1, <2>2, <2>3, <2>4, LocalsInv
  <2> QED
    BY <1>2, <2>5 DEF Answered, healthVars, timeVars, IInv, TypeOK
<1>3. CASE Served(t)
  <2>1. job[t].at \in Endpoint /\ MarkSuccess(job[t].at)
    BY <1>3, BusyType DEF Served, Busy
  <2>2. job' \in [Thread -> Job] /\ JobsInv'
    BY <1>1, <1>3, IdleType, IdleInv, LocalsInv DEF Served
  <2>3. /\ healthy' \in [Endpoint -> BOOLEAN]
        /\ failures' \in [Endpoint -> 0..Threshold]
    BY <2>1, MarkType DEF IInv
  <2> QED
    BY <1>3, <2>2, <2>3 DEF Served, timeVars, IInv, TypeOK
<1>4. CASE MovesOn(t)
  <2> DEFINE next == IF Len(job[t].tried) < N THEN "pick" ELSE "refused"
             j == [Attempt(job[t]) EXCEPT !.pc = next]
  <2>1. /\ job[t].at \in Endpoint /\ MarkFailure(job[t].at)
        /\ job[t].pc = "answered" /\ ~ job[t].answer
    BY <1>4, BusyType DEF MovesOn, Busy
  <2>2. next \in {"pick", "refused"}
    OBVIOUS
  <2>3. Attempt(job[t]) \in Job
    BY <1>1, IdleType
  <2>4. /\ j.pc = next /\ j.loop = "scan" /\ j.tried = job[t].tried
        /\ j.probed = {} /\ j.steady = job[t].steady
    BY DEF Attempt, Idle
  <2>5. \A e \in job[t].steady : up[e] /\ e \notin Tried(job[t])
    BY <1>1, <2>1 DEF JobInv, SteadyInv
  <2>6. next = "refused" => job[t].steady = {}
    <3>1. Len(job[t].tried) \in Nat /\ job[t].steady \in SUBSET Endpoint
      BY <1>1 DEF Job
    <3>2. CASE Len(job[t].tried) >= N
      BY <1>1, <2>5, <3>1, <3>2, AllTried
    <3>3. CASE Len(job[t].tried) < N
      BY <3>3
    <3> QED
      BY <3>1, <3>2, <3>3, EndpointAssumption
  <2>7. j \in Job
    BY <2>2, <2>3 DEF Job
  <2>8. Locals(t, j)
    BY <1>4 DEF MovesOn
  <2> HIDE DEF j, next
  <2>9. JobInv(j)
    BY <1>1, <2>2, <2>4, <2>5, <2>6
    DEF JobInv, SteadyInv, Busy, Picking, Probing, Tried
  <2>10. job' \in [Thread -> Job] /\ JobsInv'
    BY <1>1, <2>7, <2>8, <2>9, LocalsInv
  <2>11. /\ healthy' \in [Endpoint -> BOOLEAN]
         /\ failures' \in [Endpoint -> 0..Threshold]
    BY <2>1, MarkType DEF IInv
  <2> QED
    BY <1>4, <2>10, <2>11 DEF MovesOn, timeVars, IInv, TypeOK
<1>5. CASE BrokenOff(t) \/ Refused(t)
  <2>1. job' \in [Thread -> Job] /\ JobsInv'
    BY <1>1, <1>5, IdleType, IdleInv, LocalsInv DEF BrokenOff, Refused
  <2> QED
    BY <1>5, <2>1
    DEF BrokenOff, Refused, healthVars, timeVars, IInv, TypeOK
<1> QED
  BY <1>2, <1>3, <1>4, <1>5
-----------------------------------------------------------------------------
(* The beginning of a request or refresh, the servers and the clock.       *)

LEMMA BeginInv ==
  ASSUME IInv, NEW t \in Thread, Begin(t)
  PROVE  IInv'
<1> DEFINE j == [Idle EXCEPT !.pc = "pick",
                             !.steady = {e \in Endpoint : up[e]}]
<1>1. /\ j.pc = "pick" /\ j.loop = "scan" /\ j.at = 1 /\ j.tried = <<>>
      /\ j.probed = {} /\ j.steady = {e \in Endpoint : up[e]}
  BY DEF Idle
<1>2. j \in Job
  <2>1. {e \in Endpoint : up[e]} \in SUBSET Endpoint
    OBVIOUS
  <2> QED
    BY <2>1, IdleType DEF Job
<1>3. Locals(t, j) /\ UNCHANGED up
  BY DEF Begin
<1> HIDE DEF j
<1>4. Tried(j) = {}
  BY <1>1 DEF Tried
<1>5. JobInv(j)
  BY <1>1, <1>4 DEF JobInv, SteadyInv, Busy, Picking, Probing
<1>6. job' \in [Thread -> Job] /\ JobsInv'
  BY <1>2, <1>3, <1>5, LocalsInv
<1> QED
  BY <1>6 DEF Begin, healthVars, timeVars, IInv, TypeOK

LEMMA RefreshInv ==
  ASSUME IInv, RefreshBegin
  PROVE  IInv'
<1> DEFINE j == [Idle EXCEPT !.pc = "scan", !.loop = "refresh"]
<1>1. j \in Job
  BY IdleType DEF Job
<1>2. JobInv(j)
  BY DEF Idle, JobInv, Busy, Picking, Probing
<1>3. Locals(Main, j) /\ UNCHANGED up
  BY DEF RefreshBegin
<1>4. job' \in [Thread -> Job] /\ JobsInv'
  BY <1>1, <1>2, <1>3, ThreadAssumption, LocalsInv
<1> QED
  BY <1>4 DEF RefreshBegin, healthVars, timeVars, IInv, TypeOK

LEMMA EnvironmentInv ==
  ASSUME IInv, Environment
  PROVE  IInv'
<1>1. ASSUME NEW e \in Endpoint, ComeUp(e)
      PROVE  IInv'
  <2>1. \A f : up[f] => up'[f]
    BY <1>1 DEF ComeUp, IInv, TypeOK
  <2>2. JobsInv'
    BY <1>1, <2>1
    DEF ComeUp, IInv, JobsInv, JobInv, SteadyInv, Tried
  <2>3. up' \in [Endpoint -> BOOLEAN]
    BY <1>1 DEF ComeUp, IInv, TypeOK
  <2> QED
    BY <1>1, <2>2, <2>3 DEF ComeUp, healthVars, timeVars, IInv, TypeOK
<1>2. ASSUME NEW e \in Endpoint, GoDown(e)
      PROVE  IInv'
  <2>1. /\ up' \in [Endpoint -> BOOLEAN]
        /\ \A f \in Endpoint \ {e} : up'[f] = up[f]
    BY <1>2 DEF GoDown, IInv, TypeOK
  <2>2. \A t \in Thread :
          /\ job'[t] \in Job
          /\ job'[t].steady = job[t].steady \ {e}
          /\ job'[t].pc = job[t].pc /\ job'[t].loop = job[t].loop
          /\ job'[t].at = job[t].at /\ job'[t].tried = job[t].tried
          /\ job'[t].probed = job[t].probed /\ job'[t].answer = job[t].answer
    BY <1>2 DEF GoDown, IInv, TypeOK, Job
  <2>3. job' \in [Thread -> Job]
    BY <1>2, <2>2 DEF GoDown
  <2>4. ASSUME NEW t \in Thread
        PROVE  JobInv(job[t])'
    <3>1. job[t] \in Job /\ JobInv(job[t])
      BY DEF IInv, TypeOK, JobsInv
    <3>2. Tried(job[t])' = Tried(job[t])
      BY <2>2 DEF Tried
    <3>3. \A f \in job'[t].steady : f \in Endpoint \ {e} /\ f \in job[t].steady
      BY <2>2, <3>1 DEF Job
    <3>4. \A f \in job'[t].steady : SteadyInv(job[t], f)'
      BY <2>1, <2>2, <3>1, <3>2, <3>3 DEF JobInv, SteadyInv
    <3> QED
      BY <2>2, <3>1, <3>2, <3>4 DEF JobInv
  <2> QED
    BY <1>2, <2>1, <2>3, <2>4
    DEF GoDown, healthVars, timeVars, IInv, TypeOK, JobsInv
<1> QED
  BY <1>1, <1>2 DEF Environment

LEMMA OlderType ==
  ASSUME NEW most \in Nat, NEW a \in 0..most
  PROVE  Older(a, most) \in 0..most
BY DEF Older

\* The clock ages the readings that are not yet stored, and nothing else of
\* the locals.
LEMMA TickInv ==
  ASSUME IInv, Tick
  PROVE  IInv'
<1>1. /\ age' \in [Endpoint -> 0..Interval]
      /\ claimed' \in [Endpoint -> 0..Spacing]
  BY OlderType, IntervalAssumption, SpacingType DEF Tick, IInv, TypeOK
<1>2. \A t \in Thread :
        /\ job'[t] \in Job
        /\ job'[t].steady = job[t].steady
        /\ job'[t].pc = job[t].pc /\ job'[t].loop = job[t].loop
        /\ job'[t].at = job[t].at /\ job'[t].tried = job[t].tried
        /\ job'[t].probed = job[t].probed /\ job'[t].answer = job[t].answer
  <2> TAKE t \in Thread
  <2>1. job[t] \in Job /\ job[t].read \in 0..Lag
    BY DEF IInv, TypeOK, Job
  <2>2. CASE job[t].pc \in Stamping
    <3>1. job'[t] = [job[t] EXCEPT !.read = job[t].read + 1]
      BY <2>2 DEF Tick
    <3>2. job[t].read + 1 \in 0..Lag
      BY <2>1, <2>2, SpacingType DEF Tick
    <3> QED
      BY <2>1, <3>1, <3>2 DEF Job
  <2>3. CASE job[t].pc \notin Stamping
    BY <2>1, <2>3 DEF Tick
  <2> QED
    BY <2>2, <2>3
<1>3. job' \in [Thread -> Job]
  BY <1>2 DEF Tick
<1>4. JobsInv'
  BY <1>2 DEF Tick, IInv, JobsInv, JobInv, SteadyInv, Tried
<1> QED
  BY <1>1, <1>3, <1>4 DEF Tick, healthVars, IInv, TypeOK

LEMMA UnchangedInv ==
  ASSUME IInv, UNCHANGED <<up, job>>
  PROVE  JobsInv'
BY DEF IInv, JobsInv, JobInv, SteadyInv, Tried

-----------------------------------------------------------------------------
(* The invariant.                                                          *)

LEMMA InitInv == Init => IInv
<1> SUFFICES ASSUME Init
             PROVE  IInv
  OBVIOUS
<1>1. TypeOK
  BY IdleType, EndpointAssumption, ThresholdAssumption, SpacingType
  DEF Init, FreshEndpoints, TypeOK
<1>2. JobsInv
  BY IdleInv DEF Init, JobsInv
<1> QED
  BY <1>1, <1>2 DEF IInv

LEMMA RequestInv ==
  ASSUME IInv, NEW t \in Thread, Request(t)
  PROVE  IInv'
BY PickInv, ScanInv, ScanEndsInv, ClaimInv, StoreInv, ProbeInv, ProbedInv,
   AnswerInv
DEF Request

LEMMA NextInv == IInv /\ [Next]_vars => IInv'
<1> SUFFICES ASSUME IInv, [Next]_vars
             PROVE  IInv'
  OBVIOUS
<1>1. CASE Environment
  BY <1>1, EnvironmentInv
<1>2. CASE Tick
  BY <1>2, TickInv
<1>3. ASSUME NEW t \in Thread, Begin(t) \/ Request(t)
      PROVE  IInv'
  BY <1>3, BeginInv, RequestInv
<1>4. CASE RefreshBegin
  BY <1>4, RefreshInv
<1>5. CASE (\E e \in Endpoint : Prefer(e)) \/ PreferNone \/ PassEnds
  <2>1. preferred' \in 0..N /\ phase' \in {"refresh", "pass"}
    BY <1>5, EndpointAssumption
    DEF Prefer, PreferNone, PassEnds, SetPreferred, IInv, TypeOK, Endpoint
  <2> QED
    BY <1>5, <2>1, UnchangedInv
    DEF Prefer, PreferNone, PassEnds, SetPreferred, healthVars, timeVars, IInv, TypeOK
<1>6. CASE UNCHANGED vars
  BY <1>6, UnchangedInv DEF vars, IInv, TypeOK
<1> QED
  BY <1>1, <1>2, <1>3, <1>4, <1>5, <1>6 DEF Next

LEMMA Invariant == Spec => []IInv
BY InitInv, NextInv, PTL DEF Spec

\* Every variable keeps its type: the positions of the loops of _pick and
\* refresh() stay within the endpoints.
THEOREM TypeCorrect == Spec => []TypeOK
<1>1. IInv => TypeOK
  BY DEF IInv
<1> QED
  BY <1>1, Invariant, PTL

\* Whatever the other threads do to the health of the endpoints, a call of
\* _request that raises ConnectionError leaves out no endpoint that was up
\* throughout the call.
THEOREM RefusedOnlyWhenDown == Spec => []ServedWhenUp
<1>1. IInv => ServedWhenUp
  BY DEF IInv, JobsInv, JobInv, SteadyInv, ServedWhenUp
<1> QED
  BY <1>1, Invariant, PTL

\* A call of _request tries no endpoint twice.
THEOREM EachTriedOnce == Spec => []TriedOnce
<1>1. IInv => TriedOnce
  BY DEF IInv, JobsInv, JobInv, TriedOnce
<1> QED
  BY <1>1, Invariant, PTL

-----------------------------------------------------------------------------
(* The spacing of the claims: what is stored in last_probe was read at most *)
(* Lag ago, so last_probe lies at most Lag before the last claim, once the *)
(* claim has let go of the lock.  Until then nobody else can claim.        *)

AgeInv == \A e \in Endpoint : LockFree(e) => age[e] <= claimed[e] + Lag

\* A step that leaves the times alone and takes no thread out of a claim.
LEMMA AgeKept ==
  ASSUME IInv, AgeInv, UNCHANGED timeVars,
         \A t \in Thread : job[t].pc \in {"won", "stamp"} =>
           job'[t].pc \in {"won", "stamp"} /\ job'[t].at = job[t].at
  PROVE  AgeInv'
BY DEF AgeInv, LockFree, timeVars

LEMMA AgeStep == IInv /\ AgeInv /\ [Next]_vars => AgeInv'
<1> SUFFICES ASSUME IInv, AgeInv, [Next]_vars
             PROVE  AgeInv'
  OBVIOUS
<1>1. /\ age \in [Endpoint -> 0..Interval]
      /\ claimed \in [Endpoint -> 0..Spacing]
      /\ job \in [Thread -> Job]
  BY DEF IInv, TypeOK
<1>2. CASE Tick
  <2>1. \A t \in Thread : job'[t].pc = job[t].pc /\ job'[t].at = job[t].at
    BY <1>1, <1>2 DEF Tick, Job
  <2>2. \A e \in Endpoint : LockFree(e)' => LockFree(e)
    BY <2>1 DEF LockFree
  <2>3. \A e \in Endpoint : age[e] <= claimed[e] + Lag =>
          age'[e] <= claimed'[e] + Lag
    BY <1>1, <1>2, SpacingType, IntervalAssumption, LagAssumption
    DEF Tick, Older, Spacing
  <2> QED
    BY <2>2, <2>3 DEF AgeInv
<1>3. ASSUME NEW t \in Thread, ClaimWon(t)
      PROVE  AgeInv'
  <2>1. /\ job'[t].pc = "won" /\ job'[t].at = job[t].at
        /\ \A u \in Thread \ {t} : job'[u] = job[u]
    BY <1>1, <1>3 DEF ClaimWon, Locals, Job
  <2>2. ~ LockFree(job[t].at)'
    BY <2>1 DEF LockFree
  <2>3. \A e \in Endpoint : LockFree(e)' => LockFree(e) /\ e # job[t].at
    BY <1>3, <2>1, <2>2 DEF LockFree, ClaimWon
  <2> QED
    BY <1>1, <1>3, <2>3 DEF ClaimWon, AgeInv
<1>4. ASSUME NEW t \in Thread, StoreClaim(t) \/ StoreProbe(t)
      PROVE  AgeInv'
  <2>1. /\ job[t].read \in 0..Lag /\ job[t].at \in Endpoint
        /\ age' = [age EXCEPT ![job[t].at] = job[t].read]
        /\ UNCHANGED claimed
    BY <1>4, BusyType DEF StoreClaim, StoreProbe, Busy, Probing, Job
  <2>2. \A u \in Thread \ {t} : job'[u] = job[u]
    BY <1>1, <1>4 DEF StoreClaim, StoreProbe, Locals
  <2>3. \A e \in Endpoint \ {job[t].at} : LockFree(e)' => LockFree(e)
    BY <2>2 DEF LockFree
  <2>4. \A e \in Endpoint : job[t].read <= claimed[e] + Lag
    BY <1>1, <2>1, SpacingType
  <2> QED
    BY <1>1, <2>1, <2>3, <2>4 DEF AgeInv
<1>5. ASSUME NEW t \in Thread, ReadClock(t)
      PROVE  AgeInv'
  <2>1. /\ job[t].pc \in {"won", "start"} /\ UNCHANGED timeVars
        /\ job[t].pc = "won" => job'[t].pc = "stamp" /\ job'[t].at = job[t].at
        /\ \A u \in Thread \ {t} : job'[u] = job[u]
    BY <1>1, <1>5 DEF ReadClock, Locals, Job
  <2> QED
    BY <2>1, AgeKept
<1>6. ASSUME NEW t \in Thread, job[t].pc \notin {"won", "stamp"},
             NEW j, Locals(t, j), UNCHANGED timeVars
      PROVE  AgeInv'
  <2>1. \A u \in Thread \ {t} : job'[u] = job[u]
    BY <1>1, <1>6 DEF Locals
  <2> QED
    BY <1>6, <2>1, AgeKept
<1>7. CASE Environment
  <2>1. /\ UNCHANGED timeVars
        /\ \A t \in Thread : job'[t].pc = job[t].pc /\ job'[t].at = job[t].at
    BY <1>1, <1>7 DEF Environment, ComeUp, GoDown, Job
  <2> QED
    BY <2>1, AgeKept
<1>8. CASE UNCHANGED <<timeVars, job>>
  BY <1>8, AgeKept
<1>9. ASSUME NEW t \in Thread, Begin(t) \/ Request(t)
      PROVE  AgeInv'
  <2>1. CASE \/ ClaimWon(t) \/ ReadClock(t)
             \/ StoreClaim(t) \/ StoreProbe(t)
    BY <1>3, <1>4, <1>5, <2>1
  <2>2. CASE Begin(t) \/ PickPreferred(t) \/ PickScan(t)
    BY <1>6, <2>2 DEF Begin, PickPreferred, PickScan, Take
  <2>3. CASE \E e \in Endpoint :
               ScanHealthy(t, e) \/ ScanDown(t, e) \/ ScanResort(t, e)
    BY <1>6, <2>3 DEF ScanHealthy, ScanDown, ScanResort, Take
  <2>4. CASE ScanEnds(t)
    <3>1. \E j : Locals(t, j)
      BY <1>1, <2>4 DEF ScanEnds, Job
    <3> QED
      BY <1>6, <2>4, <3>1 DEF ScanEnds
  <2>5. CASE ClaimLost(t) \/ ProbeAnswered(t) \/ Answered(t)
             \/ BrokenOff(t) \/ Refused(t)
    BY <1>6, <2>5 DEF ClaimLost, ProbeAnswered, Answered, BrokenOff, Refused
  <2>6. CASE ProbeOk(t) \/ ProbeFailed(t) \/ Served(t) \/ MovesOn(t)
    BY <1>6, <2>6 DEF ProbeOk, ProbeFailed, Served, MovesOn, Take
  <2> QED
    BY <1>9, <2>1, <2>2, <2>3, <2>4, <2>5, <2>6 DEF Request
<1>10. CASE RefreshBegin
  BY <1>6, <1>10, ThreadAssumption DEF RefreshBegin, AllIdle, timeVars
<1> QED
  BY <1>2, <1>7, <1>8, <1>9, <1>10
  DEF Next, vars, timeVars, Prefer, PreferNone, SetPreferred, PassEnds

\* However many threads find an endpoint down and probe it, with the lock or
\* without, and however late their stores come, up to Lag after the reading:
\* claim_probe grants two claims of an endpoint no closer than the interval less
\* Lag.
THEOREM ClaimsAreSpaced == Spec => ClaimsSpaced
<1>1. Init => AgeInv
  BY IntervalAssumption, LagAssumption
  DEF Init, FreshEndpoints, Spacing, AgeInv
<1>2. ASSUME IInv, AgeInv, NEW e \in Endpoint, NEW t \in Thread,
             ClaimWon(t), job[t].at = e
      PROVE  claimed[e] = Spacing
  <2>1. age[e] >= Interval /\ LockFree(e)
    BY <1>2 DEF ClaimWon
  <2>2. age[e] <= claimed[e] + Lag
    BY <1>2, <2>1 DEF AgeInv
  <2>3. age[e] \in 0..Interval /\ claimed[e] \in 0..Spacing
    BY <1>2 DEF IInv, TypeOK
  <2> QED
    BY <2>1, <2>2, <2>3, SpacingType, IntervalAssumption DEF Spacing
<1>3. IInv /\ AgeInv /\ [Next]_vars =>
        [\A e \in Endpoint :
           (\E t \in Thread : ClaimWon(t) /\ job[t].at = e)
             => claimed[e] = Spacing]_vars
  BY <1>2
<1> QED
  BY <1>1, <1>3, Invariant, AgeStep, PTL DEF Spec, ClaimsSpaced
=============================================================================
