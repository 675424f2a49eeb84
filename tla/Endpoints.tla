----------------------------- MODULE Endpoints -----------------------------
(***************************************************************************)
(* The choice of an endpoint for every request, and what the transport     *)
(* learns about the endpoints (src/sync-demo/client/transport.py,          *)
(* ServerEndpoint and HttpServer).  The threads of the upload pool and the *)
(* main thread share the endpoints; each test of `healthy` reads it        *)
(* without the lock, each mark is one step under it.  A claim holds it     *)
(* over three: the test, the reading of the clock and the store of it.  A  *)
(* probe reads the clock and stores it in two steps, without the lock.     *)
(*                                                                         *)
(* A server that is up answers below 500, and 200 to a probe; one that is  *)
(* down refuses, times out or answers 5xx.  It may go down and come back   *)
(* at any moment.                                                          *)
(***************************************************************************)
EXTENDS Integers, Sequences

CONSTANTS
  N,            \* endpoints, in priority order
  Thread,       \* the main thread and the workers of the upload pool
  Main,
  Threshold,    \* failure_threshold
  Interval,     \* health_check_interval
  Lag           \* the longest a thread takes from a reading of the clock to
                \* its store in last_probe

ASSUME EndpointAssumption == N \in Nat \ {0}
ASSUME ThreadAssumption == Main \in Thread
ASSUME ThresholdAssumption == Threshold \in Nat \ {0}
ASSUME IntervalAssumption == Interval \in Nat
ASSUME LagAssumption == Lag \in 0..Interval

VARIABLES
  up,         \* up[e]: server e answers
  healthy,    \* ServerEndpoint.healthy
  failures,   \* ServerEndpoint.failures, counted up to Threshold
  age,        \* age[e]: time since last_probe, counted up to Interval
  preferred,  \* preferred_endpoint, or 0
  phase,      \* the run loop: "refresh" or "pass"
  job,        \* job[t]: the locals of the request or refresh of thread t
  claimed     \* history: claimed[e] is the time since the last claim of e
              \* was granted, counted up to Spacing

vars == <<up, healthy, failures, age, preferred, phase, job, claimed>>
healthVars == <<healthy, failures>>
timeVars == <<age, claimed>>

Endpoint == 1..N
Spacing == Interval - Lag

Job ==
  [ pc : {"idle", "pick", "scan", "claim", "won", "stamp", "start", "store",
          "probe", "mark", "send", "answered", "refused"},
    loop : {"scan", "resort", "refresh"},   \* the loop over the endpoints
    at : 1..(N + 1),                        \* its position
    tried : Seq(Endpoint),                  \* by _request
    probed : SUBSET Endpoint,               \* by this call of _pick
    read : 0..Lag,                          \* age of its reading of the clock
    answer : BOOLEAN,                       \* of the request or probe
    steady : SUBSET Endpoint ]              \* history: up since the call began

TypeOK ==
  /\ up \in [Endpoint -> BOOLEAN]
  /\ healthy \in [Endpoint -> BOOLEAN]
  /\ failures \in [Endpoint -> 0..Threshold]
  /\ age \in [Endpoint -> 0..Interval]
  /\ claimed \in [Endpoint -> 0..Spacing]
  /\ preferred \in 0..N
  /\ phase \in {"refresh", "pass"}
  /\ job \in [Thread -> Job]

Idle ==
  [ pc |-> "idle", loop |-> "scan", at |-> 1, tried |-> <<>>, probed |-> {},
    read |-> 0, answer |-> FALSE, steady |-> {} ]

\* last_probe is 0.0, of a monotonic clock that may have just started.
FreshEndpoints ==
  /\ healthy = [e \in Endpoint |-> TRUE]
  /\ failures = [e \in Endpoint |-> 0]
  /\ age \in [Endpoint -> 0..Interval]

Init ==
  /\ up \in [Endpoint -> BOOLEAN]
  /\ FreshEndpoints
  /\ claimed = [e \in Endpoint |-> Spacing]
  /\ preferred = 0
  /\ phase = "refresh"
  /\ job = [t \in Thread |-> Idle]

-----------------------------------------------------------------------------
(* The servers and the clock.                                              *)

ComeUp(e) ==
  /\ ~ up[e]
  /\ up' = [up EXCEPT ![e] = TRUE]
  /\ UNCHANGED <<healthVars, timeVars, preferred, phase, job>>

GoDown(e) ==
  /\ up[e]
  /\ up' = [up EXCEPT ![e] = FALSE]
  /\ job' = [t \in Thread |-> [job[t] EXCEPT !.steady = @ \ {e}]]
  /\ UNCHANGED <<healthVars, timeVars, preferred, phase>>

Older(a, most) == IF a < most THEN a + 1 ELSE a

Stamping == {"stamp", "store"}

Tick ==
  /\ \A t \in Thread : job[t].pc \in Stamping => job[t].read < Lag
  /\ age' = [e \in Endpoint |-> Older(age[e], Interval)]
  /\ claimed' = [e \in Endpoint |-> Older(claimed[e], Spacing)]
  /\ job' = [t \in Thread |-> IF job[t].pc \in Stamping
                              THEN [job[t] EXCEPT !.read = @ + 1] ELSE job[t]]
  /\ UNCHANGED <<up, healthVars, preferred, phase>>

-----------------------------------------------------------------------------
(* ServerEndpoint.                                                         *)

MarkSuccess(e) ==
  /\ healthy' = [healthy EXCEPT ![e] = TRUE]
  /\ failures' = [failures EXCEPT ![e] = 0]

MarkFailure(e) ==
  LET count ==
        IF failures[e] < Threshold THEN failures[e] + 1 ELSE Threshold
  IN
  /\ failures' = [failures EXCEPT ![e] = count]
  /\ healthy' = [healthy EXCEPT ![e] = @ /\ count < Threshold]

\* The lock of e is not in the hands of a claim.
LockFree(e) == \A t \in Thread : job[t].pc \in {"won", "stamp"} => job[t].at # e

-----------------------------------------------------------------------------
(* Requests.  A step of a thread names its place in the code with `pc`.    *)

Locals(t, j) == job' = [job EXCEPT ![t] = j]

\* The main thread waits for the upload pool while its workers send.
Begin(t) ==
  /\ phase = "pass"
  /\ job[t].pc = "idle"
  /\ IF t = Main
     THEN \A u \in Thread : job[u].pc = "idle"
     ELSE job[Main].pc = "idle"
  /\ Locals(t, [Idle EXCEPT !.pc = "pick",
                            !.steady = {e \in Endpoint : up[e]}])
  /\ UNCHANGED <<up, healthVars, timeVars, preferred, phase>>

\* What a request keeps from one attempt to the next.
Attempt(j) == [Idle EXCEPT !.tried = j.tried, !.steady = j.steady]
Tried(j) == {j.tried[i] : i \in DOMAIN j.tried}

\* Mutant of Take: the endpoint is not excluded from the next choice.
TakeForgotten(t, e) ==
  Locals(t, [Attempt(job[t]) EXCEPT !.pc = "send", !.at = e])

\* _pick returns e, and _request sends to it.
Take(t, e) ==
  Locals(t, [Attempt(job[t]) EXCEPT !.pc = "send", !.at = e,
                                    !.tried = Append(job[t].tried, e)])

\* Mutant of Wanted: the preferred endpoint is used whatever was tried.
WantedAgain(j) == preferred # 0 /\ healthy[preferred]

Wanted(j) ==
  /\ preferred # 0
  /\ preferred \notin Tried(j)
  /\ healthy[preferred]

PickPreferred(t) ==
  /\ job[t].pc = "pick"
  /\ Wanted(job[t])
  /\ Take(t, preferred)
  /\ UNCHANGED <<up, healthVars, timeVars, preferred, phase>>

PickScan(t) ==
  /\ job[t].pc = "pick"
  /\ ~ Wanted(job[t])
  /\ Locals(t, [job[t] EXCEPT !.pc = "scan"])
  /\ UNCHANGED <<up, healthVars, timeVars, preferred, phase>>

\* Mutant of Ahead: the last resort leaves out every endpoint that is down.
AheadHealthy(j) ==
  {e \in Endpoint :
     /\ e >= j.at
     /\ e \notin Tried(j)
     /\ j.loop = "resort" => healthy[e]}

\* The endpoints the loop under way has still to look at.
Ahead(j) ==
  {e \in Endpoint :
     /\ e >= j.at
     /\ e \notin Tried(j)
     /\ j.loop = "resort" => e \notin j.probed}

IsNext(j, e) == e \in Ahead(j) /\ \A f \in Ahead(j) : e <= f

ScanHealthy(t, e) ==
  /\ job[t].pc = "scan" /\ IsNext(job[t], e)
  /\ healthy[e]
  /\ \/ job[t].loop = "scan" /\ Take(t, e)
     \/ job[t].loop = "refresh" /\ Locals(t, [job[t] EXCEPT !.at = e + 1])
  /\ UNCHANGED <<up, healthVars, timeVars, preferred, phase>>

ScanDown(t, e) ==
  /\ job[t].pc = "scan" /\ IsNext(job[t], e)
  /\ job[t].loop \in {"scan", "refresh"} /\ ~ healthy[e]
  /\ Locals(t, [job[t] EXCEPT !.pc = "claim", !.at = e])
  /\ UNCHANGED <<up, healthVars, timeVars, preferred, phase>>

\* The last resort is not gated by the interval.
ScanResort(t, e) ==
  /\ job[t].pc = "scan" /\ IsNext(job[t], e)
  /\ job[t].loop = "resort"
  /\ Locals(t, [job[t] EXCEPT !.pc = "start", !.at = e])
  /\ UNCHANGED <<up, healthVars, timeVars, preferred, phase>>

\* No endpoint is left: the last resort follows the scan, and _pick returns
\* None after it; a refresh is over.
ScanEnds(t) ==
  /\ job[t].pc = "scan" /\ Ahead(job[t]) = {}
  /\ CASE job[t].loop = "scan" ->
            /\ Locals(t, [job[t] EXCEPT !.loop = "resort", !.at = 1])
            /\ UNCHANGED phase
       [] job[t].loop = "resort" ->
            Locals(t, [job[t] EXCEPT !.pc = "refused"]) /\ UNCHANGED phase
       [] job[t].loop = "refresh" ->
            Locals(t, Idle) /\ phase' = "pass"
  /\ UNCHANGED <<up, healthVars, timeVars, preferred>>

\* Mutant of ClaimWon: the lock is not taken.
ClaimWonUnlocked(t) ==
  /\ job[t].pc = "claim"
  /\ age[job[t].at] >= Interval
  /\ claimed' = [claimed EXCEPT ![job[t].at] = 0]
  /\ Locals(t, [job[t] EXCEPT !.pc = "won"])
  /\ UNCHANGED <<up, healthVars, age, preferred, phase>>

\* claim_probe takes the lock and tests last_probe.
ClaimWon(t) ==
  /\ job[t].pc = "claim" /\ LockFree(job[t].at)
  /\ age[job[t].at] >= Interval
  /\ claimed' = [claimed EXCEPT ![job[t].at] = 0]
  /\ Locals(t, [job[t] EXCEPT !.pc = "won"])
  /\ UNCHANGED <<up, healthVars, age, preferred, phase>>

ClaimLost(t) ==
  /\ job[t].pc = "claim" /\ LockFree(job[t].at)
  /\ age[job[t].at] < Interval
  /\ Locals(t, [job[t] EXCEPT !.pc = "scan", !.at = job[t].at + 1])
  /\ UNCHANGED <<up, healthVars, timeVars, preferred, phase>>

\* A claim that was granted, or _probe, reads the clock for its own store.
ReadClock(t) ==
  /\ job[t].pc \in {"won", "start"}
  /\ Locals(t, [job[t] EXCEPT !.pc = IF @ = "won" THEN "stamp" ELSE "store"])
  /\ UNCHANGED <<up, healthVars, timeVars, preferred, phase>>

\* last_probe = the reading, whatever was stored since: the claim gives the lock
\* back and _probe begins, ...
StoreClaim(t) ==
  /\ job[t].pc = "stamp"
  /\ age' = [age EXCEPT ![job[t].at] = job[t].read]
  /\ Locals(t, [job[t] EXCEPT !.pc = "start", !.read = 0,
                              !.probed = job[t].probed \cup {job[t].at}])
  /\ UNCHANGED <<up, healthVars, claimed, preferred, phase>>

\* ... or _probe sends its GET.
StoreProbe(t) ==
  /\ job[t].pc = "store"
  /\ age' = [age EXCEPT ![job[t].at] = job[t].read]
  /\ Locals(t, [job[t] EXCEPT !.pc = "probe", !.read = 0])
  /\ UNCHANGED <<up, healthVars, claimed, preferred, phase>>

\* The outcome of the GET, then, under the lock, what is made of it.
ProbeAnswered(t) ==
  /\ job[t].pc = "probe"
  /\ Locals(t, [job[t] EXCEPT !.pc = "mark", !.answer = up[job[t].at]])
  /\ UNCHANGED <<up, healthVars, timeVars, preferred, phase>>

ProbeOk(t) ==
  /\ job[t].pc = "mark" /\ job[t].answer
  /\ MarkSuccess(job[t].at)
  /\ IF job[t].loop = "refresh"
     THEN Locals(t, [job[t] EXCEPT !.pc = "scan", !.at = job[t].at + 1,
                                   !.answer = FALSE])
     ELSE Take(t, job[t].at)
  /\ UNCHANGED <<up, timeVars, preferred, phase>>

ProbeFailed(t) ==
  /\ job[t].pc = "mark" /\ ~ job[t].answer
  /\ MarkFailure(job[t].at)
  /\ Locals(t, [job[t] EXCEPT !.pc = "scan", !.at = job[t].at + 1])
  /\ UNCHANGED <<up, timeVars, preferred, phase>>

Answered(t) ==
  /\ job[t].pc = "send"
  /\ Locals(t, [job[t] EXCEPT !.pc = "answered", !.answer = up[job[t].at]])
  /\ UNCHANGED <<up, healthVars, timeVars, preferred, phase>>

\* An answer that breaks off raises past _request, whatever the endpoint.
BrokenOff(t) ==
  /\ job[t].pc = "send"
  /\ Locals(t, Idle)
  /\ UNCHANGED <<up, healthVars, timeVars, preferred, phase>>

Served(t) ==
  /\ job[t].pc = "answered" /\ job[t].answer
  /\ MarkSuccess(job[t].at)
  /\ Locals(t, Idle)
  /\ UNCHANGED <<up, timeVars, preferred, phase>>

\* The request moves on, while there are endpoints it has not tried.
MovesOn(t) ==
  /\ job[t].pc = "answered" /\ ~ job[t].answer
  /\ MarkFailure(job[t].at)
  /\ Locals(t, [Attempt(job[t]) EXCEPT
                  !.pc = IF Len(job[t].tried) < N THEN "pick" ELSE "refused"])
  /\ UNCHANGED <<up, timeVars, preferred, phase>>

\* ConnectionError.
Refused(t) ==
  /\ job[t].pc = "refused"
  /\ Locals(t, Idle)
  /\ UNCHANGED <<up, healthVars, timeVars, preferred, phase>>

-----------------------------------------------------------------------------
(* The run loop: refresh(), then a pass that prefers one healthy endpoint  *)
(* for each file.                                                          *)

AllIdle == \A t \in Thread : job[t].pc = "idle"

\* Mutant of RefreshBegin: the run loop does not refresh.
RefreshSkipped ==
  /\ phase = "refresh" /\ AllIdle
  /\ phase' = "pass"
  /\ UNCHANGED <<up, healthVars, timeVars, preferred, job>>

RefreshBegin ==
  /\ phase = "refresh" /\ AllIdle
  /\ Locals(Main, [Idle EXCEPT !.pc = "scan", !.loop = "refresh"])
  /\ UNCHANGED <<up, healthVars, timeVars, preferred, phase>>

SetPreferred(e) == preferred' = e

\* Mutant of Prefer: the healthy endpoints are enumerated from one.
PreferFromOne(e) ==
  /\ phase = "pass" /\ AllIdle
  /\ preferred = 0 /\ healthy[e]
  /\ SetPreferred(e + 1)
  /\ UNCHANGED <<up, healthVars, timeVars, phase, job>>

\* run_once, before sync_file.
Prefer(e) ==
  /\ phase = "pass" /\ AllIdle
  /\ preferred = 0 /\ healthy[e]
  /\ SetPreferred(e)
  /\ UNCHANGED <<up, healthVars, timeVars, phase, job>>

\* Its finally clause.
PreferNone ==
  /\ phase = "pass" /\ AllIdle
  /\ preferred # 0
  /\ SetPreferred(0)
  /\ UNCHANGED <<up, healthVars, timeVars, phase, job>>

PassEnds ==
  /\ phase = "pass" /\ AllIdle
  /\ preferred = 0
  /\ phase' = "refresh"
  /\ UNCHANGED <<up, healthVars, timeVars, preferred, job>>

-----------------------------------------------------------------------------
Request(t) ==
  \/ PickPreferred(t) \/ PickScan(t)
  \/ \E e \in Endpoint :
       ScanHealthy(t, e) \/ ScanDown(t, e) \/ ScanResort(t, e)
  \/ ScanEnds(t) \/ ClaimWon(t) \/ ClaimLost(t)
  \/ ReadClock(t) \/ StoreClaim(t) \/ StoreProbe(t)
  \/ ProbeAnswered(t) \/ ProbeOk(t) \/ ProbeFailed(t)
  \/ Answered(t) \/ BrokenOff(t) \/ Served(t) \/ MovesOn(t) \/ Refused(t)

Environment == \E e \in Endpoint : ComeUp(e) \/ GoDown(e)

Next ==
  \/ Environment
  \/ Tick
  \/ \E t \in Thread : Begin(t) \/ Request(t)
  \/ RefreshBegin
  \/ \E e \in Endpoint : Prefer(e)
  \/ PreferNone
  \/ PassEnds

Spec == Init /\ [][Next]_vars

(***************************************************************************)
(* Requests and probes end, by their timeouts, and the clock runs.  A pass *)
(* sends finitely many requests and syncs finitely many files, so the run  *)
(* loop comes back to refresh() however the threads interleave: the steps  *)
(* that need every thread idle are strongly fair.                          *)
(***************************************************************************)
FairSpec ==
  /\ Spec
  /\ WF_vars(Tick)
  /\ \A t \in Thread : WF_vars(Request(t))
  /\ WF_vars(RefreshBegin)
  /\ SF_vars(PreferNone)
  /\ SF_vars(PassEnds)

-----------------------------------------------------------------------------
(* Properties.                                                             *)

\* A request is refused with ConnectionError only if every endpoint was down
\* at some moment of the call: none that answered throughout is passed over,
\* whatever the threads believe of it and whichever endpoint is preferred.
ServedWhenUp == \A t \in Thread : job[t].pc = "refused" => job[t].steady = {}

\* Each endpoint is tried at most once in one call of _request.
TriedOnce ==
  \A t \in Thread : \A i, k \in DOMAIN job[t].tried :
    job[t].tried[i] = job[t].tried[k] => i = k

\* Threads that find the same endpoint down share its claims: no two of them,
\* whichever the threads, come closer than the interval, less what a thread may
\* take from its reading of the clock to the store: a store that comes late, of
\* the claim or of any probe, puts an older time over a newer one.
ClaimsSpaced ==
  [][\A e \in Endpoint :
       (\E t \in Thread : ClaimWon(t) /\ job[t].at = e)
         => claimed[e] = Spacing]_vars

\* An endpoint that stays up is believed healthy for good in the end, also
\* when all the work goes to another one: the client fails back.
FailsBack == \A e \in Endpoint : <>[] up[e] => <>[] healthy[e]

\* Every request and refresh ends, however the endpoints come and go.
RequestsEnd ==
  \A t \in Thread : job[t].pc # "idle" ~> job[t].pc = "idle"
=============================================================================
