-------------------------------- MODULE XSync --------------------------------
(***************************************************************************)
(* The SYNC extension of one connection: counters, the alarms set on them, *)
(* fences, and the Await requests that stop the connection until a counter *)
(* or a fence gets there.  A stopped connection handles no request: only   *)
(* its frame timer and the frontend still act on it.                       *)
(*                                                                         *)
(* Abstracted: an i64 is a number of three bits that wraps in the same way.*)
(* The counter SERVERTIME is "time"; syTime is the clock it is set from.   *)
(***************************************************************************)
EXTENDS Integers, FiniteSets

CONSTANTS SyIds,       \* counters of the client
          SyAlarms,    \* alarm ids
          SyFences,    \* fence ids
          SyDeltas,    \* amounts and deltas of the requests
          SyMaxSteps   \* bound on the number of requests

ASSUME SyAssumption == SyDeltas \subseteq Int

SyTimeId == "time"
SyCounters == SyIds \cup {SyTimeId}
SyValues == -4..3
SyWrap(v) == ((v + 4) % 8) - 4
SyMaxTime == 2       \* bound on the clock
SyTests == {"PosTransition", "NegTransition", "PosComparison", "NegComparison"}
SyTriggers == [cnt : SyCounters, val : {0, 1}, test : {"PosTransition", "NegComparison"}]

VARIABLES
    syCnt,      \* syCnt[i]: {} or {value}
    syAlarm,    \* syAlarm[a]: {} or {[cnt, val, test, delta, events, active]}
    syFence,    \* syFence[f]: {} or {triggered}
    syAwaits,   \* pending_awaits: sets of triggers
    syFenceAwaits, \* pending_fence_awaits: sets of fences
    syBlocked,  \* the connection is stopped
    syTime,     \* the server's clock
    sySeen,     \* the clock at the last timer tick or Await (history)
    syTold,     \* syTold[a]: events since the alarm was made or changed (history)
    syStale,    \* counters changed from outside since the last tick (history)
    sySteps

syVars == <<syCnt, syAlarm, syFence, syAwaits, syFenceAwaits, syBlocked, syTime, sySeen,
            syTold, syStale, sySteps>>

SyInit ==
    /\ syCnt = [i \in SyCounters |-> IF i = SyTimeId THEN {0} ELSE {}]
    /\ syAlarm = [a \in SyAlarms |-> {}] /\ syFence = [f \in SyFences |-> {}]
    /\ syAwaits = {} /\ syFenceAwaits = {} /\ syBlocked = FALSE
    /\ syTime = 0 /\ sySeen = 0 /\ syTold = [a \in SyAlarms |-> 0] /\ syStale = {}
    /\ sySteps = 0

SyThe(S) == CHOOSE e \in S : TRUE
ValueOf(cnt, i) == IF cnt[i] = {} THEN 0 ELSE SyThe(cnt[i])

\* Requests are only handled while the connection is not stopped.
SyRequest == ~syBlocked /\ sySteps < SyMaxSteps /\ sySteps' = sySteps + 1

(***************************************************************************)
(* Alarms.                                                                 *)
(***************************************************************************)
Reached(test, val, old, new) ==
    CASE test = "PosTransition" -> old < val /\ new >= val
      [] test = "NegTransition" -> old > val /\ new <= val
      [] test = "PosComparison" -> new >= val
      [] test = "NegComparison" -> new <= val

Triggered(i, old, new) ==
    {a \in SyAlarms : \E x \in syAlarm[a] :
        x.cnt = i /\ x.active /\ x.events /\ Reached(x.test, x.val, old, new)}

\* A slip: an alarm without a delta stays active.
AfterFiringAgain(x) == [x EXCEPT !.val = SyWrap(@ + x.delta)]

\* The threshold moves on by the delta, once; without one the alarm is done.
AfterFiring(x) ==
    IF x.delta # 0 THEN [x EXCEPT !.val = SyWrap(@ + x.delta)]
    ELSE [x EXCEPT !.active = FALSE]

CheckAlarms(i, old, new) ==
    LET t == Triggered(i, old, new)
    IN  /\ syAlarm' = [a \in SyAlarms |->
                IF a \in t THEN {AfterFiring(x) : x \in syAlarm[a]} ELSE syAlarm[a]]
        /\ syTold' = [a \in SyAlarms |-> IF a \in t THEN syTold[a] + 1 ELSE syTold[a]]
AlarmsKept == UNCHANGED <<syAlarm, syTold>>

CreateAlarm(a, x) ==
    /\ SyRequest
    /\ syAlarm' = [syAlarm EXCEPT ![a] = {x}] /\ syTold' = [syTold EXCEPT ![a] = 0]
    /\ UNCHANGED <<syCnt, syFence, syAwaits, syFenceAwaits, syBlocked, syTime, sySeen, syStale>>

\* Any change makes an inactive alarm active again.
ChangeAlarm(a, delta) ==
    /\ syAlarm[a] # {} /\ SyRequest
    /\ syAlarm' = [syAlarm EXCEPT ![a] =
                      {[x EXCEPT !.delta = delta, !.active = TRUE] : x \in @}]
    /\ syTold' = [syTold EXCEPT ![a] = 0]
    /\ UNCHANGED <<syCnt, syFence, syAwaits, syFenceAwaits, syBlocked, syTime, sySeen, syStale>>

DestroyAlarm(a) ==
    /\ SyRequest
    /\ syAlarm' = [syAlarm EXCEPT ![a] = {}] /\ syTold' = [syTold EXCEPT ![a] = 0]
    /\ UNCHANGED <<syCnt, syFence, syAwaits, syFenceAwaits, syBlocked, syTime, sySeen, syStale>>

(***************************************************************************)
(* Waiting.                                                                *)
(***************************************************************************)
\* Relative values and the event threshold are read and not used.
IsTriggerSatisfied(t, v) ==
    IF t.test \in {"PosTransition", "PosComparison"} THEN v >= t.val ELSE v <= t.val

SatisfiedNow(t, cnt, time) ==
    IsTriggerSatisfied(t, IF t.cnt = SyTimeId THEN time ELSE ValueOf(cnt, t.cnt))

\* A slip: every trigger of a wait must be satisfied.
StillWaitingForAll(cnt, time) ==
    {w \in syAwaits : \E t \in w : ~SatisfiedNow(t, cnt, time)}

\* One trigger of a wait is enough.
StillWaiting(cnt, time) ==
    {w \in syAwaits : \A t \in w : ~SatisfiedNow(t, cnt, time)}
StillFenced(fence) ==
    {w \in syFenceAwaits : \A f \in w : TRUE \notin fence[f]}

\* The connection goes on when nothing is waited for any more.
LetGo(awaits, fences) ==
    syBlocked /\ ~(awaits \cup fences = {} /\ (awaits # syAwaits \/ fences # syFenceAwaits))

CheckPendingAwaits(cnt, time) ==
    /\ syAwaits' = StillWaiting(cnt, time)
    /\ syBlocked' = LetGo(syAwaits', syFenceAwaits)
    /\ UNCHANGED syFenceAwaits

Await(w) ==
    /\ SyRequest
    /\ IF \E t \in w : SatisfiedNow(t, syCnt, syTime)
       THEN UNCHANGED <<syAwaits, syBlocked>>
       ELSE syAwaits' = syAwaits \cup {w} /\ syBlocked' = TRUE
    /\ sySeen' = syTime
    /\ UNCHANGED <<syCnt, syFence, syFenceAwaits, syTime, syStale>> /\ AlarmsKept

AwaitFence(w) ==
    /\ SyRequest
    /\ IF \E f \in w : TRUE \in syFence[f] THEN UNCHANGED <<syFenceAwaits, syBlocked>>
       ELSE syFenceAwaits' = syFenceAwaits \cup {w} /\ syBlocked' = TRUE
    /\ UNCHANGED <<syCnt, syFence, syAwaits, syTime, sySeen, syStale>> /\ AlarmsKept

(***************************************************************************)
(* Counters and fences.                                                    *)
(***************************************************************************)
CreateCounter(i, v) ==
    /\ i # SyTimeId /\ SyRequest /\ syCnt' = [syCnt EXCEPT ![i] = {v}]
    /\ UNCHANGED <<syFence, syAwaits, syFenceAwaits, syBlocked, syTime, sySeen, syStale>>
    /\ AlarmsKept

\* An unknown counter counts as 0 and stays unknown, but its alarms are checked.
CounterSet(i, new) ==
    /\ SyRequest
    /\ syCnt' = [syCnt EXCEPT ![i] = IF @ = {} THEN {} ELSE {new}]
    /\ CheckAlarms(i, ValueOf(syCnt, i), new)
    /\ CheckPendingAwaits(syCnt', syTime)
    /\ UNCHANGED <<syFence, syTime, sySeen, syStale>>
SetCounter(i, v) == CounterSet(i, v)
ChangeCounter(i, d) == CounterSet(i, SyWrap(ValueOf(syCnt, i) + d))

DestroyCounter(i) ==
    /\ SyRequest
    /\ syCnt' = [syCnt EXCEPT ![i] = {}]
    /\ syAlarm' = [a \in SyAlarms |->
            {[x EXCEPT !.active = @ /\ x.cnt # i] : x \in syAlarm[a]}]
    /\ syAwaits' = {w \in syAwaits : \A t \in w : t.cnt # i}
    /\ syBlocked' = LetGo(syAwaits', syFenceAwaits)
    /\ UNCHANGED <<syFence, syFenceAwaits, syTime, sySeen, syTold, syStale>>

FencesSet(fence) ==
    /\ syFence' = fence
    /\ UNCHANGED <<syCnt, syAwaits, syTime, sySeen, syStale>> /\ AlarmsKept
CreateFence(f, b) ==
    /\ SyRequest /\ FencesSet([syFence EXCEPT ![f] = {b}])
    /\ UNCHANGED <<syFenceAwaits, syBlocked>>
TriggerFence(f) ==
    /\ SyRequest /\ FencesSet([syFence EXCEPT ![f] = IF @ = {} THEN {} ELSE {TRUE}])
    /\ syFenceAwaits' = StillFenced(syFence') /\ syBlocked' = LetGo(syAwaits, syFenceAwaits')
ResetFence(f) ==
    /\ syFence[f] = {TRUE} /\ SyRequest /\ FencesSet([syFence EXCEPT ![f] = {FALSE}])
    /\ UNCHANGED <<syFenceAwaits, syBlocked>>
DestroyFence(f) ==
    /\ SyRequest /\ FencesSet([syFence EXCEPT ![f] = {}])
    /\ syFenceAwaits' = {w \in syFenceAwaits : f \notin w}
    /\ syBlocked' = LetGo(syAwaits, syFenceAwaits')

(***************************************************************************)
(* What still acts on a stopped connection.                                *)
(***************************************************************************)
\* A resize from the frontend sets the counter of _NET_WM_SYNC_REQUEST.
FrontendResizes(i) ==
    /\ syCnt[i] # {} /\ i # SyTimeId /\ sySteps < SyMaxSteps /\ sySteps' = sySteps + 1
    /\ syCnt' = [syCnt EXCEPT ![i] = {SyWrap(SyThe(@) + 1)}]
    /\ syStale' = syStale \cup {i}
    /\ UNCHANGED <<syFence, syAwaits, syFenceAwaits, syBlocked, syTime, sySeen>> /\ AlarmsKept

SyClock ==
    /\ syTime < SyMaxTime /\ syTime' = syTime + 1
    /\ UNCHANGED <<syCnt, syAlarm, syFence, syAwaits, syFenceAwaits, syBlocked, sySeen, syTold,
                   syStale, sySteps>>

\* The frame timer: SERVERTIME follows the clock, then the waits are looked at.
SyTick ==
    /\ syCnt' = [syCnt EXCEPT ![SyTimeId] = IF @ = {} THEN {} ELSE {syTime}]
    /\ IF syCnt[SyTimeId] \in {{}, {syTime}} THEN AlarmsKept
       ELSE CheckAlarms(SyTimeId, SyThe(syCnt[SyTimeId]), syTime)
    /\ IF syBlocked
       THEN /\ syAwaits' = StillWaiting(syCnt', syTime)
            /\ syFenceAwaits' = StillFenced(syFence)
            /\ syBlocked' = LetGo(syAwaits', syFenceAwaits')
       ELSE UNCHANGED <<syAwaits, syFenceAwaits, syBlocked>>
    /\ sySeen' = syTime /\ syStale' = {}
    /\ UNCHANGED <<syFence, syTime, sySteps>>

AlarmsToMake ==
    [cnt : SyCounters, val : {1}, test : SyTests, delta : SyDeltas, events : {TRUE},
     active : {TRUE}]
SyNext ==
    \/ \E a \in SyAlarms : \E x \in AlarmsToMake : CreateAlarm(a, x)
    \/ \E a \in SyAlarms : DestroyAlarm(a) \/ \E d \in SyDeltas : ChangeAlarm(a, d)
    \/ \E i \in SyCounters :
           \/ \E v \in {0, 3} : CreateCounter(i, v) \/ SetCounter(i, v)
           \/ \E d \in SyDeltas : ChangeCounter(i, d)
           \/ DestroyCounter(i) \/ FrontendResizes(i)
    \/ \E t, u \in SyTriggers : Await({t, u})
    \/ \E f \in SyFences : TriggerFence(f) \/ ResetFence(f) \/ DestroyFence(f)
                           \/ \E b \in BOOLEAN : CreateFence(f, b)
    \/ \E w \in SUBSET SyFences : w # {} /\ AwaitFence(w)
    \/ SyClock \/ SyTick

SySpec == SyInit /\ [][SyNext]_syVars

(***************************************************************************)
(* Properties.                                                             *)
(***************************************************************************)
SyTypeOK ==
    /\ \A i \in SyCounters : syCnt[i] \subseteq SyValues
    /\ \A a \in SyAlarms : \A x \in syAlarm[a] :
           x.cnt \in SyCounters /\ x.val \in SyValues /\ x.test \in SyTests
    /\ \A f \in SyFences : syFence[f] \subseteq BOOLEAN
    /\ Cardinality(syAwaits \cup syFenceAwaits) <= 1

\* A connection is stopped exactly while a wait is pending, and for no wait that
\* has been satisfied: what a request changes is looked at in that request, and
\* what happens behind a stopped connection at its next timer tick.
WaitsJustified ==
    /\ syBlocked <=> syAwaits \cup syFenceAwaits # {}
    /\ \A w \in syAwaits : \A t \in w :
           SatisfiedNow(t, syCnt, sySeen) => t.cnt \in syStale
    /\ \A w \in syFenceAwaits : \A f \in w : TRUE \notin syFence[f]

\* An alarm without a delta is told at most once until the client changes it.
AlarmsOnce ==
    \A a \in SyAlarms : \A x \in syAlarm[a] : x.delta = 0 => syTold[a] <= 1

=============================================================================
