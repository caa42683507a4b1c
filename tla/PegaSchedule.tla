---------------------------- MODULE PegaSchedule ----------------------------
(***************************************************************************)
(* The delayed-event buffer of pega_misc/src/pega_schedule.c.  Threads     *)
(* push events under m_Mutexlock.  The schedule thread scans the buffer    *)
(* every 100 ms and counts the slots down WITHOUT that mutex; when a slot  *)
(* expires it takes the mutex, closes the gap, and runs the handler.       *)
(*                                                                         *)
(* pop, Cancel, Check, DelayTime_Get and Time_Get have no caller in the    *)
(* program and are left out, and with them wTMTime, which only they read.  *)
(* Every caller of push ignores its result, which is left out too.         *)
(* The model starts once the schedule thread has initialised the mutex.    *)
(***************************************************************************)
EXTENDS Integers

CONSTANTS
  Pushers,       \* the threads that push: main and the message listeners
  Main,          \* the main thread, which pushes once
  Free,          \* owner of a free mutex
  Ticker,        \* the schedule thread
  Calls,         \* per pusher, the <<event, delay>> pairs it may push
  SCH_BUFF_MAX   \* slots in m_SchBuff

None == 0             \* schEVT_None
schEVT_Max == 203

ASSUME ScheduleAssumption ==
  /\ SCH_BUFF_MAX \in Nat /\ SCH_BUFF_MAX > 1
  /\ Free \notin Pushers \cup {Ticker} /\ Ticker \notin Pushers
  /\ Calls \in [Pushers -> SUBSET (Nat \X (Nat \ {0}))]

Slots == 0 .. SCH_BUFF_MAX - 1

\* The events a push can arm; callers may also pass none, or a code too large.
Codes == {c[1] : c \in UNION {Calls[p] : p \in Pushers}} \cap 1 .. schEVT_Max - 1

VARIABLES
  evt, cnt,      \* enEVT and wTMCount of each slot
  schCnt,        \* m_SchCnt
  mutex,         \* owner of m_Mutexlock
  ppc, parg, pi,           \* per pusher: point, <<event, delay>>, slot i
  tpc, ti, tc, tmsg        \* schedule thread: point, slot i, loaded count, eMsg

buffVars == <<evt, cnt, schCnt>>
pushVars == <<ppc, parg, pi>>
tickVars == <<tpc, ti, tc, tmsg>>
vars == <<buffVars, mutex, pushVars, tickVars>>

Init ==
  /\ evt = [i \in Slots |-> None] /\ cnt = [i \in Slots |-> 0] /\ schCnt = 0
  /\ mutex = Free
  /\ ppc = [p \in Pushers |-> "idle"]
  /\ parg = [p \in Pushers |-> <<None, 1>>]
  /\ pi = [p \in Pushers |-> 0]
  /\ tpc = "sleep" /\ ti = 0 /\ tc = 0 /\ tmsg = None

-----------------------------------------------------------------------------
(* pega_schedule_Event_push.                                               *)

PushGoto(p, from, to) == ppc[p] = from /\ ppc' = [ppc EXCEPT ![p] = to]

Push(p, e, d) ==
  /\ PushGoto(p, "idle", "lock")
  /\ parg' = [parg EXCEPT ![p] = <<e, d>>]
  /\ UNCHANGED <<buffVars, mutex, pi, tickVars>>

PushLock(p) ==
  /\ mutex = Free /\ mutex' = p
  /\ PushGoto(p, "lock", "find")
  /\ UNCHANGED <<buffVars, parg, pi, tickVars>>

MatchesFirstOnly(e) == {i \in Slots : i = 0 /\ evt[i] = e}   \* slip: no search

\* The loop runs to m_SchCnt inclusive, one slot past the last event.
Matches(e) == {i \in Slots : i <= schCnt /\ evt[i] = e}

RefusedWhenOverfull(e) ==       \* slip: the last slot is given away too
  \/ e >= schEVT_Max
  \/ Matches(e) = {} /\ schCnt >= SCH_BUFF_MAX

Refused(e) ==
  \/ e >= schEVT_Max
  \/ Matches(e) = {} /\ schCnt >= SCH_BUFF_MAX - 1

PushRefused(p) ==
  /\ Refused(parg[p][1])
  /\ PushGoto(p, "find", "unlock")
  /\ UNCHANGED <<buffVars, mutex, parg, pi, tickVars>>

\* The event is in the buffer: only its delay is set again.
PushAgain(p) ==
  /\ ~Refused(parg[p][1])
  /\ PushGoto(p, "find", "set")
  /\ \E i \in Matches(parg[p][1]) :
       /\ \A j \in Matches(parg[p][1]) : i <= j
       /\ pi' = [pi EXCEPT ![p] = i]
  /\ UNCHANGED <<buffVars, mutex, parg, tickVars>>

\* i = m_SchCnt++; the slot is counted before it is filled.
PushNew(p) ==
  /\ ~Refused(parg[p][1]) /\ Matches(parg[p][1]) = {}
  /\ PushGoto(p, "find", "event")
  /\ pi' = [pi EXCEPT ![p] = schCnt]
  /\ schCnt' = schCnt + 1
  /\ UNCHANGED <<evt, cnt, mutex, parg, tickVars>>

PushEvent(p) ==
  /\ PushGoto(p, "event", "set")
  /\ evt' = [evt EXCEPT ![pi[p]] = parg[p][1]]
  /\ UNCHANGED <<cnt, schCnt, mutex, parg, pi, tickVars>>

PushDelayOnlyAgain(p) ==        \* slip: only a running delay is set again
  /\ PushGoto(p, "set", "unlock")
  /\ cnt' = [cnt EXCEPT ![pi[p]] = IF @ > 0 THEN parg[p][2] ELSE @]
  /\ UNCHANGED <<evt, schCnt, mutex, parg, pi, tickVars>>

PushDelay(p) ==
  /\ PushGoto(p, "set", "unlock")
  /\ cnt' = [cnt EXCEPT ![pi[p]] = parg[p][2]]
  /\ UNCHANGED <<evt, schCnt, mutex, parg, pi, tickVars>>

\* The caller continues; main has pushed its only event.  The arguments end
\* with the call.
PushReturn(p) ==
  /\ PushGoto(p, "unlock", IF p = Main THEN "ended" ELSE "idle")
  /\ mutex' = Free
  /\ parg' = [parg EXCEPT ![p] = <<None, 1>>]
  /\ pi' = [pi EXCEPT ![p] = 0]
  /\ UNCHANGED <<buffVars, tickVars>>

PushStep(p) ==
  \/ PushLock(p) \/ PushRefused(p) \/ PushAgain(p) \/ PushNew(p)
  \/ PushEvent(p) \/ PushDelay(p) \/ PushReturn(p)

-----------------------------------------------------------------------------
(* pega_schedule_TaskHandler: one round of Event_Get, then the handler.    *)

TickGoto(from, to) == tpc = from /\ tpc' = to

TickStart ==
  /\ schCnt # 0
  /\ TickGoto("sleep", "scan")
  /\ ti' = 0
  /\ UNCHANGED <<buffVars, mutex, pushVars, tc, tmsg>>

\* The loop variable ends with the round.
TickEnd ==
  /\ ti > schCnt
  /\ TickGoto("scan", "sleep")
  /\ ti' = 0
  /\ UNCHANGED <<buffVars, mutex, pushVars, tc, tmsg>>

\* An empty slot, or one whose count is already 0.
TickSkip ==
  /\ ti <= schCnt
  /\ evt[ti] = None \/ cnt[ti] <= 0
  /\ TickGoto("scan", "scan")
  /\ ti' = ti + 1
  /\ UNCHANGED <<buffVars, mutex, pushVars, tc, tmsg>>

\* wTMCount--: a load and a store, between which a push may set the count.
TickLoad ==
  /\ ti <= schCnt /\ evt[ti] # None /\ cnt[ti] > 0
  /\ TickGoto("scan", "store")
  /\ tc' = cnt[ti]
  /\ UNCHANGED <<buffVars, mutex, pushVars, ti, tmsg>>

TickStore ==
  /\ TickGoto("store", "check")
  /\ cnt' = [cnt EXCEPT ![ti] = tc - 1]
  /\ UNCHANGED <<evt, schCnt, mutex, pushVars, ti, tc, tmsg>>

TickCheckBelowZero ==           \* slip: the count 0 is not yet a timeout
  /\ tpc = "check"
  /\ \E left \in {tc - 1, cnt[ti]} :
       /\ tpc' = IF left < 0 THEN "take" ELSE "scan"
       /\ ti' = IF left < 0 THEN ti ELSE ti + 1
  /\ tc' = 0
  /\ UNCHANGED <<buffVars, mutex, pushVars, tmsg>>

\* if (wTMCount <= 0): the count is read again, or still in a register.
TickCheck ==
  /\ tpc = "check"
  /\ \E left \in {tc - 1, cnt[ti]} :
       /\ tpc' = IF left <= 0 THEN "take" ELSE "scan"
       /\ ti' = IF left <= 0 THEN ti ELSE ti + 1
  /\ tc' = 0
  /\ UNCHANGED <<buffVars, mutex, pushVars, tmsg>>

TickTakeNext ==                 \* slip: i is advanced before the gap is closed
  /\ TickGoto("take", "lock")
  /\ tmsg' = evt[ti] /\ ti' = ti + 1
  /\ UNCHANGED <<buffVars, mutex, pushVars, tc>>

TickTake ==
  /\ TickGoto("take", "lock")
  /\ tmsg' = evt[ti]
  /\ UNCHANGED <<buffVars, mutex, pushVars, ti, tc>>

TickLock ==
  /\ mutex = Free /\ mutex' = Ticker
  /\ TickGoto("lock", "shift")
  /\ UNCHANGED <<buffVars, pushVars, ti, tc, tmsg>>

ClosedOneTooHigh(f) ==          \* slip: the gap is closed above the slot
  [i \in Slots |-> IF ti < i /\ i < SCH_BUFF_MAX - 1 THEN f[i + 1] ELSE f[i]]

Closed(f) == [i \in Slots |-> IF ti <= i /\ i < SCH_BUFF_MAX - 1 THEN f[i + 1] ELSE f[i]]

\* pega_schedule_Buff_Reschedlue(i): the slots above move down; the last one is
\* copied, not cleared.
TickShift ==
  /\ TickGoto("shift", "unlock")
  /\ evt' = Closed(evt) /\ cnt' = Closed(cnt)
  /\ schCnt' = IF schCnt > 0 THEN schCnt - 1 ELSE 0
  /\ UNCHANGED <<mutex, pushVars, ti, tc, tmsg>>

TickUnlock ==
  /\ TickGoto("unlock", "run")
  /\ mutex' = Free
  /\ UNCHANGED <<buffVars, pushVars, ti, tc, tmsg>>

\* The handler of eMsg returns, and the thread sleeps.
TickReturn ==
  /\ TickGoto("run", "sleep")
  /\ tmsg' = None /\ ti' = 0
  /\ UNCHANGED <<buffVars, mutex, pushVars, tc>>

TickStep ==
  \/ TickStart \/ TickEnd \/ TickSkip \/ TickLoad \/ TickStore \/ TickCheck
  \/ TickTake \/ TickLock \/ TickShift \/ TickUnlock

-----------------------------------------------------------------------------
Next ==
  \/ \E p \in Pushers :
       \/ \E c \in Calls[p] : Push(p, c[1], c[2])
       \/ PushStep(p)
  \/ TickStep \/ TickReturn

Spec == Init /\ [][Next]_vars

\* Both kinds of threads run whenever they can; a mutex that keeps being freed
\* is not withheld from one waiter forever.
Fairness ==
  /\ \A p \in Pushers : WF_vars(PushStep(p)) /\ SF_vars(PushLock(p))
  /\ WF_vars(TickStep \/ TickReturn) /\ SF_vars(TickLock)

FairSpec == Spec /\ Fairness

-----------------------------------------------------------------------------
TypeOK ==
  /\ evt \in [Slots -> Codes \cup {None}] /\ cnt \in [Slots -> Nat]
  /\ schCnt \in Slots
  /\ mutex \in Pushers \cup {Free, Ticker}
  /\ ppc \in [Pushers -> {"idle", "lock", "find", "event", "set", "unlock", "ended"}]
  /\ parg \in [Pushers -> Nat \X (Nat \ {0})]
  /\ pi \in [Pushers -> Slots]
  /\ tpc \in {"sleep", "scan", "store", "check", "take", "lock", "shift", "unlock", "run"}
  /\ ti \in 0..SCH_BUFF_MAX
  /\ tc \in Nat /\ tmsg \in Codes \cup {None}

Used == {i \in Slots : i < schCnt}
Taking == {"check", "take", "lock", "shift"}

\* Both loops run one slot too far, and closing a gap copies the last slot
\* without clearing it.  The schedule thread still reads only slots of m_SchBuff,
\* and no slot from m_SchCnt on holds an event, so that no stale copy of one
\* that was fired already is matched by a push or fired again.
OverscanIsHarmless ==
  /\ tpc = "scan" /\ ti <= schCnt => ti \in Slots
  /\ \A i \in Slots : i >= schCnt => evt[i] = None

\* An event occupies one slot however often and by whomever it is pushed.
OneSlotPerEvent ==
  \A i, j \in Used : i # j /\ evt[i] # None => evt[i] # evt[j]

\* The counts are changed by pushes under the mutex and by the schedule thread
\* without it; no accepted event is stranded: its slot has a count to count
\* down, or the schedule thread is taking it, or its push has still to set it.
NoneStranded ==
  \A i \in Used : evt[i] # None =>
    \/ cnt[i] > 0
    \/ tpc \in Taking /\ ti = i
    \/ \E p \in Pushers : ppc[p] = "set" /\ pi[p] = i

\* pega_schedule.c:114: a timeout leaves the others in the buffer.  The slot is
\* chosen, and its event read, before the mutex is taken; when the gap is closed
\* it is still that event which leaves.
OnlyTheTakenLeaves ==
  tpc \in {"lock", "shift"} => ti \in Used /\ evt[ti] = tmsg /\ tmsg # None

Armed == {evt[i] : i \in Used} \ {None}
Running == IF tpc \in {"unlock", "run"} THEN tmsg ELSE None
Timer == INSTANCE EventTimer WITH
           Events <- Codes, Nothing <- None, armed <- Armed, running <- Running

\* The buffer implements the timer: an event leaves it only to be executed.
TimerSpec == Timer!Spec

Pushing(e) == \E p \in Pushers : ppc[p] = "set" /\ parg[p][1] = e

\* Every armed event is executed, unless it is pushed over and over.
EveryEventRuns ==
  \A e \in Codes : e \in Armed ~> ((tpc = "run" /\ tmsg = e) \/ Pushing(e))
=============================================================================
