------------------------- MODULE PegaScheduleProofs -------------------------
(***************************************************************************)
(* The safety of PegaSchedule, for every set of pushers, every set of      *)
(* calls and every SCH_BUFF_MAX > 1, and its refinement of EventTimer.     *)
(***************************************************************************)
EXTENDS PegaSchedule, TLAPS

\* Where a thread is, it owns the mutex.
Owners ==
  /\ \A p \in Pushers : ppc[p] \in {"find", "event", "set", "unlock"} => mutex = p
  /\ tpc \in {"shift", "unlock"} => mutex = Ticker

\* A push between its steps: the slot it has counted is the last one, still
\* empty, and no other holds its event; then the slot holds the event.
Filling ==
  \A p \in Pushers :
    /\ ppc[p] = "event" =>
         /\ parg[p][1] \in Codes
         /\ pi[p] \in Used /\ evt[pi[p]] = None
         /\ \A i \in Used : evt[i] # parg[p][1]
    /\ ppc[p] = "set" => evt[pi[p]] = parg[p][1]

\* Every counted slot holds an event, or is being given one.
NoHoles ==
  \A i \in Used : evt[i] = None => \E p \in Pushers : ppc[p] = "event" /\ pi[p] = i

\* The schedule thread between its steps holds on to a slot with an event.
Picked ==
  /\ tpc \in {"store", "check", "take", "lock", "shift"} =>
       ti \in Used /\ evt[ti] # None
  /\ tpc \in {"store", "check"} => tc > 0
  /\ tpc = "check" => cnt[ti] = tc - 1 \/ cnt[ti] > 0
  /\ tpc \in {"unlock", "run"} => tmsg # None

\* A push carries the arguments of its call until it returns.
Carried ==
  \A p \in Pushers :
    ppc[p] \in {"lock", "find", "event", "set"} => parg[p] \in Calls[p]

Inv ==
  /\ TypeOK /\ Owners /\ Carried /\ Filling /\ NoHoles /\ Picked
  /\ OverscanIsHarmless /\ OneSlotPerEvent /\ NoneStranded /\ OnlyTheTakenLeaves

-----------------------------------------------------------------------------
(* The inductive invariant.                                                *)

\* The events of the buffer are numbers, and "no event" is none of them.
LEMMA CodesAreEvents == Codes \subseteq Nat /\ None \notin Codes
  BY DEF Codes, None

\* What a push is called with: a pair whose delay is positive, and whose event,
\* if the push does not refuse it, can be armed.
LEMMA CallsTyped ==
  \A p \in Pushers : \A c \in Calls[p] :
    /\ c = <<c[1], c[2]>> /\ c[1] \in Nat /\ c[2] \in Nat \ {0}
    /\ c[1] < schEVT_Max /\ c[1] # None => c[1] \in Codes
  BY ScheduleAssumption DEF Codes, None, schEVT_Max

\* The empty buffer satisfies every part of the invariant.
LEMMA InvInit == Init => Inv
  BY ScheduleAssumption
  DEF Init, Inv, TypeOK, Owners, Carried, Filling, NoHoles, Picked, Used, Slots,
      None, OverscanIsHarmless, OneSlotPerEvent, NoneStranded, OnlyTheTakenLeaves

\* Each step of a push and of the schedule thread preserves it.
LEMMA InvNext == Inv /\ [Next]_vars => Inv'
<1> SUFFICES ASSUME Inv, [Next]_vars PROVE Inv'
  OBVIOUS
<1> USE CodesAreEvents, CallsTyped, ScheduleAssumption
    DEF Inv, Slots, None, schEVT_Max, buffVars, pushVars, tickVars, Used, Taking
<1>1. ASSUME NEW p \in Pushers, NEW c \in Calls[p], Push(p, c[1], c[2]) PROVE Inv'
  <2>1. parg'[p] = c
    BY <1>1 DEF Push, TypeOK
  <2>2. TypeOK' /\ Carried'
    BY <1>1, <2>1 DEF Push, PushGoto, TypeOK, Carried
  <2>3. Owners' /\ Filling' /\ NoHoles' /\ Picked' /\ OverscanIsHarmless'
        /\ OneSlotPerEvent' /\ NoneStranded' /\ OnlyTheTakenLeaves'
    BY <1>1, SMTT(30) DEF Push, PushGoto, TypeOK, Owners, Filling, NoHoles, Picked,
        OverscanIsHarmless, OneSlotPerEvent, NoneStranded, OnlyTheTakenLeaves
  <2> QED
    BY <2>2, <2>3
<1>2. ASSUME NEW p \in Pushers, PushLock(p) PROVE Inv'
  <2>1. TypeOK' /\ Owners' /\ Carried' /\ Filling' /\ NoHoles' /\ Picked'
        /\ OverscanIsHarmless' /\ OneSlotPerEvent' /\ NoneStranded'
        /\ OnlyTheTakenLeaves'
    BY <1>2 DEF PushLock, PushGoto, TypeOK, Owners, Carried, Filling, NoHoles,
        Picked, OverscanIsHarmless, OneSlotPerEvent, NoneStranded,
        OnlyTheTakenLeaves
  <2> QED
    BY <2>1
<1>3. ASSUME NEW p \in Pushers, PushRefused(p) PROVE Inv'
  <2>1. TypeOK' /\ Owners' /\ Carried' /\ Filling' /\ NoHoles' /\ Picked'
        /\ OverscanIsHarmless' /\ OneSlotPerEvent' /\ NoneStranded'
        /\ OnlyTheTakenLeaves'
    BY <1>3 DEF PushRefused, PushGoto, TypeOK, Owners, Carried, Filling,
        NoHoles, Picked, OverscanIsHarmless, OneSlotPerEvent, NoneStranded,
        OnlyTheTakenLeaves
  <2> QED
    BY <2>1
<1>4. ASSUME NEW p \in Pushers, PushAgain(p) PROVE Inv'
  <2>1. TypeOK' /\ Owners' /\ Carried' /\ NoHoles' /\ Picked'
        /\ OverscanIsHarmless' /\ OneSlotPerEvent' /\ NoneStranded'
        /\ OnlyTheTakenLeaves'
    BY <1>4, SMTT(30) DEF PushAgain, PushGoto, Refused, Matches, TypeOK, Owners, Carried,
        NoHoles, Picked, OverscanIsHarmless, OneSlotPerEvent, NoneStranded,
        OnlyTheTakenLeaves
  <2>2. Filling'
    BY <1>4, SMTT(30) DEF PushAgain, PushGoto, Refused, Matches, TypeOK, Carried, Filling
  <2> QED
    BY <2>1, <2>2
<1>5. ASSUME NEW p \in Pushers, PushNew(p) PROVE Inv'
  <2>1. TypeOK' /\ Owners' /\ Carried' /\ NoHoles' /\ Picked'
        /\ OverscanIsHarmless' /\ OnlyTheTakenLeaves'
    BY <1>5, SMTT(30) DEF PushNew, PushGoto, Refused, Matches, TypeOK, Owners, Carried,
        NoHoles, Picked, OverscanIsHarmless, OnlyTheTakenLeaves
  <2>2. OneSlotPerEvent'
    BY <1>5 DEF PushNew, PushGoto, Refused, Matches, TypeOK,
        OverscanIsHarmless, OneSlotPerEvent, OnlyTheTakenLeaves
  <2>3. NoneStranded'
    BY <1>5, SMTT(30) DEF PushNew, PushGoto, Refused, Matches, TypeOK,
        OverscanIsHarmless, NoneStranded
  <2>4. Filling'
    <3>1. /\ Matches(parg[p][1]) = {} /\ evt[schCnt] = None
          /\ parg[p] \in Calls[p] /\ parg[p][1] < schEVT_Max
      BY <1>5 DEF PushNew, PushGoto, Refused, TypeOK, Carried, OverscanIsHarmless
    <3>2. \A i \in Slots : i <= schCnt => evt[i] # parg[p][1]
      BY <3>1 DEF Matches
    <3>3. parg[p][1] \in Codes
      BY <3>1, <3>2 DEF TypeOK
    <3>4. \A q \in Pushers : q # p => ppc[q] \notin {"event", "set"}
      BY <1>5 DEF PushNew, PushGoto, TypeOK, Owners
    <3> QED
      BY <1>5, <3>1, <3>2, <3>3, <3>4, SMTT(30) DEF PushNew, PushGoto, Refused, TypeOK, Filling
  <2> QED
    BY <2>1, <2>2, <2>3, <2>4
<1>6. ASSUME NEW p \in Pushers, PushEvent(p) PROVE Inv'
  <2>1. TypeOK' /\ Owners' /\ Carried' /\ NoneStranded'
    BY <1>6 DEF PushEvent, PushGoto, TypeOK, Owners, Carried, Filling,
        NoneStranded
  <2>2. Filling'
    <3>1. \A q \in Pushers : q # p => ppc'[q] \notin {"event", "set"}
      BY <1>6 DEF PushEvent, PushGoto, TypeOK, Owners
    <3>2. ppc'[p] = "set" /\ evt'[pi'[p]] = parg'[p][1]
      BY <1>6 DEF PushEvent, PushGoto, TypeOK, Filling
    <3> QED
      BY <3>1, <3>2 DEF Filling
  <2>3. NoHoles'
    BY <1>6 DEF PushEvent, PushGoto, TypeOK, Filling, NoHoles
  <2>4. Picked'
    BY <1>6 DEF PushEvent, PushGoto, TypeOK, Filling, Picked
  <2>5. OverscanIsHarmless'
    BY <1>6 DEF PushEvent, PushGoto, TypeOK, Filling, OverscanIsHarmless
  <2>6. OneSlotPerEvent'
    BY <1>6 DEF PushEvent, PushGoto, TypeOK, Filling, OneSlotPerEvent
  <2>7. OnlyTheTakenLeaves'
    BY <1>6 DEF PushEvent, PushGoto, TypeOK, Filling, OnlyTheTakenLeaves
  <2> QED
    BY <2>1, <2>2, <2>3, <2>4, <2>5, <2>6, <2>7
<1>7. ASSUME NEW p \in Pushers, PushDelay(p) PROVE Inv'
  <2>1. Owners' /\ Carried' /\ Filling' /\ NoHoles' /\ Picked'
        /\ OverscanIsHarmless' /\ OneSlotPerEvent' /\ OnlyTheTakenLeaves'
    BY <1>7 DEF PushDelay, PushGoto, TypeOK, Owners, Carried, Filling, NoHoles,
        Picked, OverscanIsHarmless, OneSlotPerEvent, OnlyTheTakenLeaves
  <2>2. TypeOK'
    BY <1>7 DEF PushDelay, PushGoto, TypeOK
  <2>3. NoneStranded'
    BY <1>7 DEF PushDelay, PushGoto, TypeOK, Owners, NoneStranded
  <2> QED
    BY <2>1, <2>2, <2>3
<1>8. ASSUME NEW p \in Pushers, PushReturn(p) PROVE Inv'
  <2>1. TypeOK' /\ Owners' /\ Carried' /\ Filling' /\ NoHoles' /\ Picked'
        /\ OverscanIsHarmless' /\ OneSlotPerEvent' /\ NoneStranded'
        /\ OnlyTheTakenLeaves'
    BY <1>8, SMTT(30) DEF PushReturn, PushGoto, TypeOK, Owners, Carried, Filling,
        NoHoles, Picked, OverscanIsHarmless, OneSlotPerEvent, NoneStranded,
        OnlyTheTakenLeaves
  <2> QED
    BY <2>1
<1>9. ASSUME TickStart PROVE Inv'
  <2>1. TypeOK' /\ Owners' /\ Carried' /\ Filling' /\ NoHoles' /\ Picked'
        /\ OverscanIsHarmless' /\ OneSlotPerEvent' /\ NoneStranded'
        /\ OnlyTheTakenLeaves'
    BY <1>9 DEF TickStart, TickGoto, TypeOK, Owners, Carried, Filling, NoHoles,
        Picked, OverscanIsHarmless, OneSlotPerEvent, NoneStranded,
        OnlyTheTakenLeaves
  <2> QED
    BY <2>1
<1>10. ASSUME TickEnd PROVE Inv'
  <2>1. TypeOK' /\ Owners' /\ Carried' /\ Filling' /\ NoHoles' /\ Picked'
        /\ OverscanIsHarmless' /\ OneSlotPerEvent' /\ NoneStranded'
        /\ OnlyTheTakenLeaves'
    BY <1>10 DEF TickEnd, TickGoto, TypeOK, Owners, Carried, Filling, NoHoles,
        Picked, OverscanIsHarmless, OneSlotPerEvent, NoneStranded,
        OnlyTheTakenLeaves
  <2> QED
    BY <2>1
<1>11. ASSUME TickSkip PROVE Inv'
  <2>1. TypeOK' /\ Owners' /\ Carried' /\ Filling' /\ NoHoles' /\ Picked'
        /\ OverscanIsHarmless' /\ OneSlotPerEvent' /\ NoneStranded'
        /\ OnlyTheTakenLeaves'
    BY <1>11 DEF TickSkip, TickGoto, TypeOK, Owners, Carried, Filling, NoHoles,
        Picked, OverscanIsHarmless, OneSlotPerEvent, NoneStranded,
        OnlyTheTakenLeaves
  <2> QED
    BY <2>1
<1>12. ASSUME TickLoad PROVE Inv'
  <2>1. TypeOK' /\ Owners' /\ Carried' /\ Filling' /\ NoHoles'
        /\ OverscanIsHarmless' /\ OneSlotPerEvent' /\ NoneStranded'
        /\ OnlyTheTakenLeaves'
    BY <1>12 DEF TickLoad, TickGoto, TypeOK, Owners, Carried, Filling, NoHoles,
        OverscanIsHarmless, OneSlotPerEvent, NoneStranded, OnlyTheTakenLeaves
  <2>2. Picked'
    BY <1>12 DEF TickLoad, TickGoto, TypeOK, Picked, OverscanIsHarmless
  <2> QED
    BY <2>1, <2>2
<1>13. ASSUME TickStore PROVE Inv'
  <2>1. TypeOK' /\ Owners' /\ Carried' /\ Filling' /\ NoHoles' /\ Picked'
        /\ OverscanIsHarmless' /\ OneSlotPerEvent' /\ NoneStranded'
        /\ OnlyTheTakenLeaves'
    BY <1>13 DEF TickStore, TickGoto, TypeOK, Owners, Carried, Filling,
        NoHoles, Picked, OverscanIsHarmless, OneSlotPerEvent, NoneStranded,
        OnlyTheTakenLeaves
  <2> QED
    BY <2>1
<1>14. ASSUME TickCheck PROVE Inv'
  <2>1. TypeOK' /\ Owners' /\ Carried' /\ Filling' /\ NoHoles' /\ Picked'
        /\ OverscanIsHarmless' /\ OneSlotPerEvent' /\ OnlyTheTakenLeaves'
    BY <1>14 DEF TickCheck, TickGoto, TypeOK, Owners, Carried, Filling,
        NoHoles, Picked, OverscanIsHarmless, OneSlotPerEvent,
        OnlyTheTakenLeaves
  <2>2. NoneStranded'
    BY <1>14 DEF TickCheck, TickGoto, TypeOK, Picked, NoneStranded
  <2> QED
    BY <2>1, <2>2
<1>15. ASSUME TickTake PROVE Inv'
  <2>1. TypeOK' /\ Owners' /\ Carried' /\ Filling' /\ NoHoles' /\ Picked'
        /\ OverscanIsHarmless' /\ OneSlotPerEvent' /\ NoneStranded'
    BY <1>15 DEF TickTake, TickGoto, TypeOK, Owners, Carried, Filling, NoHoles,
        Picked, OverscanIsHarmless, OneSlotPerEvent, NoneStranded
  <2>2. OnlyTheTakenLeaves'
    BY <1>15 DEF TickTake, TickGoto, TypeOK, Picked, OnlyTheTakenLeaves
  <2> QED
    BY <2>1, <2>2
<1>16. ASSUME TickLock PROVE Inv'
  <2>1. TypeOK' /\ Owners' /\ Carried' /\ Filling' /\ NoHoles' /\ Picked'
        /\ OverscanIsHarmless' /\ OneSlotPerEvent' /\ NoneStranded'
        /\ OnlyTheTakenLeaves'
    BY <1>16 DEF TickLock, TickGoto, TypeOK, Owners, Carried, Filling, NoHoles,
        Picked, OverscanIsHarmless, OneSlotPerEvent, NoneStranded,
        OnlyTheTakenLeaves
  <2> QED
    BY <2>1
<1>17. ASSUME TickShift PROVE Inv'
  <2>1. Owners' /\ Carried' /\ OneSlotPerEvent' /\ OnlyTheTakenLeaves'
    BY <1>17 DEF TickShift, TickGoto, Closed, TypeOK, Owners, Carried,
        OneSlotPerEvent, OnlyTheTakenLeaves
  <2>2. TypeOK'
    BY <1>17 DEF TickShift, TickGoto, Closed, TypeOK
  <2>3. Filling'
    BY <1>17 DEF TickShift, TickGoto, Closed, TypeOK, Owners, Filling
  <2>4. NoHoles'
    BY <1>17 DEF TickShift, TickGoto, Closed, TypeOK, Owners, NoHoles
  <2>5. Picked'
    BY <1>17 DEF TickShift, TickGoto, Closed, TypeOK, Picked,
        OnlyTheTakenLeaves
  <2>6. OverscanIsHarmless'
    BY <1>17 DEF TickShift, TickGoto, Closed, TypeOK, Picked,
        OverscanIsHarmless
  <2>7. NoneStranded'
    BY <1>17 DEF TickShift, TickGoto, Closed, TypeOK, Owners, NoneStranded
  <2> QED
    BY <2>1, <2>2, <2>3, <2>4, <2>5, <2>6, <2>7
<1>18. ASSUME TickUnlock PROVE Inv'
  <2>1. TypeOK' /\ Owners' /\ Carried' /\ Filling' /\ NoHoles' /\ Picked'
        /\ OverscanIsHarmless' /\ OneSlotPerEvent' /\ NoneStranded'
        /\ OnlyTheTakenLeaves'
    BY <1>18 DEF TickUnlock, TickGoto, TypeOK, Owners, Carried, Filling,
        NoHoles, Picked, OverscanIsHarmless, OneSlotPerEvent, NoneStranded,
        OnlyTheTakenLeaves
  <2> QED
    BY <2>1
<1>19. ASSUME TickReturn PROVE Inv'
  <2>1. TypeOK' /\ Owners' /\ Carried' /\ Filling' /\ NoHoles' /\ Picked'
        /\ OverscanIsHarmless' /\ OneSlotPerEvent' /\ NoneStranded'
        /\ OnlyTheTakenLeaves'
    BY <1>19 DEF TickReturn, TickGoto, TypeOK, Owners, Carried, Filling,
        NoHoles, Picked, OverscanIsHarmless, OneSlotPerEvent, NoneStranded,
        OnlyTheTakenLeaves
  <2> QED
    BY <2>1
<1>20. ASSUME UNCHANGED vars PROVE Inv'
  <2>1. TypeOK' /\ Owners' /\ Carried' /\ Filling' /\ NoHoles' /\ Picked'
        /\ OverscanIsHarmless' /\ OneSlotPerEvent' /\ NoneStranded'
        /\ OnlyTheTakenLeaves'
    BY <1>20 DEF vars, TypeOK, Owners, Carried, Filling, NoHoles, Picked,
        OverscanIsHarmless, OneSlotPerEvent, NoneStranded, OnlyTheTakenLeaves
  <2> QED
    BY <2>1
<1> QED
  BY <1>1, <1>2, <1>3, <1>4, <1>5, <1>6, <1>7, <1>8, <1>9, <1>10,
    <1>11, <1>12, <1>13, <1>14, <1>15, <1>16, <1>17, <1>18, <1>19, <1>20
  DEF Next, PushStep, TickStep

LEMMA InvAlways == Spec => []Inv
  BY InvInit, InvNext, PTL DEF Spec

\* The buffer and the program points of push and of the schedule thread stay
\* well typed; in particular m_SchCnt never exceeds SCH_BUFF_MAX - 1.
THEOREM TypeCorrect == Spec => []TypeOK
  BY InvAlways, PTL DEF Inv

\* The loops that run to m_SchCnt inclusive meet only slots of m_SchBuff, and
\* beyond the last event only empty ones.
THEOREM OverscanAlways == Spec => []OverscanIsHarmless
  BY InvAlways, PTL DEF Inv

\* Pushes of one event, from any threads, share one slot.
THEOREM OneSlotAlways == Spec => []OneSlotPerEvent
  BY InvAlways, PTL DEF Inv

\* The unlocked countdown never leaves an event in a slot that no longer counts.
THEOREM NoneStrandedAlways == Spec => []NoneStranded
  BY InvAlways, PTL DEF Inv

\* The slot chosen before the mutex was taken is the one that is closed under it.
THEOREM TakenAlways == Spec => []OnlyTheTakenLeaves
  BY InvAlways, PTL DEF Inv

-----------------------------------------------------------------------------
(* Refinement.                                                             *)

USE DEF None, Slots, Used

\* The empty buffer is a timer with nothing armed.
LEMMA TimerInit == Init => Timer!Init
  BY DEF Init, Timer!Init, Armed, Running

\* Only three kinds of steps are visible: a push fills a slot, a slot is closed
\* and the mutex released for its handler, and the handler returns.
LEMMA TimerNext == Inv /\ [Next]_vars => [Timer!Next]_(Timer!vars)
<1> SUFFICES ASSUME Inv, [Next]_vars PROVE [Timer!Next]_(Timer!vars)
  OBVIOUS
<1> USE CodesAreEvents, ScheduleAssumption DEF Inv, buffVars, pushVars, tickVars
<1>1. ASSUME NEW p \in Pushers, PushEvent(p) PROVE Timer!Next
  <2> DEFINE e == parg[p][1]
  <2>1. e \in Codes /\ pi[p] \in Used /\ evt[pi[p]] = None
    BY <1>1 DEF PushEvent, PushGoto, Filling
  <2>2. Armed' = Armed \cup {e} /\ Running' = Running
    BY <1>1, <2>1 DEF PushEvent, Armed, Running, TypeOK
  <2> QED
    BY <2>1, <2>2 DEF Timer!Next, Timer!Arm
<1>2. ASSUME TickShift PROVE Timer!Next
  <2>1. ti \in Used /\ evt[ti] = tmsg /\ tmsg \in Codes
    BY <1>2 DEF TickShift, TickGoto, OnlyTheTakenLeaves, TypeOK
  <2>2. Running = None /\ Running' = tmsg
    BY <1>2 DEF TickShift, TickGoto, Running
  <2>3. tmsg \in Armed
    BY <2>1, CodesAreEvents DEF Armed
  <2>4. Armed' = Armed \ {tmsg}
    <3>1. \A i \in Used' : evt'[i] = IF i < ti THEN evt[i] ELSE evt[i + 1]
      BY <1>2, <2>1 DEF TickShift, Closed, TypeOK
    <3>2. Used' = {i \in Slots : i < schCnt - 1}
      BY <1>2, <2>1 DEF TickShift, TypeOK
    <3> USE <2>1, <3>1, <3>2 DEF TypeOK
    <3>3. ASSUME NEW x \in Armed' PROVE x \in Armed \ {tmsg}
      <4>1. PICK i \in Used' : x = evt'[i] /\ x # None
        BY <3>3 DEF Armed
      <4> DEFINE j == IF i < ti THEN i ELSE i + 1
      <4>2. j \in Used /\ j # ti /\ x = evt[j]
        <5>1. i \in Slots /\ i < schCnt - 1
          BY <4>1
        <5>2. x = IF i < ti THEN evt[i] ELSE evt[i + 1]
          BY <4>1
        <5> QED
          BY <5>1, <5>2
      <4> HIDE DEF j
      <4> QED
        BY <4>1, <4>2 DEF Armed, OneSlotPerEvent
    <3>4. ASSUME NEW x \in Armed \ {tmsg} PROVE x \in Armed'
      <4>1. PICK j \in Used : j # ti /\ x = evt[j] /\ x # None
        BY <3>4, <2>1 DEF Armed
      <4> DEFINE i == IF j < ti THEN j ELSE j - 1
      <4>2. i \in Slots /\ i < schCnt - 1 /\ (j < ti <=> i < ti)
        BY <4>1
      <4>3. i \in Used'
        BY <4>2, <3>2
      <4>4. evt'[i] = IF i < ti THEN evt[i] ELSE evt[i + 1]
        BY <4>3, <3>1
      <4>5. evt'[i] = x
        BY <4>1, <4>2, <4>4
      <4> HIDE DEF i
      <4> QED
        BY <4>1, <4>3, <4>5 DEF Armed
    <3> QED
      BY <3>3, <3>4
  <2> QED
    BY <2>1, <2>2, <2>3, <2>4 DEF Timer!Next, Timer!Fire
<1>3. ASSUME TickReturn PROVE Timer!Next
  <2>1. Running # None /\ Running' = None /\ Armed' = Armed
    BY <1>3 DEF TickReturn, TickGoto, Running, Armed, Picked
  <2> QED
    BY <2>1 DEF Timer!Next, Timer!Finish
<1>4. ASSUME NEW p \in Pushers, PushNew(p) PROVE UNCHANGED Timer!vars
  <2>1. schCnt \in Used' /\ evt[schCnt] = None
    BY <1>4 DEF PushNew, Refused, TypeOK, OverscanIsHarmless
  <2>2. Used' = Used \cup {schCnt} /\ evt' = evt
    BY <1>4, <2>1 DEF PushNew, TypeOK
  <2>3. Armed' = Armed
    BY <2>1, <2>2 DEF Armed
  <2> QED
    BY <1>4, <2>3 DEF PushNew, Running, Timer!vars
<1>5. ASSUME evt' = evt, schCnt' = schCnt, tmsg' = tmsg,
             tpc \in {"unlock", "run"} <=> tpc' \in {"unlock", "run"}
      PROVE  UNCHANGED Timer!vars
  BY <1>5 DEF Armed, Running, Timer!vars
<1>6. ASSUME TickTake PROVE UNCHANGED Timer!vars
  BY <1>6 DEF TickTake, TickGoto, Armed, Running, Timer!vars
<1>7. ASSUME NEW p \in Pushers,
             \/ \E c \in Calls[p] : Push(p, c[1], c[2])
             \/ PushLock(p) \/ PushRefused(p) \/ PushAgain(p)
             \/ PushDelay(p) \/ PushReturn(p)
      PROVE  UNCHANGED Timer!vars
  BY <1>7, <1>5 DEF Push, PushLock, PushRefused, PushAgain, PushDelay, PushReturn
<1>8. ASSUME \/ TickStart \/ TickEnd \/ TickSkip \/ TickLoad \/ TickStore
             \/ TickCheck \/ TickLock \/ TickUnlock
      PROVE  UNCHANGED Timer!vars
  BY <1>8, <1>5 DEF TickStart, TickEnd, TickSkip, TickLoad, TickStore, TickCheck,
     TickLock, TickUnlock, TickGoto
<1>9. CASE UNCHANGED vars
  BY <1>9, <1>5 DEF vars
<1> QED
  BY <1>1, <1>2, <1>3, <1>4, <1>6, <1>7, <1>8, <1>9 DEF Next, PushStep, TickStep

\* pega_schedule implements the abstract timer: an event that push accepted stays
\* armed until the schedule thread runs its handler, exactly once per arming.
THEOREM Implementation == Spec => TimerSpec
<1> HIDE DEF Inv
<1> QED
  BY TimerInit, TimerNext, InvAlways, PTL DEF Spec, TimerSpec, Timer!Spec
=============================================================================
