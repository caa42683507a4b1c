------------------------- MODULE PegaCommandsProofs -------------------------
(***************************************************************************)
(* The safety of the two command paths over the event buffer: for every    *)
(* set of pushers, every set of commands and calls the buffer has room     *)
(* for, and any number of messages.  A step of PegaCommands is a step or   *)
(* a stutter of PegaSchedule, so that the buffer keeps its invariant Inv.  *)
(***************************************************************************)
EXTENDS PegaCommands, PegaScheduleProofs, FiniteSetTheorems

\* What the diag listener has counted, of what it has received.
Counted ==
  IF lpc[Diag] \in {"check", "warned", "id", "value", "load", "store"}
    THEN received[Diag] - 1 ELSE received[Diag]

\* The count never exceeds that, although either side may undo the other's step.
Counting ==
  /\ wCmdCnt <= Counted
  /\ lpc[Diag] \in {"check", "warned", "id", "value", "load", "store"} => received[Diag] > 0
  /\ lpc[Diag] = "store" => lcnt <= Counted
  /\ epc = "store" => ecnt \in 1 .. Counted

\* A listener pushes when its command is written, and waits for that.
Listening ==
  /\ \A l \in Listeners : lpc[l] # "pushing" => ppc[l] = "idle"
  /\ lpc[Debug] \notin {"check", "warned", "load", "store"}

\* A handler is entered when its event is taken.
Entered ==
  /\ tpc # "run" => epc = "id"
  /\ epc \in {"count", "store"} => tmsg = EventOf(Diag)

\* The push of a listener's own event, up to where that is armed.
Unarmed(l) == ppc[l] \in {"lock", "find", "event"} /\ parg[l][1] = EventOf(l)

\* The command of a listener that has pushed it is due; or it was executed as it
\* is, and no handler has loaded another id since.
Heeded ==
  \A l \in Listeners :
    lpc[l] = "wait" \/ (lpc[l] = "pushing" /\ ~Unarmed(l)) =>
      Due(l) \/ (done[l] = box[l] /\ ~(Running = EventOf(l) /\ epc = "value"))

CommandInv ==
  Inv /\ CommandTypeOK /\ Counting /\ Listening /\ Entered /\ Heeded

-----------------------------------------------------------------------------
(* The events of the listeners, and what a step does to the buffer.        *)

\* The two listeners push two different events, which are among those a push arms.
LEMMA ListenerEvents ==
  /\ Listeners = {Diag, Debug} /\ Diag # Debug /\ Listeners \subseteq Pushers
  /\ EventOf(Diag) = 200 /\ EventOf(Debug) = 201
  /\ \A l \in Listeners : /\ EventOf(l) \in Codes /\ <<EventOf(l), 1>> \in Calls[l]
                          /\ l # Main
<1>1. /\ Listeners = {Diag, Debug} /\ Diag # Debug /\ Listeners \subseteq Pushers
      /\ EventOf(Diag) = 200 /\ EventOf(Debug) = 201
      /\ \A l \in Listeners : <<EventOf(l), 1>> \in Calls[l] /\ l # Main
  BY CommandsAssumption DEF Listeners, EventOf, schEVT_System_diag_Cmd_Execution,
     schEVT_System_debug_info_Execution
<1>2. ASSUME NEW l \in Listeners PROVE EventOf(l) \in Codes
  <2>1. EventOf(l) \in 1 .. schEVT_Max - 1
    BY <1>1 DEF schEVT_Max
  <2>2. <<EventOf(l), 1>> \in UNION {Calls[p] : p \in Pushers}
    BY <1>1
  <2>3. EventOf(l) \in {c[1] : c \in UNION {Calls[p] : p \in Pushers}}
    BY <2>2
  <2> QED
    BY <2>1, <2>3 DEF Codes
<1> QED
  BY <1>1, <1>2

\* Every step of the listeners and of the handlers is one of the buffer, or none.
LEMMA StepOfSchedule == CommandNext => [Next]_vars
<1> SUFFICES ASSUME CommandNext PROVE [Next]_vars
  OBVIOUS
<1>1. ASSUME NEW l \in Listeners, PushCommand(l) PROVE Next
  <2>1. Push(l, <<EventOf(l), 1>>[1], <<EventOf(l), 1>>[2])
    BY <1>1 DEF PushCommand
  <2>2. l \in Pushers /\ <<EventOf(l), 1>> \in Calls[l]
    BY ListenerEvents
  <2> QED
    BY <2>1, <2>2 DEF Next
<1>2. ASSUME NEW c \in Calls[Debug], PushEventOnly(c) PROVE Next
  BY <1>2, ListenerEvents DEF PushEventOnly, Next
<1>3. ASSUME ExecReturn PROVE Next
  BY <1>3 DEF ExecReturn, Next
<1>4. ASSUME Scheduling PROVE Next
  BY <1>4 DEF Scheduling, Next
<1>5. ASSUME NEW l \in Listeners,
             \/ Receive(l) \/ WriteId(l) \/ WriteValue(l) \/ Pushed(l)
             \/ Warn \/ NoWarning \/ CountLoad \/ CountStore
             \/ ExecId(l) \/ ExecValue(l) \/ ExecCounted \/ ExecLoad \/ ExecStore
      PROVE  UNCHANGED vars
  BY <1>5 DEF Receive, WriteId, WriteValue, Pushed, Warn, NoWarning, CountLoad,
     CountStore, ExecId, ExecValue, ExecCounted, ExecLoad, ExecStore
<1> QED
  BY <1>1, <1>2, <1>3, <1>4, <1>5, ListenerEvents DEF CommandNext, Listen, Exec

\* There is a slot for every event, and the slots in use hold different ones: a
\* push of an event that can be armed is not refused.
LEMMA NotRefused ==
  ASSUME Inv, NEW p \in Pushers, ppc[p] = "find", parg[p][1] \in Codes
  PROVE  ~Refused(parg[p][1])
<1> DEFINE e == parg[p][1]
           Full == 0 .. SCH_BUFF_MAX - 2
           Others == Codes \ {e}
           f == [i \in Full |-> evt[i]]
<1> SUFFICES ASSUME Refused(e) PROVE FALSE
  OBVIOUS
<1>1. Matches(e) = {} /\ schCnt = SCH_BUFF_MAX - 1
  <2>1. e < schEVT_Max
    BY DEF Codes, schEVT_Max
  <2>2. schCnt \in Slots
    BY DEF Inv, TypeOK
  <2>3. e \in Int
    BY DEF Codes
  <2>4. Matches(e) = {} /\ schCnt >= SCH_BUFF_MAX - 1
    BY <2>1, <2>3 DEF Refused, schEVT_Max
  <2> QED
    BY <2>2, <2>4, ScheduleAssumption DEF Slots
<1>2. ASSUME NEW i \in Full PROVE i \in Used /\ evt[i] \in Others
  <2>1. i \in Slots /\ i \in Used /\ i <= schCnt
    BY <1>1, ScheduleAssumption DEF Used, Slots
  <2>2. evt[i] # None
    BY <2>1 DEF Inv, NoHoles, Owners
  <2>3. evt[i] # e
    BY <2>1, <1>1 DEF Matches
  <2> QED
    BY <2>1, <2>2, <2>3 DEF Inv, TypeOK
<1>3. f \in [Full -> Others]
  BY <1>2
<1>4. IsFiniteSet(Full) /\ Cardinality(Full) = SCH_BUFF_MAX - 1
  <2>1. 0 \in Int /\ SCH_BUFF_MAX - 2 \in Int /\ ~(0 > SCH_BUFF_MAX - 2)
        /\ (SCH_BUFF_MAX - 2) - 0 + 1 = SCH_BUFF_MAX - 1
    BY ScheduleAssumption
  <2>2. IsFiniteSet(Full) /\ Cardinality(Full) = (SCH_BUFF_MAX - 2) - 0 + 1
    BY <2>1, FS_Interval, Zenon
  <2> QED
    BY <2>1, <2>2
<1>5. IsFiniteSet(Others) /\ Cardinality(Others) < SCH_BUFF_MAX - 1
  <2>1. IsFiniteSet(Codes) /\ Cardinality(Codes) \in Nat /\ Cardinality(Codes) < SCH_BUFF_MAX
    BY EnoughSlots, FS_CardinalityType
  <2>2. IsFiniteSet(Others) /\ Cardinality(Others) = Cardinality(Codes) - 1
    BY <2>1, FS_RemoveElement
  <2> QED
    BY <2>1, <2>2, ScheduleAssumption
<1>6. PICK i, j \in Full : i # j /\ f[i] = f[j]
  <2> HIDE DEF f, Full, Others
  <2> QED
    BY <1>3, <1>4, <1>5, FS_PigeonHole
<1>7. i \in Used /\ j \in Used /\ evt[i] = evt[j] /\ evt[i] # None
  BY <1>2, <1>6, CodesAreEvents
<1> QED
  BY <1>6, <1>7 DEF Inv, OneSlotPerEvent

\* What the listeners and the handlers do not touch.
LEMMA BufferSame ==
  evt' = evt /\ schCnt' = schCnt /\ tpc' = tpc /\ tmsg' = tmsg
    => Armed' = Armed /\ Running' = Running
  BY DEF Armed, Running, Used

\* While the threads run on, an armed event stays armed until it is running, and
\* a running one runs on: only the return of its handler ends it.
LEMMA StillDue ==
  ASSUME Inv, Scheduling, NEW e \in Codes
  PROVE  /\ e \in Armed => e \in Armed' \/ (Running = None /\ Running' = e)
         /\ Running' # Running => Running = None
         /\ tpc = "run" => tpc' = "run" /\ tmsg' = tmsg
         /\ tmsg' # tmsg => tpc = "take"
<1>1. [Timer!Next]_(Timer!vars)
  BY TimerNext, StepOfSchedule, Zenon DEF CommandNext
<1>2. /\ tpc \in {"unlock", "run"} => tpc' \in {"unlock", "run"} /\ tmsg' = tmsg
      /\ tpc = "run" => tpc' = "run"
      /\ tmsg' # tmsg => tpc = "take"
  <2>1. ASSUME NEW p \in Pushers, NEW c, Push(p, c[1], c[2]) PROVE tpc' = tpc /\ tmsg' = tmsg
    BY <2>1 DEF Push, tickVars
  <2>2. ASSUME NEW p \in Pushers, PushStep(p) PROVE tpc' = tpc /\ tmsg' = tmsg
    BY <2>2 DEF PushStep, PushLock, PushRefused, PushAgain, PushNew, PushEvent,
       PushDelay, PushReturn, tickVars
  <2>3. ASSUME TickStep PROVE <1>2!1 /\ <1>2!2 /\ <1>2!3
    BY <2>3 DEF TickStep, TickGoto, TickStart, TickEnd, TickSkip, TickLoad, TickStore,
       TickCheck, TickTake, TickLock, TickShift, TickUnlock
  <2> QED
    BY <2>1, <2>2, <2>3 DEF Scheduling
<1>3. Running # None => Running' = Running
  BY <1>2 DEF Running
<1>4. e \in Armed => e \in Armed' \/ (Running = None /\ Running' = e)
  BY <1>1 DEF Timer!Next, Timer!Arm, Timer!Fire, Timer!Finish, Timer!vars
<1> QED
  BY <1>2, <1>3, <1>4

\* A listener's push returns with its event armed.
LEMMA ArmedByPush ==
  ASSUME Inv, Scheduling, NEW l \in Listeners, Unarmed(l), ~Unarmed(l)'
  PROVE  EventOf(l) \in Armed'
<1> DEFINE e == EventOf(l)
<1> USE ListenerEvents DEF Unarmed, PushGoto
<1>1. e \in Codes /\ e # None /\ l \in Pushers /\ parg[l][1] = e /\ EventOf(l)' = e
  BY CodesAreEvents DEF EventOf
<1>2. DOMAIN ppc = Pushers /\ DOMAIN parg = Pushers /\ DOMAIN evt = Slots
  BY DEF Inv, TypeOK
<1>3. ASSUME NEW p \in Pushers, PushStep(p), p # l PROVE FALSE
  <2>1. ppc'[l] = ppc[l] /\ parg'[l] = parg[l]
    BY <1>2, <1>3 DEF PushStep, PushLock, PushRefused, PushAgain, PushNew, PushEvent,
       PushDelay, PushReturn, pushVars
  <2> QED
    BY <2>1, <1>1
<1>4. ASSUME TickStep PROVE FALSE
  BY <1>4, <1>1 DEF TickStep, TickStart, TickEnd, TickSkip, TickLoad, TickStore,
     TickCheck, TickTake, TickLock, TickShift, TickUnlock, pushVars
<1>5. ASSUME NEW p \in Pushers \ Listeners, NEW c, Push(p, c[1], c[2]) PROVE FALSE
  <2>1. ppc'[l] = ppc[l] /\ parg'[l] = parg[l]
    BY <1>2, <1>5 DEF Push
  <2> QED
    BY <2>1, <1>1
<1>6. ASSUME PushLock(l) \/ PushNew(l) PROVE FALSE
  BY <1>1, <1>2, <1>6 DEF PushLock, PushNew
<1>7. ASSUME PushRefused(l) PROVE FALSE
  BY <1>1, <1>7, NotRefused DEF PushRefused
<1>8. ASSUME PushAgain(l) PROVE e \in Armed'
  <2>1. PICK i \in Slots : i <= schCnt /\ evt[i] = e
    BY <1>1, <1>8 DEF PushAgain, Matches
  <2>2. i \in Used
    <3>1. i < schCnt
      <4>1. i \in Int /\ schCnt \in Int
        BY ScheduleAssumption DEF Inv, TypeOK, Slots
      <4>2. ~(i >= schCnt)
        BY <2>1, <1>1 DEF Inv, OverscanIsHarmless
      <4> QED
        BY <4>1, <4>2
    <3> QED
      BY <3>1 DEF Used
  <2>3. e \in Armed
    BY <2>1, <2>2, <1>1 DEF Armed
  <2> QED
    BY <2>3, <1>8, BufferSame DEF PushAgain, buffVars, tickVars
<1>9. ASSUME PushEvent(l) PROVE e \in Armed'
  <2>1. pi[l] \in Used /\ pi[l] \in Slots
    BY <1>1, <1>9 DEF PushEvent, Inv, Filling, Used
  <2>2. pi[l] \in Used' /\ evt'[pi[l]] = e
    BY <2>1, <1>1, <1>2, <1>9 DEF PushEvent, Used
  <2> QED
    BY <2>2, <1>1 DEF Armed
<1>10. ASSUME PushDelay(l) \/ PushReturn(l) PROVE FALSE
  BY <1>10 DEF PushDelay, PushReturn
<1> QED
  BY <1>3, <1>4, <1>5, <1>6, <1>7, <1>8, <1>9, <1>10 DEF Scheduling, PushStep

-----------------------------------------------------------------------------
(* The inductive invariant.                                                *)

\* With no message received and the buffer empty every part holds.
LEMMA CommandInvInit == CommandInit => CommandInv
<1> SUFFICES ASSUME CommandInit PROVE CommandInv
  OBVIOUS
<1>1. Inv
  BY InvInit DEF CommandInit
<1>2. CommandTypeOK
  <2>1. /\ received \in [Listeners -> Nat]
        /\ \A l \in Listeners : received[l] <= MaxReceived[l]
    BY CommandsAssumption DEF CommandInit
  <2>2. wCmdCnt \in 0 .. MaxReceived[Diag]
    BY CommandsAssumption, ListenerEvents DEF CommandInit
  <2> QED
    BY <1>1, <2>1, <2>2 DEF CommandInit, CommandTypeOK, Inv, ZeroCommand
<1>3. Counting /\ Listening /\ Entered
  BY ListenerEvents DEF CommandInit, Init, Counting, Counted, Listening, Entered
<1>4. Heeded
  BY DEF CommandInit, Heeded
<1> QED
  BY <1>1, <1>2, <1>3, <1>4 DEF CommandInv

\* Everything but Heeded: the types and bounds of the commands, the count, and at
\* which points of one thread another can be.
LEMMA PointsNext ==
  ASSUME CommandInv, CommandNext
  PROVE  CommandTypeOK' /\ Counting' /\ Listening' /\ Entered'
<1> USE ListenerEvents, CommandsAssumption
    DEF Counted, Counting, Listening, Entered, ListenGoto, ExecGoto, Executing,
        listenVars, execVars, commandVars
<1>a. /\ Inv /\ CommandTypeOK /\ Counting /\ Listening /\ Entered
      /\ TypeOK'
  <2>1. Inv'
    BY InvNext, StepOfSchedule DEF CommandInv
  <2> QED
    BY <2>1 DEF CommandInv, Inv
<1>b. /\ EventOf(Diag)' = EventOf(Diag)
      /\ DOMAIN lpc = Listeners /\ DOMAIN ppc = Pushers
      /\ received[Diag] \in Nat /\ received[Diag] <= MaxReceived[Diag] /\ MaxReceived[Diag] \in Nat
      /\ wCmdCnt \in Nat /\ lcnt \in Nat /\ ecnt \in Nat
  BY <1>a DEF EventOf, CommandTypeOK, TypeOK
<1>1. ASSUME NEW l \in Listeners, Receive(l)
      PROVE  CommandTypeOK' /\ Counting' /\ Listening' /\ Entered'
  <2>1. CommandTypeOK'
    BY <1>a, <1>b, <1>1 DEF Receive, CommandTypeOK
  <2>2. Counting'
    <3>1. CASE l = Diag
      <4>1. received'[Diag] = received[Diag] + 1 /\ lpc'[Diag] = "check" /\ lpc[Diag] = "wait"
        BY <1>a, <1>b, <1>1, <3>1 DEF Receive, CommandTypeOK, Listeners
      <4>2. Counted' = Counted /\ Counted = received[Diag]
        BY <1>b, <4>1
      <4> QED
        BY <1>a, <1>b, <1>1, <4>1, <4>2 DEF Receive
    <3>2. CASE l = Debug
      <4>1. received'[Diag] = received[Diag] /\ lpc'[Diag] = lpc[Diag]
        BY <1>a, <1>b, <1>1, <3>2 DEF Receive, CommandTypeOK
      <4> QED
        BY <1>a, <1>b, <1>1, <4>1 DEF Receive
    <3> QED
      BY <3>1, <3>2
  <2>3. Listening' /\ Entered'
    BY <1>a, <1>b, <1>1 DEF Receive, vars, pushVars, tickVars
  <2> QED
    BY <2>1, <2>2, <2>3
<1>2. ASSUME Warn \/ NoWarning \/ CountLoad \/ CountStore
      PROVE  CommandTypeOK' /\ Counting' /\ Listening' /\ Entered'
  <2>1. Counting'
    BY <1>a, <1>b, <1>2 DEF Warn, NoWarning, CountLoad, CountStore
  <2>2. CommandTypeOK'
    BY <1>a, <1>b, <1>2, <2>1 DEF Warn, NoWarning, CountLoad, CountStore, CommandTypeOK
  <2>3. Listening' /\ Entered'
    BY <1>a, <1>b, <1>2 DEF Warn, NoWarning, CountLoad, CountStore, vars, pushVars, tickVars
  <2> QED
    BY <2>1, <2>2, <2>3
<1>3. ASSUME NEW l \in Listeners, WriteId(l) \/ WriteValue(l) \/ Pushed(l)
      PROVE  CommandTypeOK' /\ Counting' /\ Listening' /\ Entered'
  <2>1. Counting'
    BY <1>a, <1>b, <1>3 DEF WriteId, WriteValue, Pushed
  <2>2. CommandTypeOK'
    BY <1>a, <1>b, <1>3 DEF WriteId, WriteValue, Pushed, CommandTypeOK
  <2>3. Listening' /\ Entered'
    BY <1>a, <1>b, <1>3 DEF WriteId, WriteValue, Pushed, vars, pushVars, tickVars
  <2> QED
    BY <2>1, <2>2, <2>3
<1>4. ASSUME NEW l \in Listeners, PushCommand(l)
      PROVE  CommandTypeOK' /\ Counting' /\ Listening' /\ Entered'
  <2>1. Counting'
    BY <1>a, <1>b, <1>4 DEF PushCommand
  <2>2. CommandTypeOK'
    BY <1>a, <1>b, <1>4 DEF PushCommand, CommandTypeOK
  <2>3. Listening' /\ Entered'
    BY <1>a, <1>b, <1>4 DEF PushCommand, Push, PushGoto, tickVars
  <2> QED
    BY <2>1, <2>2, <2>3
<1>5. ASSUME NEW c \in Calls[Debug], PushEventOnly(c)
      PROVE  CommandTypeOK' /\ Counting' /\ Listening' /\ Entered'
  <2>1. Counting'
    BY <1>a, <1>b, <1>5 DEF PushEventOnly, CommandTypeOK
  <2>2. CommandTypeOK'
    BY <1>a, <1>b, <1>5 DEF PushEventOnly, CommandTypeOK
  <2>3. Listening' /\ Entered'
    BY <1>a, <1>b, <1>5 DEF PushEventOnly, Push, PushGoto, tickVars
  <2> QED
    BY <2>1, <2>2, <2>3
<1>6. ASSUME NEW l \in Listeners, ExecId(l) \/ ExecValue(l)
      PROVE  CommandTypeOK' /\ Counting' /\ Listening' /\ Entered'
  <2>1. Counting'
    BY <1>a, <1>b, <1>6 DEF ExecId, ExecValue
  <2>2. CommandTypeOK'
    BY <1>a, <1>b, <1>6 DEF ExecId, ExecValue, CommandTypeOK
  <2>3. Listening' /\ Entered'
    BY <1>a, <1>b, <1>6 DEF ExecId, ExecValue, vars, pushVars, tickVars
  <2> QED
    BY <2>1, <2>2, <2>3
<1>7. ASSUME ExecCounted \/ ExecLoad \/ ExecStore
      PROVE  CommandTypeOK' /\ Counting' /\ Listening' /\ Entered'
  <2>1. Counting'
    BY <1>a, <1>b, <1>7 DEF ExecCounted, ExecLoad, ExecStore
  <2>2. CommandTypeOK'
    BY <1>a, <1>b, <1>7, <2>1 DEF ExecCounted, ExecLoad, ExecStore, CommandTypeOK
  <2>3. Listening' /\ Entered'
    BY <1>a, <1>b, <1>7 DEF ExecCounted, ExecLoad, ExecStore, vars, pushVars, tickVars
  <2> QED
    BY <2>1, <2>2, <2>3
<1>8. ASSUME ExecReturn
      PROVE  CommandTypeOK' /\ Counting' /\ Listening' /\ Entered'
  <2>1. Counting' /\ CommandTypeOK'
    BY <1>a, <1>b, <1>8 DEF ExecReturn, CommandTypeOK
  <2>2. Listening' /\ Entered'
    BY <1>a, <1>b, <1>8 DEF ExecReturn, TickReturn, TickGoto, pushVars
  <2> QED
    BY <2>1, <2>2
<1>9. ASSUME Scheduling
      PROVE  CommandTypeOK' /\ Counting' /\ Listening' /\ Entered'
  <2>1. Counting' /\ CommandTypeOK'
    BY <1>a, <1>b, <1>9 DEF Scheduling, CommandTypeOK
  <2>2. ASSUME NEW l \in Listeners, lpc[l] # "pushing" PROVE ppc'[l] = "idle"
    <3>1. ppc[l] = "idle" /\ l \in Pushers
      BY <1>a, <2>2
    <3>2. ASSUME NEW p \in Pushers \ Listeners, NEW c, Push(p, c[1], c[2])
          PROVE  ppc'[l] = ppc[l]
      BY <1>b, <3>2 DEF Push, PushGoto
    <3>3. ASSUME NEW p \in Pushers, PushStep(p) PROVE ppc'[l] = ppc[l]
      BY <1>b, <3>1, <3>3 DEF PushStep, PushGoto, PushLock, PushRefused, PushAgain,
         PushNew, PushEvent, PushDelay, PushReturn
    <3>4. ASSUME TickStep PROVE ppc'[l] = ppc[l]
      BY <3>4 DEF TickStep, TickStart, TickEnd, TickSkip, TickLoad, TickStore,
         TickCheck, TickTake, TickLock, TickShift, TickUnlock, pushVars
    <3> QED
      BY <1>9, <3>1, <3>2, <3>3, <3>4 DEF Scheduling
  <2>3. Listening'
    BY <1>a, <1>9, <2>2 DEF Scheduling
  <2>4. Entered'
    <3>1. /\ tpc = "run" => tpc' = "run"
          /\ tmsg' # tmsg => tpc = "take"
      BY <1>a, <1>9, StillDue
    <3> QED
      BY <1>a, <1>b, <1>9, <3>1 DEF Scheduling
  <2> QED
    BY <2>1, <2>3, <2>4
<1> QED
  BY <1>1, <1>2, <1>3, <1>4, <1>5, <1>6, <1>7, <1>8, <1>9 DEF CommandNext, Listen, Exec

\* A structure is written while its event may be taken, running, or half read; the
\* push that follows each write, and the reading order of the handlers, make good.
LEMMA HeededNext ==
  ASSUME CommandInv, CommandNext
  PROVE  Heeded'
<1> USE ListenerEvents
    DEF ListenGoto, ExecGoto, Executing, listenVars, execVars, commandVars
<1> DEFINE Content(l) == lpc[l] = "wait" \/ (lpc[l] = "pushing" /\ ~Unarmed(l))
           Settled(l) ==
             Due(l) \/ (done[l] = box[l] /\ ~(Running = EventOf(l) /\ epc = "value"))
<1>a. /\ Inv /\ CommandTypeOK /\ Listening /\ Entered
      /\ \A l \in Listeners : Content(l) => Settled(l)
  BY DEF CommandInv, Heeded
<1>b. /\ \A l \in Listeners : EventOf(l)' = EventOf(l) /\ box[l] = <<box[l][1], box[l][2]>>
      /\ DOMAIN lpc = Listeners /\ DOMAIN box = Listeners /\ DOMAIN done = Listeners
      /\ DOMAIN ppc = Pushers /\ DOMAIN parg = Pushers
      /\ \A l \in Listeners : EventOf(l) # None
  BY <1>a, CodesAreEvents DEF EventOf, CommandTypeOK, TypeOK
<1> SUFFICES ASSUME NEW k \in Listeners, Content(k)' PROVE Settled(k)'
  BY DEF Heeded
<1>c. ASSUME Content(k), box'[k] = box[k], done'[k] = done[k], epc' = epc, eid' = eid,
             Armed' = Armed, Running' = Running
      PROVE  Settled(k)'
  BY <1>a, <1>b, <1>c DEF Due
<1>1. ASSUME NEW l \in Listeners,
             Receive(l) \/ Warn \/ NoWarning \/ WriteId(l) \/ WriteValue(l)
               \/ CountLoad \/ CountStore \/ Pushed(l)
      PROVE  Settled(k)'
  <2>1. evt' = evt /\ schCnt' = schCnt /\ tpc' = tpc /\ tmsg' = tmsg /\ ppc' = ppc
        /\ parg' = parg /\ done' = done /\ epc' = epc /\ eid' = eid
    BY <1>1 DEF Receive, Warn, NoWarning, WriteId, WriteValue, CountLoad, CountStore,
       Pushed, vars, buffVars, pushVars, tickVars
  <2>2. box'[k] = box[k] /\ Content(k)
    BY <1>b, <1>1, <2>1 DEF Receive, Warn, NoWarning, WriteId, WriteValue, CountLoad,
       CountStore, Pushed, Unarmed
  <2> QED
    BY <1>c, <2>1, <2>2, BufferSame
<1>2. ASSUME NEW l \in Listeners, PushCommand(l) PROVE Settled(k)'
  <2>1. evt' = evt /\ schCnt' = schCnt /\ tpc' = tpc /\ tmsg' = tmsg
        /\ box' = box /\ done' = done /\ epc' = epc /\ eid' = eid
    BY <1>2 DEF PushCommand, Push, buffVars, tickVars
  <2>2. k # l
    <3>1. lpc'[l] = "pushing" /\ ppc'[l] = "lock" /\ parg'[l] = <<EventOf(l), 1>>
      BY <1>b, <1>2 DEF PushCommand, Push, PushGoto
    <3>2. Unarmed(l)'
      BY <1>b, <3>1 DEF Unarmed
    <3> QED
      BY <3>1, <3>2
  <2>3. Content(k)
    BY <1>b, <1>2, <2>2 DEF PushCommand, Push, PushGoto, Unarmed
  <2> QED
    BY <1>c, <2>1, <2>3, BufferSame
<1>3. ASSUME NEW c \in Calls[Debug], PushEventOnly(c) PROVE Settled(k)'
  <2>1. evt' = evt /\ schCnt' = schCnt /\ tpc' = tpc /\ tmsg' = tmsg
        /\ box' = box /\ done' = done /\ epc' = epc /\ eid' = eid
    BY <1>3 DEF PushEventOnly, Push, buffVars, tickVars
  <2>2. Content(k)
    BY <1>b, <1>3 DEF PushEventOnly, Push, PushGoto, Unarmed
  <2> QED
    BY <1>c, <2>1, <2>2, BufferSame
<1>4. ASSUME NEW l \in Listeners, ExecId(l) PROVE Settled(k)'
  <2>1. Running = EventOf(l) /\ Armed' = Armed /\ Running' = Running
    BY <1>4, BufferSame DEF ExecId, Running, vars, buffVars, tickVars
  <2>2. Content(k)
    BY <1>b, <1>4 DEF ExecId, vars, pushVars, Unarmed
  <2>3. CASE k = l
    BY <1>b, <1>4, <2>1, <2>3 DEF ExecId, Due
  <2>4. CASE k # l
    <3>1. Running # EventOf(k)
      BY <2>1, <2>4
    <3>2. Due(k) => EventOf(k) \in Armed
      BY <3>1 DEF Due
    <3> QED
      BY <1>a, <1>b, <1>4, <2>1, <2>2, <3>1, <3>2 DEF ExecId, Due
  <2> QED
    BY <2>3, <2>4
<1>5. ASSUME NEW l \in Listeners, ExecValue(l) PROVE Settled(k)'
  <2>1. Running = EventOf(l) /\ Armed' = Armed /\ Running' = Running
    BY <1>5, BufferSame DEF ExecValue, Running, vars, buffVars, tickVars
  <2>2. Content(k)
    BY <1>b, <1>5 DEF ExecValue, vars, pushVars, Unarmed
  <2>3. box' = box /\ epc = "value" /\ epc' \notin {"id", "value"}
    BY <1>5 DEF ExecValue
  <2>4. CASE k = l
    <3>1. EventOf(k) \in Armed \/ eid = box[k][1]
      BY <1>a, <2>1, <2>2, <2>3, <2>4 DEF Due
    <3>2. done'[k] = <<eid, box[k][2]>>
      BY <1>b, <1>5, <2>4 DEF ExecValue
    <3> QED
      BY <1>b, <2>1, <2>3, <3>1, <3>2 DEF Due
  <2>5. CASE k # l
    <3>1. Running # EventOf(k) /\ done'[k] = done[k]
      BY <1>b, <1>5, <2>1, <2>5 DEF ExecValue
    <3>2. EventOf(k) \in Armed \/ done[k] = box[k]
      BY <1>a, <2>2, <3>1 DEF Due
    <3> QED
      BY <1>b, <2>1, <2>3, <3>1, <3>2 DEF Due
  <2> QED
    BY <2>4, <2>5
<1>6. ASSUME ExecCounted \/ ExecLoad \/ ExecStore PROVE Settled(k)'
  <2>1. Armed' = Armed /\ Running' = Running /\ box' = box /\ done' = done /\ eid' = eid
        /\ epc \notin {"id", "value"} /\ epc' \notin {"id", "value"} /\ Content(k)
    BY <1>b, <1>6, BufferSame DEF ExecCounted, ExecLoad, ExecStore, Unarmed, vars, buffVars,
       pushVars, tickVars
  <2> QED
    BY <1>a, <1>b, <2>1 DEF Due
<1>7. ASSUME ExecReturn PROVE Settled(k)'
  <2>1. evt' = evt /\ schCnt' = schCnt /\ ppc' = ppc /\ parg' = parg /\ lpc' = lpc
        /\ box' = box /\ done' = done /\ tpc = "run" /\ tpc' = "sleep"
    BY <1>7 DEF ExecReturn, TickReturn, TickGoto, buffVars, pushVars
  <2>2. Armed' = Armed /\ Running' = None /\ Running = tmsg /\ Content(k)
    BY <1>b, <2>1 DEF Armed, Running, Used, Unarmed
  <2>3. tmsg = EventOf(k) => epc = "end"
    BY <1>7 DEF ExecReturn
  <2>4. EventOf(k) \in Armed \/ done[k] = box[k]
    BY <1>a, <2>2, <2>3 DEF Due
  <2> QED
    BY <1>b, <2>1, <2>2, <2>4 DEF Due
<1>8. ASSUME Scheduling PROVE Settled(k)'
  <2>1. lpc' = lpc /\ box' = box /\ done' = done /\ epc' = epc /\ eid' = eid
    BY <1>8 DEF Scheduling
  <2>2. /\ EventOf(k) \in Armed =>
             EventOf(k) \in Armed' \/ (Running = None /\ Running' = EventOf(k))
        /\ Running' # Running => Running = None
    BY <1>a, <1>8, StillDue
  <2>3. Running = None => epc = "id"
    BY <1>a DEF Running, Entered, Inv, Picked
  <2>4. CASE Content(k)
    <3>1. CASE Due(k)
      <4>1. CASE EventOf(k) \in Armed
        BY <1>b, <2>1, <2>2, <2>3, <4>1 DEF Due
      <4>2. CASE EventOf(k) \notin Armed
        BY <1>b, <2>1, <2>2, <3>1, <4>2 DEF Due
      <4> QED
        BY <3>1, <4>1, <4>2 DEF Due
    <3>2. CASE ~Due(k)
      <4>1. done[k] = box[k] /\ ~(Running = EventOf(k) /\ epc = "value")
        BY <1>a, <2>4, <3>2
      <4>2. ~(Running' = EventOf(k) /\ epc = "value")
        BY <2>2, <2>3, <4>1
      <4> QED
        BY <1>b, <2>1, <4>1, <4>2
    <3> QED
      BY <3>1, <3>2
  <2>5. CASE ~Content(k)
    <3>1. Unarmed(k) /\ ~Unarmed(k)'
      BY <2>1, <2>5
    <3> QED
      BY <1>a, <1>b, <1>8, <3>1, ArmedByPush DEF Due
  <2> QED
    BY <2>4, <2>5
<1> QED
  BY <1>1, <1>2, <1>3, <1>4, <1>5, <1>6, <1>7, <1>8 DEF CommandNext, Listen, Exec

LEMMA CommandInvAlways == CommandSpec => []CommandInv
<1>1. CommandInv /\ [CommandNext]_allVars => CommandInv'
  <2>1. CommandInv /\ CommandNext => CommandInv'
    BY PointsNext, HeededNext, InvNext, StepOfSchedule DEF CommandInv
  <2>2. CommandInv /\ UNCHANGED allVars => CommandInv'
    <3> SUFFICES ASSUME CommandInv, UNCHANGED allVars PROVE CommandInv'
      OBVIOUS
    <3>1. Inv'
      BY InvNext DEF CommandInv, allVars
    <3> USE DEF CommandInv, allVars, commandVars, vars, buffVars, pushVars, tickVars,
            listenVars, execVars, EventOf
    <3>2. CommandTypeOK'
      BY DEF CommandTypeOK, TypeOK
    <3>3. Counting' /\ Listening' /\ Entered'
      BY DEF Counting, Counted, Listening, Entered
    <3>4. Heeded'
      BY DEF Heeded, Unarmed, Due, Armed, Running, Used
    <3> QED
      BY <3>1, <3>2, <3>3, <3>4
  <2> QED
    BY <2>1, <2>2
<1> QED
  BY <1>1, CommandInvInit, PTL DEF CommandSpec

\* wCmdCnt, which the diag listener and the handler both update without a lock, is
\* never negative and never above the number of commands received.
THEOREM CommandTypeCorrect == CommandSpec => []CommandTypeOK
  BY CommandInvAlways, PTL DEF CommandInv

\* Once a listener waits again, its last command was executed as it was sent, or an
\* execution that reads it is still to come.
THEOREM NoLostCommandAlways == CommandSpec => []NoLostCommand
<1>1. CommandInv => NoLostCommand
  BY DEF CommandInv, Heeded, NoLostCommand
<1> QED
  BY <1>1, CommandInvAlways, PTL

-----------------------------------------------------------------------------
\* The composition adds nothing to the buffer: all that the listeners and the handlers do
\* to it, between their own steps which take no mutex, are pushes and ticks
\* (pega_schedule_Event_push, called at pega_misc_diag.c:67, and pega_schedule_Event_Get).
THEOREM ScheduleOfCommands == CommandSpec => Spec
<1>1. CommandInit => Init
  BY DEF CommandInit
<1>2. [CommandNext]_allVars => [Next]_vars
  <2>1. UNCHANGED allVars => UNCHANGED vars
    BY Zenon DEF allVars
  <2> QED BY <2>1, StepOfSchedule
<1> QED
  BY <1>1, <1>2, PTL DEF CommandSpec, Spec

\* So the handlers run as EventTimer says: once for each arming, never unarmed, and no
\* command that a listener writes meanwhile disarms another event.
THEOREM TimerOfCommands == CommandSpec => TimerSpec
  BY ScheduleOfCommands, Implementation, PTL
=============================================================================
