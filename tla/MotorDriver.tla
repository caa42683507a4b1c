---------------------------- MODULE MotorDriver ----------------------------
(***************************************************************************)
(* The AWD8833 stepper driver of motor/src: the sysfs attributes of one    *)
(* motor_chip, the mutex that guards their show and store methods, the     *)
(* work item that drives the coils WITHOUT that mutex, and remove/probe.   *)
(*                                                                         *)
(* A sysfs call is a process: it blocks on chip->lock, runs its body one   *)
(* shared write at a time (the worker reads the same fields unlocked) and  *)
(* unlocks.  A store whose text does not parse returns without unlocking.  *)
(* The worker is one process, as a work item never runs twice at once; it  *)
(* loads each field once, in any order inside one call's argument list.    *)
(***************************************************************************)
EXTENDS Naturals

CONSTANTS
  Procs,      \* user processes that read and write the sysfs files
  NoProc,     \* the owner of a free mutex
  Malformed,  \* a text kstrtouint refuses
  Requests    \* the <<attribute, value>> pairs the processes may issue

PAN == 0
RISING == 1
FORWARD == 1
REVERSE == 0

Fields == {"motor", "mode", "en", "dir", "cycle", "sp"}
\* The attribute files; "info" stands for every show method, each of which
\* formats a part of what motor_info formats, under the same lock.
Attributes == Fields \cup {"step_work", "info"}

\* The arguments of a process that is in no call.
NoCall == <<"info", 0>>

ASSUME RequestsAssumption ==
  /\ NoProc \notin Procs
  /\ Malformed \notin Nat
  /\ Requests \subseteq Attributes \X (Nat \cup {Malformed})

VARIABLES
  mot,       \* struct motor_control: the fields, and delay
  lock,      \* owner of chip->lock
  pc, req, ret, shown,   \* per process: point in the call, the call, its outcome
  dev,       \* "bound", "removing" (remove waits for the files), "freed"
  pending,   \* work_motor is queued
  wpc, wneed, args, done,  \* worker: point, loads left, loaded values, aw_count
  stepState, \* g_full_step_state
  stepDelay, \* g_full_step_delay
  high,      \* the PWM pins driven high
  awake      \* the motors whose nSLEEP is high

chipVars == <<mot, lock, pc, req, ret, shown>>
workVars == <<wpc, wneed, args, done, stepState, high, awake>>
vars == <<chipVars, dev, pending, workVars, stepDelay>>

-----------------------------------------------------------------------------
(* What a store makes of the number it parsed.                             *)

MotorValue(v) == IF v # 0 THEN PAN ELSE RISING
FlagValue(v) == IF v # 0 THEN 1 ELSE 0   \* mode, dir and enable
CycleValue(v) == IF v < 1000 THEN v ELSE 0
SpValue(v) == IF v < 10 THEN v ELSE 0

Stored(a, v) ==
  [motor |-> MotorValue(v), mode |-> FlagValue(v), dir |-> FlagValue(v),
   en |-> FlagValue(v), cycle |-> CycleValue(v), sp |-> SpValue(v)][a]

\* awd8833c_set_motor_speed: level 1 (slow) to 10, in microseconds per step.
SpeedDelay(speed) ==
  LET level == IF speed = 0 THEN 1 ELSE IF speed > 10 THEN 10 ELSE speed
  IN  18000 - 1800 * (level - 1)

(* The coils.  Pin <<c, 1>> is cIN1, <<c, 2>> is cIN2.                     *)
Pins == {"A", "B"} \X {1, 2}
Opposite(pin) == <<pin[1], 3 - pin[2]>>

\* The pin one full step drives high; it drives the opposite one low.
ForwardTable == << <<"A", 1>>, <<"B", 2>>, <<"A", 2>>, <<"B", 1>> >>
ReverseTable == << <<"B", 2>>, <<"A", 1>>, <<"B", 1>>, <<"A", 2>> >>
FullStep(dir, s) == IF dir = FORWARD THEN ForwardTable[s + 1] ELSE ReverseTable[s + 1]

NextStateNoWrap(s) == s + 1  \* slip: state 3 does not wrap
NextState(s) == IF s = 3 THEN 0 ELSE s + 1

ZeroedMot == [f \in Fields \cup {"delay"} |-> 0]

\* The worker between two calls: the arguments of a call end with it.
NoArgs == [f \in Fields |-> 0]

-----------------------------------------------------------------------------
Init ==
  /\ mot = ZeroedMot
  /\ lock = NoProc
  /\ pc = [p \in Procs |-> "idle"]
  /\ req = [p \in Procs |-> NoCall]
  /\ ret = [p \in Procs |-> "none"]
  /\ shown = [p \in Procs |-> ZeroedMot]
  /\ dev = "bound"
  /\ pending = FALSE
  /\ wpc = "idle" /\ wneed = {} /\ args = NoArgs /\ done = 0
  /\ stepState = 0
  /\ stepDelay = 5000
  /\ high = {} /\ awake = {}

-----------------------------------------------------------------------------
(* The sysfs methods.                                                      *)

Goto(p, from, to) == pc[p] = from /\ pc' = [pc EXCEPT ![p] = to]

Call(p) ==
  /\ dev = "bound"
  /\ Goto(p, "idle", "lock")
  /\ \E r \in Requests : req' = [req EXCEPT ![p] = r]
  /\ UNCHANGED <<mot, lock, ret, shown, dev, pending, workVars, stepDelay>>

Acquire(p) ==
  /\ lock = NoProc
  /\ Goto(p, "lock", "body")
  /\ lock' = p
  /\ UNCHANGED <<mot, req, ret, shown, dev, pending, workVars, stepDelay>>

\* if (ret) return ret; -- the mutex stays locked.
ParseError(p) ==
  /\ req[p][1] # "info" /\ req[p][2] = Malformed
  /\ Goto(p, "body", "idle")
  /\ req' = [req EXCEPT ![p] = NoCall]
  /\ ret' = [ret EXCEPT ![p] = "error"]
  /\ UNCHANGED <<mot, lock, shown, dev, pending, workVars, stepDelay>>

Store(p) ==
  LET a == req[p][1] v == req[p][2] IN
  /\ a \in Fields /\ v # Malformed
  /\ Goto(p, "body", IF a = "sp" THEN "speed" ELSE "unlock")
  /\ mot' = [mot EXCEPT ![a] = Stored(a, v)]
  /\ UNCHANGED <<lock, req, ret, shown, dev, pending, workVars, stepDelay>>

\* Slip: sp_store unlocks before it sets the delay.
StoreSpeedUnlocked(p) ==
  /\ Goto(p, "speed", "delay")
  /\ stepDelay' = SpeedDelay(mot["sp"])
  /\ lock' = NoProc
  /\ UNCHANGED <<mot, req, ret, shown, dev, pending, workVars>>

\* sp_store goes on to set the step delay, which it shares with the worker...
StoreSpeed(p) ==
  /\ Goto(p, "speed", "delay")
  /\ stepDelay' = SpeedDelay(mot["sp"])
  /\ UNCHANGED <<mot, lock, req, ret, shown, dev, pending, workVars>>

\* ...and records the delay it set.
StoreDelay(p) ==
  /\ Goto(p, "delay", "unlock")
  /\ mot' = [mot EXCEPT !["delay"] = SpeedDelay(mot["sp"])]
  /\ UNCHANGED <<lock, req, ret, shown, dev, pending, workVars, stepDelay>>

\* Slip: step_on_store returns without mutex_unlock.
StepWorkKeepsLock(p) ==
  /\ req[p][1] = "step_work" /\ req[p][2] # Malformed
  /\ Goto(p, "body", "idle")
  /\ ret' = [ret EXCEPT ![p] = "ok"]
  /\ pending' = TRUE
  /\ UNCHANGED <<mot, lock, req, shown, dev, workVars, stepDelay>>

\* schedule_work: a work item already queued is not queued twice.
StepWork(p) ==
  /\ req[p][1] = "step_work" /\ req[p][2] # Malformed
  /\ Goto(p, "body", "unlock")
  /\ pending' = TRUE
  /\ UNCHANGED <<mot, lock, req, ret, shown, dev, workVars, stepDelay>>

Info(p) ==
  /\ req[p][1] = "info"
  /\ Goto(p, "body", "unlock")
  /\ shown' = [shown EXCEPT ![p] = mot]
  /\ UNCHANGED <<mot, lock, req, ret, dev, pending, workVars, stepDelay>>

Unlock(p) ==
  /\ Goto(p, "unlock", "idle")
  /\ lock' = NoProc
  /\ req' = [req EXCEPT ![p] = NoCall]
  /\ ret' = [ret EXCEPT ![p] = "ok"]
  /\ UNCHANGED <<mot, shown, dev, pending, workVars, stepDelay>>

Handler(p) ==
  \/ Acquire(p) \/ ParseError(p) \/ Store(p) \/ StoreSpeed(p)
  \/ StoreDelay(p) \/ StepWork(p) \/ Info(p) \/ Unlock(p)

-----------------------------------------------------------------------------
(* motorctrl_work.  None of its steps takes chip->lock.                    *)

Alive == dev # "freed"
WorkGoto(from, to) == Alive /\ wpc = from /\ wpc' = to

WorkStart ==
  /\ pending
  /\ WorkGoto("idle", "init")
  /\ pending' = FALSE
  /\ UNCHANGED <<chipVars, dev, wneed, args, done, stepState, high, awake, stepDelay>>

\* Slip: the pins keep the pattern of the previous run.
GpioInitKeepsPins ==
  /\ WorkGoto("init", "enable")
  /\ high' = high /\ awake' = {}
  /\ wneed' = {"en", "motor"}
  /\ UNCHANGED <<chipVars, dev, pending, args, done, stepState, stepDelay>>

GpioInit ==
  /\ WorkGoto("init", "enable")
  /\ high' = {} /\ awake' = {}
  /\ wneed' = {"en", "motor"}
  /\ UNCHANGED <<chipVars, dev, pending, args, done, stepState, stepDelay>>

\* One load of one argument of the call the worker is about to make.
Fetch(f) ==
  /\ Alive /\ f \in wneed
  /\ args' = [args EXCEPT ![f] = mot[f]]
  /\ wneed' = wneed \ {f}
  /\ UNCHANGED <<chipVars, dev, pending, wpc, done, stepState, high, awake, stepDelay>>

SetEnable ==
  /\ wneed = {}
  /\ WorkGoto("enable", "speed")
  /\ awake' = IF args["en"] # 0 THEN awake \cup {args["motor"]}
                                ELSE awake \ {args["motor"]}
  /\ wneed' = {"sp"} /\ args' = NoArgs
  /\ UNCHANGED <<chipVars, dev, pending, done, stepState, high, stepDelay>>

SetMotorSpeed ==
  /\ wneed = {}
  /\ WorkGoto("speed", "load")
  /\ stepDelay' = SpeedDelay(args["sp"])
  /\ wneed' = {"dir", "cycle"} /\ args' = NoArgs
  /\ UNCHANGED <<chipVars, dev, pending, done, stepState, high, awake>>

StepFunction ==
  /\ wneed = {}
  /\ WorkGoto("load", "step")
  /\ done' = 0
  /\ UNCHANGED <<chipVars, dev, pending, wneed, args, stepState, high, awake, stepDelay>>

\* Slip: reverse raises the new pin before it lowers the opposite one.
FirstWriteOnFirst ==
  /\ done < args["cycle"]
  /\ WorkGoto("step", "write")
  /\ high' = high \cup {FullStep(args["dir"], stepState)}
  /\ UNCHANGED <<chipVars, dev, pending, wneed, args, done, stepState, awake, stepDelay>>

\* Slip: the loop condition is aw_count <= cycle.
FirstWriteOnceMore ==
  LET on == FullStep(args["dir"], stepState) IN
  /\ done <= args["cycle"]
  /\ WorkGoto("step", "write")
  /\ high' = IF args["dir"] = FORWARD THEN high \cup {on} ELSE high \ {Opposite(on)}
  /\ UNCHANGED <<chipVars, dev, pending, wneed, args, done, stepState, awake, stepDelay>>

\* A full step is two pin writes: forward drives the new pin high and then its
\* opposite low, reverse the other way round.
FirstWrite ==
  LET on == FullStep(args["dir"], stepState) IN
  /\ done < args["cycle"]
  /\ WorkGoto("step", "write")
  /\ high' = IF args["dir"] = FORWARD THEN high \cup {on} ELSE high \ {Opposite(on)}
  /\ UNCHANGED <<chipVars, dev, pending, wneed, args, done, stepState, awake, stepDelay>>

\* Slip: aw_count is not advanced.
SecondWriteUncounted ==
  LET on == FullStep(args["dir"], stepState) IN
  /\ WorkGoto("write", "step")
  /\ high' = IF args["dir"] = FORWARD THEN high \ {Opposite(on)} ELSE high \cup {on}
  /\ stepState' = NextState(stepState)
  /\ UNCHANGED <<chipVars, dev, pending, wneed, args, done, awake, stepDelay>>

SecondWrite ==
  LET on == FullStep(args["dir"], stepState) IN
  /\ WorkGoto("write", "step")
  /\ high' = IF args["dir"] = FORWARD THEN high \ {Opposite(on)} ELSE high \cup {on}
  /\ stepState' = NextState(stepState)
  /\ done' = done + 1
  /\ UNCHANGED <<chipVars, dev, pending, wneed, args, awake, stepDelay>>

DisablePan ==
  /\ done >= args["cycle"]
  /\ WorkGoto("step", "disable")
  /\ awake' = awake \ {PAN}
  /\ UNCHANGED <<chipVars, dev, pending, wneed, args, done, stepState, high, stepDelay>>

\* Slip: only the pan motor is put to sleep.
DisableRisingForgotten ==
  /\ WorkGoto("disable", "idle")
  /\ args' = NoArgs /\ done' = 0
  /\ UNCHANGED <<chipVars, dev, pending, wneed, stepState, high, awake, stepDelay>>

DisableRising ==
  /\ WorkGoto("disable", "idle")
  /\ awake' = awake \ {RISING}
  /\ args' = NoArgs /\ done' = 0
  /\ UNCHANGED <<chipVars, dev, pending, wneed, stepState, high, stepDelay>>

Worker ==
  \/ WorkStart \/ GpioInit \/ (\E f \in Fields : Fetch(f))
  \/ SetEnable \/ SetMotorSpeed \/ StepFunction
  \/ FirstWrite \/ SecondWrite \/ DisablePan \/ DisableRising

-----------------------------------------------------------------------------
(* Unbinding.  sysfs_remove_group waits for the calls in progress; the     *)
(* work item is not cancelled, and devm then frees chip and the pins.      *)

Remove ==
  /\ dev = "bound" /\ dev' = "removing"
  /\ UNCHANGED <<chipVars, pending, workVars, stepDelay>>

Free ==
  /\ dev = "removing" /\ \A p \in Procs : pc[p] = "idle"
  /\ dev' = "freed"
  /\ UNCHANGED <<chipVars, pending, workVars, stepDelay>>

\* A worker that still runs, or is still queued, uses freed memory: nothing is
\* promised from here on.
UseAfterFree ==
  /\ dev = "freed" /\ wpc # "undefined"
  /\ pending \/ wpc # "idle"
  /\ wpc' = "undefined"
  /\ UNCHANGED <<chipVars, dev, pending, wneed, args, done, stepState, high, awake, stepDelay>>

\* A new bind: fresh chip, pins low; the globals of the step code survive.
Probe ==
  /\ dev = "freed" /\ ~pending /\ wpc = "idle"
  /\ dev' = "bound"
  /\ mot' = ZeroedMot /\ lock' = NoProc
  /\ high' = {} /\ awake' = {}
  /\ UNCHANGED <<pc, req, ret, shown, pending, wpc, wneed, args, done, stepState, stepDelay>>

Next ==
  \/ \E p \in Procs : Call(p) \/ Handler(p)
  \/ Worker
  \/ Remove \/ Free \/ UseAfterFree \/ Probe

Spec == Init /\ [][Next]_vars

\* The scheduler runs every caller and the workqueue; a mutex with waiters is
\* handed on, so a waiter that sees it free again and again gets it.  Users
\* need not call and nobody need unbind.
Fairness ==
  /\ \A p \in Procs : SF_vars(Acquire(p)) /\ WF_vars(Handler(p))
  /\ WF_vars(Worker \/ UseAfterFree)

FairSpec == Spec /\ Fairness
-----------------------------------------------------------------------------
(* What the driver owes its users.                                         *)

TypeOK ==
  /\ mot \in [Fields \cup {"delay"} -> Nat]
  /\ lock \in Procs \cup {NoProc}
  /\ pc \in [Procs -> {"idle", "lock", "body", "speed", "delay", "unlock"}]
  /\ req \in [Procs -> Attributes \X (Nat \cup {Malformed})]
  /\ ret \in [Procs -> {"none", "ok", "error"}]
  /\ shown \in [Procs -> [Fields \cup {"delay"} -> Nat]]
  /\ dev \in {"bound", "removing", "freed"}
  /\ pending \in BOOLEAN
  /\ wpc \in {"idle", "init", "enable", "speed", "load", "step", "write",
              "disable", "undefined"}
  /\ wneed \subseteq Fields
  /\ args \in [Fields -> Nat]
  /\ done \in Nat
  /\ stepState \in 0..3
  /\ stepDelay \in Nat
  /\ high \subseteq Pins
  /\ awake \subseteq {PAN, RISING}

\* Both motors hang on the same four pins, so at most one may be awake, and no
\* motor stays awake once motorctrl_work has returned.
MotorPower ==
  /\ awake # {PAN, RISING}
  /\ wpc = "idle" => awake = {}

PrevState(s) == IF s = 0 THEN 3 ELSE s - 1

\* The pins after n steps of a run in direction dir, s being the next state:
\* those of the last two steps, one per coil.
Driven(dir, s, n) ==
  IF n = 0 THEN {}
  ELSE {FullStep(dir, PrevState(s))} \cup
       (IF n = 1 THEN {} ELSE {FullStep(dir, PrevState(PrevState(s)))})

\* g_full_step_state outlives a run and both directions count it upwards, yet
\* between two steps of a run the energised coils are always the ones that the
\* last two states of this direction's table say: every further step turns the
\* field by one quarter in the commanded direction.
PhaseTracksStep ==
  wpc \in {"step", "disable"} => high = Driven(args["dir"], stepState, done)

\* Both pins of a coil high is a brake (pega_motor_awd8833.c:26).  The coil is
\* braked only inside a forward step, between its two writes.
BrakeOnlyInsideForwardStep ==
  (\E pin \in high : Opposite(pin) \in high)
    => wpc \in {"write", "undefined"} /\ args["dir"] = FORWARD

\* A run makes exactly the loaded number of steps, whatever is stored meanwhile,
\* and no stored number reaches 1000.
RunTakesCycleSteps ==
  wpc = "disable" => done = args["cycle"] /\ done < 1000

InBody(p) == pc[p] \in {"body", "speed", "delay", "unlock"}

\* The bodies of show and store exclude each other, and the only way a process
\* outside a body owns the mutex is that its last completed call failed to parse.
LockDiscipline ==
  \A p \in Procs :
    /\ InBody(p) => lock = p
    /\ lock = p /\ ~InBody(p) => ret[p] = "error"

\* sp_store changes speed and delay in three steps; no reader of info sees a
\* speed with the delay of another one (both are 0 until the first sp_store).
InfoSnapshot ==
  \A p \in Procs :
    \/ shown[p]["delay"] = SpeedDelay(shown[p]["sp"])
    \/ /\ shown[p]["delay"] = 0
       /\ shown[p]["sp"] = 0

LockLost == \E p \in Procs : lock = p /\ ~InBody(p) /\ ret[p] = "error"

\* A call that waits for the mutex returns, unless a malformed store lost it.
CallReturns == \A p \in Procs : pc[p] = "lock" ~> (pc[p] = "idle" \/ LockLost)

\* Every step_work is followed by a run that begins after it, and a run ends
\* with both motors asleep -- with or without the mutex, and until chip is freed.
TriggerRuns ==
  /\ pending ~> wpc \in {"init", "undefined"}
  /\ wpc = "init" ~> ((wpc = "idle" /\ awake = {}) \/ wpc = "undefined")

\* motor.c:20 says of the field dir "forward:0,reverse:1".
DirComment ==
  wpc = "step" /\ done >= 2 /\ args["dir"] = 0
    => high = Driven(FORWARD, stepState, done)
=============================================================================
