---------------------------- MODULE MotorProofs ----------------------------
(* Proofs about MotorDriver for every set of processes and of requests.    *)
EXTENDS MotorDriver, TLAPS

Both == {FORWARD, REVERSE}

\* The step tables: a step drives a pin of the coil opposite to the one of two
\* steps before, and neighbouring steps drive different coils.
LEMMA StepTable ==
  ASSUME NEW dir \in Both, NEW s \in 0..3
  PROVE  /\ FullStep(dir, s) \in Pins
         /\ Opposite(FullStep(dir, s)) = FullStep(dir, PrevState(PrevState(s)))
         /\ FullStep(dir, PrevState(s))[1] # FullStep(dir, s)[1]
         /\ NextState(s) \in 0..3 /\ PrevState(s) \in 0..3
         /\ PrevState(NextState(s)) = s
<1>1. s = 0 \/ s = 1 \/ s = 2 \/ s = 3
  OBVIOUS
<1>2. dir = 0 \/ dir = 1
  BY DEF Both, FORWARD, REVERSE
<1>3. QED
  BY <1>1, <1>2 DEF FullStep, ForwardTable, ReverseTable, Opposite, PrevState, NextState, Pins, FORWARD, REVERSE

\* One whole step, in either write order, shifts the driven pair by one state.
LEMMA StepShiftsDriven ==
  ASSUME NEW dir \in Both, NEW s \in 0..3, NEW n \in Nat
  PROVE  LET on == FullStep(dir, s) IN
         /\ (Driven(dir, s, n) \cup {on}) \ {Opposite(on)} = Driven(dir, NextState(s), n + 1)
         /\ (Driven(dir, s, n) \ {Opposite(on)}) \cup {on} = Driven(dir, NextState(s), n + 1)
<1> DEFINE on == FullStep(dir, s)
           last == FullStep(dir, PrevState(s))
<1>1. /\ last[1] # on[1]
      /\ Opposite(on) = FullStep(dir, PrevState(PrevState(s)))
      /\ Opposite(on)[1] = on[1]
      /\ Opposite(on) # on
      /\ PrevState(NextState(s)) = s
  BY StepTable DEF Opposite, Pins
<1>2. Driven(dir, NextState(s), n + 1) = {on} \cup (IF n = 0 THEN {} ELSE {last})
  BY <1>1 DEF Driven
<1>3. Driven(dir, s, n) = IF n = 0 THEN {} ELSE {last} \cup (IF n = 1 THEN {} ELSE {Opposite(on)})
  BY <1>1 DEF Driven
<1>4. last # on /\ last # Opposite(on)
  BY <1>1
<1> HIDE DEF on, last
<1>5. QED
  BY <1>1, <1>2, <1>3, <1>4 DEF on

NoBrake(pins) == \A pin \in pins : Opposite(pin) \notin pins

\* The pins between two steps never brake a coil.
LEMMA DrivenDoesNotBrake ==
  ASSUME NEW dir \in Both, NEW s \in 0..3, NEW n \in Nat
  PROVE  /\ Driven(dir, s, n) \subseteq Pins
         /\ NoBrake(Driven(dir, s, n))
<1>1. PrevState(s) \in 0..3 /\ PrevState(PrevState(s)) \in 0..3
  BY DEF PrevState
<1> DEFINE a == FullStep(dir, PrevState(s))
           b == FullStep(dir, PrevState(PrevState(s)))
<1>2. a \in Pins /\ b \in Pins /\ b[1] # a[1]
  BY <1>1, StepTable
<1>3. Driven(dir, s, n) \subseteq {a, b}
  BY DEF Driven
<1>4. /\ Opposite(a)[1] = a[1] /\ Opposite(a) # a
      /\ Opposite(b)[1] = b[1] /\ Opposite(b) # b
  BY <1>2 DEF Opposite, Pins
<1> HIDE DEF a, b
<1>5. QED
  BY <1>2, <1>3, <1>4 DEF NoBrake

-----------------------------------------------------------------------------
(* Typing.  The stored fields keep the ranges the stores give them.        *)

Typed ==
  /\ TypeOK
  /\ \A f \in {"motor", "mode", "en", "dir"} : mot[f] \in {0, 1} /\ args[f] \in {0, 1}
  /\ mot["cycle"] < 1000 /\ args["cycle"] < 1000
  /\ mot["sp"] < 10 /\ args["sp"] < 10

LEMMA SpeedDelayNat ==
  ASSUME NEW sp \in Nat, sp < 10
  PROVE  SpeedDelay(sp) \in Nat
BY DEF SpeedDelay

LEMMA NoArgsTyped == NoArgs \in [Fields -> Nat] /\ \A f \in Fields : NoArgs[f] = 0
BY DEF NoArgs

LEMMA TypedInit == Init => Typed
<1> SUFFICES ASSUME Init PROVE Typed
  OBVIOUS
<1>1. NoCall \in Attributes \X (Nat \cup {Malformed})
  BY DEF NoCall, Attributes
<1>2. /\ ZeroedMot \in [Fields \cup {"delay"} -> Nat]
      /\ \A f \in Fields : ZeroedMot[f] = 0 /\ args[f] = 0
  BY NoArgsTyped DEF ZeroedMot, Init
<1>3. mot \in [Fields \cup {"delay"} -> Nat] /\ shown \in [Procs -> [Fields \cup {"delay"} -> Nat]]
  BY <1>2, Zenon DEF Init
<1>4. req \in [Procs -> Attributes \X (Nat \cup {Malformed})]
  BY <1>1, Zenon DEF Init
<1>5. args \in [Fields -> Nat]
  BY NoArgsTyped DEF Init
<1>6. /\ pc \in [Procs -> {"idle", "lock", "body", "speed", "delay", "unlock"}]
      /\ ret \in [Procs -> {"none", "ok", "error"}]
  BY Zenon DEF Init
<1>7. TypeOK
  <2>1. /\ lock \in Procs \cup {NoProc}
        /\ dev \in {"bound", "removing", "freed"}
        /\ pending \in BOOLEAN
        /\ wpc \in {"idle", "init", "enable", "speed", "load", "step", "write",
                    "disable", "undefined"}
    BY DEF Init
  <2>2. /\ wneed \subseteq Fields /\ done \in Nat /\ stepState \in 0..3
        /\ stepDelay \in Nat /\ high \subseteq Pins /\ awake \subseteq {PAN, RISING}
    BY DEF Init
  <2>3. QED
    BY <1>3, <1>4, <1>5, <1>6, <2>1, <2>2, Zenon DEF TypeOK
<1>8. QED
  BY <1>2, <1>7 DEF Init, Typed, Fields

LEMMA TypedStore ==
  ASSUME NEW p \in Procs, Typed, Store(p)
  PROVE  Typed'
<1> DEFINE a == req[p][1]
           v == req[p][2]
<1>1. a \in Fields /\ v \in Nat /\ mot' = [mot EXCEPT ![a] = Stored(a, v)]
  BY DEF Store, Typed, TypeOK
<1> HIDE DEF a, v
<1>2. /\ Stored(a, v) \in Nat
      /\ a \in {"motor", "mode", "en", "dir"} => Stored(a, v) \in {0, 1}
      /\ a = "cycle" => Stored(a, v) < 1000
      /\ a = "sp" => Stored(a, v) < 10
  BY <1>1 DEF Stored, MotorValue, FlagValue, CycleValue, SpValue, Fields, PAN, RISING
<1>3. mot' \in [Fields \cup {"delay"} -> Nat]
  BY <1>1, <1>2 DEF Typed, TypeOK
<1>4. /\ \A f \in {"motor", "mode", "en", "dir"} : mot'[f] \in {0, 1}
      /\ mot'["cycle"] < 1000 /\ mot'["sp"] < 10
  BY <1>1, <1>2 DEF Typed, TypeOK, Fields
<1>5. pc' \in [Procs -> {"idle", "lock", "body", "speed", "delay", "unlock"}]
  BY DEF Store, Goto, Typed, TypeOK
<1>6. QED
  BY <1>3, <1>4, <1>5 DEF Store, Typed, TypeOK, workVars

LEMMA TypedHandler ==
  ASSUME NEW p \in Procs, Typed, Call(p) \/ Handler(p)
  PROVE  Typed'
<1> USE DEF Goto, workVars
<1>1. CASE Call(p)
  BY <1>1, RequestsAssumption DEF Call, Typed, TypeOK
<1>2. CASE Acquire(p)
  BY <1>2 DEF Acquire, Typed, TypeOK
<1>3. CASE ParseError(p)
  BY <1>3 DEF ParseError, Typed, TypeOK, NoCall, Attributes
<1>4. CASE Store(p)
  BY <1>4, TypedStore
<1>5. CASE StoreSpeed(p)
  BY <1>5, SpeedDelayNat DEF StoreSpeed, Typed, TypeOK, Fields
<1>6. CASE StoreDelay(p)
  <2>1. SpeedDelay(mot["sp"]) \in Nat
    BY SpeedDelayNat DEF Typed, TypeOK, Fields
  <2>2. QED
    BY <1>6, <2>1 DEF StoreDelay, Typed, TypeOK, Fields
<1>7. CASE StepWork(p)
  BY <1>7 DEF StepWork, Typed, TypeOK
<1>8. CASE Info(p)
  BY <1>8 DEF Info, Typed, TypeOK
<1>9. CASE Unlock(p)
  BY <1>9 DEF Unlock, Typed, TypeOK, NoCall, Attributes
<1>10. QED
  BY <1>1, <1>2, <1>3, <1>4, <1>5, <1>6, <1>7, <1>8, <1>9 DEF Handler

LEMMA TypedWorker ==
  ASSUME Typed, Worker
  PROVE  Typed'
<1> USE DEF WorkGoto, chipVars, Typed, TypeOK
<1>1. CASE WorkStart
  BY <1>1, ZenonT(60) DEF WorkStart
<1>2. CASE GpioInit
  BY <1>2 DEF GpioInit, Fields
<1>3. ASSUME NEW f \in Fields, Fetch(f) PROVE Typed'
  BY <1>3 DEF Fetch, Fields
<1>4. CASE SetEnable
  <2>1. /\ args["motor"] \in {0, 1} /\ "sp" \in Fields
        /\ UNCHANGED <<chipVars, dev, pending, done, stepState, high, stepDelay>>
    BY <1>4 DEF SetEnable, Fields
  <2>2. awake' \subseteq {PAN, RISING} /\ wneed' \subseteq Fields /\ wpc' = "speed"
    BY <1>4, <2>1, ZenonT(60) DEF SetEnable, PAN, RISING
  <2>3. /\ args' \in [Fields -> Nat]
        /\ \A f \in {"motor", "mode", "en", "dir"} : args'[f] \in {0, 1}
        /\ args'["cycle"] < 1000 /\ args'["sp"] < 10
    BY <1>4, NoArgsTyped DEF SetEnable, Fields
  <2>4. QED
    BY <2>1, <2>2, <2>3
<1>5. CASE SetMotorSpeed
  <2>1. SpeedDelay(args["sp"]) \in Nat
    BY SpeedDelayNat DEF Fields
  <2>2. {"dir", "cycle"} \subseteq Fields
    BY DEF Fields
  <2>3. /\ args' \in [Fields -> Nat]
        /\ \A f \in {"motor", "mode", "en", "dir"} : args'[f] \in {0, 1}
        /\ args'["cycle"] < 1000 /\ args'["sp"] < 10
    BY <1>5, NoArgsTyped DEF SetMotorSpeed, Fields
  <2>4. QED
    BY <1>5, <2>1, <2>2, <2>3 DEF SetMotorSpeed
<1>6. CASE StepFunction
  BY <1>6 DEF StepFunction
<1>7. CASE FirstWrite
  BY <1>7, StepTable DEF FirstWrite, Both, FORWARD, REVERSE, Fields
<1>8. CASE SecondWrite
  BY <1>8, StepTable DEF SecondWrite, Both, FORWARD, REVERSE, Fields
<1>9. CASE DisablePan
  BY <1>9 DEF DisablePan
<1>10. CASE DisableRising
  BY <1>10, NoArgsTyped DEF DisableRising, Fields
<1> HIDE DEF WorkGoto, chipVars, Typed, TypeOK
<1>11. QED
  BY <1>1, <1>2, <1>3, <1>4, <1>5, <1>6, <1>7, <1>8, <1>9, <1>10 DEF Worker

LEMMA TypedNext == Typed /\ [Next]_vars => Typed'
<1> SUFFICES ASSUME Typed, [Next]_vars PROVE Typed'
  OBVIOUS
<1>1. ASSUME NEW p \in Procs, Call(p) \/ Handler(p) PROVE Typed'
  BY <1>1, TypedHandler
<1>2. CASE Worker
  BY <1>2, TypedWorker
<1>3. CASE Remove
  BY <1>3 DEF Remove, Typed, TypeOK, chipVars, workVars
<1>4. CASE Free
  BY <1>4 DEF Free, Typed, TypeOK, chipVars, workVars
<1>5. CASE UseAfterFree
  BY <1>5 DEF UseAfterFree, Typed, TypeOK, chipVars
<1>6. CASE Probe
  BY <1>6 DEF Probe, Typed, TypeOK, ZeroedMot, Fields
<1>7. CASE UNCHANGED vars
  BY <1>7 DEF vars, Typed, TypeOK, chipVars, workVars
<1>8. QED
  BY <1>1, <1>2, <1>3, <1>4, <1>5, <1>6, <1>7 DEF Next

\* Every variable keeps its type, for any callers and any requests.
THEOREM TypeCorrect == Spec => []TypeOK
<1>1. Typed => TypeOK
  BY DEF Typed
<1>2. QED
  BY <1>1, TypedInit, TypedNext, PTL DEF Spec

-----------------------------------------------------------------------------
(* The worker.  MotorPower, PhaseTracksStep, BrakeOnlyInsideForwardStep    *)
(* and RunTakesCycleSteps speak of the ends of a run or of a step; RunInv  *)
(* says what holds at every point between them.                            *)

Loads ==
  /\ wpc = "enable" => wneed \subseteq {"en", "motor"}
  /\ wpc = "speed" => wneed \subseteq {"sp"}
  /\ wpc = "load" => wneed \subseteq {"dir", "cycle"}
  /\ wpc \in {"idle", "init", "step", "write", "disable"} => wneed = {}
  /\ wpc = "undefined" => dev = "freed"

Power ==
  /\ wpc \in {"idle", "init", "enable"} => awake = {}
  /\ wpc \in {"speed", "load", "step", "write"} =>
       awake \subseteq {PAN} \/ awake \subseteq {RISING}
  /\ wpc = "disable" => awake \subseteq {RISING}
  /\ awake # {PAN, RISING}

HalfDriven ==
  LET on == FullStep(args["dir"], stepState)
      now == Driven(args["dir"], stepState, done)
  IN  IF args["dir"] = FORWARD THEN now \cup {on} ELSE now \ {Opposite(on)}

Phase ==
  /\ wpc \in {"enable", "speed", "load"} => high = {}
  /\ wpc \in {"step", "disable"} => high = Driven(args["dir"], stepState, done)
  /\ wpc = "write" => high = HalfDriven
  /\ wpc \in {"idle", "init"} => NoBrake(high)
  /\ wpc = "undefined" => NoBrake(high) \/ args["dir"] = FORWARD

Count ==
  /\ wpc \in {"step", "write", "disable"} => done <= args["cycle"]
  /\ wpc = "write" => done < args["cycle"]
  /\ wpc = "disable" => done = args["cycle"]

RunInv == Loads /\ Power /\ Phase /\ Count

LEMMA RunInit == Init => RunInv
BY DEF Init, RunInv, Loads, Power, Phase, Count, NoBrake, PAN, RISING

LEMMA DirTyped == Typed => args["dir"] \in Both /\ stepState \in 0..3 /\ done \in Nat
BY DEF Typed, TypeOK, Both, FORWARD, REVERSE

\* The pins brake nothing except between the two writes of a forward step.
LEMMA RunBrake ==
  ASSUME Typed, RunInv
  PROVE  NoBrake(high) \/ (wpc \in {"write", "undefined"} /\ args["dir"] = FORWARD)
<1>1. NoBrake(Driven(args["dir"], stepState, done))
  BY DirTyped, DrivenDoesNotBrake
<1>2. CASE wpc = "write"
  BY <1>1, <1>2 DEF RunInv, Phase, HalfDriven, NoBrake
<1>3. CASE wpc \in {"enable", "speed", "load"}
  BY <1>3 DEF RunInv, Phase, NoBrake
<1>4. QED
  BY <1>1, <1>2, <1>3 DEF RunInv, Phase, Typed, TypeOK

LEMMA RunWorker ==
  ASSUME Typed, RunInv, Worker
  PROVE  RunInv'
<1> USE DEF WorkGoto
<1>1. CASE WorkStart
  BY <1>1 DEF WorkStart, RunInv, Loads, Power, Phase, Count, NoBrake
<1>2. CASE GpioInit
  BY <1>2 DEF GpioInit, RunInv, Loads, Power, Phase, Count, PAN, RISING
<1>3. ASSUME NEW f \in Fields, Fetch(f) PROVE RunInv'
  <2>1. /\ f \in wneed /\ wneed' = wneed \ {f} /\ args' = [args EXCEPT ![f] = mot[f]]
        /\ UNCHANGED <<wpc, done, stepState, high, awake>>
    BY <1>3 DEF Fetch
  <2>2. args \in [Fields -> Nat]
    BY DEF Typed, TypeOK
  <2>3. CASE wpc \in {"enable", "speed", "load"}
    BY <2>1, <2>2, <2>3 DEF RunInv, Loads, Power, Phase, Count, Fields
  <2>4. CASE wpc = "undefined"
    BY <1>3, <2>4 DEF Fetch, Alive, RunInv, Loads, Power, Phase, Count
  <2>5. QED
    BY <2>1, <2>3, <2>4 DEF RunInv, Loads, Typed, TypeOK
<1>4. CASE SetEnable
  <2>1. args["motor"] \in {PAN, RISING}
    BY DEF Typed, PAN, RISING
  <2>2. Power'
    BY <1>4, <2>1 DEF SetEnable, RunInv, Power, PAN, RISING
  <2>3. QED
    BY <1>4, <2>2 DEF SetEnable, RunInv, Loads, Phase, Count
<1>5. CASE SetMotorSpeed
  BY <1>5 DEF SetMotorSpeed, RunInv, Loads, Power, Phase, Count
<1>6. CASE StepFunction
  <2>1. Driven(args["dir"], stepState, 0) = {}
    BY DEF Driven
  <2>2. args["cycle"] \in Nat
    BY DEF Typed, TypeOK, Fields
  <2>3. QED
    BY <1>6, <2>1, <2>2 DEF StepFunction, RunInv, Loads, Power, Phase, Count
<1>7. CASE FirstWrite
  <2>1. Phase'
    BY <1>7 DEF FirstWrite, RunInv, Phase, HalfDriven
  <2>2. QED
    BY <1>7, <2>1 DEF FirstWrite, RunInv, Loads, Power, Count
<1>8. CASE SecondWrite
  <2> DEFINE on == FullStep(args["dir"], stepState)
             now == Driven(args["dir"], stepState, done)
             next == Driven(args["dir"], NextState(stepState), done + 1)
  <2>1. (now \cup {on}) \ {Opposite(on)} = next /\ (now \ {Opposite(on)}) \cup {on} = next
    BY DirTyped, StepShiftsDriven
  <2>2. high = IF args["dir"] = FORWARD THEN now \cup {on} ELSE now \ {Opposite(on)}
    BY <1>8 DEF SecondWrite, RunInv, Phase, HalfDriven
  <2>3. high' = IF args["dir"] = FORWARD THEN high \ {Opposite(on)} ELSE high \cup {on}
    BY <1>8 DEF SecondWrite
  <2>4. high' = Driven(args["dir"], stepState, done)'
    <3>1. high' = next
      <4> HIDE DEF on, now, next
      <4>1. QED
        BY <2>1, <2>2, <2>3
    <3>2. QED
      BY <1>8, <3>1 DEF SecondWrite
  <2>5. Phase'
    BY <1>8, <2>4 DEF SecondWrite, Phase
  <2>6. Count'
    <3>1. done \in Nat /\ args["cycle"] \in Nat
      BY DEF Typed, TypeOK, Fields
    <3>2. QED
      BY <1>8, <3>1 DEF SecondWrite, RunInv, Count
  <2>7. QED
    BY <1>8, <2>5, <2>6 DEF SecondWrite, RunInv, Loads, Power
<1>9. CASE DisablePan
  <2>1. Power'
    BY <1>9 DEF DisablePan, RunInv, Power, Typed, TypeOK, PAN, RISING
  <2>2. Count'
    <3>1. done \in Nat /\ args["cycle"] \in Nat
      BY DEF Typed, TypeOK, Fields
    <3>2. QED
      BY <1>9, <3>1 DEF DisablePan, RunInv, Count
  <2>3. QED
    BY <1>9, <2>1, <2>2 DEF DisablePan, RunInv, Loads, Phase
<1>10. CASE DisableRising
  <2>1. NoBrake(high)
    BY <1>10, RunBrake DEF DisableRising
  <2>2. QED
    BY <1>10, <2>1 DEF DisableRising, RunInv, Loads, Power, Phase, Count, NoBrake, PAN, RISING
<1> HIDE DEF WorkGoto
<1>11. QED
  BY <1>1, <1>2, <1>3, <1>4, <1>5, <1>6, <1>7, <1>8, <1>9, <1>10 DEF Worker

LEMMA RunNext == Typed /\ RunInv /\ [Next]_vars => RunInv'
<1> SUFFICES ASSUME Typed, RunInv, [Next]_vars PROVE RunInv'
  OBVIOUS
<1>1. CASE UNCHANGED <<workVars, dev>>
  BY <1>1 DEF workVars, RunInv, Loads, Power, Phase, HalfDriven, Count, NoBrake
<1>2. ASSUME NEW p \in Procs, Call(p) \/ Handler(p) PROVE RunInv'
  <2>1. UNCHANGED <<workVars, dev>>
    BY <1>2 DEF Call, Handler, Acquire, ParseError, Store, StoreSpeed, StoreDelay,
                StepWork, Info, Unlock
  <2>2. QED
    BY <1>1, <2>1
<1>3. CASE Worker
  BY <1>3, RunWorker
<1>4. CASE Remove \/ Free
  BY <1>4 DEF Remove, Free, workVars, RunInv, Loads, Power, Phase, HalfDriven, Count, NoBrake
<1>5. CASE UseAfterFree
  <2>1. NoBrake(high) \/ args["dir"] = FORWARD
    BY RunBrake
  <2>2. QED
    BY <1>5, <2>1 DEF UseAfterFree, RunInv, Loads, Power, Phase, Count, NoBrake
<1>6. CASE Probe
  BY <1>6 DEF Probe, RunInv, Loads, Power, Phase, Count, NoBrake, PAN, RISING
<1>7. CASE UNCHANGED vars
  BY <1>1, <1>7 DEF vars
<1>8. QED
  BY <1>2, <1>3, <1>4, <1>5, <1>6, <1>7 DEF Next

LEMMA RunAlways == Spec => [](Typed /\ RunInv)
BY TypedInit, TypedNext, RunInit, RunNext, PTL DEF Spec

\* At most one motor is ever awake, and none between two runs.
THEOREM MotorPowerAlways == Spec => []MotorPower
<1>1. Typed /\ RunInv => MotorPower
  BY DEF RunInv, Power, MotorPower
<1>2. QED
  BY <1>1, RunAlways, PTL

\* The energised coils always match the step state and the run's direction.
THEOREM PhaseAlways == Spec => []PhaseTracksStep
<1>1. Typed /\ RunInv => PhaseTracksStep
  BY DEF RunInv, Phase, PhaseTracksStep
<1>2. QED
  BY <1>1, RunAlways, PTL

\* A coil is braked only inside a forward step.
THEOREM BrakeAlways == Spec => []BrakeOnlyInsideForwardStep
<1>1. Typed /\ RunInv => BrakeOnlyInsideForwardStep
  BY RunBrake DEF BrakeOnlyInsideForwardStep, NoBrake
<1>2. QED
  BY <1>1, RunAlways, PTL

\* A run takes the number of steps it loaded, below 1000.
THEOREM RunLengthAlways == Spec => []RunTakesCycleSteps
<1>1. Typed /\ RunInv => RunTakesCycleSteps
  BY DEF RunInv, Count, RunTakesCycleSteps, Typed
<1>2. QED
  BY <1>1, RunAlways, PTL

-----------------------------------------------------------------------------
(* The mutex, and the consistency it gives to what info shows.             *)

Matched(m) == m["delay"] = SpeedDelay(m["sp"]) \/ (m["delay"] = 0 /\ m["sp"] = 0)

LockInv ==
  /\ LockDiscipline
  /\ dev = "freed" => \A p \in Procs : pc[p] = "idle"
  /\ (\A p \in Procs : pc[p] \notin {"speed", "delay"}) => Matched(mot)
  /\ \A p \in Procs : Matched(shown[p])

LEMMA LockInit == Init => LockInv
BY RequestsAssumption DEF Init, LockInv, LockDiscipline, InBody, Matched, ZeroedMot, Fields

\* A process in a body owns the mutex, so no other process is in one.
LEMMA OneBody ==
  ASSUME Typed, LockInv, NEW p \in Procs, InBody(p)
  PROVE  \A q \in Procs \ {p} : ~InBody(q)
BY DEF LockInv, LockDiscipline

LEMMA LockCall ==
  ASSUME NEW p \in Procs, Typed, LockInv, Call(p) \/ Handler(p)
  PROVE  LockInv'
<1> USE DEF Goto, LockDiscipline, InBody, Typed, TypeOK
<1>1. CASE Call(p)
  BY <1>1 DEF Call, LockInv, Matched
<1>2. CASE Acquire(p)
  BY <1>2, RequestsAssumption DEF Acquire, LockInv, Matched
<1>3. CASE ParseError(p)
  BY <1>3 DEF ParseError, LockInv, Matched
<1>4. CASE Store(p)
  <2>1. dev # "freed" /\ \A q \in Procs \ {p} : pc[q] \notin {"speed", "delay"}
    BY <1>4, OneBody DEF Store, LockInv
  <2>2. CASE req[p][1] = "sp"
    BY <1>4, <2>1, <2>2 DEF Store, LockInv, Matched
  <2>3. CASE req[p][1] # "sp"
    <3>1. mot'["sp"] = mot["sp"] /\ mot'["delay"] = mot["delay"]
      BY <1>4, <2>3 DEF Store, Fields
    <3>2. Matched(mot)' 
      BY <1>4, <2>1, <3>1 DEF Store, LockInv, Matched
    <3>3. QED
      BY <1>4, <2>1, <2>3, <3>2 DEF Store, LockInv, Matched
  <2>4. QED
    BY <2>2, <2>3
<1>5. CASE StoreSpeed(p)
  BY <1>5, OneBody DEF StoreSpeed, LockInv, Matched
<1>6. CASE StoreDelay(p)
  <2>1. mot'["delay"] = SpeedDelay(mot'["sp"])
    BY <1>6 DEF StoreDelay, Fields
  <2>2. QED
    BY <1>6, <2>1, OneBody DEF StoreDelay, LockInv, Matched
<1>7. CASE StepWork(p)
  BY <1>7, OneBody DEF StepWork, LockInv, Matched
<1>8. CASE Info(p)
  BY <1>8, OneBody DEF Info, LockInv, Matched
<1>9. CASE Unlock(p)
  BY <1>9, OneBody, RequestsAssumption DEF Unlock, LockInv, Matched
<1> HIDE DEF Goto, LockDiscipline, InBody, Typed, TypeOK
<1>10. QED
  BY <1>1, <1>2, <1>3, <1>4, <1>5, <1>6, <1>7, <1>8, <1>9 DEF Handler

LEMMA LockNext == Typed /\ LockInv /\ [Next]_vars => LockInv'
<1> SUFFICES ASSUME Typed, LockInv, [Next]_vars PROVE LockInv'
  OBVIOUS
<1>1. ASSUME NEW p \in Procs, Call(p) \/ Handler(p) PROVE LockInv'
  BY <1>1, LockCall
<1>2. CASE UNCHANGED <<chipVars, dev>>
  BY <1>2 DEF chipVars, LockInv, LockDiscipline, InBody, Matched
<1>3. CASE Worker
  <2>1. UNCHANGED <<chipVars, dev>>
    BY <1>3 DEF Worker, WorkStart, GpioInit, Fetch, SetEnable, SetMotorSpeed, StepFunction,
                FirstWrite, SecondWrite, DisablePan, DisableRising
  <2>2. QED
    BY <1>2, <2>1
<1>4. CASE Remove
  BY <1>4 DEF Remove, chipVars, LockInv, LockDiscipline, InBody, Matched
<1>5. CASE Free
  BY <1>5 DEF Free, chipVars, LockInv, LockDiscipline, InBody, Matched
<1>6. CASE UseAfterFree
  BY <1>2, <1>6 DEF UseAfterFree
<1>7. CASE Probe
  <2>1. mot'["delay"] = 0 /\ mot'["sp"] = 0
    BY <1>7 DEF Probe, ZeroedMot, Fields
  <2>2. QED
    BY <1>7, <2>1, RequestsAssumption DEF Probe, LockInv, LockDiscipline, InBody, Matched
<1>8. CASE UNCHANGED vars
  BY <1>2, <1>8 DEF vars
<1>9. QED
  BY <1>1, <1>3, <1>4, <1>5, <1>6, <1>7, <1>8 DEF Next

LEMMA LockAlways == Spec => []LockInv
BY TypedInit, TypedNext, LockInit, LockNext, PTL DEF Spec

\* Show and store bodies exclude each other; only a malformed store loses the
\* mutex.
THEOREM LockDisciplineAlways == Spec => []LockDiscipline
<1>1. LockInv => LockDiscipline
  BY DEF LockInv
<1>2. QED
  BY <1>1, LockAlways, PTL

\* No reader sees a speed with the delay of another speed.
THEOREM InfoSnapshotAlways == Spec => []InfoSnapshot
<1>1. LockInv => InfoSnapshot
  BY DEF LockInv, Matched, InfoSnapshot
<1>2. QED
  BY <1>1, LockAlways, PTL
=============================================================================
