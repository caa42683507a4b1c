-------------------------------- MODULE Accel --------------------------------
(* The accelerometer driver: who asks for which output data rate, the       *)
(* interrupt enables of the events, the polling of the temperature, and     *)
(* suspend and resume.  Any register access may fail.  One process at a     *)
(* time calls the driver; the timer and the work item run beside it.        *)
EXTENDS Integers, FiniteSets

CONSTANTS
  Rates, \* Rates[s]: the rates that are written to sensor s
  Events \* the events in use

Sensors == {"ACC", "TEMP"}

\* The rates st_lis2dw12_odr_table lists, those of set_std_level only for the
\* accelerometer: zero is a rate of the temperature.
OdrTable == [s \in Sensors |->
  IF s = "ACC" THEN {12, 25, 50, 100, 200, 400, 800, 1600} ELSE {0, 12, 25, 50}]

ASSUME AccelAssumption ==
  /\ \A s \in Sensors : Rates[s] \subseteq OdrTable[s]
  /\ Events \subseteq {"FF", "WAKEUP", "6D"}

EventOdr == 25
WakeUpOdr == 25
SelfTestOdr == 50

VARIABLES
  buffer,    \* the IIO devices whose buffer is enabled
  enabled,   \* hw->enable_mask
  odr,       \* sensor->odr
  reqOdr,    \* hw->req_odr_events
  events,    \* hw->enable_ev_mask
  rate,      \* the ODR field of CTRL1
  ints,      \* the event bits of CTRL4_INT1
  cached,    \* ... as the register cache holds them
  fifo,      \* FIFO_CTRL says continuous
  timer,     \* hr_timer is armed
  pending,   \* iio_work is queued
  working,   \* where iio_work is: "no", "begin", "read"
  cancelling,\* cancel_work_sync keeps iio_work off the queue
  pc,        \* what the call in progress does next
  target,    \* the sensor it does it for, or "suspend"
  pm,        \* "on", "suspended", "removed", "undefined"
  writer,    \* history: what wrote CTRL1 last
  failed,    \* history: the events whose last configuration failed half-way
  pmFailed,  \* history: the last suspend or resume failed half-way
  halted     \* history: a suspend stopped polling

device == <<rate, ints, cached, fifo>>
demand == <<buffer, enabled, odr, reqOdr, events>>
poll == <<timer, pending, working, cancelling>>
history == <<writer, failed, pmFailed, halted>>
vars == <<device, demand, poll, history, pc, target, pm>>

Init ==
  /\ buffer = {} /\ enabled = {} /\ odr = [s \in Sensors |-> 12]
  /\ reqOdr = 0 /\ events = {}
  /\ rate = 0 /\ ints = {} /\ cached = {} /\ fifo = FALSE
  /\ timer = FALSE /\ pending = FALSE /\ working = "no" /\ cancelling = FALSE
  /\ pc = "idle" /\ target = "none" /\ pm = "on"
  /\ writer = "zero" /\ failed = {} /\ pmFailed = FALSE /\ halted = FALSE
-----------------------------------------------------------------------------
Larger(a, b) == IF a > b THEN a ELSE b
\* Slip: only a rate above the device's own limit is lowered.
ClampHigh(r) == IF r > 1600 THEN 100 ELSE r

\* The device is not the AIS2DW12: it is never run above 100 Hz.
Clamp(r) == IF r > 100 THEN 100 ELSE r

\* Slip: the rate the events ask for is only looked at when a sensor is enabled.
OdrNoEvents(s, r, req) ==
  LET other == enabled \ {s} IN
  IF r = 0 THEN 0 ELSE Larger(req, Clamp(IF other = {} THEN r ELSE Larger(r, odr[CHOOSE t \in other : TRUE])))

\* Slip: the rate of the other sensor is not looked at.
SetOdrAlone(s, r, req) == IF r = 0 THEN req ELSE Larger(req, Clamp(r))

\* The rate set_odr(s, r) writes: that of the sensor, or of the other one if that is
\* enabled and faster, up to 100 Hz, but not less than the events need; and for
\* zero, what the events need, whatever the other sensor needs.
SetOdr(s, r, req) ==
  LET other == enabled \ {s} IN
  IF r = 0 THEN req ELSE Larger(req, Clamp(IF other = {} THEN r ELSE Larger(r, odr[CHOOSE t \in other : TRUE])))

\* CTRL1 is written, past the cache.
WriteOdr(r, who) == rate' = r /\ writer' = who

\* set_odr for a sensor: its rate, or zero when it is disabled.
SetSensorOdr(s, r) == WriteOdr(SetOdr(s, r, reqOdr), IF r = 0 THEN "zero" ELSE "sensor")

\* No call is in progress and the device is awake.
Idle == pc = "idle" /\ pm = "on"

\* iio_device_claim_direct_mode: refused while the buffer of s is on.
Direct(s) == Idle /\ s \notin buffer

Done == pc' = "idle" /\ target' = "none"

\* sampling_frequency; a rate that is not in the table changes nothing.
SetFrequency(s, r) ==
  /\ Direct(s)
  /\ odr' = [odr EXCEPT ![s] = r]
  /\ UNCHANGED <<device, buffer, enabled, reqOdr, events, poll, history, pc, target, pm>>

\* Slip: a timer that was started once is taken to be armed.
StartOnce(s) ==
  /\ SetSensorOdr(s, odr[s])
  /\ enabled' = enabled \cup {s}
  /\ timer' = (timer \/ (s = "TEMP" /\ s \notin enabled))
  /\ halted' = (halted /\ s # "TEMP")
  /\ pm' = IF s = "TEMP" /\ odr[s] = 0 THEN "undefined" ELSE pm

\* set_enable(s, TRUE), every access succeeding.  The period of the poll is a
\* division by the rate.
Start(s) ==
  /\ SetSensorOdr(s, odr[s])
  /\ enabled' = enabled \cup {s}
  /\ timer' = (timer \/ s = "TEMP")
  /\ halted' = (halted /\ s # "TEMP")
  /\ pm' = IF s = "TEMP" /\ odr[s] = 0 THEN "undefined" ELSE pm

\* set_enable(s, FALSE), as far as the work item of the temperature.
Stop(s) ==
  /\ SetSensorOdr(s, 0)
  /\ IF s = "TEMP"
     THEN pc' = "cancel" /\ target' = s /\ UNCHANGED enabled
     ELSE Done /\ enabled' = enabled \ {s}

\* The buffer of s is switched on; FIFO_CTRL is written before CTRL1.
Enable(s) ==
  /\ Idle /\ s \notin buffer
  /\ fifo' = (fifo \/ s = "ACC")
  /\ \/ Start(s) /\ buffer' = buffer \cup {s}
     \/ UNCHANGED <<rate, writer, enabled, timer, halted, pm, buffer>>
  /\ UNCHANGED <<ints, cached, odr, reqOdr, events, pending, working, cancelling, failed, pmFailed, pc, target>>

\* The buffer of s is switched off, whatever the driver answers.
Disable(s) ==
  /\ Idle /\ s \in buffer
  /\ buffer' = buffer \ {s}
  /\ \/ s = "ACC" /\ UNCHANGED <<fifo, rate, writer, enabled, pc, target>>
     \/ /\ fifo' = (fifo /\ s # "ACC")
        /\ Stop(s) \/ UNCHANGED <<rate, writer, enabled, pc, target>>
  /\ UNCHANGED <<ints, cached, odr, reqOdr, events, poll, failed, pmFailed, halted, pm>>

\* A one-shot read enables the sensor and sleeps.
ReadStart(s) ==
  /\ Direct(s)
  /\ Start(s)
  /\ pc' = "read" /\ target' = s
  /\ UNCHANGED <<ints, cached, fifo, buffer, odr, reqOdr, events, pending, working, cancelling, failed, pmFailed>>

\* It reads, and only if that succeeds disables the sensor.
ReadEnd ==
  /\ pc = "read" /\ pm = "on"
  /\ \/ Stop(target)
     \/ Done /\ UNCHANGED <<rate, writer, enabled>>
  /\ UNCHANGED <<ints, cached, fifo, buffer, odr, reqOdr, events, poll, failed, pmFailed, halted, pm>>

\* The self test runs at 50 Hz; what fails on the way leaves it so.
SelfTest ==
  /\ Direct("ACC")
  /\ \/ WriteOdr(SetOdr("ACC", SelfTestOdr, reqOdr), "selftest") /\ UNCHANGED <<enabled, pc, target>>
     \/ Stop("ACC")
  /\ UNCHANGED <<ints, cached, fifo, buffer, odr, reqOdr, events, poll, failed, pmFailed, halted, pm>>
-----------------------------------------------------------------------------
\* Slip: the event that is being switched off still counts.
EventsOdrCountsAll(e, on) == IF on \/ events # {} THEN EventOdr ELSE 0

\* check_events_odr_dependency, where all events ask for the same rate.
EventsOdr(e, on) == IF on \/ events \ {e} # {} THEN EventOdr ELSE 0

\* An event is switched on or off: the interrupt, the rate, the mask.
ConfigEvent(e, on) ==
  /\ Idle
  /\ cached' = (IF on THEN cached \cup {e} ELSE cached \ {e}) /\ ints' = cached'
  /\ reqOdr' = EventsOdr(e, on)
  /\ \/ /\ WriteOdr(SetOdr("ACC", reqOdr', reqOdr'), IF reqOdr' = 0 THEN "zero" ELSE "event")
        /\ events' = IF on THEN events \cup {e} ELSE events \ {e}
        /\ failed' = failed \ {e}
     \/ failed' = failed \cup {e} /\ UNCHANGED <<rate, writer, events>>
  /\ UNCHANGED <<fifo, buffer, enabled, odr, poll, pmFailed, halted, pc, target, pm>>
-----------------------------------------------------------------------------
\* The timer queues the work item, unless that is being cancelled.
TimerFires ==
  /\ timer /\ pm \in {"on", "removed"}
  /\ timer' = FALSE
  /\ pending' = (pending \/ (pm = "on" /\ ~cancelling))
  /\ pm' = IF pm = "removed" THEN "undefined" ELSE pm
  /\ UNCHANGED <<device, demand, working, cancelling, history, pc, target>>

WorkBegins ==
  /\ pending /\ working = "no" /\ pm = "on"
  /\ pending' = FALSE /\ working' = "begin"
  /\ UNCHANGED <<device, demand, timer, cancelling, history, pc, target, pm>>

\* Slip: the work item reads first and gives up when that fails.
WorkArmsAfterRead ==
  /\ working = "begin" /\ pm = "on"
  /\ timer' \in {timer, TRUE} /\ working' = "read"
  /\ UNCHANGED <<device, demand, pending, cancelling, history, pc, target, pm>>

\* The work item arms the timer before it reads.
WorkArms ==
  /\ working = "begin" /\ pm = "on"
  /\ timer' = TRUE /\ working' = "read"
  /\ UNCHANGED <<device, demand, pending, cancelling, history, pc, target, pm>>

\* It reads and pushes, or fails to read.
WorkReads ==
  /\ working = "read" /\ pm = "on"
  /\ working' = "no"
  /\ UNCHANGED <<device, demand, timer, pending, cancelling, history, pc, target, pm>>

\* cancel_work_sync: off the queue, then until the running instance returns.
CancelWork ==
  /\ pc = "cancel"
  /\ pending' = FALSE /\ cancelling' = TRUE /\ pc' = "wait"
  /\ UNCHANGED <<device, demand, timer, working, history, target, pm>>

WaitWork ==
  /\ pc = "wait" /\ working = "no"
  /\ cancelling' = FALSE /\ pc' = "untimer"
  /\ UNCHANGED <<device, demand, timer, pending, working, history, target, pm>>

\* hrtimer_cancel, and what follows in set_enable or suspend.
CancelTimer ==
  /\ pc = "untimer"
  /\ timer' = FALSE
  /\ \/ target = "TEMP" /\ enabled' = enabled \ {"TEMP"} /\ Done /\ UNCHANGED halted
     \/ target = "suspend" /\ pc' = "suspend" /\ halted' = TRUE /\ UNCHANGED <<target, enabled>>
  /\ UNCHANGED <<device, buffer, odr, reqOdr, events, pending, working, cancelling, writer, failed, pmFailed, pm>>
-----------------------------------------------------------------------------
\* Suspend comes when no process is in a call.
SuspendStart ==
  /\ Idle
  /\ pc' = "cancel" /\ target' = "suspend"
  /\ UNCHANGED <<device, demand, poll, history, pm>>

\* What configure_wake_up may leave behind, as each access may be the one that fails.
WakeUps ==
  LET off == ints \ {"WAKEUP"} IN
  {[rate |-> rate, writer |-> writer, ints |-> i, ok |-> FALSE] : i \in {ints, off}} \cup
  {[rate |-> WakeUpOdr, writer |-> "wakeup", ints |-> off, ok |-> FALSE],
   [rate |-> WakeUpOdr, writer |-> "wakeup", ints |-> ints \cup {"WAKEUP"}, ok |-> TRUE]}

\* The fifo, then a sensor at a time; the first error ends it.
SuspendDevice ==
  /\ pc = "suspend"
  /\ \E fifoOk, tempOk \in BOOLEAN, w \in WakeUps :
       LET acc == "ACC" \in enabled
           fine == acc => fifoOk /\ w.ok
           temp == fine /\ "TEMP" \in enabled
           ok == fine /\ (temp => tempOk)
       IN  /\ fifo' = (fifo /\ ~(acc /\ fifoOk))
           /\ ints' = IF acc /\ fifoOk THEN w.ints ELSE ints
           /\ IF temp /\ tempOk THEN SetSensorOdr("TEMP", 0)
              ELSE IF acc /\ fifoOk THEN WriteOdr(w.rate, w.writer)
              ELSE UNCHANGED <<rate, writer>>
           /\ pm' = IF ok THEN "suspended" ELSE "on"
           /\ pmFailed' = ~ok
  /\ Done
  /\ UNCHANGED <<cached, demand, poll, failed, halted>>

\* regcache_sync writes CTRL1 as it was read once, at probe, then CTRL4; its
\* result is not looked at.
Syncs ==
  {[rate |-> rate, writer |-> writer, ints |-> ints, ok |-> FALSE],
   [rate |-> 0, writer |-> "sync", ints |-> ints, ok |-> FALSE],
   [rate |-> 0, writer |-> "sync", ints |-> cached, ok |-> TRUE]}

\* The sensors that are enabled get their rates back, the temperature last, then the
\* fifo.
Resume ==
  /\ pm = "suspended"
  /\ \E s \in Syncs, set \in SUBSET enabled, fifoOk \in BOOLEAN :
       LET all == set = enabled
           ok == all /\ ("ACC" \in enabled => fifoOk)
       IN  /\ set = {"TEMP"} => all
           /\ IF set = {} THEN WriteOdr(s.rate, s.writer)
              ELSE LET t == IF "TEMP" \in set THEN "TEMP" ELSE "ACC" IN SetSensorOdr(t, odr[t])
           /\ ints' = s.ints
           /\ fifo' = (fifo \/ (ok /\ "ACC" \in enabled))
           /\ pmFailed' = ~(s.ok /\ ok)
  /\ pm' = "on"
  /\ UNCHANGED <<cached, demand, poll, failed, halted, pc, target>>

\* remove flushes and destroys the workqueue, with the timer as it is.
Remove ==
  /\ Idle /\ ~pending /\ working = "no"
  /\ pm' = "removed"
  /\ UNCHANGED <<device, demand, poll, history, pc, target>>
-----------------------------------------------------------------------------
\* The call in progress goes on; the work item does.
CallStep == ReadEnd \/ CancelWork \/ WaitWork \/ CancelTimer \/ SuspendDevice
WorkStep == WorkBegins \/ WorkArms \/ WorkReads

Next ==
  \/ \E s \in Sensors : Enable(s) \/ Disable(s) \/ ReadStart(s) \/ \E r \in Rates[s] : SetFrequency(s, r)
  \/ \E e \in Events, on \in BOOLEAN : ConfigEvent(e, on)
  \/ SelfTest \/ TimerFires \/ WorkStep \/ CallStep
  \/ SuspendStart \/ Resume \/ Remove

Spec == Init /\ [][Next]_vars

\* The kernel runs what is queued, timers expire, and a call goes on.
Fairness == WF_vars(TimerFires) /\ WF_vars(WorkStep) /\ WF_vars(CallStep)

FairSpec == Spec /\ Fairness
-----------------------------------------------------------------------------
TypeOK ==
  /\ buffer \subseteq Sensors /\ enabled \subseteq Sensors
  /\ odr \in [Sensors -> Nat] /\ reqOdr \in {0, EventOdr} /\ events \subseteq Events
  /\ rate \in 0..100 /\ ints \subseteq Events \cup {"WAKEUP"} /\ cached \subseteq Events /\ fifo \in BOOLEAN
  /\ timer \in BOOLEAN /\ pending \in BOOLEAN /\ cancelling \in BOOLEAN
  /\ working \in {"no", "begin", "read"}
  /\ pc \in {"idle", "read", "cancel", "wait", "untimer", "suspend"}
  /\ target \in Sensors \cup {"none", "suspend"}
  /\ pm \in {"on", "suspended", "removed", "undefined"}
  /\ writer \in {"zero", "sensor", "event", "selftest", "wakeup", "sync"}
  /\ failed \subseteq Events /\ pmFailed \in BOOLEAN /\ halted \in BOOLEAN

Quiet == Idle /\ ~pmFailed

\* An event that is configured is delivered: its interrupt is enabled and, unless a
\* resume put CTRL1 back to what it was at probe, the device samples often enough;
\* whatever sensors were enabled, disabled, read or tested since, and through suspend.
EventsServed ==
  Quiet =>
    /\ \A e \in Events \ failed : e \in events <=> e \in ints
    /\ failed = {} /\ events # {} /\ writer # "sync" => rate >= EventOdr

\* Nothing asks for samples: the device is powered down, even if calls failed on the
\* way; but for a self test that failed.
OffWhenUnused ==
  Quiet /\ failed = {} /\ writer # "selftest" /\ enabled = {} /\ events = {} => rate = 0

\* A buffer that is on has its sensor enabled, the accelerometer's its fifo in continuous
\* mode, and the device samples: at least at the rate of the sensor, up to 100 Hz, unless
\* CTRL1 was last written for an event, and not at all only if set_odr was last called
\* with zero.  That is what a sensor does that is disabled, or was read once, and the
\* last event that is: the stream of the other one stops then.
StreamFlows ==
  Quiet => \A s \in buffer :
    /\ s \in enabled /\ (s = "ACC" => fifo)
    /\ writer # "zero" => rate > 0
    /\ writer \notin {"zero", "event"} => rate >= Clamp(odr[s])

\* The temperature is polled as long as its buffer is on and no suspend stopped
\* it: the timer is armed, or on its way to be.
Polled == "TEMP" \in buffer /\ ~halted /\ Idle
PollingAlive == Polled => timer \/ pending \/ working = "begin"

\* ... and so it is read again and again, even if reads fail.
PollsAgain == Polled ~> (working = "read" \/ ~Polled)

\* st_lis2dw12_core.c:1313: "do not disable sensors if requested by wake-up"
WakeUpStaysOn == pm = "suspended" /\ "ACC" \in enabled => rate >= WakeUpOdr
=============================================================================
