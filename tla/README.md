# A verification project for the Iris camera firmware

The repository holds the ODM part of a camera's firmware: four Linux drivers and services with
their own logic (a stepper motor driver, a ring LED driver, an accelerometer driver, the diagnostic
daemon `pega_misc`), a family of one-shot command line tools, and vendor code used unchanged (the
NXP wifi driver, the ST NFC stack). This directory models the parts that keep state between calls
and are entered by more than one thread. Paths below are relative to the repository's sources;
`PROJECT.json` gives, for every definition, the file and lines it stands for.

## 1. Inventory

| Component | State it keeps | Operations | Interacts with | What is hard |
|---|---|---|---|---|
| Motor driver, `motor/src` | `struct motor_control`, `chip->lock`, one work item, the four PWM pins, two nSLEEP lines, `g_full_step_state`, `g_full_step_delay` | nine sysfs attributes, the work function, probe, remove | user processes through sysfs; the kernel workqueue | the worker reads every parameter without the lock; a store that fails to parse leaves with the lock; remove does not cancel the work |
| Event schedule, `pega_misc/src/pega_schedule.c` | `m_SchBuff`, `m_SchCnt`, `m_Mutexlock` | push (main, both listeners); one round of the schedule thread every 100 ms | runs the handlers of every event | counts are lowered without the mutex; an expired slot is chosen before the mutex is taken; scans go one slot past the last |
| Command paths, `pega_misc_diag.c`, `pega_debug.c` | `m_stDiagCmd`, `m_eDebugCmd`, `wCmdCnt` | receive a message, write the structure, push the event; the handler | message queues of the clients; the schedule | the structure is overwritten while the handler may read it; the counter is shared without a lock |
| Main loop and flags, `main.c`, `pega_wifi.c` | one-bit flags of `m_stMisc`, wifi interface numbers | poll ALS, poll wifi interfaces, setters called by debug and diag commands | LED states, schedule | main and the schedule thread write bits of one word, each by a load and a store |
| Status LED, `pega_led_flash.c` | current and previous state, pattern, flashing thread | set a state (by priority), set a pattern, clear | called by main and by the schedule thread | a thread is cancelled asynchronously and another started, without a lock |
| Day/night mode, `pega_nv_mode.c` | mode, two trigger counters, manual flags | process one sample; manual, forced and diagnostic overrides | main loop and the schedule thread | hysteresis counters; overrides racing the loop |
| Ring LED driver, `leds-ktd2061.c` | `br_ops`, `chase_ops` (level, repeat counters, enable), two work items, `pdata`, chip registers | fifteen sysfs stores, two work functions, probe, remove | user processes; workqueue | stores that start one animation without stopping the other; counters not reset; remove does not cancel |
| Accelerometer driver, `accelerator/src` | output rate, enabled mask of dependent sensors, event thresholds, a timer and a work item for the temperature | set rate, enable/disable, one-shot reads, event configuration | IIO core, interrupt thread, timers | a chain of register writes any of which may fail; cancelling work before the timer that queues it |
| Interrupt and key threads | last level seen | poll and report edges | files | mostly I/O |
| Clients and one-shot tools | none | parse, act, print | message queues, devices | no state between calls |
| Vendor code, scripts | — | — | — | used unchanged |

What makes each of them correct, and which property says so, is the list of hazards in
`PROJECT.json`; a hazard that no property covers carries a note that says why.

## 2. Modules

| Module | Stands for |
|---|---|
| `MotorDriver` | the motor driver: sysfs calls, worker, remove, probe |
| `MCMotor` | its instances |
| `MotorProofs` | its theorems |
| `EventTimer` | what the daemon expects of a schedule, in two variables |
| `PegaSchedule` | the schedule as it is coded; refines `EventTimer` |
| `MCSchedule` | its instances |
| `PegaScheduleProofs` | its theorems, the refinement included |
| `PegaCommands` | both command paths, composed with `PegaSchedule` (it extends it, and every step of the schedule is a step of it) |
| `MCCommands` | its instances |
| `PegaCommandsProofs` | its theorems, over those of `PegaSchedule` |
| `RingLed` | the ring LED driver's animations: sysfs stores, both work items, remove, probe |
| `MCRing` | its instances |
| `RingProofs` | its theorems on threads: who paints, what stays in range |
| `RingCyclesProofs` | its theorem on the cycles of an animation, over those of `RingProofs` |
| `Hysteresis` | what the day/night mode promises, in two variables |
| `NvMode` | the day/night mode as main and the diag commands run it; refines `Hysteresis`. It has one small constant and is its own instance |
| `NvModeProofs` | its theorems, the refinement included |
| `StatusLed` | the status LED, the wifi checks of the main loop and the word of flags; its own instance |
| `StatusLedProofs` | its theorems |
| `Accel` | the accelerometer driver: rates, events, polling, suspend and resume |
| `MCAccel` | its instances |
| `AccelProofs` | its theorems |

### MotorDriver

A sysfs call is a process that waits for `chip->lock`, runs its body and unlocks. A body that
writes one field is one step, since only the mutex holder and the worker touch the field; `sp_store`
is three, because it writes the speed, the global step delay and the recorded delay, and the worker
may load between them. All show methods print parts of what `motor_info` prints under the same lock,
so that `Info` stands for all of them. `kstrtouint` failing is the request `Malformed`: the code
returns without `mutex_unlock`, and so does `ParseError`.

`motorctrl_work` loads a parameter at a time with no lock. The arguments of one call are loaded in
any order (C leaves it open), each by one `Fetch` step. A full step is two pin writes with the other
threads in between. The step delays are left out: they pace the worker and decide nothing.
`Remove` and `Free` follow `sysfs_remove_group` and devm: the calls in progress finish, the work does
not. A worker that then still runs has the step `UseAfterFree`, after which nothing is promised;
`Probe` models a new bind, which gets a zeroed chip and low pins, and the globals of the step code as
they were.

### PegaSchedule

One step per load or store that another thread may see. The mutex is held from `PushLock` to
`PushReturn`; the schedule thread works without it except from `TickLock` to `TickUnlock`.
`wTMCount--` is a load and a store; the test after it may read the field again or use the value in a
register, as the Makefile sets no optimisation level and the field is not volatile. The loops run to
`m_SchCnt` inclusive, as in the code, so that they meet one slot that is not in use.
The model starts when the schedule thread has initialised the mutex. The functions nobody calls
(`pop`, `Cancel`, `Check`, the time getters) are left out.

`EventTimer` has a set of armed events and the handler that runs. The refinement mapping reads them
off the buffer: armed are the events of the slots below `m_SchCnt`; a handler runs from the moment
the gap is closed. A push that finds its event is a stutter; one that adds it is `Arm` when the slot
is filled, not when it is counted.

### PegaCommands

The listeners receive a message, write an id and a value (which stands for every other field),
the diag listener counts it, and they push their event through the push of `PegaSchedule`. The
handler runs in the schedule thread while the event is `Running`: it reads the id, enters its branch
and then reads the value, and the diag handler lowers the count, by a load and a store of its own.
What a command does to the hardware is `done`, the id and value it acted on.

### RingLed

No store and no work item takes `chip->lock`, so any two threads interleave at every register write
and every assignment. The fourteen stores that do something differ in which calls they make in which order, and in
nothing else; the module therefore gives a store as a sequence of instructions (`Breathing`, `White`,
`Flower`, ... read line by line against the functions of `leds-ktd2061.c`), and a thread carries the
instructions it has left. A work item puts more in front of its rest where the code branches:
`Switch`, `Test` and `EnabledTest` are the switch and the two halves of the final `if` of the work
functions. All register writes and sleeps between two other statements are one `Paint`.

`cancel_work_sync` is two instructions: `Cancel` takes the work item off the queue and keeps
`schedule_work` from putting it back, `Wait` ends when the instance that runs has returned. `Remove`,
`Free`, `UseAfterFree` and `Probe` are as in `MotorDriver`. `served` and `cycles` are history: the
request a work item works for and how often it has run since.

Left out: what is painted, with it `pdata` and the bits of `REG_CONTROL` that `brightextend`,
`fade_rate` and `ce_temp` set (these stores cancel both work items and then write one register); the
show methods, and `debug_store`, which does nothing. A `kstrtouint`
that fails returns before anything is done and has no step; what a `ce_temp_store`
does that fails to parse, two cancellations, is also what `breathing` 0 does.

### NvMode

Once a second main reads the light sensor, compares the sample with the night threshold and then,
loading it again, with the day threshold, and counts. The light is abstracted to what the two
comparisons tell apart: dark, between the thresholds, bright, and the -1 of a read that failed, which
is below every threshold; main does not use a failed sample, the diag command `als value` stores it.
The command runs in the schedule thread and writes the variable main is comparing, so that one sample
of main may be compared as two different ones.

When the mode changes, main writes the two coils of the IR filter and the IR LED, with 200 ms
between driving a coil and releasing both. The writes a thread has still to make are the sequence
`io[t]`; the diag commands `icr` and `irled` write the same pins from the schedule thread, between
any two writes of main. `Init` has both coils on, since `Pega_Gpio_init` leaves their outputs low
(`pega_gpio.c:177`), which is what `IO_IR_CUT1_CTRL_ON` writes; the filter does not move by that, but nobody
releases them before the first switch. Two histories: `touched`, a command wrote since main began, and
`switched`, somebody switched the filter since the start.

`Hysteresis` promises that a mode is left once the other one was seen `Trigger` times since the mode
in force was last seen. The code has two counters with resets that look incomplete (a counter is
not reset by samples between the thresholds, and not by samples for the other mode that are
themselves below the trigger); the mapping shows that only the counter against the mode in force ever
matters, and that it is always right.

Left out: the manual mode, the calibration and the setters, which have no caller in the program.

### StatusLed

Main and the schedule thread both call `state_Set`. A call is a sequence of steps, one for each
access to what the threads share: the test for the same state, the comparison of priorities, the
assignment, the switch over the state (which loads it again, and may then see the state of the other
thread), and in `Pattern_Set` the test of `m_thread_id`, the cancellation, the clearing, the 200 ms,
the colours, the new thread. A flag of `m_stMisc` is a bit field: its assignment loads the word and
stores it (`LoadFlags`, `StoreFlags`), and what another thread stored in between is undone. Main
decides on the flags and the interfaces in the order of `wifi_ready_check` and
`wifi_interface_check`. The interfaces come and go as the wifi driver does it (`Link`, external).

The diag commands `led_r`, `led_g`, `led_b` and `led` (`pega_misc_diag.c:206-256`) run in the schedule
thread and write the same three pins, whatever the state is and between any two steps of main: `DiagLed`.
Nothing puts their colours back until the next `Pattern_Set` switches all off.

Four histories say where the code promises nothing: `crossed`, two calls of `state_Set` were in
progress at once; `touched`, the colours a diag command wrote since all were switched off; `lost`, a
store undid another; `fault`, a thread was cancelled that had ended, which is undefined, and after
which nothing moves.

Two assumptions about time: within the 200 ms of `Pattern_Set` a cancelled thread ends, and a call of the
other thread that is between the cancellation and the clearing gets past it (both are in the guard
of `Off`); and a failed load of the firmware is reported after main told the LED that the system
starts, since the event takes a message and a tick of the schedule.

Left out: the interface numbers, which are only printed; the previous state, which nothing reads; the
patterns no state uses.

### Accel

Two sensors, the accelerometer and the temperature, share one device and one output data rate. The
module has `set_odr` as an operator (`SetOdr`), and who calls it: the buffers, the one-shot reads,
the self test, the events, suspend and resume. Any register access may fail, and each action has what
the calls before the failing one leave behind: a one-shot read that fails leaves the sensor enabled,
an event that could not be configured keeps its interrupt bit, a suspend ends in the middle.
The register cache is modelled where it differs from the device: suspend and resume write past it
and `regcache_sync` puts back CTRL1 as it was read at probe.

The temperature is polled: a timer queues a work item that arms the timer and reads. Timer, queue,
work item and `cancel_work_sync` run beside the call in progress (`pc`, `target`), of which there
is one at a time: IIO and the PM core serialise most of them, and the rest is left out.
`set_odr` looks at the rate of the other sensor when it is called with a rate, and not when it is called
with zero: a sensor that is disabled, or was read once, and the last event that is switched off stop the
stream of the other sensor, and an event may replace its rate by 25 Hz. This is what the code does and
the model has it; nothing in the repository says that a stream survives it, so that it is no finding.
Histories say what wrote CTRL1 last (`writer`: a call with zero, a sensor, an event, the self test, the
wake-up of a suspend or `regcache_sync`) and which configurations failed half-way (`failed`, `pmFailed`).
`StreamFlows` demands a rate unless `writer` is `zero`, and at least that of the sensor unless it is `zero` or `event`; `halted` says that a suspend stopped polling, which nothing starts again.
The temperature accepts the rate zero and the period is then a division by zero: the system is `undefined`
from there on, as after a timer that expires when the workqueue is gone.

Left out: full scale, thresholds and durations of the events, the watermark and the parsing of the
fifo, which no other part depends on.

## 3. Runs

| Run | Instance | Shows |
|---|---|---|
| `motor_motion` | one process, every motion parameter, cycles of 0 and 3 steps (1000 is refused), unbind and rebind; fair | power, coil phase, brake and run length while parameters change under the worker; triggers run |
| `motor_lock` | two processes, `sp`, malformed cycle, trigger, info; fair | mutual exclusion, who can lose the mutex, the pair speed/delay; calls return |
| `motor_dir_comment` | as `motor_motion` | a comment of the code is wrong, see 6 |
| `schedule` | main and the debug thread, six event codes (none, four good, one too large), four slots; fair | the buffer's invariants, the refinement, every armed event is executed |
| `commands` | main and both listeners, two diag messages and one debug message, four slots; fair | no command is lost, the last one is executed |
| `commands_warning` | three diag messages | a message of the code is wrong, see 6 |
| `ring` | one process, the stores that cancel both work items, an endless animation and a repeated chase among them, unbind and rebind; fair | one painter at a time, no cycle more than asked for, every store returns, every animation ends but the one `br_white` 1 made endless and a demo that inherits its `en` |
| `ring_other` | one process, the stores that cancel nothing | a comment of the code does not hold, see 6 |
| `accel` | a rate above the limit, a temperature rate of 0, two events, every access free to fail; fair | a configured event is delivered, an unused device is off, a stream has its rate unless zero or an event's rate was written after it, polling goes on |
| `accel_suspend` | one event | a comment of the code does not hold, see 6 |
| `nv_mode` | `Trigger` 4 as in the code; fair | no coil stays driven once the filter was switched, the hardware shows the mode, the counters implement `Hysteresis`, light that stays is followed |
| `status_led` | one flag that commands set, one colour they write; fair | the LED shows its state but for that colour, no ended thread is cancelled, flag and LED follow the interfaces |

Why the bounds are enough. The worker's step pattern repeats after four steps and stays where a run
leaves it, so that runs of three steps start in each of its states, in either direction, and wrap. A motion parameter is a flag, so the two values are all. The buffer refuses one slot
before it is full: four slots hold three events, so with four good codes a push is refused, a gap is
closed at the bottom, in the middle and at the top, and a thread may push while another event is
being taken. Delays of 2 and 1 make events expire in another order than they were pushed. With two
messages a listener overwrites a command that is armed, running or finished; three are the fewest
that leave the counter above zero. The debug listener's one message carries no command in the run
`commands`: it pushes its own event or main's, so that a push may find either armed. `MaxReceived` bounds the messages only; everything else is finite.
`br_ops.cnt` is counted up to `CountBound`, 7: `br_white` sets it to 6 and the work item may add one,
and no other request of a run asks for more than two cycles, so that no comparison with `max_cnt`
tells the bound from a higher count. `cycles` is capped at `CycleBound` in the same way, where the
most cycles a request of the run `ring` may paint are three. The stores of the ring are in one of the
two runs, or do what one of those does (`brightextend` and `ce_temp` are `fade_rate`); the chase level 4
doubles the repetitions, and 20 is refused.

For the day/night mode everything is finite and the light is any sequence of samples; `Trigger` is the
4 of the code. The accelerometer's rates need one above the limit of 100 Hz, which
is written as 100 and so above the 25 Hz of the events, and the zero of the temperature; two events are the fewest
of which one may be left on when the other is switched off. One flag stands for all that commands
set, since the two threads meet in the word and not in the bit, and one colour, blue, for all they
write: it belongs to one state and not to the others, and `LedShowsState` treats each colour by itself. `made` is at most 2 because only the
first call, in which the system starts, flashes.

`CHECK_DEADLOCK FALSE` is said for the motor, which stops for good once the mutex is lost or the
worker used freed memory, for the ring, which stops in the latter case too, for the accelerometer,
which stops when it was removed or divided by zero, and for the commands,
which are quiet when the bounded messages are used up. The schedule, the day/night mode and the
status LED never stop and are checked for deadlock.

Fairness. Each thread that can take a step takes it (weak), since the kernel runs every runnable
thread and nothing but the mutex blocks one; a waiter is given a mutex that is freed again and again
(strong), which the kernel's mutex guarantees by handing over and glibc's does not promise but
provides in practice: with the schedule thread sleeping 100 ms a round and the listeners blocking on
their queues the mutex is idle nearly always. Nobody need call, push, send or unbind.
For the ring, a step that is due on freed memory is taken as well, and of the threads that wait in
`cancel_work_sync` for the same work item none waits forever (strong), since the kernel wakes them
in turn. `AnimationEnds` excepts a breathing whose `en` is set, which is the endless one that `br_white` 1
asks for and a `br_demo` or `br_logscale_demo` that inherits the `en` of a cancelled `br_white` 1
(`leds-ktd2061.c:880`, 995-1000, 1030-1034), and the animation that is written to
again, for which a store is in progress again and again.
`EveryEventRuns` excepts an event that is pushed forever, for each push sets its delay anew.
In `NvMode` a sample succeeds in the end (main waits a second and tries again), and `Settles` excepts
only light that changes and a sampling that is switched off. In `Accel` an armed timer expires, queued work runs
and a call goes on; nobody need read, suspend or resume. In `StatusLed` both threads go on and a cancelled thread ends; a load
need not fail, a command need not come, and `ReadyFollows` and `LedFollowsWifi` speak of interfaces
that stay as they are.

## 4. Proofs

`MotorProofs` proves for every set of processes and of requests, and `PegaScheduleProofs` for every
buffer size above one, every set of pushing threads and every set of calls, what the runs show on
their instances. The assumptions are those the modules name (`RequestsAssumption`,
`ScheduleAssumption`), which TLC evaluates on every run.

The motor's invariant has two halves. `RunInv` follows the worker: what it has loaded is in range
(`Loads`), who may be awake at which point (`Power`), what the pins show at each point, between the
two writes of a step included (`Phase`), and how many steps have been made (`Count`).
`PhaseTracksStep` alone is not inductive since it says nothing inside a step. `LockInv` follows the
callers: `LockDiscipline`, that a freed chip has no callers, and that speed and delay match whenever
no `sp_store` is between its writes, which is what carries `InfoSnapshot`.

The schedule's invariant adds to the checked properties who holds the mutex at which point
(`Owners`), what a push carries (`Carried`), that the slot a push is filling is the last one and that
its event is nowhere else (`Filling`), that all the slots below it hold events (`NoHoles`), and that
the slot the schedule thread has picked still holds a counted event (`Picked`). The last one is the
heart of the matter: the slot is picked and its event read with no lock, and they stay right because
pushes only append, and only the schedule thread removes. The refinement theorem
`Implementation` uses that invariant to map each step to a step of `EventTimer` or to a stutter.

`PegaCommandsProofs` proves `NoLostCommand` and the bounds of `wCmdCnt`, from the assumptions of
`PegaSchedule` and from two of its own: `CommandsAssumption` says who pushes what, `EnoughSlots` that
the buffer has a slot for every event that is ever pushed. Every step of `PegaCommands` is a step or
a stutter of `PegaSchedule` (`StepOfSchedule`), so that the invariant of the schedule carries over as it
is, and its refinement says what a step does to the armed events (`StillDue`): an armed event stays
armed until it runs, and it runs only when no handler did. For the same reason the composition
implements `PegaSchedule` (`ScheduleOfCommands`), and through it `EventTimer` (`TimerOfCommands`): all that is proved of
the buffer alone holds beside listeners and handlers too. `NotRefused` is a pigeonhole argument: the used
slots hold different events of a set smaller than the buffer, so that there is room for one more.
`NoLostCommand` speaks of a listener that waits; the invariant `Heeded` says of one that is still
pushing, from the moment its event is in the buffer on, that the execution to come reads the whole of
its command, or else that the last one did and no handler holds an id that is older. `Counting` bounds
the two copies of the counter that the unlocked increments hold by what has been received.

`RingProofs` proves `OnePainter` from three assumptions: `RingAssumption` of the module, that one
process at a time writes the attribute files (`OneProcess`), and that it writes only those that
cancel both work items (`OnlyCancelling`; the run `ring_other` shows what the others do). Bounds,
counts, unbinding and rebinding are arbitrary. `OnePainter` says nothing of a work item that is
queued and has yet to paint, so the invariant `RingInv` follows what each thread has still to
execute. `Shapes`: a wait follows its cancel, a store cancels first and schedules last, a work item
schedules only itself. `Cancels`: a thread that waits keeps the work item off the queue, even if
that item schedules itself. `Stopped`: a store with nothing left to cancel finds both work items
neither queued nor running. `OneActive`: of the two at most one ever is. The lemmas before
`StoresFine` show that each store's instructions have these shapes, piece by piece; the later ones
take one kind of instruction each.
Its second theorem, that the shared levels and counters stay in range, needs none of this: any number of
processes may write any attribute. `Ranges` says of every thread that all it has still to execute is
made of instructions whose writes are in range.

`RingCyclesProofs` proves `CyclesAsAsked` on top of `RingInv` and `Ranges`, from the assumptions of
`OnePainter` and `BoundsSuffice`: the two bounds of the model are beyond what the requests ask for, so
that no comparison with `max_cnt` sees the bound instead of the count. The property speaks of every cycle
an animation begins (`Beginning`), so that one which never ends is looked at too, and of the moment it is
about to end, when it must have painted all it was asked for. It excepts `br_white` 1, and a demo that finds
`en` set: such a demo goes on for ever in the code, and TLC shows it as soon as the exception is
taken away. The counters an animation ends by were set long before, by a store that wrote one field after the
other and only then scheduled. `CycleInv` follows them all the way. `Promises`: a store that has a
`schedule_work` before it will itself have set every parameter of that request by then, whatever the
animation it cancels leaves in them: a field has its value, or a later instruction gives it that
value (`Kept`). `NoneInside`: when chip is freed no store is in progress.
`Breathes` and `Chases` say of each work item, queued or at each point of its code, that the parameters are those of the
request it serves (`Params`) and how `cnt` relates to the cycles painted: as many (`Counted`), or one
less since the cycle in progress is counted at its end (`Rest`). The two differ in that: the
breathing counts before it paints, the chase after, which is why a chase paints one cycle more than
`max_cnt`. `br_demo` and `br_logscale_demo` do not reset `cnt`, so that for those only an upper bound is
kept. The lemmas up to `StoresVowed` show of each store's code that it makes such promises (`Vow`),
those up to `PromiseKept` that each step keeps them, `BreathStep` and `ChaseStep` take the work items
from point to point.

`NvModeProofs` proves for every `Trigger` that both coils are driven until the first switch and a driven
coil is released from then on, that the hardware shows the
mode, and the refinement of `Hysteresis`. What carries the second is that the writes main has left
are always a suffix of `Forced(mode)`, and that pins and filter are what the writes already made of it
lead to (`Writing`, `Reached`) as long as no command touched them.

`StatusLedProofs` proves for every set of flags, and of colours that commands write, that no thread is cancelled that has ended and that the
LED shows its state. `OneThread`: one flashing thread at most is not being cancelled, and
`m_thread_id` names it. `Alone`: unless `crossed`, two calls of `state_Set` are never both beyond
the comparison of priorities. `Starts`: only the first call flashes, which is why no second thread is ever
made. `JobsFit` says which thread asks for which state.

`AccelProofs` proves for every set of rates and events that events are served, that an unused device is
off, that streams flow (as far as `StreamFlows` says) and that polling stays alive. The checked properties speak of moments when no call is in progress
and nothing failed; the invariant says what holds in between. `Configured`: the register cache and the mask agree on every event
whose configuration did not fail, at all times. `Sampling`: what CTRL1 holds, by who wrote it, and that it is zero when
only the sensor the call in progress is about to disable is left (`Remaining`). `Paced`: what a sensor, the self
test or a wake-up wrote is fast enough for every buffer that is on, since `set_odr` takes the larger rate. `Streaming`: no call in
progress disables a sensor with a buffer. `Chain`: timer, queue and work item are never all
empty-handed, which needs that `cancel_work_sync` runs only for a suspend or after the buffer was
switched off (`Calls`).

Only model-checked: all liveness (`CallReturns`, `TriggerRuns`, `EveryEventRuns`, `LastCommandRuns`,
`StoreReturns`, `AnimationEnds`, `Settles`, `PollsAgain`, `ReadyFollows`, `LedFollowsWifi`), which is out of
this prover's reach, as is ENABLED. Every invariant and every refinement that a passing run checks is proved.

## 5. Not modelled

Vendor code, scripts and one-shot tools have no state that a second actor sees. Vendor code is nearly all of the
repository (the NXP wifi driver alone has 330 thousand lines, the NFC stack 26 thousand), used unchanged and
without a line of this firmware's logic in it, so that the definitions stand for a small share of the lines in the repository.
Left out of the firmware's own code are the threads that poll an input and print its edges, which
share no state with the others; the access to devices by register and file, one transfer at a time;
and the clients of the daemon, whose messages `PegaCommands` receives.
Timing in microseconds, register contents that nothing reads back and the wording of messages are left out.
The start of the schedule (the mutex is initialised by the schedule thread while main may already be
pushing) is left out because POSIX leaves open what then happens. The memory model is sequentially
consistent: the fields concerned are single aligned words.

## 6. Findings

* `motor_dir_comment`. `motor.c:20` says of `dir` "forward:0,reverse:1". The worker passes it to
  `awd8833c_step_function`, for which 1 is forward and 0 reverse.
* `commands_warning`. `pega_misc_diag.c:54` prints that the last command "is not processing
  finished". Two commands in quick succession raise the counter twice, but the event is armed once
  and its one execution lowers the counter once; from then on every command is reported as
  unfinished although all were executed.
* `ring_other`. `leds-ktd2061.c:614`, in the chase work item: "should cancel the other thread before
  sending command!". `flower` schedules the breathing without cancelling the chase (1458-1465), after
  which both work items write the LED registers. `OnePainter` is what holds when only stores that
  cancel are used.
* `accel_suspend`. `st_lis2dw12_core.c:1313` says "do not disable sensors if requested by wake-up".
  With both sensors enabled, suspend sets the wake-up rate for the accelerometer and then goes on to
  the temperature, for which `set_odr(TEMP, 0)` writes the rate of the events, zero if there are
  none (1316): the device is powered down and wakes nothing.

## 7. Plan

1. `RingControl`: `pdata` and `REG_CONTROL` as sets of bits; read-modify-write of `masked_write`
   against `mode_change`; what each show method restores.
2. The accelerometer with two processes at once; the fifo's watermark and flush.
3. The interface numbers of the main loop, once something other than a message reads them.
