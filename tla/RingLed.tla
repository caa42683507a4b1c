------------------------------ MODULE RingLed ------------------------------
(***************************************************************************)
(* The animations of the ring LED driver, leds-ktd2061.c: the stores of    *)
(* its sysfs attributes and its two work items, chase and breathing.  None *)
(* of them takes chip->lock.  A store cancels the work items it knows of,  *)
(* sets the parameters of its animation one by one and schedules a work    *)
(* item; the work item paints one cycle and schedules itself again until   *)
(* its counter says that it is done.                                       *)
(*                                                                         *)
(* Each thread carries the instructions it has still to execute; another   *)
(* thread may run between any two.  Register writes, and the sleeps in     *)
(* between, are one instruction, Paint: what is painted is left out.       *)
(***************************************************************************)
EXTENDS Naturals, Sequences

CONSTANTS
  Callers,     \* user processes that write the attribute files
  Nobody,      \* no thread cancels the work item
  Requests,    \* the <<attribute, value>> pairs the processes may write
  CountBound,  \* br_ops.cnt is counted no further
  CycleBound   \* nor are the cycles of a request

Works == {"chase", "breathing"}
Threads == Callers \cup Works

Attributes == {"breathing", "br_white", "br2colors", "brlogscale", "br_demo",
               "br_logscale_demo", "flower", "chase", "chasing_demo", "racing",
               "mode", "brightextend", "fade_rate", "ce_temp"}

\* No counter is asked to go beyond the bound, and br_white counts to 6.
ASSUME RingAssumption ==
  /\ Callers \cap Works = {} /\ Nobody \notin Threads
  /\ Requests \subseteq Attributes \X Nat
  /\ CountBound \in Nat /\ CountBound > 6 /\ CycleBound \in Nat
  /\ \A r \in Requests : r[1] \in {"br_demo", "br_logscale_demo"} => r[2] < CountBound

VARIABLES
  ops,         \* br_ops and chase_ops
  pending,     \* the work item is queued
  canceller,   \* the thread inside cancel_work_sync of the work item
  code,        \* per thread, the instructions it has still to execute
  loaded,      \* per work item, the count it has loaded
  dev,         \* "bound", "removing" (waits for the files), "freed", "undefined"
  served, cycles   \* history: the request a work item serves, its cycles so far

chipVars == <<ops, pending, canceller, loaded>>
history == <<served, cycles>>
vars == <<chipVars, code, dev, history>>

-----------------------------------------------------------------------------
(* Instructions.                                                           *)

Paint == <<"paint">>
Set(w, field, value) == <<"set", w, field, value>>
Schedule(w, r) == <<"schedule", w, r>>
Again == <<"none", 0>>               \* the request of a work item's own schedule
CancelSync(w) == << <<"cancel", w>>, <<"wait", w>> >>

CancelChaseOnly == CancelSync("chase")   \* slip: the breathing runs on
CancelBoth == CancelSync("chase") \o CancelSync("breathing")

BreathingOpsKeepEn(level, n) ==          \* slip: an endless animation stays endless
  << Set("breathing", "cnt", 0),
     Set("breathing", "max_cnt", n), Set("breathing", "level", level) >>

\* The parameters of a new breathing.
BreathingOps(level, n) ==
  << Set("breathing", "cnt", 0), Set("breathing", "en", 0),
     Set("breathing", "max_cnt", n), Set("breathing", "level", level) >>

CHASE_OFF == 0
CHASE_DEMO == 11
CHASE_AMZ == 12
\* chase_ops.max_cnt for a level: CHASEUP_1 = 1 and CHASEDOWN_2 = 4 are doubled.
Repeats(level) ==
  IF level \in {9, 10} THEN 5
  ELSE IF level \in {1, 4} THEN 2
  ELSE IF level \in {5, 6} THEN 3
  ELSE IF level \in {7, 8} THEN 4
  ELSE 1

\* What each store does with a number it has parsed.
Breathing(v) ==
  CancelBoth \o
  (IF v \in 1..99
     THEN <<Paint>> \o BreathingOps("BR_NORMAL", v)
            \o <<Schedule("breathing", <<"breathing", v>>)>>
   ELSE IF v = 100 THEN CancelSync("breathing") \o <<Paint>>
   ELSE << >>)

White(v) ==
  CancelBoth
    \o << Set("breathing", "cnt", 6), Set("breathing", "max_cnt", 5),
          Set("breathing", "en", IF v = 0 THEN 0 ELSE 1),
          Set("breathing", "level", IF v = 0 THEN "STOP" ELSE "BR_White"),
          Schedule("breathing", <<"br_white", v>>) >>

TwoColors(v) ==
  CancelBoth \o
  (IF v \in 1..99
     THEN BreathingOps("BR_2COLORS", v)
            \o <<Paint, Schedule("breathing", <<"br2colors", v>>)>>
   ELSE << >>)

LogScale(v) ==
  CancelBoth \o
  (IF v \in 1..7
     THEN <<Paint>> \o BreathingOps("BR_LOGSCALE", v)
            \o <<Paint, Schedule("breathing", <<"brlogscale", v>>)>>
   ELSE << >>)

Demo(level, r) ==
  CancelBoth \o <<Paint>> \o
  (IF r[2] \in 1..99
     THEN << Set("breathing", "level", level), Set("breathing", "max_cnt", r[2]),
             Schedule("breathing", r) >>
   ELSE << >>)

\* No cancellation.
Flower(v) ==
  IF v \in 1..99
    THEN BreathingOps("BR_FLOWERS", v) \o <<Paint, Schedule("breathing", <<"flower", v>>)>>
  ELSE << >>

ChaseUnchecked(v) ==                     \* slip: no range check
  CancelSync("breathing") \o CancelSync("chase")
    \o << Set("chase", "level", v), Set("chase", "cnt", 0), Set("chase", "max_cnt", Repeats(v)),
          Paint, Schedule("chase", <<"chase", v>>) >>

Chase(v) ==
  CancelSync("breathing") \o CancelSync("chase") \o
  (IF v \in 0..19
     THEN << Set("chase", "level", v), Set("chase", "cnt", 0), Set("chase", "max_cnt", 1) >>
            \o (IF Repeats(v) > 1 THEN <<Set("chase", "max_cnt", Repeats(v))>> ELSE << >>)
            \o <<Paint, Schedule("chase", <<"chase", v>>)>>
   ELSE << >>)

\* No cancellation, and the counters are those of an earlier chase.
ChasingDemo(v) ==
  IF v \in 1..99
    THEN <<Paint, Set("chase", "level", CHASE_DEMO), Schedule("chase", <<"chasing_demo", v>>)>>
  ELSE << >>

\* The demos that the calling process paints itself.
Racing(v) == IF v \in {1, 2} THEN <<Paint>> ELSE << >>
Mode(v) == IF v \in 0..3 THEN <<Paint>> ELSE << >>

\* brightextend, fade_rate and ce_temp.  (A ce_temp that does not parse cancels both
\* work items, as breathing 0 does; any other attribute does nothing then.)
Control == CancelBoth \o <<Paint>>

Program(r) ==
  [breathing |-> Breathing(r[2]), br_white |-> White(r[2]), br2colors |-> TwoColors(r[2]),
   brlogscale |-> LogScale(r[2]), br_demo |-> Demo("BR_DEMO", r),
   br_logscale_demo |-> Demo("BR_LOGSCALE_DEMO", r), flower |-> Flower(r[2]),
   chase |-> Chase(r[2]), chasing_demo |-> ChasingDemo(r[2]), racing |-> Racing(r[2]),
   mode |-> Mode(r[2]), brightextend |-> Control, fade_rate |-> Control,
   ce_temp |-> Control][r[1]]

WorkCodeCancelsItself(w) ==              \* slip: the chase waits for itself
  IF w = "chase" THEN CancelSync("breathing") \o CancelSync("chase") \o << <<"switch", w>> >>
  ELSE << <<"load", w>>, <<"count", w>>, <<"switch", w>> >>

\* What a work item begins with.
WorkCode(w) ==
  IF w = "chase" THEN CancelSync("breathing") \o << <<"switch", w>> >>
  ELSE << <<"load", w>>, <<"count", w>>, <<"switch", w>> >>

-----------------------------------------------------------------------------
ZeroedOps ==
  [breathing |-> [level |-> "BR_OFF", en |-> 0, cnt |-> 0, max_cnt |-> 0],
   chase |-> [level |-> CHASE_OFF, cnt |-> 0, max_cnt |-> 0]]

Init ==
  /\ ops = ZeroedOps
  /\ pending = [w \in Works |-> FALSE]
  /\ canceller = [w \in Works |-> Nobody]
  /\ code = [t \in Threads |-> << >>]
  /\ loaded = [w \in Works |-> 0]
  /\ dev = "bound"
  /\ served = [w \in Works |-> Again] /\ cycles = [w \in Works |-> 0]

\* Counting up to a bound.
Bump(n, bound) == IF n < bound THEN n + 1 ELSE n

-----------------------------------------------------------------------------
(* The steps of a thread.                                                  *)

Alive == dev \in {"bound", "removing"}
At(t, op) == Alive /\ code[t] # << >> /\ Head(code[t])[1] = op
Arg(t, i) == Head(code[t])[i]
Goes(t, then) == code' = [code EXCEPT ![t] = then \o Tail(@)]

Call(p) ==
  /\ dev = "bound" /\ code[p] = << >>
  /\ \E r \in Requests : code' = [code EXCEPT ![p] = Program(r)]
  /\ UNCHANGED <<chipVars, dev, history>>

DoPaint(t) ==
  /\ At(t, "paint") /\ Goes(t, << >>)
  /\ UNCHANGED <<chipVars, dev, history>>

DoSet(t) ==
  /\ At(t, "set") /\ Goes(t, << >>)
  /\ ops' = [ops EXCEPT ![Arg(t, 2)][Arg(t, 3)] = Arg(t, 4)]
  /\ UNCHANGED <<pending, canceller, loaded, dev, history>>

\* cancel_work_sync takes the work item off the queue, and keeps it off...
Cancel(t) ==
  /\ At(t, "cancel") /\ canceller[Arg(t, 2)] = Nobody
  /\ canceller' = [canceller EXCEPT ![Arg(t, 2)] = t]
  /\ pending' = [pending EXCEPT ![Arg(t, 2)] = FALSE]
  /\ Goes(t, << >>)
  /\ UNCHANGED <<ops, loaded, dev, history>>

\* ...until the instance that runs has returned.
Wait(t) ==
  /\ At(t, "wait") /\ code[Arg(t, 2)] = << >>
  /\ canceller' = [canceller EXCEPT ![Arg(t, 2)] = Nobody]
  /\ Goes(t, << >>)
  /\ UNCHANGED <<ops, pending, loaded, dev, history>>

\* schedule_work does nothing to a work item that is queued or being cancelled.
DoSchedule(t) ==
  LET w == Arg(t, 2) r == Arg(t, 3) IN
  /\ At(t, "schedule") /\ Goes(t, << >>)
  /\ pending' = [pending EXCEPT ![w] = @ \/ canceller[w] = Nobody]
  /\ served' = IF r = Again THEN served ELSE [served EXCEPT ![w] = r]
  /\ cycles' = IF r = Again THEN cycles ELSE [cycles EXCEPT ![w] = 0]
  /\ UNCHANGED <<ops, canceller, loaded, dev>>

-----------------------------------------------------------------------------
(* ktd2058_chase_ctrl_work and ktd2058_breathing_ctrl_work.                *)

WorkStart(w) ==
  /\ Alive /\ pending[w] /\ code[w] = << >>
  /\ pending' = [pending EXCEPT ![w] = FALSE]
  /\ code' = [code EXCEPT ![w] = WorkCode(w)]
  /\ cycles' = [cycles EXCEPT ![w] = Bump(@, CycleBound)]
  /\ UNCHANGED <<ops, canceller, loaded, dev, served>>

\* cnt++ is a load and a store.
Load(w) ==
  /\ At(w, "load") /\ Goes(w, << >>)
  /\ loaded' = [loaded EXCEPT ![w] = ops[w].cnt]
  /\ UNCHANGED <<ops, pending, canceller, dev, history>>

Count(w) ==
  /\ At(w, "count") /\ Goes(w, << >>)
  /\ ops' = [ops EXCEPT ![w].cnt = Bump(loaded[w], CountBound)]
  /\ loaded' = [loaded EXCEPT ![w] = 0]
  /\ UNCHANGED <<pending, canceller, dev, history>>

\* One cycle of the level's animation; the chase levels above CHASE_AMZ have none.
Switch(w) ==
  /\ At(w, "switch")
  /\ Goes(w, (IF w = "chase"
                THEN IF ops[w].level \in 1..CHASE_AMZ THEN <<Paint>> ELSE << >>
              ELSE IF ops[w].level = "BR_White" THEN <<Set(w, "cnt", 6), Paint>>
              ELSE <<Paint>>)
             \o << <<"load", w>>, <<"test", w>> >>)
  /\ UNCHANGED <<chipVars, dev, history>>

TestUncounted(w) ==                      \* slip: the chase is repeated without cnt++
  /\ At(w, "test")
  /\ Goes(w, IF loaded[w] < ops[w].max_cnt THEN <<Schedule(w, Again)>>
             ELSE IF w = "chase" THEN <<Set(w, "cnt", 0), Set(w, "level", CHASE_OFF), Paint>>
             ELSE << <<"enabled", w>> >>)
  /\ loaded' = [loaded EXCEPT ![w] = 0]
  /\ UNCHANGED <<ops, pending, canceller, dev, history>>

\* if (cnt < max_cnt), and for the breathing also || en >= 1.
Test(w) ==
  /\ At(w, "test")
  /\ Goes(w, IF loaded[w] < ops[w].max_cnt
               THEN IF w = "chase" THEN << <<"load", w>>, <<"count", w>>, Schedule(w, Again) >>
                    ELSE <<Schedule(w, Again)>>
             ELSE IF w = "chase" THEN <<Set(w, "cnt", 0), Set(w, "level", CHASE_OFF), Paint>>
             ELSE << <<"enabled", w>> >>)
  /\ loaded' = [loaded EXCEPT ![w] = 0]
  /\ UNCHANGED <<ops, pending, canceller, dev, history>>

EnabledTest(w) ==
  /\ At(w, "enabled")
  /\ Goes(w, IF ops[w].en >= 1 THEN <<Schedule(w, Again)>>
             ELSE << Set(w, "cnt", 0), Set(w, "max_cnt", 0), Set(w, "en", 0),
                     Set(w, "level", "BR_OFF") >>)
  /\ UNCHANGED <<chipVars, dev, history>>

-----------------------------------------------------------------------------
(* Unbinding: the calls in progress finish, the work items are not         *)
(* cancelled, and devm then frees chip.                                    *)

Remove ==
  /\ dev = "bound" /\ dev' = "removing"
  /\ UNCHANGED <<chipVars, code, history>>

Free ==
  /\ dev = "removing" /\ \A p \in Callers : code[p] = << >>
  /\ dev' = "freed"
  /\ UNCHANGED <<chipVars, code, history>>

\* A work item that is queued or runs uses freed memory: nothing is promised.
UseAfterFree ==
  /\ dev = "freed" /\ \E w \in Works : pending[w] \/ code[w] # << >>
  /\ dev' = "undefined"
  /\ UNCHANGED <<chipVars, code, history>>

Probe ==
  /\ dev = "freed" /\ \A w \in Works : ~pending[w] /\ code[w] = << >>
  /\ dev' = "bound" /\ ops' = ZeroedOps
  /\ UNCHANGED <<pending, canceller, code, loaded, history>>

-----------------------------------------------------------------------------
Step(t) == DoPaint(t) \/ DoSet(t) \/ Cancel(t) \/ Wait(t) \/ DoSchedule(t)

WorkStep(w) ==
  \/ Step(w) \/ WorkStart(w)
  \/ Load(w) \/ Count(w) \/ Switch(w) \/ Test(w) \/ EnabledTest(w)

Next ==
  \/ \E p \in Callers : Call(p) \/ Step(p)
  \/ \E w \in Works : WorkStep(w)
  \/ Remove \/ Free \/ UseAfterFree \/ Probe

Spec == Init /\ [][Next]_vars

\* Every thread that can run does; of several threads that wait to cancel a work
\* item, none waits forever (the kernel wakes them in turn).
Fairness ==
  /\ \A p \in Callers : WF_vars(Step(p))
  /\ \A w \in Works : WF_vars(WorkStep(w))
  /\ WF_vars(UseAfterFree)
  /\ \A t \in Threads : SF_vars(Cancel(t))

FairSpec == Spec /\ Fairness
-----------------------------------------------------------------------------
Instructions ==
  {Paint} \cup ({"cancel", "wait", "load", "count", "switch", "test", "enabled"} \X Works)

TypeOK ==
  /\ ops["breathing"].level \in {"BR_OFF", "BR_NORMAL", "BR_2COLORS", "BR_LOGSCALE", "BR_DEMO",
                                "BR_FLOWERS", "BR_LOGSCALE_DEMO", "BR_White", "STOP"}
  /\ ops["breathing"].en \in {0, 1}
  /\ ops["chase"].level \in 0..19
  /\ \A w \in Works : ops[w].cnt \in 0..CountBound /\ ops[w].max_cnt \in Nat
  /\ pending \in [Works -> BOOLEAN]
  /\ canceller \in [Works -> Threads \cup {Nobody}]
  /\ \A t \in Threads : \A i \in 1..Len(code[t]) :
       code[t][i][1] \in {"set", "schedule"} \/ code[t][i] \in Instructions
  /\ loaded \in [Works -> 0..CountBound]
  /\ dev \in {"bound", "removing", "freed", "undefined"}
  /\ served \in [Works -> (Attributes \X Nat) \cup {Again}]
  /\ cycles \in [Works -> 0..CycleBound]

Active(w) == pending[w] \/ code[w] # << >>
Painting(t) == code[t] # << >> /\ Head(code[t]) = Paint

\* As long as one process at a time writes the files that cancel both work
\* items, no two threads paint at the same time, although no lock is taken and
\* both work items schedule themselves: cancel_work_sync stops them.
OnePainter == \A t, u \in Threads : Painting(t) /\ Painting(u) => t = u

\* The work item is about to paint a cycle, or to reset its counter for good.
Beginning(w) == code[w] # << >> /\ Head(code[w]) = <<"switch", w>>
Ending(w) == code[w] # << >> /\ Head(code[w]) = Set(w, "cnt", 0)

\* The counters survive a cancelled animation and are shared by all requests; yet no
\* animation begins a cycle more than it was asked for, a chase one more than max_cnt,
\* and one that ends has painted as many, or, since br_demo and br_logscale_demo do not
\* reset the counters, fewer. Two are excepted, as they go on without end: br_white 1,
\* and a demo that finds en set by a br_white 1, which it does not reset either.
CyclesAsAsked ==
  \A w \in Works :
    LET a == served[w][1] v == served[w][2] IN
    /\ Beginning(w) =>
         /\ a \in {"breathing", "br2colors", "brlogscale"} => cycles[w] <= v
         /\ a \in {"br_demo", "br_logscale_demo"} => cycles[w] <= v \/ ops[w].en = 1
         /\ a = "br_white" => v # 0 \/ cycles[w] = 1
         /\ a = "chase" => cycles[w] <= Repeats(v) + 1
    /\ Ending(w) =>
         /\ a \in {"breathing", "br2colors", "brlogscale"} => cycles[w] = v
         /\ a \in {"br_demo", "br_logscale_demo"} => cycles[w] <= v
         /\ a = "br_white" => v = 0 /\ cycles[w] = 1
         /\ a = "chase" => cycles[w] = Repeats(v) + 1

\* Every store returns, even one that cancels an animation that schedules itself
\* without end, or a chase that is itself cancelling the other work item.
StoreReturns == \A p \in Callers : code[p] # << >> ~> code[p] = << >>

\* An animation ends, unless it is written to again; but not one that br_white 1 made
\* endless, nor a demo that finds en set by a br_white 1; and a work item in use when chip
\* was freed promises nothing.
AnimationEnds ==
  \A w \in Works :
    Active(w) ~>
      \/ ~Active(w) \/ dev = "undefined"
      \/ w = "breathing" /\ ops[w].en = 1
      \/ \E p \in Callers : code[p] # << >>

\* leds-ktd2061.c:614, in the chase work item: "should cancel the other thread
\* before sending command!"
OtherCancelled == ~(Painting("chase") /\ Painting("breathing"))
=============================================================================
