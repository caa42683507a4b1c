----------------------------- MODULE RingProofs -----------------------------
(* What is proved of RingLed.                                              *)
EXTENDS RingLed, SequenceTheorems, TLAPS

\* One process at a time writes the attribute files...
OneProcess == \A p, q \in Callers : p = q

\* ...and only those that cancel both work items.
Cancelling == {"breathing", "br_white", "br2colors", "brlogscale", "br_demo",
               "br_logscale_demo", "chase", "brightextend", "fade_rate", "ce_temp"}
OnlyCancelling == \A r \in Requests : r[1] \in Cancelling

-----------------------------------------------------------------------------
(* The invariant.                                                          *)

Levels == {"BR_OFF", "BR_NORMAL", "BR_2COLORS", "BR_LOGSCALE", "BR_DEMO", "BR_FLOWERS",
           "BR_LOGSCALE_DEMO", "BR_White", "STOP"}

Instr ==
  {Paint}
    \cup ({"cancel", "wait", "load", "count", "switch", "test", "enabled"} \X Works)
    \cup {Set(w, f, v) : w \in Works, f \in {"level", "cnt", "max_cnt", "en"}, v \in Levels \cup Nat}
    \cup {Schedule(w, r) : w \in Works, r \in (Attributes \X Nat) \cup {Again}}

Stops(i) == i[1] \in {"cancel", "wait"}

\* A wait follows its cancel, and a cancel is followed by its wait.
Paired(c) ==
  /\ \A i \in 2..Len(c) : c[i][1] = "wait" => c[i-1] = <<"cancel", c[i][2]>>
  /\ \A i \in 1..Len(c) : c[i][1] = "cancel" => i < Len(c) /\ c[i+1] = <<"wait", c[i][2]>>

\* A store cancels first and schedules last.
StoreShape(c) ==
  /\ \A i \in 1..Len(c) : \A j \in 1..Len(c) : i < j /\ Stops(c[j]) => Stops(c[i])
  /\ \A i \in 1..Len(c) : c[i][1] = "schedule" => i = Len(c)

\* A work item schedules itself only.
OwnShape(c, w) == \A i \in 1..Len(c) : c[i][1] = "schedule" => c[i][2] = w

WillStop(c, w) == \E i \in 1..Len(c) : c[i] \in {<<"cancel", w>>, <<"wait", w>>}

Shapes ==
  /\ code \in [Threads -> Seq(Instr)]
  /\ \A t \in Threads : Paired(code[t])
  /\ \A p \in Callers : StoreShape(code[p])
  /\ \A w \in Works : OwnShape(code[w], w)

\* A thread that waits for a work item keeps it off the queue.
Cancels ==
  /\ canceller \in [Works -> Threads \cup {Nobody}] /\ pending \in [Works -> BOOLEAN]
  /\ \A t \in Threads : \A w \in Works :
       code[t] # << >> /\ Head(code[t]) = <<"wait", w>> => canceller[w] = t /\ ~pending[w]

\* A store that has nothing left to cancel has stopped both work items...
Stopped ==
  \A p \in Callers : \A w \in Works :
    code[p] # << >> /\ ~WillStop(code[p], w) => ~Active(w)

\* ...and of the two, one is ever active.
OneActive == ~(Active("chase") /\ Active("breathing"))

RingInv == Shapes /\ Cancels /\ Stopped /\ OneActive

-----------------------------------------------------------------------------
(* Sequences of instructions.                                              *)

\* Taking the first instruction from a paired code leaves a paired code.
LEMMA TailShape ==
  ASSUME NEW c \in Seq(Instr), c # << >>, Paired(c)
  PROVE  /\ Tail(c) \in Seq(Instr) /\ Len(Tail(c)) = Len(c) - 1
         /\ \A i \in 1..Len(Tail(c)) : Tail(c)[i] = c[i + 1]
         /\ Head(c) = c[1] /\ c[1] \in Instr /\ Len(c) \in Nat /\ Len(c) > 0
         /\ Paired(Tail(c))
<1>1. /\ Tail(c) \in Seq(Instr) /\ Len(Tail(c)) = Len(c) - 1
      /\ \A i \in 1..Len(Tail(c)) : Tail(c)[i] = c[i + 1]
      /\ Head(c) = c[1] /\ c[1] \in Instr /\ Len(c) \in Nat /\ Len(c) > 0
  OBVIOUS
<1>2. Paired(Tail(c))
  BY <1>1 DEF Paired
<1>. QED BY <1>1, <1>2

\* What a thread puts before its rest neither cancels nor waits.
LEMMA GoesShape ==
  ASSUME NEW c \in Seq(Instr), c # << >>, Paired(c), c[1][1] # "cancel",
         NEW b \in Seq(Instr), \A i \in 1..Len(b) : ~Stops(b[i])
  PROVE  b \o Tail(c) \in Seq(Instr) /\ Paired(b \o Tail(c))
<1>. DEFINE d == b \o Tail(c)
<1>1. Tail(c) \in Seq(Instr) /\ Len(Tail(c)) = Len(c) - 1 /\ Paired(Tail(c))
      /\ Len(c) \in Nat /\ Len(c) > 0 /\ \A i \in 1..Len(Tail(c)) : Tail(c)[i] = c[i + 1]
  BY TailShape
<1>2. d \in Seq(Instr) /\ Len(b) \in Nat /\ Len(d) = Len(b) + Len(c) - 1
  BY <1>1
<1>3. \A i \in 1..Len(d) : d[i] = IF i <= Len(b) THEN b[i] ELSE c[i - Len(b) + 1]
  BY <1>1, <1>2
<1>. HIDE DEF d
<1>4. ASSUME NEW i \in 2..Len(d), d[i][1] = "wait"
      PROVE  d[i - 1] = <<"cancel", d[i][2]>>
  <2>1. i > Len(b) /\ d[i] = c[i - Len(b) + 1]
    BY <1>2, <1>3, <1>4 DEF Stops
  <2>2. i - Len(b) + 1 \in 2..Len(c) /\ (i - Len(b) + 1) - 1 = i - Len(b)
    BY <2>1, <1>1, <1>2
  <2>3. c[i - Len(b)] = <<"cancel", d[i][2]>>
    BY <2>1, <2>2, <1>4 DEF Paired
  <2>4. i - Len(b) # 1 /\ i - Len(b) \in 1..Len(c)
    BY <2>1, <2>2, <2>3, <1>1, <1>2
  <2>. QED BY <2>1, <2>3, <2>4, <1>1, <1>2, <1>3, SMTT(30)
<1>5. ASSUME NEW i \in 1..Len(d), d[i][1] = "cancel"
      PROVE  i < Len(d) /\ d[i + 1] = <<"wait", d[i][2]>>
  <2>1. i > Len(b) /\ d[i] = c[i - Len(b) + 1]
    BY <1>2, <1>3, <1>5 DEF Stops
  <2>2. i - Len(b) + 1 \in 1..Len(c) /\ (i - Len(b) + 1) + 1 = (i + 1) - Len(b) + 1
    BY <2>1, <1>1, <1>2
  <2>3. i - Len(b) + 1 < Len(c) /\ c[(i + 1) - Len(b) + 1] = <<"wait", d[i][2]>>
    BY <2>1, <2>2, <1>5 DEF Paired
  <2>. QED BY <2>1, <2>2, <2>3, <1>1, <1>2, <1>3
<1>. QED BY <1>2, <1>4, <1>5 DEF Paired, d

-----------------------------------------------------------------------------
(* The stores.                                                             *)

Quiet(b) == b \in Seq(Instr) /\ \A i \in 1..Len(b) : ~Stops(b[i]) /\ b[i][1] # "schedule"

Body(b) ==
  /\ b \in Seq(Instr) /\ \A i \in 1..Len(b) : ~Stops(b[i])
  /\ \A i \in 1..Len(b) : b[i][1] = "schedule" => i = Len(b)

\* What a store that cancels both work items looks like at its start.
Fine(c) ==
  /\ c \in Seq(Instr) /\ c # << >> /\ Head(c)[1] # "wait"
  /\ Paired(c) /\ StoreShape(c) /\ \A w \in Works : WillStop(c, w)

Unscheduled(c) == \A i \in 1..Len(c) : c[i][1] # "schedule"
OnlyStops(c) == \A i \in 1..Len(c) : Stops(c[i])

\* Where the elements of a concatenation come from.
LEMMA Concatenation ==
  ASSUME NEW a \in Seq(Instr), NEW b \in Seq(Instr)
  PROVE  /\ a \o b \in Seq(Instr) /\ Len(a) \in Nat /\ Len(b) \in Nat
         /\ Len(a \o b) = Len(a) + Len(b)
         /\ \A i \in 1..Len(a) : i \in 1..Len(a \o b) /\ (a \o b)[i] = a[i]
         /\ \A i \in 1..Len(a \o b) :
              \/ i \in 1..Len(a) /\ (a \o b)[i] = a[i]
              \/ /\ i - Len(a) \in 1..Len(b) /\ (a \o b)[i] = b[i - Len(a)]
                 /\ i - Len(a) = Len(b) => i = Len(a \o b)
OBVIOUS

\* Assignments and register writes in front of a body make a body...
LEMMA QuietThenBody ==
  ASSUME NEW a, NEW b, Quiet(a), Body(b)
  PROVE  Body(a \o b)
<1>1. a \in Seq(Instr) /\ b \in Seq(Instr)
  BY DEF Quiet, Body
<1>. QED BY <1>1, Concatenation DEF Quiet, Body

\* ...and in front of each other, one without a schedule_work.
LEMMA QuietThenQuiet ==
  ASSUME NEW a, NEW b, Quiet(a), Quiet(b)
  PROVE  Quiet(a \o b)
<1>1. a \in Seq(Instr) /\ b \in Seq(Instr)
  BY DEF Quiet
<1>. QED BY <1>1, Concatenation DEF Quiet

\* A store may do anything after its cancellations, and schedule last.
LEMMA ThenBody ==
  ASSUME NEW c, NEW b, Fine(c), Unscheduled(c), Body(b)
  PROVE  Fine(c \o b) /\ (Unscheduled(b) => Unscheduled(c \o b))
<1>. DEFINE d == c \o b
<1>1. c \in Seq(Instr) /\ b \in Seq(Instr) /\ Len(c) \in Nat /\ Len(b) \in Nat /\ Len(c) > 0
  BY DEF Fine, Body
<1>2. /\ d \in Seq(Instr) /\ Len(d) = Len(c) + Len(b)
      /\ \A i \in 1..Len(c) : i \in 1..Len(d) /\ d[i] = c[i]
      /\ \A i \in 1..Len(d) :
           \/ i \in 1..Len(c) /\ d[i] = c[i]
           \/ /\ i - Len(c) \in 1..Len(b) /\ d[i] = b[i - Len(c)]
              /\ i - Len(c) = Len(b) => i = Len(d)
  BY <1>1, Concatenation
<1>3. d # << >> /\ Head(d) = Head(c) /\ Head(d)[1] # "wait"
  <2>1. Head(c) = c[1]
    BY <1>1
  <2>2. d # << >> /\ Head(d) = d[1] /\ d[1] = c[1]
    BY <1>1, <1>2
  <2>. QED BY <2>1, <2>2 DEF Fine
<1>. HIDE DEF d
<1>4. Paired(d)
  <2>1. ASSUME NEW i \in 2..Len(d), d[i][1] = "wait"
        PROVE  d[i - 1] = <<"cancel", d[i][2]>>
    <3>1. i \in 1..Len(c) /\ d[i] = c[i]
      BY <1>2, <2>1 DEF Body, Stops
    <3>2. i \in 2..Len(c) /\ d[i - 1] = c[i - 1]
      BY <3>1, <1>1, <1>2, <2>1
    <3>. QED BY <3>1, <3>2, <2>1 DEF Fine, Paired
  <2>2. ASSUME NEW i \in 1..Len(d), d[i][1] = "cancel"
        PROVE  i < Len(d) /\ d[i + 1] = <<"wait", d[i][2]>>
    <3>1. i \in 1..Len(c) /\ d[i] = c[i]
      BY <1>1, <1>2, <2>2 DEF Body, Stops
    <3>2. i < Len(c) /\ c[i + 1] = <<"wait", d[i][2]>>
      BY <3>1, <2>2 DEF Fine, Paired
    <3>. QED BY <3>1, <3>2, <1>1, <1>2
  <2>. QED BY <2>1, <2>2 DEF Paired
<1>5. StoreShape(d)
  <2>1. ASSUME NEW i \in 1..Len(d), NEW j \in 1..Len(d), i < j, Stops(d[j])
        PROVE  Stops(d[i])
    <3>1. j \in 1..Len(c) /\ d[j] = c[j]
      BY <1>2, <2>1 DEF Body
    <3>2. i \in 1..Len(c) /\ d[i] = c[i]
      BY <3>1, <1>1, <1>2, <2>1
    <3>. QED BY <3>1, <3>2, <2>1 DEF Fine, StoreShape
  <2>2. ASSUME NEW i \in 1..Len(d), d[i][1] = "schedule"
        PROVE  i = Len(d)
    <3>1. i - Len(c) \in 1..Len(b) /\ d[i] = b[i - Len(c)]
      BY <1>2, <2>2 DEF Unscheduled
    <3>2. i - Len(c) = Len(b)
      BY <3>1, <2>2 DEF Body
    <3>. QED BY <3>2, <1>2
  <2>. QED BY <2>1, <2>2 DEF StoreShape
<1>6. ASSUME NEW w \in Works
      PROVE  WillStop(d, w)
  <2>1. PICK i \in 1..Len(c) : c[i] \in {<<"cancel", w>>, <<"wait", w>>}
    BY DEF Fine, WillStop
  <2>2. i \in 1..Len(d) /\ d[i] = c[i]
    BY <1>1, <1>2
  <2>. QED BY <2>1, <2>2 DEF WillStop
<1>7. Unscheduled(b) => Unscheduled(d)
  BY <1>1, <1>2, SMTT(30) DEF Unscheduled
<1>. QED BY <1>2, <1>3, <1>4, <1>5, <1>6, <1>7 DEF Fine, d

\* The two cancel_work_sync calls most stores begin with, in either order.
LEMMA CancelsFine ==
  /\ Fine(CancelBoth) /\ Unscheduled(CancelBoth) /\ OnlyStops(CancelBoth)
  /\ Fine(CancelSync("breathing") \o CancelSync("chase"))
  /\ Unscheduled(CancelSync("breathing") \o CancelSync("chase"))
<1>1. ASSUME NEW u \in Works, NEW v \in Works, u # v
      PROVE  /\ Fine(CancelSync(u) \o CancelSync(v)) /\ Unscheduled(CancelSync(u) \o CancelSync(v))
             /\ OnlyStops(CancelSync(u) \o CancelSync(v))
  <2>. DEFINE a == CancelSync(u)
              b == CancelSync(v)
              c == a \o b
  <2>1. /\ a \in Seq(Instr) /\ Len(a) = 2 /\ a[1] = <<"cancel", u>> /\ a[2] = <<"wait", u>>
        /\ b \in Seq(Instr) /\ Len(b) = 2 /\ b[1] = <<"cancel", v>> /\ b[2] = <<"wait", v>>
    BY DEF CancelSync, Instr
  <2>. HIDE DEF a, b
  <2>2. /\ c \in Seq(Instr) /\ c # << >> /\ Len(c) = 4 /\ Head(c) = c[1]
        /\ c[1] = <<"cancel", u>> /\ c[2] = <<"wait", u>>
        /\ c[3] = <<"cancel", v>> /\ c[4] = <<"wait", v>>
    <3>1. c \in Seq(Instr) /\ Len(c) = 4
      BY <2>1, Concatenation
    <3>2. c[1] = a[1] /\ c[2] = a[2]
      BY <2>1, <3>1
    <3>3. c[3] = b[1] /\ c[4] = b[2]
      BY <2>1, <3>1, 3 - 2 = 1, 4 - 2 = 2
    <3>. QED BY <2>1, <3>1, <3>2, <3>3
  <2>. HIDE DEF c
  <2>3. \A i \in 1..Len(c) : i \in {1, 2, 3, 4}
    BY <2>2
  <2>4. Paired(c)
    BY <2>2, <2>3 DEF Paired
  <2>5. StoreShape(c)
    BY <2>2, <2>3 DEF StoreShape, Stops
  <2>6. \A w \in Works : WillStop(c, w)
    <3>1. 1 \in 1..Len(c) /\ 3 \in 1..Len(c) /\ \A w \in Works : w = u \/ w = v
      BY <1>1, <2>2 DEF Works
    <3>. QED BY <2>2, <3>1 DEF WillStop
  <2>7. Head(c)[1] # "wait" /\ Unscheduled(c)
    BY <2>2, <2>3 DEF Unscheduled
  <2>8. OnlyStops(c)
    BY <2>2, <2>3 DEF OnlyStops, Stops
  <2>. QED BY <2>2, <2>4, <2>5, <2>6, <2>7, <2>8 DEF Fine, a, b, c
<1>. QED BY <1>1 DEF CancelBoth, Works

\* The pieces the stores are made of.
LEMMA Pieces ==
  /\ Quiet(<< >>) /\ Quiet(<<Paint>>)
  /\ \A b : Quiet(b) => Body(b) /\ Unscheduled(b)
  /\ \A w \in Works, f \in {"level", "cnt", "max_cnt", "en"}, v \in Levels \cup Nat :
       Quiet(<<Set(w, f, v)>>)
  /\ \A w \in Works, r \in Attributes \X Nat :
       Body(<<Schedule(w, r)>>) /\ Body(<<Paint, Schedule(w, r)>>)
<1>1. Quiet(<< >>)
  BY DEF Quiet
<1>2. Quiet(<<Paint>>)
  BY DEF Quiet, Instr, Paint, Stops
<1>3. \A b : Quiet(b) => Body(b) /\ Unscheduled(b)
  BY DEF Quiet, Body, Unscheduled
<1>4. ASSUME NEW w \in Works, NEW f \in {"level", "cnt", "max_cnt", "en"}, NEW v \in Levels \cup Nat
      PROVE  Quiet(<<Set(w, f, v)>>)
  <2>1. Set(w, f, v) \in Instr
    BY DEF Instr
  <2>2. ~Stops(Set(w, f, v)) /\ Set(w, f, v)[1] # "schedule"
    BY DEF Set, Stops
  <2>. QED BY <2>1, <2>2 DEF Quiet
<1>5. ASSUME NEW w \in Works, NEW r \in Attributes \X Nat
      PROVE  Body(<<Schedule(w, r)>>) /\ Body(<<Paint, Schedule(w, r)>>)
  <2>1. Schedule(w, r) \in Instr
    BY DEF Instr
  <2>2. Paint \in Instr /\ ~Stops(Paint) /\ Paint[1] # "schedule"
    BY DEF Instr, Paint, Stops
  <2>3. ~Stops(Schedule(w, r))
    BY DEF Schedule, Stops
  <2>. QED BY <2>1, <2>2, <2>3 DEF Body
<1>. QED BY <1>1, <1>2, <1>3, <1>4, <1>5

\* The assignments to br_ops cancel and schedule nothing.
LEMMA OpsQuiet ==
  ASSUME NEW level \in Levels, NEW n \in Nat
  PROVE  Quiet(BreathingOps(level, n))
<1>. DEFINE b == BreathingOps(level, n)
<1>1. /\ Set("breathing", "cnt", 0) \in Instr /\ Set("breathing", "en", 0) \in Instr
      /\ Set("breathing", "max_cnt", n) \in Instr /\ Set("breathing", "level", level) \in Instr
  <2>1. \A w \in Works, f \in {"level", "cnt", "max_cnt", "en"}, v \in Levels \cup Nat :
          Set(w, f, v) \in Instr
    BY DEF Instr
  <2>. QED BY <2>1 DEF Works
<1>2. b \in Seq(Instr) /\ Len(b) = 4
  BY <1>1 DEF BreathingOps
<1>3. \A i \in 1..4 : b[i][1] = "set"
  BY DEF BreathingOps, Set
<1>. QED BY <1>2, <1>3 DEF Quiet, Stops

\* Nor do register writes between the cancellations and the rest of a store.
LEMMA ThenQuiet ==
  ASSUME NEW c, NEW b, Fine(c), Unscheduled(c), Quiet(b)
  PROVE  Fine(c \o b) /\ Unscheduled(c \o b)
BY Pieces, ThenBody

\* A store may cancel again: breathing_store does for 100.
LEMMA ThenCancel ==
  ASSUME NEW c \in Seq(Instr), Fine(c), OnlyStops(c), NEW w \in Works
  PROVE  Fine(c \o CancelSync(w)) /\ Unscheduled(c \o CancelSync(w))
<1>. DEFINE b == CancelSync(w)
            d == c \o b
            n == Len(c)
<1>1. /\ b \in Seq(Instr) /\ Len(b) = 2
      /\ b[1] = <<"cancel", w>> /\ b[2] = <<"wait", w>>
  BY DEF CancelSync, Instr
<1>2. c \in Seq(Instr) /\ n \in Nat /\ n > 0 /\ Head(c) = c[1]
  BY DEF Fine
<1>. HIDE DEF b
<1>3. /\ d \in Seq(Instr) /\ Len(d) = n + 2 /\ Head(d) = d[1]
      /\ \A i \in 1..n : d[i] = c[i]
  <2>0. b \in Seq(Instr) /\ c \in Seq(Instr) /\ Len(b) = 2 /\ Len(c) \in Nat
    BY <1>1, <1>2
  <2>1. d \in Seq(Instr) /\ Len(d) = n + 2
    <3>1. b \in Seq(Instr) /\ c \in Seq(Instr)
      BY <2>0
    <3>2. d \in Seq(Instr) /\ Len(d) = Len(c) + Len(b)
      BY <3>1, ConcatProperties
    <3>. QED BY <2>0, <3>2
  <2>2. \A i \in 1..n : d[i] = c[i]
    BY <2>0, Concatenation
  <2>3. d # << >>
    BY <2>1, <1>2
  <2>. QED BY <2>1, <2>2, <2>3
<1>4. d[n + 1] = <<"cancel", w>> /\ d[n + 2] = <<"wait", w>>
  <2>1. n + 1 \in 1..Len(d) /\ n + 2 \in 1..Len(d) /\ n + 1 - n = 1 /\ n + 2 - n = 2
    BY <1>2, <1>3
  <2>2. n + 1 \notin 1..n /\ n + 2 \notin 1..n
    BY <1>2
  <2>. QED BY <1>1, <1>2, <2>1, <2>2, Concatenation
<1>. HIDE DEF d, n
<1>5. \A i \in 1..Len(d) : i \in 1..n \/ i = n + 1 \/ i = n + 2
  BY <1>2, <1>3
<1>6. Paired(d)
  <2>1. ASSUME NEW i \in 2..Len(d), d[i][1] = "wait"
        PROVE  d[i - 1] = <<"cancel", d[i][2]>>
    <3>1. CASE i \in 1..n
      <4>1. i \in 2..Len(c) /\ d[i] = c[i] /\ d[i - 1] = c[i - 1]
        BY <3>1, <1>2, <1>3, <2>1 DEF n
      <4>. QED BY <4>1, <2>1 DEF Fine, Paired
    <3>2. CASE i = n + 1
      BY <3>2, <1>4, <2>1
    <3>3. CASE i = n + 2
      BY <3>3, <1>2, <1>4
    <3>. QED BY <3>1, <3>2, <3>3, <1>5
  <2>2. ASSUME NEW i \in 1..Len(d), d[i][1] = "cancel"
        PROVE  i < Len(d) /\ d[i + 1] = <<"wait", d[i][2]>>
    <3>1. CASE i \in 1..n
      <4>1. i < n /\ c[i + 1] = <<"wait", c[i][2]>> /\ d[i] = c[i]
        BY <3>1, <1>3, <2>2 DEF Fine, Paired, n
      <4>. QED BY <4>1, <3>1, <1>2, <1>3
    <3>2. CASE i = n + 1
      BY <3>2, <1>2, <1>3, <1>4
    <3>3. CASE i = n + 2
      BY <3>3, <1>4, <2>2
    <3>. QED BY <3>1, <3>2, <3>3, <1>5
  <2>. QED BY <2>1, <2>2 DEF Paired
<1>7. OnlyStops(d)
  BY <1>3, <1>4, <1>5 DEF OnlyStops, Stops, n
<1>8. StoreShape(d) /\ Unscheduled(d)
  BY <1>7 DEF StoreShape, Unscheduled, OnlyStops, Stops
<1>9. \A v \in Works : WillStop(d, v)
  <2>1. \A i \in 1..Len(c) : i \in 1..Len(d) /\ d[i] = c[i]
    BY <1>2, <1>3 DEF n
  <2>. QED BY <2>1 DEF Fine, WillStop
<1>10. d # << >> /\ Head(d)[1] # "wait"
  BY <1>2, <1>3 DEF Fine
<1>. QED BY <1>3, <1>6, <1>8, <1>9, <1>10 DEF Fine, d, b

\* Every store that cancels both work items begins, goes on and ends as it should.
LEMMA StoresFine ==
  ASSUME NEW r \in Requests, r[1] \in Cancelling
  PROVE  Fine(Program(r))
<1>. DEFINE a == r[1]
            v == r[2]
<1>1. r \in Attributes \X Nat /\ a \in Attributes /\ v \in Nat /\ r = <<a, v>>
  BY RingAssumption
<1>2. \A b : Body(b) => Fine(CancelBoth \o b)
  BY CancelsFine, ThenBody
<1>3. \A w \in Works : Body(<<Schedule(w, r)>>) /\ Body(<<Paint, Schedule(w, r)>>)
  BY <1>1, Pieces
<1>4. Body(<< >>) /\ v \in Nat
  BY <1>1, Pieces
<1>. HIDE DEF a, v
<1>5. CASE a = "breathing"
  <2>1. Body(<<Paint>> \o BreathingOps("BR_NORMAL", v) \o <<Schedule("breathing", r)>>)
    <3>0. Quiet(<<Paint>>)
      BY Pieces
    <3>1. Quiet(BreathingOps("BR_NORMAL", v))
      BY <1>4, OpsQuiet DEF Levels
    <3>2. Quiet(<<Paint>> \o BreathingOps("BR_NORMAL", v))
      BY <3>0, <3>1, QuietThenQuiet
    <3>. QED BY <1>3, <3>2, QuietThenBody DEF Works
  <2>2. Fine(CancelBoth \o (CancelSync("breathing") \o <<Paint>>))
    <3>1. Fine(CancelBoth \o CancelSync("breathing")) /\ Unscheduled(CancelBoth \o CancelSync("breathing"))
      BY CancelsFine, ThenCancel DEF Works, Fine
    <3>2. Fine((CancelBoth \o CancelSync("breathing")) \o <<Paint>>)
      BY <3>1, Pieces, ThenQuiet
    <3>3. CancelBoth \in Seq(Instr) /\ CancelSync("breathing") \in Seq(Instr) /\ <<Paint>> \in Seq(Instr)
      BY CancelsFine DEF Fine, CancelSync, Instr, Works
    <3>4. (CancelBoth \o CancelSync("breathing")) \o <<Paint>>
            = CancelBoth \o (CancelSync("breathing") \o <<Paint>>)
      BY <3>3, ConcatAssociative
    <3>. QED BY <3>2, <3>4
  <2>3. r = <<"breathing", v>>
    BY <1>1, <1>5 DEF a, v
  <2>4. Fine(Breathing(v))
    <3>1. CASE v \in 1..99
      BY <1>2, <2>1, <2>3, <3>1 DEF Breathing
    <3>2. CASE v \notin 1..99
      BY <1>2, <1>4, <2>2, <3>2 DEF Breathing
    <3>. QED BY <3>1, <3>2
  <2>. QED BY <2>4, <1>5 DEF Program, a, v
<1>6. CASE a = "br_white"
  <2>. DEFINE b == << Set("breathing", "cnt", 6), Set("breathing", "max_cnt", 5),
                      Set("breathing", "en", IF v = 0 THEN 0 ELSE 1),
                      Set("breathing", "level", IF v = 0 THEN "STOP" ELSE "BR_White"),
                      Schedule("breathing", r) >>
  <2>1. /\ Set("breathing", "cnt", 6) \in Instr /\ Set("breathing", "max_cnt", 5) \in Instr
        /\ Set("breathing", "en", IF v = 0 THEN 0 ELSE 1) \in Instr
        /\ Set("breathing", "level", IF v = 0 THEN "STOP" ELSE "BR_White") \in Instr
    <3>1. \A w \in Works, f \in {"level", "cnt", "max_cnt", "en"}, x \in Levels \cup Nat :
            Set(w, f, x) \in Instr
      BY DEF Instr
    <3>. QED BY <3>1 DEF Works, Levels
  <2>2. Schedule("breathing", r) \in Instr
    BY <1>1 DEF Instr, Works
  <2>3. b \in Seq(Instr) /\ Len(b) = 5
    BY <2>1, <2>2
  <2>4. (\A i \in 1..4 : b[i][1] = "set") /\ b[5][1] = "schedule"
    BY DEF Set, Schedule
  <2>5. Body(b)
    BY <2>3, <2>4 DEF Body, Stops
  <2>6. r = <<"br_white", v>>
    BY <1>1, <1>6 DEF a, v
  <2>7. Fine(White(v))
    BY <1>2, <2>5, <2>6 DEF White
  <2>. QED BY <2>7, <1>6 DEF Program, a, v
<1>7. CASE a = "br2colors"
  <2>1. Body(BreathingOps("BR_2COLORS", v) \o <<Paint, Schedule("breathing", r)>>)
    <3>1. Quiet(BreathingOps("BR_2COLORS", v))
      BY <1>4, OpsQuiet DEF Levels
    <3>. QED BY <1>3, <3>1, QuietThenBody DEF Works
  <2>2. r = <<"br2colors", v>>
    BY <1>1, <1>7 DEF a, v
  <2>3. Fine(TwoColors(v))
    <3>1. CASE v \in 1..99
      BY <1>2, <2>1, <2>2, <3>1 DEF TwoColors
    <3>2. CASE v \notin 1..99
      BY <1>2, <1>4, <3>2 DEF TwoColors
    <3>. QED BY <3>1, <3>2
  <2>. QED BY <2>3, <1>7 DEF Program, a, v
<1>8. CASE a = "brlogscale"
  <2>1. Body(<<Paint>> \o BreathingOps("BR_LOGSCALE", v) \o <<Paint, Schedule("breathing", r)>>)
    <3>1. Quiet(<<Paint>>)
      BY Pieces
    <3>2. Quiet(BreathingOps("BR_LOGSCALE", v))
      BY <1>4, OpsQuiet DEF Levels
    <3>3. Quiet(<<Paint>> \o BreathingOps("BR_LOGSCALE", v))
      BY <3>1, <3>2, QuietThenQuiet
    <3>. QED BY <1>3, <3>3, QuietThenBody DEF Works
  <2>2. r = <<"brlogscale", v>>
    BY <1>1, <1>8 DEF a, v
  <2>3. Fine(LogScale(v))
    <3>1. CASE v \in 1..7
      BY <1>2, <2>1, <2>2, <3>1 DEF LogScale
    <3>2. CASE v \notin 1..7
      BY <1>2, <1>4, <3>2 DEF LogScale
    <3>. QED BY <3>1, <3>2
  <2>. QED BY <2>3, <1>8 DEF Program, a, v
<1>9. CASE a \in {"br_demo", "br_logscale_demo"}
  <2>1. \A b : Body(b) => Fine(CancelBoth \o <<Paint>> \o b)
    <3>1. Fine(CancelBoth \o <<Paint>>) /\ Unscheduled(CancelBoth \o <<Paint>>)
      BY CancelsFine, Pieces, ThenQuiet
    <3>. QED BY <3>1, ThenBody
  <2>2. ASSUME NEW level \in Levels
        PROVE  Fine(Demo(level, r))
    <3>. DEFINE b == << Set("breathing", "level", level), Set("breathing", "max_cnt", v),
                        Schedule("breathing", r) >>
    <3>1. Set("breathing", "level", level) \in Instr /\ Set("breathing", "max_cnt", v) \in Instr
      <4>1. \A w \in Works, f \in {"level", "cnt", "max_cnt", "en"}, x \in Levels \cup Nat :
              Set(w, f, x) \in Instr
        BY DEF Instr
      <4>. QED BY <1>4, <4>1 DEF Works
    <3>2. Schedule("breathing", r) \in Instr
      BY <1>1 DEF Instr, Works
    <3>3. b \in Seq(Instr) /\ Len(b) = 3
      BY <3>1, <3>2
    <3>4. b[1][1] = "set" /\ b[2][1] = "set" /\ b[3][1] = "schedule"
      BY DEF Set, Schedule
    <3>5. Body(b)
      BY <3>3, <3>4 DEF Body, Stops
    <3>6. CASE v \in 1..99
      BY <2>1, <3>5, <3>6 DEF Demo, v
    <3>7. CASE v \notin 1..99
      BY <2>1, <1>4, <3>7 DEF Demo, v
    <3>. QED BY <3>6, <3>7
  <2>. QED BY <2>2, <1>9 DEF Program, a, Levels
<1>10. CASE a = "chase"
  <2>1. \A b : Body(b) => Fine(CancelSync("breathing") \o CancelSync("chase") \o b)
    BY CancelsFine, ThenBody
  <2>. DEFINE b == << Set("chase", "level", v), Set("chase", "cnt", 0), Set("chase", "max_cnt", 1) >>
              d == IF Repeats(v) > 1 THEN <<Set("chase", "max_cnt", Repeats(v))>> ELSE << >>
  <2>2. \A w \in Works, f \in {"level", "cnt", "max_cnt", "en"}, x \in Levels \cup Nat :
          Set(w, f, x) \in Instr /\ Quiet(<<Set(w, f, x)>>)
    BY Pieces DEF Instr
  <2>3. Quiet(b)
    <3>0. /\ Set("chase", "level", v) \in Instr /\ Set("chase", "cnt", 0) \in Instr
          /\ Set("chase", "max_cnt", 1) \in Instr
      BY <1>4, <2>2 DEF Works
    <3>1. b \in Seq(Instr) /\ Len(b) = 3
      BY <3>0
    <3>2. \A i \in 1..3 : b[i][1] = "set"
      BY DEF Set
    <3>. QED BY <3>1, <3>2 DEF Quiet, Stops
  <2>4. Quiet(d)
    <3>1. Repeats(v) \in Nat
      BY DEF Repeats
    <3>. QED BY <3>1, <2>2, Pieces DEF Works
  <2>. HIDE DEF b, d
  <2>5. Body(b \o d \o <<Paint, Schedule("chase", r)>>)
    <3>1. Quiet(b \o d)
      BY <2>3, <2>4, QuietThenQuiet
    <3>. QED BY <1>3, <3>1, QuietThenBody DEF Works
  <2>6. r = <<"chase", v>>
    BY <1>1, <1>10 DEF a, v
  <2>7. Fine(Chase(v))
    <3>1. CASE v \in 0..19
      BY <2>1, <2>5, <2>6, <3>1 DEF Chase, b, d
    <3>2. CASE v \notin 0..19
      BY <2>1, <1>4, <3>2 DEF Chase
    <3>. QED BY <3>1, <3>2
  <2>. QED BY <2>7, <1>10 DEF Program, a, v
<1>11. CASE a \in {"brightextend", "fade_rate", "ce_temp"}
  <2>1. Fine(Control)
    BY <1>2, Pieces DEF Control
  <2>. QED BY <2>1, <1>11 DEF Program, a
<1>. QED BY <1>5, <1>6, <1>7, <1>8, <1>9, <1>10, <1>11 DEF Cancelling, a

-----------------------------------------------------------------------------
(* The invariant is inductive.                                             *)

\* What the instructions that concern a work item look like.
LEMMA InstrForms ==
  \A x \in Instr :
    /\ x[1] = "cancel" => x[2] \in Works /\ x = <<"cancel", x[2]>>
    /\ x[1] = "wait" => x[2] \in Works /\ x = <<"wait", x[2]>>
    /\ x[1] = "schedule" => x[2] \in Works
BY DEF Instr, Paint, Set, Schedule

\* A step that takes an instruction from a thread, none that concerns the work
\* items, and adds instructions of the same kind to a work item.
LEMMA PlainStep ==
  ASSUME RingInv, NEW t \in Threads, NEW b \in Seq(Instr),
         code[t] # << >>, Head(code[t])[1] \notin {"cancel", "wait", "schedule"},
         code' = [code EXCEPT ![t] = b \o Tail(@)],
         UNCHANGED <<pending, canceller>>,
         \A i \in 1..Len(b) : ~Stops(b[i]),
         t \in Callers => b = << >>,
         t \in Works => OwnShape(b, t)
  PROVE  RingInv'
<1>. DEFINE c == code[t]
            d == b \o Tail(c)
<1>1. /\ c \in Seq(Instr) /\ c # << >> /\ Paired(c) /\ Head(c) = c[1]
      /\ Tail(c) \in Seq(Instr) /\ Len(Tail(c)) = Len(c) - 1
      /\ \A i \in 1..Len(Tail(c)) : Tail(c)[i] = c[i + 1]
      /\ Len(c) \in Nat /\ Len(c) > 0
  BY TailShape DEF RingInv, Shapes
<1>2. d \in Seq(Instr) /\ Paired(d)
  BY <1>1, GoesShape
<1>3. code' = [code EXCEPT ![t] = d] /\ code \in [Threads -> Seq(Instr)]
  BY DEF RingInv, Shapes
<1>4. code'[t] = d /\ \A u \in Threads \ {t} : code'[u] = code[u]
  BY <1>3
<1>5. \A i \in 1..Len(d) :
        \/ i \in 1..Len(b) /\ d[i] = b[i]
        \/ i - Len(b) \in 1..Len(Tail(c)) /\ d[i] = Tail(c)[i - Len(b)]
  BY <1>1, Concatenation
<1>6. b = << >> => d = Tail(c)
  BY <1>1
<1>. HIDE DEF d
<1>7. Shapes'
  <2>1. ASSUME t \in Callers
        PROVE  StoreShape(d)
    <3>1. d = Tail(c) /\ StoreShape(c)
      BY <1>6, <2>1 DEF RingInv, Shapes
    <3>2. \A i \in 1..Len(d) : i + 1 \in 1..Len(c) /\ d[i] = c[i + 1]
      BY <1>1, <3>1
    <3>3. \A i, j \in 1..Len(d) : i < j => i + 1 < j + 1
      OBVIOUS
    <3>4. ASSUME NEW i \in 1..Len(d), NEW j \in 1..Len(d), i < j, Stops(d[j])
          PROVE  Stops(d[i])
      BY <3>1, <3>2, <3>3, <3>4 DEF StoreShape
    <3>5. ASSUME NEW i \in 1..Len(d), d[i][1] = "schedule"
          PROVE  i = Len(d)
      <4>1. i + 1 = Len(c)
        BY <3>1, <3>2, <3>5 DEF StoreShape
      <4>. QED BY <4>1, <1>1, <3>1
    <3>. QED BY <3>4, <3>5 DEF StoreShape
  <2>2. ASSUME t \in Works
        PROVE  OwnShape(d, t)
    <3>1. OwnShape(c, t)
      BY <2>2 DEF RingInv, Shapes
    <3>2. \A i \in 1..Len(Tail(c)) : i + 1 \in 1..Len(c) /\ Tail(c)[i] = c[i + 1]
      BY <1>1
    <3>. QED BY <1>5, <2>2, <3>1, <3>2, SMTT(30) DEF OwnShape
  <2>3. Callers \subseteq Threads /\ Works \subseteq Threads
    BY DEF Threads
  <2>. QED BY <1>2, <1>3, <1>4, <2>1, <2>2, <2>3 DEF RingInv, Shapes
<1>8. Cancels'
  <2>1. ASSUME NEW w \in Works
        PROVE  ~(d # << >> /\ Head(d) = <<"wait", w>>)
    <3>1. SUFFICES ASSUME d # << >>, Head(d) = <<"wait", w>>
                   PROVE  FALSE
      OBVIOUS
    <3>2. 1 \in 1..Len(d) /\ d[1] = <<"wait", w>>
      BY <1>2, <3>1
    <3>3. 1 - Len(b) \in 1..Len(Tail(c)) /\ d[1] = Tail(c)[1 - Len(b)]
      BY <1>5, <3>2 DEF Stops
    <3>4. Len(b) = 0 /\ Len(c) >= 2 /\ c[2] = <<"wait", w>>
      BY <1>1, <3>2, <3>3
    <3>5. 2 \in 2..Len(c) /\ 2 - 1 = 1 /\ c[2][1] = "wait"
      BY <1>1, <3>4
    <3>6. c[1] = <<"cancel", c[2][2]>>
      BY <1>1, <3>5 DEF Paired
    <3>. QED BY <1>1, <3>6
  <2>. QED BY <1>4, <2>1 DEF RingInv, Cancels
<1>9. \A w \in Works : Active(w)' => Active(w)
  BY <1>4 DEF Active, Threads
<1>10. Stopped'
  <2>1. ASSUME NEW p \in Callers, NEW w \in Works, code'[p] # << >>, ~WillStop(code'[p], w)
        PROVE  ~Active(w)'
    <3>1. CASE p = t
      <4>1. d = Tail(c)
        BY <1>6, <2>1, <3>1
      <4>2. ~WillStop(c, w)
        <5>1. SUFFICES ASSUME NEW i \in 1..Len(c), c[i] \in {<<"cancel", w>>, <<"wait", w>>}
                       PROVE  FALSE
          BY DEF WillStop
        <5>2. i # 1
          BY <1>1, <5>1
        <5>3. i - 1 \in 1..Len(d) /\ d[i - 1] = c[i]
          BY <1>1, <4>1, <5>2
        <5>. QED BY <5>1, <5>3, <1>4, <2>1, <3>1 DEF WillStop
      <4>. QED BY <1>1, <1>9, <3>1, <4>2 DEF RingInv, Stopped
    <3>2. CASE p # t
      <4>1. code'[p] = code[p]
        BY <1>4, <3>2 DEF Threads
      <4>. QED BY <1>9, <2>1, <4>1 DEF RingInv, Stopped
    <3>. QED BY <3>1, <3>2
  <2>. QED BY <2>1 DEF Stopped
<1>11. OneActive'
  BY <1>9 DEF RingInv, OneActive, Works
<1>. QED BY <1>7, <1>8, <1>10, <1>11 DEF RingInv

\* A step that takes an instruction from a thread and adds none.
LEMMA Pop ==
  ASSUME Shapes, NEW t \in Threads, code[t] # << >>,
         code' = [code EXCEPT ![t] = << >> \o Tail(@)]
  PROVE  /\ Shapes'
         /\ code'[t] = Tail(code[t]) /\ \A u \in Threads \ {t} : code'[u] = code[u]
         /\ Paired(code[t]) /\ Head(code[t]) = code[t][1] /\ code[t][1] \in Instr
         /\ Len(code[t]) \in Nat /\ Len(code[t]) > 0 /\ Len(code'[t]) = Len(code[t]) - 1
         /\ \A i \in 1..Len(code[t]) - 1 : code'[t][i] = code[t][i + 1]
         /\ code'[t] # << >> => Len(code[t]) > 1 /\ Head(code'[t]) = code[t][2]
<1>. DEFINE c == code[t]
            d == Tail(c)
<1>1. /\ c \in Seq(Instr) /\ c # << >> /\ Paired(c) /\ Head(c) = c[1] /\ c[1] \in Instr
      /\ d \in Seq(Instr) /\ Len(d) = Len(c) - 1
      /\ \A i \in 1..Len(d) : d[i] = c[i + 1]
      /\ Len(c) \in Nat /\ Len(c) > 0 /\ Paired(d)
  BY TailShape DEF Shapes
<1>2. code' = [code EXCEPT ![t] = d]
  BY <1>1
<1>3. code'[t] = d /\ \A u \in Threads \ {t} : code'[u] = code[u]
  BY <1>2 DEF Shapes
<1>. HIDE DEF d
<1>4. \A i \in 1..Len(d) : i + 1 \in 1..Len(c) /\ d[i] = c[i + 1]
  BY <1>1
<1>5. ASSUME t \in Callers
      PROVE  StoreShape(d)
  <2>1. StoreShape(c)
    BY <1>5 DEF Shapes
  <2>2. \A i, j \in 1..Len(d) : i < j => i + 1 < j + 1
    OBVIOUS
  <2>3. ASSUME NEW i \in 1..Len(d), NEW j \in 1..Len(d), i < j, Stops(d[j])
        PROVE  Stops(d[i])
    BY <1>4, <2>1, <2>2, <2>3 DEF StoreShape
  <2>4. ASSUME NEW i \in 1..Len(d), d[i][1] = "schedule"
        PROVE  i = Len(d)
    <3>1. i + 1 = Len(c)
      BY <1>4, <2>1, <2>4 DEF StoreShape
    <3>. QED BY <3>1, <1>1
  <2>. QED BY <2>3, <2>4 DEF StoreShape
<1>6. ASSUME t \in Works
      PROVE  OwnShape(d, t)
  BY <1>4, <1>6, SMTT(30) DEF Shapes, OwnShape
<1>7. Shapes'
  <2>1. Callers \subseteq Threads /\ Works \subseteq Threads
    BY DEF Threads
  <2>. QED BY <1>1, <1>2, <1>3, <1>5, <1>6, <2>1 DEF Shapes
<1>8. d # << >> => Len(c) > 1 /\ Head(d) = c[2]
  <2>1. d # << >> => Len(d) > 0 /\ Head(d) = d[1]
    BY <1>1
  <2>2. Len(d) > 0 => 1 \in 1..Len(d) /\ 1 + 1 = 2
    BY <1>1
  <2>. QED BY <1>1, <1>4, <2>1, <2>2
<1>. QED BY <1>1, <1>3, <1>4, <1>7, <1>8

\* cancel_work_sync takes the work item off the queue and becomes its canceller.
LEMMA CancelStep ==
  ASSUME RingInv, NEW t \in Threads, Cancel(t)
  PROVE  RingInv'
<1>. DEFINE w == Arg(t, 2)
<1>1. code[t] # << >> /\ code' = [code EXCEPT ![t] = << >> \o Tail(@)] /\ Shapes
      /\ Head(code[t])[1] = "cancel" /\ canceller[w] = Nobody
      /\ canceller' = [canceller EXCEPT ![w] = t] /\ pending' = [pending EXCEPT ![w] = FALSE]
  BY DEF RingInv, Cancel, At, Goes
<1>2. /\ Shapes' /\ code'[t] = Tail(code[t]) /\ \A u \in Threads \ {t} : code'[u] = code[u]
      /\ Paired(code[t]) /\ Head(code[t]) = code[t][1] /\ code[t][1] \in Instr
      /\ Len(code[t]) \in Nat /\ Len(code[t]) > 0 /\ Len(code'[t]) = Len(code[t]) - 1
      /\ \A i \in 1..Len(code[t]) - 1 : code'[t][i] = code[t][i + 1]
      /\ code'[t] # << >> => Len(code[t]) > 1 /\ Head(code'[t]) = code[t][2]
  BY <1>1, Pop
<1>3. w \in Works /\ code[t][1] = <<"cancel", w>>
  BY <1>1, <1>2, InstrForms DEF Arg
<1>4. Len(code[t]) > 1 /\ code[t][2] = <<"wait", w>>
  <2>1. 1 \in 1..Len(code[t]) /\ 1 + 1 = 2
    BY <1>2
  <2>. QED BY <1>2, <1>3, <2>1 DEF Paired
<1>. HIDE DEF w
<1>5. /\ canceller \in [Works -> Threads \cup {Nobody}] /\ pending \in [Works -> BOOLEAN]
      /\ canceller'[w] = t /\ ~pending'[w]
      /\ \A v \in Works \ {w} : canceller'[v] = canceller[v] /\ pending'[v] = pending[v]
  BY <1>1, <1>3 DEF RingInv, Cancels
<1>6. Cancels'
  <2>1. canceller' \in [Works -> Threads \cup {Nobody}] /\ pending' \in [Works -> BOOLEAN]
    BY <1>1, <1>5
  <2>2. ASSUME NEW u \in Threads, NEW v \in Works,
               code'[u] # << >>, Head(code'[u]) = <<"wait", v>>
        PROVE  canceller'[v] = u /\ ~pending'[v]
    <3>1. CASE u = t
      <4>1. code'[t] # << >> /\ Head(code'[t]) = <<"wait", v>>
        BY <2>2, <3>1
      <4>2. code[t][2] = <<"wait", v>>
        BY <1>2, <4>1
      <4>3. v = w
        BY <1>4, <4>2
      <4>. QED BY <1>5, <3>1, <4>3
    <3>2. CASE u # t
      <4>1. canceller[v] = u /\ ~pending[v]
        BY <1>2, <2>2, <3>2 DEF RingInv, Cancels
      <4>2. v # w
        BY <1>1, <4>1, RingAssumption
      <4>. QED BY <1>5, <4>1, <4>2
    <3>. QED BY <3>1, <3>2
  <2>. QED BY <2>1, <2>2 DEF Cancels
<1>7. \A v \in Works : Active(v)' => Active(v)
  BY <1>1, <1>2, <1>5 DEF Active, Threads
<1>8. ASSUME NEW p \in Callers, NEW v \in Works, code'[p] # << >>, ~WillStop(code'[p], v)
      PROVE  ~Active(v)'
  <2>1. CASE p = t
    <3>1. 1 \in 1..Len(code'[t]) /\ code'[t][1] = <<"wait", w>>
      BY <1>2, <1>4
    <3>2. v # w
      BY <1>8, <2>1, <3>1 DEF WillStop
    <3>3. ~WillStop(code[p], v)
      <4>1. SUFFICES ASSUME NEW i \in 1..Len(code[t]), code[t][i] \in {<<"cancel", v>>, <<"wait", v>>}
                     PROVE  FALSE
        BY <2>1 DEF WillStop
      <4>2. i # 1
        BY <1>3, <3>2, <4>1
      <4>3. i - 1 \in 1..Len(code'[t]) /\ code'[t][i - 1] = code[t][i]
        BY <1>2, <4>2
      <4>. QED BY <4>1, <4>3, <1>8, <2>1 DEF WillStop
    <3>. QED BY <1>1, <1>7, <2>1, <3>3 DEF RingInv, Stopped
  <2>2. CASE p # t
    <3>1. code'[p] = code[p]
      BY <1>2, <2>2 DEF Threads
    <3>. QED BY <1>7, <1>8, <3>1 DEF RingInv, Stopped
  <2>. QED BY <2>1, <2>2
<1>9. OneActive'
  BY <1>7 DEF RingInv, OneActive, Works
<1>. QED BY <1>2, <1>6, <1>8, <1>9 DEF RingInv, Stopped

\* Its return stops the work item: it is neither queued nor running.
LEMMA WaitStep ==
  ASSUME RingInv, NEW t \in Threads, Wait(t)
  PROVE  RingInv'
<1>. DEFINE w == Arg(t, 2)
<1>1. code[t] # << >> /\ code' = [code EXCEPT ![t] = << >> \o Tail(@)] /\ Shapes
      /\ Head(code[t])[1] = "wait" /\ code[w] = << >>
      /\ canceller' = [canceller EXCEPT ![w] = Nobody] /\ pending' = pending
  BY DEF RingInv, Wait, At, Goes
<1>2. /\ Shapes' /\ code'[t] = Tail(code[t]) /\ \A u \in Threads \ {t} : code'[u] = code[u]
      /\ Paired(code[t]) /\ Head(code[t]) = code[t][1] /\ code[t][1] \in Instr
      /\ Len(code[t]) \in Nat /\ Len(code[t]) > 0 /\ Len(code'[t]) = Len(code[t]) - 1
      /\ \A i \in 1..Len(code[t]) - 1 : code'[t][i] = code[t][i + 1]
      /\ code'[t] # << >> => Len(code[t]) > 1 /\ Head(code'[t]) = code[t][2]
  BY <1>1, Pop
<1>3. w \in Works /\ code[t][1] = <<"wait", w>>
  BY <1>1, <1>2, InstrForms DEF Arg
<1>. HIDE DEF w
<1>4. /\ canceller \in [Works -> Threads \cup {Nobody}] /\ pending \in [Works -> BOOLEAN]
      /\ \A v \in Works \ {w} : canceller'[v] = canceller[v]
      /\ canceller[w] = t /\ ~pending[w]
  BY <1>1, <1>2, <1>3 DEF RingInv, Cancels
<1>5. Cancels'
  <2>1. canceller' \in [Works -> Threads \cup {Nobody}] /\ pending' \in [Works -> BOOLEAN]
    BY <1>1, <1>4
  <2>2. ASSUME NEW u \in Threads, NEW v \in Works,
               code'[u] # << >>, Head(code'[u]) = <<"wait", v>>
        PROVE  canceller'[v] = u /\ ~pending'[v]
    <3>1. CASE u = t
      <4>1. code'[t] # << >> /\ Head(code'[t]) = <<"wait", v>>
        BY <2>2, <3>1
      <4>2. Len(code[t]) > 1 /\ code[t][2] = <<"wait", v>>
        BY <1>2, <4>1
      <4>3. 2 \in 2..Len(code[t]) /\ 2 - 1 = 1 /\ code[t][2][1] = "wait"
        BY <1>2, <4>2
      <4>4. code[t][1] = <<"cancel", code[t][2][2]>>
        <5>1. \A i \in 2..Len(code[t]) :
                code[t][i][1] = "wait" => code[t][i - 1] = <<"cancel", code[t][i][2]>>
          BY <1>2 DEF Paired
        <5>. QED BY <4>3, <5>1
      <4>. QED BY <1>3, <4>4
    <3>2. CASE u # t
      <4>1. canceller[v] = u /\ ~pending[v]
        BY <1>2, <2>2, <3>2 DEF RingInv, Cancels
      <4>. QED BY <1>1, <1>4, <3>2, <4>1
    <3>. QED BY <3>1, <3>2
  <2>. QED BY <2>1, <2>2 DEF Cancels
<1>6. \A v \in Works : Active(v)' => Active(v)
  BY <1>1, <1>2 DEF Active, Threads
<1>7. ASSUME NEW p \in Callers, NEW v \in Works, code'[p] # << >>, ~WillStop(code'[p], v)
      PROVE  ~Active(v)'
  <2>1. CASE p = t /\ v = w
    BY <1>1, <1>3, <1>4, <1>6, <2>1 DEF Active
  <2>2. CASE p = t /\ v # w
    <3>1. ~WillStop(code[p], v)
      <4>1. SUFFICES ASSUME NEW i \in 1..Len(code[t]), code[t][i] \in {<<"cancel", v>>, <<"wait", v>>}
                     PROVE  FALSE
        BY <2>2 DEF WillStop
      <4>2. i # 1
        BY <1>3, <2>2, <4>1
      <4>3. i - 1 \in 1..Len(code'[t]) /\ code'[t][i - 1] = code[t][i]
        BY <1>2, <4>2
      <4>. QED BY <4>1, <4>3, <1>7, <2>2 DEF WillStop
    <3>. QED BY <1>1, <1>6, <2>2, <3>1 DEF RingInv, Stopped
  <2>3. CASE p # t
    <3>1. code'[p] = code[p]
      BY <1>2, <2>3 DEF Threads
    <3>. QED BY <1>6, <1>7, <3>1 DEF RingInv, Stopped
  <2>. QED BY <2>1, <2>2, <2>3
<1>8. OneActive'
  BY <1>6 DEF RingInv, OneActive, Works
<1>. QED BY <1>2, <1>5, <1>7, <1>8 DEF RingInv, Stopped

\* schedule_work, from a store that has stopped both work items or from the item itself.
LEMMA ScheduleStep ==
  ASSUME RingInv, NEW t \in Threads, DoSchedule(t), OneProcess
  PROVE  RingInv'
<1>. DEFINE w == Arg(t, 2)
<1>1. code[t] # << >> /\ code' = [code EXCEPT ![t] = << >> \o Tail(@)] /\ Shapes
      /\ Head(code[t])[1] = "schedule"
      /\ canceller' = canceller
      /\ pending' = [pending EXCEPT ![w] = @ \/ canceller[w] = Nobody]
  BY DEF RingInv, DoSchedule, At, Goes
<1>2. /\ Shapes' /\ code'[t] = Tail(code[t]) /\ \A u \in Threads \ {t} : code'[u] = code[u]
      /\ Paired(code[t]) /\ Head(code[t]) = code[t][1] /\ code[t][1] \in Instr
      /\ Len(code[t]) \in Nat /\ Len(code[t]) > 0 /\ Len(code'[t]) = Len(code[t]) - 1
      /\ \A i \in 1..Len(code[t]) - 1 : code'[t][i] = code[t][i + 1]
      /\ code'[t] # << >> => Len(code[t]) > 1 /\ Head(code'[t]) = code[t][2]
  BY <1>1, Pop
<1>3. w \in Works /\ 1 \in 1..Len(code[t]) /\ code[t][1][1] = "schedule" /\ code[t][1][2] = w
  BY <1>1, <1>2, InstrForms DEF Arg
<1>. HIDE DEF w
<1>4. /\ canceller \in [Works -> Threads \cup {Nobody}] /\ pending \in [Works -> BOOLEAN]
      /\ pending'[w] = (pending[w] \/ canceller[w] = Nobody)
      /\ \A v \in Works \ {w} : pending'[v] = pending[v]
  BY <1>1, <1>3 DEF RingInv, Cancels
<1>5. Cancels'
  <2>1. canceller' \in [Works -> Threads \cup {Nobody}] /\ pending' \in [Works -> BOOLEAN]
    BY <1>1, <1>4
  <2>2. ASSUME NEW u \in Threads, NEW v \in Works,
               code'[u] # << >>, Head(code'[u]) = <<"wait", v>>
        PROVE  canceller'[v] = u /\ ~pending'[v]
    <3>1. CASE u = t
      <4>1. code'[t] # << >> /\ Head(code'[t]) = <<"wait", v>>
        BY <2>2, <3>1
      <4>2. Len(code[t]) > 1 /\ code[t][2] = <<"wait", v>>
        BY <1>2, <4>1
      <4>3. 2 \in 2..Len(code[t]) /\ 2 - 1 = 1 /\ code[t][2][1] = "wait"
        BY <1>2, <4>2
      <4>4. code[t][1] = <<"cancel", code[t][2][2]>>
        <5>1. \A i \in 2..Len(code[t]) :
                code[t][i][1] = "wait" => code[t][i - 1] = <<"cancel", code[t][i][2]>>
          BY <1>2 DEF Paired
        <5>. QED BY <4>3, <5>1
      <4>. QED BY <1>3, <4>4
    <3>2. CASE u # t
      <4>1. canceller[v] = u /\ ~pending[v]
        BY <1>2, <2>2, <3>2 DEF RingInv, Cancels
      <4>. QED BY <1>1, <1>4, <4>1, RingAssumption
    <3>. QED BY <3>1, <3>2
  <2>. QED BY <2>1, <2>2 DEF Cancels
<1>6. CASE t \in Works
  <2>1. w = t
    BY <1>3, <1>6 DEF RingInv, Shapes, OwnShape
  <2>2. \A v \in Works : Active(v)' => Active(v)
    BY <1>1, <1>2, <1>4, <2>1 DEF Active, Threads
  <2>3. ASSUME NEW p \in Callers, NEW v \in Works, code'[p] # << >>, ~WillStop(code'[p], v)
        PROVE  ~Active(v)'
    <3>1. p # t /\ code'[p] = code[p]
      BY <1>2, <1>6, RingAssumption DEF Threads
    <3>. QED BY <2>2, <2>3, <3>1 DEF RingInv, Stopped
  <2>4. OneActive'
    BY <2>2 DEF RingInv, OneActive, Works
  <2>. QED BY <1>2, <1>5, <2>3, <2>4 DEF RingInv, Stopped
<1>7. CASE t \in Callers
  <2>1. Len(code[t]) = 1
    BY <1>3, <1>7 DEF RingInv, Shapes, StoreShape
  <2>2. code'[t] = << >>
    BY <1>2, <2>1
  <2>3. \A v \in Works : ~WillStop(code[t], v)
    BY <1>3, <2>1 DEF WillStop
  <2>4. \A v \in Works : ~Active(v)
    BY <1>1, <1>7, <2>3 DEF RingInv, Stopped
  <2>5. \A v \in Works \ {w} : ~Active(v)'
    <3>1. \A v \in Works : code'[v] = code[v]
      BY <1>2, <1>7, RingAssumption DEF Threads
    <3>. QED BY <1>4, <2>4, <3>1 DEF Active
  <2>6. OneActive'
    BY <2>5 DEF OneActive, Works
  <2>7. Stopped'
    BY <1>7, <2>2 DEF Stopped, OneProcess
  <2>. QED BY <1>2, <1>5, <2>6, <2>7 DEF RingInv
<1>. QED BY <1>6, <1>7 DEF Threads

\* A process enters a store.
LEMMA CallStep ==
  ASSUME RingInv, OnlyCancelling, NEW p \in Callers, Call(p)
  PROVE  RingInv'
<1>1. PICK r \in Requests : code' = [code EXCEPT ![p] = Program(r)]
  BY DEF Call
<1>2. Fine(Program(r))
  BY StoresFine DEF OnlyCancelling
<1>. DEFINE c == Program(r)
<1>. HIDE DEF c
<1>3. UNCHANGED <<pending, canceller>> /\ code' = [code EXCEPT ![p] = c] /\ Fine(c)
      /\ code \in [Threads -> Seq(Instr)]
  BY <1>1, <1>2 DEF Call, chipVars, c, RingInv, Shapes
<1>4. p \in Threads /\ p \notin Works /\ code'[p] = c /\ c \in Seq(Instr)
      /\ \A u \in Threads \ {p} : code'[u] = code[u]
  BY <1>3, RingAssumption DEF Threads, Fine
<1>5. Shapes'
  BY <1>3, <1>4 DEF RingInv, Shapes, Fine, Threads
<1>6. Cancels'
  <2>1. canceller' \in [Works -> Threads \cup {Nobody}] /\ pending' \in [Works -> BOOLEAN]
    BY <1>3 DEF RingInv, Cancels
  <2>2. ASSUME NEW u \in Threads, NEW v \in Works,
               code'[u] # << >>, Head(code'[u]) = <<"wait", v>>
        PROVE  canceller'[v] = u /\ ~pending'[v]
    <3>1. u # p
      BY <1>3, <1>4, <2>2 DEF Fine
    <3>2. code'[u] = code[u]
      BY <1>4, <3>1
    <3>. QED BY <1>3, <2>2, <3>2 DEF RingInv, Cancels
  <2>. QED BY <2>1, <2>2 DEF Cancels
<1>7. \A v \in Works : Active(v)' = Active(v)
  BY <1>3, <1>4 DEF Active, Threads
<1>8. ASSUME NEW q \in Callers, NEW v \in Works, code'[q] # << >>, ~WillStop(code'[q], v)
      PROVE  ~Active(v)'
  <2>1. q # p
    BY <1>3, <1>4, <1>8 DEF Fine
  <2>2. code'[q] = code[q]
    BY <1>4, <2>1 DEF Threads
  <2>. QED BY <1>7, <1>8, <2>2 DEF RingInv, Stopped
<1>9. OneActive'
  BY <1>7 DEF RingInv, OneActive, Works
<1>. QED BY <1>5, <1>6, <1>8, <1>9 DEF RingInv, Stopped

\* The workqueue starts a queued work item.
LEMMA StartStep ==
  ASSUME RingInv, NEW w \in Works, WorkStart(w)
  PROVE  RingInv'
<1>. DEFINE c == WorkCode(w)
<1>1. c \in Seq(Instr) /\ Paired(c) /\ OwnShape(c, w) /\ c # << >> /\ Head(c)[1] # "wait"
  <2>1. CASE w = "chase"
    <3>. DEFINE x == CancelSync("breathing")
                y == << <<"switch", w>> >>
    <3>1. c = x \o y
      BY <2>1 DEF WorkCode
    <3>2. /\ x \in Seq(Instr) /\ Len(x) = 2
          /\ x[1] = <<"cancel", "breathing">> /\ x[2] = <<"wait", "breathing">>
          /\ y \in Seq(Instr) /\ Len(y) = 1 /\ y[1] = <<"switch", w>>
      BY DEF CancelSync, Instr, Works
    <3>. HIDE DEF c, x, y
    <3>3. c \in Seq(Instr) /\ Len(c) = 3
      <4>1. x \in Seq(Instr) /\ y \in Seq(Instr)
        BY <3>2
      <4>2. c \in Seq(Instr) /\ Len(c) = Len(x) + Len(y)
        BY <3>1, <4>1, ConcatProperties
      <4>. QED BY <3>2, <4>2
    <3>4. c[1] = <<"cancel", "breathing">> /\ c[2] = <<"wait", "breathing">>
          /\ c[3] = <<"switch", w>> /\ Head(c) = c[1] /\ c # << >>
      <4>1. c[1] = x[1] /\ c[2] = x[2]
        BY <3>1, <3>2, <3>3
      <4>2. c[3] = y[1]
        <5>1. x \in Seq(Instr) /\ y \in Seq(Instr)
          BY <3>2
        <5>2. \A i \in 1..Len(x) + Len(y) : c[i] = IF i <= Len(x) THEN x[i] ELSE y[i - Len(x)]
          BY <3>1, <5>1, ConcatProperties
        <5>3. 3 \in 1..Len(x) + Len(y) /\ ~(3 <= Len(x)) /\ 3 - Len(x) = 1
          BY <3>2
        <5>. QED BY <5>2, <5>3
      <4>. QED BY <3>2, <3>3, <4>1, <4>2
    <3>5. \A i \in 1..Len(c) : i \in {1, 2, 3}
      BY <3>3
    <3>6. Paired(c)
      BY <3>3, <3>4, <3>5 DEF Paired
    <3>. QED BY <3>3, <3>4, <3>5, <3>6 DEF OwnShape
  <2>2. CASE w = "breathing"
    <3>1. c = << <<"load", w>>, <<"count", w>>, <<"switch", w>> >>
      BY <2>2 DEF WorkCode
    <3>2. c \in Seq(Instr) /\ Len(c) = 3
      BY <3>1 DEF Instr
    <3>. HIDE DEF c
    <3>3. \A i \in 1..Len(c) : c[i][1] \notin {"cancel", "wait", "schedule"}
      BY <3>1, <3>2
    <3>4. Head(c) = c[1] /\ c # << >>
      BY <3>2
    <3>. QED BY <3>2, <3>3, <3>4 DEF Paired, OwnShape
  <2>. QED BY <2>1, <2>2 DEF Works
<1>. HIDE DEF c
<1>2. /\ code' = [code EXCEPT ![w] = c] /\ pending' = [pending EXCEPT ![w] = FALSE]
      /\ pending[w] /\ canceller' = canceller
      /\ code \in [Threads -> Seq(Instr)] /\ pending \in [Works -> BOOLEAN]
      /\ canceller \in [Works -> Threads \cup {Nobody}]
  BY DEF WorkStart, c, RingInv, Shapes, Cancels
<1>3. /\ w \in Threads /\ w \notin Callers
      /\ code'[w] = c /\ \A u \in Threads \ {w} : code'[u] = code[u]
      /\ \A v \in Works \ {w} : pending'[v] = pending[v]
  BY <1>2, RingAssumption DEF Threads
<1>4. Shapes'
  BY <1>1, <1>2, <1>3 DEF RingInv, Shapes, Threads
<1>5. \A v \in Works : pending'[v] => pending[v]
  BY <1>2, <1>3
<1>6. Cancels'
  <2>1. canceller' \in [Works -> Threads \cup {Nobody}] /\ pending' \in [Works -> BOOLEAN]
    BY <1>2
  <2>2. ASSUME NEW u \in Threads, NEW v \in Works,
               code'[u] # << >>, Head(code'[u]) = <<"wait", v>>
        PROVE  canceller'[v] = u /\ ~pending'[v]
    <3>1. u # w
      BY <1>1, <1>3, <2>2
    <3>2. code'[u] = code[u]
      BY <1>3, <3>1
    <3>3. canceller[v] = u /\ ~pending[v]
      BY <2>2, <3>2 DEF RingInv, Cancels
    <3>. QED BY <1>2, <1>5, <3>3
  <2>. QED BY <2>1, <2>2 DEF Cancels
<1>7. \A v \in Works : Active(v)' => Active(v)
  BY <1>2, <1>3, <1>5 DEF Active, Threads
<1>8. ASSUME NEW q \in Callers, NEW v \in Works, code'[q] # << >>, ~WillStop(code'[q], v)
      PROVE  ~Active(v)'
  <2>1. code'[q] = code[q]
    BY <1>3 DEF Threads
  <2>. QED BY <1>7, <1>8, <2>1 DEF RingInv, Stopped
<1>9. OneActive'
  BY <1>7 DEF RingInv, OneActive, Works
<1>. QED BY <1>4, <1>6, <1>8, <1>9 DEF RingInv, Stopped

\* What a work item adds to its own code.
Own(b, w) ==
  b \in Seq(Instr) /\ OwnShape(b, w) /\ \A i \in 1..Len(b) : ~Stops(b[i])

\* The pieces the two work functions are made of.
LEMMA OwnPieces ==
  ASSUME NEW w \in Works
  PROVE  /\ \A b : Quiet(b) => Own(b, w)
         /\ Quiet(<< <<"load", w>>, <<"test", w>> >>) /\ Quiet(<< <<"enabled", w>> >>)
         /\ Quiet(<<Set(w, "cnt", 6), Paint>>)
         /\ Quiet(<<Set(w, "cnt", 0), Set(w, "level", CHASE_OFF), Paint>>)
         /\ Quiet(<<Set(w, "cnt", 0), Set(w, "max_cnt", 0), Set(w, "en", 0),
                    Set(w, "level", "BR_OFF")>>)
         /\ Own(<<Schedule(w, Again)>>, w)
         /\ Own(<< <<"load", w>>, <<"count", w>>, Schedule(w, Again) >>, w)
<1>1. /\ <<"load", w>> \in Instr /\ <<"count", w>> \in Instr /\ <<"test", w>> \in Instr
      /\ <<"enabled", w>> \in Instr /\ Schedule(w, Again) \in Instr /\ Paint \in Instr
  BY DEF Instr
<1>2. /\ Set(w, "cnt", 6) \in Instr /\ Set(w, "cnt", 0) \in Instr
      /\ Set(w, "level", CHASE_OFF) \in Instr /\ Set(w, "max_cnt", 0) \in Instr
      /\ Set(w, "en", 0) \in Instr /\ Set(w, "level", "BR_OFF") \in Instr
  <2>1. \A f \in {"level", "cnt", "max_cnt", "en"}, x \in Levels \cup Nat : Set(w, f, x) \in Instr
    BY DEF Instr
  <2>. QED BY <2>1 DEF Levels, CHASE_OFF
<1>3. /\ \A f, x : Set(w, f, x)[1] = "set"
      /\ Paint[1] = "paint" /\ Schedule(w, Again)[1] = "schedule" /\ Schedule(w, Again)[2] = w
  BY DEF Set, Paint, Schedule
<1>4. \A b : Quiet(b) => Own(b, w)
  BY DEF Quiet, Own, OwnShape
<1>5. Quiet(<< <<"load", w>>, <<"test", w>> >>) /\ Quiet(<< <<"enabled", w>> >>)
  BY <1>1 DEF Quiet, Stops
<1>6. Quiet(<<Set(w, "cnt", 6), Paint>>)
  BY <1>1, <1>2, <1>3 DEF Quiet, Stops
<1>7. Quiet(<<Set(w, "cnt", 0), Set(w, "level", CHASE_OFF), Paint>>)
  BY <1>1, <1>2, <1>3 DEF Quiet, Stops
<1>8. Quiet(<<Set(w, "cnt", 0), Set(w, "max_cnt", 0), Set(w, "en", 0), Set(w, "level", "BR_OFF")>>)
  BY <1>1, <1>2, <1>3 DEF Quiet, Stops
<1>9. Own(<<Schedule(w, Again)>>, w)
  BY <1>1, <1>3 DEF Own, OwnShape, Stops
<1>10. Own(<< <<"load", w>>, <<"count", w>>, Schedule(w, Again) >>, w)
  BY <1>1, <1>3 DEF Own, OwnShape, Stops
<1>. QED BY <1>4, <1>5, <1>6, <1>7, <1>8, <1>9, <1>10

\* A step of a work item that changes nothing but its own code and its counters.
LEMMA OwnStep ==
  ASSUME RingInv, NEW w \in Works, NEW b, Own(b, w), code[w] # << >>,
         Head(code[w])[1] \notin {"cancel", "wait", "schedule"},
         Goes(w, b), UNCHANGED <<pending, canceller>>
  PROVE  RingInv'
<1>1. w \in Threads /\ w \notin Callers
  BY RingAssumption DEF Threads
<1>2. code' = [code EXCEPT ![w] = b \o Tail(@)]
  BY DEF Goes
<1>3. b \in Seq(Instr) /\ OwnShape(b, w) /\ \A i \in 1..Len(b) : ~Stops(b[i])
  BY DEF Own
<1>. QED BY <1>1, <1>2, <1>3, PlainStep

\* Every step keeps the invariant: one case per action of a thread.
LEMMA Inductive ==
  ASSUME RingInv, [Next]_vars, OneProcess, OnlyCancelling
  PROVE  RingInv'
<1>1. ASSUME NEW p \in Callers, Call(p)
      PROVE  RingInv'
  BY <1>1, CallStep
<1>2. ASSUME NEW t \in Threads, Step(t)
      PROVE  RingInv'
  <2>1. ASSUME DoPaint(t) \/ DoSet(t)
        PROVE  RingInv'
    <3>. DEFINE b == << >>
    <3>1. /\ code[t] # << >> /\ Head(code[t])[1] \notin {"cancel", "wait", "schedule"}
          /\ code' = [code EXCEPT ![t] = b \o Tail(@)] /\ UNCHANGED <<pending, canceller>>
      BY <2>1 DEF DoPaint, DoSet, At, Goes, chipVars
    <3>2. /\ b \in Seq(Instr) /\ OwnShape(b, t) /\ b = << >>
          /\ \A i \in 1..Len(b) : ~Stops(b[i])
      BY DEF OwnShape
    <3>. HIDE DEF b
    <3>. QED BY <3>1, <3>2, PlainStep
  <2>2. CASE Cancel(t)
    BY <2>2, CancelStep
  <2>3. CASE Wait(t)
    BY <2>3, WaitStep
  <2>4. CASE DoSchedule(t)
    BY <2>4, ScheduleStep
  <2>. QED BY <1>2, <2>1, <2>2, <2>3, <2>4 DEF Step
<1>3. ASSUME NEW w \in Works, WorkStep(w)
      PROVE  RingInv'
  <2>1. CASE Step(w)
    BY <1>2, <2>1 DEF Threads
  <2>2. CASE WorkStart(w)
    BY <2>2, StartStep
  <2>3. CASE Load(w) \/ Count(w)
    <3>1. /\ code[w] # << >> /\ Head(code[w])[1] \notin {"cancel", "wait", "schedule"}
          /\ Goes(w, << >>) /\ UNCHANGED <<pending, canceller>>
      BY <2>3 DEF Load, Count, At
    <3>. QED BY <3>1, Pieces, OwnPieces, OwnStep
  <2>4. CASE Switch(w)
    <3>. DEFINE x == IF w = "chase"
                       THEN IF ops[w].level \in 1..CHASE_AMZ THEN <<Paint>> ELSE << >>
                     ELSE IF ops[w].level = "BR_White" THEN <<Set(w, "cnt", 6), Paint>>
                     ELSE <<Paint>>
                y == << <<"load", w>>, <<"test", w>> >>
    <3>1. /\ code[w] # << >> /\ Head(code[w])[1] \notin {"cancel", "wait", "schedule"}
          /\ Goes(w, x \o y) /\ UNCHANGED <<pending, canceller>>
      BY <2>4 DEF Switch, At, chipVars
    <3>2. Quiet(x) /\ Quiet(y)
      BY Pieces, OwnPieces
    <3>. HIDE DEF x, y
    <3>3. Own(x \o y, w)
      BY <3>2, QuietThenQuiet, OwnPieces
    <3>. QED BY <3>1, <3>3, OwnStep
  <2>5. CASE Test(w)
    <3>. DEFINE x == IF loaded[w] < ops[w].max_cnt
                       THEN IF w = "chase" THEN << <<"load", w>>, <<"count", w>>, Schedule(w, Again) >>
                            ELSE <<Schedule(w, Again)>>
                     ELSE IF w = "chase" THEN <<Set(w, "cnt", 0), Set(w, "level", CHASE_OFF), Paint>>
                     ELSE << <<"enabled", w>> >>
    <3>1. /\ code[w] # << >> /\ Head(code[w])[1] \notin {"cancel", "wait", "schedule"}
          /\ Goes(w, x) /\ UNCHANGED <<pending, canceller>>
      BY <2>5 DEF Test, At
    <3>2. Own(x, w)
      BY OwnPieces
    <3>. HIDE DEF x
    <3>. QED BY <3>1, <3>2, OwnStep
  <2>6. CASE EnabledTest(w)
    <3>. DEFINE x == IF ops[w].en >= 1 THEN <<Schedule(w, Again)>>
                     ELSE << Set(w, "cnt", 0), Set(w, "max_cnt", 0), Set(w, "en", 0),
                             Set(w, "level", "BR_OFF") >>
    <3>1. /\ code[w] # << >> /\ Head(code[w])[1] \notin {"cancel", "wait", "schedule"}
          /\ Goes(w, x) /\ UNCHANGED <<pending, canceller>>
      BY <2>6 DEF EnabledTest, At, chipVars
    <3>2. Own(x, w)
      BY OwnPieces
    <3>. HIDE DEF x
    <3>. QED BY <3>1, <3>2, OwnStep
  <2>. QED BY <1>3, <2>1, <2>2, <2>3, <2>4, <2>5, <2>6 DEF WorkStep
<1>4. CASE UNCHANGED <<pending, canceller, code>>
  BY <1>4 DEF RingInv, Shapes, Cancels, Stopped, OneActive, Active
<1>5. Remove \/ Free \/ UseAfterFree \/ Probe \/ UNCHANGED vars
        => UNCHANGED <<pending, canceller, code>>
  BY DEF Remove, Free, UseAfterFree, Probe, vars, chipVars
<1>. QED BY <1>1, <1>2, <1>3, <1>4, <1>5 DEF Next, Threads

\* The invariant holds after probe.
LEMMA InitInv == Init => RingInv
<1>. SUFFICES ASSUME Init
              PROVE  RingInv
  OBVIOUS
<1>1. \A t \in Threads : code[t] = << >>
  BY DEF Init
<1>2. Shapes
  BY <1>1 DEF Init, Shapes, Paired, StoreShape, OwnShape, Threads
<1>3. Cancels
  BY <1>1 DEF Init, Cancels
<1>4. Stopped /\ OneActive
  BY <1>1 DEF Init, Stopped, OneActive, Active, Works, Threads
<1>. QED BY <1>2, <1>3, <1>4 DEF RingInv

\* Under the invariant one thread at most writes registers.
LEMMA InvImpliesOnePainter ==
  ASSUME RingInv, OneProcess
  PROVE  OnePainter
<1>1. SUFFICES ASSUME NEW t \in Threads, NEW u \in Threads, Painting(t), Painting(u), t # u
               PROVE  FALSE
  BY DEF OnePainter
<1>2. ASSUME NEW p \in Callers, NEW w \in Works, Painting(p), Painting(w)
      PROVE  FALSE
  <2>1. /\ code[p] \in Seq(Instr) /\ code[p] # << >> /\ Head(code[p]) = Paint
        /\ StoreShape(code[p]) /\ p \in Threads
    BY <1>2 DEF Painting, RingInv, Shapes, Threads
  <2>2. code[p][1][1] = "paint" /\ 1 \in 1..Len(code[p])
    BY <2>1 DEF Paint
  <2>3. \A i \in 1..Len(code[p]) : i = 1 \/ 1 < i
    OBVIOUS
  <2>4. \A i \in 1..Len(code[p]) : ~Stops(code[p][i])
    BY <2>1, <2>2, <2>3 DEF StoreShape, Stops
  <2>5. ~WillStop(code[p], w)
    BY <2>4 DEF WillStop, Stops
  <2>6. ~Active(w)
    BY <2>1, <2>5 DEF RingInv, Stopped
  <2>. QED BY <1>2, <2>6 DEF Active, Painting
<1>3. CASE t \in Works /\ u \in Works
  BY <1>1, <1>3 DEF RingInv, OneActive, Active, Painting, Works
<1>4. CASE t \in Callers /\ u \in Callers
  BY <1>1, <1>4 DEF OneProcess
<1>. QED BY <1>1, <1>2, <1>3, <1>4 DEF Threads

\* As long as one process at a time writes the attribute files and uses the
\* stores that cancel both work items (leds-ktd2061.c:1209-1210 and its likes), no
\* two threads write the LED registers at once: for every set of such requests,
\* every count, unbinding and rebinding included.
THEOREM OnePainterHolds ==
  ASSUME OneProcess, OnlyCancelling
  PROVE  Spec => []OnePainter
<1>1. Init => RingInv
  BY InitInv
<1>2. RingInv /\ [Next]_vars => RingInv'
  BY Inductive
<1>3. RingInv => OnePainter
  BY InvImpliesOnePainter
<1>. QED BY <1>1, <1>2, <1>3, PTL DEF Spec

-----------------------------------------------------------------------------
(* Type correctness, which needs none of the above: every instruction is   *)
(* one that keeps the fields it writes in range.                           *)

BreathingRecords ==
  [level : Levels, en : {0, 1}, cnt : 0..CountBound, max_cnt : Nat]
ChaseRecords == [level : 0..19, cnt : 0..CountBound, max_cnt : Nat]

\* The writes of a field that keep it in range.
TypedSets ==
  {Set(w, "cnt", v) : w \in Works, v \in 0..CountBound}
    \cup {Set(w, "max_cnt", v) : w \in Works, v \in Nat}
    \cup {Set("breathing", "en", v) : v \in {0, 1}}
    \cup {Set("breathing", "level", v) : v \in Levels}
    \cup {Set("chase", "level", v) : v \in 0..19}

Orders == {Schedule(w, r) : w \in Works, r \in (Attributes \X Nat) \cup {Again}}
TypedInstr ==
  {Paint} \cup ({"cancel", "wait", "load", "count", "switch", "test"} \X Works)
    \cup TypedSets \cup Orders

\* Only the breathing looks at en.
InstrOf(t) == TypedInstr \cup (IF t = "breathing" THEN {<<"enabled", t>>} ELSE {})

\* With the fields and the codes in range, TypeOK says nothing more.
Ranges ==
  /\ DOMAIN ops = Works
  /\ ops["breathing"] \in BreathingRecords /\ ops["chase"] \in ChaseRecords
  /\ DOMAIN code = Threads /\ \A t \in Threads : code[t] \in Seq(InstrOf(t))
  /\ pending \in [Works -> BOOLEAN] /\ canceller \in [Works -> Threads \cup {Nobody}]
  /\ loaded \in [Works -> 0..CountBound] /\ dev \in {"bound", "removing", "freed", "undefined"}
  /\ served \in [Works -> (Attributes \X Nat) \cup {Again}]
  /\ cycles \in [Works -> 0..CycleBound]

\* The instructions of the stores, one by one.
LEMMA TypedPieces ==
  /\ Paint \in TypedInstr
  /\ \A w \in Works, v \in 0..CountBound : Set(w, "cnt", v) \in TypedInstr
  /\ \A w \in Works, v \in Nat : Set(w, "max_cnt", v) \in TypedInstr
  /\ \A v \in {0, 1} : Set("breathing", "en", v) \in TypedInstr
  /\ \A v \in Levels : Set("breathing", "level", v) \in TypedInstr
  /\ \A v \in 0..19 : Set("chase", "level", v) \in TypedInstr
  /\ \A w \in Works, a \in Attributes, v \in Nat : Schedule(w, <<a, v>>) \in TypedInstr
  /\ \A w \in Works : Schedule(w, Again) \in TypedInstr
  /\ \A w \in Works : CancelSync(w) \in Seq(TypedInstr)
  /\ \A w \in Works, op \in {"cancel", "wait", "load", "count", "switch", "test"} :
       <<op, w>> \in TypedInstr
  /\ 0 \in 0..CountBound /\ 6 \in 0..CountBound /\ "chase" \in Works /\ "breathing" \in Works
<1>1. 0 \in 0..CountBound /\ 6 \in 0..CountBound /\ "chase" \in Works /\ "breathing" \in Works
  BY RingAssumption DEF Works
<1>2. \A w \in Works, op \in {"cancel", "wait", "load", "count", "switch", "test"} :
        <<op, w>> \in TypedInstr
  BY DEF TypedInstr
<1>3. \A w \in Works : CancelSync(w) \in Seq(TypedInstr)
  <2>1. ASSUME NEW w \in Works PROVE CancelSync(w) \in Seq(TypedInstr)
    <3>1. <<"cancel", w>> \in TypedInstr /\ <<"wait", w>> \in TypedInstr
      BY <1>2
    <3>. HIDE DEF TypedInstr
    <3>. QED BY <3>1 DEF CancelSync
  <2>. QED BY <2>1
<1>4. /\ Paint \in TypedInstr
      /\ \A w \in Works, v \in 0..CountBound : Set(w, "cnt", v) \in TypedInstr
      /\ \A w \in Works, v \in Nat : Set(w, "max_cnt", v) \in TypedInstr
      /\ \A v \in {0, 1} : Set("breathing", "en", v) \in TypedInstr
      /\ \A v \in Levels : Set("breathing", "level", v) \in TypedInstr
      /\ \A v \in 0..19 : Set("chase", "level", v) \in TypedInstr
  BY DEF TypedInstr, TypedSets
<1>5. /\ \A w \in Works, a \in Attributes, v \in Nat : Schedule(w, <<a, v>>) \in TypedInstr
      /\ \A w \in Works : Schedule(w, Again) \in TypedInstr
  BY DEF TypedInstr, Orders
<1>. QED BY <1>1, <1>2, <1>3, <1>4, <1>5

\* Each store is made of them.
LEMMA TypedPrograms == \A r \in Requests : Program(r) \in Seq(TypedInstr)
<1>. SUFFICES ASSUME NEW r \in Requests PROVE Program(r) \in Seq(TypedInstr)
  OBVIOUS
<1>. DEFINE v == r[2]
            S == Seq(TypedInstr)
<1>. HIDE DEF TypedInstr
<1>1. r = <<r[1], v>> /\ r[1] \in Attributes /\ v \in Nat
  BY RingAssumption
<1>2. \A a, b \in S : a \o b \in S
  OBVIOUS
<1>3. << >> \in S /\ <<Paint>> \in S /\ CancelBoth \in S
      /\ CancelSync("breathing") \in S /\ CancelSync("chase") \in S
  BY TypedPieces, <1>2 DEF CancelBoth
<1>4. \A level \in Levels, n \in Nat : BreathingOps(level, n) \in S
  BY TypedPieces DEF BreathingOps
<1>5. \A w \in Works, a \in Attributes : <<Schedule(w, <<a, v>>)>> \in S
  BY TypedPieces, <1>1
<1>6. \A w \in Works, a \in Attributes : <<Paint, Schedule(w, <<a, v>>)>> \in S
  BY TypedPieces, <1>1
<1>. USE TypedPieces, <1>1, <1>2, <1>3
<1>7. Breathing(v) \in S
  <2>1. BreathingOps("BR_NORMAL", v) \in S /\ <<Schedule("breathing", <<"breathing", v>>)>> \in S
    BY <1>4, <1>5 DEF Levels, Attributes
  <2>. QED BY <2>1 DEF Breathing
<1>8. White(v) \in S
  <2>. DEFINE en == IF v = 0 THEN 0 ELSE 1
              level == IF v = 0 THEN "STOP" ELSE "BR_White"
  <2>1. Set("breathing", "en", en) \in TypedInstr
    BY DEF Levels
  <2>2. Set("breathing", "level", level) \in TypedInstr
    BY DEF Levels
  <2>3. Schedule("breathing", <<"br_white", v>>) \in TypedInstr
    BY DEF Attributes
  <2>. HIDE DEF en, level
  <2>4. Set("breathing", "cnt", 6) \in TypedInstr /\ Set("breathing", "max_cnt", 5) \in TypedInstr
    OBVIOUS
  <2>5. << Set("breathing", "cnt", 6), Set("breathing", "max_cnt", 5), Set("breathing", "en", en),
           Set("breathing", "level", level), Schedule("breathing", <<"br_white", v>>) >> \in S
    <3>1. \A a, b, c, d, e \in TypedInstr : <<a, b, c, d, e>> \in S
      OBVIOUS
    <3>. QED BY ONLY <2>1, <2>2, <2>3, <2>4, <3>1
  <2>. QED BY <2>5 DEF White, en, level
<1>9. TwoColors(v) \in S
  <2>1. BreathingOps("BR_2COLORS", v) \in S
        /\ <<Paint, Schedule("breathing", <<"br2colors", v>>)>> \in S
    BY <1>4, <1>6 DEF Levels, Attributes
  <2>. QED BY <2>1 DEF TwoColors
<1>10. LogScale(v) \in S
  <2>1. BreathingOps("BR_LOGSCALE", v) \in S
        /\ <<Paint, Schedule("breathing", <<"brlogscale", v>>)>> \in S
    BY <1>4, <1>6 DEF Levels, Attributes
  <2>. QED BY <2>1 DEF LogScale
<1>11. \A level \in Levels : Demo(level, r) \in S
  <2>1. ASSUME NEW level \in Levels
        PROVE  << Set("breathing", "level", level), Set("breathing", "max_cnt", r[2]),
                  Schedule("breathing", r) >> \in S
    <3>1. Schedule("breathing", r) \in TypedInstr
      BY Zenon
    <3>. QED BY <3>1, <2>1
  <2>. QED BY <2>1 DEF Demo
<1>12. Flower(v) \in S
  <2>1. BreathingOps("BR_FLOWERS", v) \in S
        /\ <<Paint, Schedule("breathing", <<"flower", v>>)>> \in S
    BY <1>4, <1>6 DEF Levels, Attributes
  <2>. QED BY <2>1 DEF Flower
<1>13. Chase(v) \in S
  <2>1. Repeats(v) \in Nat
    BY DEF Repeats
  <2>2. Set("chase", "max_cnt", Repeats(v)) \in TypedInstr
    BY <2>1
  <2>3. <<Set("chase", "max_cnt", Repeats(v))>> \in S
    BY <2>2
  <2>4. ASSUME v \in 0..19
        PROVE  << Set("chase", "level", v), Set("chase", "cnt", 0), Set("chase", "max_cnt", 1) >> \in S
    <3>1. /\ Set("chase", "level", v) \in TypedInstr /\ Set("chase", "cnt", 0) \in TypedInstr
          /\ Set("chase", "max_cnt", 1) \in TypedInstr
      BY <2>4
    <3>2. \A a, b, c \in TypedInstr : <<a, b, c>> \in S
      OBVIOUS
    <3>. QED BY ONLY <3>1, <3>2
  <2>5. <<Paint, Schedule("chase", <<"chase", v>>)>> \in S
    BY <1>6 DEF Attributes
  <2>. QED BY <2>3, <2>4, <2>5 DEF Chase
<1>14. ChasingDemo(v) \in S
  <2>1. Set("chase", "level", CHASE_DEMO) \in TypedInstr
    BY DEF CHASE_DEMO
  <2>2. Schedule("chase", <<"chasing_demo", v>>) \in TypedInstr
    BY DEF Attributes
  <2>3. <<Paint, Set("chase", "level", CHASE_DEMO), Schedule("chase", <<"chasing_demo", v>>)>> \in S
    BY <2>1, <2>2
  <2>. QED BY <2>3 DEF ChasingDemo
<1>15. Racing(v) \in S /\ Mode(v) \in S /\ Control \in S
  BY DEF Racing, Mode, Control
<1>16. Demo("BR_DEMO", r) \in S /\ Demo("BR_LOGSCALE_DEMO", r) \in S
  BY <1>11 DEF Levels
<1>. HIDE DEF S
<1>17. Program(r) \in S
  <2>1. CASE r[1] = "breathing"
    BY ONLY <1>7, <2>1 DEF Program
  <2>2. CASE r[1] = "br_white"
    BY ONLY <1>8, <2>2 DEF Program
  <2>3. CASE r[1] = "br2colors"
    BY ONLY <1>9, <2>3 DEF Program
  <2>4. CASE r[1] = "brlogscale"
    BY ONLY <1>10, <2>4 DEF Program
  <2>5. CASE r[1] = "br_demo"
    BY ONLY <1>16, <2>5 DEF Program
  <2>6. CASE r[1] = "br_logscale_demo"
    BY ONLY <1>16, <2>6 DEF Program
  <2>7. CASE r[1] = "flower"
    BY ONLY <1>12, <2>7 DEF Program
  <2>8. CASE r[1] = "chase"
    BY ONLY <1>13, <2>8 DEF Program
  <2>9. CASE r[1] = "chasing_demo"
    BY ONLY <1>14, <2>9 DEF Program
  <2>10. CASE r[1] = "racing"
    BY ONLY <1>15, <2>10 DEF Program
  <2>11. CASE r[1] = "mode"
    BY ONLY <1>15, <2>11 DEF Program
  <2>12. CASE r[1] = "brightextend"
    BY ONLY <1>15, <2>12 DEF Program
  <2>13. CASE r[1] = "fade_rate"
    BY ONLY <1>15, <2>13 DEF Program
  <2>14. CASE r[1] = "ce_temp"
    BY ONLY <1>15, <2>14 DEF Program
  <2>. QED
    BY ONLY <1>1, <2>1, <2>2, <2>3, <2>4, <2>5, <2>6, <2>7,
       <2>8, <2>9, <2>10, <2>11, <2>12, <2>13, <2>14 DEF Attributes
<1>. QED BY <1>17 DEF S

\* What an instruction that a thread is about to execute is.
LEMMA HeadTyped ==
  ASSUME Ranges, NEW t \in Threads, NEW op, At(t, op)
  PROVE  /\ code[t] \in Seq(InstrOf(t)) /\ Head(code[t]) \in InstrOf(t)
         /\ Tail(code[t]) \in Seq(InstrOf(t)) /\ Head(code[t])[1] = op
<1>1. code[t] \in Seq(InstrOf(t)) /\ code[t] # << >>
  BY DEF Ranges, At
<1>. QED BY <1>1 DEF At

\* Putting typed instructions before its rest keeps a thread's code typed.
LEMMA GoesTyped ==
  ASSUME Ranges, NEW t \in Threads, NEW op, At(t, op),
         NEW b \in Seq(InstrOf(t)), Goes(t, b)
  PROVE  DOMAIN code' = Threads /\ \A u \in Threads : code'[u] \in Seq(InstrOf(u))
<1>1. b \o Tail(code[t]) \in Seq(InstrOf(t))
  BY HeadTyped
<1>. QED BY <1>1 DEF Goes, Ranges

\* The rest is what TypeOK says.
LEMMA RangesSuffice == Ranges => TypeOK
<1>. SUFFICES ASSUME Ranges PROVE TypeOK
  OBVIOUS
<1>1. \A w \in Works : ops[w].cnt \in 0..CountBound /\ ops[w].max_cnt \in Nat
  BY DEF Ranges, Works, BreathingRecords, ChaseRecords
<1>2. ASSUME NEW t \in Threads, NEW i \in 1..Len(code[t])
      PROVE  code[t][i][1] \in {"set", "schedule"} \/ code[t][i] \in Instructions
  <2>1. code[t][i] \in InstrOf(t)
    <3>1. code[t] \in Seq(InstrOf(t))
      BY DEF Ranges
    <3>. QED BY <3>1
  <2>2. \A x \in TypedSets : x[1] = "set"
    BY DEF TypedSets, Set
  <2>3. \A x \in Orders : x[1] = "schedule"
    BY DEF Orders, Schedule
  <2>. QED BY <2>1, <2>2, <2>3 DEF InstrOf, TypedInstr, Instructions, Works
<1>3. ops["breathing"].level \in Levels /\ ops["breathing"].en \in {0, 1}
      /\ ops["chase"].level \in 0..19
  BY DEF Ranges, BreathingRecords, ChaseRecords
<1>. QED BY <1>1, <1>2, <1>3 DEF Ranges, TypeOK, Levels

\* After probe everything is in range.
LEMMA RangesInit == Init => Ranges
<1>. SUFFICES ASSUME Init PROVE Ranges
  OBVIOUS
<1>1. DOMAIN ops = Works /\ ops["breathing"] \in BreathingRecords /\ ops["chase"] \in ChaseRecords
  BY RingAssumption DEF Init, ZeroedOps, Works, BreathingRecords, ChaseRecords, Levels, CHASE_OFF
<1>2. DOMAIN code = Threads /\ \A t \in Threads : code[t] \in Seq(InstrOf(t))
  BY DEF Init
<1>3. /\ pending \in [Works -> BOOLEAN] /\ canceller \in [Works -> Threads \cup {Nobody}]
      /\ loaded \in [Works -> 0..CountBound] /\ dev \in {"bound", "removing", "freed", "undefined"}
      /\ served \in [Works -> (Attributes \X Nat) \cup {Again}] /\ cycles \in [Works -> 0..CycleBound]
  BY RingAssumption DEF Init
<1>. QED BY <1>1, <1>2, <1>3 DEF Ranges

\* A write of a typed instruction keeps the fields in range.
LEMMA SetRanges ==
  ASSUME Ranges, NEW t \in Threads, DoSet(t)
  PROVE  Ranges'
<1>. DEFINE w == Arg(t, 2)
            f == Arg(t, 3)
            v == Arg(t, 4)
<1>1. At(t, "set") /\ Goes(t, << >>) /\ ops' = [ops EXCEPT ![w][f] = v]
      /\ UNCHANGED <<pending, canceller, loaded, dev, served, cycles>>
  BY DEF DoSet, history
<1>2. DOMAIN code' = Threads /\ \A u \in Threads : code'[u] \in Seq(InstrOf(u))
  <2>1. << >> \in Seq(InstrOf(t))
    OBVIOUS
  <2>. QED BY <1>1, <2>1, GoesTyped
<1>3. Head(code[t]) \in TypedSets
  <2>1. Head(code[t]) \in InstrOf(t) /\ Head(code[t])[1] = "set"
    BY <1>1, HeadTyped
  <2>2. \A x \in Orders : x[1] = "schedule"
    BY DEF Orders, Schedule
  <2>. QED BY <2>1, <2>2 DEF InstrOf, TypedInstr, Paint
<1>4. \/ w \in Works /\ f = "cnt" /\ v \in 0..CountBound
      \/ w \in Works /\ f = "max_cnt" /\ v \in Nat
      \/ w = "breathing" /\ f = "en" /\ v \in {0, 1}
      \/ w = "breathing" /\ f = "level" /\ v \in Levels
      \/ w = "chase" /\ f = "level" /\ v \in 0..19
  BY <1>3 DEF TypedSets, Set, Arg
<1>. HIDE DEF w, f, v
<1>5. DOMAIN ops' = Works /\ ops'["breathing"] \in BreathingRecords /\ ops'["chase"] \in ChaseRecords
  <2>1. CASE w \in Works /\ f = "cnt" /\ v \in 0..CountBound
    BY <1>1, <2>1 DEF Ranges, Works, BreathingRecords, ChaseRecords
  <2>2. CASE w \in Works /\ f = "max_cnt" /\ v \in Nat
    BY <1>1, <2>2 DEF Ranges, Works, BreathingRecords, ChaseRecords
  <2>3. CASE w = "breathing" /\ f = "en" /\ v \in {0, 1}
    BY <1>1, <2>3 DEF Ranges, Works, BreathingRecords, ChaseRecords
  <2>4. CASE w = "breathing" /\ f = "level" /\ v \in Levels
    BY <1>1, <2>4 DEF Ranges, Works, BreathingRecords, ChaseRecords
  <2>5. CASE w = "chase" /\ f = "level" /\ v \in 0..19
    BY <1>1, <2>5 DEF Ranges, Works, BreathingRecords, ChaseRecords
  <2>. QED BY <1>4, <2>1, <2>2, <2>3, <2>4, <2>5
<1>. QED BY <1>1, <1>2, <1>5 DEF Ranges

\* So does a schedule, with the request it carries.
LEMMA ScheduleRanges ==
  ASSUME Ranges, NEW t \in Threads, DoSchedule(t)
  PROVE  Ranges'
<1>. DEFINE w == Arg(t, 2)
            r == Arg(t, 3)
<1>1. /\ At(t, "schedule") /\ Goes(t, << >>)
      /\ pending' = [pending EXCEPT ![w] = @ \/ canceller[w] = Nobody]
      /\ served' = IF r = Again THEN served ELSE [served EXCEPT ![w] = r]
      /\ cycles' = IF r = Again THEN cycles ELSE [cycles EXCEPT ![w] = 0]
      /\ UNCHANGED <<ops, canceller, loaded, dev>>
  BY DEF DoSchedule
<1>2. DOMAIN code' = Threads /\ \A u \in Threads : code'[u] \in Seq(InstrOf(u))
  <2>1. << >> \in Seq(InstrOf(t))
    OBVIOUS
  <2>. QED BY <1>1, <2>1, GoesTyped
<1>3. Head(code[t]) \in Orders
  <2>1. Head(code[t]) \in InstrOf(t) /\ Head(code[t])[1] = "schedule"
    BY <1>1, HeadTyped
  <2>2. \A x \in TypedSets : x[1] = "set"
    BY DEF TypedSets, Set
  <2>. QED BY <2>1, <2>2 DEF InstrOf, TypedInstr, Paint
<1>4. w \in Works /\ r \in (Attributes \X Nat) \cup {Again}
  BY <1>3 DEF Orders, Schedule, Arg
<1>. HIDE DEF w, r
<1>5. pending' \in [Works -> BOOLEAN]
  <2>1. (pending[w] \/ canceller[w] = Nobody) \in BOOLEAN
    OBVIOUS
  <2>. QED BY <1>1, <2>1 DEF Ranges
<1>6. served' \in [Works -> (Attributes \X Nat) \cup {Again}] /\ cycles' \in [Works -> 0..CycleBound]
  BY <1>1, <1>4, RingAssumption DEF Ranges
<1>. QED BY <1>1, <1>2, <1>5, <1>6 DEF Ranges

\* The steps of a work item: it counts up to the bound, and what it puts before its
\* rest is typed.
LEMMA WorkRanges ==
  ASSUME Ranges, NEW w \in Works,
         WorkStart(w) \/ Load(w) \/ Count(w) \/ Switch(w) \/ Test(w) \/ EnabledTest(w)
  PROVE  Ranges'
<1>. USE RingAssumption
<1>1. w \in Threads /\ << >> \in Seq(InstrOf(w))
  BY DEF Threads
<1>2. CASE WorkStart(w)
  <2>1. WorkCode(w) \in Seq(InstrOf(w))
    <3>1. /\ <<"cancel", "breathing">> \in InstrOf(w) /\ <<"wait", "breathing">> \in InstrOf(w)
          /\ <<"load", w>> \in InstrOf(w) /\ <<"count", w>> \in InstrOf(w)
          /\ <<"switch", w>> \in InstrOf(w)
      BY TypedPieces DEF InstrOf
    <3>2. /\ \A a \in InstrOf(w) : <<a>> \in Seq(InstrOf(w))
          /\ \A a, b \in InstrOf(w) : <<a, b>> \in Seq(InstrOf(w))
          /\ \A a, b, c \in InstrOf(w) : <<a, b, c>> \in Seq(InstrOf(w))
          /\ \A a, b \in Seq(InstrOf(w)) : a \o b \in Seq(InstrOf(w))
      OBVIOUS
    <3>3. CancelSync("breathing") \in Seq(InstrOf(w)) /\ << <<"switch", w>> >> \in Seq(InstrOf(w))
          /\ << <<"load", w>>, <<"count", w>>, <<"switch", w>> >> \in Seq(InstrOf(w))
      BY <3>1, <3>2 DEF CancelSync
    <3>. QED BY <3>2, <3>3 DEF WorkCode
  <2>2. DOMAIN code' = Threads /\ \A u \in Threads : code'[u] \in Seq(InstrOf(u))
    BY <1>2, <2>1 DEF WorkStart, Ranges
  <2>3. cycles' \in [Works -> 0..CycleBound] /\ pending' \in [Works -> BOOLEAN]
    BY <1>2 DEF WorkStart, Ranges, Bump
  <2>. QED BY <1>2, <2>2, <2>3 DEF WorkStart, Ranges
<1>3. CASE Load(w)
  <2>1. At(w, "load") /\ Goes(w, << >>)
    BY <1>3 DEF Load
  <2>2. DOMAIN code' = Threads /\ \A u \in Threads : code'[u] \in Seq(InstrOf(u))
    BY <1>1, <2>1, GoesTyped
  <2>3. ops[w].cnt \in 0..CountBound
    BY DEF Ranges, Works, BreathingRecords, ChaseRecords
  <2>. QED BY <1>3, <2>2, <2>3 DEF Load, Ranges, history
<1>4. CASE Count(w)
  <2>. DEFINE n == Bump(loaded[w], CountBound)
  <2>1. At(w, "count") /\ Goes(w, << >>)
    BY <1>4 DEF Count
  <2>2. DOMAIN code' = Threads /\ \A u \in Threads : code'[u] \in Seq(InstrOf(u))
    BY <1>1, <2>1, GoesTyped
  <2>3. n \in 0..CountBound /\ 0 \in 0..CountBound
    BY DEF Ranges, Bump
  <2>4. ops' = [ops EXCEPT ![w].cnt = n]
    BY <1>4 DEF Count
  <2>. HIDE DEF n
  <2>5. DOMAIN ops' = Works /\ ops'["breathing"] \in BreathingRecords /\ ops'["chase"] \in ChaseRecords
    BY <2>3, <2>4 DEF Ranges, Works, BreathingRecords, ChaseRecords
  <2>. QED BY <1>4, <2>2, <2>3, <2>5 DEF Count, Ranges, history
<1>5. ASSUME NEW op, At(w, op), NEW b \in Seq(InstrOf(w)), Goes(w, b),
             loaded' \in [Works -> 0..CountBound],
             UNCHANGED <<ops, pending, canceller, dev, served, cycles>>
      PROVE  Ranges'
  <2>1. DOMAIN code' = Threads /\ \A u \in Threads : code'[u] \in Seq(InstrOf(u))
    BY <1>1, <1>5, GoesTyped
  <2>. QED BY <1>5, <2>1 DEF Ranges
<1>6. /\ Paint \in InstrOf(w) /\ <<"load", w>> \in InstrOf(w) /\ <<"test", w>> \in InstrOf(w)
      /\ <<"count", w>> \in InstrOf(w) /\ Schedule(w, Again) \in InstrOf(w)
      /\ Set(w, "cnt", 6) \in InstrOf(w) /\ Set(w, "cnt", 0) \in InstrOf(w)
      /\ Set(w, "max_cnt", 0) \in InstrOf(w)
  BY TypedPieces DEF InstrOf
<1>a. w = "chase" => Set(w, "level", CHASE_OFF) \in InstrOf(w)
  BY TypedPieces DEF InstrOf, CHASE_OFF
<1>b. w = "breathing" =>
        /\ Set(w, "en", 0) \in InstrOf(w) /\ Set(w, "level", "BR_OFF") \in InstrOf(w)
        /\ <<"enabled", w>> \in InstrOf(w)
  BY TypedPieces DEF InstrOf, Levels
<1>c. w = "chase" \/ w = "breathing"
  BY DEF Works
<1>7. /\ \A a \in InstrOf(w) : <<a>> \in Seq(InstrOf(w))
      /\ \A a, b \in InstrOf(w) : <<a, b>> \in Seq(InstrOf(w))
      /\ \A a, b, c \in InstrOf(w) : <<a, b, c>> \in Seq(InstrOf(w))
      /\ \A a, b, c, d \in InstrOf(w) : <<a, b, c, d>> \in Seq(InstrOf(w))
      /\ \A s, u \in Seq(InstrOf(w)) : s \o u \in Seq(InstrOf(w))
  OBVIOUS
<1>8. CASE Switch(w)
  <2>. DEFINE x == IF w = "chase"
                     THEN IF ops[w].level \in 1..CHASE_AMZ THEN <<Paint>> ELSE << >>
                   ELSE IF ops[w].level = "BR_White" THEN <<Set(w, "cnt", 6), Paint>>
                   ELSE <<Paint>>
              y == << <<"load", w>>, <<"test", w>> >>
  <2>1. x \in Seq(InstrOf(w)) /\ y \in Seq(InstrOf(w))
    BY <1>1, <1>6, <1>7, <1>a
  <2>2. At(w, "switch") /\ Goes(w, x \o y) /\ loaded' = loaded
        /\ UNCHANGED <<ops, pending, canceller, dev, served, cycles>>
    BY <1>8 DEF Switch, chipVars, history
  <2>. HIDE DEF x, y
  <2>3. x \o y \in Seq(InstrOf(w)) /\ loaded' \in [Works -> 0..CountBound]
    BY <1>7, <2>1, <2>2 DEF Ranges
  <2>. QED BY <1>5, <2>2, <2>3
<1>9. CASE Test(w)
  <2>. DEFINE x == IF loaded[w] < ops[w].max_cnt
                     THEN IF w = "chase" THEN << <<"load", w>>, <<"count", w>>, Schedule(w, Again) >>
                          ELSE <<Schedule(w, Again)>>
                   ELSE IF w = "chase" THEN <<Set(w, "cnt", 0), Set(w, "level", CHASE_OFF), Paint>>
                   ELSE << <<"enabled", w>> >>
  <2>1. x \in Seq(InstrOf(w))
    BY <1>6, <1>7, <1>a, <1>b, <1>c
  <2>2. At(w, "test") /\ Goes(w, x) /\ loaded' = [loaded EXCEPT ![w] = 0]
        /\ UNCHANGED <<ops, pending, canceller, dev, served, cycles>>
    BY <1>9 DEF Test, history
  <2>. HIDE DEF x
  <2>3. loaded' \in [Works -> 0..CountBound]
    BY <2>2 DEF Ranges
  <2>. QED BY <1>5, <2>1, <2>2, <2>3
<1>10. CASE EnabledTest(w)
  <2>. DEFINE x == IF ops[w].en >= 1 THEN <<Schedule(w, Again)>>
                   ELSE << Set(w, "cnt", 0), Set(w, "max_cnt", 0), Set(w, "en", 0),
                           Set(w, "level", "BR_OFF") >>
  <2>1. w = "breathing"
    <3>1. Head(code[w]) \in InstrOf(w) /\ Head(code[w])[1] = "enabled"
      BY <1>1, <1>10, HeadTyped DEF EnabledTest
    <3>2. \A i \in TypedSets \cup Orders : i[1] # "enabled"
      BY DEF TypedSets, Orders, Set, Schedule
    <3>. QED BY <3>1, <3>2 DEF InstrOf, TypedInstr, Paint
  <2>2. x \in Seq(InstrOf(w))
    BY <1>6, <1>7, <1>b, <2>1
  <2>3. At(w, "enabled") /\ Goes(w, x) /\ loaded' = loaded
        /\ UNCHANGED <<ops, pending, canceller, dev, served, cycles>>
    BY <1>10 DEF EnabledTest, chipVars, history
  <2>. HIDE DEF x
  <2>. QED BY <1>5, <2>2, <2>3 DEF Ranges
<1>. QED BY <1>2, <1>3, <1>4, <1>8, <1>9, <1>10

\* Every step keeps the ranges: one case per kind of step.
LEMMA RangesNext == Ranges /\ [Next]_vars => Ranges'
<1>. SUFFICES ASSUME Ranges, [Next]_vars PROVE Ranges'
  OBVIOUS
<1>. USE RingAssumption
<1>1. ASSUME NEW p \in Callers, Call(p) PROVE Ranges'
  <2>1. PICK r \in Requests : code' = [code EXCEPT ![p] = Program(r)]
    BY <1>1 DEF Call
  <2>2. Program(r) \in Seq(InstrOf(p))
    <3>1. InstrOf(p) = TypedInstr
      BY DEF InstrOf, Works
    <3>. QED BY <3>1, TypedPrograms
  <2>3. DOMAIN code' = Threads /\ \A u \in Threads : code'[u] \in Seq(InstrOf(u))
    BY <2>1, <2>2 DEF Ranges
  <2>. QED BY <1>1, <2>3 DEF Call, Ranges, chipVars, history
<1>2. ASSUME NEW t \in Threads, Step(t) PROVE Ranges'
  <2>1. << >> \in Seq(InstrOf(t))
    OBVIOUS
  <2>2. CASE DoPaint(t)
    <3>1. DOMAIN code' = Threads /\ \A u \in Threads : code'[u] \in Seq(InstrOf(u))
      BY <2>1, <2>2, GoesTyped DEF DoPaint
    <3>. QED BY <2>2, <3>1 DEF DoPaint, Ranges, chipVars, history
  <2>3. CASE DoSet(t)
    BY <2>3, SetRanges
  <2>4. CASE Cancel(t) \/ Wait(t)
    <3>1. DOMAIN code' = Threads /\ \A u \in Threads : code'[u] \in Seq(InstrOf(u))
      BY <2>1, <2>4, GoesTyped DEF Cancel, Wait
    <3>2. canceller' \in [Works -> Threads \cup {Nobody}] /\ pending' \in [Works -> BOOLEAN]
      BY <2>4 DEF Cancel, Wait, Ranges
    <3>. QED BY <2>4, <3>1, <3>2 DEF Cancel, Wait, Ranges, history
  <2>5. CASE DoSchedule(t)
    BY <2>5, ScheduleRanges
  <2>. QED BY <1>2, <2>2, <2>3, <2>4, <2>5 DEF Step
<1>3. ASSUME NEW w \in Works, WorkStep(w) PROVE Ranges'
  BY <1>2, <1>3, WorkRanges DEF WorkStep, Threads
<1>4. CASE Remove \/ Free \/ UseAfterFree
  BY <1>4 DEF Remove, Free, UseAfterFree, Ranges, chipVars, history
<1>5. CASE Probe
  <2>1. ops' = ZeroedOps /\ UNCHANGED <<pending, canceller, code, loaded, served, cycles>>
        /\ dev' = "bound"
    BY <1>5 DEF Probe, history
  <2>2. DOMAIN ops' = Works /\ ops'["breathing"] \in BreathingRecords /\ ops'["chase"] \in ChaseRecords
    BY <2>1 DEF ZeroedOps, Works, BreathingRecords, ChaseRecords, Levels, CHASE_OFF
  <2>. QED BY <2>1, <2>2 DEF Ranges
<1>6. CASE UNCHANGED vars
  BY <1>6 DEF vars, chipVars, history, Ranges
<1>. QED BY <1>1, <1>2, <1>3, <1>4, <1>5, <1>6 DEF Next, Threads

\* Whatever is written to the attribute files, by however many processes at once, the
\* levels and counters that the stores and the work items share without a lock stay in
\* range (br_ops and chase_ops, leds-ktd2061.c).
THEOREM TypeCorrect == Spec => []TypeOK
  BY RangesInit, RangesNext, RangesSuffice, PTL DEF Spec
=============================================================================
