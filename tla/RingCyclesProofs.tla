-------------------------- MODULE RingCyclesProofs --------------------------
(* No animation of the ring paints more cycles than it was asked for: proof *)
(* of CyclesAsAsked, on top of what RingProofs says of the two work items.  *)
EXTENDS RingProofs

Resetting == {"breathing", "br2colors", "brlogscale"}
Demos == {"br_demo", "br_logscale_demo"}

\* The cycles of a request, if it ends, and the max_cnt its store sets.
Asked(r) ==
  IF r[1] = "br_white" THEN 1 ELSE IF r[1] = "chase" THEN Repeats(r[2]) + 1 ELSE r[2]
MaxOf(r) ==
  IF r[1] = "br_white" THEN 5 ELSE IF r[1] = "chase" THEN Repeats(r[2]) ELSE r[2]

\* The bounds of the model are beyond every number of cycles that a store accepts.
BoundsSuffice ==
  \A r \in Requests :
    /\ r[1] \in {"br_white", "chase"} => Asked(r) < CycleBound
    /\ r[1] \in Resetting \cup Demos /\ r[2] \in 1..99 => r[2] < CycleBound /\ r[2] < CountBound

-----------------------------------------------------------------------------
(* The invariant: what a store still has to do ensures that the parameters  *)
(* are those of its request when it schedules the work item...              *)

\* The request r can be served by the work item w.
Servable(w, r) ==
  /\ r[2] \in Nat /\ Asked(r) < CycleBound
  /\ IF w = "chase" THEN r[1] = "chase" ELSE r[1] \in Resetting \cup Demos \cup {"br_white"}
  /\ r[1] \in Resetting \cup Demos => r[2] > 0 /\ r[2] < CountBound

Touches(i, w, f) == i[1] = "set" /\ i[2] = w /\ i[3] = f
Spares(c, w, f) == \A i \in 1..Len(c) : ~Touches(c[i], w, f)
Leaves(c, w, f, x) ==
  \E i \in 1..Len(c) :
    c[i] = Set(w, f, x) /\ \A j \in 1..Len(c) : j > i => ~Touches(c[j], w, f)

\* After the instructions c the field has this value, o being br_ops and chase_ops now.
Kept(o, c, w, f, x) ==
  \/ Leaves(c, w, f, x)
  \/ o[w][f] = x /\ Spares(c, w, f) /\ \A i \in 1..Len(c) : ~Stops(c[i])

Promise(o, c, w, r) ==
  LET a == r[1] v == r[2] IN
  /\ Servable(w, r)
  /\ Kept(o, c, w, "max_cnt", MaxOf(r))
  /\ a \in Resetting \cup {"chase"} => Kept(o, c, w, "cnt", 0)
  /\ a \in Resetting => Kept(o, c, w, "en", 0)
  /\ a \in Resetting \cup Demos => \E lev \in Levels \ {"BR_White"} : Kept(o, c, w, "level", lev)
  /\ a = "br_white" => Kept(o, c, w, "cnt", 6) /\ Kept(o, c, w, "en", IF v = 0 THEN 0 ELSE 1)

Promises ==
  \A p \in Callers : \A i \in 1..Len(code[p]) :
    code[p][i][1] = "schedule" => Promise(ops, code[p], code[p][i][2], code[p][i][3])

\* When chip is freed no store is in progress.
NoneInside == dev = "freed" => \A p \in Callers : code[p] = << >>

-----------------------------------------------------------------------------
(* ... and where a work item is in its cycle, and what the counters say     *)
(* there.                                                                   *)

\* The parameters o of the request r that w serves; they do not change while it runs.
Params(w, o, r) ==
  LET a == r[1] v == r[2] IN
  /\ Servable(w, r)
  /\ o.max_cnt = MaxOf(r)
  /\ a \in Resetting => o.en = 0
  /\ a \in Resetting \cup Demos => o.level # "BR_White"
  /\ a = "br_white" => o.en = IF v = 0 THEN 0 ELSE 1

\* Between two cycles of the request r, k being complete.
Rest(o, r, k) ==
  LET a == r[1] v == r[2] c == o.cnt IN
  /\ a \in Resetting => c = k /\ k < v
  /\ a \in Demos /\ o.en = 0 => k <= c /\ (k = 0 \/ c < v)
  /\ a = "br_white" => c >= 5 /\ (v = 0 => k = 0)
  /\ a = "chase" => c = k /\ k <= Repeats(v)

\* In the k-th cycle of the breathing, which has been counted.
Counted(o, r, k) ==
  LET a == r[1] v == r[2] c == o.cnt IN
  /\ a \in Resetting => c = k /\ k <= v
  /\ a \in Demos /\ o.en = 0 => k <= c /\ k <= v
  /\ a = "br_white" => c >= 5 /\ (v = 0 => k = 1)

Breath == "breathing"
Chaser == "chase"

\* The code of the breathing work item, from its start to its end.
B1 == << <<"load", Breath>>, <<"count", Breath>>, <<"switch", Breath>> >>
B2 == << <<"count", Breath>>, <<"switch", Breath>> >>
B3 == << <<"switch", Breath>> >>
B4 == << Set(Breath, "cnt", 6), Paint, <<"load", Breath>>, <<"test", Breath>> >>
B5 == << Paint, <<"load", Breath>>, <<"test", Breath>> >>
B6 == << <<"load", Breath>>, <<"test", Breath>> >>
B7 == << <<"test", Breath>> >>
B8 == << Schedule(Breath, Again) >>
B9 == << <<"enabled", Breath>> >>
BE1 == << Set(Breath, "cnt", 0), Set(Breath, "max_cnt", 0), Set(Breath, "en", 0),
          Set(Breath, "level", "BR_OFF") >>
BE2 == << Set(Breath, "max_cnt", 0), Set(Breath, "en", 0), Set(Breath, "level", "BR_OFF") >>
BE3 == << Set(Breath, "en", 0), Set(Breath, "level", "BR_OFF") >>
BE4 == << Set(Breath, "level", "BR_OFF") >>
Finishing == {BE2, BE3, BE4}

\* The rest c of the breathing's code says how far its k-th cycle is, l being loaded.
BreathPoint(c, o, r, k, l) ==
  \/ c = B1 /\ Rest(o, r, k - 1)
  \/ c = B2 /\ Rest(o, r, k - 1) /\ l = o.cnt
  \/ c \in {B3, B5, B6} /\ Counted(o, r, k)
  \/ c = B4 /\ Counted(o, r, k) /\ o.level = "BR_White"
  \/ c = B7 /\ Counted(o, r, k) /\ l = o.cnt
  \/ c = B8 /\ Rest(o, r, k)
  \/ c = B9 /\ Counted(o, r, k) /\ o.cnt >= o.max_cnt
  \/ c = BE1 /\ Counted(o, r, k) /\ o.cnt >= o.max_cnt /\ o.en = 0

BreathFits(c, q, o, r, k, l) ==
  /\ q => c = << >> /\ Params(Breath, o, r) /\ Rest(o, r, k)
  /\ c \notin Finishing \cup {<< >>} => Params(Breath, o, r) /\ BreathPoint(c, o, r, k, l)

Breathes ==
  LET w == Breath IN
  BreathFits(code[w], pending[w], ops[w], served[w], cycles[w], loaded[w])

\* The code of the chase.
C1 == << <<"cancel", Breath>>, <<"wait", Breath>>, <<"switch", Chaser>> >>
C2 == << <<"wait", Breath>>, <<"switch", Chaser>> >>
C3 == << <<"switch", Chaser>> >>
C4 == << Paint, <<"load", Chaser>>, <<"test", Chaser>> >>
C5 == << <<"load", Chaser>>, <<"test", Chaser>> >>
C6 == << <<"test", Chaser>> >>
C7 == << <<"load", Chaser>>, <<"count", Chaser>>, Schedule(Chaser, Again) >>
C8 == << <<"count", Chaser>>, Schedule(Chaser, Again) >>
C9 == << Schedule(Chaser, Again) >>
CE1 == << Set(Chaser, "cnt", 0), Set(Chaser, "level", CHASE_OFF), Paint >>
CE2 == << Set(Chaser, "level", CHASE_OFF), Paint >>
CE3 == << Paint >>

ChasePoint(c, o, r, k, l) ==
  \/ c \in {C1, C2, C3, C4, C5} /\ Rest(o, r, k - 1)
  \/ c = C6 /\ Rest(o, r, k - 1) /\ l = o.cnt
  \/ c = C7 /\ Rest(o, r, k - 1) /\ o.cnt < o.max_cnt
  \/ c = C8 /\ Rest(o, r, k - 1) /\ o.cnt < o.max_cnt /\ l = o.cnt
  \/ c = C9 /\ Rest(o, r, k)
  \/ c = CE1 /\ Rest(o, r, k - 1) /\ o.cnt >= o.max_cnt

ChaseFits(c, q, o, r, k, l) ==
  /\ q => c = << >> /\ Params(Chaser, o, r) /\ Rest(o, r, k)
  /\ c \notin {CE2, CE3, << >>} => Params(Chaser, o, r) /\ ChasePoint(c, o, r, k, l)

Chases ==
  LET w == Chaser IN
  ChaseFits(code[w], pending[w], ops[w], served[w], cycles[w], loaded[w])

CycleInv == Promises /\ NoneInside /\ Breathes /\ Chases

-----------------------------------------------------------------------------
(* The stores make the promise.                                            *)

\* A code that sets the parameters of r, and schedules w for r only.
Vow(c, w, r) ==
  LET a == r[1] v == r[2] IN
  /\ Leaves(c, w, "max_cnt", MaxOf(r))
  /\ a \in Resetting \cup {"chase"} => Leaves(c, w, "cnt", 0)
  /\ a \in Resetting => Leaves(c, w, "en", 0)
  /\ a \in Resetting \cup Demos => \E lev \in Levels \ {"BR_White"} : Leaves(c, w, "level", lev)
  /\ a = "br_white" => Leaves(c, w, "cnt", 6) /\ Leaves(c, w, "en", IF v = 0 THEN 0 ELSE 1)

Orderly(c, w, r) == \A i \in 1..Len(c) : c[i][1] = "schedule" => c[i] = Schedule(w, r)

\* What is set stays set, whatever comes before, and as long as what comes after
\* spares the field.
LEMMA LeavesConcat ==
  ASSUME NEW a \in Seq(Instr), NEW b \in Seq(Instr), NEW w, NEW f, NEW x
  PROVE  /\ Leaves(b, w, f, x) => Leaves(a \o b, w, f, x)
         /\ Leaves(a, w, f, x) /\ Spares(b, w, f) => Leaves(a \o b, w, f, x)
<1>. DEFINE d == a \o b
            n == Len(a)
<1>1. /\ n \in Nat /\ Len(b) \in Nat /\ Len(d) = n + Len(b)
      /\ \A i \in 1..n : i \in 1..Len(d) /\ d[i] = a[i]
      /\ \A i \in 1..Len(d) :
           \/ i \in 1..n /\ d[i] = a[i]
           \/ i - n \in 1..Len(b) /\ d[i] = b[i - n]
  BY Concatenation
<1>2. ASSUME Leaves(b, w, f, x) PROVE Leaves(d, w, f, x)
  <2>1. PICK k \in 1..Len(b) :
          b[k] = Set(w, f, x) /\ \A j \in 1..Len(b) : j > k => ~Touches(b[j], w, f)
    BY <1>2 DEF Leaves
  <2>. HIDE DEF d, n
  <2>2. k + n \in 1..Len(d) /\ k + n \notin 1..n /\ (k + n) - n = k
    BY <1>1
  <2>3. d[k + n] = Set(w, f, x)
    BY <1>1, <2>1, <2>2
  <2>4. ASSUME NEW j \in 1..Len(d), j > k + n PROVE ~Touches(d[j], w, f)
    <3>1. j \notin 1..n /\ j - n > k
      BY <1>1, <2>4
    <3>. QED BY <1>1, <2>1, <3>1
  <2>. QED BY <2>2, <2>3, <2>4 DEF Leaves
<1>3. ASSUME Leaves(a, w, f, x), Spares(b, w, f) PROVE Leaves(d, w, f, x)
  <2>1. PICK k \in 1..n :
          a[k] = Set(w, f, x) /\ \A j \in 1..n : j > k => ~Touches(a[j], w, f)
    BY <1>3 DEF Leaves
  <2>. HIDE DEF d, n
  <2>2. k \in 1..Len(d) /\ d[k] = Set(w, f, x)
    BY <1>1, <2>1
  <2>3. ASSUME NEW j \in 1..Len(d), j > k PROVE ~Touches(d[j], w, f)
    BY <1>1, <1>3, <2>1, <2>3 DEF Spares
  <2>. QED BY <2>2, <2>3 DEF Leaves
<1>. QED BY <1>2, <1>3

\* A vow holds with more before it, and with what sets nothing after it.
LEMMA VowConcat ==
  ASSUME NEW a \in Seq(Instr), NEW b \in Seq(Instr), NEW w, NEW r
  PROVE  /\ Vow(b, w, r) => Vow(a \o b, w, r)
         /\ Vow(a, w, r) /\ (\A f : Spares(b, w, f)) => Vow(a \o b, w, r)
<1>. DEFINE d == a \o b
<1>1. \A f, x : Leaves(b, w, f, x) => Leaves(d, w, f, x)
  BY LeavesConcat
<1>2. (\A f : Spares(b, w, f)) => \A f, x : Leaves(a, w, f, x) => Leaves(d, w, f, x)
  BY LeavesConcat
<1>. HIDE DEF d
<1>3. Vow(b, w, r) => Vow(d, w, r)
  BY <1>1, Zenon DEF Vow
<1>4. Vow(a, w, r) /\ (\A f : Spares(b, w, f)) => Vow(d, w, r)
  BY <1>2, Zenon DEF Vow
<1>. QED BY <1>3, <1>4 DEF d

\* The end of a store: it schedules, after a last register write or at once.
LEMMA LastPieces ==
  ASSUME NEW w \in Works, NEW r \in Attributes \X Nat,
         NEW s \in {<<Schedule(w, r)>>, <<Paint, Schedule(w, r)>>}
  PROVE  s \in Seq(Instr) /\ Orderly(s, w, r) /\ \A u, f : Spares(s, u, f)
<1>1. Schedule(w, r) \in Instr /\ Paint \in Instr
  BY DEF Instr
<1>2. Paint[1] = "paint" /\ Schedule(w, r)[1] = "schedule"
  BY DEF Paint, Schedule
<1>3. s \in Seq(Instr) /\ Len(s) \in {1, 2}
      /\ \A i \in 1..Len(s) : s[i] \in {Paint, Schedule(w, r)}
  <2>1. /\ \A x \in Instr : <<x>> \in Seq(Instr)
        /\ \A x, y \in Instr : <<x, y>> \in Seq(Instr)
    OBVIOUS
  <2>2. \A x : Len(<<x>>) = 1 /\ <<x>>[1] = x
    OBVIOUS
  <2>3. \A x, y : Len(<<x, y>>) = 2 /\ <<x, y>>[1] = x /\ <<x, y>>[2] = y
    OBVIOUS
  <2>4. 1..1 = {1} /\ 1..2 = {1, 2}
    OBVIOUS
  <2>. DEFINE k == Schedule(w, r)
              g == Paint
  <2>. HIDE DEF k, g
  <2>5. CASE s = <<k>>
    <3>1. s \in Seq(Instr) /\ Len(s) = 1 /\ s[1] = k
      BY <1>1, <2>1, <2>2, <2>5 DEF k
    <3>. QED BY <2>4, <3>1 DEF k
  <2>6. CASE s = <<g, k>>
    <3>1. s \in Seq(Instr) /\ Len(s) = 2 /\ s[1] = g /\ s[2] = k
      BY <1>1, <2>1, <2>3, <2>6 DEF g, k
    <3>. QED BY <2>4, <3>1 DEF g, k
  <2>. QED BY <2>5, <2>6 DEF g, k
<1>. QED BY <1>2, <1>3 DEF Orderly, Spares, Touches

\* The parameters of a new breathing.
LEMMA OpsLeave ==
  ASSUME NEW level \in Levels, NEW n \in Nat
  PROVE  LET o == BreathingOps(level, n) IN
         /\ o \in Seq(Instr) /\ Unscheduled(o)
         /\ Leaves(o, "breathing", "cnt", 0) /\ Leaves(o, "breathing", "en", 0)
         /\ Leaves(o, "breathing", "max_cnt", n) /\ Leaves(o, "breathing", "level", level)
<1>. DEFINE o == BreathingOps(level, n)
<1>1. o \in Seq(Instr) /\ Unscheduled(o)
  BY OpsQuiet DEF Quiet, Unscheduled
<1>2. /\ Len(o) = 4
      /\ o[1] = Set("breathing", "cnt", 0) /\ o[2] = Set("breathing", "en", 0)
      /\ o[3] = Set("breathing", "max_cnt", n) /\ o[4] = Set("breathing", "level", level)
  BY DEF BreathingOps
<1>. HIDE DEF o
<1>3. \A w, f, x : /\ Set(w, f, x)[3] = f
                   /\ \A g : f # g => ~Touches(Set(w, f, x), w, g)
  BY DEF Set, Touches
<1>4. 1..Len(o) = {1, 2, 3, 4}
  BY <1>2
<1>5. Leaves(o, "breathing", "cnt", 0)
  BY <1>2, <1>3, <1>4 DEF Leaves
<1>6. Leaves(o, "breathing", "en", 0)
  BY <1>2, <1>3, <1>4 DEF Leaves
<1>7. Leaves(o, "breathing", "max_cnt", n)
  BY <1>2, <1>3, <1>4 DEF Leaves
<1>8. Leaves(o, "breathing", "level", level)
  BY <1>2, <1>4 DEF Leaves
<1>. QED BY <1>1, <1>5, <1>6, <1>7, <1>8 DEF o

\* A code that promises what it should, for every work item it schedules.
Vowed(c, r) ==
  \/ Unscheduled(c)
  \/ \E w \in Works : Servable(w, r) /\ Vow(c, w, r) /\ Orderly(c, w, r)

\* The cancellations and writes at the start of a store break no vow...
LEMMA VowedAfter ==
  ASSUME NEW a \in Seq(Instr), NEW b \in Seq(Instr), NEW r, Unscheduled(a), Vowed(b, r)
  PROVE  Vowed(a \o b, r)
<1>. DEFINE d == a \o b
<1>1. \A i \in 1..Len(d) :
        \/ i \in 1..Len(a) /\ d[i] = a[i]
        \/ i - Len(a) \in 1..Len(b) /\ d[i] = b[i - Len(a)]
  BY Concatenation
<1>2. \A w : Vow(b, w, r) => Vow(d, w, r)
  BY VowConcat
<1>. HIDE DEF d
<1>3. CASE Unscheduled(b)
  BY <1>1, <1>3 DEF Unscheduled, Vowed, d
<1>4. ASSUME NEW w \in Works, Servable(w, r), Vow(b, w, r), Orderly(b, w, r)
      PROVE  Vowed(d, r)
  <2>1. Orderly(d, w, r)
    BY <1>1, <1>4 DEF Unscheduled, Orderly
  <2>. QED BY <1>2, <1>4, <2>1 DEF Vowed
<1>. QED BY <1>3, <1>4 DEF Vowed, d

\* ...and a store that has set its parameters may schedule.
LEMMA VowedEnd ==
  ASSUME NEW w \in Works, NEW r \in Attributes \X Nat, Servable(w, r),
         NEW a \in Seq(Instr), Unscheduled(a), Vow(a, w, r),
         NEW s \in {<<Schedule(w, r)>>, <<Paint, Schedule(w, r)>>}
  PROVE  a \o s \in Seq(Instr) /\ Vowed(a \o s, r)
<1>. DEFINE d == a \o s
<1>1. s \in Seq(Instr) /\ Orderly(s, w, r) /\ \A f : Spares(s, w, f)
  BY LastPieces
<1>2. d \in Seq(Instr) /\ \A i \in 1..Len(d) :
        \/ i \in 1..Len(a) /\ d[i] = a[i]
        \/ i - Len(a) \in 1..Len(s) /\ d[i] = s[i - Len(a)]
  BY <1>1, Concatenation
<1>3. Vow(d, w, r)
  BY <1>1, VowConcat
<1>. HIDE DEF d
<1>4. Orderly(d, w, r)
  BY <1>1, <1>2 DEF Unscheduled, Orderly
<1>. QED BY <1>2, <1>3, <1>4 DEF Vowed, d

\* Two pieces of code that schedule nothing make one that schedules nothing.
LEMMA UnscheduledConcat ==
  ASSUME NEW a \in Seq(Instr), NEW b \in Seq(Instr), Unscheduled(a), Unscheduled(b)
  PROVE  a \o b \in Seq(Instr) /\ Unscheduled(a \o b)
<1>. DEFINE d == a \o b
<1>1. d \in Seq(Instr) /\ \A i \in 1..Len(d) :
        \/ i \in 1..Len(a) /\ d[i] = a[i]
        \/ i - Len(a) \in 1..Len(b) /\ d[i] = b[i - Len(a)]
  BY Concatenation
<1>. HIDE DEF d
<1>2. Unscheduled(d)
  BY <1>1 DEF Unscheduled
<1>. QED BY <1>1, <1>2 DEF d

\* What the stores begin with.
LEMMA StartPieces ==
  /\ CancelBoth \in Seq(Instr) /\ Unscheduled(CancelBoth)
  /\ <<Paint>> \in Seq(Instr) /\ Unscheduled(<<Paint>>)
  /\ << >> \in Seq(Instr) /\ Unscheduled(<< >>)
  /\ CancelBoth \o <<Paint>> \in Seq(Instr) /\ Unscheduled(CancelBoth \o <<Paint>>)
  /\ \A w \in Works : CancelSync(w) \in Seq(Instr) /\ Unscheduled(CancelSync(w))
  /\ CancelSync("breathing") \o CancelSync("chase") \in Seq(Instr)
  /\ Unscheduled(CancelSync("breathing") \o CancelSync("chase"))
<1>1. /\ CancelBoth \in Seq(Instr) /\ Unscheduled(CancelBoth)
      /\ CancelSync("breathing") \o CancelSync("chase") \in Seq(Instr)
      /\ Unscheduled(CancelSync("breathing") \o CancelSync("chase"))
  BY CancelsFine DEF Fine
<1>2. /\ <<Paint>> \in Seq(Instr) /\ Unscheduled(<<Paint>>)
      /\ << >> \in Seq(Instr) /\ Unscheduled(<< >>)
  BY Pieces DEF Quiet
<1>3. ASSUME NEW w \in Works
      PROVE  CancelSync(w) \in Seq(Instr) /\ Unscheduled(CancelSync(w))
  <2>1. <<"cancel", w>> \in Instr /\ <<"wait", w>> \in Instr
    BY DEF Instr
  <2>. QED BY <2>1 DEF CancelSync, Unscheduled
<1>. QED BY <1>1, <1>2, <1>3, UnscheduledConcat

\* br_ops is set for a request that resets the counters.
LEMMA OpsVow ==
  ASSUME NEW r \in Attributes \X Nat, r[1] \in Resetting, Servable("breathing", r),
         NEW level \in Levels, level # "BR_White",
         NEW a \in {<< >>, <<Paint>>},
         NEW s \in {<<Schedule("breathing", r)>>, <<Paint, Schedule("breathing", r)>>}
  PROVE  /\ (a \o BreathingOps(level, r[2])) \o s \in Seq(Instr)
         /\ Vowed((a \o BreathingOps(level, r[2])) \o s, r)
<1>. DEFINE o == BreathingOps(level, r[2])
<1>1. /\ o \in Seq(Instr) /\ Unscheduled(o)
      /\ Leaves(o, "breathing", "cnt", 0) /\ Leaves(o, "breathing", "en", 0)
      /\ Leaves(o, "breathing", "max_cnt", r[2]) /\ Leaves(o, "breathing", "level", level)
  BY OpsLeave
<1>. HIDE DEF o
<1>2. Vow(o, "breathing", r)
  BY <1>1 DEF Vow, MaxOf, Resetting, Demos
<1>3. a \in Seq(Instr) /\ Unscheduled(a)
  BY StartPieces
<1>4. a \o o \in Seq(Instr) /\ Unscheduled(a \o o) /\ Vow(a \o o, "breathing", r)
  BY <1>1, <1>2, <1>3, UnscheduledConcat, VowConcat
<1>. QED BY <1>4, VowedEnd DEF o, Works

\* Every store that cancels both work items keeps its vow.
LEMMA StoresVowed ==
  ASSUME BoundsSuffice, NEW r \in Requests, r[1] \in Cancelling
  PROVE  Vowed(Program(r), r)
<1>. DEFINE a == r[1]
            v == r[2]
            B == CancelBoth
            P == <<Paint>>
<1>1. r \in Attributes \X Nat /\ v \in Nat /\ r = <<a, v>>
  BY RingAssumption
<1>2. /\ a \in Resetting \cup Demos /\ v \in 1..99 => Servable("breathing", r)
      /\ a = "br_white" => Servable("breathing", r)
      /\ a = "chase" => Servable("chase", r)
  BY <1>1 DEF BoundsSuffice, Servable, Asked, Resetting, Demos
<1>. HIDE DEF a, v, B, P
<1>3. /\ B \in Seq(Instr) /\ Unscheduled(B) /\ P \in Seq(Instr) /\ Unscheduled(P)
      /\ << >> \in Seq(Instr) /\ Unscheduled(<< >>)
      /\ B \o P \in Seq(Instr) /\ Unscheduled(B \o P)
  BY StartPieces DEF B, P
<1>4. \A b \in Seq(Instr) : Vowed(b, r) => Vowed(B \o b, r) /\ Vowed((B \o P) \o b, r)
  BY <1>3, VowedAfter
<1>5. Vowed(<< >>, r) /\ Vowed(P, r)
  BY <1>3 DEF Vowed
<1>6. \A w \in Works, f \in {"level", "cnt", "max_cnt", "en"}, x \in Levels \cup Nat :
        Set(w, f, x) \in Instr
  BY DEF Instr
<1>7. \A w \in Works : Schedule(w, r) \in Instr
  BY <1>1 DEF Instr
<1>8. CASE a = "breathing"
  <2>1. r = <<"breathing", v>>
    BY <1>1, <1>8
  <2>2. ASSUME v \in 1..99 PROVE Vowed(Breathing(v), r)
    <3>1. /\ (P \o BreathingOps("BR_NORMAL", v)) \o <<Schedule("breathing", r)>> \in Seq(Instr)
          /\ Vowed((P \o BreathingOps("BR_NORMAL", v)) \o <<Schedule("breathing", r)>>, r)
      BY <1>1, <1>2, <1>8, <2>2, OpsVow DEF Levels, Resetting, P, a, v
    <3>2. Breathing(v) = B \o ((P \o BreathingOps("BR_NORMAL", v)) \o <<Schedule("breathing", r)>>)
      BY <2>1, <2>2 DEF Breathing, B, P
    <3>. QED BY <1>4, <3>1, <3>2
  <2>3. ASSUME v \notin 1..99 PROVE Vowed(Breathing(v), r)
    <3>. DEFINE b == CancelSync("breathing") \o P
    <3>1. b \in Seq(Instr) /\ Unscheduled(b)
      BY <1>3, StartPieces, UnscheduledConcat DEF Works
    <3>2. Breathing(v) \in {B \o b, B \o << >>}
      BY <2>3 DEF Breathing, B, P
    <3>. HIDE DEF b
    <3>. QED BY <1>3, <3>1, <3>2, UnscheduledConcat DEF Vowed
  <2>4. Vowed(Breathing(v), r)
    BY <2>2, <2>3
  <2>. QED BY <1>8, <2>4 DEF Program, a, v
<1>9. CASE a = "br_white"
  <2>. DEFINE e == IF v = 0 THEN 0 ELSE 1
              l == IF v = 0 THEN "STOP" ELSE "BR_White"
              b == << Set("breathing", "cnt", 6), Set("breathing", "max_cnt", 5),
                      Set("breathing", "en", e), Set("breathing", "level", l),
                      Schedule("breathing", r) >>
  <2>1. r = <<"br_white", v>>
    BY <1>1, <1>9
  <2>2. e \in Levels \cup Nat /\ l \in Levels \cup Nat
    BY DEF Levels
  <2>3. White(v) = B \o b
    BY <2>1 DEF White, B
  <2>. HIDE DEF e, l
  <2>4. /\ Set("breathing", "cnt", 6) \in Instr /\ Set("breathing", "max_cnt", 5) \in Instr
        /\ Set("breathing", "en", e) \in Instr /\ Set("breathing", "level", l) \in Instr
        /\ Schedule("breathing", r) \in Instr
    BY <1>6, <1>7, <2>2 DEF Works
  <2>5. b \in Seq(Instr) /\ Len(b) = 5
    BY <2>4
  <2>6. /\ b[1] = Set("breathing", "cnt", 6) /\ b[2] = Set("breathing", "max_cnt", 5)
        /\ b[3] = Set("breathing", "en", e) /\ b[4] = Set("breathing", "level", l)
        /\ b[5] = Schedule("breathing", r)
    OBVIOUS
  <2>. HIDE DEF b
  <2>7. 1..Len(b) = {1, 2, 3, 4, 5}
    BY <2>5
  <2>8. /\ \A w, f, x : Set(w, f, x)[1] = "set" /\ \A g : f # g => ~Touches(Set(w, f, x), w, g)
        /\ \A w, f : ~Touches(Schedule("breathing", r), w, f)
    BY DEF Set, Schedule, Touches
  <2>9. Leaves(b, "breathing", "cnt", 6)
    BY <2>6, <2>7, <2>8 DEF Leaves
  <2>10. Leaves(b, "breathing", "max_cnt", 5)
    BY <2>6, <2>7, <2>8 DEF Leaves
  <2>11. Leaves(b, "breathing", "en", e)
    BY <2>6, <2>7, <2>8 DEF Leaves
  <2>12. Vow(b, "breathing", r)
    BY <1>9, <2>9, <2>10, <2>11 DEF Vow, MaxOf, Resetting, Demos, e, a, v
  <2>13. Orderly(b, "breathing", r)
    BY <2>6, <2>7, <2>8 DEF Orderly
  <2>14. Vowed(b, r)
    BY <1>2, <1>9, <2>12, <2>13 DEF Vowed, Works
  <2>15. Vowed(White(v), r)
    BY <1>4, <2>3, <2>5, <2>14
  <2>. QED BY <1>9, <2>15 DEF Program, a, v
<1>10. CASE a = "br2colors"
  <2>1. r = <<"br2colors", v>>
    BY <1>1, <1>10
  <2>. DEFINE b == (<< >> \o BreathingOps("BR_2COLORS", v)) \o <<Paint, Schedule("breathing", r)>>
  <2>2. ASSUME v \in 1..99 PROVE Vowed(TwoColors(v), r)
    <3>1. b \in Seq(Instr) /\ Vowed(b, r)
      BY <1>1, <1>2, <1>10, <2>2, OpsVow DEF Levels, Resetting, a, v
    <3>2. << >> \o BreathingOps("BR_2COLORS", v) = BreathingOps("BR_2COLORS", v)
      <4>1. BreathingOps("BR_2COLORS", v) \in Seq(Instr)
        BY <1>1, OpsLeave DEF Levels
      <4>. QED BY <4>1
    <3>3. TwoColors(v) = B \o b
      BY <2>1, <2>2, <3>2 DEF TwoColors, B
    <3>. HIDE DEF b
    <3>. QED BY <1>4, <3>1, <3>3
  <2>3. ASSUME v \notin 1..99 PROVE Vowed(TwoColors(v), r)
    BY <1>3, <1>4, <1>5, <2>3 DEF TwoColors, B
  <2>4. Vowed(TwoColors(v), r)
    BY <2>2, <2>3
  <2>. QED BY <1>10, <2>4 DEF Program, a, v
<1>11. CASE a = "brlogscale"
  <2>1. r = <<"brlogscale", v>>
    BY <1>1, <1>11
  <2>. DEFINE b == (P \o BreathingOps("BR_LOGSCALE", v)) \o <<Paint, Schedule("breathing", r)>>
  <2>2. ASSUME v \in 1..7 PROVE Vowed(LogScale(v), r)
    <3>1. b \in Seq(Instr) /\ Vowed(b, r)
      BY <1>1, <1>2, <1>11, <2>2, 1..7 \subseteq 1..99, OpsVow DEF Levels, Resetting, P, a, v
    <3>3. LogScale(v) = B \o b
      BY <2>1, <2>2 DEF LogScale, B, P
    <3>. HIDE DEF b
    <3>. QED BY <1>4, <3>1, <3>3
  <2>3. ASSUME v \notin 1..7 PROVE Vowed(LogScale(v), r)
    BY <1>3, <1>4, <1>5, <2>3 DEF LogScale, B
  <2>4. Vowed(LogScale(v), r)
    BY <2>2, <2>3
  <2>. QED BY <1>11, <2>4 DEF Program, a, v
<1>12. CASE a \in Demos
  <2>1. ASSUME NEW level \in Levels, level # "BR_White"
        PROVE  Vowed(Demo(level, r), r)
    <3>1. ASSUME v \in 1..99 PROVE Vowed(Demo(level, r), r)
      <4>. DEFINE b == << Set("breathing", "level", level), Set("breathing", "max_cnt", v),
                          Schedule("breathing", r) >>
      <4>1. Demo(level, r) = (B \o P) \o b
        BY <3>1 DEF Demo, B, P, v
      <4>2. /\ Set("breathing", "level", level) \in Instr
            /\ Set("breathing", "max_cnt", v) \in Instr /\ Schedule("breathing", r) \in Instr
        BY <1>1, <1>6, <1>7 DEF Works
      <4>3. b \in Seq(Instr) /\ Len(b) = 3
        BY <4>2
      <4>4. /\ b[1] = Set("breathing", "level", level) /\ b[2] = Set("breathing", "max_cnt", v)
            /\ b[3] = Schedule("breathing", r)
        OBVIOUS
      <4>. HIDE DEF b
      <4>5. 1..Len(b) = {1, 2, 3}
        BY <4>3
      <4>6. /\ \A w, f, x : Set(w, f, x)[1] = "set" /\ \A g : f # g => ~Touches(Set(w, f, x), w, g)
            /\ \A w, f : ~Touches(Schedule("breathing", r), w, f)
        BY DEF Set, Schedule, Touches
      <4>7. Leaves(b, "breathing", "level", level)
        BY <4>4, <4>5, <4>6 DEF Leaves
      <4>8. Leaves(b, "breathing", "max_cnt", v)
        BY <4>4, <4>5, <4>6 DEF Leaves
      <4>9. Vow(b, "breathing", r)
        BY <1>12, <2>1, <4>7, <4>8 DEF Vow, MaxOf, Resetting, Demos, a, v
      <4>10. Orderly(b, "breathing", r)
        BY <4>4, <4>5, <4>6 DEF Orderly
      <4>11. Vowed(b, r)
        BY <1>2, <1>12, <3>1, <4>9, <4>10 DEF Vowed, Works
      <4>. QED BY <1>4, <4>1, <4>3, <4>11
    <3>2. ASSUME v \notin 1..99 PROVE Vowed(Demo(level, r), r)
      BY <1>3, <1>4, <1>5, <3>2 DEF Demo, B, P, v
    <3>. QED BY <3>1, <3>2
  <2>2. Vowed(Demo("BR_DEMO", r), r) /\ Vowed(Demo("BR_LOGSCALE_DEMO", r), r)
    BY <2>1 DEF Levels
  <2>. QED BY <1>12, <2>2 DEF Program, a, Demos
<1>13. CASE a = "chase"
  <2>. DEFINE C == CancelSync("breathing") \o CancelSync("chase")
              n == Repeats(v)
              b == << Set("chase", "level", v), Set("chase", "cnt", 0), Set("chase", "max_cnt", 1) >>
              d == IF n > 1 THEN <<Set("chase", "max_cnt", n)>> ELSE << >>
              s == <<Paint, Schedule("chase", r)>>
  <2>1. r = <<"chase", v>>
    BY <1>1, <1>13
  <2>2. C \in Seq(Instr) /\ Unscheduled(C)
    BY StartPieces
  <2>3. n \in Nat /\ n > 0
    BY DEF Repeats
  <2>4. Chase(v) \in {C \o (b \o d \o s), C \o << >>}
    BY <2>1 DEF Chase
  <2>. HIDE DEF C, n
  <2>5. /\ Set("chase", "level", v) \in Instr /\ Set("chase", "cnt", 0) \in Instr
        /\ Set("chase", "max_cnt", 1) \in Instr /\ Set("chase", "max_cnt", n) \in Instr
    BY <1>1, <1>6, <2>3 DEF Works
  <2>6. /\ \A w, f, x : Set(w, f, x)[1] = "set" /\ \A g : f # g => ~Touches(Set(w, f, x), w, g)
    BY DEF Set, Touches
  <2>7. /\ b \in Seq(Instr) /\ Len(b) = 3
        /\ b[1] = Set("chase", "level", v) /\ b[2] = Set("chase", "cnt", 0)
        /\ b[3] = Set("chase", "max_cnt", 1)
    BY <2>5
  <2>8. /\ d \in Seq(Instr)
        /\ n > 1 => Len(d) = 1 /\ d[1] = Set("chase", "max_cnt", n)
        /\ ~(n > 1) => d = << >>
    BY <2>5
  <2>. HIDE DEF b, d, s
  <2>9. 1..Len(b) = {1, 2, 3}
    BY <2>7
  <2>10. Unscheduled(b) /\ Leaves(b, "chase", "cnt", 0) /\ Leaves(b, "chase", "max_cnt", 1)
    BY <2>6, <2>7, <2>9 DEF Leaves, Unscheduled
  <2>11. Unscheduled(d) /\ Spares(d, "chase", "cnt")
         /\ IF n > 1 THEN Leaves(d, "chase", "max_cnt", n) ELSE Spares(d, "chase", "max_cnt")
    <3>1. CASE n > 1
      <4>a. Len(d) = 1 /\ d[1] = Set("chase", "max_cnt", n)
        BY <2>8, <3>1, Zenon
      <4>b. 1..1 = {1}
        OBVIOUS
      <4>1. 1..Len(d) = {1} /\ d[1] = Set("chase", "max_cnt", n)
        BY <4>a, <4>b
      <4>2. Set("chase", "max_cnt", n)[1] # "schedule"
            /\ ~Touches(Set("chase", "max_cnt", n), "chase", "cnt")
        BY DEF Set, Touches
      <4>3. Unscheduled(d) /\ Spares(d, "chase", "cnt")
        BY <4>1, <4>2 DEF Unscheduled, Spares
      <4>4. Leaves(d, "chase", "max_cnt", n)
        BY <4>1 DEF Leaves
      <4>. QED BY <3>1, <4>3, <4>4
    <3>2. CASE ~(n > 1)
      BY <2>8, <3>2 DEF Unscheduled, Spares
    <3>. QED BY <3>1, <3>2
  <2>12. /\ b \o d \in Seq(Instr) /\ Unscheduled(b \o d)
         /\ Leaves(b \o d, "chase", "cnt", 0) /\ Leaves(b \o d, "chase", "max_cnt", n)
    <3>1. n = 1 \/ n > 1
      BY <2>3
    <3>. QED BY <2>7, <2>8, <2>10, <2>11, <3>1, UnscheduledConcat, LeavesConcat
  <2>13. Vow(b \o d, "chase", r)
    BY <1>13, <2>12 DEF Vow, MaxOf, Resetting, Demos, n, a, v
  <2>14. b \o d \o s \in Seq(Instr) /\ Vowed(b \o d \o s, r)
    BY <1>1, <1>2, <1>13, <2>12, <2>13, VowedEnd DEF Works, s
  <2>15. Vowed(Chase(v), r)
    BY <1>3, <1>5, <2>2, <2>4, <2>14, VowedAfter
  <2>. QED BY <1>13, <2>15 DEF Program, a, v
<1>14. CASE a \in {"brightextend", "fade_rate", "ce_temp"}
  <2>1. Vowed(Control, r)
    BY <1>3, <1>4, <1>5 DEF Control, B, P
  <2>. QED BY <1>14, <2>1 DEF Program, a
<1>. QED BY <1>8, <1>9, <1>10, <1>11, <1>12, <1>13, <1>14 DEF Cancelling, Demos, a

-----------------------------------------------------------------------------
(* The promises are kept.                                                  *)

\* What a vow is worth, whatever the parameters are when the store begins.
LEMMA VowPromises ==
  ASSUME NEW o, NEW c, NEW w, NEW r, Servable(w, r), Vow(c, w, r)
  PROVE  Promise(o, c, w, r)
<1>1. \A f, x : Leaves(c, w, f, x) => Kept(o, c, w, f, x)
  BY DEF Kept
<1>. QED BY <1>1, Zenon DEF Vow, Promise

\* Where a store schedules a work item, everything before it sets what the request
\* asks for (br_breathing_store and the others, leds-ktd2061.c:1217).
LEMMA StoresPromise ==
  ASSUME BoundsSuffice, NEW o, NEW r \in Requests, r[1] \in Cancelling,
         NEW i \in 1..Len(Program(r)), Program(r)[i][1] = "schedule"
  PROVE  Promise(o, Program(r), Program(r)[i][2], Program(r)[i][3])
<1>. DEFINE c == Program(r)
<1>1. Vowed(c, r)
  BY StoresVowed
<1>. HIDE DEF c
<1>2. c[i][1] = "schedule" /\ i \in 1..Len(c)
  BY DEF c
<1>3. PICK w \in Works : Servable(w, r) /\ Vow(c, w, r) /\ Orderly(c, w, r)
  BY <1>1, <1>2 DEF Vowed, Unscheduled
<1>4. c[i][2] = w /\ c[i][3] = r
  <2>1. c[i] = Schedule(w, r)
    BY <1>2, <1>3 DEF Orderly
  <2>. QED BY <2>1 DEF Schedule
<1>. QED BY <1>3, <1>4, VowPromises DEF c

\* As long as a store has work items to cancel its promise is about what it will
\* set itself: what a work item does to its counters does not matter.
LEMMA StopsPromise ==
  ASSUME NEW o, NEW n, NEW c, NEW w, NEW r, Promise(o, c, w, r),
         NEW i \in 1..Len(c), Stops(c[i])
  PROVE  Promise(n, c, w, r)
<1>1. \A f, x : Kept(o, c, w, f, x) => Kept(n, c, w, f, x)
  BY DEF Kept
<1>. QED BY <1>1, Zenon DEF Promise

\* What an instruction of a store does to br_ops and chase_ops.
FieldsOf(w) == IF w = "breathing" THEN {"level", "en", "cnt", "max_cnt"}
               ELSE {"level", "cnt", "max_cnt"}
Updates(o, n, i) ==
  \A w \in Works : \A f \in FieldsOf(w) :
    n[w][f] = IF Touches(i, w, f) THEN i[4] ELSE o[w][f]

\* A store that has executed its first instruction has as much to keep as before.
LEMMA KeptPop ==
  ASSUME NEW c \in Seq(Instr), c # << >>, StoreShape(c), NEW o, NEW n, Updates(o, n, c[1]),
         NEW w \in Works, NEW f \in FieldsOf(w), NEW x, Kept(o, c, w, f, x)
  PROVE  Kept(n, Tail(c), w, f, x)
<1>. DEFINE d == Tail(c)
<1>1. /\ Len(c) \in Nat /\ Len(c) > 0 /\ Len(d) = Len(c) - 1
      /\ \A i \in 1..Len(d) : d[i] = c[i + 1]
  OBVIOUS
<1>. HIDE DEF d
<1>2. \A i \in 1..Len(d) : i + 1 \in 1..Len(c) /\ d[i] = c[i + 1] /\ i + 1 > 1
  BY <1>1
<1>3. 1 \in 1..Len(c)
  BY <1>1
<1>4. ASSUME NEW k \in 1..Len(c), c[k] = Set(w, f, x),
             \A j \in 1..Len(c) : j > k => ~Touches(c[j], w, f), k > 1
      PROVE  Leaves(d, w, f, x)
  <2>1. k - 1 \in 1..Len(d) /\ (k - 1) + 1 = k
    BY <1>1, <1>4
  <2>2. d[k - 1] = Set(w, f, x)
    BY <1>2, <1>4, <2>1
  <2>3. ASSUME NEW j \in 1..Len(d), j > k - 1 PROVE ~Touches(d[j], w, f)
    <3>1. j + 1 > k
      BY <1>4, <2>3
    <3>. QED BY <1>2, <1>4, <3>1
  <2>. QED BY <2>1, <2>2, <2>3 DEF Leaves
<1>5. ASSUME c[1] = Set(w, f, x), \A j \in 1..Len(c) : j > 1 => ~Touches(c[j], w, f)
      PROVE  n[w][f] = x /\ Spares(d, w, f) /\ \A i \in 1..Len(d) : ~Stops(d[i])
  <2>1. Touches(c[1], w, f) /\ c[1][4] = x /\ ~Stops(c[1])
    BY <1>5 DEF Set, Touches, Stops
  <2>2. n[w][f] = x
    BY <2>1 DEF Updates
  <2>3. Spares(d, w, f)
    BY <1>2, <1>5 DEF Spares
  <2>4. \A i \in 1..Len(d) : ~Stops(d[i])
    BY <1>2, <1>3, <2>1 DEF StoreShape
  <2>. QED BY <2>2, <2>3, <2>4
<1>6. ASSUME o[w][f] = x, Spares(c, w, f), \A i \in 1..Len(c) : ~Stops(c[i])
      PROVE  n[w][f] = x /\ Spares(d, w, f) /\ \A i \in 1..Len(d) : ~Stops(d[i])
  <2>1. n[w][f] = x
    BY <1>3, <1>6 DEF Updates, Spares
  <2>. QED BY <1>2, <1>6, <2>1 DEF Spares
<1>7. CASE Leaves(c, w, f, x)
  <2>1. PICK k \in 1..Len(c) :
          c[k] = Set(w, f, x) /\ \A j \in 1..Len(c) : j > k => ~Touches(c[j], w, f)
    BY <1>7 DEF Leaves
  <2>2. CASE k = 1
    BY <1>5, <2>1, <2>2 DEF Kept, d
  <2>3. CASE k # 1
    <3>1. k > 1
      BY <2>3
    <3>2. Leaves(d, w, f, x)
      BY <1>4, <2>1, <3>1
    <3>. QED BY <3>2 DEF Kept, d
  <2>. QED BY <2>2, <2>3
<1>8. CASE ~Leaves(c, w, f, x)
  <2>1. o[w][f] = x /\ Spares(c, w, f) /\ \A i \in 1..Len(c) : ~Stops(c[i])
    BY <1>8 DEF Kept
  <2>. QED BY <1>6, <2>1 DEF Kept, d
<1>. QED BY <1>7, <1>8

\* A step of a store keeps the promise of the rest of its code.
LEMMA PromisePop ==
  ASSUME NEW c \in Seq(Instr), c # << >>, StoreShape(c), NEW o, NEW n, Updates(o, n, c[1]),
         NEW w \in Works, NEW r, Promise(o, c, w, r)
  PROVE  Promise(n, Tail(c), w, r)
<1>. DEFINE d == Tail(c)
<1>1. \A f \in FieldsOf(w) : \A x : Kept(o, c, w, f, x) => Kept(n, d, w, f, x)
  BY KeptPop
<1>. HIDE DEF d
<1>2. /\ "cnt" \in FieldsOf(w) /\ "max_cnt" \in FieldsOf(w) /\ "level" \in FieldsOf(w)
      /\ w = "breathing" => "en" \in FieldsOf(w)
  BY DEF FieldsOf
<1>3. w = "chase" => r[1] = "chase"
  BY DEF Promise, Servable
<1>4. r[1] \in Resetting \cup {"br_white"} => w = "breathing"
  BY <1>3 DEF Works, Resetting
<1>5. Promise(n, d, w, r)
  BY <1>1, <1>2, <1>4, Zenon DEF Promise
<1>. QED BY <1>5 DEF d

\* All that a store with nothing left but its schedule_work has promised is true,
\* and the work item starts from there.
LEMMA PromiseKept ==
  ASSUME NEW c \in Seq(Instr), NEW w \in Works, NEW r, Len(c) = 1, c[1][1] = "schedule",
         NEW o, o[w].cnt \in Nat, Promise(o, c, w, r)
  PROVE  r # Again /\ Params(w, o[w], r) /\ Rest(o[w], r, 0)
<1>1. 1 \in 1..Len(c) /\ \A i \in 1..Len(c) : i = 1
  OBVIOUS
<1>2. \A f, x : ~Leaves(c, w, f, x)
  BY <1>1 DEF Leaves, Set
<1>3. \A f, x : Kept(o, c, w, f, x) => o[w][f] = x
  BY <1>2 DEF Kept
<1>4. r # Again
  BY DEF Promise, Servable, Again, Resetting, Demos
<1>5. /\ Servable(w, r) /\ o[w].max_cnt = MaxOf(r)
      /\ r[1] \in Resetting \cup {"chase"} => o[w].cnt = 0
      /\ r[1] \in Resetting => o[w].en = 0
      /\ r[1] \in Resetting \cup Demos => o[w].level # "BR_White"
      /\ r[1] = "br_white" => o[w].cnt = 6 /\ o[w].en = IF r[2] = 0 THEN 0 ELSE 1
  BY <1>3, Zenon DEF Promise
<1>6. Params(w, o[w], r)
  BY <1>5, Zenon DEF Params
<1>7. Rest(o[w], r, 0)
  <2>1. Repeats(r[2]) \in Nat
    BY DEF Repeats
  <2>. QED BY <1>5, <2>1 DEF Rest, Servable, Resetting, Demos
<1>. QED BY <1>4, <1>6, <1>7

-----------------------------------------------------------------------------
(* The cycles of the breathing.                                            *)

\* Its code, instruction by instruction.
LEMMA BreathCodes ==
  /\ B1 # << >> /\ Head(B1) = <<"load", Breath>> /\ Tail(B1) = B2 /\ Len(B1) = 3
  /\ B2 # << >> /\ Head(B2) = <<"count", Breath>> /\ Tail(B2) = B3
  /\ B3 # << >> /\ Head(B3) = <<"switch", Breath>> /\ Tail(B3) = << >>
  /\ B4 # << >> /\ Head(B4) = Set(Breath, "cnt", 6) /\ Tail(B4) = B5
  /\ B5 # << >> /\ Head(B5) = Paint /\ Tail(B5) = B6
  /\ B6 # << >> /\ Head(B6) = <<"load", Breath>> /\ Tail(B6) = B7 /\ Len(B6) = 2
  /\ B7 # << >> /\ Head(B7) = <<"test", Breath>> /\ Tail(B7) = << >>
  /\ B8 # << >> /\ Head(B8) = Schedule(Breath, Again) /\ Tail(B8) = << >>
  /\ B9 # << >> /\ Head(B9) = <<"enabled", Breath>> /\ Tail(B9) = << >>
  /\ BE1 # << >> /\ Head(BE1) = Set(Breath, "cnt", 0) /\ Tail(BE1) = BE2
  /\ BE2 # << >> /\ Head(BE2) = Set(Breath, "max_cnt", 0) /\ Tail(BE2) = BE3
  /\ BE3 # << >> /\ Head(BE3) = Set(Breath, "en", 0) /\ Tail(BE3) = BE4
  /\ BE4 # << >> /\ Head(BE4) = Set(Breath, "level", "BR_OFF") /\ Tail(BE4) = << >>
<1>. DEFINE w == Breath
            load == <<"load", w>>
            count == <<"count", w>>
            switch == <<"switch", w>>
            test == <<"test", w>>
            enabled == <<"enabled", w>>
            again == Schedule(w, Again)
            six == Set(w, "cnt", 6)
            e1 == Set(w, "cnt", 0)
            e2 == Set(w, "max_cnt", 0)
            e3 == Set(w, "en", 0)
            e4 == Set(w, "level", "BR_OFF")
<1>1. /\ B1 = <<load, count, switch>> /\ B2 = <<count, switch>> /\ B3 = <<switch>>
      /\ B4 = <<six, Paint, load, test>> /\ B5 = <<Paint, load, test>> /\ B6 = <<load, test>>
      /\ B7 = <<test>> /\ B8 = <<again>> /\ B9 = <<enabled>>
      /\ BE1 = <<e1, e2, e3, e4>> /\ BE2 = <<e2, e3, e4>> /\ BE3 = <<e3, e4>> /\ BE4 = <<e4>>
  BY DEF B1, B2, B3, B4, B5, B6, B7, B8, B9, BE1, BE2, BE3, BE4
<1>. HIDE DEF w, load, count, switch, test, enabled, again, six, e1, e2, e3, e4
<1>2. /\ \A a : <<a>> # << >> /\ Head(<<a>>) = a /\ Tail(<<a>>) = << >> /\ Len(<<a>>) = 1
      /\ \A a, b : <<a, b>> # << >> /\ Head(<<a, b>>) = a /\ Tail(<<a, b>>) = <<b>> /\ Len(<<a, b>>) = 2
      /\ \A a, b, c : /\ <<a, b, c>> # << >> /\ Head(<<a, b, c>>) = a /\ Tail(<<a, b, c>>) = <<b, c>>
                     /\ Len(<<a, b, c>>) = 3
      /\ \A a, b, c, d : /\ <<a, b, c, d>> # << >> /\ Head(<<a, b, c, d>>) = a
                        /\ Tail(<<a, b, c, d>>) = <<b, c, d>>
  OBVIOUS
<1>. QED BY <1>1, <1>2 DEF w, load, count, switch, test, enabled, again, six, e1, e2, e3, e4

\* What kinds of instructions the code of the breathing begins with at each point.
LEMMA BreathTags ==
  /\ Head(B1)[1] = "load" /\ Head(B2)[1] = "count" /\ Head(B3)[1] = "switch"
  /\ Head(B4)[1] = "set" /\ Head(B5)[1] = "paint" /\ Head(B6)[1] = "load"
  /\ Head(B7)[1] = "test" /\ Head(B8)[1] = "schedule" /\ Head(B9)[1] = "enabled"
  /\ Head(BE1)[1] = "set" /\ \A c \in Finishing : Head(c)[1] = "set" /\ Head(c)[3] # "cnt"
  /\ Head(B4)[3] = "cnt" /\ Head(BE1)[3] = "cnt" /\ Head(B4) # Head(BE1) /\ B1 # B6
  /\ Set(Breath, "cnt", 0)[1] = "set" /\ Set(Breath, "cnt", 0)[3] = "cnt"
<1>1. /\ Paint[1] = "paint" /\ Schedule(Breath, Again)[1] = "schedule"
      /\ Set(Breath, "cnt", 6)[1] = "set" /\ Set(Breath, "cnt", 6)[4] = 6
      /\ Set(Breath, "cnt", 0)[1] = "set" /\ Set(Breath, "cnt", 0)[4] = 0
      /\ Set(Breath, "cnt", 0)[3] = "cnt" /\ Set(Breath, "cnt", 6)[3] = "cnt"
  BY DEF Paint, Schedule, Set
<1>2. /\ Set(Breath, "max_cnt", 0)[1] = "set" /\ Set(Breath, "max_cnt", 0)[3] = "max_cnt"
      /\ Set(Breath, "en", 0)[1] = "set" /\ Set(Breath, "en", 0)[3] = "en"
      /\ Set(Breath, "level", "BR_OFF")[1] = "set" /\ Set(Breath, "level", "BR_OFF")[3] = "level"
  BY DEF Set
<1>3. \A c \in Finishing : Head(c)[1] = "set" /\ Head(c)[3] # "cnt"
  BY <1>2, BreathCodes DEF Finishing
<1>4. Head(B4)[3] = "cnt" /\ Head(BE1)[3] = "cnt" /\ Head(B4) # Head(BE1)
  BY <1>1, BreathCodes, SMTT(30)
<1>5. /\ Head(B1)[1] = "load" /\ Head(B2)[1] = "count" /\ Head(B3)[1] = "switch"
      /\ Head(B6)[1] = "load" /\ Head(B7)[1] = "test" /\ Head(B9)[1] = "enabled" /\ B1 # B6
  BY BreathCodes, SMTT(30)
<1>6. /\ Head(B4)[1] = "set" /\ Head(B5)[1] = "paint" /\ Head(B8)[1] = "schedule"
      /\ Head(BE1)[1] = "set"
  BY <1>1, BreathCodes, SMTT(30)
<1>. QED BY <1>1, <1>3, <1>4, <1>5, <1>6

\* The instruction that comes next tells where it is...
LEMMA BreathHeads ==
  ASSUME NEW c, NEW q, NEW o, NEW r, NEW k, NEW l, BreathFits(c, q, o, r, k, l), c # << >>
  PROVE  /\ ~q
         /\ \/ Head(c)[1] = "load" /\ c \in {B1, B6}
            \/ Head(c)[1] = "count" /\ c = B2
            \/ Head(c)[1] = "switch" /\ c = B3
            \/ Head(c)[1] = "paint" /\ c = B5
            \/ Head(c)[1] = "test" /\ c = B7
            \/ Head(c)[1] = "schedule" /\ c = B8
            \/ Head(c)[1] = "enabled" /\ c = B9
            \/ Head(c)[1] = "set" /\ c \in {B4, BE1} \cup Finishing
         /\ c \notin Finishing => Params(Breath, o, r) /\ BreathPoint(c, o, r, k, l)
         /\ Head(c) = Set(Breath, "cnt", 0) => c = BE1
<1>1. ~q /\ (c \notin Finishing => Params(Breath, o, r) /\ BreathPoint(c, o, r, k, l))
  BY DEF BreathFits
<1>2. c \in {B1, B2, B3, B4, B5, B6, B7, B8, B9, BE1} \cup Finishing
  BY <1>1, Zenon DEF BreathPoint
<1>3. Head(c) = Set(Breath, "cnt", 0) => c = BE1
  <2>1. c \in {B4, BE1} => (Head(c) = Set(Breath, "cnt", 0) => c = BE1)
    BY BreathCodes, BreathTags
  <2>. QED BY <1>2, <2>1, BreathTags
<1>. QED BY <1>1, <1>2, <1>3, BreathTags

\* ...and what is known there.
LEMMA BreathPoints ==
  ASSUME NEW o, NEW r, NEW k, NEW l
  PROVE  /\ BreathPoint(B1, o, r, k, l) => Rest(o, r, k - 1)
         /\ BreathPoint(B2, o, r, k, l) => Rest(o, r, k - 1) /\ l = o.cnt
         /\ BreathPoint(B3, o, r, k, l) => Counted(o, r, k)
         /\ BreathPoint(B4, o, r, k, l) => Counted(o, r, k) /\ o.level = "BR_White"
         /\ BreathPoint(B5, o, r, k, l) => Counted(o, r, k)
         /\ BreathPoint(B6, o, r, k, l) => Counted(o, r, k)
         /\ BreathPoint(B7, o, r, k, l) => Counted(o, r, k) /\ l = o.cnt
         /\ BreathPoint(B8, o, r, k, l) => Rest(o, r, k)
         /\ BreathPoint(B9, o, r, k, l) => Counted(o, r, k) /\ o.cnt >= o.max_cnt
         /\ BreathPoint(BE1, o, r, k, l) =>
              Counted(o, r, k) /\ o.cnt >= o.max_cnt /\ o.en = 0
<1>. DEFINE R0 == Rest(o, r, k - 1)
            R == Rest(o, r, k)
            C == Counted(o, r, k)
            W == o.level = "BR_White"
            L == l = o.cnt
            M == o.cnt >= o.max_cnt
            E == o.en = 0
<1>1. /\ B1 \notin {B2, B3, B4, B5, B6, B7, B8, B9, BE1} /\ B2 \notin {B3, B4, B5, B6, B7, B8, B9, BE1}
      /\ B3 \notin {B4, B5, B6, B7, B8, B9, BE1} /\ B4 \notin {B5, B6, B7, B8, B9, BE1}
      /\ B5 \notin {B6, B7, B8, B9, BE1} /\ B6 \notin {B7, B8, B9, BE1}
      /\ B7 \notin {B8, B9, BE1} /\ B8 \notin {B9, BE1} /\ B9 # BE1
  BY BreathTags
<1>2. BreathPoint(B1, o, r, k, l) => R0
  BY <1>1, Zenon DEF BreathPoint
<1>3. BreathPoint(B2, o, r, k, l) => R0 /\ L
  BY <1>1, Zenon DEF BreathPoint
<1>4. BreathPoint(B3, o, r, k, l) => C
  BY <1>1, Zenon DEF BreathPoint
<1>5. BreathPoint(B4, o, r, k, l) => C /\ W
  BY <1>1, Zenon DEF BreathPoint
<1>6. BreathPoint(B5, o, r, k, l) => C
  BY <1>1, Zenon DEF BreathPoint
<1>7. BreathPoint(B6, o, r, k, l) => C
  BY <1>1, Zenon DEF BreathPoint
<1>8. BreathPoint(B7, o, r, k, l) => C /\ L
  BY <1>1, Zenon DEF BreathPoint
<1>9. BreathPoint(B8, o, r, k, l) => R
  BY <1>1, Zenon DEF BreathPoint
<1>10. BreathPoint(B9, o, r, k, l) => C /\ M
  BY <1>1, Zenon DEF BreathPoint
<1>11. BreathPoint(BE1, o, r, k, l) => C /\ M /\ E
  BY <1>1, Zenon DEF BreathPoint
<1>. QED BY <1>2, <1>3, <1>4, <1>5, <1>6, <1>7, <1>8, <1>9, <1>10, <1>11

-----------------------------------------------------------------------------
(* What the counters say as a cycle goes on.                               *)

\* Only cnt has changed.
Recounted(o, n, x) ==
  /\ n.cnt = x /\ n.max_cnt = o.max_cnt /\ n.level = o.level

\* The work item starts: a cycle more.
LEMMA CycleStarts ==
  ASSUME NEW w \in Works, NEW o, o.cnt \in 0..CountBound, NEW r, NEW k \in 0..CycleBound,
         Params(w, o, r), Rest(o, r, k)
  PROVE  Rest(o, r, Bump(k, CycleBound) - 1)
<1>. DEFINE n == Bump(k, CycleBound)
<1>. USE RingAssumption
<1>1. k < CycleBound => n - 1 = k
  BY DEF Bump
<1>2. k >= CycleBound => n - 1 = k - 1
  BY DEF Bump
<1>3. /\ r[2] \in Nat /\ Asked(r) < CycleBound /\ Repeats(r[2]) \in Nat
      /\ r[1] \in Resetting \cup Demos \cup {"br_white", "chase"}
  BY DEF Params, Servable, Repeats, Works
<1>4. CASE k < CycleBound
  BY <1>1, <1>4
<1>5. CASE k >= CycleBound
  <2>. HIDE DEF n
  <2>1. ~(r[1] \in Resetting) /\ r[1] # "chase"
    BY <1>3, <1>5 DEF Rest, Asked, Resetting
  <2>2. r[1] = "br_white" => r[2] # 0
    BY <1>3, <1>5 DEF Rest, Asked
  <2>3. r[1] \in Demos => o.en # 0
    BY <1>3, <1>5 DEF Rest, Asked, Demos
  <2>. QED BY <1>2, <1>5, <2>1, <2>2, <2>3 DEF Rest, Resetting, Demos
<1>. QED BY <1>4, <1>5

\* The breathing counts its cycle.
LEMMA BreathCounts ==
  ASSUME NEW o, o.cnt \in 0..CountBound, NEW r, NEW k \in 0..CycleBound, NEW n,
         Params(Breath, o, r), Rest(o, r, k - 1), Recounted(o, n, Bump(o.cnt, CountBound)), n.en = o.en
  PROVE  Params(Breath, n, r) /\ Counted(n, r, k)
<1>1. Params(Breath, n, r)
  BY DEF Params, Recounted
<1>2. /\ r[2] \in Nat /\ CountBound \in Nat /\ CountBound > 6
      /\ r[1] \in Resetting \cup Demos \cup {"br_white"}
      /\ r[1] \in Resetting \cup Demos => r[2] > 0 /\ r[2] < CountBound
  BY RingAssumption DEF Params, Servable, Breath
<1>3. n.cnt = IF o.cnt < CountBound THEN o.cnt + 1 ELSE o.cnt
  BY DEF Recounted, Bump
<1>4. CASE r[1] \in Resetting
  BY <1>1, <1>2, <1>3, <1>4 DEF Rest, Counted, Resetting, Demos
<1>5. CASE r[1] \in Demos
  BY <1>1, <1>2, <1>3, <1>5 DEF Rest, Counted, Resetting, Demos
<1>6. CASE r[1] = "br_white"
  BY <1>1, <1>2, <1>3, <1>6 DEF Rest, Counted, Resetting, Demos
<1>. QED BY <1>1, <1>2, <1>4, <1>5, <1>6

\* A bright cycle of br_white sets the counter past max_cnt.
LEMMA BreathWhite ==
  ASSUME NEW o, NEW r, NEW k, NEW n, o.level = "BR_White",
         Params(Breath, o, r), Counted(o, r, k), Recounted(o, n, 6), n.en = o.en
  PROVE  Params(Breath, n, r) /\ Counted(n, r, k)
<1>1. Params(Breath, n, r)
  BY DEF Params, Recounted
<1>2. r[1] = "br_white"
  BY DEF Params, Servable, Breath
<1>. QED BY <1>1, <1>2 DEF Counted, Recounted, Resetting, Demos

\* It goes on if cycles are left, or if br_white made it endless.
LEMMA BreathGoesOn ==
  ASSUME NEW o, o.cnt \in 0..CountBound, NEW r, NEW k \in 0..CycleBound,
         Params(Breath, o, r), Counted(o, r, k), o.cnt < o.max_cnt \/ o.en >= 1
  PROVE  Rest(o, r, k)
<1>. USE RingAssumption
<1>1. /\ r[2] \in Nat /\ r[1] \in Resetting \cup Demos \cup {"br_white"}
      /\ o.max_cnt = IF r[1] = "br_white" THEN 5 ELSE r[2]
  BY DEF Params, Servable, Breath, MaxOf, Resetting, Demos
<1>2. CASE r[1] \in Resetting
  BY <1>1, <1>2 DEF Params, Counted, Rest, Resetting, Demos
<1>3. CASE r[1] \in Demos
  BY <1>1, <1>3 DEF Params, Counted, Rest, Resetting, Demos
<1>4. CASE r[1] = "br_white"
  BY <1>1, <1>4 DEF Params, Counted, Rest, Resetting, Demos
<1>. QED BY <1>1, <1>2, <1>3, <1>4

\* The chase counts its cycle.
LEMMA ChaseCounts ==
  ASSUME NEW o, o.cnt \in 0..CountBound, NEW r, NEW k \in 0..CycleBound, NEW n,
         Params(Chaser, o, r), Rest(o, r, k - 1), o.cnt < o.max_cnt,
         Recounted(o, n, Bump(o.cnt, CountBound))
  PROVE  Params(Chaser, n, r) /\ Rest(n, r, k)
<1>1. r[1] = "chase"
  BY DEF Params, Servable, Chaser
<1>2. Params(Chaser, n, r)
  BY <1>1 DEF Params, Recounted, Resetting, Demos
<1>3. /\ Repeats(r[2]) \in 1..5 /\ o.max_cnt = Repeats(r[2])
      /\ CountBound \in Nat /\ CountBound > 6
  BY <1>1, RingAssumption DEF Params, MaxOf, Repeats
<1>4. n.cnt = o.cnt + 1
  BY <1>3 DEF Recounted, Bump
<1>5. Rest(n, r, k)
  BY <1>1, <1>3, <1>4 DEF Rest, Resetting, Demos
<1>. QED BY <1>2, <1>5

\* What the invariant says of the cycles of an animation about to end.
LEMMA BreathEnd ==
  ASSUME NEW o, o.cnt \in 0..CountBound, NEW r, NEW k \in 0..CycleBound,
         Params(Breath, o, r), Counted(o, r, k), o.cnt >= o.max_cnt, o.en = 0
  PROVE  /\ r[1] \in Resetting => k = r[2]
         /\ r[1] \in Demos => k <= r[2]
         /\ r[1] = "br_white" => r[2] = 0 /\ k = 1
         /\ r[1] # "chase"
<1>1. /\ r[2] \in Nat /\ r[1] \in Resetting \cup Demos \cup {"br_white"}
      /\ o.max_cnt = IF r[1] = "br_white" THEN 5 ELSE r[2]
  BY DEF Params, Servable, Breath, MaxOf, Resetting, Demos
<1>2. CASE r[1] \in Resetting
  BY <1>1, <1>2, RingAssumption DEF Counted, Resetting, Demos
<1>3. CASE r[1] \in Demos
  BY <1>1, <1>3, RingAssumption DEF Counted, Resetting, Demos
<1>4. CASE r[1] = "br_white"
  BY <1>1, <1>4, RingAssumption DEF Params, Counted, Resetting, Demos
<1>. QED BY <1>1, <1>2, <1>3, <1>4

\* What the invariant says of the cycles of a chase about to end: one more than max_cnt.
LEMMA ChaseEnd ==
  ASSUME NEW o, o.cnt \in 0..CountBound, NEW r, NEW k \in 0..CycleBound,
         Params(Chaser, o, r), Rest(o, r, k - 1), o.cnt >= o.max_cnt
  PROVE  r[1] = "chase" /\ k = Repeats(r[2]) + 1
<1>1. r[1] = "chase"
  BY DEF Params, Servable, Chaser
<1>2. Repeats(r[2]) \in 1..5 /\ o.max_cnt = Repeats(r[2])
  BY <1>1 DEF Params, MaxOf, Repeats
<1>. QED BY <1>1, <1>2, RingAssumption DEF Rest

-----------------------------------------------------------------------------
(* The code of the chase, in the same way.                                 *)

\* Its code, instruction by instruction.
LEMMA ChaseCodes ==
  /\ C1 # << >> /\ Head(C1) = <<"cancel", Breath>> /\ Tail(C1) = C2
  /\ C2 # << >> /\ Head(C2) = <<"wait", Breath>> /\ Tail(C2) = C3
  /\ C3 # << >> /\ Head(C3) = <<"switch", Chaser>> /\ Tail(C3) = << >>
  /\ C4 # << >> /\ Head(C4) = Paint /\ Tail(C4) = C5 /\ Len(C4) = 3
  /\ C5 # << >> /\ Head(C5) = <<"load", Chaser>> /\ Tail(C5) = C6 /\ Len(C5) = 2
  /\ C6 # << >> /\ Head(C6) = <<"test", Chaser>> /\ Tail(C6) = << >>
  /\ C7 # << >> /\ Head(C7) = <<"load", Chaser>> /\ Tail(C7) = C8 /\ Len(C7) = 3
  /\ C8 # << >> /\ Head(C8) = <<"count", Chaser>> /\ Tail(C8) = C9
  /\ C9 # << >> /\ Head(C9) = Schedule(Chaser, Again) /\ Tail(C9) = << >>
  /\ CE1 # << >> /\ Head(CE1) = Set(Chaser, "cnt", 0) /\ Tail(CE1) = CE2
  /\ CE2 # << >> /\ Head(CE2) = Set(Chaser, "level", CHASE_OFF) /\ Tail(CE2) = CE3
  /\ CE3 # << >> /\ Head(CE3) = Paint /\ Tail(CE3) = << >> /\ Len(CE3) = 1
<1>. DEFINE w == Chaser
            cancel == <<"cancel", Breath>>
            wait == <<"wait", Breath>>
            load == <<"load", w>>
            count == <<"count", w>>
            switch == <<"switch", w>>
            test == <<"test", w>>
            again == Schedule(w, Again)
            e1 == Set(w, "cnt", 0)
            e2 == Set(w, "level", CHASE_OFF)
<1>1. /\ C1 = <<cancel, wait, switch>> /\ C2 = <<wait, switch>> /\ C3 = <<switch>>
      /\ C4 = <<Paint, load, test>> /\ C5 = <<load, test>> /\ C6 = <<test>>
      /\ C7 = <<load, count, again>> /\ C8 = <<count, again>> /\ C9 = <<again>>
      /\ CE1 = <<e1, e2, Paint>> /\ CE2 = <<e2, Paint>> /\ CE3 = <<Paint>>
  BY DEF C1, C2, C3, C4, C5, C6, C7, C8, C9, CE1, CE2, CE3
<1>. HIDE DEF w, cancel, wait, load, count, switch, test, again, e1, e2
<1>2. /\ \A a : <<a>> # << >> /\ Head(<<a>>) = a /\ Tail(<<a>>) = << >> /\ Len(<<a>>) = 1
      /\ \A a, b : <<a, b>> # << >> /\ Head(<<a, b>>) = a /\ Tail(<<a, b>>) = <<b>> /\ Len(<<a, b>>) = 2
      /\ \A a, b, c : /\ <<a, b, c>> # << >> /\ Head(<<a, b, c>>) = a /\ Tail(<<a, b, c>>) = <<b, c>>
                     /\ Len(<<a, b, c>>) = 3
  OBVIOUS
<1>. QED BY <1>1, <1>2 DEF w, cancel, wait, load, count, switch, test, again, e1, e2

\* What kinds of instructions it begins with at each point.
LEMMA ChaseTags ==
  /\ Head(C1)[1] = "cancel" /\ Head(C2)[1] = "wait" /\ Head(C3)[1] = "switch"
  /\ Head(C4)[1] = "paint" /\ Head(C5)[1] = "load" /\ Head(C6)[1] = "test"
  /\ Head(C7)[1] = "load" /\ Head(C8)[1] = "count" /\ Head(C9)[1] = "schedule"
  /\ Head(CE1)[1] = "set" /\ Head(CE2)[1] = "set" /\ Head(CE2)[3] # "cnt"
  /\ Head(CE3)[1] = "paint" /\ C5 # C7
  /\ Set(Chaser, "cnt", 0)[1] = "set" /\ Set(Chaser, "cnt", 0)[3] = "cnt"
<1>1. /\ Paint[1] = "paint" /\ Schedule(Chaser, Again)[1] = "schedule"
      /\ Set(Chaser, "cnt", 0)[1] = "set" /\ Set(Chaser, "cnt", 0)[3] = "cnt"
      /\ Set(Chaser, "level", CHASE_OFF)[1] = "set" /\ Set(Chaser, "level", CHASE_OFF)[3] = "level"
  BY DEF Paint, Schedule, Set
<1>2. /\ Head(C1)[1] = "cancel" /\ Head(C2)[1] = "wait" /\ Head(C3)[1] = "switch"
      /\ Head(C5)[1] = "load" /\ Head(C6)[1] = "test"
      /\ Head(C7)[1] = "load" /\ Head(C8)[1] = "count" /\ C5 # C7
  BY ChaseCodes
<1>3. /\ Head(C4)[1] = "paint" /\ Head(C9)[1] = "schedule" /\ Head(CE1)[1] = "set"
      /\ Head(CE2)[1] = "set" /\ Head(CE2)[3] # "cnt" /\ Head(CE3)[1] = "paint"
  BY <1>1, ChaseCodes
<1>. QED BY <1>1, <1>2, <1>3

\* The instruction that comes next tells where the chase is...
LEMMA ChaseHeads ==
  ASSUME NEW c, NEW q, NEW o, NEW r, NEW k, NEW l, ChaseFits(c, q, o, r, k, l), c # << >>
  PROVE  /\ ~q
         /\ \/ Head(c)[1] = "cancel" /\ c = C1
            \/ Head(c)[1] = "wait" /\ c = C2
            \/ Head(c)[1] = "switch" /\ c = C3
            \/ Head(c)[1] = "paint" /\ c \in {C4, CE3}
            \/ Head(c)[1] = "load" /\ c \in {C5, C7}
            \/ Head(c)[1] = "test" /\ c = C6
            \/ Head(c)[1] = "count" /\ c = C8
            \/ Head(c)[1] = "schedule" /\ c = C9
            \/ Head(c)[1] = "set" /\ c \in {CE1, CE2}
         /\ c \notin {CE2, CE3} => Params(Chaser, o, r) /\ ChasePoint(c, o, r, k, l)
         /\ Head(c) = Set(Chaser, "cnt", 0) => c = CE1
<1>1. ~q /\ (c \notin {CE2, CE3} => Params(Chaser, o, r) /\ ChasePoint(c, o, r, k, l))
  BY DEF ChaseFits
<1>2. c \in {C1, C2, C3, C4, C5, C6, C7, C8, C9, CE1, CE2, CE3}
  BY <1>1, Zenon DEF ChasePoint
<1>3. Head(c) = Set(Chaser, "cnt", 0) => c = CE1
  BY <1>2, ChaseTags
<1>. QED BY <1>1, <1>2, <1>3, ChaseTags

\* ...and what is known there.
LEMMA ChasePoints ==
  ASSUME NEW o, NEW r, NEW k, NEW l
  PROVE  /\ \A c \in {C1, C2, C3, C4, C5} : ChasePoint(c, o, r, k, l) => Rest(o, r, k - 1)
         /\ ChasePoint(C6, o, r, k, l) => Rest(o, r, k - 1) /\ l = o.cnt
         /\ ChasePoint(C7, o, r, k, l) => Rest(o, r, k - 1) /\ o.cnt < o.max_cnt
         /\ ChasePoint(C8, o, r, k, l) => Rest(o, r, k - 1) /\ o.cnt < o.max_cnt /\ l = o.cnt
         /\ ChasePoint(C9, o, r, k, l) => Rest(o, r, k)
         /\ ChasePoint(CE1, o, r, k, l) => Rest(o, r, k - 1) /\ o.cnt >= o.max_cnt
<1>1. /\ {C1, C2, C3, C4, C5} \cap {C6, C7, C8, C9, CE1} = {} /\ C6 \notin {C7, C8, C9, CE1}
      /\ C7 \notin {C8, C9, CE1} /\ C8 \notin {C9, CE1} /\ C9 # CE1
  BY ChaseTags
<1>2. \A c \in {C1, C2, C3, C4, C5} : ChasePoint(c, o, r, k, l) => Rest(o, r, k - 1)
  <2>1. SUFFICES ASSUME NEW c \in {C1, C2, C3, C4, C5}, ChasePoint(c, o, r, k, l)
                 PROVE  Rest(o, r, k - 1)
    OBVIOUS
  <2>2. c \notin {C9}
    BY <1>1
  <2>. QED BY <2>1, <2>2, Zenon DEF ChasePoint
<1>3. ChasePoint(C6, o, r, k, l) => Rest(o, r, k - 1) /\ l = o.cnt
  BY <1>1, Zenon DEF ChasePoint
<1>4. ChasePoint(C7, o, r, k, l) => Rest(o, r, k - 1) /\ o.cnt < o.max_cnt
  BY <1>1, Zenon DEF ChasePoint
<1>5. ChasePoint(C8, o, r, k, l) => Rest(o, r, k - 1) /\ o.cnt < o.max_cnt /\ l = o.cnt
  BY <1>1, Zenon DEF ChasePoint
<1>6. ChasePoint(C9, o, r, k, l) => Rest(o, r, k)
  BY <1>1, Zenon DEF ChasePoint
<1>7. ChasePoint(CE1, o, r, k, l) => Rest(o, r, k - 1) /\ o.cnt >= o.max_cnt
  BY <1>1, Zenon DEF ChasePoint
<1>. QED BY <1>2, <1>3, <1>4, <1>5, <1>6, <1>7

-----------------------------------------------------------------------------
(* The steps of the work items.                                            *)

\* A work item sets its own parameters, and schedules itself for what it serves.
LEMMA WorkHeads ==
  ASSUME Breathes, Chases, NEW w \in Works, code[w] # << >>
  PROVE  /\ Head(code[w])[1] = "set" => Head(code[w])[2] = w
         /\ Head(code[w])[1] = "schedule" => Head(code[w]) = Schedule(w, Again)
<1>1. CASE w = "breathing"
  <2>1. BreathFits(code[w], pending[w], ops[w], served[w], cycles[w], loaded[w])
    BY <1>1, Zenon DEF Breathes, Breath
  <2>2. /\ Head(code[w])[1] = "set" => code[w] \in {B4, BE1} \cup Finishing
        /\ Head(code[w])[1] = "schedule" => code[w] = B8
    BY <2>1, BreathHeads
  <2>3. \A f, x : Set(Breath, f, x)[2] = w
    BY <1>1 DEF Set, Breath
  <2>4. \A c \in {B4, BE1} \cup Finishing : Head(c)[2] = w
    BY <2>3, BreathCodes, SMTT(30) DEF Finishing
  <2>5. Head(B8) = Schedule(w, Again)
    BY <1>1, BreathCodes DEF Breath
  <2>. QED BY <2>2, <2>4, <2>5
<1>2. CASE w = "chase"
  <2>1. ChaseFits(code[w], pending[w], ops[w], served[w], cycles[w], loaded[w])
    BY <1>2, Zenon DEF Chases, Chaser
  <2>2. /\ Head(code[w])[1] = "set" => code[w] \in {CE1, CE2}
        /\ Head(code[w])[1] = "schedule" => code[w] = C9
    BY <2>1, ChaseHeads
  <2>3. \A f, x : Set(Chaser, f, x)[2] = w
    BY <1>2 DEF Set, Chaser
  <2>4. Head(CE1)[2] = w /\ Head(CE2)[2] = w
    BY <2>3, ChaseCodes
  <2>5. Head(C9) = Schedule(w, Again)
    BY <1>2, ChaseCodes DEF Chaser
  <2>. QED BY <2>2, <2>4, <2>5
<1>. QED BY <1>1, <1>2 DEF Works

\* What the instructions that a thread takes leave in its code.
LEMMA GoesTo ==
  ASSUME Shapes, NEW t \in Threads, code[t] # << >>, NEW b \in Seq(Instr), Goes(t, b)
  PROVE  /\ \A u \in Threads \ {t} : code'[u] = code[u]
         /\ b = << >> => code'[t] = Tail(code[t])
         /\ Tail(code[t]) = << >> => code'[t] = b
<1>1. code[t] \in Seq(Instr) /\ Tail(code[t]) \in Seq(Instr) /\ code \in [Threads -> Seq(Instr)]
  BY DEF Shapes
<1>2. code'[t] = b \o Tail(code[t]) /\ \A u \in Threads \ {t} : code'[u] = code[u]
  BY <1>1 DEF Goes
<1>3. \A s \in Seq(Instr) : << >> \o s = s /\ s \o << >> = s
  OBVIOUS
<1>. QED BY <1>1, <1>2, <1>3

\* An instruction that puts nothing in its place leaves the tail of the code.
LEMMA GoesOn ==
  ASSUME Shapes, NEW t \in Threads, code[t] # << >>, Goes(t, << >>)
  PROVE  code'[t] = Tail(code[t])
<1>. DEFINE b == << >>
<1>1. b \in Seq(Instr) /\ Goes(t, b) /\ b = << >>
  OBVIOUS
<1>. HIDE DEF b
<1>. QED BY <1>1, GoesTo

\* What an assignment to cnt leaves as it was.
LEMMA SetCnt ==
  ASSUME Ranges, NEW w \in Works, NEW x, ops' = [ops EXCEPT ![w]["cnt"] = x]
  PROVE  /\ Recounted(ops[w], ops'[w], x) /\ (w = Breath => ops'[w].en = ops[w].en)
         /\ \A v \in Works \ {w} : ops'[v] = ops[v]
<1>1. /\ DOMAIN ops = Works /\ ops["breathing"] \in BreathingRecords
      /\ ops["chase"] \in ChaseRecords
  BY DEF Ranges
<1>2. \A v \in Works \ {w} : ops'[v] = ops[v]
  BY <1>1
<1>3. CASE w = "breathing"
  BY <1>1, <1>2, <1>3 DEF BreathingRecords, Recounted, Breath
<1>4. CASE w = "chase"
  BY <1>1, <1>2, <1>4 DEF ChaseRecords, Recounted, Breath
<1>. QED BY <1>3, <1>4 DEF Works

\* A step of one work item leaves the other as it is, or takes it off the queue.
LEMMA OtherWork ==
  ASSUME RingInv, Ranges, Breathes, Chases, NEW w \in Works, WorkStep(w),
         NEW v \in Works, v # w
  PROVE  /\ code'[v] = code[v] /\ ops'[v] = ops[v] /\ served'[v] = served[v]
         /\ cycles'[v] = cycles[v] /\ loaded'[v] = loaded[v]
         /\ pending'[v] => pending[v]
<1>1. /\ DOMAIN ops = Works /\ DOMAIN code = Threads /\ pending \in [Works -> BOOLEAN]
      /\ DOMAIN loaded = Works /\ DOMAIN served = Works /\ DOMAIN cycles = Works
      /\ w \in Threads /\ v \in Threads
  BY DEF Ranges, Threads
<1>2. code'[v] = code[v]
  <2>1. \/ \E b : Goes(w, b)
        \/ code' = [code EXCEPT ![w] = WorkCode(w)]
    BY <1>1, Zenon DEF WorkStep, Step, DoPaint, DoSet, Cancel, Wait, DoSchedule, WorkStart, Load, Count,
         Switch, Test, EnabledTest
  <2>. QED BY <1>1, <2>1 DEF Goes
<1>3. CASE DoPaint(w) \/ Switch(w) \/ EnabledTest(w)
  BY <1>2, <1>3 DEF DoPaint, Switch, EnabledTest, chipVars, history
<1>4. CASE Cancel(w) \/ Wait(w)
  BY <1>1, <1>2, <1>4 DEF Cancel, Wait, history
<1>5. CASE DoSet(w)
  <2>1. Arg(w, 2) = w
    BY <1>5, WorkHeads DEF DoSet, At, Arg
  <2>2. ops'[v] = ops[v]
    BY <1>1, <1>5, <2>1 DEF DoSet
  <2>. QED BY <1>2, <1>5, <2>2 DEF DoSet, history
<1>6. CASE DoSchedule(w)
  <2>1. Arg(w, 2) = w /\ Arg(w, 3) = Again
    <3>1. Head(code[w]) = Schedule(w, Again)
      BY <1>6, WorkHeads DEF DoSchedule, At
    <3>. QED BY <3>1 DEF Arg, Schedule
  <2>. QED BY <1>1, <1>2, <1>6, <2>1 DEF DoSchedule
<1>7. CASE WorkStart(w)
  BY <1>1, <1>2, <1>7 DEF WorkStart
<1>8. CASE Load(w) \/ Count(w) \/ Test(w)
  BY <1>1, <1>2, <1>8 DEF Load, Count, Test, history
<1>. QED BY <1>3, <1>4, <1>5, <1>6, <1>7, <1>8 DEF WorkStep, Step

\* What leaves a work item alone, or takes it off the queue, leaves it where it fits.
LEMMA WorkFrame ==
  ASSUME NEW w \in Works, w = Breath => Breathes, w = Chaser => Chases,
         code'[w] = code[w], ops'[w] = ops[w], served'[w] = served[w],
         cycles'[w] = cycles[w], loaded'[w] = loaded[w], pending'[w] => pending[w]
  PROVE  (w = Breath => Breathes') /\ (w = Chaser => Chases')
<1>1. CASE w = Breath
  BY <1>1 DEF Breathes, BreathFits, Breath, Chaser
<1>2. CASE w = Chaser
  BY <1>2 DEF Chases, ChaseFits, Breath, Chaser
<1>. QED BY <1>1, <1>2

\* What a cycle paints comes before the load and the test.
LEMMA TwoAndTwo ==
  ASSUME NEW a \in Instr, NEW b \in Instr, NEW d \in Instr, NEW e \in Instr
  PROVE  /\ <<a>> \o <<d, e>> = <<a, d, e>>
         /\ <<a, b>> \o <<d, e>> = <<a, b, d, e>>
<1>. DEFINE p == <<a>>
            x == <<a, b>>
            y == <<d, e>>
            q == <<a, d, e>>
            z == <<a, b, d, e>>
            t == p \o y
            u == x \o y
<1>1. /\ p \in Seq(Instr) /\ Len(p) = 1 /\ p[1] = a
      /\ x \in Seq(Instr) /\ Len(x) = 2 /\ x[1] = a /\ x[2] = b
      /\ y \in Seq(Instr) /\ Len(y) = 2 /\ y[1] = d /\ y[2] = e
      /\ q \in Seq(Instr) /\ Len(q) = 3 /\ q[1] = a /\ q[2] = d /\ q[3] = e
      /\ z \in Seq(Instr) /\ Len(z) = 4 /\ z[1] = a /\ z[2] = b /\ z[3] = d /\ z[4] = e
  OBVIOUS
<1>. HIDE DEF p, x, y, q, z
<1>2. t = q
  <2>1. /\ t \in Seq(Instr) /\ Len(t) = Len(p) + Len(y)
        /\ \A i \in 1..Len(p) + Len(y) : t[i] = IF i <= Len(p) THEN p[i] ELSE y[i - Len(p)]
    BY <1>1, ConcatProperties
  <2>. HIDE DEF t
  <2>2. Len(t) = 3 /\ \A i \in 1..3 : t[i] = IF i <= 1 THEN p[i] ELSE y[i - 1]
    BY <1>1, <2>1
  <2>3. t[1] = a /\ t[2] = d /\ t[3] = e /\ \A i \in 1..3 : i \in {1, 2, 3}
    BY <1>1, <2>2
  <2>4. \A i \in 1..Len(t) : t[i] = q[i]
    BY <1>1, <2>2, <2>3
  <2>. QED BY <1>1, <2>1, <2>2, <2>4, SeqEqual, ZenonT(60)
<1>3. u = z
  <2>1. /\ u \in Seq(Instr) /\ Len(u) = Len(x) + Len(y)
        /\ \A i \in 1..Len(x) + Len(y) : u[i] = IF i <= Len(x) THEN x[i] ELSE y[i - Len(x)]
    BY <1>1, ConcatProperties
  <2>. HIDE DEF u
  <2>2. Len(u) = 4 /\ \A i \in 1..4 : u[i] = IF i <= 2 THEN x[i] ELSE y[i - 2]
    BY <1>1, <2>1
  <2>3. u[1] = a /\ u[2] = b /\ u[3] = d /\ u[4] = e /\ \A i \in 1..4 : i \in {1, 2, 3, 4}
    BY <1>1, <2>2
  <2>4. \A i \in 1..Len(u) : u[i] = z[i]
    BY <1>1, <2>2, <2>3
  <2>. QED BY <1>1, <2>1, <2>2, <2>4, SeqEqual
<1>. QED BY <1>2, <1>3 DEF p, x, y, q, z, t, u

\* A point of the code that fits, with the parameters of the request.
LEMMA BreathFitsAt ==
  ASSUME NEW c, NEW q, ~q, NEW o, NEW r, NEW k, NEW l,
         Params(Breath, o, r), BreathPoint(c, o, r, k, l)
  PROVE  BreathFits(c, q, o, r, k, l)
BY Zenon DEF BreathFits

\* The breathing goes from point to point.
LEMMA BreathStep ==
  ASSUME RingInv, Ranges, Breathes, Chases, WorkStep(Breath)
  PROVE  Breathes'
<1>. DEFINE w == Breath
            c == code[w]
            o == ops[w]
            r == served[w]
            k == cycles[w]
            l == loaded[w]
<1>1. /\ w \in Works /\ w \in Threads /\ w # Chaser
      /\ DOMAIN ops = Works /\ DOMAIN pending = Works /\ DOMAIN code = Threads
      /\ DOMAIN loaded = Works /\ DOMAIN served = Works /\ DOMAIN cycles = Works
  BY DEF Ranges, Threads, Works, Breath, Chaser
<1>2. o \in BreathingRecords /\ o.cnt \in 0..CountBound /\ o.en \in {0, 1}
      /\ k \in 0..CycleBound /\ l \in 0..CountBound
  <2>1. o \in BreathingRecords
    BY DEF Ranges, Breath
  <2>2. k \in 0..CycleBound /\ l \in 0..CountBound
    BY <1>1 DEF Ranges
  <2>. QED BY <2>1, <2>2 DEF BreathingRecords
<1>3. BreathFits(c, pending[w], o, r, k, l)
  BY Zenon DEF Breathes
<1>4. Shapes /\ c \in Seq(Instr)
  BY <1>1 DEF RingInv, Shapes
<1>. HIDE DEF w
<1>5. SUFFICES BreathFits(code'[w], pending'[w], ops'[w], served'[w], cycles'[w], loaded'[w])
  BY Zenon DEF Breathes, w
<1>6. CASE WorkStart(w)
  <2>1. /\ c = << >> /\ pending[w] /\ pending'[w] = FALSE /\ code'[w] = B1
        /\ cycles'[w] = Bump(k, CycleBound) /\ ops'[w] = o /\ served'[w] = r /\ loaded'[w] = l
    BY <1>1, <1>6 DEF WorkStart, WorkCode, B1, Breath, Chaser, w
  <2>2. Params(w, o, r) /\ Rest(o, r, k)
    BY <1>3, <2>1 DEF BreathFits, w
  <2>3. Rest(o, r, Bump(k, CycleBound) - 1)
    BY <1>1, <1>2, <2>2, CycleStarts
  <2>4. BreathPoint(B1, o, r, cycles'[w], l)
    BY <2>1, <2>3 DEF BreathPoint
  <2>. QED BY <2>1, <2>2, <2>4, BreathFitsAt DEF w
<1>7. ASSUME c # << >>
      PROVE  /\ ~pending[w]
             /\ \/ Head(c)[1] = "load" /\ c \in {B1, B6}
                \/ Head(c)[1] = "count" /\ c = B2
                \/ Head(c)[1] = "switch" /\ c = B3
                \/ Head(c)[1] = "paint" /\ c = B5
                \/ Head(c)[1] = "test" /\ c = B7
                \/ Head(c)[1] = "schedule" /\ c = B8
                \/ Head(c)[1] = "enabled" /\ c = B9
                \/ Head(c)[1] = "set" /\ c \in {B4, BE1} \cup Finishing
             /\ c \notin Finishing => Params(Breath, o, r) /\ BreathPoint(c, o, r, k, l)
  <2>. HIDE DEF c, o, r, k, l
  <2>. QED BY <1>3, <1>7, BreathHeads
<1>a. ASSUME c # << >>, Goes(w, << >>) PROVE code'[w] = Tail(c)
  BY <1>1, <1>4, <1>a, GoesOn
<1>8. \A x \in {B1, B2, B3, B4, B5, B6, B7, B8, B9, BE1} : x \notin Finishing
  BY BreathTags
<1>. HIDE DEF c, o, r, k, l
<1>9. CASE DoPaint(w)
  <2>1. c = B5 /\ c # << >>
    BY <1>7, <1>9 DEF DoPaint, At, c
  <2>2. code'[w] = B6
    BY <1>a, <1>9, <2>1, BreathCodes DEF DoPaint
  <2>3. UNCHANGED <<ops, pending, loaded, served, cycles>>
    BY <1>9 DEF DoPaint, chipVars, history
  <2>4. Params(Breath, o, r) /\ Counted(o, r, k)
    BY <1>7, <1>8, <2>1, BreathPoints
  <2>5. BreathPoint(B6, o, r, k, l)
    BY <2>4, Zenon DEF BreathPoint
  <2>. QED BY <1>7, <2>1, <2>2, <2>3, <2>4, <2>5, BreathFitsAt DEF o, r, k, l
<1>10. CASE Load(w)
  <2>1. c \in {B1, B6} /\ c # << >>
    BY <1>7, <1>10 DEF Load, At, c
  <2>2. \/ c = B1 /\ code'[w] = B2
        \/ c = B6 /\ code'[w] = B7
    BY <1>a, <1>10, <2>1, BreathCodes DEF Load
  <2>3. UNCHANGED <<ops, pending, served, cycles>> /\ loaded'[w] = o.cnt
    BY <1>1, <1>10 DEF Load, history, o
  <2>4. Params(Breath, o, r)
    BY <1>7, <1>8, <2>1
  <2>5. BreathPoint(code'[w], o, r, k, o.cnt)
    BY <1>7, <1>8, <2>1, <2>2, BreathPoints, Zenon DEF BreathPoint
  <2>. QED BY <1>7, <2>1, <2>3, <2>4, <2>5, BreathFitsAt DEF o, r, k
<1>11. CASE Count(w)
  <2>1. c = B2 /\ c # << >>
    BY <1>7, <1>11 DEF Count, At, c
  <2>2. code'[w] = B3
    BY <1>a, <1>11, <2>1, BreathCodes DEF Count
  <2>3. UNCHANGED <<pending, served, cycles>>
    BY <1>11 DEF Count, history
  <2>4. Params(Breath, o, r) /\ Rest(o, r, k - 1) /\ l = o.cnt
    BY <1>7, <1>8, <2>1, BreathPoints
  <2>5. Recounted(o, ops'[w], Bump(o.cnt, CountBound)) /\ ops'[w].en = o.en
    <3>1. ops' = [ops EXCEPT ![w]["cnt"] = Bump(l, CountBound)]
      BY <1>11 DEF Count, l
    <3>. QED BY <1>1, <2>4, <3>1, SetCnt DEF o, w
  <2>6. Params(Breath, ops'[w], r) /\ Counted(ops'[w], r, k)
    BY <1>2, <2>4, <2>5, BreathCounts
  <2>7. BreathPoint(B3, ops'[w], r, k, loaded'[w])
    BY <2>6, Zenon DEF BreathPoint
  <2>. QED BY <1>7, <2>1, <2>2, <2>3, <2>6, <2>7, BreathFitsAt DEF r, k
<1>12. CASE Switch(w)
  <2>1. c = B3 /\ c # << >> /\ Tail(c) = << >>
    BY <1>7, <1>12, BreathCodes DEF Switch, At, c
  <2>2. UNCHANGED <<ops, pending, loaded, served, cycles>>
    BY <1>12 DEF Switch, chipVars, history
  <2>3. Params(Breath, o, r) /\ Counted(o, r, k)
    BY <1>7, <1>8, <2>1, BreathPoints
  <2>. DEFINE y == << <<"load", w>>, <<"test", w>> >>
              x == IF o.level = "BR_White" THEN <<Set(w, "cnt", 6), Paint>> ELSE <<Paint>>
  <2>4. x \o y = IF o.level = "BR_White" THEN B4 ELSE B5
    <3>. DEFINE six == Set(w, "cnt", 6)
                load == <<"load", w>>
                test == <<"test", w>>
    <3>2. six \in Instr /\ Paint \in Instr /\ load \in Instr /\ test \in Instr
      BY <1>1 DEF Instr
    <3>3. B4 = <<six, Paint, load, test>> /\ B5 = <<Paint, load, test>> /\ y = <<load, test>>
      BY DEF B4, B5, w
    <3>. HIDE DEF six, load, test
    <3>4. /\ <<six, Paint>> \o <<load, test>> = <<six, Paint, load, test>>
          /\ <<Paint>> \o <<load, test>> = <<Paint, load, test>>
      <4>1. \A a, b, d, e \in Instr : <<a, b>> \o <<d, e>> = <<a, b, d, e>>
        BY TwoAndTwo, ZenonT(60)
      <4>2. \A a, d, e \in Instr : <<a>> \o <<d, e>> = <<a, d, e>>
        BY TwoAndTwo
      <4>3. <<six, Paint>> \o <<load, test>> = <<six, Paint, load, test>>
        BY <3>2, <4>1, Zenon
      <4>4. <<Paint>> \o <<load, test>> = <<Paint, load, test>>
        BY <3>2, <4>2, Zenon
      <4>. QED BY <4>3, <4>4
    <3>5. x = IF o.level = "BR_White" THEN <<six, Paint>> ELSE <<Paint>>
      BY DEF six
    <3>. HIDE DEF x, y
    <3>. QED BY <3>3, <3>4, <3>5
  <2>5. Goes(w, x \o y)
    BY <1>1, <1>12 DEF Switch, Chaser, o
  <2>6. x \o y \in Seq(Instr)
    <3>1. Quiet(y) /\ Quiet(<<Set(w, "cnt", 6), Paint>>) /\ Quiet(<<Paint>>)
      BY <1>1, OwnPieces, Pieces
    <3>. QED BY <3>1 DEF Quiet
  <2>. HIDE DEF x, y
  <2>7. code'[w] = x \o y
    BY <1>1, <1>4, <2>1, <2>5, <2>6, GoesTo DEF c
  <2>8. BreathPoint(code'[w], o, r, k, l)
    BY <2>3, <2>4, <2>7, Zenon DEF BreathPoint
  <2>. QED BY <1>7, <2>1, <2>2, <2>3, <2>8, BreathFitsAt DEF o, r, k, l
<1>13. CASE Test(w)
  <2>1. c = B7 /\ c # << >> /\ Tail(c) = << >>
    BY <1>7, <1>13, BreathCodes DEF Test, At, c
  <2>2. UNCHANGED <<ops, pending, served, cycles>>
    BY <1>13 DEF Test, history
  <2>3. Params(Breath, o, r) /\ Counted(o, r, k) /\ l = o.cnt
    BY <1>7, <1>8, <2>1, BreathPoints
  <2>. DEFINE x == IF o.cnt < o.max_cnt THEN B8 ELSE B9
  <2>4. Goes(w, x)
    BY <1>1, <1>13, <2>3 DEF Test, Chaser, o, l, w, B8, B9
  <2>5. x \in Seq(Instr)
    BY <1>1, OwnPieces DEF Quiet, Own, B8, B9, w
  <2>. HIDE DEF x
  <2>6. code'[w] = x
    BY <1>1, <1>4, <2>1, <2>4, <2>5, GoesTo DEF c
  <2>7. CASE o.cnt < o.max_cnt
    <3>1. Rest(o, r, k)
      BY <1>2, <2>3, <2>7, BreathGoesOn
    <3>2. BreathPoint(B8, o, r, k, loaded'[w]) /\ code'[w] = B8
      BY <2>6, <2>7, <3>1, Zenon DEF BreathPoint, x
    <3>. QED BY <1>7, <2>1, <2>2, <2>3, <3>2, BreathFitsAt DEF o, r, k
  <2>8. CASE ~(o.cnt < o.max_cnt)
    <3>1. o.cnt >= o.max_cnt
      BY <1>2, <2>8, RingAssumption DEF BreathingRecords
    <3>2. BreathPoint(B9, o, r, k, loaded'[w]) /\ code'[w] = B9
      BY <2>3, <2>6, <2>8, <3>1, Zenon DEF BreathPoint, x
    <3>. QED BY <1>7, <2>1, <2>2, <2>3, <3>2, BreathFitsAt DEF o, r, k
  <2>. QED BY <2>7, <2>8
<1>14. CASE EnabledTest(w)
  <2>1. c = B9 /\ c # << >> /\ Tail(c) = << >>
    BY <1>7, <1>14, BreathCodes DEF EnabledTest, At, c
  <2>2. UNCHANGED <<ops, pending, loaded, served, cycles>>
    BY <1>14 DEF EnabledTest, chipVars, history
  <2>3. Params(Breath, o, r) /\ Counted(o, r, k) /\ o.cnt >= o.max_cnt
    BY <1>7, <1>8, <2>1, BreathPoints
  <2>. DEFINE x == IF o.en >= 1 THEN B8 ELSE BE1
  <2>4. Goes(w, x)
    BY <1>14 DEF EnabledTest, o, w, B8, BE1
  <2>5. x \in Seq(Instr)
    BY <1>1, OwnPieces DEF Quiet, Own, B8, BE1, w
  <2>. HIDE DEF x
  <2>6. code'[w] = x
    BY <1>1, <1>4, <2>1, <2>4, <2>5, GoesTo DEF c
  <2>7. CASE o.en >= 1
    <3>1. Rest(o, r, k)
      BY <1>2, <2>3, <2>7, BreathGoesOn
    <3>2. BreathPoint(B8, o, r, k, l) /\ code'[w] = B8
      BY <2>6, <2>7, <3>1, Zenon DEF BreathPoint, x
    <3>. QED BY <1>7, <2>1, <2>2, <2>3, <3>2, BreathFitsAt DEF o, r, k, l
  <2>8. CASE ~(o.en >= 1)
    <3>1. o.en = 0
      BY <1>2, <2>8
    <3>2. BreathPoint(BE1, o, r, k, l) /\ code'[w] = BE1
      BY <2>3, <2>6, <2>8, <3>1, Zenon DEF BreathPoint, x
    <3>. QED BY <1>7, <2>1, <2>2, <2>3, <3>2, BreathFitsAt DEF o, r, k, l
  <2>. QED BY <2>7, <2>8
<1>15. CASE DoSchedule(w)
  <2>1. c = B8 /\ c # << >>
    BY <1>7, <1>15 DEF DoSchedule, At, c
  <2>2. code'[w] = << >>
    BY <1>a, <1>15, <2>1, BreathCodes DEF DoSchedule
  <2>3. Arg(w, 3) = Again
    BY <2>1, BreathCodes DEF Arg, Schedule, c
  <2>4. UNCHANGED <<ops, loaded, served, cycles>>
    BY <1>15, <2>3 DEF DoSchedule
  <2>5. Params(Breath, o, r) /\ Rest(o, r, k)
    BY <1>7, <1>8, <2>1, BreathPoints
  <2>. QED BY <2>2, <2>4, <2>5, Zenon DEF BreathFits, o, r, k, l
<1>16. CASE DoSet(w)
  <2>1. c \in {B4, BE1} \cup Finishing /\ c # << >>
    BY <1>7, <1>16 DEF DoSet, At, c
  <2>2. code'[w] = Tail(c)
    BY <1>a, <1>16, <2>1 DEF DoSet
  <2>3. UNCHANGED <<pending, loaded, served, cycles>>
    BY <1>16 DEF DoSet, history
  <2>4. CASE c = B4
    <3>1. Params(Breath, o, r) /\ Counted(o, r, k) /\ o.level = "BR_White"
      BY <1>7, <1>8, <2>1, <2>4, BreathPoints
    <3>2. Arg(w, 2) = w /\ Arg(w, 3) = "cnt" /\ Arg(w, 4) = 6
      BY <2>4, BreathCodes, SMTT(30) DEF Arg, Set, c, w
    <3>3. Recounted(o, ops'[w], 6) /\ ops'[w].en = o.en
      <4>1. ops' = [ops EXCEPT ![w]["cnt"] = 6]
        BY <1>16, <3>2 DEF DoSet
      <4>. QED BY <1>1, <4>1, SetCnt DEF o, w
    <3>4. Params(Breath, ops'[w], r) /\ Counted(ops'[w], r, k)
      BY <3>1, <3>3, BreathWhite
    <3>5. BreathPoint(B5, ops'[w], r, k, l)
      BY <3>4, Zenon DEF BreathPoint
    <3>. QED BY <1>7, <2>1, <2>2, <2>3, <2>4, <3>4, <3>5, BreathCodes, BreathFitsAt DEF r, k, l
  <2>5. CASE c \in {BE1} \cup Finishing
    <3>1. code'[w] \in Finishing \cup {<< >>} /\ ~pending'[w]
      BY <1>7, <2>1, <2>2, <2>3, <2>5, BreathCodes DEF Finishing
    <3>. QED BY <3>1 DEF BreathFits
  <2>. QED BY <2>1, <2>4, <2>5
<1>17. ~Cancel(w) /\ ~Wait(w)
  BY <1>7 DEF Cancel, Wait, At, c
<1>. QED
  BY <1>6, <1>9, <1>10, <1>11, <1>12, <1>13, <1>14, <1>15, <1>16, <1>17 DEF WorkStep, Step, w

\* The chase begins with a cancellation.
LEMMA TwoAndOne ==
  ASSUME NEW a \in Instr, NEW b \in Instr, NEW d \in Instr
  PROVE  <<a, b>> \o <<d>> = <<a, b, d>>
<1>. DEFINE x == <<a, b>>
            y == <<d>>
            z == <<a, b, d>>
            u == x \o y
<1>1. /\ x \in Seq(Instr) /\ Len(x) = 2 /\ x[1] = a /\ x[2] = b
      /\ y \in Seq(Instr) /\ Len(y) = 1 /\ y[1] = d
      /\ z \in Seq(Instr) /\ Len(z) = 3 /\ z[1] = a /\ z[2] = b /\ z[3] = d
  OBVIOUS
<1>. HIDE DEF x, y, z
<1>2. /\ u \in Seq(Instr) /\ Len(u) = Len(x) + Len(y)
      /\ \A i \in 1..Len(x) + Len(y) : u[i] = IF i <= Len(x) THEN x[i] ELSE y[i - Len(x)]
  BY <1>1, ConcatProperties
<1>. HIDE DEF u
<1>3. Len(u) = 3 /\ \A i \in 1..3 : u[i] = IF i <= 2 THEN x[i] ELSE y[i - 2]
  BY <1>1, <1>2
<1>4. u[1] = a /\ u[2] = b /\ u[3] = d /\ \A i \in 1..3 : i \in {1, 2, 3}
  BY <1>1, <1>3
<1>5. \A i \in 1..Len(u) : u[i] = z[i]
  BY <1>1, <1>3, <1>4
<1>6. u = z
  BY <1>1, <1>2, <1>3, <1>5, SeqEqual
<1>. QED BY <1>6 DEF x, y, z, u

\* A point of the code of the chase that fits, with the parameters of the request.
LEMMA ChaseFitsAt ==
  ASSUME NEW c, NEW q, ~q, NEW o, NEW r, NEW k, NEW l,
         Params(Chaser, o, r), ChasePoint(c, o, r, k, l)
  PROVE  ChaseFits(c, q, o, r, k, l)
BY Zenon DEF ChaseFits

\* The chase goes from point to point.
LEMMA ChaseStep ==
  ASSUME RingInv, Ranges, Breathes, Chases, WorkStep(Chaser)
  PROVE  Chases'
<1>. DEFINE w == Chaser
            c == code[w]
            o == ops[w]
            r == served[w]
            k == cycles[w]
            l == loaded[w]
<1>1. /\ w \in Works /\ w \in Threads /\ w # Breath /\ w = "chase"
      /\ DOMAIN ops = Works /\ pending \in [Works -> BOOLEAN] /\ DOMAIN code = Threads
      /\ DOMAIN loaded = Works /\ DOMAIN served = Works /\ DOMAIN cycles = Works
  BY DEF Ranges, Threads, Works, Breath, Chaser
<1>2. o \in ChaseRecords /\ o.cnt \in 0..CountBound /\ o.max_cnt \in Nat
      /\ k \in 0..CycleBound /\ l \in 0..CountBound
  <2>1. o \in ChaseRecords
    BY DEF Ranges, Chaser
  <2>2. k \in 0..CycleBound /\ l \in 0..CountBound
    BY <1>1 DEF Ranges
  <2>. QED BY <2>1, <2>2 DEF ChaseRecords
<1>3. ChaseFits(c, pending[w], o, r, k, l)
  BY Zenon DEF Chases
<1>4. Shapes /\ c \in Seq(Instr)
  BY <1>1 DEF RingInv, Shapes
<1>. HIDE DEF w
<1>5. SUFFICES ChaseFits(code'[w], pending'[w], ops'[w], served'[w], cycles'[w], loaded'[w])
  BY Zenon DEF Chases, w
<1>6. CASE WorkStart(w)
  <2>1. WorkCode(w) = C1
    <3>. DEFINE cancel == <<"cancel", Breath>>
                wait == <<"wait", Breath>>
                switch == <<"switch", Chaser>>
    <3>1. cancel \in Instr /\ wait \in Instr /\ switch \in Instr
      BY DEF Instr, Works, Breath, Chaser
    <3>2. WorkCode(w) = <<cancel, wait>> \o <<switch>> /\ C1 = <<cancel, wait, switch>>
      BY <1>1 DEF WorkCode, CancelSync, C1, Breath, Chaser
    <3>. HIDE DEF cancel, wait, switch
    <3>. QED BY <3>1, <3>2, TwoAndOne
  <2>2. /\ c = << >> /\ pending[w] /\ pending'[w] = FALSE /\ code'[w] = C1
        /\ cycles'[w] = Bump(k, CycleBound) /\ ops'[w] = o /\ served'[w] = r /\ loaded'[w] = l
    BY <1>1, <1>6, <2>1 DEF WorkStart
  <2>3. Params(w, o, r) /\ Rest(o, r, k)
    BY <1>3, <2>2 DEF ChaseFits, w
  <2>4. Rest(o, r, Bump(k, CycleBound) - 1)
    BY <1>1, <1>2, <2>3, CycleStarts
  <2>5. ChasePoint(C1, o, r, cycles'[w], l)
    BY <2>2, <2>4 DEF ChasePoint
  <2>. QED BY <2>2, <2>3, <2>5, ChaseFitsAt DEF w
<1>7. ASSUME c # << >>
      PROVE  /\ ~pending[w]
             /\ \/ Head(c)[1] = "cancel" /\ c = C1
                \/ Head(c)[1] = "wait" /\ c = C2
                \/ Head(c)[1] = "switch" /\ c = C3
                \/ Head(c)[1] = "paint" /\ c \in {C4, CE3}
                \/ Head(c)[1] = "load" /\ c \in {C5, C7}
                \/ Head(c)[1] = "test" /\ c = C6
                \/ Head(c)[1] = "count" /\ c = C8
                \/ Head(c)[1] = "schedule" /\ c = C9
                \/ Head(c)[1] = "set" /\ c \in {CE1, CE2}
             /\ c \notin {CE2, CE3} => Params(Chaser, o, r) /\ ChasePoint(c, o, r, k, l)
  <2>. HIDE DEF c, o, r, k, l
  <2>. QED BY <1>3, <1>7, ChaseHeads
<1>8. {C1, C2, C3, C4, C5, C6, C7, C8, C9} \cap {CE2, CE3} = {}
  BY ChaseTags, ChaseCodes
<1>9. ASSUME c # << >>, Goes(w, << >>) PROVE code'[w] = Tail(c)
  BY <1>1, <1>4, <1>9, GoesOn
<1>. HIDE DEF c, o, r, k, l
<1>10. CASE Cancel(w) \/ Wait(w)
  <2>1. c \in {C1, C2} /\ c # << >>
    BY <1>7, <1>10 DEF Cancel, Wait, At, c
  <2>2. /\ c = C1 => code'[w] = C2
        /\ c = C2 => code'[w] = C3
    BY <1>9, <1>10, <2>1, ChaseCodes DEF Cancel, Wait
  <2>3. UNCHANGED <<ops, loaded, served, cycles>>
    BY <1>10 DEF Cancel, Wait, history
  <2>4. ~pending'[w]
    BY <1>1, <1>7, <1>10, <2>1 DEF Cancel, Wait
  <2>5. Params(Chaser, o, r) /\ Rest(o, r, k - 1)
    BY <1>7, <1>8, <2>1, ChasePoints
  <2>6. ChasePoint(code'[w], o, r, k, l)
    BY <2>1, <2>2, <2>5, Zenon DEF ChasePoint
  <2>. QED BY <2>3, <2>4, <2>5, <2>6, ChaseFitsAt DEF o, r, k, l
<1>11. CASE Switch(w)
  <2>1. c = C3 /\ c # << >> /\ Tail(c) = << >>
    BY <1>7, <1>11, ChaseCodes DEF Switch, At, c
  <2>2. UNCHANGED <<ops, pending, loaded, served, cycles>>
    BY <1>11 DEF Switch, chipVars, history
  <2>3. Params(Chaser, o, r) /\ Rest(o, r, k - 1)
    BY <1>7, <1>8, <2>1, ChasePoints
  <2>. DEFINE y == << <<"load", w>>, <<"test", w>> >>
              x == IF o.level \in 1..CHASE_AMZ THEN <<Paint>> ELSE << >>
  <2>4. x \o y \in {C4, C5}
    <3>. DEFINE load == <<"load", w>>
                test == <<"test", w>>
    <3>1. Paint \in Instr /\ load \in Instr /\ test \in Instr
      BY <1>1 DEF Instr
    <3>2. C4 = <<Paint, load, test>> /\ C5 = <<load, test>> /\ y = <<load, test>>
      BY DEF C4, C5, w
    <3>. HIDE DEF load, test
    <3>3. \A a, d, e \in Instr : <<a>> \o <<d, e>> = <<a, d, e>>
      BY TwoAndTwo
    <3>4. <<Paint>> \o <<load, test>> = <<Paint, load, test>>
      BY <3>1, <3>3, Zenon
    <3>5. << >> \o <<load, test>> = <<load, test>>
      <4>1. \A s \in Seq(Instr) : << >> \o s = s
        OBVIOUS
      <4>2. \A a, b \in Instr : <<a, b>> \in Seq(Instr)
        OBVIOUS
      <4>. QED BY <3>1, <4>1, <4>2, Zenon
    <3>6. x \in {<<Paint>>, << >>}
      OBVIOUS
    <3>. HIDE DEF x, y
    <3>. QED BY <3>2, <3>4, <3>5, <3>6
  <2>5. Goes(w, x \o y)
    BY <1>1, <1>11 DEF Switch, o
  <2>6. x \o y \in Seq(Instr)
    <3>1. Quiet(y) /\ Quiet(<< >>) /\ Quiet(<<Paint>>)
      BY <1>1, OwnPieces, Pieces
    <3>. QED BY <3>1 DEF Quiet
  <2>. HIDE DEF x, y
  <2>7. code'[w] = x \o y
    BY <1>1, <1>4, <2>1, <2>5, <2>6, GoesTo DEF c
  <2>8. ChasePoint(code'[w], o, r, k, l)
    BY <2>3, <2>4, <2>7, Zenon DEF ChasePoint
  <2>. QED BY <1>7, <2>1, <2>2, <2>3, <2>8, ChaseFitsAt DEF o, r, k, l
<1>12. CASE DoPaint(w)
  <2>1. c \in {C4, CE3} /\ c # << >>
    BY <1>7, <1>12 DEF DoPaint, At, c
  <2>2. /\ c = C4 => code'[w] = C5
        /\ c = CE3 => code'[w] = << >>
    BY <1>9, <1>12, <2>1, ChaseCodes DEF DoPaint
  <2>3. UNCHANGED <<ops, pending, loaded, served, cycles>>
    BY <1>12 DEF DoPaint, chipVars, history
  <2>4. CASE c = C4
    <3>1. Params(Chaser, o, r) /\ Rest(o, r, k - 1)
      BY <1>7, <1>8, <2>1, <2>4, ChasePoints
    <3>2. ChasePoint(C5, o, r, k, l)
      BY <3>1, Zenon DEF ChasePoint
    <3>. QED BY <1>7, <2>1, <2>2, <2>3, <2>4, <3>1, <3>2, ChaseFitsAt DEF o, r, k, l
  <2>5. CASE c = CE3
    <3>1. code'[w] = << >> /\ ~pending'[w]
      BY <1>7, <2>1, <2>2, <2>3, <2>5
    <3>. QED BY <3>1 DEF ChaseFits
  <2>. QED BY <2>1, <2>4, <2>5
<1>13. CASE Load(w)
  <2>1. c \in {C5, C7} /\ c # << >>
    BY <1>7, <1>13 DEF Load, At, c
  <2>2. \/ c = C5 /\ code'[w] = C6
        \/ c = C7 /\ code'[w] = C8
    BY <1>9, <1>13, <2>1, ChaseCodes DEF Load
  <2>3. UNCHANGED <<ops, pending, served, cycles>> /\ loaded'[w] = o.cnt
    BY <1>1, <1>13 DEF Load, history, o
  <2>4. Params(Chaser, o, r)
    BY <1>7, <1>8, <2>1
  <2>5. CASE c = C5
    <3>1. Rest(o, r, k - 1) /\ code'[w] = C6
      BY <1>7, <1>8, <2>1, <2>2, <2>5, ChasePoints, ChaseTags
    <3>2. ChasePoint(C6, o, r, k, o.cnt)
      BY <3>1, Zenon DEF ChasePoint
    <3>. QED BY <1>7, <2>1, <2>3, <2>4, <3>1, <3>2, ChaseFitsAt DEF o, r, k
  <2>6. CASE c = C7
    <3>1. Rest(o, r, k - 1) /\ o.cnt < o.max_cnt /\ code'[w] = C8
      BY <1>7, <1>8, <2>1, <2>2, <2>6, ChasePoints, ChaseTags
    <3>2. ChasePoint(C8, o, r, k, o.cnt)
      BY <3>1, Zenon DEF ChasePoint
    <3>. QED BY <1>7, <2>1, <2>3, <2>4, <3>1, <3>2, ChaseFitsAt DEF o, r, k
  <2>. QED BY <2>1, <2>5, <2>6
<1>14. CASE Test(w)
  <2>1. c = C6 /\ c # << >> /\ Tail(c) = << >>
    BY <1>7, <1>14, ChaseCodes DEF Test, At, c
  <2>2. UNCHANGED <<ops, pending, served, cycles>>
    BY <1>14 DEF Test, history
  <2>3. Params(Chaser, o, r) /\ Rest(o, r, k - 1) /\ l = o.cnt
    BY <1>7, <1>8, <2>1, ChasePoints
  <2>. DEFINE x == IF o.cnt < o.max_cnt THEN C7 ELSE CE1
  <2>4. Goes(w, x)
    BY <1>1, <1>14, <2>3 DEF Test, o, l, w, C7, CE1
  <2>5. x \in Seq(Instr)
    BY <1>1, OwnPieces DEF Quiet, Own, C7, CE1, w
  <2>. HIDE DEF x
  <2>6. code'[w] = x
    BY <1>1, <1>4, <2>1, <2>4, <2>5, GoesTo DEF c
  <2>7. CASE o.cnt < o.max_cnt
    <3>1. ChasePoint(C7, o, r, k, loaded'[w]) /\ code'[w] = C7
      BY <2>3, <2>6, <2>7, Zenon DEF ChasePoint, x
    <3>. QED BY <1>7, <2>1, <2>2, <2>3, <3>1, ChaseFitsAt DEF o, r, k
  <2>8. CASE ~(o.cnt < o.max_cnt)
    <3>1. o.cnt >= o.max_cnt
      BY <1>2, <2>8, RingAssumption
    <3>2. ChasePoint(CE1, o, r, k, loaded'[w]) /\ code'[w] = CE1
      BY <2>3, <2>6, <2>8, <3>1, Zenon DEF ChasePoint, x
    <3>. QED BY <1>7, <2>1, <2>2, <2>3, <3>2, ChaseFitsAt DEF o, r, k
  <2>. QED BY <2>7, <2>8
<1>15. CASE Count(w)
  <2>1. c = C8 /\ c # << >>
    BY <1>7, <1>15 DEF Count, At, c
  <2>2. code'[w] = C9
    BY <1>9, <1>15, <2>1, ChaseCodes DEF Count
  <2>3. UNCHANGED <<pending, served, cycles>>
    BY <1>15 DEF Count, history
  <2>4. Params(Chaser, o, r) /\ Rest(o, r, k - 1) /\ o.cnt < o.max_cnt /\ l = o.cnt
    BY <1>7, <1>8, <2>1, ChasePoints
  <2>5. Recounted(o, ops'[w], Bump(o.cnt, CountBound))
    <3>1. ops' = [ops EXCEPT ![w]["cnt"] = Bump(l, CountBound)]
      BY <1>15 DEF Count, l
    <3>. QED BY <1>1, <2>4, <3>1, SetCnt DEF o
  <2>6. Params(Chaser, ops'[w], r) /\ Rest(ops'[w], r, k)
    BY <1>2, <2>4, <2>5, ChaseCounts
  <2>7. ChasePoint(C9, ops'[w], r, k, loaded'[w])
    BY <2>6, Zenon DEF ChasePoint
  <2>. QED BY <1>7, <2>1, <2>2, <2>3, <2>6, <2>7, ChaseFitsAt DEF r, k
<1>16. CASE DoSchedule(w)
  <2>1. c = C9 /\ c # << >>
    BY <1>7, <1>16 DEF DoSchedule, At, c
  <2>2. code'[w] = << >>
    BY <1>9, <1>16, <2>1, ChaseCodes DEF DoSchedule
  <2>3. Arg(w, 3) = Again
    BY <2>1, ChaseCodes DEF Arg, Schedule, c
  <2>4. UNCHANGED <<ops, loaded, served, cycles>>
    BY <1>16, <2>3 DEF DoSchedule
  <2>5. Params(Chaser, o, r) /\ Rest(o, r, k)
    BY <1>7, <1>8, <2>1, ChasePoints
  <2>. QED BY <2>2, <2>4, <2>5, Zenon DEF ChaseFits, o, r, k, l
<1>17. CASE DoSet(w)
  <2>1. c \in {CE1, CE2} /\ c # << >>
    BY <1>7, <1>17 DEF DoSet, At, c
  <2>2. code'[w] \in {CE2, CE3}
    BY <1>9, <1>17, <2>1, ChaseCodes DEF DoSet
  <2>3. ~pending'[w]
    BY <1>7, <1>17, <2>1 DEF DoSet
  <2>. QED BY <2>2, <2>3 DEF ChaseFits
<1>18. ~EnabledTest(w)
  BY <1>7 DEF EnabledTest, At, c
<1>. QED
  BY <1>6, <1>10, <1>11, <1>12, <1>13, <1>14, <1>15, <1>16, <1>17, <1>18 DEF WorkStep, Step, w

\* A work item that is at work is one that every store in progress will still stop: it
\* takes back nothing of what they promise.
LEMMA WorkPromises ==
  ASSUME RingInv, Promises, NEW w \in Works, Active(w),
         \A p \in Callers : code'[p] = code[p]
  PROVE  Promises'
<1>1. SUFFICES ASSUME NEW p \in Callers, NEW i \in 1..Len(code[p]), code[p][i][1] = "schedule"
               PROVE  Promise(ops', code[p], code[p][i][2], code[p][i][3])
  BY DEF Promises
<1>2. Promise(ops, code[p], code[p][i][2], code[p][i][3])
  BY <1>1 DEF Promises
<1>3. code[p] # << >>
  BY <1>1
<1>4. WillStop(code[p], w)
  BY <1>3 DEF RingInv, Stopped
<1>5. PICK j \in 1..Len(code[p]) : Stops(code[p][j])
  BY <1>4 DEF WillStop, Stops
<1>. QED BY <1>2, <1>5, StopsPromise

-----------------------------------------------------------------------------
(* The steps of the stores.                                                *)

\* A store that has begun to set parameters has stopped both work items.
LEMMA NothingActive ==
  ASSUME RingInv, NEW p \in Callers, code[p] # << >>, ~Stops(Head(code[p]))
  PROVE  \A w \in Works : ~Active(w)
<1>1. /\ code[p] \in Seq(Instr) /\ StoreShape(code[p]) /\ p \in Threads
  BY DEF RingInv, Shapes, Threads
<1>2. Head(code[p]) = code[p][1] /\ 1 \in 1..Len(code[p])
  BY <1>1
<1>3. \A i \in 1..Len(code[p]) : i = 1 \/ 1 < i
  OBVIOUS
<1>4. \A i \in 1..Len(code[p]) : ~Stops(code[p][i])
  BY <1>1, <1>2, <1>3 DEF StoreShape
<1>5. \A w \in Works : ~WillStop(code[p], w)
  BY <1>4 DEF WillStop, Stops
<1>. QED BY <1>5 DEF RingInv, Stopped

\* A work item that is not active fits anything.
LEMMA InactiveFits ==
  ASSUME NEW w \in Works, ~pending'[w], code'[w] = << >>
  PROVE  (w = Breath => Breathes') /\ (w = Chaser => Chases')
<1>1. w = Breath => Breathes'
  BY DEF Breathes, BreathFits
<1>2. w = Chaser => Chases'
  BY DEF Chases, ChaseFits
<1>. QED BY <1>1, <1>2

\* What an assignment of a store does, and what any other instruction does not.
LEMMA SetUpdates ==
  ASSUME Ranges, NEW t \in Threads, DoSet(t)
  PROVE  Updates(ops, ops', Head(code[t]))
<1>. DEFINE x == Head(code[t])
<1>1. x \in TypedSets
  <2>1. x \in InstrOf(t) /\ x[1] = "set"
    BY HeadTyped DEF DoSet
  <2>2. \A y \in Orders : y[1] = "schedule"
    BY DEF Orders, Schedule
  <2>. QED BY <2>1, <2>2 DEF InstrOf, TypedInstr, Paint
<1>2. ops' = [ops EXCEPT ![x[2]][x[3]] = x[4]]
  BY DEF DoSet, Arg
<1>. HIDE DEF x
<1>3. /\ x[1] = "set" /\ x[2] \in Works /\ x[3] \in FieldsOf(x[2])
  BY <1>1 DEF TypedSets, Set, FieldsOf, Works
<1>4. /\ DOMAIN ops = Works /\ DOMAIN ops["breathing"] = FieldsOf("breathing")
      /\ DOMAIN ops["chase"] = FieldsOf("chase")
  BY DEF Ranges, BreathingRecords, ChaseRecords, FieldsOf
<1>5. ASSUME NEW v \in Works, NEW f \in FieldsOf(v)
      PROVE  ops'[v][f] = IF Touches(x, v, f) THEN x[4] ELSE ops[v][f]
  <2>1. DOMAIN ops[v] = FieldsOf(v)
    BY <1>4 DEF Works
  <2>2. CASE v = x[2]
    <3>1. ops'[v] = [ops[v] EXCEPT ![x[3]] = x[4]]
      BY <1>2, <1>4, <2>2
    <3>. QED BY <1>3, <2>1, <2>2, <3>1 DEF Touches
  <2>3. CASE v # x[2]
    BY <1>2, <1>3, <1>4, <2>3 DEF Touches
  <2>. QED BY <2>2, <2>3
<1>. QED BY <1>5 DEF Updates, x

\* A store that takes a step has as much left to keep as before it.
LEMMA PromisesPop ==
  ASSUME RingInv, Promises, OneProcess, NEW p \in Callers, code[p] # << >>, Goes(p, << >>),
         Updates(ops, ops', Head(code[p]))
  PROVE  Promises'
<1>. DEFINE c == code[p]
<1>1. /\ p \in Threads /\ Shapes /\ c \in Seq(Instr) /\ StoreShape(c) /\ c # << >>
      /\ Head(c) = c[1]
  BY DEF RingInv, Shapes, Threads
<1>2. code'[p] = Tail(c) /\ Len(Tail(c)) = Len(c) - 1
      /\ \A i \in 1..Len(Tail(c)) : i + 1 \in 1..Len(c) /\ Tail(c)[i] = c[i + 1] /\ c[i + 1] \in Instr
  BY <1>1, GoesOn
<1>3. \A q \in Callers : q = p
  BY DEF OneProcess
<1>4. SUFFICES ASSUME NEW i \in 1..Len(Tail(c)), Tail(c)[i][1] = "schedule"
               PROVE  Promise(ops', Tail(c), Tail(c)[i][2], Tail(c)[i][3])
  BY <1>2, <1>3 DEF Promises
<1>5. /\ Promise(ops, c, c[i + 1][2], c[i + 1][3]) /\ c[i + 1][2] \in Works
      /\ Tail(c)[i] = c[i + 1]
  BY <1>2, <1>4, InstrForms DEF Promises
<1>. HIDE DEF c
<1>. QED BY <1>1, <1>5, PromisePop DEF c

\* A call of a store, and every step of it, keep the invariant.
LEMMA CallerStep ==
  ASSUME CycleInv, RingInv, Ranges, OneProcess, OnlyCancelling, BoundsSuffice,
         NEW p \in Callers, Call(p) \/ Step(p)
  PROVE  CycleInv'
<1>1. /\ p \in Threads /\ p \notin Works /\ \A w \in Works : w \in Threads /\ w # p
      /\ DOMAIN code = Threads /\ pending \in [Works -> BOOLEAN] /\ Shapes
      /\ Breath \in Works /\ Chaser \in Works /\ \A w \in Works : w \in {Breath, Chaser}
  BY RingAssumption DEF Threads, Ranges, RingInv, Works, Breath, Chaser
<1>2. \A w \in Works : code'[w] = code[w]
  <2>1. (\E b : Goes(p, b)) \/ (\E b : code' = [code EXCEPT ![p] = b])
    BY Zenon DEF Call, Step, DoPaint, DoSet, Cancel, Wait, DoSchedule
  <2>. QED BY <1>1, <2>1 DEF Goes
<1>3. NoneInside'
  BY DEF Call, Step, DoPaint, DoSet, Cancel, Wait, DoSchedule, At, Alive, NoneInside
<1>4. ASSUME UNCHANGED <<ops, served, cycles, loaded>>, \A w \in Works : pending'[w] => pending[w]
      PROVE  Breathes' /\ Chases'
  <2>1. \A w \in Works : /\ ops'[w] = ops[w] /\ served'[w] = served[w]
                        /\ cycles'[w] = cycles[w] /\ loaded'[w] = loaded[w]
    BY <1>4
  <2>. QED BY <1>1, <1>2, <1>4, <2>1, WorkFrame DEF CycleInv
<1>5. ASSUME code[p] # << >>, ops' = ops, Head(code[p])[1] # "set" PROVE Updates(ops, ops', Head(code[p]))
  BY <1>5 DEF Updates, Touches
<1>6. CASE Call(p)
  <2>1. PICK r \in Requests : code' = [code EXCEPT ![p] = Program(r)]
    BY <1>6 DEF Call
  <2>2. UNCHANGED <<ops, served, cycles, loaded, pending>>
    BY <1>6 DEF Call, chipVars, history
  <2>3. r[1] \in Cancelling /\ code'[p] = Program(r) /\ \A q \in Callers : q = p
    BY <1>1, <2>1 DEF OnlyCancelling, OneProcess
  <2>4. Promises'
    BY <2>3, StoresPromise DEF Promises
  <2>. QED BY <1>3, <1>4, <2>2, <2>4 DEF CycleInv
<1>7. CASE DoPaint(p)
  <2>1. code[p] # << >> /\ Head(code[p])[1] = "paint" /\ Goes(p, << >>)
        /\ UNCHANGED <<ops, served, cycles, loaded, pending>>
    BY <1>7 DEF DoPaint, At, chipVars, history
  <2>2. Promises'
    BY <1>5, <2>1, PromisesPop DEF CycleInv
  <2>. QED BY <1>3, <1>4, <2>1, <2>2 DEF CycleInv
<1>8. CASE Cancel(p) \/ Wait(p)
  <2>1. code[p] # << >> /\ Head(code[p])[1] \in {"cancel", "wait"} /\ Goes(p, << >>)
        /\ UNCHANGED <<ops, served, cycles, loaded>>
    BY <1>8 DEF Cancel, Wait, At, history
  <2>2. \A w \in Works : pending'[w] => pending[w]
    BY <1>1, <1>8 DEF Cancel, Wait
  <2>3. Promises'
    BY <1>5, <2>1, PromisesPop DEF CycleInv
  <2>. QED BY <1>3, <1>4, <2>1, <2>2, <2>3 DEF CycleInv
<1>9. CASE DoSet(p)
  <2>1. code[p] # << >> /\ Head(code[p])[1] = "set" /\ Goes(p, << >>) /\ UNCHANGED pending
    BY <1>9 DEF DoSet, At
  <2>2. \A w \in Works : ~Active(w)
    BY <2>1, NothingActive DEF Stops
  <2>3. \A w \in Works : ~pending'[w] /\ code'[w] = << >>
    BY <1>2, <2>1, <2>2 DEF Active
  <2>4. Breathes' /\ Chases'
    BY <1>1, <2>3, InactiveFits
  <2>5. Promises'
    BY <1>1, <1>9, <2>1, SetUpdates, PromisesPop DEF CycleInv
  <2>. QED BY <1>3, <2>4, <2>5 DEF CycleInv
<1>10. CASE DoSchedule(p)
  <2>. DEFINE c == code[p]
              u == Arg(p, 2)
              r == Arg(p, 3)
  <2>1. c # << >> /\ Head(c)[1] = "schedule" /\ Goes(p, << >>) /\ ops' = ops /\ loaded' = loaded
    BY <1>10 DEF DoSchedule, At
  <2>2. /\ c \in Seq(Instr) /\ StoreShape(c) /\ Head(c) = c[1] /\ 1 \in 1..Len(c) /\ c[1] \in Instr
    BY <1>1, <2>1 DEF Shapes
  <2>3. u = c[1][2] /\ r = c[1][3] /\ u \in Works /\ Len(c) = 1
    BY <2>1, <2>2, InstrForms DEF Arg, StoreShape
  <2>4. Promise(ops, c, u, r)
    BY <2>1, <2>2, <2>3 DEF CycleInv, Promises
  <2>5. r # Again /\ Params(u, ops[u], r) /\ Rest(ops[u], r, 0)
    <3>1. ops[u].cnt \in Nat
      BY <2>3, RingAssumption DEF Ranges, Works, BreathingRecords, ChaseRecords
    <3>. HIDE DEF c, u, r
    <3>. QED BY <2>1, <2>2, <2>3, <2>4, <3>1, PromiseKept
  <2>6. \A w \in Works : ~pending[w] /\ code[w] = << >>
    BY <2>1, NothingActive DEF Stops, Active
  <2>7. /\ served'[u] = r /\ cycles'[u] = 0 /\ \A w \in Works \ {u} : ~pending'[w]
    BY <1>1, <1>10, <2>3, <2>5, <2>6 DEF DoSchedule, Ranges
  <2>8. Promises'
    BY <1>5, <2>1, PromisesPop DEF CycleInv
  <2>a. code'[u] = << >> /\ ops'[u] = ops[u]
    BY <1>2, <2>1, <2>3, <2>6
  <2>. HIDE DEF u, r, c
  <2>9. u = Breath => Breathes'
    <3>1. SUFFICES ASSUME u = Breath PROVE Breathes'
      OBVIOUS
    <3>2. Params(Breath, ops'[Breath], served'[Breath])
          /\ Rest(ops'[Breath], served'[Breath], cycles'[Breath]) /\ code'[Breath] = << >>
      BY <2>5, <2>7, <2>a, <3>1
    <3>. QED BY <3>2, Zenon DEF Breathes, BreathFits
  <2>10. u = Chaser => Chases'
    <3>1. SUFFICES ASSUME u = Chaser PROVE Chases'
      OBVIOUS
    <3>2. Params(Chaser, ops'[Chaser], served'[Chaser])
          /\ Rest(ops'[Chaser], served'[Chaser], cycles'[Chaser]) /\ code'[Chaser] = << >>
      BY <2>5, <2>7, <2>a, <3>1
    <3>. QED BY <3>2, Zenon DEF Chases, ChaseFits
  <2>11. /\ u # Breath => Breathes'
         /\ u # Chaser => Chases'
    BY <1>1, <1>2, <2>6, <2>7, InactiveFits
  <2>. QED BY <1>3, <2>8, <2>9, <2>10, <2>11 DEF CycleInv
<1>. QED BY <1>6, <1>7, <1>8, <1>9, <1>10 DEF Step

-----------------------------------------------------------------------------
(* The invariant is inductive, and says what CyclesAsAsked does.           *)

\* The invariant holds when the driver is bound: nothing runs and nothing is queued.
LEMMA CycleInit == Init => CycleInv
<1>. SUFFICES ASSUME Init PROVE CycleInv
  OBVIOUS
<1>1. /\ \A t \in Threads : code[t] = << >>
      /\ \A w \in Works : w \in Threads /\ ~pending[w]
      /\ Breath \in Works /\ Chaser \in Works /\ Callers \subseteq Threads
  BY DEF Init, Threads, Works, Breath, Chaser
<1>2. Promises /\ NoneInside
  BY <1>1 DEF Promises, NoneInside
<1>3. Breathes /\ Chases
  BY <1>1 DEF Breathes, BreathFits, Chases, ChaseFits
<1>. QED BY <1>2, <1>3 DEF CycleInv

\* Every step of a work item keeps the invariant.
LEMMA CycleWork ==
  ASSUME CycleInv, RingInv, Ranges, NEW w \in Works, WorkStep(w)
  PROVE  CycleInv'
<1>1. /\ w \in Threads /\ DOMAIN code = Threads /\ \A p \in Callers : p \in Threads /\ p # w
      /\ Breath \in Works /\ Chaser \in Works /\ w \in {Breath, Chaser} /\ Breath # Chaser
  BY RingAssumption DEF Threads, Ranges, Works, Breath, Chaser
<1>2. Active(w)
  BY DEF WorkStep, Step, DoPaint, DoSet, Cancel, Wait, DoSchedule, WorkStart, Load, Count, Switch,
         Test, EnabledTest, At, Active
<1>3. \A p \in Callers : code'[p] = code[p]
  <2>1. \/ \E b : Goes(w, b)
        \/ \E b : code' = [code EXCEPT ![w] = b]
    BY Zenon DEF WorkStep, Step, DoPaint, DoSet, Cancel, Wait, DoSchedule, WorkStart, Load, Count,
         Switch, Test, EnabledTest
  <2>. QED BY <1>1, <2>1 DEF Goes
<1>4. Promises'
  BY <1>2, <1>3, WorkPromises DEF CycleInv
<1>5. NoneInside'
  <2>1. dev' = dev /\ dev # "freed"
    BY DEF WorkStep, Step, DoPaint, DoSet, Cancel, Wait, DoSchedule, WorkStart, Load, Count,
       Switch, Test, EnabledTest, At, Alive
  <2>. QED BY <2>1 DEF NoneInside
<1>6. CASE w = Breath
  <2>1. Breathes'
    BY <1>6, BreathStep DEF CycleInv
  <2>2. Chases'
    BY <1>1, <1>6, OtherWork, WorkFrame DEF CycleInv
  <2>. QED BY <1>4, <1>5, <2>1, <2>2 DEF CycleInv
<1>7. CASE w = Chaser
  <2>1. Chases'
    BY <1>7, ChaseStep DEF CycleInv
  <2>2. Breathes'
    BY <1>1, <1>7, OtherWork, WorkFrame DEF CycleInv
  <2>. QED BY <1>4, <1>5, <2>1, <2>2 DEF CycleInv
<1>. QED BY <1>1, <1>6, <1>7

\* Every step of the driver keeps the invariant.
LEMMA CycleInductive ==
  ASSUME CycleInv, RingInv, Ranges, [Next]_vars, OneProcess, OnlyCancelling, BoundsSuffice
  PROVE  CycleInv'
<1>1. CASE \E p \in Callers : Call(p) \/ Step(p)
  BY <1>1, CallerStep
<1>2. CASE \E w \in Works : WorkStep(w)
  BY <1>2, CycleWork
<1>3. CASE Remove \/ Free \/ UseAfterFree \/ UNCHANGED vars
  <2>1. UNCHANGED <<ops, pending, loaded, code, served, cycles>>
    BY <1>3 DEF Remove, Free, UseAfterFree, vars, chipVars, history
  <2>2. NoneInside'
    BY <1>3 DEF Remove, Free, UseAfterFree, vars, NoneInside, CycleInv
  <2>. QED BY <2>1, <2>2 DEF CycleInv, Promises, Breathes, Chases
<1>4. CASE Probe
  <2>1. /\ \A p \in Callers : code'[p] = << >>
        /\ \A w \in Works : ~pending'[w] /\ code'[w] = << >>
    BY <1>4 DEF Probe, CycleInv, NoneInside
  <2>2. Promises' /\ NoneInside'
    BY <2>1 DEF Promises, NoneInside
  <2>3. Breath \in Works /\ Chaser \in Works
    BY DEF Works, Breath, Chaser
  <2>4. Breathes' /\ Chases'
    BY <2>1, <2>3, InactiveFits
  <2>. QED BY <2>2, <2>4 DEF CycleInv
<1>. QED BY <1>1, <1>2, <1>3, <1>4 DEF Next

\* What the request r was asked for, k cycles being begun...
NoMore(o, r, k) ==
  LET a == r[1] v == r[2] IN
  /\ a \in Resetting => k <= v
  /\ a \in Demos => k <= v \/ o.en = 1
  /\ a = "br_white" => v # 0 \/ k = 1
  /\ a = "chase" => k <= Repeats(v) + 1

\* ...or painted, when it ends.
AllOf(r, k) ==
  LET a == r[1] v == r[2] IN
  /\ a \in Resetting => k = v
  /\ a \in Demos => k <= v
  /\ a = "br_white" => v = 0 /\ k = 1
  /\ a = "chase" => k = Repeats(v) + 1

\* Where a cycle of the breathing begins it has been counted.
LEMMA BreathBegins ==
  ASSUME CycleInv, Ranges, Beginning(Breath)
  PROVE  NoMore(ops[Breath], served[Breath], cycles[Breath])
<1>. DEFINE o == ops[Breath]
            r == served[Breath]
            k == cycles[Breath]
            l == loaded[Breath]
            c == code[Breath]
<1>1. BreathFits(c, pending[Breath], o, r, k, l) /\ c # << >> /\ Head(c)[1] = "switch"
  BY DEF CycleInv, Breathes, Beginning
<1>2. o.en \in {0, 1} /\ k \in 0..CountBound \cup 0..CycleBound
  BY DEF Ranges, Works, BreathingRecords, ChaseRecords, Breath
<1>. HIDE DEF o, r, k, l, c
<1>3. c = B3 /\ B3 \notin Finishing
  BY <1>1, BreathHeads, BreathTags
<1>4. Params(Breath, o, r) /\ Counted(o, r, k)
  BY <1>1, <1>3, BreathHeads, BreathPoints
<1>5. r[1] # "chase"
  BY <1>4 DEF Params, Servable, Resetting, Demos, Breath
<1>6. NoMore(o, r, k)
  BY <1>2, <1>4, <1>5, SMTT(30) DEF NoMore, Counted, Resetting, Demos
<1>. QED BY <1>6 DEF o, r, k

\* Where a cycle of the chase begins cnt of them are complete.
LEMMA ChaseBegins ==
  ASSUME CycleInv, Ranges, Beginning(Chaser)
  PROVE  NoMore(ops[Chaser], served[Chaser], cycles[Chaser])
<1>. DEFINE o == ops[Chaser]
            r == served[Chaser]
            k == cycles[Chaser]
            l == loaded[Chaser]
            c == code[Chaser]
<1>1. ChaseFits(c, pending[Chaser], o, r, k, l) /\ c # << >> /\ Head(c)[1] = "switch"
  BY DEF CycleInv, Chases, Beginning
<1>2. k \in 0..CycleBound
  BY DEF Ranges, Works, Chaser
<1>. HIDE DEF o, r, k, l, c
<1>3. c = C3 /\ C3 \notin {CE2, CE3}
  BY <1>1, ChaseHeads, ChaseTags
<1>4. Params(Chaser, o, r) /\ Rest(o, r, k - 1)
  BY <1>1, <1>3, ChaseHeads, ChasePoints
<1>5. r[1] = "chase" /\ k - 1 <= Repeats(r[2])
  BY <1>4 DEF Params, Servable, Rest, Chaser
<1>6. Repeats(r[2]) \in Nat /\ k \in Nat
  BY <1>2, RingAssumption DEF Repeats
<1>7. NoMore(o, r, k)
  BY <1>5, <1>6 DEF NoMore, Resetting, Demos
<1>. QED BY <1>7 DEF o, r, k

\* Where a cycle begins, and at the end, the invariant says what CyclesAsAsked does.
LEMMA InvImpliesCycles ==
  ASSUME CycleInv, Ranges
  PROVE  CyclesAsAsked
<1>1. ASSUME NEW w \in Works, Ending(w) PROVE AllOf(served[w], cycles[w])
  <2>1. ops[w].cnt \in 0..CountBound /\ cycles[w] \in 0..CycleBound
    BY <1>1 DEF Ranges, Works, BreathingRecords, ChaseRecords
  <2>. DEFINE o == ops[w]
              r == served[w]
              k == cycles[w]
              l == loaded[w]
              c == code[w]
  <2>2. CASE w = "breathing"
    <3>1. BreathFits(c, pending[w], o, r, k, l) /\ c # << >> /\ Head(c) = Set(Breath, "cnt", 0)
      BY <1>1, <2>2, Zenon DEF CycleInv, Breathes, Ending, Breath
    <3>. HIDE DEF o, r, k, l, c
    <3>2. c = BE1 /\ BE1 \notin Finishing
      BY <3>1, BreathHeads, BreathTags
    <3>3. Params(Breath, o, r) /\ Counted(o, r, k) /\ o.cnt >= o.max_cnt /\ o.en = 0
      BY <3>1, <3>2, BreathHeads, BreathPoints
    <3>4. /\ r[1] \in Resetting => k = r[2]
          /\ r[1] \in Demos => k <= r[2]
          /\ r[1] = "br_white" => r[2] = 0 /\ k = 1
          /\ r[1] # "chase"
      BY <2>1, <3>3, BreathEnd DEF o, k
    <3>. QED BY <3>4 DEF r, k, AllOf
  <2>3. CASE w = "chase"
    <3>1. ChaseFits(c, pending[w], o, r, k, l) /\ c # << >> /\ Head(c) = Set(Chaser, "cnt", 0)
      BY <1>1, <2>3, Zenon DEF CycleInv, Chases, Ending, Chaser
    <3>. HIDE DEF o, r, k, l, c
    <3>2. c = CE1 /\ CE1 \notin {CE2, CE3}
      BY <3>1, ChaseHeads, ChaseTags
    <3>3. Params(Chaser, o, r) /\ Rest(o, r, k - 1) /\ o.cnt >= o.max_cnt
      BY <3>1, <3>2, ChaseHeads, ChasePoints
    <3>4. r[1] = "chase" /\ k = Repeats(r[2]) + 1
      BY <2>1, <3>3, ChaseEnd DEF o, k
    <3>. QED BY <3>4 DEF r, k, AllOf, Resetting, Demos
  <2>. QED BY <1>1, <2>2, <2>3 DEF Works
<1>2. ASSUME NEW w \in Works, Beginning(w) PROVE NoMore(ops[w], served[w], cycles[w])
  BY <1>2, BreathBegins, ChaseBegins DEF Works, Breath, Chaser
<1>. QED BY <1>1, <1>2, Zenon DEF CyclesAsAsked, NoMore, AllOf, Resetting, Demos

\* As long as one process at a time writes the attribute files and uses the stores that
\* cancel both work items, no animation begins a cycle more than it was asked for, and one
\* that ends has painted them all, or at most as many, if it is a demo; although the counters
\* survive the animation that a store cancels and are shared by all of them (br_ops and
\* chase_ops, leds-ktd2061.c:820, 880 and 669). Excepted are br_white 1 and a demo that
\* inherits its en: they go on without end. For every set of such requests and every number
\* of cycles, unbinding included.
THEOREM CyclesAsAskedHolds ==
  ASSUME OneProcess, OnlyCancelling, BoundsSuffice
  PROVE  Spec => []CyclesAsAsked
<1>1. Init => CycleInv /\ RingInv /\ Ranges
  BY CycleInit, InitInv, RangesInit
<1>2. CycleInv /\ RingInv /\ Ranges /\ [Next]_vars => (CycleInv /\ RingInv /\ Ranges)'
  BY CycleInductive, Inductive, RangesNext
<1>3. CycleInv /\ Ranges => CyclesAsAsked
  BY InvImpliesCycles
<1>. QED BY <1>1, <1>2, <1>3, PTL DEF Spec
=============================================================================
