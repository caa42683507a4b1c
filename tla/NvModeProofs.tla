---------------------------- MODULE NvModeProofs ----------------------------
(* The theorems of NvMode, for every trigger.                               *)
EXTENDS NvMode, TLAPS

USE TriggerAssumption

\* A coil that the instructions still switch on, they switch off later.
Releases(s) ==
  \A i \in DOMAIN s : s[i].on /\ s[i].pin # "irled" =>
    \E j \in DOMAIN s : i < j /\ s[j] = Off(s[i].pin)

\* Before the filter was switched the instructions are for the LED; those that switch the
\* filter release both coils, also the one they do not drive.
LedOnly(s) == \A i \in DOMAIN s : s[i].pin = "irled"
Full(s) == \A p \in {"cut1", "cut2"} : \E i \in DOMAIN s : s[i] = Off(p)

IOFine == \A t \in Threads : Releases(io[t]) /\ (~switched => LedOnly(io[t]))

\* The counter of the mode in force stands where it was when it decided.
Saturated == \A m \in Modes : mode = m => count[m] = Trigger - 1

Inv == TypeOK /\ IOFine /\ Saturated /\ CoilsReleased

-----------------------------------------------------------------------------
\* What is left of instructions that release their coils releases them: the steps of
\* Pega_Gpio_IRCut_Control keep their order.
LEMMA TailReleases ==
  ASSUME NEW s \in Seq(Writes), s # << >>, Releases(s)
  PROVE  Tail(s) \in Seq(Writes) /\ Releases(Tail(s))
<1>1. Tail(s) \in Seq(Writes) /\ Len(Tail(s)) = Len(s) - 1
  BY SMT
<1>2. \A i \in 1 .. Len(s) - 1 : Tail(s)[i] = s[i + 1]
  BY SMT
<1>3. ASSUME NEW i \in DOMAIN Tail(s), Tail(s)[i].on, Tail(s)[i].pin # "irled"
      PROVE  \E j \in DOMAIN Tail(s) : i < j /\ Tail(s)[j] = Off(Tail(s)[i].pin)
  <2>1. i \in 1 .. Len(s) - 1 /\ i + 1 \in DOMAIN s /\ Tail(s)[i] = s[i + 1]
    BY <1>1, <1>2, SMT
  <2>2. PICK k \in DOMAIN s : i + 1 < k /\ s[k] = Off(s[i + 1].pin)
    BY <1>3, <2>1 DEF Releases
  <2>3. k - 1 \in 1 .. Len(s) - 1 /\ i < k - 1
    BY <2>1, <2>2, SMT
  <2>4. Tail(s)[k - 1] = s[k]
    BY <1>2, <2>3, SMT
  <2>5. k - 1 \in DOMAIN Tail(s)
    BY <1>1, <2>3, SMT
  <2>. QED BY <2>1, <2>2, <2>3, <2>4, <2>5
<1>. QED BY <1>1, <1>3 DEF Releases

\* IRCut in either direction ends with both coils off.
LEMMA IRCutFine ==
  ASSUME NEW m \in Modes
  PROVE  /\ IRCut(m) \in Seq(Writes) /\ Len(IRCut(m)) = 5
         /\ IRCut(m)[4] = Off("cut1") /\ IRCut(m)[5] = Off("cut2")
         /\ \A i \in 1 .. 5 : IRCut(m)[i].on => i < 4 /\ IRCut(m)[i].pin \in {"cut1", "cut2"}
<1>1. CASE m = "day"
  <2>1. IRCut(m) = <<Off("cut1"), On("cut2"), Hold, Off("cut1"), Off("cut2")>>
    BY <1>1 DEF IRCut
  <2>2. Off("cut1") \in Writes /\ Off("cut2") \in Writes /\ On("cut2") \in Writes /\ Hold \in Writes
    BY DEF Off, On, Writes
  <2>. QED BY <2>1, <2>2 DEF Off, On, Hold
<1>2. CASE m = "night"
  <2>1. IRCut(m) = <<On("cut1"), Off("cut2"), Hold, Off("cut1"), Off("cut2")>>
    BY <1>2 DEF IRCut
  <2>2. Off("cut1") \in Writes /\ Off("cut2") \in Writes /\ On("cut1") \in Writes /\ Hold \in Writes
    BY DEF Off, On, Writes
  <2>. QED BY <2>1, <2>2 DEF Off, On, Hold
<1>. QED BY <1>1, <1>2 DEF Modes

\* So does each list of writes that a thread begins with.
LEMMA IRCutReleases ==
  ASSUME NEW m \in Modes
  PROVE  Releases(IRCut(m))
<1>1. ASSUME NEW i \in DOMAIN IRCut(m), IRCut(m)[i].on
      PROVE  \E j \in DOMAIN IRCut(m) : i < j /\ IRCut(m)[j] = Off(IRCut(m)[i].pin)
  <2>1. DOMAIN IRCut(m) = 1 .. 5
    BY IRCutFine
  <2>2. i < 4 /\ IRCut(m)[i].pin \in {"cut1", "cut2"}
    BY <1>1, <2>1, IRCutFine
  <2>3. CASE IRCut(m)[i].pin = "cut1"
    BY <2>1, <2>2, <2>3, IRCutFine
  <2>4. CASE IRCut(m)[i].pin = "cut2"
    BY <2>1, <2>2, <2>4, IRCutFine
  <2>. QED BY <2>2, <2>3, <2>4
<1>. QED BY <1>1 DEF Releases

LEMMA IRCutFull ==
  ASSUME NEW m \in Modes
  PROVE  Full(IRCut(m))
<1>1. 4 \in DOMAIN IRCut(m) /\ 5 \in DOMAIN IRCut(m)
  BY IRCutFine
<1>. QED BY <1>1, IRCutFine DEF Full

LEMMA LedFine ==
  ASSUME NEW b \in {On("irled"), Off("irled")}
  PROVE  /\ <<b>> \in Seq(Writes) /\ Len(<<b>>) = 1 /\ <<b>>[1] = b
         /\ Releases(<<b>>) /\ LedOnly(<<b>>)
<1>1. b \in Writes /\ b.pin = "irled"
  <2>1. CASE b = On("irled")
    BY <2>1 DEF On, Writes
  <2>2. CASE b = Off("irled")
    BY <2>2 DEF Off, Writes
  <2>. QED BY <2>1, <2>2
<1>2. <<b>> \in Seq(Writes) /\ Len(<<b>>) = 1 /\ <<b>>[1] = b /\ DOMAIN <<b>> = 1 .. 1
  BY <1>1
<1>. QED BY <1>1, <1>2 DEF Releases, LedOnly

LEMMA ConcatReleases ==
  ASSUME NEW s \in Seq(Writes), NEW t \in Seq(Writes), Releases(s), Releases(t)
  PROVE  s \o t \in Seq(Writes) /\ Releases(s \o t)
<1>1. s \o t \in Seq(Writes) /\ Len(s \o t) = Len(s) + Len(t)
  BY SMT
<1>2. /\ \A i \in 1 .. Len(s) : (s \o t)[i] = s[i]
      /\ \A i \in 1 .. Len(t) : (s \o t)[Len(s) + i] = t[i]
  BY SMT
<1>3. ASSUME NEW i \in DOMAIN (s \o t), (s \o t)[i].on, (s \o t)[i].pin # "irled"
      PROVE  \E j \in DOMAIN (s \o t) : i < j /\ (s \o t)[j] = Off((s \o t)[i].pin)
  <2>1. i \in 1 .. Len(s) + Len(t) /\ Len(s) \in Nat /\ Len(t) \in Nat
    BY <1>1
  <2>2. CASE i <= Len(s)
    <3>1. i \in DOMAIN s /\ (s \o t)[i] = s[i]
      BY <1>2, <2>1, <2>2
    <3>2. PICK k \in DOMAIN s : i < k /\ s[k] = Off(s[i].pin)
      BY <1>3, <3>1 DEF Releases
    <3>3. k \in 1 .. Len(s) /\ k \in DOMAIN (s \o t)
      BY <1>1, <2>1, <3>2
    <3>. QED BY <1>2, <3>1, <3>2, <3>3
  <2>3. CASE i > Len(s)
    <3>1. i - Len(s) \in DOMAIN t /\ (s \o t)[i] = t[i - Len(s)]
      <4>1. i - Len(s) \in 1 .. Len(t)
        BY <2>1, <2>3
      <4>2. (s \o t)[Len(s) + (i - Len(s))] = t[i - Len(s)]
        BY <1>2, <4>1
      <4>. QED BY <2>1, <4>1, <4>2
    <3>2. PICK k \in DOMAIN t : i - Len(s) < k /\ t[k] = Off(t[i - Len(s)].pin)
      BY <1>3, <3>1 DEF Releases
    <3>3. k \in 1 .. Len(t) /\ Len(s) + k \in DOMAIN (s \o t) /\ i < Len(s) + k
      BY <1>1, <2>1, <3>2
    <3>. QED BY <1>2, <3>1, <3>2, <3>3
  <2>. QED BY <2>1, <2>2, <2>3
<1>. QED BY <1>1, <1>3 DEF Releases

LEMMA ConcatFull ==
  ASSUME NEW s \in Seq(Writes), NEW t \in Seq(Writes), Full(s) \/ Full(t)
  PROVE  Full(s \o t)
<1>1. s \o t \in Seq(Writes) /\ Len(s \o t) = Len(s) + Len(t)
  BY SMT
<1>2. /\ \A i \in 1 .. Len(s) : (s \o t)[i] = s[i]
      /\ \A i \in 1 .. Len(t) : (s \o t)[Len(s) + i] = t[i]
  BY SMT
<1>3. \A i \in DOMAIN s : i \in DOMAIN (s \o t) /\ (s \o t)[i] = s[i]
  BY <1>1, <1>2
<1>4. \A i \in DOMAIN t : Len(s) + i \in DOMAIN (s \o t) /\ (s \o t)[Len(s) + i] = t[i]
  BY <1>1, <1>2
<1>. QED BY <1>3, <1>4 DEF Full

\* What the mode writes, and what a diag command writes.
LEMMA ForcedReleases ==
  ASSUME NEW m \in Modes
  PROVE  Forced(m) \in Seq(Writes) /\ Releases(Forced(m)) /\ Full(Forced(m))
<1>1. CASE m = "night"
  <2>1. Forced(m) = IRCut(m) \o <<On("irled")>>
    BY <1>1 DEF Forced
  <2>. QED BY <2>1, IRCutFine, IRCutReleases, IRCutFull, LedFine, ConcatReleases, ConcatFull
<1>2. CASE m = "day"
  <2>1. Forced(m) = <<Off("irled")>> \o IRCut(m)
    BY <1>2 DEF Forced
  <2>. QED BY <2>1, IRCutFine, IRCutReleases, IRCutFull, LedFine, ConcatReleases, ConcatFull
<1>. QED BY <1>1, <1>2 DEF Modes

LEMMA DiagReleases ==
  ASSUME NEW w \in DiagWrites
  PROVE  w \in Seq(Writes) /\ Releases(w) /\ IF w \in Switches THEN Full(w) ELSE LedOnly(w)
BY IRCutFine, IRCutReleases, IRCutFull, LedFine DEF DiagWrites, Switches, Modes
-----------------------------------------------------------------------------
\* Both coils are on and nothing is to be written when the loop begins.
LEMMA InitInv == Init => Inv
<1> SUFFICES ASSUME Init PROVE Inv
  OBVIOUS
<1>1. << >> \in Seq(Writes) /\ Releases(<< >>) /\ LedOnly(<< >>)
  BY DEF Releases, LedOnly
<1>2. TypeOK
  <2>1. count \in [Modes -> 0 .. Trigger - 1]
    <3>1. 0 \in 0 .. Trigger - 1
      BY TriggerAssumption
    <3>. QED BY <3>1 DEF Init
  <2>2. io \in [Threads -> Seq(Writes)]
    BY <1>1 DEF Init
  <2>. QED BY <2>1, <2>2 DEF Init, TypeOK, Light, Modes
<1>3. IOFine /\ Saturated /\ CoilsReleased
  BY <1>1 DEF Init, IOFine, Saturated, CoilsReleased, Modes
<1>. QED BY <1>2, <1>3 DEF Inv

\* A write: what the thread has left still releases what it switched on, and what
\* was on and is left on was to be released by another write.
LEMMA WriteInv ==
  ASSUME Inv, NEW t \in Threads, Write(t)
  PROVE  Inv'
<1> DEFINE w == Head(io[t])
<1>1. io[t] \in Seq(Writes) /\ io[t] # << >> /\ Releases(io[t])
  BY DEF Inv, TypeOK, IOFine, Write, Free
<1>2. w \in Writes /\ w = io[t][1] /\ 1 \in DOMAIN io[t]
  BY <1>1, SMT
<1>3. Tail(io[t]) \in Seq(Writes) /\ Releases(Tail(io[t]))
  BY <1>1, TailReleases
<1>0. ~switched => w.pin = "irled" /\ LedOnly(Tail(io[t]))
  <2> SUFFICES ASSUME ~switched PROVE w.pin = "irled" /\ LedOnly(Tail(io[t]))
    OBVIOUS
  <2>1. LedOnly(io[t])
    BY DEF Inv, IOFine
  <2>2. \A i \in DOMAIN Tail(io[t]) : i + 1 \in DOMAIN io[t] /\ Tail(io[t])[i] = io[t][i + 1]
    BY <1>1, SMT
  <2>. QED BY <1>2, <2>1, <2>2 DEF LedOnly
<1>4. io' = [io EXCEPT ![t] = Tail(io[t])] /\ io \in [Threads -> Seq(Writes)]
  BY DEF Inv, TypeOK, Write
<1>5. pins' = IF w.on THEN pins \cup {w.pin} ELSE pins \ {w.pin}
  BY DEF Write
<1>8. UNCHANGED <<disabled, lux, mode, count, pc, touched, switched>>
  BY DEF Write, history
<1>6. io' \in [Threads -> Seq(Writes)] /\ IOFine'
  BY <1>0, <1>3, <1>4, <1>8 DEF IOFine, Inv
<1>7. filter' \in Modes \cup {"unknown"}
  BY DEF Write, Inv, TypeOK, Modes
<1>9. \A i \in DOMAIN io[t] : i # 1 =>
        i - 1 \in DOMAIN Tail(io[t]) /\ Tail(io[t])[i - 1] = io[t][i]
  BY <1>1, SMT
<1>10. pins \subseteq {"cut1", "cut2", "irled"} /\ CoilsReleased
  BY DEF Inv, TypeOK
<1>11. ASSUME NEW p \in pins', p # "irled", switched
       PROVE  \E u \in Threads : \E i \in DOMAIN io'[u] : io'[u][i] = Off(p)
  <2>1. CASE w.on /\ p = w.pin
    <3>1. PICK k \in DOMAIN io[t] : 1 < k /\ io[t][k] = Off(p)
      BY <1>1, <1>2, <1>11, <2>1 DEF Releases
    <3>2. k - 1 \in DOMAIN Tail(io[t]) /\ Tail(io[t])[k - 1] = Off(p)
      BY <1>9, <3>1
    <3>3. io'[t] = Tail(io[t])
      BY <1>4
    <3>. QED BY <3>2, <3>3
  <2>2. CASE p \in pins /\ ~(w.on /\ p = w.pin)
    <3>1. PICK u \in Threads : \E i \in DOMAIN io[u] : io[u][i] = Off(p)
      BY <1>10, <1>11, <2>2, Zenon DEF CoilsReleased
    <3>2. PICK i \in DOMAIN io[u] : io[u][i] = Off(p)
      BY <3>1
    <3>3. CASE u # t
      <4>1. io'[u] = io[u]
        BY <1>4, <3>3
      <4>. QED BY <3>2, <4>1
    <3>4. CASE u = t
      <4>1. w # Off(p)
        <5>1. ~w.on => p # w.pin
          BY <1>5, <1>11, <2>2
        <5>. QED BY <5>1, <2>2 DEF Off
      <4>2. i # 1
        BY <1>2, <3>2, <3>4, <4>1
      <4>. QED BY <1>4, <1>9, <3>2, <3>4, <4>2
    <3>. QED BY <3>3, <3>4
  <2>. QED BY <1>5, <1>11, <2>1, <2>2
<1>12. pins' \subseteq {"cut1", "cut2", "irled"}
  <2>1. w.on => w.pin \in {"cut1", "cut2", "irled"}
    BY <1>2 DEF Writes, Hold, Off
  <2>. QED BY <1>5, <1>10, <2>1
<1>13. CoilsReleased'
  <2>1. CASE switched
    BY <1>8, <1>11, <2>1 DEF CoilsReleased
  <2>2. CASE ~switched
    BY <1>0, <1>5, <1>8, <1>10, <2>2 DEF CoilsReleased
  <2>. QED BY <2>1, <2>2
<1>14. TypeOK'
  BY <1>6, <1>7, <1>8, <1>12 DEF Inv, TypeOK
<1>15. Saturated'
  BY <1>8 DEF Inv, Saturated
<1>. QED BY <1>6, <1>13, <1>14, <1>15 DEF Inv

\* Coils and writes are as they were, and a thread that was through got a list.
LEMMA Begins ==
  ASSUME Inv, NEW t \in Threads, NEW s, s \in Seq(Writes), Releases(s), Free(t),
         io' = [io EXCEPT ![t] = s], UNCHANGED pins,
         \/ switched' = TRUE /\ Full(s)
         \/ UNCHANGED switched /\ LedOnly(s)
  PROVE  io' \in [Threads -> Seq(Writes)] /\ IOFine' /\ CoilsReleased' /\ switched' \in BOOLEAN
<1>1. io \in [Threads -> Seq(Writes)] /\ switched \in BOOLEAN
  BY DEF Inv, TypeOK
<1>2. io' \in [Threads -> Seq(Writes)] /\ IOFine' /\ switched' \in BOOLEAN
  BY <1>1 DEF Inv, IOFine
<1>3. CASE switched' = TRUE /\ Full(s)
  <2>1. io'[t] = s
    BY <1>1
  <2>2. \A p \in {"cut1", "cut2"} : \E i \in DOMAIN io'[t] : io'[t][i] = Off(p)
    BY <1>3, <2>1 DEF Full
  <2>. QED BY <1>2, <1>3, <2>2 DEF CoilsReleased
<1>4. CASE UNCHANGED switched
  <2>1. ASSUME NEW p \in pins', p \in {"cut1", "cut2"}, switched
        PROVE  \E u \in Threads : \E i \in DOMAIN io'[u] : io'[u][i] = Off(p)
    <3>1. PICK u \in Threads : \E i \in DOMAIN io[u] : io[u][i] = Off(p)
      BY <2>1 DEF Inv, CoilsReleased
    <3>2. u # t
      BY <3>1 DEF Free
    <3>. QED BY <1>1, <3>1, <3>2
  <2>2. ~switched => {"cut1", "cut2"} \subseteq pins'
    BY DEF Inv, CoilsReleased
  <2>. QED BY <1>2, <1>4, <2>1, <2>2 DEF CoilsReleased
<1>. QED BY <1>3, <1>4

\* A comparison: what decides, what counts, and what is neither.
LEMMA CompareInv ==
  ASSUME Inv, NEW m \in Modes, Compare(m)
  PROVE  Inv'
<1>1. /\ UNCHANGED <<disabled, lux, pins, filter>>
      /\ pc' \in Modes \cup {"read"}
      /\ Free("main") /\ "main" \in Threads /\ Opposite(m) \in Modes
      /\ m # Opposite(m) /\ Modes = {m, Opposite(m)}
  BY DEF Compare, Modes, Opposite, Threads
<1>2. count \in [Modes -> 0 .. Trigger - 1] /\ Trigger \in Nat /\ Trigger > 0
  BY TriggerAssumption DEF Inv, TypeOK
<1>3. CASE Decide(m)
  <2>1. mode' = m /\ count' = [count EXCEPT ![Opposite(m)] = 0] /\ count[m] >= Trigger - 1
    BY <1>3 DEF Decide
  <2>2. count' \in [Modes -> 0 .. Trigger - 1] /\ Saturated'
    BY <1>1, <1>2, <2>1 DEF Saturated
  <2>3. CASE mode = m
    <3>1. UNCHANGED <<io, touched, switched>>
      BY <1>3, <2>3 DEF Decide, history
    <3>. QED BY <1>1, <2>1, <2>2, <3>1 DEF Inv, TypeOK, IOFine, CoilsReleased
  <2>4. CASE mode # m
    <3>1. io' = [io EXCEPT !["main"] = Forced(m)] /\ touched' \in BOOLEAN /\ switched' = TRUE
      BY <1>3, <2>4 DEF Decide, StartForced
    <3>2. io' \in [Threads -> Seq(Writes)] /\ IOFine' /\ CoilsReleased' /\ switched' \in BOOLEAN
      BY <1>1, <3>1, ForcedReleases, Begins
    <3>. QED BY <1>1, <2>1, <2>2, <3>1, <3>2 DEF Inv, TypeOK
  <2>. QED BY <2>3, <2>4
<1>4. CASE Tally(m)
  <2>1. count' = [count EXCEPT ![m] = @ + 1] /\ count[m] < Trigger - 1 /\ UNCHANGED <<mode, io, touched, switched>>
    BY <1>4 DEF Tally, history
  <2>2. count' \in [Modes -> 0 .. Trigger - 1]
    BY <1>2, <2>1
  <2>3. Saturated'
    BY <1>2, <2>1 DEF Inv, Saturated
  <2>. QED BY <1>1, <2>1, <2>2, <2>3 DEF Inv, TypeOK, IOFine, CoilsReleased
<1>5. CASE UNCHANGED <<mode, count, io, history>>
  BY <1>1, <1>5 DEF Inv, TypeOK, IOFine, Saturated, CoilsReleased, history
<1>. QED BY <1>3, <1>4, <1>5 DEF Compare

\* A diag command that writes the hardware.
LEMMA DiagWriteInv ==
  ASSUME Inv, NEW d \in DiagWrites, DiagWrite(d)
  PROVE  Inv'
<1>1. /\ io' = [io EXCEPT !["schedule"] = d] /\ touched' = TRUE /\ switched' = (switched \/ d \in Switches)
      /\ UNCHANGED <<disabled, lux, mode, count, pc, pins, filter>>
      /\ Free("schedule") /\ "schedule" \in Threads
  BY DEF DiagWrite, Threads
<1>2. io' \in [Threads -> Seq(Writes)] /\ IOFine' /\ CoilsReleased' /\ switched' \in BOOLEAN
  <2>1. d \in Seq(Writes) /\ Releases(d) /\ IF d \in Switches THEN Full(d) ELSE LedOnly(d)
    BY DiagReleases
  <2>2. \/ switched' = TRUE /\ Full(d)
        \/ UNCHANGED switched /\ LedOnly(d)
    <3>1. switched \in BOOLEAN
      BY DEF Inv, TypeOK
    <3>. QED BY <1>1, <2>1, <3>1
  <2>. QED BY <1>1, <2>1, <2>2, Begins
<1>. QED BY <1>1, <1>2 DEF Inv, TypeOK, Saturated

LEMMA StepInv == Inv /\ [Next]_vars => Inv'
<1> SUFFICES ASSUME Inv, [Next]_vars PROVE Inv'
  OBVIOUS
<1>1. CASE \E t \in Threads : Write(t)
  BY <1>1, WriteInv
<1>2. CASE \E l \in Light : Read(l)
  BY <1>2 DEF Read, Inv, TypeOK, IOFine, Saturated, CoilsReleased, Modes, history
<1>3. CASE \E m \in Modes : Compare(m)
  BY <1>3, CompareInv
<1>4. CASE \E b \in BOOLEAN : DiagSwitch(b)
  BY <1>4 DEF DiagSwitch, Inv, TypeOK, IOFine, Saturated, CoilsReleased, history
<1>5. CASE \E l \in Light \cup {"failed"} : DiagValue(l)
  BY <1>5 DEF DiagValue, Inv, TypeOK, IOFine, Saturated, CoilsReleased, history
<1>6. CASE \E w \in DiagWrites : DiagWrite(w)
  BY <1>6, DiagWriteInv
<1>7. CASE UNCHANGED vars
  BY <1>7 DEF vars, Inv, TypeOK, IOFine, Saturated, CoilsReleased, history
<1>. QED BY <1>1, <1>2, <1>3, <1>4, <1>5, <1>6, <1>7 DEF Next

LEMMA Invariance == Spec => []Inv
BY InitInv, StepInv, PTL DEF Spec
-----------------------------------------------------------------------------
\* The counters stay below the trigger, so that their eight bits suffice for any trigger
\* up to 256.
THEOREM TypeCorrect == Spec => []TypeOK
BY Invariance, PTL DEF Inv

\* The coils are driven when the loop begins, and until the filter is first switched. From
\* then on, whatever the two threads write to the filter at once, each coil that is driven
\* is released by a write that is still to come.
THEOREM CoilsReleasedAlways == Spec => []CoilsReleased
BY Invariance, PTL DEF Inv
-----------------------------------------------------------------------------
\* The refinement mapping: what Hysteresis calls seen.
Seen == [m \in Modes |-> IF m = mode THEN 0 ELSE count[m]]

LEMMA InitPromised == Init => Promise!Init
BY DEF Init, Promise!Init, Promise!Nothing, Promise!Modes, Modes

LEMMA DecidePromised ==
  ASSUME Inv, NEW m \in Modes, Decide(m)
  PROVE  Promise!Next
<1>1. /\ mode' = m /\ count[m] >= Trigger - 1 /\ count[m] \in Nat /\ Trigger \in Nat
      /\ count \in [Modes -> 0 .. Trigger - 1]
      /\ count' = [count EXCEPT ![Opposite(m)] = 0]
  BY TriggerAssumption DEF Decide, Inv, TypeOK
<1>2. Seen' = [n \in Modes |-> 0]
  <2>1. ASSUME NEW n \in Modes
        PROVE  (IF n = mode' THEN 0 ELSE count'[n]) = 0
    <3>1. n = m \/ n = Opposite(m)
      BY DEF Modes, Opposite
    <3>. QED BY <1>1, <3>1
  <2>. QED BY <2>1 DEF Seen
<1>3. CASE mode = m
  <2>1. Promise!Confirm(m)
    BY <1>1, <1>2, <1>3 DEF Promise!Confirm, Promise!Nothing, Promise!Modes, Modes, Seen
  <2>. QED BY <2>1 DEF Promise!Next, Promise!Modes, Modes
<1>4. CASE mode # m
  <2>1. Seen[m] + 1 >= Trigger
    BY <1>1, <1>4 DEF Seen
  <2>2. Promise!Switch(m)
    BY <1>1, <1>2, <1>4, <2>1 DEF Promise!Switch, Promise!Nothing, Promise!Modes, Modes, Seen
  <2>. QED BY <2>2 DEF Promise!Next, Promise!Modes, Modes
<1>. QED BY <1>3, <1>4

\* What is in force is saturated, and so what is only counted is not in force.
LEMMA TallyPromised ==
  ASSUME Inv, NEW m \in Modes, Tally(m)
  PROVE  Promise!Next
<1>1. /\ UNCHANGED mode /\ count[m] < Trigger - 1 /\ count[m] \in Nat /\ Trigger \in Nat
      /\ count \in [Modes -> 0 .. Trigger - 1]
      /\ count' = [count EXCEPT ![m] = count[m] + 1]
  BY TriggerAssumption DEF Tally, Inv, TypeOK
<1>2. mode # m
  BY <1>1 DEF Inv, Saturated
<1>3. Seen[m] = count[m] /\ Seen[m] + 1 < Trigger
  BY <1>1, <1>2 DEF Seen
<1>4. Seen' = [Seen EXCEPT ![m] = Seen[m] + 1]
  BY <1>1, <1>2, <1>3 DEF Seen
<1>5. Promise!Doubt(m)
  BY <1>1, <1>2, <1>3, <1>4 DEF Promise!Doubt, Seen
<1>. QED BY <1>5 DEF Promise!Next, Promise!Modes, Modes

LEMMA StepPromised == Inv /\ [Next]_vars => [Promise!Next]_<<mode, Seen>>
<1> SUFFICES ASSUME Inv, [Next]_vars, ~UNCHANGED <<mode, count>> PROVE Promise!Next
  BY DEF Seen
<1>1. CASE \E t \in Threads : Write(t)
  BY <1>1 DEF Write
<1>2. CASE \E l \in Light : Read(l)
  BY <1>2 DEF Read
<1>3. CASE \E m \in Modes : Compare(m)
  <2>1. PICK m \in Modes : Compare(m)
    BY <1>3
  <2>2. Decide(m) \/ Tally(m)
    BY <2>1 DEF Compare
  <2>. QED BY <2>2, DecidePromised, TallyPromised
<1>4. CASE \E b \in BOOLEAN : DiagSwitch(b)
  BY <1>4 DEF DiagSwitch
<1>5. CASE \E l \in Light \cup {"failed"} : DiagValue(l)
  BY <1>5 DEF DiagValue
<1>6. CASE \E w \in DiagWrites : DiagWrite(w)
  BY <1>6 DEF DiagWrite
<1>7. CASE UNCHANGED vars
  BY <1>7 DEF vars
<1>. QED BY <1>1, <1>2, <1>3, <1>4, <1>5, <1>6, <1>7 DEF Next

\* The two counters of Pega_NV_Mode_Processing are the run counter of Hysteresis: no
\* switch before Trigger samples against the mode, without one for it between them.
THEOREM Implementation == Spec => HysteresisSpec
<1>1. Init => Promise!Init
  BY InitPromised
<1>2. Inv /\ [Next]_vars => [Promise!Next]_<<mode, Seen>>
  BY StepPromised
<1>. QED BY <1>1, <1>2, Invariance, PTL DEF Spec, HysteresisSpec, Promise!Spec, Seen
-----------------------------------------------------------------------------
\* Concatenations and tails, element by element.
LEMMA ConcatElements ==
  ASSUME NEW s \in Seq(Writes), NEW t \in Seq(Writes)
  PROVE  /\ s \o t \in Seq(Writes) /\ Len(s \o t) = Len(s) + Len(t)
         /\ \A i \in 1 .. Len(s) : (s \o t)[i] = s[i]
         /\ \A i \in 1 .. Len(t) : (s \o t)[Len(s) + i] = t[i]
<1>1. s \o t \in Seq(Writes) /\ Len(s \o t) = Len(s) + Len(t)
  BY SMT
<1>2. /\ \A i \in 1 .. Len(s) : (s \o t)[i] = s[i]
      /\ \A i \in 1 .. Len(t) : (s \o t)[Len(s) + i] = t[i]
  BY SMT
<1>. QED BY <1>1, <1>2

LEMMA TailElements ==
  ASSUME NEW s \in Seq(Writes), s # << >>
  PROVE  /\ Len(s) \in Nat \ {0} /\ Head(s) = s[1]
         /\ Tail(s) \in Seq(Writes) /\ Len(Tail(s)) = Len(s) - 1
         /\ \A i \in 1 .. Len(s) - 1 : Tail(s)[i] = s[i + 1]
<1>1. Len(s) \in Nat \ {0} /\ Head(s) = s[1]
  BY SMT
<1>2. Tail(s) \in Seq(Writes) /\ Len(Tail(s)) = Len(s) - 1
  BY SMT
<1>3. \A i \in 1 .. Len(s) - 1 : Tail(s)[i] = s[i + 1]
  BY SMT
<1>. QED BY <1>1, <1>2, <1>3

\* The writes of a switch, one by one.
LEMMA NightWrites ==
  /\ Len(Forced("night")) = 6
  /\ Forced("night")[1] = On("cut1") /\ Forced("night")[2] = Off("cut2")
  /\ Forced("night")[3] = Hold /\ Forced("night")[4] = Off("cut1")
  /\ Forced("night")[5] = Off("cut2") /\ Forced("night")[6] = On("irled")
<1>1. PICK s \in Seq(Writes) : s = IRCut("night")
  BY IRCutFine DEF Modes
<1>2. PICK l \in Seq(Writes) : l = <<On("irled")>>
  BY LedFine
<1>3. Len(s) = 5 /\ Len(l) = 1 /\ l[1] = On("irled")
  BY <1>1, <1>2, IRCutFine, LedFine DEF Modes
<1>4. s[1] = On("cut1") /\ s[2] = Off("cut2") /\ s[3] = Hold /\ s[4] = Off("cut1") /\ s[5] = Off("cut2")
  BY <1>1 DEF IRCut
<1>5. Forced("night") = s \o l
  BY <1>1, <1>2 DEF Forced
<1>6. Len(s \o l) = Len(s) + Len(l) /\ \A i \in 1 .. Len(s) : (s \o l)[i] = s[i]
  BY ConcatElements
<1>7. \A i \in 1 .. Len(l) : (s \o l)[Len(s) + i] = l[i]
  BY ConcatElements
<1>8. PICK c : c = s \o l
  OBVIOUS
<1>9. Len(c) = 6 /\ (\A i \in 1 .. 5 : c[i] = s[i]) /\ c[6] = l[1]
  <2>1. \A i \in 1 .. 1 : c[5 + i] = l[i]
    BY <1>3, <1>7, <1>8
  <2>2. c[5 + 1] = l[1]
    BY <2>1
  <2>3. Len(c) = 6 /\ \A i \in 1 .. 5 : c[i] = s[i]
    BY <1>3, <1>6, <1>8
  <2>. QED BY <2>2, <2>3
<1>10. c[1] = s[1] /\ c[2] = s[2] /\ c[3] = s[3] /\ c[4] = s[4] /\ c[5] = s[5]
  BY <1>9
<1>. QED BY <1>3, <1>4, <1>5, <1>8, <1>9, <1>10

LEMMA DayWrites ==
  /\ Len(Forced("day")) = 6
  /\ Forced("day")[1] = Off("irled") /\ Forced("day")[2] = Off("cut1")
  /\ Forced("day")[3] = On("cut2") /\ Forced("day")[4] = Hold
  /\ Forced("day")[5] = Off("cut1") /\ Forced("day")[6] = Off("cut2")
<1>1. PICK s \in Seq(Writes) : s = IRCut("day")
  BY IRCutFine DEF Modes
<1>2. PICK l \in Seq(Writes) : l = <<Off("irled")>>
  BY LedFine
<1>3. Len(s) = 5 /\ Len(l) = 1 /\ l[1] = Off("irled")
  BY <1>1, <1>2, IRCutFine, LedFine DEF Modes
<1>4. s[1] = Off("cut1") /\ s[2] = On("cut2") /\ s[3] = Hold /\ s[4] = Off("cut1") /\ s[5] = Off("cut2")
  BY <1>1 DEF IRCut
<1>5. Forced("day") = l \o s
  BY <1>1, <1>2 DEF Forced
<1>6. Len(l \o s) = Len(l) + Len(s) /\ \A i \in 1 .. Len(l) : (l \o s)[i] = l[i]
  BY ConcatElements
<1>7. \A i \in 1 .. Len(s) : (l \o s)[Len(l) + i] = s[i]
  BY ConcatElements
<1>8. PICK c : c = l \o s
  OBVIOUS
<1>9. Len(c) = 6 /\ c[1] = l[1] /\ \A i \in 1 .. 5 : c[1 + i] = s[i]
  <2>1. \A i \in 1 .. 5 : c[1 + i] = s[i]
    BY <1>3, <1>7, <1>8
  <2>2. Len(c) = 6 /\ \A i \in 1 .. 1 : c[i] = l[i]
    BY <1>3, <1>6, <1>8
  <2>. QED BY <2>1, <2>2
<1>10. /\ c[1 + 1] = s[1] /\ c[1 + 2] = s[2] /\ c[1 + 3] = s[3]
       /\ c[1 + 4] = s[4] /\ c[1 + 5] = s[5]
  BY <1>9
<1>11. c[2] = s[1] /\ c[3] = s[2] /\ c[4] = s[3] /\ c[5] = s[4] /\ c[6] = s[5]
  BY <1>10
<1>. QED BY <1>3, <1>4, <1>5, <1>8, <1>9, <1>11

\* What the hardware shows when n writes of a switch to m are left.
Reached(m, n) ==
  /\ m = "night" =>
       /\ n \in {4, 5} => "cut1" \in pins
       /\ n = 4 => "cut2" \notin pins
       /\ n <= 3 => filter = "night"
       /\ n = 0 => "irled" \in pins
  /\ m = "day" =>
       /\ n <= 5 => "irled" \notin pins
       /\ n \in {3, 4} => "cut1" \notin pins
       /\ n = 3 => "cut2" \in pins
       /\ n <= 2 => filter = "day"

\* As long as no diag command wrote, main has a rest of the switch to write.
Writing ==
  /\ mode = "unknown" => Free("main")
  /\ ~touched =>
       /\ Free("schedule")
       /\ mode \in Modes =>
            /\ Len(io["main"]) <= 6
            /\ \A i \in 1 .. Len(io["main"]) : io["main"][i] = Forced(mode)[6 - Len(io["main"]) + i]
            /\ Reached(mode, Len(io["main"]))

LEMMA WriteReaches ==
  ASSUME Inv, Writing, ~touched, mode \in Modes, Write("main")
  PROVE  /\ Len(io'["main"]) <= 6
         /\ \A i \in 1 .. Len(io'["main"]) : io'["main"][i] = Forced(mode)[6 - Len(io'["main"]) + i]
         /\ Reached(mode, Len(io["main"]))'
<1>1. PICK s \in Seq(Writes) : s = io["main"]
  BY DEF Inv, TypeOK, Threads
<1>2. PICK f : f = Forced(mode)
  OBVIOUS
<1>3. s # << >> /\ io'["main"] = Tail(s)
  BY <1>1 DEF Inv, TypeOK, Write, Free, Threads
<1>4. Len(s) \in 1 .. 6
  <2>1. Len(io["main"]) <= 6
    BY DEF Writing
  <2>2. Len(s) \in Nat \ {0}
    BY <1>3, TailElements
  <2>3. PICK k \in Nat \ {0} : k = Len(s)
    BY <2>2
  <2>4. k <= 6
    BY <1>1, <2>1, <2>3
  <2>5. k \in 1 .. 6
    BY <2>4
  <2>. QED BY <2>3, <2>5
<1>5. PICK n \in 1 .. 6 : n = Len(s)
  BY <1>4
<1>6. Reached(mode, n) /\ \A i \in 1 .. n : s[i] = f[6 - n + i]
  BY <1>1, <1>2, <1>5 DEF Writing
<1>7. Head(s) = f[7 - n]
  <2>1. s[1] = f[6 - n + 1] /\ 6 - n + 1 = 7 - n
    BY <1>6
  <2>. QED BY <1>3, <2>1, TailElements
<1>8. Len(io'["main"]) = n - 1
  BY <1>3, <1>5, TailElements
<1>9. ASSUME NEW i \in 1 .. n - 1 PROVE Tail(s)[i] = f[6 - (n - 1) + i]
  <2>1. i + 1 \in 1 .. n /\ 6 - n + (i + 1) = 6 - (n - 1) + i
    OBVIOUS
  <2>2. s[i + 1] = f[6 - n + (i + 1)]
    BY <1>6, <2>1
  <2>3. Tail(s)[i] = s[i + 1]
    BY <1>3, <1>5, TailElements
  <2>. QED BY <2>1, <2>2, <2>3
<1> DEFINE w == f[7 - n]
<1>10. /\ pins' = IF w.on THEN pins \cup {w.pin} ELSE pins \ {w.pin}
       /\ filter' = IF w # Hold \/ ("cut1" \in pins <=> "cut2" \in pins) THEN filter
                    ELSE IF "cut1" \in pins THEN "night" ELSE "day"
       /\ UNCHANGED mode
  BY <1>1, <1>7 DEF Write
<1>11. Reached(mode, n - 1)'
  <2>1. CASE mode = "night"
    <3>1. CASE n = 6
      <4>1. w = Forced("night")[1]
        BY <1>2, <2>1, <3>1
      <4>. QED BY <1>6, <1>10, <2>1, <3>1, <4>1, NightWrites DEF Reached, On, Off, Hold
    <3>2. CASE n = 5
      <4>1. w = Forced("night")[2]
        BY <1>2, <2>1, <3>2
      <4>. QED BY <1>6, <1>10, <2>1, <3>2, <4>1, NightWrites DEF Reached, On, Off, Hold
    <3>3. CASE n = 4
      <4>1. w = Forced("night")[3]
        BY <1>2, <2>1, <3>3
      <4>. QED BY <1>6, <1>10, <2>1, <3>3, <4>1, NightWrites DEF Reached, On, Off, Hold
    <3>4. CASE n = 3
      <4>1. w = Forced("night")[4]
        BY <1>2, <2>1, <3>4
      <4>. QED BY <1>6, <1>10, <2>1, <3>4, <4>1, NightWrites DEF Reached, On, Off, Hold
    <3>5. CASE n = 2
      <4>1. w = Forced("night")[5]
        BY <1>2, <2>1, <3>5
      <4>. QED BY <1>6, <1>10, <2>1, <3>5, <4>1, NightWrites DEF Reached, On, Off, Hold
    <3>6. CASE n = 1
      <4>1. w = Forced("night")[6]
        BY <1>2, <2>1, <3>6
      <4>. QED BY <1>6, <1>10, <2>1, <3>6, <4>1, NightWrites DEF Reached, On, Off, Hold
    <3>. QED BY <3>1, <3>2, <3>3, <3>4, <3>5, <3>6
  <2>2. CASE mode = "day"
    <3>1. CASE n = 6
      <4>1. w = Forced("day")[1]
        BY <1>2, <2>2, <3>1
      <4>. QED BY <1>6, <1>10, <2>2, <3>1, <4>1, DayWrites DEF Reached, On, Off, Hold
    <3>2. CASE n = 5
      <4>1. w = Forced("day")[2]
        BY <1>2, <2>2, <3>2
      <4>. QED BY <1>6, <1>10, <2>2, <3>2, <4>1, DayWrites DEF Reached, On, Off, Hold
    <3>3. CASE n = 4
      <4>1. w = Forced("day")[3]
        BY <1>2, <2>2, <3>3
      <4>. QED BY <1>6, <1>10, <2>2, <3>3, <4>1, DayWrites DEF Reached, On, Off, Hold
    <3>4. CASE n = 3
      <4>1. w = Forced("day")[4]
        BY <1>2, <2>2, <3>4
      <4>. QED BY <1>6, <1>10, <2>2, <3>4, <4>1, DayWrites DEF Reached, On, Off, Hold
    <3>5. CASE n = 2
      <4>1. w = Forced("day")[5]
        BY <1>2, <2>2, <3>5
      <4>. QED BY <1>6, <1>10, <2>2, <3>5, <4>1, DayWrites DEF Reached, On, Off, Hold
    <3>6. CASE n = 1
      <4>1. w = Forced("day")[6]
        BY <1>2, <2>2, <3>6
      <4>. QED BY <1>6, <1>10, <2>2, <3>6, <4>1, DayWrites DEF Reached, On, Off, Hold
    <3>. QED BY <3>1, <3>2, <3>3, <3>4, <3>5, <3>6
  <2>. QED BY <2>1, <2>2 DEF Modes
<1>12. Reached(mode, Len(io["main"]))'
  BY <1>8, <1>11
<1>. QED BY <1>2, <1>3, <1>8, <1>9, <1>12

LEMMA InitWriting == Init => Writing
BY DEF Init, Writing, Free, Threads, Modes

LEMMA WritingKept ==
  ASSUME Writing, UNCHANGED <<mode, io, touched, pins, filter>>
  PROVE  Writing'
BY DEF Writing, Free, Reached

\* Main, waiting for nothing to write, has all of Forced to write when it switches.
LEMMA DecideWrites ==
  ASSUME Inv, Writing, NEW m \in Modes, Free("main"), Decide(m), UNCHANGED <<pins, filter>>
  PROVE  Writing'
<1>1. mode' = m /\ m # "unknown"
  BY DEF Decide, Modes
<1>2. CASE mode = m
  <2>1. UNCHANGED <<io, touched, mode>>
    BY <1>2, <1>1 DEF Decide, history
  <2>. QED BY <1>1, <2>1 DEF Writing, Free, Reached
<1>3. CASE mode # m
  <2>1. io' = [io EXCEPT !["main"] = Forced(m)] /\ touched' = ~Free("schedule")
    BY <1>3 DEF Decide, StartForced
  <2>2. io'["main"] = Forced(m) /\ io'["schedule"] = io["schedule"]
    BY <2>1 DEF Inv, TypeOK, Threads
  <2>3. PICK f : f = Forced(m)
    OBVIOUS
  <2>4. Len(f) = 6
    BY <2>3, NightWrites, DayWrites DEF Modes
  <2>5. Reached(mode, Len(io["main"]))'
    BY <1>1, <2>2, <2>3, <2>4 DEF Reached
  <2>6. \A i \in 1 .. Len(f) : f[i] = f[6 - Len(f) + i]
    BY <2>4
  <2>7. mode' # "unknown" /\ Len(io'["main"]) <= 6
    BY <1>1, <2>2, <2>3, <2>4
  <2>8. \A i \in 1 .. Len(io'["main"]) : io'["main"][i] = Forced(mode')[6 - Len(io'["main"]) + i]
    BY <1>1, <2>2, <2>3, <2>6
  <2>9. ~touched' => Free("schedule")'
    BY <2>1, <2>2 DEF Free
  <2>. QED BY <2>5, <2>7, <2>8, <2>9 DEF Writing
<1>. QED BY <1>2, <1>3

LEMMA StepWriting ==
  ASSUME Inv, Writing, [Next]_vars
  PROVE  Writing'
<1>1. CASE Write("main")
  <2>1. mode # "unknown" /\ UNCHANGED <<mode, touched>>
    BY <1>1 DEF Writing, Write, history
  <2>2. io'["schedule"] = io["schedule"]
    BY <1>1 DEF Inv, TypeOK, Write, Threads, history
  <2>3. mode \in Modes
    BY <2>1 DEF Inv, TypeOK
  <2>. QED BY <1>1, <2>1, <2>2, <2>3, WriteReaches DEF Writing, Free
<1>2. CASE Write("schedule")
  <2>1. UNCHANGED <<mode, touched>> /\ io'["main"] = io["main"]
    BY <1>2 DEF Inv, TypeOK, Write, Threads, history
  <2>2. touched
    BY <1>2 DEF Writing, Write
  <2>. QED BY <2>1, <2>2 DEF Writing, Free
<1>3. CASE \E l \in Light : Read(l)
  BY <1>3, WritingKept DEF Read, history
<1>4. CASE \E m \in Modes : Compare(m)
  <2>1. PICK m \in Modes : Compare(m)
    BY <1>4
  <2>2. CASE Decide(m)
    BY <2>1, <2>2, DecideWrites DEF Compare
  <2>3. CASE ~Decide(m)
    <3>1. UNCHANGED <<mode, io, touched, pins, filter>>
      BY <2>1, <2>3 DEF Compare, Tally, history
    <3>. QED BY <3>1, WritingKept
  <2>. QED BY <2>2, <2>3
<1>5. CASE \E b \in BOOLEAN : DiagSwitch(b)
  BY <1>5, WritingKept DEF DiagSwitch, history
<1>6. CASE \E l \in Light \cup {"failed"} : DiagValue(l)
  BY <1>6, WritingKept DEF DiagValue, history
<1>7. CASE \E w \in DiagWrites : DiagWrite(w)
  <2>1. PICK w \in DiagWrites : DiagWrite(w)
    BY <1>7
  <2>2. touched' /\ mode' = mode /\ io'["main"] = io["main"]
    BY <2>1 DEF DiagWrite, Inv, TypeOK, Threads
  <2>. QED BY <2>2 DEF Writing, Free
<1>8. CASE UNCHANGED vars
  BY <1>8, WritingKept DEF vars, history
<1>. QED BY <1>1, <1>2, <1>3, <1>4, <1>5, <1>6, <1>7, <1>8 DEF Next, Threads

LEMMA WritingFollows == Inv /\ Writing => HardwareFollowsMode
<1> SUFFICES ASSUME Inv, Writing, mode # "unknown", ~touched, Free("main")
             PROVE  filter = mode /\ ("irled" \in pins <=> mode = "night")
  BY DEF HardwareFollowsMode
<1>1. mode \in Modes
  BY DEF Inv, TypeOK
<1>2. Len(io["main"]) = 0
  BY DEF Free
<1>3. Reached(mode, 0)
  BY <1>1, <1>2 DEF Writing
<1>. QED BY <1>1, <1>3 DEF Reached, Modes

\* When main has written what Pega_Force_Day_Night_Mode writes, and no diag command wrote
\* since it began, filter and LED are those of the mode.
THEOREM HardwareFollowsAlways == Spec => []HardwareFollowsMode
<1>1. Writing /\ Inv /\ [Next]_vars => Writing'
  BY StepWriting
<1>. QED BY <1>1, InitWriting, WritingFollows, Invariance, PTL DEF Spec
=============================================================================
