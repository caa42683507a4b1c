------------------------------- MODULE NvMode -------------------------------
(* The day/night mode of pega_misc: the main loop takes a sample of the     *)
(* light a second, counts towards night or day and switches the IR filter   *)
(* and the IR LED; the schedule thread runs the diag commands that share    *)
(* the sample, the switch of the sensor and the hardware with it.           *)
EXTENDS Integers, Sequences

CONSTANT Trigger \* sTriggerCounts

ASSUME TriggerAssumption == Trigger \in Nat \ {0}

VARIABLES
  disabled, \* m_stMisc.bIsALSDisable
  lux,      \* m_stNVmode.fLux, up to the comparisons with the thresholds
  mode,     \* bIsNightMode
  count,    \* u8NightModeCounts and u8DayModeCounts
  pc,       \* what main does next: "read", or a comparison, "night" or "day"
  io,       \* what main and the schedule thread have still to write
  pins,     \* the outputs that are on
  filter,   \* where the IR filter stands
  touched,  \* history: a diag command wrote the hardware since main began to
  switched  \* history: a thread began to switch the filter

history == <<touched, switched>>
vars == <<disabled, lux, mode, count, pc, io, pins, filter, history>>

Modes == {"night", "day"}
Opposite(m) == IF m = "night" THEN "day" ELSE "night"
Threads == {"main", "schedule"}
-----------------------------------------------------------------------------
\* What the sensor shows. A read that failed gives -1, which is below any threshold.
Light == {"dark", "dim", "bright"}
Shows(m) == IF m = "night" THEN {"dark", "failed"} ELSE {"bright"}

On(p) == [pin |-> p, on |-> TRUE]
Off(p) == [pin |-> p, on |-> FALSE]
Hold == Off("none")
Writes == [pin : {"cut1", "cut2", "irled"}, on : BOOLEAN] \cup {Hold}

\* Slip: the coil that was driven is not released.
IRCutHeld(m) ==
  IF m = "day" THEN <<Off("cut1"), On("cut2"), Hold, Off("cut1")>>
  ELSE <<On("cut1"), Off("cut2"), Hold, Off("cut1")>>

\* The filter has two coils: one is driven for 200 ms, and both are released.
IRCut(m) ==
  IF m = "day" THEN <<Off("cut1"), On("cut2"), Hold, Off("cut1"), Off("cut2")>>
  ELSE <<On("cut1"), Off("cut2"), Hold, Off("cut1"), Off("cut2")>>

\* Slip: the day leaves the LED on.
ForcedLedLeft(m) == IF m = "night" THEN IRCut(m) \o <<On("irled")>> ELSE IRCut(m)

\* Night: the filter first, then the LED; day the other way round.
Forced(m) == IF m = "night" THEN IRCut(m) \o <<On("irled")>> ELSE <<Off("irled")>> \o IRCut(m)

\* Pega_Gpio_init leaves the two outputs of the filter low, which is on for both coils.
Init ==
  /\ disabled = TRUE /\ lux = "bright" /\ mode = "unknown" /\ count = [m \in Modes |-> 0]
  /\ pc = "read" /\ io = [t \in Threads |-> << >>] /\ pins = {"cut1", "cut2"} /\ filter = "unknown"
  /\ touched = FALSE /\ switched = FALSE

Free(t) == io[t] = << >>

\* A thread writes a pin, or waits while the filter moves.
Write(t) ==
  /\ ~Free(t)
  /\ io' = [io EXCEPT ![t] = Tail(@)]
  /\ LET w == Head(io[t]) IN
       /\ pins' = IF w.on THEN pins \cup {w.pin} ELSE pins \ {w.pin}
       /\ filter' = IF w # Hold \/ ("cut1" \in pins <=> "cut2" \in pins) THEN filter
                    ELSE IF "cut1" \in pins THEN "night" ELSE "day"
  /\ UNCHANGED <<disabled, lux, mode, count, pc, history>>
-----------------------------------------------------------------------------
\* Slip: what was counted is forgotten with every sample.
ReadForgets(l) ==
  /\ pc = "read" /\ Free("main") /\ ~disabled
  /\ lux' = l /\ pc' = "night" /\ count' = [m \in Modes |-> 0]
  /\ UNCHANGED <<disabled, mode, io, pins, filter, history>>

\* Main takes a sample; one that fails changes nothing.
Read(l) ==
  /\ pc = "read" /\ Free("main") /\ ~disabled
  /\ lux' = l /\ pc' = "night"
  /\ UNCHANGED <<disabled, mode, count, io, pins, filter, history>>

\* Main begins to write the hardware.
StartForced(m) ==
  io' = [io EXCEPT !["main"] = Forced(m)] /\ touched' = ~Free("schedule") /\ switched' = TRUE

\* Slip: the counter of the other mode is left as it is.
DecideKeepsCount(m) ==
  /\ lux \in Shows(m) /\ count[m] >= Trigger - 1
  /\ mode' = m /\ UNCHANGED count
  /\ IF mode = m THEN UNCHANGED <<io, history>> ELSE StartForced(m)

\* Seen often enough: the other counter is reset, this one stays.
Decide(m) ==
  /\ lux \in Shows(m) /\ count[m] >= Trigger - 1
  /\ mode' = m /\ count' = [count EXCEPT ![Opposite(m)] = 0]
  /\ IF mode = m THEN UNCHANGED <<io, history>> ELSE StartForced(m)

\* Slip: it is counted also when it was seen often enough.
TallyOn(m) ==
  /\ lux \in Shows(m)
  /\ count' = [count EXCEPT ![m] = @ + 1]
  /\ UNCHANGED <<mode, io, history>>

Tally(m) ==
  /\ lux \in Shows(m) /\ count[m] < Trigger - 1
  /\ count' = [count EXCEPT ![m] = @ + 1]
  /\ UNCHANGED <<mode, io, history>>

\* The sample is compared with one threshold, then, read again, with the other.
Compare(m) ==
  /\ pc = m /\ Free("main")
  /\ pc' = IF m = "night" THEN "day" ELSE "read"
  /\ \/ Decide(m) \/ Tally(m)
     \/ lux \notin Shows(m) /\ UNCHANGED <<mode, count, io, history>>
  /\ UNCHANGED <<disabled, lux, pins, filter>>
-----------------------------------------------------------------------------
\* The diag commands als on and als off, and als value, which shows a new sample
\* or that it failed.
DiagSwitch(b) ==
  /\ Free("schedule")
  /\ disabled' = b
  /\ UNCHANGED <<lux, mode, count, pc, io, pins, filter, history>>

DiagValue(l) ==
  /\ Free("schedule")
  /\ lux' = l
  /\ UNCHANGED <<disabled, mode, count, pc, io, pins, filter, history>>

\* icr and irled write the hardware whatever the mode is.
Switches == {IRCut("night"), IRCut("day")}
DiagWrites == Switches \cup {<<On("irled")>>, <<Off("irled")>>}

DiagWrite(w) ==
  /\ Free("schedule")
  /\ io' = [io EXCEPT !["schedule"] = w] /\ touched' = TRUE /\ switched' = (switched \/ w \in Switches)
  /\ UNCHANGED <<disabled, lux, mode, count, pc, pins, filter>>
-----------------------------------------------------------------------------
Next ==
  \/ \E t \in Threads : Write(t)
  \/ \E l \in Light : Read(l)
  \/ \E m \in Modes : Compare(m)
  \/ \E b \in BOOLEAN : DiagSwitch(b)
  \/ \E l \in Light \cup {"failed"} : DiagValue(l)
  \/ \E w \in DiagWrites : DiagWrite(w)

Spec == Init /\ [][Next]_vars

\* Main goes on, and a sample succeeds in the end; a command ends.
Fairness ==
  /\ \A t \in Threads : WF_vars(Write(t))
  /\ WF_vars(\E l \in Light : Read(l))
  /\ \A m \in Modes : WF_vars(Compare(m))

FairSpec == Spec /\ Fairness
-----------------------------------------------------------------------------
TypeOK ==
  /\ disabled \in BOOLEAN /\ touched \in BOOLEAN /\ switched \in BOOLEAN
  /\ lux \in Light \cup {"failed"} /\ mode \in Modes \cup {"unknown"}
  /\ count \in [Modes -> 0 .. Trigger - 1]
  /\ pc \in Modes \cup {"read"} /\ filter \in Modes \cup {"unknown"}
  /\ pins \subseteq {"cut1", "cut2", "irled"}
  /\ io \in [Threads -> Seq(Writes)]

\* Since the filter was first switched a coil that is driven is released by a thread that
\* has it still to do, although two threads may drive the filter, one way or both, at once.
\* Until then nobody releases the coils: both stay driven, as Pega_Gpio_init left them.
CoilsReleased ==
  \A p \in {"cut1", "cut2"} :
    IF switched THEN p \in pins => \E t \in Threads : \E i \in DOMAIN io[t] : io[t][i] = Off(p)
    ELSE p \in pins

\* Filter and LED are those of the mode, except while main writes them and after a
\* diag command wrote them: it is not undone before the mode changes.
HardwareFollowsMode ==
  mode # "unknown" /\ ~touched /\ Free("main") =>
    filter = mode /\ ("irled" \in pins <=> mode = "night")

\* The two counters, of which neither is reset by a sample between the thresholds nor by
\* one for the other mode, act as a single run of samples against the mode.
Promise == INSTANCE Hysteresis WITH
  seen <- [m \in Modes |-> IF m = mode THEN 0 ELSE count[m]]
HysteresisSpec == Promise!Spec

\* Light that stays is followed, whatever was counted before.
Settles ==
  \A m \in Modes : <>[](lux \in Shows(m) /\ ~disabled) => <>[](mode = m)
=============================================================================
