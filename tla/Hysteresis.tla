----------------------------- MODULE Hysteresis -----------------------------
(* What the day/night mode promises: a mode is left for the other once that *)
(* was seen Trigger times since the mode in force was last seen.            *)
EXTENDS Naturals

CONSTANT Trigger

VARIABLES
  mode, \* "night" or "day", or "unknown" until the first decision
  seen  \* how often each was seen since

Modes == {"night", "day"}
Nothing == [m \in Modes |-> 0]

Init == mode = "unknown" /\ seen = Nothing

\* What is in force is seen, and what was seen against it forgotten.
Confirm(m) == mode = m /\ seen' = Nothing /\ UNCHANGED mode

\* Something else is seen, not yet often enough, or often enough.
Doubt(m) ==
  /\ mode # m /\ seen[m] + 1 < Trigger
  /\ seen' = [seen EXCEPT ![m] = @ + 1] /\ UNCHANGED mode

Switch(m) ==
  /\ mode # m /\ seen[m] + 1 >= Trigger
  /\ mode' = m /\ seen' = Nothing

Next == \E m \in Modes : Confirm(m) \/ Doubt(m) \/ Switch(m)

Spec == Init /\ [][Next]_<<mode, seen>>
=============================================================================
