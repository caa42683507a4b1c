------------------------------ MODULE StatusLed ------------------------------
(* The status LED of pega_misc and the flags of m_stMisc. The main loop      *)
(* watches the wifi interfaces, the schedule thread loads the firmware and   *)
(* runs the commands that set flags; both set the state of the LED, without  *)
(* a lock, and a thread of its own flashes it.                               *)
EXTENDS Naturals, FiniteSets

CONSTANTS
  Flags, \* the flags of m_stMisc that commands set, bIsWiFiDisable among them
  Leds   \* the colours that diag commands write

ASSUME FlagsAssumption == "disable" \in Flags /\ Flags \cap {"ready", "error"} = {}
ASSUME LedsAssumption == Leds \subseteq {"R", "G", "B"}

VARIABLES
  links,   \* the interfaces mlan0 and mlan1 that exist
  flags,   \* the bits of m_stMisc that are set
  lost,    \* history: a thread undid what another had set in flags
  pc,      \* what a thread does next
  job,     \* the flag it sets, whether it sets it, and the state it wants the LED in
  copy,    \* the word a thread has loaded to set a flag in it, or {}
  state,   \* m_eLED_State
  shown,   \* the state a thread read to choose the pattern
  id,      \* m_thread_id, 0 if there is none
  live, dying, \* the flashing threads, and those among them that were cancelled
  made,    \* how many there were
  colour,  \* m_stLED.eLedFlashing_Color
  lit,     \* the colours that are on
  touched, \* history: the colours diag commands wrote since all were switched off
  crossed, \* history: the last call of state_Set began during another one
  fault    \* a thread that is not there was cancelled

misc == <<links, flags, lost, copy>>
led == <<state, shown, id, live, dying, made, colour, lit, touched, crossed, fault>>
vars == <<misc, pc, job, led>>

Threads == {"main", "schedule"}
Links == {"mlan0", "mlan1"}
Other(t) == IF t = "main" THEN "schedule" ELSE "main"
-----------------------------------------------------------------------------
States == {"None", "Start_Up", "Wifi_Ready", "Wifi_off", "Wifi_fw_error"}

Priority(s) == IF s = "None" THEN 0 ELSE IF s = "Start_Up" THEN 5 ELSE 10

\* Slip: the error flashes.
FlashesError(s) == s \in {"Start_Up", "Wifi_fw_error"}

Flashes(s) == s = "Start_Up"

Colours(s) ==
  IF s = "Wifi_Ready" THEN {"B"} ELSE IF s = "Wifi_fw_error" THEN {"R"} ELSE {"R", "G"}

NoJob == [flag |-> "none", set |-> FALSE, led |-> "None"]
Jobs == [flag : Flags \cup {"ready", "error", "none"}, set : BOOLEAN, led : States]

\* The handlers run, some flags are set by options: the LED is told that the system starts.
Init ==
  /\ links \in SUBSET Links /\ flags \in SUBSET Flags /\ lost = FALSE
  /\ pc = [t \in Threads |-> IF t = "main" THEN "test" ELSE "idle"]
  /\ job = [t \in Threads |-> IF t = "main" THEN [NoJob EXCEPT !.led = "Start_Up"] ELSE NoJob]
  /\ copy = [t \in Threads |-> {}]
  /\ state = "None" /\ shown = [t \in Threads |-> "None"]
  /\ id = 1 /\ live = {1} /\ dying = {} /\ made = 1
  /\ colour = {} /\ lit = {} /\ touched = {} /\ crossed = FALSE /\ fault = FALSE

Step(t, from, to) == ~fault /\ pc[t] = from /\ pc' = [pc EXCEPT ![t] = to]

\* After the LED was set to ready main looks whether the interfaces are gone.
After(t, j) ==
  IF t = "schedule" THEN "idle" ELSE IF j.led = "Wifi_Ready" THEN "gone" ELSE "ready"

Return(t, from) == Step(t, from, After(t, job[t])) /\ UNCHANGED job
-----------------------------------------------------------------------------
\* A bit field is written by loading the word it is in and storing it again.
LoadFlags(t) ==
  /\ Step(t, "load", "store")
  /\ copy' = [copy EXCEPT ![t] = flags]
  /\ UNCHANGED <<links, flags, lost, job, led>>

StoreFlags(t) ==
  LET j == job[t] IN
    /\ IF j.led = "None" THEN Return(t, "store") ELSE Step(t, "store", "test") /\ UNCHANGED job
    /\ flags' = IF j.set THEN copy[t] \cup {j.flag} ELSE copy[t] \ {j.flag}
    /\ lost' = (lost \/ copy[t] # flags)
    /\ copy' = [copy EXCEPT ![t] = {}]
    /\ UNCHANGED <<links, led>>
-----------------------------------------------------------------------------
\* state_Set: nothing is done if the LED is in that state already, ...
Test(t) ==
  /\ IF state = job[t].led THEN Return(t, "test") ELSE Step(t, "test", "allowed") /\ UNCHANGED job
  /\ UNCHANGED <<misc, led>>

Setting == {"assign", "switch", "thread", "cancel", "clear", "off", "show", "start"}

\* Slip: a state of the same priority is refused too.
AllowedAbove(t) ==
  /\ IF Priority(state) >= Priority(job[t].led) THEN Return(t, "allowed") /\ UNCHANGED crossed
     ELSE /\ Step(t, "allowed", "assign") /\ UNCHANGED job
          /\ crossed' = (pc[Other(t)] \in Setting)
  /\ UNCHANGED <<misc, state, shown, id, live, dying, made, colour, lit, touched, fault>>

\* ... or in one of higher priority.
Allowed(t) ==
  /\ IF Priority(state) > Priority(job[t].led) THEN Return(t, "allowed") /\ UNCHANGED crossed
     ELSE /\ Step(t, "allowed", "assign") /\ UNCHANGED job
          /\ crossed' = (pc[Other(t)] \in Setting)
  /\ UNCHANGED <<misc, state, shown, id, live, dying, made, colour, lit, touched, fault>>

Assign(t) ==
  /\ Step(t, "assign", "switch")
  /\ state' = job[t].led
  /\ UNCHANGED <<misc, job, shown, id, live, dying, made, colour, lit, touched, crossed, fault>>

Switch(t) ==
  /\ Step(t, "switch", "thread")
  /\ shown' = [shown EXCEPT ![t] = state]
  /\ UNCHANGED <<misc, job, state, id, live, dying, made, colour, lit, touched, crossed, fault>>
-----------------------------------------------------------------------------
\* Pattern_Set: the thread that flashes is cancelled; m_thread_id is read twice.
Thread(t) ==
  /\ Step(t, "thread", IF id # 0 THEN "cancel" ELSE "off")
  /\ UNCHANGED <<misc, job, led>>

Cancel(t) ==
  /\ Step(t, "cancel", "clear")
  /\ IF id \in live THEN dying' = dying \cup {id} /\ UNCHANGED fault
     ELSE fault' = TRUE /\ UNCHANGED dying
  /\ UNCHANGED <<misc, job, state, shown, id, live, made, colour, lit, touched, crossed>>

\* Slip: the cancelled thread is not forgotten.
ClearNot(t) == Step(t, "clear", "off") /\ UNCHANGED <<misc, job, led>>

Clear(t) ==
  /\ Step(t, "clear", "off")
  /\ id' = 0
  /\ UNCHANGED <<misc, job, state, shown, live, dying, made, colour, lit, touched, crossed, fault>>

\* Slip: the LED is switched off at once.
OffAtOnce(t) ==
  /\ Step(t, "off", "show")
  /\ lit' = {} /\ touched' = {}
  /\ UNCHANGED <<misc, job, state, shown, id, live, dying, made, colour, crossed, fault>>

\* After 200 ms all colours are off. In that time a cancelled thread has come to an end,
\* and a call that was just cancelling it has got to this point too.
Off(t) ==
  /\ Step(t, "off", "show") /\ dying = {} /\ pc[Other(t)] \notin {"cancel", "clear"}
  /\ lit' = {} /\ touched' = {}
  /\ UNCHANGED <<misc, job, state, shown, id, live, dying, made, colour, crossed, fault>>

Show(t) ==
  /\ IF Flashes(shown[t])
     THEN /\ Step(t, "show", "start") /\ colour' = Colours(shown[t])
          /\ UNCHANGED <<job, lit>>
     ELSE /\ Return(t, "show") /\ lit' = lit \cup Colours(shown[t])
          /\ UNCHANGED colour
  /\ UNCHANGED <<misc, state, shown, id, live, dying, made, touched, crossed, fault>>

Start(t) ==
  /\ Return(t, "start")
  /\ made' = made + 1 /\ id' = made + 1 /\ live' = live \cup {made + 1}
  /\ UNCHANGED <<misc, state, shown, dying, colour, lit, touched, crossed, fault>>
-----------------------------------------------------------------------------
\* A thread that flashes reads the colour each time; when it was cancelled it ends
\* with its next write.
Flash(i, on) ==
  /\ ~fault /\ i \in live
  /\ lit' = IF on THEN lit \cup colour ELSE lit \ colour
  /\ UNCHANGED <<misc, pc, job, state, shown, id, live, dying, made, colour, touched, crossed, fault>>

End(i) ==
  /\ ~fault /\ i \in dying
  /\ live' = live \ {i} /\ dying' = dying \ {i}
  /\ UNCHANGED <<misc, pc, job, state, shown, id, made, colour, lit, touched, crossed, fault>>
-----------------------------------------------------------------------------
\* Slip: whether wifi is ready is seen at the LED.
ReadyByLed ==
  /\ Step("main", "ready", IF "disable" \in flags \/ state = "Wifi_Ready" THEN "gone" ELSE "up0")
  /\ UNCHANGED <<misc, job, led>>

\* wifi_ready_check looks at the flags, and at one interface after the other.
Ready ==
  /\ Step("main", "ready", IF flags \cap {"disable", "ready"} # {} THEN "gone" ELSE "up0")
  /\ UNCHANGED <<misc, job, led>>

Up0 ==
  /\ Step("main", "up0", IF "mlan0" \in links THEN "up1" ELSE "gone")
  /\ UNCHANGED <<misc, job, led>>

Up1 ==
  /\ IF "mlan1" \in links
     THEN /\ Step("main", "up1", "load")
          /\ job' = [job EXCEPT !["main"] = [flag |-> "ready", set |-> TRUE, led |-> "Wifi_Ready"]]
     ELSE Step("main", "up1", "gone") /\ UNCHANGED job
  /\ UNCHANGED <<misc, led>>

\* wifi_interface_check, after which main sleeps for a second.
Gone ==
  /\ Step("main", "gone", IF "disable" \in flags \/ "ready" \notin flags THEN "ready" ELSE "down0")
  /\ UNCHANGED <<misc, job, led>>

Down0 ==
  /\ Step("main", "down0", IF "mlan0" \in links THEN "ready" ELSE "down1")
  /\ UNCHANGED <<misc, job, led>>

Down1 ==
  /\ IF "mlan1" \in links THEN Step("main", "down1", "ready") /\ UNCHANGED job
     ELSE /\ Step("main", "down1", "load")
          /\ job' = [job EXCEPT !["main"] = [flag |-> "ready", set |-> FALSE, led |-> "Wifi_off"]]
  /\ UNCHANGED <<misc, led>>
-----------------------------------------------------------------------------
\* The debug and diag commands that set a flag.
Command(f, b) ==
  /\ Step("schedule", "idle", "load")
  /\ job' = [job EXCEPT !["schedule"] = [flag |-> f, set |-> b, led |-> "None"]]
  /\ UNCHANGED <<misc, led>>

\* The diag commands of the LED write a colour whatever the state is; those for all three
\* are one such write after the other.
DiagLed(c, on) ==
  /\ ~fault /\ pc["schedule"] = "idle"
  /\ lit' = (IF on THEN lit \cup {c} ELSE lit \ {c}) /\ touched' = touched \cup {c}
  /\ UNCHANGED <<misc, pc, job, state, shown, id, live, dying, made, colour, crossed, fault>>

\* The firmware could not be loaded. The event comes a tick after a message, when main
\* has told the LED that the system starts.
LoadFails ==
  /\ Step("schedule", "idle", "load") /\ state # "None"
  /\ job' = [job EXCEPT !["schedule"] = [flag |-> "error", set |-> FALSE, led |-> "Wifi_fw_error"]]
  /\ UNCHANGED <<misc, led>>

\* The wifi driver, which the script that runs when it was loaded installs, adds and
\* removes interfaces.
Link(l) ==
  /\ links' = IF l \in links THEN links \ {l} ELSE links \cup {l}
  /\ UNCHANGED <<flags, lost, copy, pc, job, led>>
-----------------------------------------------------------------------------
Set(t) ==
  \/ LoadFlags(t) \/ StoreFlags(t)
  \/ Test(t) \/ Allowed(t) \/ Assign(t) \/ Switch(t)
  \/ Thread(t) \/ Cancel(t) \/ Clear(t) \/ Off(t) \/ Show(t) \/ Start(t)

Loop == Ready \/ Up0 \/ Up1 \/ Gone \/ Down0 \/ Down1

Next ==
  \/ \E t \in Threads : Set(t)
  \/ Loop
  \/ \E i \in live, on \in BOOLEAN : Flash(i, on)
  \/ \E i \in dying : End(i)
  \/ \E f \in Flags, b \in BOOLEAN : Command(f, b)
  \/ \E c \in Leds, on \in BOOLEAN : DiagLed(c, on)
  \/ LoadFails
  \/ \E l \in Links : Link(l)

Spec == Init /\ [][Next]_vars

\* Threads go on; a cancelled one ends.
Fairness ==
  /\ \A t \in Threads : WF_vars(Set(t))
  /\ WF_vars(Loop)
  /\ WF_vars(\E i \in dying : End(i))

FairSpec == Spec /\ Fairness
-----------------------------------------------------------------------------
Places ==
  Setting \cup {"idle", "ready", "up0", "up1", "gone", "down0", "down1", "load", "store", "test", "allowed"}

TypeOK ==
  /\ links \subseteq Links /\ flags \subseteq Flags \cup {"ready"}
  /\ pc \in [Threads -> Places] /\ job \in [Threads -> Jobs]
  /\ copy \in [Threads -> SUBSET (Flags \cup {"ready"})]
  /\ state \in States /\ shown \in [Threads -> States]
  /\ made \in 1 .. 2 /\ id \in {0, made} /\ live \subseteq 1 .. made /\ dying \subseteq live
  /\ colour \subseteq {"R", "G"} /\ lit \subseteq {"R", "G", "B"} /\ touched \subseteq Leds
  /\ lost \in BOOLEAN /\ crossed \in BOOLEAN /\ fault \in BOOLEAN

\* The LED shows its state when nobody sets it, although a cancelled thread may still
\* switch colours on and off; if two calls were mixed up the next one puts it right. So it
\* does with the colours a diag command wrote, which stay until the state changes; the
\* other colours, and what flashes, are those of the state even then.
LedShowsState ==
  ~fault /\ ~crossed /\ state # "None" /\ (\A t \in Threads : pc[t] \notin Setting) =>
    IF Flashes(state) THEN lit \subseteq Colours(state) \cup touched /\ colour = Colours(state) /\ live = {id}
    ELSE lit \ touched = Colours(state) \ touched /\ live = {}

\* A thread that has ended is never cancelled, nor none at all, unless two calls mixed.
CancelsTheLiving == fault => crossed

\* No command comes in any more.
Left == ~fault /\ "disable" \notin flags /\ pc["schedule"] = "idle"

\* The ready flag follows interfaces that stay, even if a command undid what main set.
ReadyFollows ==
  /\ <>[](Left /\ links = Links) => <>[]("ready" \in flags)
  /\ <>[](Left /\ links = {}) => <>[]("ready" \notin flags)

\* So does the LED, unless what main set was undone; a failed load hides it.
LedFollowsWifi ==
  []~lost =>
    /\ <>[](Left /\ links = Links) => <>[](state \in {"Wifi_Ready", "Wifi_fw_error"})
    /\ <>[](Left /\ links = {}) => <>[](state # "Wifi_Ready")
=============================================================================
