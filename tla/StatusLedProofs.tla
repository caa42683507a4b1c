--------------------------- MODULE StatusLedProofs ---------------------------
(* Proofs about StatusLed: for every set of flags it stays well typed, only  *)
(* calls that cross cancel a thread that is not there, and the LED shows its *)
(* state after every call that did not cross another one, but for colours a  *)
(* diag command wrote since.                                                 *)
EXTENDS StatusLed, TLAPS

Chosen == {"thread", "cancel", "clear", "off", "show", "start"}
Calling == Setting \cup {"test", "allowed"}

\* Main tells the LED that the system starts.
Booting == job["main"].led = "Start_Up" /\ pc["main"] \in Calling

\* Who wants the LED in which state.  Only main, once, makes it flash.
JobsFit ==
  /\ \A t \in Threads :
       /\ job[t].set => job[t].flag \in Flags \cup {"ready"}
       /\ pc[t] \in Calling => job[t].led # "None"
  /\ job["schedule"].led \in {"None", "Wifi_fw_error"}
  /\ pc["schedule"] \in Calling \cup {"idle", "load", "store"}
  /\ pc["main"] # "idle"
  /\ job["main"].led = "Start_Up" => pc["main"] \notin {"load", "store"}

Starts ==
  /\ state = "None" => Booting /\ pc["main"] \in {"test", "allowed", "assign"} /\ job["schedule"].led = "None"
  /\ Booting /\ pc["main"] \in {"test", "allowed", "assign"} => state = "None"
  /\ Booting => made = 1
  /\ \A t \in Threads :
       /\ pc[t] = "switch" /\ job[t].led # "Start_Up" => state # "Start_Up"
       /\ pc[t] \in Chosen /\ shown[t] = "Start_Up" => job[t].led = "Start_Up"
       /\ pc[t] = "start" => shown[t] = "Start_Up"

\* There is at most one flashing thread that was not cancelled: that of m_thread_id.
OneThread ==
  /\ live \ dying \subseteq {id}
  /\ id # 0 /\ (\A t \in Threads : pc[t] # "clear") => id \in live \ dying
  /\ ~fault => \A t \in Threads : pc[t] = "clear" => id \notin live \ dying
  /\ Booting /\ pc["main"] \in {"off", "show", "start"} => id = 0
  /\ Booting /\ pc["main"] \in {"show", "start"} => pc["schedule"] \notin {"cancel", "clear"}

\* What a call that crosses no other one has done so far.
Alone ==
  /\ (\A t \in Threads : pc[t] \in Setting) => crossed
  /\ ~crossed => \A t \in Threads :
       /\ pc[t] = "cancel" => id # 0
       /\ pc[t] \in Chosen => shown[t] = state
       /\ pc[t] \in {"off", "show", "start"} => id = 0
       /\ pc[t] \in {"show", "start"} => live = {} /\ lit \subseteq touched
       /\ pc[t] = "start" => Flashes(state) /\ colour = Colours(state)

Inv == TypeOK /\ JobsFit /\ Starts /\ OneThread /\ Alone /\ CancelsTheLiving /\ LedShowsState
-----------------------------------------------------------------------------
\* The steps of a thread that sets a flag or the LED, one lemma for each.
USE DEF Threads, Setting, Chosen, Calling, Booting, Step, Return, After, misc, led

LEMMA LoadFlagsInv ==
  ASSUME Inv, NEW t \in Threads, LoadFlags(t)
  PROVE  Inv'
<1>1. TypeOK'
  BY DEF Inv, TypeOK, Places, Jobs, States, LoadFlags
<1>2. JobsFit'
  BY DEF Inv, TypeOK, JobsFit, LoadFlags
<1>3. Starts'
  BY DEF Inv, TypeOK, JobsFit, Starts, LoadFlags
<1>4. OneThread'
  BY DEF Inv, TypeOK, Starts, OneThread, LoadFlags
<1>5. Alone'
  BY DEF Inv, TypeOK, OneThread, Alone, LoadFlags
<1>6. CancelsTheLiving'
  BY DEF Inv, TypeOK, OneThread, Alone, CancelsTheLiving, LoadFlags
<1>7. LedShowsState'
  BY DEF Inv, TypeOK, OneThread, Alone, LedShowsState, LoadFlags
<1>. QED BY <1>1, <1>2, <1>3, <1>4, <1>5, <1>6, <1>7 DEF Inv

LEMMA StoreFlagsInv ==
  ASSUME Inv, NEW t \in Threads, StoreFlags(t)
  PROVE  Inv'
<1>1. TypeOK'
  <2>1. lost' \in BOOLEAN
    BY DEF StoreFlags
  <2>2. flags' \subseteq Flags \cup {"ready"} /\ copy' \in [Threads -> SUBSET (Flags \cup {"ready"})]
    BY DEF Inv, TypeOK, JobsFit, StoreFlags
  <2>3. pc' \in [Threads -> Places] /\ UNCHANGED <<links, job, led>>
    BY DEF Inv, TypeOK, Places, StoreFlags
  <2>. QED BY <2>1, <2>2, <2>3 DEF Inv, TypeOK
<1>2. JobsFit'
  BY DEF Inv, TypeOK, JobsFit, StoreFlags
<1>3. Starts'
  BY DEF Inv, TypeOK, JobsFit, Starts, StoreFlags
<1>4. OneThread'
  BY DEF Inv, TypeOK, Starts, OneThread, StoreFlags
<1>5. Alone'
  BY DEF Inv, TypeOK, OneThread, Alone, StoreFlags
<1>6. CancelsTheLiving'
  BY DEF Inv, TypeOK, OneThread, Alone, CancelsTheLiving, StoreFlags
<1>7. LedShowsState'
  BY DEF Inv, TypeOK, OneThread, Alone, LedShowsState, StoreFlags
<1>. QED BY <1>1, <1>2, <1>3, <1>4, <1>5, <1>6, <1>7 DEF Inv

LEMMA TestInv ==
  ASSUME Inv, NEW t \in Threads, Test(t)
  PROVE  Inv'
<1>1. TypeOK'
  BY DEF Inv, TypeOK, Places, Jobs, States, Test
<1>2. JobsFit'
  BY DEF Inv, TypeOK, JobsFit, Test
<1>3. Starts'
  BY DEF Inv, TypeOK, JobsFit, Starts, Test
<1>4. OneThread'
  BY DEF Inv, TypeOK, Starts, OneThread, Test
<1>5. Alone'
  BY DEF Inv, TypeOK, OneThread, Alone, Test
<1>6. CancelsTheLiving'
  BY DEF Inv, TypeOK, OneThread, Alone, CancelsTheLiving, Test
<1>7. LedShowsState'
  BY DEF Inv, TypeOK, OneThread, Alone, LedShowsState, Test
<1>. QED BY <1>1, <1>2, <1>3, <1>4, <1>5, <1>6, <1>7 DEF Inv

\* Here the history of a call begins: whether it crosses the other one.
LEMMA AllowedInv ==
  ASSUME Inv, NEW t \in Threads, Allowed(t)
  PROVE  Inv'
<1>1. /\ pc[t] = "allowed" /\ ~fault /\ pc' \in [Threads -> Places]
      /\ UNCHANGED <<misc, job, state, shown, id, live, dying, made, colour, lit, touched, fault>>
  BY DEF Inv, TypeOK, Places, Allowed
<1>2. CASE Priority(state) > Priority(job[t].led) /\ Return(t, "allowed") /\ UNCHANGED crossed
  <2>1. TypeOK'
    BY <1>1, <1>2 DEF Inv, TypeOK
  <2>2. JobsFit'
    BY <1>1, <1>2 DEF Inv, TypeOK, JobsFit
  <2>3. Starts'
    <3>1. state # "None"
      BY <1>2 DEF Priority
    <3>. QED BY <1>1, <1>2, <3>1 DEF Inv, TypeOK, JobsFit, Starts
  <2>4. OneThread'
    BY <1>1, <1>2 DEF Inv, TypeOK, OneThread
  <2>5. Alone' /\ CancelsTheLiving' /\ LedShowsState'
    BY <1>1, <1>2 DEF Inv, TypeOK, Alone, CancelsTheLiving, LedShowsState
  <2>. QED BY <2>1, <2>2, <2>3, <2>4, <2>5 DEF Inv
<1>3. CASE pc' = [pc EXCEPT ![t] = "assign"] /\ crossed' = (pc[Other(t)] \in Setting)
  <2>1. TypeOK'
    <3>1. crossed' \in BOOLEAN
      BY <1>3
    <3>. QED BY <1>1, <3>1 DEF Inv, TypeOK
  <2>2. JobsFit'
    BY <1>1, <1>3 DEF Inv, TypeOK, JobsFit
  <2>3. Starts'
    BY <1>1, <1>3 DEF Inv, TypeOK, JobsFit, Starts
  <2>4. OneThread'
    BY <1>1, <1>3 DEF Inv, TypeOK, OneThread
  <2>5. \A u \in Threads : pc[u] \in Setting /\ u # t => crossed'
    <3>1. \A u \in Threads : u # t => u = Other(t)
      BY DEF Other
    <3>. QED BY <1>3, <3>1, Zenon
  <2>6. Alone'
    BY <1>1, <1>3, <2>5 DEF Inv, TypeOK, Alone
  <2>7. CancelsTheLiving' /\ LedShowsState'
    BY <1>1, <1>3 DEF Inv, TypeOK, CancelsTheLiving, LedShowsState
  <2>. QED BY <2>1, <2>2, <2>3, <2>4, <2>6, <2>7 DEF Inv
<1>. QED BY <1>2, <1>3 DEF Allowed

LEMMA AssignInv ==
  ASSUME Inv, NEW t \in Threads, Assign(t)
  PROVE  Inv'
<1>1. TypeOK'
  BY DEF Inv, TypeOK, Places, Jobs, States, Assign
<1>2. JobsFit'
  BY DEF Inv, TypeOK, JobsFit, Assign
<1>3. Starts'
  BY DEF Inv, TypeOK, JobsFit, Starts, Assign
<1>4. OneThread'
  BY DEF Inv, TypeOK, Starts, OneThread, Assign
<1>5. Alone'
  BY DEF Inv, TypeOK, OneThread, Alone, Assign
<1>6. CancelsTheLiving'
  BY DEF Inv, TypeOK, OneThread, Alone, CancelsTheLiving, Assign
<1>7. LedShowsState'
  BY DEF Inv, TypeOK, OneThread, Alone, LedShowsState, Assign
<1>. QED BY <1>1, <1>2, <1>3, <1>4, <1>5, <1>6, <1>7 DEF Inv

LEMMA SwitchInv ==
  ASSUME Inv, NEW t \in Threads, Switch(t)
  PROVE  Inv'
<1>1. TypeOK'
  BY DEF Inv, TypeOK, Places, Jobs, States, Switch
<1>2. JobsFit'
  BY DEF Inv, TypeOK, JobsFit, Switch
<1>3. Starts'
  BY DEF Inv, TypeOK, JobsFit, Starts, Switch
<1>4. OneThread'
  BY DEF Inv, TypeOK, Starts, OneThread, Switch
<1>5. Alone'
  BY DEF Inv, TypeOK, OneThread, Alone, Switch
<1>6. CancelsTheLiving'
  BY DEF Inv, TypeOK, OneThread, Alone, CancelsTheLiving, Switch
<1>7. LedShowsState'
  BY DEF Inv, TypeOK, OneThread, Alone, LedShowsState, Switch
<1>. QED BY <1>1, <1>2, <1>3, <1>4, <1>5, <1>6, <1>7 DEF Inv

LEMMA ThreadInv ==
  ASSUME Inv, NEW t \in Threads, Thread(t)
  PROVE  Inv'
<1>1. TypeOK'
  BY DEF Inv, TypeOK, Places, Jobs, States, Thread
<1>2. JobsFit'
  BY DEF Inv, TypeOK, JobsFit, Thread
<1>3. Starts'
  BY DEF Inv, TypeOK, JobsFit, Starts, Thread
<1>4. OneThread'
  BY DEF Inv, TypeOK, Starts, OneThread, Thread
<1>5. Alone'
  BY DEF Inv, TypeOK, OneThread, Alone, Thread
<1>6. CancelsTheLiving'
  BY DEF Inv, TypeOK, OneThread, Alone, CancelsTheLiving, Thread
<1>7. LedShowsState'
  BY DEF Inv, TypeOK, OneThread, Alone, LedShowsState, Thread
<1>. QED BY <1>1, <1>2, <1>3, <1>4, <1>5, <1>6, <1>7 DEF Inv

LEMMA CancelInv ==
  ASSUME Inv, NEW t \in Threads, Cancel(t)
  PROVE  Inv'
<1>1. TypeOK'
  BY DEF Inv, TypeOK, Places, Jobs, States, Cancel
<1>2. JobsFit'
  BY DEF Inv, TypeOK, JobsFit, Cancel
<1>3. Starts'
  BY DEF Inv, TypeOK, JobsFit, Starts, Cancel
<1>4. OneThread'
  BY DEF Inv, TypeOK, Starts, OneThread, Cancel
<1>5. Alone'
  BY DEF Inv, TypeOK, OneThread, Alone, Cancel
<1>6. CancelsTheLiving'
  BY DEF Inv, TypeOK, OneThread, Alone, CancelsTheLiving, Cancel
<1>7. LedShowsState'
  BY DEF Inv, TypeOK, OneThread, Alone, LedShowsState, Cancel
<1>. QED BY <1>1, <1>2, <1>3, <1>4, <1>5, <1>6, <1>7 DEF Inv

LEMMA ClearInv ==
  ASSUME Inv, NEW t \in Threads, Clear(t)
  PROVE  Inv'
<1>1. TypeOK'
  BY DEF Inv, TypeOK, Places, Jobs, States, Clear
<1>2. JobsFit'
  BY DEF Inv, TypeOK, JobsFit, Clear
<1>3. Starts'
  BY DEF Inv, TypeOK, JobsFit, Starts, Clear
<1>4. OneThread'
  BY DEF Inv, TypeOK, Starts, OneThread, Clear
<1>5. Alone'
  BY DEF Inv, TypeOK, OneThread, Alone, Clear
<1>6. CancelsTheLiving'
  BY DEF Inv, TypeOK, OneThread, Alone, CancelsTheLiving, Clear
<1>7. LedShowsState'
  BY DEF Inv, TypeOK, OneThread, Alone, LedShowsState, Clear
<1>. QED BY <1>1, <1>2, <1>3, <1>4, <1>5, <1>6, <1>7 DEF Inv

LEMMA OffInv ==
  ASSUME Inv, NEW t \in Threads, Off(t)
  PROVE  Inv'
<1>1. TypeOK'
  BY DEF Inv, TypeOK, Places, Jobs, States, Off, Other
<1>2. JobsFit'
  BY DEF Inv, TypeOK, JobsFit, Off, Other
<1>3. Starts'
  BY DEF Inv, TypeOK, JobsFit, Starts, Off, Other
<1>4. OneThread'
  BY DEF Inv, TypeOK, Starts, OneThread, Off, Other
<1>5. Alone'
  BY DEF Inv, TypeOK, OneThread, Alone, Off, Other
<1>6. CancelsTheLiving'
  BY DEF Inv, TypeOK, OneThread, Alone, CancelsTheLiving, Off, Other
<1>7. LedShowsState'
  BY DEF Inv, TypeOK, OneThread, Alone, LedShowsState, Off, Other
<1>. QED BY <1>1, <1>2, <1>3, <1>4, <1>5, <1>6, <1>7 DEF Inv

LEMMA ShowInv ==
  ASSUME Inv, NEW t \in Threads, Show(t)
  PROVE  Inv'
<1>1. TypeOK'
  <2>1. pc' \in [Threads -> Places] /\ UNCHANGED <<misc, job, state, shown, id, live, dying, made, touched, crossed, fault>>
    BY DEF Inv, TypeOK, Places, Show
  <2>2. colour' \subseteq {"R", "G"} /\ lit' \subseteq {"R", "G", "B"}
    BY DEF Inv, TypeOK, Show, Flashes, Colours
  <2>. QED BY <2>1, <2>2 DEF Inv, TypeOK
<1>2. JobsFit'
  BY DEF Inv, TypeOK, JobsFit, Show, Flashes, Colours
<1>3. Starts'
  BY DEF Inv, TypeOK, JobsFit, Starts, Show, Flashes, Colours
<1>4. OneThread'
  BY DEF Inv, TypeOK, Starts, OneThread, Show, Flashes, Colours
<1>5. Alone'
  BY DEF Inv, TypeOK, OneThread, Alone, Show, Flashes, Colours
<1>6. CancelsTheLiving'
  BY DEF Inv, TypeOK, OneThread, Alone, CancelsTheLiving, Show, Flashes, Colours
<1>7. LedShowsState'
  BY DEF Inv, TypeOK, OneThread, Alone, LedShowsState, Show, Flashes, Colours
<1>. QED BY <1>1, <1>2, <1>3, <1>4, <1>5, <1>6, <1>7 DEF Inv

\* Only main, once and with no flashing thread left, starts one.
LEMMA StartInv ==
  ASSUME Inv, NEW t \in Threads, Start(t)
  PROVE  Inv'
<1>1. /\ t = "main" /\ pc["main"] = "start" /\ Booting /\ state # "None"
      /\ made = 1 /\ id = 0 /\ live = dying /\ pc["schedule"] \notin {"cancel", "clear"}
      /\ 2 \notin live
  <2>1. t = "main" /\ pc["main"] = "start" /\ Booting
    BY DEF Inv, TypeOK, JobsFit, Starts, Start
  <2>2. state # "None" /\ made = 1 /\ id = 0 /\ pc["schedule"] \notin {"cancel", "clear"}
    BY <2>1 DEF Inv, Starts, OneThread
  <2>3. live \subseteq 1 .. 1 /\ dying \subseteq live /\ live \ dying \subseteq {0}
    BY <2>2 DEF Inv, TypeOK, OneThread
  <2>4. \A x \in live : x \in dying
    BY <2>3
  <2>5. live = dying
    BY <2>3, <2>4
  <2>6. 2 \notin live
    BY <2>3
  <2>. QED BY <2>1, <2>2, <2>5, <2>6
<1>2. /\ pc' = [pc EXCEPT !["main"] = "ready"] /\ ~fault
      /\ made' = 2 /\ id' = 2 /\ live' = live \cup {2}
      /\ UNCHANGED <<misc, job, state, shown, dying, colour, lit, touched, crossed, fault>>
  BY <1>1 DEF Start
<1>3. TypeOK'
  BY <1>1, <1>2 DEF Inv, TypeOK, Places
<1>4. JobsFit'
  BY <1>1, <1>2 DEF Inv, TypeOK, JobsFit
<1>5. Starts'
  BY <1>1, <1>2 DEF Inv, TypeOK, JobsFit, Starts
<1>6. OneThread'
  BY <1>1, <1>2 DEF Inv, TypeOK, OneThread
<1>7. Alone' /\ CancelsTheLiving'
  BY <1>1, <1>2 DEF Inv, TypeOK, Alone, CancelsTheLiving
<1>8. LedShowsState'
  BY <1>1, <1>2 DEF Inv, TypeOK, Alone, LedShowsState
<1>. QED BY <1>3, <1>4, <1>5, <1>6, <1>7, <1>8 DEF Inv

\* The loop of main changes its job only, outside of the calls.
LEMMA LoopInv ==
  ASSUME Inv, Loop
  PROVE  Inv'
<1>1. /\ ~fault /\ pc["main"] \notin Calling /\ UNCHANGED <<misc, led>>
      /\ pc' = [pc EXCEPT !["main"] = pc'["main"]]
      /\ pc'["main"] \in {"ready", "up0", "up1", "gone", "down0", "down1", "load"}
  BY DEF Inv, TypeOK, Loop, Ready, Up0, Up1, Gone, Down0, Down1
<1>2. \/ UNCHANGED job /\ pc'["main"] # "load"
      \/ job' = [job EXCEPT !["main"] = [flag |-> "ready", set |-> TRUE, led |-> "Wifi_Ready"]]
      \/ job' = [job EXCEPT !["main"] = [flag |-> "ready", set |-> FALSE, led |-> "Wifi_off"]]
  BY DEF Inv, TypeOK, Loop, Ready, Up0, Up1, Gone, Down0, Down1
<1>3. TypeOK'
  <2>1. /\ [flag |-> "ready", set |-> TRUE, led |-> "Wifi_Ready"] \in Jobs
        /\ [flag |-> "ready", set |-> FALSE, led |-> "Wifi_off"] \in Jobs
    BY DEF Jobs, States
  <2>2. job' \in [Threads -> Jobs]
    BY <1>2, <2>1 DEF Inv, TypeOK
  <2>3. pc' \in [Threads -> Places]
    BY <1>1 DEF Inv, TypeOK, Places
  <2>. QED BY <1>1, <2>2, <2>3 DEF Inv, TypeOK
<1>4. JobsFit'
  BY <1>1, <1>2 DEF Inv, TypeOK, JobsFit
<1>5. Starts'
  BY <1>1, <1>2 DEF Inv, TypeOK, Starts
<1>6. OneThread'
  BY <1>1 DEF Inv, TypeOK, OneThread
<1>7. Alone' /\ CancelsTheLiving'
  BY <1>1 DEF Inv, TypeOK, Alone, CancelsTheLiving
<1>8. LedShowsState'
  <2>1. pc["main"] \notin Setting /\ pc'["schedule"] = pc["schedule"]
    BY <1>1 DEF Inv, TypeOK
  <2>. QED BY <1>1, <2>1 DEF Inv, LedShowsState
<1>. QED BY <1>3, <1>4, <1>5, <1>6, <1>7, <1>8 DEF Inv

\* The other threads, and the interfaces.
LEMMA CommandInv ==
  ASSUME Inv, NEW f \in Flags, NEW b \in BOOLEAN, Command(f, b)
  PROVE  Inv'
<1>1. TypeOK'
  BY DEF Inv, TypeOK, Places, Jobs, States, Command
<1>2. JobsFit'
  BY DEF Inv, TypeOK, JobsFit, Command
<1>3. Starts'
  BY DEF Inv, TypeOK, JobsFit, Starts, Command
<1>4. OneThread'
  BY DEF Inv, TypeOK, OneThread, Command
<1>5. Alone' /\ CancelsTheLiving' /\ LedShowsState'
  BY DEF Inv, TypeOK, Alone, CancelsTheLiving, LedShowsState, Command
<1>. QED BY <1>1, <1>2, <1>3, <1>4, <1>5 DEF Inv

LEMMA DiagLedInv ==
  ASSUME Inv, NEW c \in Leds, NEW on \in BOOLEAN, DiagLed(c, on)
  PROVE  Inv'
<1>1. TypeOK'
  BY LedsAssumption DEF Inv, TypeOK, DiagLed
<1>2. JobsFit' /\ Starts'
  BY DEF Inv, TypeOK, JobsFit, Starts, DiagLed
<1>3. OneThread'
  BY DEF Inv, TypeOK, OneThread, DiagLed
<1>4. Alone' /\ CancelsTheLiving' /\ LedShowsState'
  BY DEF Inv, TypeOK, Alone, CancelsTheLiving, LedShowsState, DiagLed
<1>. QED BY <1>1, <1>2, <1>3, <1>4 DEF Inv

LEMMA LoadFailsInv ==
  ASSUME Inv, LoadFails
  PROVE  Inv'
<1>1. TypeOK'
  BY DEF Inv, TypeOK, Places, Jobs, States, LoadFails
<1>2. JobsFit'
  BY DEF Inv, TypeOK, JobsFit, LoadFails
<1>3. Starts'
  BY DEF Inv, TypeOK, JobsFit, Starts, LoadFails
<1>4. OneThread'
  BY DEF Inv, TypeOK, OneThread, LoadFails
<1>5. Alone' /\ CancelsTheLiving' /\ LedShowsState'
  BY DEF Inv, TypeOK, Alone, CancelsTheLiving, LedShowsState, LoadFails
<1>. QED BY <1>1, <1>2, <1>3, <1>4, <1>5 DEF Inv

LEMMA FlashInv ==
  ASSUME Inv, NEW i \in live, NEW on \in BOOLEAN, Flash(i, on)
  PROVE  Inv'
<1>1. TypeOK'
  BY DEF Inv, TypeOK, Places, Jobs, States, Flash, Flashes, Colours
<1>2. JobsFit'
  BY DEF Inv, TypeOK, JobsFit, Flash, Flashes, Colours
<1>3. Starts'
  BY DEF Inv, TypeOK, JobsFit, Starts, Flash, Flashes, Colours
<1>4. OneThread'
  BY DEF Inv, TypeOK, OneThread, Flash, Flashes, Colours
<1>5. Alone' /\ CancelsTheLiving' /\ LedShowsState'
  BY DEF Inv, TypeOK, Alone, CancelsTheLiving, LedShowsState, Flash, Flashes, Colours
<1>. QED BY <1>1, <1>2, <1>3, <1>4, <1>5 DEF Inv

\* A thread that ends was cancelled, so that the LED is not at rest.
LEMMA EndInv ==
  ASSUME Inv, NEW i \in dying, End(i)
  PROVE  Inv'
<1>1. TypeOK' /\ JobsFit' /\ Starts'
  BY DEF Inv, TypeOK, JobsFit, Starts, End
<1>2. OneThread'
  BY DEF Inv, TypeOK, OneThread, End
<1>3. Alone' /\ CancelsTheLiving'
  BY DEF Inv, TypeOK, Alone, CancelsTheLiving, End
<1>4. LedShowsState'
  <2> SUFFICES ASSUME ~crossed, state # "None", \A t \in Threads : pc[t] \notin Setting
               PROVE  LedShowsState'
    BY DEF LedShowsState, End
  <2>1. live # {} /\ ~fault
    BY DEF Inv, TypeOK, End
  <2>2. Flashes(state) /\ live = {id}
    BY <2>1 DEF Inv, LedShowsState
  <2>3. i = id /\ 0 \notin live
    BY <2>2 DEF Inv, TypeOK
  <2>4. id \in live \ dying
    BY <2>2, <2>3 DEF Inv, OneThread
  <2>. QED BY <2>3, <2>4
<1>. QED BY <1>1, <1>2, <1>3, <1>4 DEF Inv

LEMMA LinkInv ==
  ASSUME Inv, NEW l \in Links, Link(l)
  PROVE  Inv'
<1>1. TypeOK'
  BY DEF Inv, TypeOK, Places, Jobs, States, Link, Links
<1>2. JobsFit'
  BY DEF Inv, TypeOK, JobsFit, Link, Links
<1>3. Starts'
  BY DEF Inv, TypeOK, JobsFit, Starts, Link, Links
<1>4. OneThread'
  BY DEF Inv, TypeOK, OneThread, Link, Links
<1>5. Alone' /\ CancelsTheLiving' /\ LedShowsState'
  BY DEF Inv, TypeOK, Alone, CancelsTheLiving, LedShowsState, Link, Links
<1>. QED BY <1>1, <1>2, <1>3, <1>4, <1>5 DEF Inv

LEMMA StutterInv ==
  ASSUME Inv, UNCHANGED vars
  PROVE  Inv'
<1>1. TypeOK'
  BY DEF Inv, TypeOK, Places, Jobs, States, vars
<1>2. JobsFit'
  BY DEF Inv, TypeOK, JobsFit, vars
<1>3. Starts'
  BY DEF Inv, TypeOK, JobsFit, Starts, vars
<1>4. OneThread'
  BY DEF Inv, TypeOK, OneThread, vars
<1>5. Alone' /\ CancelsTheLiving' /\ LedShowsState'
  BY DEF Inv, TypeOK, Alone, CancelsTheLiving, LedShowsState, vars
<1>. QED BY <1>1, <1>2, <1>3, <1>4, <1>5 DEF Inv

LEMMA InitInv ==
  ASSUME Init
  PROVE  Inv
<1>1. TypeOK
  <2>1. pc \in [Threads -> Places] /\ copy \in [Threads -> SUBSET (Flags \cup {"ready"})]
    BY DEF Init, Places
  <2>2. job \in [Threads -> Jobs] /\ shown \in [Threads -> States]
    BY DEF Init, NoJob, Jobs, States
  <2>3. made \in 1 .. 2 /\ id \in {0, made} /\ live \subseteq 1 .. made
    BY DEF Init
  <2>. QED BY <2>1, <2>2, <2>3 DEF Init, TypeOK, States
<1>2. JobsFit /\ Starts
  BY DEF Init, NoJob, JobsFit, Starts
<1>3. OneThread /\ Alone /\ CancelsTheLiving /\ LedShowsState
  BY DEF Init, OneThread, Alone, CancelsTheLiving, LedShowsState
<1>. QED BY <1>1, <1>2, <1>3 DEF Inv

LEMMA Invariance == Spec => []Inv
<1>1. Inv /\ [Next]_vars => Inv'
  <2> SUFFICES ASSUME Inv, [Next]_vars PROVE Inv'
    OBVIOUS
  <2>1. CASE \E t \in Threads : Set(t)
    BY <2>1, LoadFlagsInv, StoreFlagsInv, TestInv, AllowedInv, AssignInv, SwitchInv,
       ThreadInv, CancelInv, ClearInv, OffInv, ShowInv, StartInv DEF Set
  <2>2. CASE Loop
    BY <2>2, LoopInv
  <2>3. CASE \E i \in live, on \in BOOLEAN : Flash(i, on)
    BY <2>3, FlashInv
  <2>4. CASE \E i \in dying : End(i)
    BY <2>4, EndInv
  <2>5. CASE \E f \in Flags, b \in BOOLEAN : Command(f, b)
    BY <2>5, CommandInv
  <2>6. CASE LoadFails
    BY <2>6, LoadFailsInv
  <2>7. CASE \E l \in Links : Link(l)
    BY <2>7, LinkInv
  <2>8. CASE \E c \in Leds, on \in BOOLEAN : DiagLed(c, on)
    BY <2>8, DiagLedInv
  <2>9. CASE UNCHANGED vars
    BY <2>9, StutterInv
  <2>. QED BY <2>1, <2>2, <2>3, <2>4, <2>5, <2>6, <2>7, <2>8, <2>9 DEF Next
<1>. QED BY <1>1, InitInv, PTL DEF Spec
-----------------------------------------------------------------------------
\* At most two threads ever flash, and m_thread_id is the last of them or 0.
THEOREM TypeCorrect == Spec => []TypeOK
<1>1. Inv => TypeOK
  BY DEF Inv
<1>. QED BY <1>1, Invariance, PTL

\* pthread_cancel in Pattern_Set finds its thread alive, unless two calls cross.
THEOREM CancelsTheLivingAlways == Spec => []CancelsTheLiving
<1>1. Inv => CancelsTheLiving
  BY DEF Inv
<1>. QED BY <1>1, Invariance, PTL

\* A call of state_Set that crosses no other one leaves the LED as its state says,
\* whatever calls that crossed and diag commands left behind; a diag command that comes
\* later changes the colours it writes, and not the others nor what flashes.
THEOREM LedShowsStateAlways == Spec => []LedShowsState
<1>1. Inv => LedShowsState
  BY DEF Inv
<1>. QED BY <1>1, Invariance, PTL
=============================================================================
