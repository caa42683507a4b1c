----------------------------- MODULE AccelProofs -----------------------------
(* Proofs about Accel: for every choice of rates and events, whatever         *)
(* register access fails, an event is served, an unused device is off, a      *)
(* stream flows and the temperature is polled.                                *)
EXTENDS Accel, TLAPS

Cancels == {"cancel", "wait", "untimer"}

\* What the call in progress is about.
Calls ==
  /\ pc = "idle" => target = "none"
  /\ pc = "read" => target \in Sensors
  /\ pc \in Cancels => target \in {"TEMP", "suspend"}
  /\ pc = "suspend" => target = "suspend"
  /\ target = "suspend" => pc # "read" /\ pm = "on"
  /\ pm \in {"suspended", "removed"} => pc = "idle"
  /\ cancelling <=> pc = "wait"

\* What was configured is in the mask and in the cache, and the cache is the device's
\* unless a suspend or a resume went wrong.
Configured ==
  /\ \A e \in Events \ failed : e \in events <=> e \in cached
  /\ failed = {} => (reqOdr = EventOdr <=> events # {})
  /\ pm # "suspended" /\ ~pmFailed => ints = cached /\ writer # "wakeup"

\* The sensors that stay enabled when the call in progress has ended.
Remaining == IF pc \in Cancels THEN enabled \ {target} ELSE enabled

\* What is in CTRL1, by who wrote it.
Sampling ==
  /\ failed = {} /\ writer # "sync" => rate >= reqOdr
  /\ writer = "sync" => rate = 0
  /\ failed = {} /\ events = {} /\ Remaining = {} /\ writer \in {"zero", "sensor", "event"} => rate = 0

\* A sensor with a buffer is enabled, and no call in progress disables it.
Streaming ==
  /\ buffer \subseteq enabled
  /\ target \notin buffer
  /\ "ACC" \in buffer /\ pm = "on" /\ ~pmFailed => fifo

\* The rate suits every stream, unless CTRL1 was last written for something else.
Paced ==
  /\ odr["ACC"] > 0
  /\ "TEMP" \in buffer /\ pm # "undefined" => odr["TEMP"] > 0
  /\ pm = "on" /\ ~pmFailed => \A s \in buffer :
       /\ writer # "zero" => rate > 0
       /\ writer \notin {"zero", "event"} => rate >= Clamp(odr[s])

\* The chain from the timer to the work item and back is broken by a suspend only.
Chain ==
  /\ "TEMP" \in buffer /\ ~halted /\ pm = "on" /\ target # "suspend" =>
       timer \/ pending \/ working = "begin"
  /\ pc = "suspend" \/ pm = "suspended" => halted

Inv == TypeOK /\ Calls /\ Configured /\ Sampling /\ Streaming /\ Paced /\ Chain
-----------------------------------------------------------------------------
\* What set_odr writes is a rate the device has, fast enough for the events, and
\* no more than that for the rate zero.
LEMMA SetOdrFine ==
  ASSUME TypeOK, NEW s \in Sensors, NEW r \in Nat, NEW req \in {0, EventOdr}
  PROVE  /\ SetOdr(s, r, req) \in 0 .. 100
         /\ SetOdr(s, r, req) >= req
         /\ SetOdr(s, 0, req) = req
<1>1. SetOdr(s, 0, req) = req
  BY DEF SetOdr
<1>2. ASSUME NEW n \in Nat PROVE Larger(req, Clamp(n)) \in 0 .. 100 /\ Larger(req, Clamp(n)) >= req
  BY DEF Larger, Clamp, EventOdr
<1>3. CASE enabled \ {s} = {}
  BY <1>1, <1>2, <1>3 DEF SetOdr, EventOdr
<1>4. CASE enabled \ {s} # {}
  <2> DEFINE other == enabled \ {s}
             t == CHOOSE u \in other : TRUE
  <2>1. odr[t] \in Nat
    BY <1>4 DEF TypeOK
  <2>2. Larger(r, odr[t]) \in Nat
    BY <2>1 DEF Larger
  <2>3. Larger(req, Clamp(Larger(r, odr[t]))) \in 0 .. 100 /\ Larger(req, Clamp(Larger(r, odr[t]))) >= req
    BY <2>2, <1>2
  <2>. QED BY <1>1, <1>4, <2>3 DEF SetOdr, EventOdr
<1>. QED BY <1>3, <1>4

LEMMA OwnRate ==
  ASSUME TypeOK, NEW s \in Sensors
  PROVE  SetOdr(s, odr[s], reqOdr) \in 0 .. 100 /\ SetOdr(s, odr[s], reqOdr) >= reqOdr
<1>1. odr[s] \in Nat
  BY DEF TypeOK
<1>. QED BY <1>1, SetOdrFine DEF TypeOK

\* ... and fast enough for the sensor, and for the other one if that is enabled.
LEMMA FastEnough ==
  ASSUME TypeOK, NEW t \in Sensors, NEW r \in Nat \ {0}, NEW req \in {0, EventOdr}
  PROVE  /\ SetOdr(t, r, req) > 0
         /\ SetOdr(t, r, req) >= Clamp(r)
         /\ \A s \in enabled \ {t} : SetOdr(t, r, req) >= Clamp(odr[s])
<1>1. ASSUME NEW n \in Nat, n >= r
      PROVE  Larger(req, Clamp(n)) > 0 /\ Larger(req, Clamp(n)) >= Clamp(r) /\ Larger(req, Clamp(n)) >= Clamp(n)
  BY <1>1 DEF Larger, Clamp, EventOdr
<1>2. CASE enabled \ {t} = {}
  BY <1>1, <1>2 DEF SetOdr
<1>3. CASE enabled \ {t} # {}
  <2> DEFINE other == enabled \ {t}
             u == CHOOSE v \in other : TRUE
  <2>1. u \in other /\ other = {u}
    BY <1>3 DEF TypeOK, Sensors
  <2>2. odr[u] \in Nat
    BY <2>1 DEF TypeOK
  <2>3. SetOdr(t, r, req) = Larger(req, Clamp(Larger(r, odr[u])))
    BY <1>3 DEF SetOdr
  <2>4. Larger(r, odr[u]) \in Nat /\ Larger(r, odr[u]) >= r /\ Larger(r, odr[u]) >= odr[u]
    BY <2>2 DEF Larger
  <2>5. Clamp(Larger(r, odr[u])) >= Clamp(odr[u])
    BY <2>2, <2>4 DEF Clamp
  <2>6. Larger(req, Clamp(Larger(r, odr[u]))) >= Clamp(odr[u])
    BY <2>2, <2>4, <2>5 DEF Larger, Clamp, EventOdr
  <2>. QED BY <1>1, <2>1, <2>3, <2>4, <2>6
<1>. QED BY <1>2, <1>3

LEMMA NoRate ==
  ASSUME NEW s, NEW req
  PROVE  SetOdr(s, 0, req) = req
BY DEF SetOdr

-----------------------------------------------------------------------------
\* A rate is stored and nothing written.
LEMMA SetFrequencyInv ==
  ASSUME Inv, NEW s \in Sensors, NEW r \in Rates[s], SetFrequency(s, r)
  PROVE  Inv'
<1>. USE DEF Inv, SetFrequency, Direct, Idle, device, demand, poll, history, Cancels
<1>1. TypeOK' /\ Calls'
  BY AccelAssumption DEF TypeOK, Calls, OdrTable, Sensors
<1>2. Configured' /\ Sampling' /\ Streaming'
  BY DEF Calls, Configured, Sampling, Remaining, Streaming
<1>3. Chain'
  BY DEF TypeOK, Calls, Streaming, Chain
<1>4. Paced'
  <2>1. s = "ACC" => r > 0
    BY AccelAssumption DEF OdrTable, Sensors
  <2>2. odr'[s] = r /\ \A t \in Sensors \ {s} : odr'[t] = odr[t]
    BY DEF TypeOK
  <2>3. s \notin buffer /\ buffer \subseteq Sensors
    BY DEF TypeOK
  <2>. QED BY <2>1, <2>2, <2>3 DEF Paced, Sensors
<1>. QED BY <1>1, <1>2, <1>3, <1>4

\* A buffer is switched on, with its sensor or not at all.
LEMMA EnableInv ==
  ASSUME Inv, NEW s \in Sensors, Enable(s)
  PROVE  Inv'
<1>. USE DEF Inv, Enable, Start, SetSensorOdr, WriteOdr, Idle, device, demand, poll, history, Cancels
<1>0. SetOdr(s, odr[s], reqOdr) \in 0 .. 100 /\ SetOdr(s, odr[s], reqOdr) >= reqOdr
  BY OwnRate
<1>1. TypeOK'
  <2>1. buffer' \subseteq Sensors /\ enabled' \subseteq Sensors
    BY DEF TypeOK, Calls
  <2>2. odr' \in [Sensors -> Nat] /\ reqOdr' \in {0, EventOdr} /\ events' \subseteq Events
    BY DEF TypeOK
  <2>3. rate' \in 0 .. 100
    BY <1>0 DEF TypeOK, EventOdr
  <2>4. ints' \subseteq Events \cup {"WAKEUP"} /\ cached' \subseteq Events
    BY DEF TypeOK
  <2>5. fifo' \in BOOLEAN /\ timer' \in BOOLEAN /\ halted' \in BOOLEAN
    BY DEF TypeOK
  <2>6. /\ pending' \in BOOLEAN /\ cancelling' \in BOOLEAN /\ working' \in {"no", "begin", "read"}
        /\ pc' \in {"idle", "read", "cancel", "wait", "untimer", "suspend"}
        /\ target' \in Sensors \cup {"none", "suspend"}
        /\ pm' \in {"on", "suspended", "removed", "undefined"}
    BY DEF TypeOK, Sensors
  <2>7. /\ writer' \in {"zero", "sensor", "event", "selftest", "wakeup", "sync"}
        /\ failed' \subseteq Events /\ pmFailed' \in BOOLEAN
    BY DEF TypeOK
  <2>. QED BY <2>1, <2>2, <2>3, <2>4, <2>5, <2>6, <2>7 DEF TypeOK
<1>2. Calls'
  BY <1>0 DEF Calls, TypeOK, Sensors, EventOdr
<1>3. Configured'
  BY <1>0 DEF Configured, TypeOK, Calls, Sensors, EventOdr
<1>4. Sampling'
  BY <1>0 DEF Sampling, Remaining, TypeOK, Calls, Configured, Sensors, EventOdr
<1>5. Streaming'
  BY <1>0 DEF Streaming, Calls, TypeOK, Sensors, EventOdr
<1>6. Chain'
  <2>1. CASE s = "TEMP" /\ Start(s)
    <3>1. timer' = TRUE
      BY <2>1
    <3>. QED BY <2>1, <3>1 DEF Chain, Calls
  <2>2. CASE s = "ACC" /\ Start(s)
    <3>1. timer' = timer /\ halted' = halted
      BY <2>2 DEF TypeOK
    <3>. QED BY <2>2, <3>1 DEF Chain, TypeOK
  <2>3. CASE ~Start(s)
    BY <2>3 DEF Chain
  <2>. QED BY <2>1, <2>2, <2>3 DEF Sensors
<1>7. Paced'
  <2>1. CASE Start(s) /\ odr[s] # 0
    <3>1. odr[s] \in Nat \ {0}
      BY <2>1 DEF TypeOK
    <3>2. /\ SetOdr(s, odr[s], reqOdr) > 0
          /\ \A t \in enabled \cup {s} : SetOdr(s, odr[s], reqOdr) >= Clamp(odr[t])
      BY <3>1, FastEnough DEF TypeOK
    <3>3. rate' = SetOdr(s, odr[s], reqOdr) /\ UNCHANGED <<odr, pmFailed>> /\ pm = "on"
      BY <2>1
    <3>4. buffer' \subseteq enabled \cup {s} /\ ("TEMP" \in buffer' => odr["TEMP"] > 0)
      BY <2>1, <3>1 DEF Paced, Streaming
    <3>5. \A t \in buffer' : rate' > 0 /\ rate' >= Clamp(odr[t])
      BY <3>2, <3>3, <3>4
    <3>. QED BY <3>3, <3>4, <3>5 DEF Paced
  <2>2. CASE Start(s) /\ odr[s] = 0
    BY <2>2 DEF Paced, TypeOK, Sensors
  <2>3. CASE ~Start(s)
    BY <2>3 DEF Paced
  <2>. QED BY <2>1, <2>2, <2>3
<1>. QED BY <1>1, <1>2, <1>3, <1>4, <1>5, <1>6, <1>7

\* A buffer is switched off even if its sensor stays enabled.
LEMMA DisableInv ==
  ASSUME Inv, NEW s \in Sensors, Disable(s)
  PROVE  Inv'
<1>. USE DEF Inv, Disable, Stop, Done, SetSensorOdr, WriteOdr, Idle, device, demand, poll, history, Cancels
<1>0. SetOdr(s, 0, reqOdr) = reqOdr
  BY NoRate
<1>1. TypeOK'
  <2>1. buffer' \subseteq Sensors /\ enabled' \subseteq Sensors
    BY DEF TypeOK, Calls
  <2>2. odr' \in [Sensors -> Nat] /\ reqOdr' \in {0, EventOdr} /\ events' \subseteq Events
    BY DEF TypeOK
  <2>3. rate' \in 0 .. 100
    BY <1>0 DEF TypeOK, EventOdr
  <2>4. ints' \subseteq Events \cup {"WAKEUP"} /\ cached' \subseteq Events
    BY DEF TypeOK
  <2>5. fifo' \in BOOLEAN /\ timer' \in BOOLEAN /\ halted' \in BOOLEAN
    BY DEF TypeOK
  <2>6. /\ pending' \in BOOLEAN /\ cancelling' \in BOOLEAN /\ working' \in {"no", "begin", "read"}
        /\ pc' \in {"idle", "read", "cancel", "wait", "untimer", "suspend"}
        /\ target' \in Sensors \cup {"none", "suspend"}
        /\ pm' \in {"on", "suspended", "removed", "undefined"}
    BY DEF TypeOK, Sensors
  <2>7. /\ writer' \in {"zero", "sensor", "event", "selftest", "wakeup", "sync"}
        /\ failed' \subseteq Events /\ pmFailed' \in BOOLEAN
    BY DEF TypeOK
  <2>. QED BY <2>1, <2>2, <2>3, <2>4, <2>5, <2>6, <2>7 DEF TypeOK
<1>2. Calls'
  BY <1>0 DEF Calls, TypeOK, Sensors, EventOdr
<1>3. Configured'
  BY <1>0 DEF Configured, TypeOK, Calls, Sensors, EventOdr
<1>4. Sampling'
  BY <1>0 DEF Sampling, Remaining, TypeOK, Calls, Configured, Sensors, EventOdr
<1>5. Streaming'
  BY <1>0 DEF Streaming, Calls, TypeOK, Sensors, EventOdr
<1>6. Chain'
  BY <1>0 DEF Chain, Calls, Streaming, TypeOK, Sensors, EventOdr
<1>7. Paced'
  BY <1>0 DEF Paced, TypeOK, Calls
<1>. QED BY <1>1, <1>2, <1>3, <1>4, <1>5, <1>6, <1>7

\* A one-shot read enables a sensor that has no buffer.
LEMMA ReadStartInv ==
  ASSUME Inv, NEW s \in Sensors, ReadStart(s)
  PROVE  Inv'
<1>. USE DEF Inv, ReadStart, Direct, Start, SetSensorOdr, WriteOdr, Idle, device, demand, poll, history, Cancels
<1>0. SetOdr(s, odr[s], reqOdr) \in 0 .. 100 /\ SetOdr(s, odr[s], reqOdr) >= reqOdr
  BY OwnRate
<1>1. TypeOK'
  BY <1>0 DEF TypeOK, Calls, Sensors, EventOdr
<1>2. Calls'
  BY <1>0 DEF Calls, TypeOK, Sensors, EventOdr
<1>3. Configured'
  BY <1>0 DEF Configured, TypeOK, Calls, Sensors, EventOdr
<1>4. Sampling'
  BY <1>0 DEF Sampling, Remaining, TypeOK, Calls, Configured, Sensors, EventOdr
<1>5. Streaming'
  BY <1>0 DEF Streaming, Calls, TypeOK, Sensors, EventOdr
<1>6. Chain'
  BY <1>0 DEF Chain, Calls, Streaming, TypeOK, Sensors, EventOdr
<1>7. Paced'
  <2>1. CASE Start(s) /\ odr[s] # 0
    <3>1. odr[s] \in Nat \ {0}
      BY <2>1 DEF TypeOK
    <3>2. /\ SetOdr(s, odr[s], reqOdr) > 0
          /\ \A t \in enabled \cup {s} : SetOdr(s, odr[s], reqOdr) >= Clamp(odr[t])
      BY <3>1, FastEnough DEF TypeOK
    <3>. QED BY <2>1, <3>2 DEF Paced, Streaming, Sensors, TypeOK
  <2>2. CASE Start(s) /\ odr[s] = 0
    BY <2>2 DEF Paced, TypeOK, Sensors
  <2>. QED BY <2>1, <2>2
<1>. QED BY <1>1, <1>2, <1>3, <1>4, <1>5, <1>6, <1>7

\* It disables the sensor, or leaves it enabled.
LEMMA ReadEndInv ==
  ASSUME Inv, ReadEnd
  PROVE  Inv'
<1>. USE DEF Inv, ReadEnd, Stop, Done, SetSensorOdr, WriteOdr, device, demand, poll, history, Cancels
<1>0. SetOdr(target, 0, reqOdr) = reqOdr
  BY NoRate
<1>1. TypeOK'
  <2>1. buffer' \subseteq Sensors /\ enabled' \subseteq Sensors
    BY DEF TypeOK, Calls
  <2>2. odr' \in [Sensors -> Nat] /\ reqOdr' \in {0, EventOdr} /\ events' \subseteq Events
    BY DEF TypeOK
  <2>3. rate' \in 0 .. 100
    BY <1>0 DEF TypeOK, EventOdr
  <2>4. ints' \subseteq Events \cup {"WAKEUP"} /\ cached' \subseteq Events
    BY DEF TypeOK
  <2>5. fifo' \in BOOLEAN /\ timer' \in BOOLEAN /\ halted' \in BOOLEAN
    BY DEF TypeOK
  <2>6. /\ pending' \in BOOLEAN /\ cancelling' \in BOOLEAN /\ working' \in {"no", "begin", "read"}
        /\ pc' \in {"idle", "read", "cancel", "wait", "untimer", "suspend"}
        /\ target' \in Sensors \cup {"none", "suspend"}
        /\ pm' \in {"on", "suspended", "removed", "undefined"}
    BY DEF TypeOK, Sensors
  <2>7. /\ writer' \in {"zero", "sensor", "event", "selftest", "wakeup", "sync"}
        /\ failed' \subseteq Events /\ pmFailed' \in BOOLEAN
    BY DEF TypeOK
  <2>. QED BY <2>1, <2>2, <2>3, <2>4, <2>5, <2>6, <2>7 DEF TypeOK
<1>2. Calls'
  BY <1>0 DEF Calls, TypeOK, Sensors, EventOdr
<1>3. Configured'
  BY <1>0 DEF Configured, TypeOK, Calls, Sensors, EventOdr
<1>4. Sampling'
  BY <1>0 DEF Sampling, Remaining, TypeOK, Calls, Configured, Sensors, EventOdr
<1>5. Streaming'
  BY <1>0 DEF Streaming, Calls, TypeOK, Sensors, EventOdr
<1>6. Chain'
  BY <1>0 DEF Chain, Calls, Streaming, TypeOK, Sensors, EventOdr
<1>7. Paced'
  BY <1>0 DEF Paced, TypeOK, Calls
<1>. QED BY <1>1, <1>2, <1>3, <1>4, <1>5, <1>6, <1>7

\* The self test ends by disabling the accelerometer, or half-way.
LEMMA SelfTestInv ==
  ASSUME Inv, SelfTest
  PROVE  Inv'
<1>. USE DEF Inv, SelfTest, Direct, Stop, Done, SetSensorOdr, WriteOdr, Idle, SelfTestOdr, device, demand, poll, history, Cancels
<1>0. SetOdr("ACC", 0, reqOdr) = reqOdr /\ SetOdr("ACC", 50, reqOdr) \in 0 .. 100 /\ SetOdr("ACC", 50, reqOdr) >= reqOdr
  BY NoRate, SetOdrFine DEF TypeOK, Sensors
<1>1. TypeOK'
  <2>1. buffer' \subseteq Sensors /\ enabled' \subseteq Sensors
    BY DEF TypeOK, Calls
  <2>2. odr' \in [Sensors -> Nat] /\ reqOdr' \in {0, EventOdr} /\ events' \subseteq Events
    BY DEF TypeOK
  <2>3. rate' \in 0 .. 100
    BY <1>0 DEF TypeOK, EventOdr
  <2>4. ints' \subseteq Events \cup {"WAKEUP"} /\ cached' \subseteq Events
    BY DEF TypeOK
  <2>5. fifo' \in BOOLEAN /\ timer' \in BOOLEAN /\ halted' \in BOOLEAN
    BY DEF TypeOK
  <2>6. /\ pending' \in BOOLEAN /\ cancelling' \in BOOLEAN /\ working' \in {"no", "begin", "read"}
        /\ pc' \in {"idle", "read", "cancel", "wait", "untimer", "suspend"}
        /\ target' \in Sensors \cup {"none", "suspend"}
        /\ pm' \in {"on", "suspended", "removed", "undefined"}
    BY DEF TypeOK, Sensors
  <2>7. /\ writer' \in {"zero", "sensor", "event", "selftest", "wakeup", "sync"}
        /\ failed' \subseteq Events /\ pmFailed' \in BOOLEAN
    BY DEF TypeOK
  <2>. QED BY <2>1, <2>2, <2>3, <2>4, <2>5, <2>6, <2>7 DEF TypeOK
<1>2. Calls'
  BY <1>0 DEF Calls, TypeOK, Sensors, EventOdr
<1>3. Configured'
  BY <1>0 DEF Configured, TypeOK, Calls, Sensors, EventOdr
<1>4. Sampling'
  BY <1>0 DEF Sampling, Remaining, TypeOK, Calls, Configured, Sensors, EventOdr
<1>5. Streaming'
  BY <1>0 DEF Streaming, Calls, TypeOK, Sensors, EventOdr
<1>6. Chain'
  BY <1>0 DEF Chain, Calls, Streaming, TypeOK, Sensors, EventOdr
<1>7. Paced'
  <2>1. \A t \in enabled \ {"ACC"} : SetOdr("ACC", 50, reqOdr) > 0 /\ SetOdr("ACC", 50, reqOdr) >= Clamp(odr[t])
    BY FastEnough DEF TypeOK, Sensors
  <2>. QED BY <2>1 DEF Paced, Streaming, TypeOK
<1>. QED BY <1>1, <1>2, <1>3, <1>4, <1>5, <1>6, <1>7

\* An event is configured, or its configuration fails half-way.
LEMMA ConfigEventInv ==
  ASSUME Inv, NEW e \in Events, NEW on \in BOOLEAN, ConfigEvent(e, on)
  PROVE  Inv'
<1>. USE DEF Inv, ConfigEvent, EventsOdr, WriteOdr, Idle, device, demand, poll, history, Cancels
<1>0. /\ reqOdr' \in {0, EventOdr}
      /\ SetOdr("ACC", reqOdr', reqOdr') \in 0 .. 100
      /\ SetOdr("ACC", reqOdr', reqOdr') >= reqOdr'
      /\ SetOdr("ACC", 0, 0) = 0
  <2>1. reqOdr' \in {0, EventOdr} /\ reqOdr' \in Nat
    BY DEF EventsOdr, EventOdr
  <2>. QED BY <2>1, SetOdrFine, NoRate DEF Sensors
<1>1. TypeOK'
  <2>1. buffer' \subseteq Sensors /\ enabled' \subseteq Sensors
    BY DEF TypeOK, Calls
  <2>2. odr' \in [Sensors -> Nat] /\ reqOdr' \in {0, EventOdr} /\ events' \subseteq Events
    BY DEF TypeOK
  <2>3. rate' \in 0 .. 100
    BY <1>0 DEF TypeOK, EventOdr
  <2>4. ints' \subseteq Events \cup {"WAKEUP"} /\ cached' \subseteq Events
    BY DEF TypeOK
  <2>5. fifo' \in BOOLEAN /\ timer' \in BOOLEAN /\ halted' \in BOOLEAN
    BY DEF TypeOK
  <2>6. /\ pending' \in BOOLEAN /\ cancelling' \in BOOLEAN /\ working' \in {"no", "begin", "read"}
        /\ pc' \in {"idle", "read", "cancel", "wait", "untimer", "suspend"}
        /\ target' \in Sensors \cup {"none", "suspend"}
        /\ pm' \in {"on", "suspended", "removed", "undefined"}
    BY DEF TypeOK, Sensors
  <2>7. /\ writer' \in {"zero", "sensor", "event", "selftest", "wakeup", "sync"}
        /\ failed' \subseteq Events /\ pmFailed' \in BOOLEAN
    BY DEF TypeOK
  <2>. QED BY <2>1, <2>2, <2>3, <2>4, <2>5, <2>6, <2>7 DEF TypeOK
<1>2. Calls'
  BY <1>0 DEF Calls, TypeOK, Sensors, EventOdr
<1>3. Configured'
  BY <1>0 DEF Configured, TypeOK, Calls, Sensors, EventOdr
<1>4. Sampling'
  BY <1>0 DEF Sampling, Remaining, TypeOK, Calls, Configured, Sensors, EventOdr
<1>5. Streaming'
  BY <1>0 DEF Streaming, Calls, TypeOK, Sensors, EventOdr
<1>6. Chain'
  BY <1>0 DEF Chain, Calls, Streaming, TypeOK, Sensors, EventOdr
<1>7. Paced'
  BY <1>0 DEF Paced, TypeOK, EventOdr
<1>. QED BY <1>1, <1>2, <1>3, <1>4, <1>5, <1>6, <1>7

\* The polling of the temperature: a step hands the poll on.
LEMMA TimerFiresInv ==
  ASSUME Inv, TimerFires
  PROVE  Inv'
<1>. USE DEF Inv, TimerFires, device, demand, poll, history, Cancels
<1>1. TypeOK' /\ Calls'
  <2>1. TypeOK'
    BY ZenonT(60) DEF TypeOK, Calls, Sensors, EventOdr
  <2>2. Calls'
    BY DEF Calls
  <2>. QED BY <2>1, <2>2
<1>2. Configured' /\ Sampling' /\ Streaming' /\ Paced'
  BY DEF Calls, Configured, Sampling, Remaining, Streaming, Paced
<1>3. Chain'
  BY DEF TypeOK, Calls, Streaming, Chain
<1>. QED BY <1>1, <1>2, <1>3

LEMMA WorkBeginsInv ==
  ASSUME Inv, WorkBegins
  PROVE  Inv'
<1>. USE DEF Inv, WorkBegins, device, demand, poll, history, Cancels
<1>1. TypeOK' /\ Calls'
  BY ZenonT(60) DEF TypeOK, Calls, Sensors
<1>2. Configured' /\ Sampling' /\ Streaming' /\ Paced'
  BY DEF Calls, Configured, Sampling, Remaining, Streaming, Paced
<1>3. Chain'
  BY DEF TypeOK, Calls, Streaming, Chain
<1>. QED BY <1>1, <1>2, <1>3

LEMMA WorkArmsInv ==
  ASSUME Inv, WorkArms
  PROVE  Inv'
<1>. USE DEF Inv, WorkArms, device, demand, poll, history, Cancels
<1>1. TypeOK' /\ Calls'
  BY DEF TypeOK, Calls, Sensors
<1>2. Configured' /\ Sampling' /\ Streaming' /\ Paced'
  BY DEF Calls, Configured, Sampling, Remaining, Streaming, Paced
<1>3. Chain'
  BY DEF TypeOK, Calls, Streaming, Chain
<1>. QED BY <1>1, <1>2, <1>3

LEMMA WorkReadsInv ==
  ASSUME Inv, WorkReads
  PROVE  Inv'
<1>. USE DEF Inv, WorkReads, device, demand, poll, history, Cancels
<1>1. TypeOK' /\ Calls'
  BY DEF TypeOK, Calls, Sensors
<1>2. Configured' /\ Sampling' /\ Streaming' /\ Paced'
  BY DEF Calls, Configured, Sampling, Remaining, Streaming, Paced
<1>3. Chain'
  BY DEF TypeOK, Calls, Streaming, Chain
<1>. QED BY <1>1, <1>2, <1>3

\* Cancelling it: the buffer is off, or a suspend is what cancels.
LEMMA CancelWorkInv ==
  ASSUME Inv, CancelWork
  PROVE  Inv'
<1>. USE DEF Inv, CancelWork, device, demand, poll, history, Cancels
<1>1. TypeOK' /\ Calls'
  BY ZenonT(60) DEF TypeOK, Calls, Sensors
<1>2. Configured' /\ Sampling' /\ Streaming' /\ Paced'
  BY DEF Calls, Configured, Sampling, Remaining, Streaming, Paced
<1>3. Chain'
  BY DEF TypeOK, Calls, Streaming, Chain
<1>. QED BY <1>1, <1>2, <1>3

LEMMA WaitWorkInv ==
  ASSUME Inv, WaitWork
  PROVE  Inv'
<1>. USE DEF Inv, WaitWork, device, demand, poll, history, Cancels
<1>1. TypeOK' /\ Calls'
  BY ZenonT(60) DEF TypeOK, Calls, Sensors
<1>2. Configured' /\ Sampling' /\ Streaming' /\ Paced'
  BY DEF Calls, Configured, Sampling, Remaining, Streaming, Paced
<1>3. Chain'
  BY DEF TypeOK, Calls, Streaming, Chain
<1>. QED BY <1>1, <1>2, <1>3

LEMMA CancelTimerInv ==
  ASSUME Inv, CancelTimer
  PROVE  Inv'
<1>. USE DEF Inv, CancelTimer, Done, device, demand, poll, history, Cancels
<1>1. TypeOK' /\ Calls'
  BY ZenonT(60) DEF TypeOK, Calls, Sensors
<1>2. Configured' /\ Sampling' /\ Streaming' /\ Paced'
  <2>1. Configured'
    BY DEF Configured
  <2>2. Sampling'
    BY DEF Calls, TypeOK, Sampling, Remaining
  <2>3. Streaming'
    BY DEF TypeOK, Calls, Sensors, Streaming
  <2>4. Paced'
    BY DEF Paced
  <2>. QED BY <2>1, <2>2, <2>3, <2>4
<1>3. Chain'
  BY DEF TypeOK, Calls, Streaming, Chain
<1>. QED BY <1>1, <1>2, <1>3

\* Suspend, resume and remove.
LEMMA SuspendStartInv ==
  ASSUME Inv, SuspendStart
  PROVE  Inv'
<1>. USE DEF Inv, SuspendStart, Idle, device, demand, poll, history, Cancels
<1>1. TypeOK' /\ Calls'
  BY DEF TypeOK, Calls, Sensors
<1>2. Configured' /\ Sampling' /\ Streaming' /\ Paced'
  <2>1. Configured'
    BY DEF Configured
  <2>2. Sampling'
    BY DEF Calls, TypeOK, Configured, Sampling, Remaining, Sensors, EventOdr
  <2>3. Streaming'
    BY DEF TypeOK, Calls, Sensors, Streaming
  <2>4. Paced'
    BY DEF Paced
  <2>. QED BY <2>1, <2>2, <2>3, <2>4
<1>3. Chain'
  BY DEF TypeOK, Calls, Streaming, Chain
<1>. QED BY <1>1, <1>2, <1>3

LEMMA SuspendDeviceInv ==
  ASSUME Inv, SuspendDevice
  PROVE  Inv'
<1>. USE DEF Inv, SuspendDevice, WakeUps, WakeUpOdr, Done, SetSensorOdr, WriteOdr, device, demand, poll, history, Cancels
<1>0. SetOdr("TEMP", 0, reqOdr) = reqOdr
  BY NoRate
<1>1. TypeOK'
  BY <1>0 DEF TypeOK, Calls, Sensors, EventOdr
<1>2. Calls'
  BY <1>0 DEF Calls, TypeOK, Sensors, EventOdr
<1>3. Configured'
  BY <1>0 DEF Configured, TypeOK, Calls, Sensors, EventOdr
<1>4. Sampling'
  BY <1>0 DEF Sampling, Remaining, TypeOK, Calls, Configured, Sensors, EventOdr
<1>5. Streaming'
  BY <1>0 DEF Streaming, Calls, TypeOK, Sensors, EventOdr
<1>6. Chain'
  BY <1>0 DEF Chain, Calls, Streaming, TypeOK, Sensors, EventOdr
<1>7. Paced'
  BY DEF Paced, Calls
<1>. QED BY <1>1, <1>2, <1>3, <1>4, <1>5, <1>6, <1>7

LEMMA ResumeInv ==
  ASSUME Inv, Resume
  PROVE  Inv'
<1>. USE DEF Inv, Resume, Syncs, SetSensorOdr, WriteOdr, device, demand, poll, history, Cancels
<1>1. \A t \in Sensors : SetOdr(t, odr[t], reqOdr) \in 0 .. 100 /\ SetOdr(t, odr[t], reqOdr) >= reqOdr
  BY OwnRate
<1>2. TypeOK' /\ Calls'
  <2>1. TypeOK'
    BY <1>1 DEF TypeOK, Calls, Sensors, EventOdr
  <2>2. Calls'
    BY DEF Calls, TypeOK, Sensors, EventOdr
  <2>. QED BY <2>1, <2>2
<1>. PICK y \in Syncs, set \in SUBSET enabled, fifoOk \in BOOLEAN : Resume!2!(y, set, fifoOk)
  OBVIOUS
<1>3. set = {} => rate' = y.rate /\ writer' = y.writer
  OBVIOUS
<1>4. set # {} => rate' \in 0 .. 100 /\ rate' >= reqOdr /\ writer' \in {"zero", "sensor"} /\ enabled # {}
  BY <1>1 DEF TypeOK, Sensors
<1>5. Configured'
  <2>1. ~pmFailed' => y.ok = TRUE
    OBVIOUS
  <2>2. ~pmFailed' => y.ints = cached /\ y.writer = "sync"
    BY <2>1
  <2>3. ~pmFailed' => ints' = cached /\ writer' # "wakeup"
    BY <2>2, <1>3, <1>4
  <2>. QED BY <2>3 DEF Configured
<1>6. Sampling'
  <2>1. CASE set = {}
    <3>1. \/ rate' = rate /\ writer' = writer
          \/ rate' = 0 /\ writer' = "sync"
      BY <2>1, <1>3
    <3>. QED BY <3>1 DEF Sampling, Remaining
  <2>2. CASE set # {}
    BY <2>2, <1>4 DEF Sampling, Remaining, Calls
  <2>. QED BY <2>1, <2>2
<1>7. Streaming'
  BY DEF Streaming, Calls, TypeOK, Sensors
<1>8. Chain'
  BY DEF Chain, Calls, TypeOK
<1>9. Paced'
  <2>1. CASE pmFailed' \/ buffer = {}
    BY <2>1 DEF Paced
  <2>2. CASE ~pmFailed' /\ buffer # {}
    <3>1. set = enabled /\ set # {}
      BY <2>2 DEF Streaming
    <3> DEFINE t == IF "TEMP" \in set THEN "TEMP" ELSE "ACC"
    <3>2. t \in enabled /\ t \in Sensors /\ odr[t] \in Nat
      BY <3>1 DEF TypeOK, Sensors
    <3>3. rate' = SetOdr(t, odr[t], reqOdr) /\ writer' = IF odr[t] = 0 THEN "zero" ELSE "sensor"
      BY <3>1
    <3>4. odr[t] # 0 => rate' > 0 /\ \A u \in enabled : rate' >= Clamp(odr[u])
      BY <3>2, <3>3, FastEnough DEF TypeOK
    <3>. QED BY <3>3, <3>4 DEF Paced, Streaming
  <2>. QED BY <2>1, <2>2
<1>. QED BY <1>2, <1>5, <1>6, <1>7, <1>8, <1>9

LEMMA RemoveInv ==
  ASSUME Inv, Remove
  PROVE  Inv'
<1>. USE DEF Inv, Remove, Idle, device, demand, poll, history, Cancels
<1>1. TypeOK' /\ Calls'
  BY DEF TypeOK, Calls, Sensors
<1>2. Configured' /\ Sampling' /\ Streaming' /\ Paced'
  BY DEF Calls, Configured, Sampling, Remaining, Streaming, Paced
<1>3. Chain'
  BY DEF TypeOK, Calls, Streaming, Chain
<1>. QED BY <1>1, <1>2, <1>3

LEMMA StutterInv ==
  ASSUME Inv, UNCHANGED vars
  PROVE  Inv'
<1>. USE DEF Inv, vars, device, demand, poll, history, Cancels
<1>1. TypeOK' /\ Calls'
  BY DEF TypeOK, Calls, Sensors
<1>2. Configured' /\ Sampling' /\ Streaming' /\ Paced'
  BY DEF Calls, Configured, Sampling, Remaining, Streaming, Paced
<1>3. Chain'
  BY DEF TypeOK, Calls, Streaming, Chain
<1>. QED BY <1>1, <1>2, <1>3
-----------------------------------------------------------------------------
LEMMA InitInv == Init => Inv
<1> SUFFICES ASSUME Init PROVE Inv
  OBVIOUS
<1>1. TypeOK
  <2>1. odr \in [Sensors -> Nat]
    BY DEF Init
  <2>2. /\ buffer \subseteq Sensors /\ enabled \subseteq Sensors /\ reqOdr \in {0, EventOdr}
        /\ events \subseteq Events /\ ints \subseteq Events \cup {"WAKEUP"} /\ cached \subseteq Events
        /\ rate \in 0 .. 100 /\ failed \subseteq Events
    BY DEF Init
  <2>3. /\ fifo \in BOOLEAN /\ timer \in BOOLEAN /\ pending \in BOOLEAN /\ cancelling \in BOOLEAN
        /\ working = "no" /\ pc = "idle" /\ target = "none" /\ pm = "on" /\ writer = "zero"
        /\ pmFailed \in BOOLEAN /\ halted \in BOOLEAN
    BY DEF Init
  <2>. QED BY <2>1, <2>2, <2>3 DEF TypeOK
<1>2. Calls /\ Configured
  BY DEF Init, Calls, Configured, EventOdr, Cancels
<1>3. Sampling
  BY DEF Init, Sampling
<1>4. Streaming /\ Paced /\ Chain
  BY DEF Init, Streaming, Paced, Chain, Sensors
<1>. QED BY <1>1, <1>2, <1>3, <1>4 DEF Inv

LEMMA Invariance == Spec => []Inv
<1>1. Inv /\ [Next]_vars => Inv'
  <2> SUFFICES ASSUME Inv, [Next]_vars PROVE Inv'
    OBVIOUS
  <2>1. CASE \E s \in Sensors : Enable(s) \/ Disable(s) \/ ReadStart(s) \/ \E r \in Rates[s] : SetFrequency(s, r)
    BY <2>1, EnableInv, DisableInv, ReadStartInv, SetFrequencyInv
  <2>2. CASE \E e \in Events, on \in BOOLEAN : ConfigEvent(e, on)
    BY <2>2, ConfigEventInv
  <2>3. CASE SelfTest \/ TimerFires
    BY <2>3, SelfTestInv, TimerFiresInv
  <2>4. CASE WorkStep
    BY <2>4, WorkBeginsInv, WorkArmsInv, WorkReadsInv DEF WorkStep
  <2>5. CASE CallStep
    BY <2>5, ReadEndInv, CancelWorkInv, WaitWorkInv, CancelTimerInv, SuspendDeviceInv DEF CallStep
  <2>6. CASE SuspendStart \/ Resume \/ Remove
    BY <2>6, SuspendStartInv, ResumeInv, RemoveInv
  <2>7. CASE UNCHANGED vars
    BY <2>7, StutterInv
  <2>. QED BY <2>1, <2>2, <2>3, <2>4, <2>5, <2>6, <2>7 DEF Next
<1>. QED BY <1>1, InitInv, PTL DEF Spec
-----------------------------------------------------------------------------
\* Whatever access fails, the driver's state and the device's stay in range; CTRL1 never
\* gets a rate above the 100 Hz set_odr allows.
THEOREM TypeCorrect == Spec => []TypeOK
<1>1. Inv => TypeOK
  BY DEF Inv
<1>. QED BY <1>1, Invariance, PTL

\* An event that was configured has its interrupt and, but for a resume that put CTRL1
\* back, its rate, whatever the sensors do: set_odr and the mask agree.
THEOREM EventsServedAlways == Spec => []EventsServed
<1>1. Inv => EventsServed
  BY DEF Inv, TypeOK, Configured, Sampling, EventsServed, Quiet, Idle, EventOdr
<1>. QED BY <1>1, Invariance, PTL

\* A device nobody uses is powered down: the last one to disable writes zero.
THEOREM OffWhenUnusedAlways == Spec => []OffWhenUnused
<1>1. Inv => OffWhenUnused
  BY DEF Inv, TypeOK, Calls, Configured, Sampling, Remaining, Cancels, OffWhenUnused, Quiet, Idle
<1>. QED BY <1>1, Invariance, PTL

\* One-shot reads, self tests and suspends leave a buffer its sensor and its fifo; the
\* rate set_odr computes for one sensor suits the other's stream, and a stream stands still
\* only if the rate zero was the last to be asked for.
THEOREM StreamFlowsAlways == Spec => []StreamFlows
<1>1. Inv => StreamFlows
  BY DEF Inv, Streaming, Paced, StreamFlows, Quiet, Idle
<1>. QED BY <1>1, Invariance, PTL

\* Timer and work item hand the poll to each other without a gap.
THEOREM PollingAliveAlways == Spec => []PollingAlive
<1>1. Inv => PollingAlive
  BY DEF Inv, Calls, Chain, PollingAlive, Polled, Idle
<1>. QED BY <1>1, Invariance, PTL
=============================================================================
