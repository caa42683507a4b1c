---------------------------- MODULE EventTimer ----------------------------
(***************************************************************************)
(* What pega_misc expects of its scheduler: an event that was armed stays  *)
(* armed until it is fired, arming it again changes nothing, it is fired   *)
(* only when armed, and the handlers run one at a time.                    *)
(***************************************************************************)
CONSTANTS
  Events,   \* the events that have a handler to run
  Nothing   \* no handler is running

VARIABLES armed, running
vars == <<armed, running>>

Init == armed = {} /\ running = Nothing

Arm(e) ==
  /\ armed' = armed \cup {e}
  /\ UNCHANGED running

Fire(e) ==
  /\ e \in armed /\ running = Nothing
  /\ armed' = armed \ {e}
  /\ running' = e

Finish ==
  /\ running # Nothing /\ running' = Nothing
  /\ UNCHANGED armed

Next == (\E e \in Events : Arm(e) \/ Fire(e)) \/ Finish

Spec == Init /\ [][Next]_vars

=============================================================================
