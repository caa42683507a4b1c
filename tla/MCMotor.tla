------------------------------ MODULE MCMotor ------------------------------
(* Small instances of MotorDriver.                                         *)
EXTENDS MotorDriver

\* The parameters of a motion, changed while motions run.
MotionRequests ==
  ({"motor", "en", "dir"} \X {0, 1}) \cup ({"cycle"} \X {3, 1000})
    \cup {<<"step_work", 1>>}

\* Calls that contend for the mutex, one of which loses it.
LockRequests == {<<"sp", 2>>, <<"cycle", Malformed>>, <<"step_work", 1>>, <<"info", 0>>}
=============================================================================
