------------------------------ MODULE MCAccel ------------------------------
(* Small instances of Accel.                                               *)
EXTENDS Accel

\* A rate above the limit of the device; for the temperature zero, which the table has.
SomeRates == [s \in Sensors |-> IF s = "ACC" THEN {200} ELSE {0}]
=============================================================================
