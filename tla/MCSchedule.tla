----------------------------- MODULE MCSchedule -----------------------------
(* A small instance of PegaSchedule.                                       *)
EXTENDS PegaSchedule, TLC

CONSTANTS mainT, debugT

\* main arms the wifi firmware load with a long delay; a listener any code it
\* is sent: none, three of the good ones, one too large.
TwoPushers ==
  mainT :> {<<2, 2>>} @@ debugT :> ({0, 1, 200, 201, 203} \X {1})
=============================================================================
