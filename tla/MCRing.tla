------------------------------- MODULE MCRing -------------------------------
(* Small instances of RingLed.                                             *)
EXTENDS RingLed

\* The stores that cancel both work items first: animations that end, that do not
\* (a white one), a chase of a level that does not exist, and a store that only writes.
CancellingRequests ==
  ({"br2colors", "brlogscale", "br_demo"} \X {2})
    \cup ({"breathing"} \X {0, 2}) \cup ({"br_white"} \X {0, 1})
    \cup ({"chase"} \X {4, 20}) \cup {<<"fade_rate", 1>>}

\* The stores that cancel nothing, against the chase.
OtherRequests == {<<"chase", 3>>, <<"flower", 1>>, <<"chasing_demo", 1>>, <<"mode", 1>>, <<"racing", 1>>}
=============================================================================
