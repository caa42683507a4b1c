----------------------------- MODULE MCCommands -----------------------------
(* Small instances of PegaCommands.                                        *)
EXTENDS PegaCommands, TLC

CONSTANTS mainT, diagT, debugT

\* Without main: a debug message may also schedule the wifi event, and the debug event with
\* no command of its own.
ListenerCalls ==
  diagT :> {<<200, 1>>} @@ debugT :> {<<2, 2>>, <<201, 1>>}

\* main arms the wifi event, and the listeners only their own.
MainCalls == mainT :> {<<2, 1>>} @@ diagT :> {<<200, 1>>} @@ debugT :> {<<201, 1>>}

TwoForDiag == diagT :> 2 @@ debugT :> 1
ThreeForDiag == diagT :> 3 @@ debugT :> 0

TwoDiagCommands == diagT :> {<<1, 1>>, <<2, 2>>} @@ debugT :> {}
OneCommand == diagT :> {<<1, 1>>} @@ debugT :> {<<1, 1>>}
=============================================================================
