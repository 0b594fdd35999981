---------------------------- MODULE MCRefreshCmd ----------------------------
(* RefreshCmd as TLC checks it. *)
EXTENDS RefreshCmd

CONSTANTS here, there, a1, a2, b1

TwoProcesses   == {here, there}
ThreeCallers   == {a1, a2, b1}
TwoAndOne      == [c \in ThreeCallers |-> IF c = b1 THEN there ELSE here]
OneProcess     == {here}
TwoCallers     == {a1, a2}
BothHere       == [c \in TwoCallers |-> here]

=============================================================================
