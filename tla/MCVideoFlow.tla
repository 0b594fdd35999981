---------------------------- MODULE MCVideoFlow ----------------------------
(* VideoFlow as TLC checks it: the long video and the Short of one channel. *)
EXTENDS VideoFlow, TLC

CONSTANTS long, short, u1, u2

BothFlows == {long, short}
OneUrl    == {u1}
TwoUrls   == {u1, u2}
Symm      == Permutations(TwoUrls)

=============================================================================
