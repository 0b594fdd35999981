----------------------------- MODULE MCShutdown -----------------------------
(* Shutdown as TLC checks it. *)
EXTENDS Shutdown

CONSTANTS call, audio, video, first, second

=============================================================================
