--------------------------- MODULE UploadAbstract ---------------------------
(***************************************************************************)
(* What youtube_upload.py promises the rest of the pipeline, without        *)
(* sessions, records or retries: each file is published once, and it is    *)
(* reported done only after it is published.  A file is published again    *)
(* only when that is waived: the operator passed --force, or the service   *)
(* no longer knows the session that published it.                          *)
(***************************************************************************)
CONSTANTS Files, Ids

VARIABLES published, done, waived

avars == <<published, done, waived>>

AInit ==
    /\ published = [f \in Files |-> {}]
    /\ done = [f \in Files |-> FALSE]
    /\ waived = {}

Publish(f) ==
    /\ published[f] = {} \/ f \in waived
    /\ \E v \in Ids : published' = [published EXCEPT ![f] = @ \cup {v}]
    /\ UNCHANGED <<done, waived>>

Report(f) ==
    /\ ~done[f]
    /\ published[f] # {}
    /\ done' = [done EXCEPT ![f] = TRUE]
    /\ UNCHANGED <<published, waived>>

Waive(f) ==
    /\ waived' = waived \cup {f}
    /\ UNCHANGED <<published, done>>

Reopen(f) ==
    /\ f \in waived
    /\ done' = [done EXCEPT ![f] = FALSE]
    /\ UNCHANGED <<published, waived>>

ANext == \E f \in Files : Publish(f) \/ Report(f) \/ Waive(f) \/ Reopen(f)

ASpec == AInit /\ [][ANext]_avars

=============================================================================
