--------------------------- MODULE BrandAbstract ---------------------------
(***************************************************************************)
(* What the daily run takes brand_video.py for, without temporary files    *)
(* and modification times: branding a day's video is one step, after which *)
(* the branded file is whole and of the present video.  DailyRun has it in *)
(* this form.                                                              *)
(***************************************************************************)
EXTENDS Naturals

CONSTANT Dates

VARIABLES
    film,       \* the video of each day: 0 is none, a new download the next number
    branded,    \* the video each whole branded file was made from, or 0
    current,    \* days with a branded file that is not older than the video
    ready       \* the day whose branded file is about to be uploaded, if any

avars == <<film, branded, current, ready>>

AInit ==
    /\ film = [d \in Dates |-> 0] /\ branded = film
    /\ current = {} /\ ready = {}

Film(d) ==
    /\ ready = {}
    /\ film' = [film EXCEPT ![d] = @ + 1]
    /\ current' = current \ {d}
    /\ UNCHANGED <<branded, ready>>

\* A current branded file is used again; any other is made anew.
Use(d) ==
    /\ d \in current /\ branded[d] # 0
    /\ UNCHANGED <<branded, current>>

Make(d) ==
    /\ d \notin current \/ branded[d] = 0
    /\ branded' = [branded EXCEPT ![d] = film[d]]
    /\ current' = current \cup {d}

Brand(d) ==
    /\ ready = {} /\ film[d] # 0
    /\ Use(d) \/ Make(d)
    /\ ready' = {d}
    /\ UNCHANGED film

\* The upload is over, or given up; the branded file may have lost its data.
Leave ==
    /\ ready' = {}
    /\ \/ UNCHANGED branded
       \/ \E d \in ready : branded' = [branded EXCEPT ![d] = 0]
    /\ UNCHANGED <<film, current>>

ANext == Leave \/ \E d \in Dates : Film(d) \/ Brand(d)

ASpec == AInit /\ [][ANext]_avars

=============================================================================
