------------------------------ MODULE Branding ------------------------------
(***************************************************************************)
(* brand_video.py, which puts the intro and the outro round a day's video, *)
(* and what youtube_upload.py publishes: the branded file that             *)
(* run_daily_cron.sh names or, run without --file, the newest file that    *)
(* latest_video's pattern video_*.mp4 finds in the channel's directory.    *)
(*                                                                         *)
(* One channel.  For each day the directory may hold the video, its        *)
(* branded file, and the temporary file ffmpeg writes before os.replace.   *)
(* Titles are left out here, and so is an upload that is interrupted (see  *)
(* Upload).                                                                *)
(***************************************************************************)
EXTENDS Naturals

CONSTANTS
    Dates,         \* dates in the file names
    MaxVersions,   \* bound: times a day's video is generated
    MaxMishaps     \* bound: failing or killed ffmpegs, power losses

ASSUME BrandingAssumption == MaxVersions \in Nat /\ MaxMishaps \in Nat

VARIABLES
    held,        \* what each file holds; files that do not exist are Nothing
    older,       \* <<f, g>>: of the files that exist, f was modified before g
    at, file,    \* a run of brand_video.py, then of the upload, and its day
    sent,        \* what was published under each file name
    versions,    \* how often each day's video was generated
    mishaps

bvars == <<held, older, at, file, sent, versions, mishaps>>

Plain(d)  == <<"video", d>>             \* video_D.mp4
Out(d)    == <<"video.branded", d>>     \* video_D.branded.mp4
Names     == {"video", "video.branded", "video.branded.tmp"} \X Dates

\* Wrong on purpose: ffmpeg writes to the branded file itself.
TmpIsOut(d) == Out(d)

Tmp(d)    == <<"video.branded.tmp", d>> \* video_D.branded.tmp.mp4

Nothing    == [kind |-> "none", version |-> 0]
Empty      == [kind |-> "empty", version |-> 0]
Partial(v) == [kind |-> "partial", version |-> v]
Whole(v)   == [kind |-> "whole", version |-> v]

BInit ==
    /\ held = [f \in Names |-> Nothing]
    /\ older = {}
    /\ at = "idle" /\ file \in Dates
    /\ sent = [f \in Names |-> Nothing]
    /\ versions = [d \in Dates |-> 0]
    /\ mishaps = 0

Exists(f)   == held[f] # Nothing
Existing    == {f \in Names : Exists(f)}
Older(f, g) == <<f, g>> \in older
Mishap      == mishaps < MaxMishaps /\ mishaps' = mishaps + 1

\* f is written: it is now the latest.
Touched(f) ==
    {p \in older : f \notin {p[1], p[2]}} \union {<<g, f>> : g \in Existing \ {f}}

\* f is renamed to g, over what was there, and keeps its mtime.
Renamed(f, g) ==
    LET Was(h) == IF h = g THEN f ELSE h IN
    {p \in (Names \ {f}) \X (Names \ {f}) : Older(Was(p[1]), Was(p[2]))}

-----------------------------------------------------------------------------
\* run_video_pipeline.py's download, again after somebody deleted the file to
\* have another; the pipeline's lock keeps it apart from the branding.
Generate(d) ==
    /\ at = "idle"
    /\ versions[d] < MaxVersions
    /\ versions' = [versions EXCEPT ![d] = @ + 1]
    /\ held' = [held EXCEPT ![Plain(d)] = Whole(versions[d] + 1)]
    /\ older' = Touched(Plain(d))
    /\ UNCHANGED <<at, file, sent, mishaps>>

\* Wrong on purpose: a branded file serves whatever its age.
UpToDateAtAnyAge(d) == held[Out(d)] \notin {Nothing, Empty}

\* The branded file is there, not empty and not older than the video.
UpToDate(d) ==
    held[Out(d)] \notin {Nothing, Empty} /\ Older(Plain(d), Out(d))

\* brand(): skip, or have ffmpeg -y begin the temporary file.
BrandStart(d) ==
    /\ at = "idle"
    /\ Exists(Plain(d))
    /\ file' = d
    /\ IF UpToDate(d)
       THEN at' = "upload" /\ UNCHANGED <<held, older>>
       ELSE /\ at' = "encoding"
            /\ held' = [held EXCEPT ![Tmp(d)] = Partial(held[Plain(d)].version)]
            /\ older' = Touched(Tmp(d))
    /\ UNCHANGED <<sent, versions, mishaps>>

Encode ==
    /\ at = "encoding"
    /\ held' = [held EXCEPT ![Tmp(file)].kind = "whole"]
    /\ older' = Touched(Tmp(file))
    /\ at' = "replace"
    /\ UNCHANGED <<file, sent, versions, mishaps>>

\* os.replace: the branded file takes the temporary one's content and mtime.
Replace ==
    /\ at = "replace"
    /\ held' = [held EXCEPT ![Out(file)] = held[Tmp(file)],
                                  ![Tmp(file)] = Nothing]
    /\ older' = Renamed(Tmp(file), Out(file))
    /\ at' = "upload"
    /\ UNCHANGED <<file, sent, versions, mishaps>>

-----------------------------------------------------------------------------
\* A file name that is already recorded is not published again.
Send(f) ==
    sent' = IF sent[f] = Nothing
              THEN [sent EXCEPT ![f] = held[f]] ELSE sent

\* run_daily_cron.sh: --file video_D.branded.mp4.
UploadBranded ==
    /\ at = "upload"
    /\ Send(Out(file))
    /\ at' = "idle"
    /\ UNCHANGED <<held, older, file, versions, mishaps>>

\* By hand and without --file, at any moment: latest_video.
UploadLatest ==
    /\ \E f \in Existing : (\A g \in Existing \ {f} : Older(g, f)) /\ Send(f)
    /\ UNCHANGED <<held, older, at, file, versions, mishaps>>

-----------------------------------------------------------------------------
\* ffmpeg fails or exceeds FFMPEG_TIMEOUT, or the run is killed.
Break ==
    /\ at # "idle"
    /\ Mishap
    /\ at' = "idle"
    /\ UNCHANGED <<held, older, file, sent, versions>>

\* The machine stops just after os.replace: the data may not have reached the
\* disk, and the branded file comes back empty.
DataLoss ==
    /\ at = "upload"
    /\ Mishap
    /\ held' = [held EXCEPT ![Out(file)] = Empty]
    /\ at' = "idle"
    /\ UNCHANGED <<older, file, sent, versions>>

BNext ==
    \/ \E d \in Dates : Generate(d) \/ BrandStart(d)
    \/ Encode \/ Replace
    \/ UploadBranded \/ UploadLatest
    \/ Break \/ DataLoss

BSpec == BInit /\ [][BNext]_bvars

-----------------------------------------------------------------------------
(* Properties. *)

Held == [kind : {"none", "empty", "partial", "whole"}, version : 0..MaxVersions]

\* Every variable has its type, and the files that exist are ordered by
\* mtime.
BTypeOK ==
    /\ held \in [Names -> Held] /\ sent \in [Names -> Held]
    /\ older \subseteq Existing \X Existing
    /\ \A f, g \in Existing : f = g \/ (Older(f, g) <=> ~Older(g, f))
    /\ \A f, g, h \in Existing : Older(f, g) /\ Older(g, h) => Older(f, h)
    /\ \A f \in Existing : ~Older(f, f)
    /\ at \in {"idle", "encoding", "replace", "upload"} /\ file \in Dates
    /\ versions \in [Dates -> 0..MaxVersions] /\ mishaps \in 0..MaxMishaps

\* What the daily run is about to publish is whole, and made from the video
\* that is there now, whatever happened to earlier runs (brand_video.py:97-101,
\* 106, 138).
WholeAtUpload ==
    at = "upload" => held[Out(file)] = Whole(held[Plain(file)].version)

\* The files are well typed, ordered by mtime, and what is
\* uploaded is whole and of the present video.
BrandedIsWhole == BTypeOK /\ WholeAtUpload

\* BrandAbstract, read off the files: which video each branded file was made
\* from, and which of the two is older.
MadeFrom == [d \in Dates |-> IF held[Out(d)].kind = "whole" THEN held[Out(d)].version ELSE 0]
Current  == {d \in Dates : Older(Plain(d), Out(d))}
Offered  == IF at = "upload" THEN {file} ELSE {}

OneStep == INSTANCE BrandAbstract WITH
    film <- versions, branded <- MadeFrom, current <- Current, ready <- Offered

\* Half-made files, failing ffmpegs, new downloads and lost data come to nothing
\* but a branded file that is made in one step from the present video
\* (brand_video.py:97-103, 138; DailyRun's Brand).
ImplementsBranding == OneStep!ASpec

\* Whatever is published is whole (brand_video.py:138, "even when killed it
\* leaves no remains that look complete").
SentIsWhole ==
    \A f \in Names : sent[f] # Nothing => sent[f].kind = "whole"

=============================================================================
