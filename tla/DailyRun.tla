------------------------------ MODULE DailyRun ------------------------------
(***************************************************************************)
(* The daily run: run_daily_cron.sh, started by crontab at 08:00 and again *)
(* every 15 minutes by run_daily_catchup.sh until the day's marker exists, *)
(* and what the scripts it calls do to the files they share: top1.json,    *)
(* sources.json, the videos, the upload records and the done marker.       *)
(*                                                                         *)
(* The shell script takes the date once, when it starts; every Python      *)
(* script takes it again.  A run that is suspended or slow may therefore   *)
(* cross midnight between any two steps, and the next day's runs find      *)
(* whatever it left.  Uploading is one step here: Upload.tla shows that    *)
(* the script publishes a file once and then reports it.  Branding is one  *)
(* step, too, which Branding.tla shows of brand_video.py.                  *)
(***************************************************************************)
EXTENDS Naturals, Sequences

CONSTANTS
    Channels,     \* the channels of config/channels.json, a sequence
    ShortsCh,     \* its "shorts_channel"
    Titles,       \* headlines Gemini may rank first
    LastDay,      \* bound: the days of the model are 1..LastDay
    MaxFaults,    \* bound: failing steps, kills and power losses
    AbsentFile, ZeroBytes, NoTopic, FileName

Chan == {Channels[i] : i \in 1..Len(Channels)}
Days == 1..LastDay

ASSUME DailyRunAssumption ==
    /\ Channels \in Seq(Chan) /\ Len(Channels) > 0
    /\ \A i, j \in 1..Len(Channels) : Channels[i] = Channels[j] => i = j
    /\ ShortsCh \in Chan
    /\ LastDay \in Nat \ {0} /\ MaxFaults \in Nat

Topic   == [date : Days, title : Titles]
Content == [topic : Topic, urls : Topic]

Video(c, d)   == <<"video", c, d>>
Branded(c, d) == <<"branded", c, d>>
Shorts(d)     == <<"shorts", ShortsCh, d>>

Files == {Video(c, d) : c \in Chan, d \in Days}
         \cup {Branded(c, d) : c \in Chan, d \in Days}
         \cup {Shorts(d) : d \in Days}

\* The files the run of day d must publish: the branded videos and the Short.
Uploads(d) == {Branded(c, d) : c \in Chan} \cup {Shorts(d)}

ASSUME DailyRunDistinct ==
    /\ AbsentFile \notin Content /\ ZeroBytes \notin Content
    /\ AbsentFile # ZeroBytes /\ NoTopic \notin Topic
    /\ FileName \notin Topic
    /\ AbsentFile \notin [title : Topic \cup {FileName}, video : Content \cup {ZeroBytes}]

VARIABLES
    clock,      \* the date in Sydney
    ran,        \* days whose 08:00 run was started
    marker,     \* days with a logs/done_<day>.marker
    top1,       \* top1.json of each channel
    sources,    \* sources.json of each channel: the topic it was collected for
    content,    \* each video file
    outdated,   \* branded files older than the video they were made from
    uploaded,   \* what was published for each file: title and content
    pc, TODAY, ch, FAILED, SHORTS_OK,   \* run_daily_cron.sh
    today,      \* the date the running Python script took
    faults

run   == <<TODAY, ch, FAILED, SHORTS_OK>>
disk  == <<top1, sources, content, outdated, uploaded>>
world == <<clock, ran, marker>>
vars  == <<clock, ran, marker, top1, sources, content, outdated, uploaded,
           pc, TODAY, ch, FAILED, SHORTS_OK, today, faults>>

C == Channels[ch]

Init ==
    /\ clock = 1 /\ ran = {} /\ marker = {}
    /\ top1 = [c \in Chan |-> NoTopic]
    /\ sources = [c \in Chan |-> NoTopic]
    /\ content = [f \in Files |-> AbsentFile]
    /\ outdated = {}
    /\ uploaded = [f \in Files |-> AbsentFile]
    /\ pc = "idle" /\ TODAY = 1 /\ ch = 1
    /\ FAILED = FALSE /\ SHORTS_OK = FALSE
    /\ today = 1
    /\ faults = 0

Fault   == faults < MaxFaults /\ faults' = faults + 1
NoFault == UNCHANGED faults

-----------------------------------------------------------------------------
(* run_daily_catchup.sh and the frame of run_daily_cron.sh. *)

\* TODAY is taken, the login refreshed (a failure only forfeits the marker).
BeginRun(refreshed) ==
    /\ pc = "idle"
    /\ pc' = "daily"
    /\ TODAY' = clock
    /\ ch' = 1
    /\ FAILED' = ~refreshed
    /\ SHORTS_OK' = FALSE
    /\ IF refreshed THEN NoFault ELSE Fault
    /\ UNCHANGED <<clock, marker, today, disk>>

\* crontab's 08:00 entry: once a day, whether the marker exists or not.
MainRun(refreshed) ==
    /\ clock \notin ran
    /\ ran' = ran \cup {clock}
    /\ BeginRun(refreshed)

CatchupRun(refreshed) ==
    /\ clock \notin marker
    /\ BeginRun(refreshed)
    /\ UNCHANGED ran

\* `continue`: on to the next channel, after the last one to the Short.
NextChannel ==
    IF ch < Len(Channels) THEN pc' = "daily" /\ ch' = ch + 1
                          ELSE pc' = "shorts" /\ UNCHANGED ch

\* Wrong on purpose: the failure is logged and forgotten.
ChannelFailsSilently == NextChannel /\ UNCHANGED <<TODAY, FAILED, SHORTS_OK>>

\* A channel's script exits non-zero.
ChannelFails ==
    /\ FAILED' = TRUE
    /\ NextChannel
    /\ UNCHANGED <<TODAY, SHORTS_OK>>

Then(p) == pc' = p /\ UNCHANGED run

\* The marker is touched only when nothing failed.
EndRun ==
    /\ pc = "end"
    /\ marker' = IF FAILED THEN marker ELSE marker \cup {TODAY}
    /\ pc' = "idle"
    /\ UNCHANGED <<clock, ran, disk, run, today, faults>>

-----------------------------------------------------------------------------
(* run_daily.py and its three steps. *)

\* Wrong on purpose: a topic is never found locked.
NeverLocked(c, d) == FALSE

\* The day's topic, when top1.json already holds it.
Locked(c, d) == top1[c] # NoTopic /\ top1[c].date = d

\* sources.json is compared by headline alone.
Collected(c) == sources[c] # NoTopic /\ sources[c].title = top1[c].title

\* Wrong on purpose: every run fetches and ranks again.
DailyRanksAgain ==
    /\ pc = "daily"
    /\ today' = clock
    /\ Then("rank")
    /\ UNCHANGED <<world, disk, faults>>

\* Which step comes first: none when the day's video exists (even empty),
\* fetch and rank unless the topic is locked, collect unless the sources are
\* those of the locked topic.
DailyStart ==
    /\ pc = "daily"
    /\ today' = clock
    /\ Then(CASE content[Video(C, clock)] # AbsentFile -> "video"
              [] content[Video(C, clock)] = AbsentFile /\ ~Locked(C, clock)
                    -> "rank"
              [] OTHER -> IF Collected(C) THEN "video" ELSE "collect")
    /\ UNCHANGED <<world, disk, faults>>

\* fetch_news and the start of rank_news, which takes the date anew.
RankStart ==
    /\ pc = "rank"
    /\ today' = clock
    /\ Then("ranking")
    /\ UNCHANGED <<world, disk, faults>>

RankDone ==
    /\ pc = "ranking"
    /\ \E t \in Titles :
          top1' = [top1 EXCEPT ![C] = [date |-> today, title |-> t]]
    /\ Then("collect")
    /\ UNCHANGED <<world, sources, content, outdated, uploaded, today, faults>>

CollectDone ==
    /\ pc = "collect"
    /\ sources' = [sources EXCEPT ![C] = top1[C]]
    /\ Then("video")
    /\ UNCHANGED <<world, top1, content, outdated, uploaded, today, faults>>

-----------------------------------------------------------------------------
(* run_video_flow, for the long video and for the Short. *)

Usable(f)  == content[f] \notin {AbsentFile, ZeroBytes}
HasInputs(c) == top1[c] # NoTopic /\ sources[c] # NoTopic

\* Wrong on purpose: an empty file is left where it is.
NotUnlinked(f) == content

Unlinked(f) == [content EXCEPT ![f] = IF @ = ZeroBytes THEN AbsentFile ELSE @]

\* Wrong on purpose: without the freshness gate.
FlowStartStale(c, f, keep, generate, refuse) ==
    /\ today' = clock
    /\ \/ ~HasInputs(c) /\ refuse /\ UNCHANGED content
       \/ /\ HasInputs(c)
          /\ content' = Unlinked(f)
          /\ (Usable(f) /\ keep) \/ (~Usable(f) /\ generate)

\* The checks before anything is generated, in their order: top1.json and
\* sources.json are there, a finished video of the day is kept, an empty one
\* is deleted, a topic of another day is refused.
FlowStart(c, f, keep, generate, refuse) ==
    /\ today' = clock
    /\ \/ ~HasInputs(c) /\ refuse /\ UNCHANGED content
       \/ /\ HasInputs(c)
          /\ content' = Unlinked(f)
          /\ \/ Usable(f) /\ keep
             \/ ~Usable(f) /\ top1[c].date = clock /\ generate
             \/ ~Usable(f) /\ top1[c].date # clock /\ refuse

\* generate_video and download_video, from the inputs read at the start;
\* --no-clobber keeps a file that exists.
Generated(c, f) ==
    [content EXCEPT ![f] = IF @ = AbsentFile
                           THEN [topic |-> top1[c], urls |-> sources[c]]
                           ELSE @]

VideoStart ==
    /\ pc = "video"
    /\ FlowStart(C, Video(C, clock), Then("brand"), Then("generate"),
                 ChannelFails)
    /\ UNCHANGED <<world, top1, sources, outdated, uploaded, faults>>

VideoDone ==
    /\ pc = "generate"
    /\ content' = Generated(C, Video(C, today))
    /\ outdated' = outdated \cup {Branded(C, today)}
    /\ Then("brand")
    /\ UNCHANGED <<world, top1, sources, uploaded, today, faults>>

\* brand_video on the file of the shell's date: nothing to do when the
\* branded file is not older than the video.  ffmpeg refuses an empty input.
Brand ==
    LET v == Video(C, TODAY)
        b == Branded(C, TODAY) IN
    /\ pc = "brand"
    /\ \/ /\ content[v] # AbsentFile /\ Usable(b) /\ b \notin outdated
          /\ Then("upload")
          /\ UNCHANGED <<content, outdated>>
       \/ /\ Usable(v) /\ (~Usable(b) \/ b \in outdated)
          /\ content' = [content EXCEPT ![b] = content[v]]
          /\ outdated' = outdated \ {b}
          /\ Then("upload")
       \/ /\ \/ content[v] = AbsentFile
             \/ content[v] = ZeroBytes /\ (~Usable(b) \/ b \in outdated)
          /\ ChannelFails
          /\ UNCHANGED <<content, outdated>>
    /\ UNCHANGED <<world, top1, sources, uploaded, today, faults>>

-----------------------------------------------------------------------------
(* youtube_upload.py on a file of the shell's date. *)

\* Wrong on purpose: top1.json is trusted whatever its day.
TitleUnchecked(f) == IF top1[f[2]] # NoTopic THEN top1[f[2]] ELSE FileName

\* build_metadata: the topic's headline, or the file name when top1.json is of
\* another day than the file.
TitleFor(f) ==
    LET t == top1[f[2]] IN
    IF t # NoTopic /\ t.date = f[3] THEN t ELSE FileName

\* A file recorded as done is left alone.
Publish(f) ==
    uploaded' = IF uploaded[f] # AbsentFile THEN uploaded
                ELSE [uploaded EXCEPT ![f] = [title |-> TitleFor(f),
                                              video |-> content[f]]]

Upload ==
    LET b == Branded(C, TODAY) IN
    /\ pc = "upload"
    /\ content[b] # AbsentFile
    /\ Publish(b)                 \* Brand has left a file to publish
    /\ NextChannel
    /\ SHORTS_OK' = (SHORTS_OK \/ C = ShortsCh)
    /\ UNCHANGED <<TODAY, FAILED, world, top1, sources, content, outdated,
                   today, faults>>

-----------------------------------------------------------------------------
(* The Short of ShortsCh, after all channels. *)

ShortsFails(p) == /\ FAILED' = TRUE
                  /\ pc' = p
                  /\ UNCHANGED <<TODAY, ch, SHORTS_OK>>

\* Not tried when its channel did not succeed.  When the pipeline fails, the
\* upload is attempted all the same.
ShortsStart ==
    /\ pc = "shorts"
    /\ \/ ~SHORTS_OK /\ ShortsFails("end") /\ UNCHANGED <<today, content>>
       \/ SHORTS_OK /\ FlowStart(ShortsCh, Shorts(clock), Then("shortsUpload"),
                        Then("shortsGenerate"), ShortsFails("shortsUpload"))
    /\ UNCHANGED <<world, top1, sources, outdated, uploaded, faults>>

ShortsDone ==
    /\ pc = "shortsGenerate"
    /\ content' = Generated(ShortsCh, Shorts(today))
    /\ Then("shortsUpload")
    /\ UNCHANGED <<world, top1, sources, outdated, uploaded, today, faults>>

ShortsUpload ==
    LET s == Shorts(TODAY) IN
    /\ pc = "shortsUpload"
    /\ \/ content[s] # AbsentFile /\ Publish(s) /\ Then("end")
       \/ content[s] = AbsentFile /\ ShortsFails("end") /\ UNCHANGED uploaded
    /\ UNCHANGED <<world, top1, sources, content, outdated, today, faults>>

-----------------------------------------------------------------------------
(* What goes wrong, and the calendar. *)

\* A script fails for a reason outside this model: the network, Gemini's or
\* NotebookLM's quota, a time-out, ffmpeg, YouTube.
StepFails ==
    /\ Fault
    /\ \/ /\ pc \in {"rank", "ranking", "collect", "generate", "brand", "upload"}
          /\ ChannelFails
       \/ pc = "shortsGenerate" /\ ShortsFails("shortsUpload")
       \/ pc = "shortsUpload" /\ ShortsFails("end")
    /\ UNCHANGED <<world, disk, today>>

\* The run is killed; the kernel drops the flock.
Kill ==
    /\ pc # "idle"
    /\ Fault
    /\ pc' = "idle"
    /\ UNCHANGED <<world, disk, run, today>>

\* The machine stops as a download lands: the video is left empty.
PowerLoss ==
    /\ pc \in {"generate", "shortsGenerate"}
    /\ Fault
    /\ LET f == IF pc = "generate" THEN Video(C, today) ELSE Shorts(today) IN
          content' = [content EXCEPT ![f] = ZeroBytes]
    /\ pc' = "idle"
    /\ UNCHANGED <<world, top1, sources, outdated, uploaded, run, today>>

\* A download comes to its end with an empty file: the script fails, and leaves it.
EmptyDownload ==
    /\ Fault
    /\ \/ /\ pc = "generate" /\ ChannelFails
          /\ content' = [content EXCEPT ![Video(C, today)] = ZeroBytes]
       \/ /\ pc = "shortsGenerate" /\ ShortsFails("shortsUpload")
          /\ content' = [content EXCEPT ![Shorts(today)] = ZeroBytes]
    /\ UNCHANGED <<world, top1, sources, outdated, uploaded, today>>

Midnight ==
    /\ clock < LastDay
    /\ clock' = clock + 1
    /\ UNCHANGED <<ran, marker, disk, pc, run, today, faults>>

-----------------------------------------------------------------------------
Step ==
    \/ DailyStart \/ RankStart \/ RankDone \/ CollectDone
    \/ VideoStart \/ VideoDone \/ Brand \/ Upload
    \/ ShortsStart \/ ShortsDone \/ ShortsUpload \/ EndRun

Next ==
    \/ \E ok \in BOOLEAN : MainRun(ok) \/ CatchupRun(ok)
    \/ Step
    \/ StepFails \/ Kill \/ PowerLoss \/ EmptyDownload
    \/ Midnight

Spec == Init /\ [][Next]_vars

\* The scripts go on, and the catch-up comes back every 15 minutes.
FairSpec == Spec /\ WF_vars(Step) /\ WF_vars(CatchupRun(TRUE))

-----------------------------------------------------------------------------
(* Properties. *)

Pcs == {"idle", "daily", "rank", "ranking", "collect", "video", "generate",
        "brand", "upload", "shorts", "shortsGenerate", "shortsUpload", "end"}

\* Every variable has its type.
TypeOK ==
    /\ clock \in Days /\ ran \subseteq Days /\ marker \subseteq Days
    /\ top1 \in [Chan -> Topic \cup {NoTopic}]
    /\ sources \in [Chan -> Topic \cup {NoTopic}]
    /\ content \in [Files -> Content \cup {AbsentFile, ZeroBytes}]
    /\ outdated \subseteq Files
    /\ uploaded \in [Files -> [title : Topic \cup {FileName},
                               video : Content \cup {ZeroBytes}]
                              \cup {AbsentFile}]
    /\ pc \in Pcs /\ TODAY \in Days /\ ch \in 1..Len(Channels)
    /\ FAILED \in BOOLEAN /\ SHORTS_OK \in BOOLEAN
    /\ today \in Days /\ faults \in 0..MaxFaults

\* The marker stops the catch-up and lets cleanup delete the day's notebooks
\* (run_daily_cron.sh:76-78): a marked day has every video published.
MarkedIsPublished ==
    \A d \in marker : \A f \in Uploads(d) : uploaded[f] # AbsentFile

\* The marker is true, in a state where every variable has its type.
MarkIsTrue == TypeOK /\ MarkedIsPublished

\* The title on YouTube is the story the video tells, or no story at all
\* (run_daily.py:145-147 tells of the day it was not; youtube_upload.py:67-79).
TitleTellsTheStory ==
    \A f \in Files :
        uploaded[f] # AbsentFile /\ uploaded[f].video # ZeroBytes =>
            uploaded[f].title \in {FileName, uploaded[f].video.topic}

\* A video filed under a day tells that day's story, from the sources
\* collected for it (_orchestrator.py:55-61, run_daily.py:94-114).
VideoIsFresh ==
    \A f \in Files : Usable(f) =>
        /\ content[f].topic.date = f[3]
        /\ content[f].urls.title = content[f].topic.title

\* The Short and the long video of a day tell the same story.
OneStoryADay ==
    \A d \in Days :
        Usable(Shorts(d)) /\ Usable(Video(ShortsCh, d)) =>
            content[Shorts(d)].topic = content[Video(ShortsCh, d)].topic

\* Once chosen, the topic of a day is not chosen again: a re-run of the day
\* finds it locked (run_daily.py:15-16, the quota and the morning's topic).
TopicIsLocked ==
    [][\A c \in Chan :
          top1[c] # NoTopic /\ top1'[c].date = top1[c].date
              => top1'[c] = top1[c]]_vars

\* What is published is a whole video (_orchestrator.py:45-46: an empty file
\* must not be taken for a finished one, nor uploaded).
PublishedIsWhole ==
    \A f \in Files :
        uploaded[f] # AbsentFile => uploaded[f].video # ZeroBytes

\* DailyAbstract, read off top1.json, the upload records and the markers.
Promise == INSTANCE DailyAbstract WITH
    Untold <- AbsentFile,
    day    <- clock,
    story  <- top1,
    told   <- uploaded,
    marked <- marker

\* Whatever fails, is killed, runs again or crosses midnight: to those who watch
\* the channels every run is a part of one choice, one publication of each video
\* and one marker a day (run_daily.py:15-16, run_daily_cron.sh:76-78).
ImplementsDaily == Promise!ASpec

\* A day that lasts is published and marked in the end, whatever went wrong.
EventuallyMarked == (clock = LastDay) ~> (LastDay \in marker)

=============================================================================
