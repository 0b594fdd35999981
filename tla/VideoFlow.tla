----------------------------- MODULE VideoFlow -----------------------------
(***************************************************************************)
(* One channel's notebooks: _orchestrator.run_video_flow with the _cli     *)
(* functions it calls (ensure_notebook, sync_sources, generate_video,      *)
(* download_video), the notebook it deletes when the video is there, and   *)
(* cleanup_notebooks.py, which deletes what earlier days left.             *)
(*                                                                         *)
(* There are two flows, the long video and the Short.  Each has a state    *)
(* file naming its notebook of the day; both share the CLI's active        *)
(* notebook, which every `source`, `generate` and `download` command acts  *)
(* on.  Around them is run_daily_cron.sh, under `flock pipeline.lock`: it  *)
(* takes its own date, sweeps, chooses the topic, has each flow make and   *)
(* upload its video, and marks its date when every exit status was 0.      *)
(* NotebookLM itself is the environment: notebooks, their sources, and the *)
(* newest video generated in each.                                         *)
(***************************************************************************)
EXTENDS Naturals, FiniteSets, Sequences

CONSTANTS
    Flows,        \* "video" and "shorts": state file, file pattern, format
    Branded,      \* "video": goes first, and through ffmpeg before its upload
    Urls,         \* the urls of sources.json, of any day
    LastDay,      \* bound: the days of the model are 1..LastDay
    MaxFaults     \* bound: failing commands, kills, lost replies

Days == 1..LastDay

\* Notebooks in the order of their creation: enough for one a day and flow,
\* and one more for each fault.
Notebooks  == 1..(Cardinality(Flows) * LastDay + MaxFaults)
NoNotebook == 0

ASSUME VideoFlowAssumption ==
    /\ Urls # {} /\ Branded \subseteq Flows
    /\ IsFiniteSet(Flows) /\ LastDay \in Nat \ {0} /\ MaxFaults \in Nat

\* A source is a url taken from the day's sources.json.
Source == Days \X Urls

VARIABLES
    clock,      \* the date in Sydney
    topic,      \* the date of top1.json and sources.json, 0 when there is none
    marker,     \* days with a done marker
    video,      \* the flow's video of a day
    state,      \* pipeline_state.json, shorts_state.json
    active,     \* the notebook the CLI acts on
    shell, stage, \* TODAY of the shell script, and how far it has come
    status,       \* the exit status of each flow's part of it
    pc, today, nb, pending, added,   \* a run of run_video_flow per flow
    made,       \* the notebooks created so far: flow and day of the title
    live,       \* those that exist
    good, bad,  \* their sources, ready and in status "error"
    newest,     \* the sources of the newest video in each, {} when none
    sweeping,   \* the date cleanup_notebooks.py took, 0 when it is not at work
    lost,       \* notebooks whose id was never saved
    faults

vars == <<clock, topic, marker, video, state, active, shell, stage, status,
          pc, today, nb, pending, added, made, live, good, bad, newest,
          sweeping, lost, faults>>
cron    == <<shell, stage>>
own     == <<status, pc, today, nb, pending, added>>
remote  == <<made, live, good, bad, newest>>
outside == <<clock, topic, marker>>

NoState == [day |-> 0, nb |-> NoNotebook]
Absent  == [kind |-> "absent", nb |-> NoNotebook, urls |-> {}]
Empty   == [kind |-> "empty",  nb |-> NoNotebook, urls |-> {}]
Whole(n, s) == [kind |-> "whole", nb |-> n, urls |-> s]

Init ==
    /\ clock = 1 /\ topic = 0 /\ marker = {}
    /\ video = [f \in Flows |-> [d \in Days |-> Absent]]
    /\ state = [f \in Flows |-> NoState]
    /\ active = NoNotebook
    /\ shell = 0 /\ stage = "none" /\ status = [f \in Flows |-> "todo"]
    /\ pc = [f \in Flows |-> "idle"]
    /\ today = [f \in Flows |-> 1]
    /\ nb = [f \in Flows |-> NoNotebook]
    /\ pending = [f \in Flows |-> {}]
    /\ added = [f \in Flows |-> FALSE]
    /\ made = <<>>
    /\ live = {}
    /\ good = [n \in Notebooks |-> {}]
    /\ bad = [n \in Notebooks |-> {}]
    /\ newest = [n \in Notebooks |-> {}]
    /\ sweeping = 0
    /\ lost = {} /\ faults = 0

Fault   == faults < MaxFaults /\ faults' = faults + 1
NoFault == UNCHANGED faults

Goto(f, p) == pc' = [pc EXCEPT ![f] = p]

\* A script knows nothing yet, or nothing any more.
Forget(f) ==
    /\ today' = [today EXCEPT ![f] = 1]
    /\ nb' = [nb EXCEPT ![f] = NoNotebook]
    /\ pending' = [pending EXCEPT ![f] = {}]
    /\ added' = [added EXCEPT ![f] = FALSE]

\* The flow's part of the run ends; the shell looks at its exit status.
End(f, outcome) ==
    /\ Goto(f, "idle")
    /\ status' = [status EXCEPT ![f] = outcome]
    /\ Forget(f)

Quiet == sweeping = 0 /\ \A f \in Flows : pc[f] = "idle"

-----------------------------------------------------------------------------
(* run_video_flow up to the notebook. *)

\* The Short is for a channel whose long video is out.  A whole video is kept
\* and goes to the upload; an empty one is deleted; a
\* topic that is not today's is refused.
Begin(f) ==
    LET whole == video[f][clock].kind = "whole" IN
    /\ stage = "flows" /\ status[f] = "todo" /\ Quiet
    /\ f \notin Branded => \A g \in Branded : status[g] = "ok"
    /\ IF whole \/ topic = clock
       THEN /\ Goto(f, IF whole THEN "upload" ELSE "ensure")
            /\ today' = [today EXCEPT ![f] = clock]
            /\ UNCHANGED status
       ELSE /\ status' = [status EXCEPT ![f] = "failed"]
            /\ UNCHANGED <<pc, today>>
    /\ video' = IF whole THEN video ELSE [video EXCEPT ![f][clock] = Absent]
    /\ UNCHANGED <<state, active, nb, pending, added, remote, outside, cron,
                   sweeping, lost, faults>>

\* Wrong on purpose: the date in the state file is not looked at.
ReuseAnyDay(f) ==
    LET s == state[f] IN
    /\ pc[f] = "ensure"
    /\ s.nb \in live
    /\ active' = s.nb
    /\ nb' = [nb EXCEPT ![f] = s.nb]
    /\ Goto(f, "list")
    /\ UNCHANGED <<video, state, status, today, pending, added, remote, outside,
                   cron, sweeping, lost, faults>>

\* ensure_notebook: the recorded notebook of today is used if it still exists.
ReuseNotebook(f) ==
    LET s == state[f] IN
    /\ pc[f] = "ensure"
    /\ s.day = today[f] /\ s.nb \in live
    /\ active' = s.nb
    /\ nb' = [nb EXCEPT ![f] = s.nb]
    /\ Goto(f, "list")
    /\ UNCHANGED <<video, state, status, today, pending, added, remote, outside,
                   cron, sweeping, lost, faults>>

\* Otherwise `create <title> --use`: it exists before its id is on disk.
CreateNotebook(f) ==
    LET s == state[f] IN
    /\ pc[f] = "ensure"
    /\ ~(s.day = today[f] /\ s.nb \in live)
    /\ LET n == Len(made) + 1 IN
          /\ n \in Notebooks
          /\ made' = Append(made, <<f, today[f]>>)
          /\ live' = live \cup {n}
          /\ active' = n
          /\ nb' = [nb EXCEPT ![f] = n]
    /\ Goto(f, "save")
    /\ UNCHANGED <<video, state, status, today, pending, added, good, bad,
                   newest, outside, cron, sweeping, lost, faults>>

\* Wrong on purpose: the id is never written down.
NeverSaved(f) ==
    /\ pc[f] = "save"
    /\ Goto(f, "list")
    /\ UNCHANGED <<video, state, active, status, today, nb, pending, added,
                   remote, outside, cron, sweeping, lost, faults>>

SaveState(f) ==
    /\ pc[f] = "save"
    /\ state' = [state EXCEPT ![f] = [day |-> today[f], nb |-> nb[f]]]
    /\ Goto(f, "list")
    /\ UNCHANGED <<video, active, status, today, nb, pending, added, remote,
                   outside, cron, sweeping, lost, faults>>

-----------------------------------------------------------------------------
(* sync_sources, on the active notebook. *)

Wanted(f) == {today[f]} \X Urls
Listed(n) == good[n] \cup bad[n]

\* A url the notebook already lists counts as usable, whatever its status.
ListSources(f) ==
    /\ pc[f] = "list"
    /\ active \in live
    /\ pending' = [pending EXCEPT ![f] = Wanted(f) \ Listed(active)]
    /\ added' = [added EXCEPT ![f] = Wanted(f) \cap Listed(active) # {}]
    /\ Goto(f, "add")
    /\ UNCHANGED <<video, state, active, status, today, nb, remote, outside, cron,
                   sweeping, lost, faults>>

\* `source add`: accepted, and good or bad once the server has read it; or
\* the command fails, which is noted and passed over, whether or not the
\* server took the source.
AddSource(f) ==
    /\ pc[f] = "add"
    /\ active \in live
    /\ \E s \in pending[f] :
          /\ pending' = [pending EXCEPT ![f] = @ \ {s}]
          /\ \/ /\ added' = [added EXCEPT ![f] = TRUE]
                /\ \/ good' = [good EXCEPT ![active] = @ \cup {s}] /\ UNCHANGED bad
                   \/ bad' = [bad EXCEPT ![active] = @ \cup {s}] /\ UNCHANGED good
                /\ NoFault
             \/ /\ Fault
                /\ UNCHANGED <<added, bad>>
                /\ good' \in {good, [good EXCEPT ![active] = @ \cup {s}]}
    /\ UNCHANGED <<video, state, active, status, pc, today, nb, made, live,
                   newest, outside, cron, sweeping, lost>>

\* After the last url: give up when nothing was added, or when the second
\* listing holds nothing but errors; else delete the errors, one by one.
CheckSources(f) ==
    /\ pc[f] = "add" /\ pending[f] = {}
    /\ active \in live
    /\ \/ /\ ~added[f] \/ (bad[active] # {} /\ good[active] = {})
          /\ End(f, "failed")
          /\ NoFault /\ UNCHANGED bad
       \/ /\ added[f] /\ (bad[active] # {} => good[active] # {})
          /\ bad' = [bad EXCEPT ![active] = {}]
          /\ Goto(f, "generate")
          /\ NoFault /\ UNCHANGED <<status, today, nb, pending, added>>
       \/ /\ added[f] /\ bad[active] # {} /\ good[active] # {}
          /\ Fault
          /\ \E left \in SUBSET bad[active] : bad' = [bad EXCEPT ![active] = left]
          /\ End(f, "failed")
    /\ UNCHANGED <<video, state, active, made, live, good, newest, outside, cron,
                   sweeping, lost>>

-----------------------------------------------------------------------------
(* Generation, download, deletion. *)

Generate(f) ==
    /\ pc[f] = "generate"
    /\ active \in live
    /\ newest' = [newest EXCEPT ![active] = good[active]]
    /\ Goto(f, "download")
    /\ UNCHANGED <<video, state, active, status, today, nb, pending, added, made,
                   live, good, bad, outside, cron, sweeping, lost, faults>>

\* --latest of the active notebook, --no-clobber: a file that exists is kept.
\* A download that leaves nothing in the file fails, and the file stays.
Download(f) ==
    /\ pc[f] = "download"
    /\ active \in live /\ newest[active] # {}
    /\ \/ /\ video' = [video EXCEPT ![f][today[f]] =
                IF @ = Absent THEN Whole(active, newest[active]) ELSE @]
          /\ Goto(f, "delete")
          /\ NoFault /\ UNCHANGED <<status, today, nb, pending, added>>
       \/ /\ Fault
          /\ video' = [video EXCEPT ![f][today[f]] = Empty]
          /\ End(f, "failed")
    /\ UNCHANGED <<state, active, remote, outside, cron, sweeping, lost>>

\* _delete_today_notebook: the notebook in the state file, if it is today's;
\* a failure is only a warning.
DeleteNotebook(f) ==
    LET s == state[f] IN
    /\ pc[f] = "delete"
    /\ \/ live' = live \ (IF s.day = today[f] THEN {s.nb} ELSE {}) /\ NoFault
       \/ Fault /\ UNCHANGED live
    /\ Goto(f, "upload")
    /\ UNCHANGED <<video, state, active, status, today, nb, pending, added, made,
                   good, bad, newest, outside, cron, sweeping, lost>>

\* What the shell uploads is the file of its own TODAY, which is not the day
\* of a script that started after midnight.  It takes any file that is there,
\* an empty one too, unless ffmpeg has to read it first.
Usable(f, d) ==
    \/ video[f][d].kind = "whole"
    \/ video[f][d].kind = "empty" /\ f \notin Branded

Upload(f) ==
    /\ pc[f] = "upload"
    /\ End(f, IF Usable(f, shell) THEN "ok" ELSE "failed")
    /\ UNCHANGED <<video, state, active, remote, outside, cron, sweeping, lost,
                   faults>>

\* A command fails, times out or finds its notebook gone, or the script is
\* killed: at "save" the notebook's id is lost with it; at "generate"
\* NotebookLM may finish the video all the same.
Break(f) ==
    /\ pc[f] # "idle"
    /\ \/ Fault
       \/ NoFault /\ pc[f] \in {"list", "add", "generate", "download"}
                  /\ active \notin live
    /\ End(f, "failed")
    /\ lost' = IF pc[f] = "save" THEN lost \cup {nb[f]} ELSE lost
    /\ \/ UNCHANGED newest
       \/ /\ pc[f] = "generate" /\ active \in live
          /\ newest' = [newest EXCEPT ![active] = good[active]]
    /\ UNCHANGED <<video, state, active, made, live, good, bad, outside, cron,
                   sweeping>>

\* The shell script is gone, by its end or with the machine.
Over ==
    /\ shell' = 0 /\ stage' = "none"
    /\ status' = [f \in Flows |-> "todo"]

\* The machine stops as a download lands: the file is left empty.
PowerLoss(f) ==
    /\ pc[f] = "download"
    /\ Fault
    /\ video' = [video EXCEPT ![f][today[f]] = Empty]
    /\ Goto(f, "idle") /\ Forget(f)
    /\ Over
    /\ UNCHANGED <<state, active, remote, outside, sweeping, lost>>

-----------------------------------------------------------------------------
(* run_daily_cron.sh, called at 08:00 and by the catch-up.  It begins with   *)
(* cleanup_notebooks.py.                                                     *)

StartRun ==
    /\ stage = "none"
    /\ shell' = clock /\ stage' = "sweep"
    /\ UNCHANGED <<video, state, active, own, remote, outside, sweeping, lost,
                   faults>>

StartSweep ==
    /\ stage = "sweep" /\ sweeping = 0
    /\ sweeping' = clock
    /\ UNCHANGED <<video, state, active, own, remote, outside, cron, lost,
                   faults>>

\* The gate of both sweeps: an earlier day, and everything done that day.
SafeToDelete(d) == d < sweeping /\ d \in marker

Recorded == {n \in live : \E f \in Flows :
                state[f].nb = n /\ SafeToDelete(state[f].day)}

\* Wrong on purpose: only what the state files name.
RecordedOnly == Recorded

\* By the state files: the notebook each of them names.  By the list: every
\* notebook whose title starts with a date, which finds the lost ones too.
Sweepable == Recorded \cup {n \in live : SafeToDelete(made[n][2])}

\* Deleting is best effort: what fails waits for another day's sweep.
EndSweep ==
    /\ sweeping # 0
    /\ sweeping' = 0 /\ stage' = "daily"
    /\ \/ live' = live \ Sweepable /\ NoFault
       \/ Fault /\ \E kept \in SUBSET Sweepable :
                      live' = (live \ Sweepable) \cup kept
    /\ UNCHANGED <<video, state, active, own, made, good, bad, newest, outside,
                   shell, lost>>

\* run_daily.py has chosen today's topic and collected its sources.
NewTopic ==
    /\ stage = "daily"
    /\ topic' = clock /\ stage' = "flows"
    /\ UNCHANGED <<clock, marker, video, state, active, own, remote, shell,
                   sweeping, lost, faults>>

\* Wrong on purpose: the exit statuses are not looked at.
MarkAnyway == marker' = marker \cup {shell}

\* The script marks its own TODAY when no step of it failed.  What else it
\* runs may have: the auth refresh, another channel.
Mark ==
    \/ UNCHANGED marker
    \/ /\ stage = "flows" /\ \A f \in Flows : status[f] = "ok"
       /\ marker' = marker \cup {shell}

\* The end of the script, also early: run_daily.py failed, or the channel was
\* left at the first step that did.
EndRun ==
    /\ stage \in {"daily", "flows"} /\ Quiet
    /\ Mark
    /\ Over
    /\ UNCHANGED <<clock, topic, video, state, active, pc, today, nb, pending,
                   added, remote, sweeping, lost, faults>>

Midnight ==
    /\ clock < LastDay
    /\ clock' = clock + 1
    /\ UNCHANGED <<topic, marker, video, state, active, own, remote, cron,
                   sweeping, lost, faults>>

-----------------------------------------------------------------------------
Step(f) ==
    \/ ReuseNotebook(f) \/ CreateNotebook(f) \/ SaveState(f)
    \/ ListSources(f) \/ AddSource(f) \/ CheckSources(f)
    \/ Generate(f) \/ Download(f) \/ DeleteNotebook(f) \/ Upload(f)

Next ==
    \/ \E f \in Flows : Begin(f) \/ Step(f) \/ Break(f) \/ PowerLoss(f)
    \/ StartRun \/ StartSweep \/ EndSweep \/ NewTopic \/ EndRun
    \/ Midnight

Spec == Init /\ [][Next]_vars

\* Commands come back (each has a time-out), so a run that has started ends;
\* and the day has its 08:00 run, which begins with the sweep.
FairSpec ==
    /\ Spec
    /\ \A f \in Flows : WF_vars(Step(f) \/ Break(f))
    /\ WF_vars(StartRun) /\ WF_vars(StartSweep) /\ WF_vars(EndSweep)
    /\ WF_vars(EndRun)

-----------------------------------------------------------------------------
(* Properties. *)

Pcs == {"idle", "ensure", "save", "list", "add", "generate", "download",
        "delete", "upload"}

\* Every variable has its type.
TypeOK ==
    /\ clock \in Days /\ topic \in 0..LastDay /\ marker \subseteq Days
    /\ video \in [Flows -> [Days ->
                    [kind : {"absent", "empty", "whole"},
                     nb : Notebooks \cup {NoNotebook}, urls : SUBSET Source]]]
    /\ state \in [Flows -> [day : 0..LastDay,
                             nb : Notebooks \cup {NoNotebook}]]
    /\ active \in Notebooks \cup {NoNotebook}
    /\ shell \in 0..LastDay /\ stage \in {"none", "sweep", "daily", "flows"}
    /\ status \in [Flows -> {"todo", "ok", "failed"}]
    /\ pc \in [Flows -> Pcs] /\ today \in [Flows -> Days]
    /\ nb \in [Flows -> Notebooks \cup {NoNotebook}]
    /\ pending \in [Flows -> SUBSET Source] /\ added \in [Flows -> BOOLEAN]
    /\ made \in Seq(Flows \X Days) /\ Len(made) \in 0..Cardinality(Notebooks)
    /\ live \subseteq 1..Len(made)
    /\ good \in [Notebooks -> SUBSET Source]
    /\ bad \in [Notebooks -> SUBSET Source]
    /\ newest \in [Notebooks -> SUBSET Source]
    /\ sweeping \in 0..LastDay
    /\ lost \subseteq Notebooks /\ faults \in 0..MaxFaults

\* A finished video was generated in that flow's own notebook of that day, and
\* from that day's sources only: the commands act on whatever notebook is
\* active (_cli.py:126-128), which the flows share.
OwnSources ==
    \A f \in Flows, d \in Days : video[f][d].kind = "whole" =>
        /\ made[video[f][d].nb] = <<f, d>>
        /\ video[f][d].urls # {}
        /\ video[f][d].urls \subseteq {d} \X Urls

\* The videos are their own, in a state where every variable has its type.
OwnVideos == TypeOK /\ OwnSources

\* Re-runs of a day do not pile up notebooks: beside those whose id was lost
\* there is never more than one per flow and day (_cli.py:223-248).
OneNotebookADay ==
    \A f \in Flows, d \in Days :
        Cardinality({n \in live \ lost : made[n] = <<f, d>>}) <= 1

\* The same without the exception (README.md:51, "notebooks/sources/videos/
\* uploads are deduplicated"): not so when a run is killed between `create`
\* and the write of the state file.
NeverTwoNotebooks ==
    \A f \in Flows, d \in Days :
        Cardinality({n \in live : made[n] = <<f, d>>}) <= 1

\* A notebook is deleted only when the video it was made for is on disk: a
\* failed day's notebooks are kept to be tried again (cleanup_notebooks.py:8-9,
\* _orchestrator.py:79-82).  The one exception is a flow that is not branded
\* whose file is empty on a day that is past and marked: no status the shell
\* looks at tells it that the file of its own TODAY is empty.
NeededNotebookKept ==
    [][\A n \in live \ live' :
          LET f == made[n][1]
              d == made[n][2]
          IN  \/ video[f][d].kind = "whole"
              \/ /\ video[f][d].kind = "empty" /\ f \notin Branded
                 /\ d < clock /\ d \in marker]_vars

\* The same without the exception, as cleanup_notebooks.py:8-9 has it: a run
\* of the catch-up over midnight marks the old day and looks at the new one's
\* Short only.
OnlyWholeDaysSwept ==
    [][\A n \in live \ live' :
          video[made[n][1]][made[n][2]].kind = "whole"]_vars

\* Once a day is marked and past, every notebook made for it goes, the lost
\* ones too (cleanup_notebooks.py:4-8).
EventuallyClean ==
    \A n \in Notebooks :
        (n \in live /\ made[n][2] < clock /\ made[n][2] \in marker)
            ~> (n \notin live)

=============================================================================
