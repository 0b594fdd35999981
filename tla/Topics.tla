------------------------------- MODULE Topics -------------------------------
(***************************************************************************)
(* The topic of the day and the history that keeps it from coming back:    *)
(* rank_news.main reads topic_history.json, lets Gemini rank what is not   *)
(* in it and writes history and top1.json back, one file after the other;  *)
(* backfill_history.main rebuilds a lost history from the channel's        *)
(* uploads.  One channel; the writers share no lock.                       *)
(*                                                                         *)
(* A piece of news has a title key and a URL key (topic_keys); two pieces  *)
(* tell the same story when they share one of them.                        *)
(***************************************************************************)
EXTENDS Integers, FiniteSets

CONSTANTS
    Items,          \* pieces of news, as [title, url]
    Untitled,       \* the title of an upload whose description does not give it
    Redirects,      \* the URLs of Google News; the other feeds give publishers' URLs
    Titled,         \* the URLs whose summary begins with the title
    HistoryDays,    \* HISTORY_DAYS, 90 in the code
    LastDay,        \* bound: days
    MaxFaults,      \* bound: runs that break, and a lost history
    MaxBackfills,   \* bound: rebuilds
    CarefulRebuild  \* whether the operator rebuilds a lost history before the
                    \* next run, beside no run, and not on the day of a late upload

ASSUME TopicsAssumption ==
    /\ HistoryDays \in Nat \ {0} /\ LastDay \in Nat \ {0}
    /\ MaxFaults \in Nat /\ MaxBackfills \in Nat /\ CarefulRebuild \in BOOLEAN
    /\ \A i \in Items : i.title # Untitled

VARIABLES
    clock,       \* Sydney's calendar
    history,     \* topic_history.json: [date, item]
    top1,        \* top1.json: [date, item], or NoTopic
    published,   \* the channel's uploads: [date, item, on, plain]
    pc, today, seen, chosen,   \* the daily run
    backfill, articles, copy,  \* the rebuild
    lost,        \* history: whether the file was lost and not rebuilt
    before,      \* history: the uploads there were when it was last lost
    faults, backfills

runVars  == <<pc, today, seen, chosen>>
lossVars == <<lost, before, faults>>
fillVars == <<backfill, articles, copy, backfills>>
vars == <<clock, history, top1, published, runVars, fillVars, lossVars>>

Dates   == 1..LastDay
NoItem  == [title |-> "none", url |-> "none"]
NoTopic == [date |-> 0, item |-> NoItem]
Topic   == [date : Dates, item : Items]

\* What a rebuild finds of a piece of news: its URL, and the title if the
\* description begins with it.
Parsed(i) == IF i.url \in Titled THEN i ELSE [title |-> Untitled, url |-> i.url]
Entry     == [date : Dates, item : Items \union {Parsed(i) : i \in Items}]

SameStory(i, j) == (i.title = j.title /\ i.title # Untitled) \/ i.url = j.url

Init ==
    /\ clock = 1 /\ history = {} /\ top1 = NoTopic /\ published = {}
    /\ pc = "idle" /\ today = 1 /\ seen = {} /\ chosen = NoItem
    /\ backfill = "idle" /\ articles = {} /\ copy = {}
    /\ lost = FALSE /\ before = {} /\ faults = 0 /\ backfills = 0

-----------------------------------------------------------------------------
(* The window. *)

InWindow(d, t) == d > t - HistoryDays

\* Wrong on purpose: what the day itself chose blocks the day's re-run.
BlocksToday(h, t) == InWindow(h.date, t)

\* An entry of another day in the window; the day's own does not block.
Blocks(h, t) == h.date # t /\ InWindow(h.date, t)

\* fresh_item_indices, and what pick_topic may take of the ranking.
Fresh(entries, t) ==
    {i \in Items : ~\E h \in entries : Blocks(h, t) /\ SameStory(h.item, i)}

Today == clock

-----------------------------------------------------------------------------
(* The daily run, from run_daily to the upload. *)

Quiet == CarefulRebuild => backfill = "idle" /\ ~lost

\* A day with a video is done; a topic of today is kept; otherwise rank_news
\* reads the history.
Start ==
    /\ pc = "idle" /\ Quiet
    /\ ~\E p \in published : p.date = Today
    /\ today' = Today
    /\ IF top1.date = Today
       THEN pc' = "made" /\ UNCHANGED seen
       ELSE pc' = "rank" /\ seen' = history
    /\ UNCHANGED <<clock, history, top1, published, chosen, fillVars, lossVars>>

\* Nothing fresh: the run fails before Gemini is asked.
NothingFresh ==
    /\ pc = "rank" /\ Fresh(seen, today) = {}
    /\ pc' = "idle"
    /\ UNCHANGED <<clock, history, top1, published, today, seen, chosen, fillVars, lossVars>>

\* Gemini's ranking may put any fresh piece of news first.
Rank ==
    /\ pc = "rank"
    /\ chosen' \in Fresh(seen, today)
    /\ pc' = "write"
    /\ UNCHANGED <<clock, history, top1, published, today, seen, fillVars, lossVars>>

\* The story is noted unless the day has noted it, and the window is cut.
Noted ==
    LET known == \E h \in seen : h.date = today /\ SameStory(h.item, chosen)
        entries == IF known THEN seen ELSE seen \union {[date |-> today, item |-> chosen]}
    IN  {h \in entries : InWindow(h.date, today)}

\* Wrong on purpose: top1.json is written before the history.
WritesSwapped ==
    \/ /\ pc = "write"
       /\ top1' = [date |-> today, item |-> chosen]
       /\ pc' = "written" /\ UNCHANGED history
    \/ /\ pc = "written"
       /\ history' = Noted
       /\ pc' = "made" /\ UNCHANGED top1

\* The history first, then top1.json (ranking.json between them is read by
\* nobody).
Writes ==
    \/ /\ pc = "write"
       /\ history' = Noted
       /\ pc' = "written" /\ UNCHANGED top1
    \/ /\ pc = "written"
       /\ top1' = [date |-> today, item |-> chosen]
       /\ pc' = "made" /\ UNCHANGED history

Write ==
    /\ Writes
    /\ UNCHANGED <<clock, published, today, seen, chosen, fillVars, lossVars>>

\* The video of today's topic goes to the channel.  After midnight a run of the
\* next day may upload it, whose top1.json is another day's: then the
\* description says nothing of the news.
Publish ==
    /\ pc = "made" /\ top1.date = today
    /\ \E plain \in BOOLEAN :
         /\ plain => today < clock
         /\ published' = published \union
              {[date |-> today, item |-> top1.item, on |-> clock, plain |-> plain]}
    /\ pc' = "idle"
    /\ UNCHANGED <<clock, history, top1, today, seen, chosen, fillVars, lossVars>>

\* Any step may fail or be killed; the catch-up starts again.
Break ==
    /\ pc # "idle" /\ faults < MaxFaults
    /\ pc' = "idle" /\ faults' = faults + 1
    /\ UNCHANGED <<clock, history, top1, published, today, seen, chosen, fillVars, lost, before>>

-----------------------------------------------------------------------------
(* The rebuild. *)

\* Wrong on purpose: a video counts for the UTC day of its publication.
DayOfUtc(p) == p.on - 1

DayOf(p) == p.on

\* parse_video: a description without the news or with a publisher's URL is passed over.
Recoverable(p) == ~p.plain /\ p.item.url \in Redirects

\* Of the uploads with one URL the latest.
BackfillFetch ==
    /\ backfill = "idle" /\ backfills < MaxBackfills
    /\ CarefulRebuild => pc = "idle" /\ ~\E p \in published : p.date < clock /\ p.on = clock
    /\ LET uploads == {p \in published : Recoverable(p)}
       IN  articles' = {[date |-> DayOf(p), item |-> Parsed(p.item)] :
                          p \in {q \in uploads : \A r \in uploads :
                                                    r.item.url = q.item.url => r.on <= q.on}}
    /\ backfill' = "read" /\ backfills' = backfills + 1
    /\ UNCHANGED <<clock, history, top1, published, runVars, copy, lossVars>>

BackfillRead ==
    /\ backfill = "read"
    /\ copy' = history
    /\ backfill' = "merge"
    /\ UNCHANGED <<clock, history, top1, published, runVars, articles, backfills, lossVars>>

\* What the history already knows by either key is not added.
Added == {a \in articles : ~\E h \in copy : SameStory(h.item, a.item)}

BackfillWrite ==
    /\ backfill = "merge"
    /\ history' = copy \union Added
    /\ backfill' = "idle"
    /\ lost' = FALSE
    /\ UNCHANGED <<clock, top1, published, runVars, articles, copy, backfills, before, faults>>

-----------------------------------------------------------------------------
(* The machine and the calendar. *)

\* The pipeline moves to a machine without its files.
LoseHistory ==
    /\ pc = "idle" /\ backfill = "idle" /\ faults < MaxFaults
    /\ history' = {} /\ top1' = NoTopic
    /\ lost' = TRUE /\ before' = published /\ faults' = faults + 1
    /\ UNCHANGED <<clock, published, runVars, fillVars>>

Midnight ==
    /\ clock < LastDay
    /\ clock' = clock + 1
    /\ UNCHANGED <<history, top1, published, runVars, fillVars, lossVars>>

Run == Start \/ NothingFresh \/ Rank \/ Write \/ Publish

Rebuild == BackfillFetch \/ BackfillRead \/ BackfillWrite

Next == Run \/ Break \/ Rebuild \/ LoseHistory \/ Midnight

Spec == Init /\ [][Next]_vars

\* The catch-up starts the run again and again; a rebuild that began ends.
FairSpec == Spec /\ WF_vars(Run) /\ WF_vars(BackfillRead \/ BackfillWrite)

-----------------------------------------------------------------------------
\* Every variable has its type: the files of rank_news.py and backfill_history.py.
TypeOK ==
    /\ clock \in Dates /\ today \in Dates
    /\ history \subseteq Entry /\ seen \subseteq Entry
    /\ articles \subseteq Entry /\ copy \subseteq Entry
    /\ top1 \in Topic \union {NoTopic} /\ chosen \in Items \union {NoItem}
    /\ published \subseteq [date : Dates, item : Items, on : Dates, plain : BOOLEAN]
    /\ before \subseteq published
    /\ pc \in {"idle", "rank", "write", "written", "made"}
    /\ backfill \in {"idle", "read", "merge"}
    /\ lost \in BOOLEAN /\ faults \in 0..MaxFaults /\ backfills \in 0..MaxBackfills

\* An upload that the loss of the file has taken from the history for good, and
\* one that came back without its title.
Gone(p) == p \in before /\ ~Recoverable(p)
Bare(p) == p \in before /\ p.item.url \notin Titled

\* Whether the history can still know that an upload tells what a listing tells.
CanTell(p, i) == ~Gone(p) /\ (Bare(p) => p.item.url = i.url)

\* No story is told twice within the window, whatever broke in between, unless
\* the history was lost and the rebuild cannot know: of an upload without a
\* Google News URL, and by its title of one whose description does not give it.
NoRepeat ==
    \A p, q \in published :
        p.date < q.date /\ InWindow(p.date, q.date) /\ CanTell(p, q.item)
        => ~SameStory(p.item, q.item)

\* A video in the window is known to the history, also after a rebuild that could
\* know it: one of its keys is there with a date that still blocks.
Remembered ==
    lost \/ \A p \in published :
               clock - p.date < HistoryDays /\ ~Gone(p)
               => \E h \in history : clock - h.date < HistoryDays /\ SameStory(h.item, p.item)

\* Known limit: "每支影片的描述都帶著當初的 Google News 來源 URL"
\* (backfill_history.py:12), every description carries the news' Google URL.
RebuildKnowsAll ==
    lost \/ \A p \in published :
               clock - p.date < HistoryDays
               => \E h \in history : SameStory(h.item, p.item)

\* The history serves its purpose: well typed, and it knows what is published.
HistoryInv == TypeOK /\ Remembered

\* The last day gets its video when there is a story no other day has used,
\* also if a run broke after it had noted that story.
DayIsServed ==
    (/\ clock = LastDay /\ (pc = "idle" \/ today = LastDay)
     /\ Quiet /\ backfills = MaxBackfills
     /\ \E i \in Items : \A h \in history : h.date # LastDay => ~SameStory(h.item, i))
    ~> (lost \/ \E p \in published : p.date = LastDay)

=============================================================================
