--------------------------- MODULE DailyAbstract ---------------------------
(***************************************************************************)
(* What the daily run promises whoever watches the channels, without the   *)
(* scripts, their steps, failures and restarts: a channel's story is       *)
(* chosen once a day; every video is published once, tells the story of    *)
(* its day and names no other; a day is marked when all its videos are     *)
(* out.                                                                    *)
(***************************************************************************)
EXTENDS Naturals

CONSTANTS Chan, ShortsCh, Days, Files, Topic, NoTopic, FileName, ZeroBytes, Untold

VARIABLES
    day,
    story,    \* the last story each channel chose
    told,     \* what was published of each file: a title, and what it tells
    marked    \* the days whose videos are out

avars == <<day, story, told, marked>>

Long(c, d) == <<"branded", c, d>>
Short(d)   == <<"shorts", ShortsCh, d>>

VideosOf(d) == {Long(c, d) : c \in Chan} \cup {Short(d)}

AInit ==
    /\ day = 1
    /\ story = [c \in Chan |-> NoTopic]
    /\ told = [f \in Files |-> Untold]
    /\ marked = {}

NextDay ==
    /\ day' = day + 1
    /\ UNCHANGED <<story, told, marked>>

\* A later day's story, never a second one for the same day.
Choose(c) ==
    /\ \E s \in Topic :
          /\ s.date <= day
          /\ story[c] = NoTopic \/ story[c].date < s.date
          /\ story' = [story EXCEPT ![c] = s]
    /\ UNCHANGED <<day, told, marked>>

\* s may be told by the video of channel c for day d: it is that day's, the last
\* one if that is the channel's last day, and what other videos of the day tell.
StoryOf(s, c, d) ==
    /\ s.date = d
    /\ story[c] # NoTopic /\ d <= story[c].date
    /\ d = story[c].date => s = story[c]
    /\ \A v \in VideosOf(d) :
          v[2] = c /\ told[v] # Untold /\ told[v].video # ZeroBytes
              => told[v].video.topic = s

\* The sources are those of the story.  An empty file tells nothing.
Publish(v) ==
    /\ told[v] = Untold
    /\ \E s \in Topic :
          /\ StoryOf(s, v[2], v[3])
          /\ \E title \in {FileName, s}, u \in Topic :
                /\ u.title = s.title
                /\ told' = [told EXCEPT ![v] =
                               [title |-> title, video |-> [topic |-> s, urls |-> u]]]
    /\ UNCHANGED <<day, story, marked>>

PublishEmpty(v) ==
    /\ told[v] = Untold
    /\ \E title \in Topic \cup {FileName} :
          told' = [told EXCEPT ![v] = [title |-> title, video |-> ZeroBytes]]
    /\ UNCHANGED <<day, story, marked>>

Mark(d) ==
    /\ \A v \in VideosOf(d) : told[v] # Untold
    /\ marked' = marked \cup {d}
    /\ UNCHANGED <<day, story, told>>

ANext ==
    \/ NextDay
    \/ \E c \in Chan : Choose(c)
    \/ \E d \in Days : \E v \in VideosOf(d) : Publish(v) \/ PublishEmpty(v)
    \/ \E d \in Days : Mark(d)

ASpec == AInit /\ [][ANext]_avars

=============================================================================
