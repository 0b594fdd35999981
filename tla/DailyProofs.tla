----------------------------- MODULE DailyProofs -----------------------------
(***************************************************************************)
(* Proofs about DailyRun for any channels, headlines, days and faults: a   *)
(* marked day is published, a video tells its day's story from the sources *)
(* collected for it, its title tells the same, and a day's topic is chosen *)
(* once.  At the end, about the step that brands a video, as Branding has  *)
(* it: what the daily run uploads is whole and of the present video.       *)
(***************************************************************************)
EXTENDS DailyRun, Branding, TLAPS

InChannel == {"daily", "rank", "ranking", "collect", "video", "generate", "brand", "upload"}

\* The sources of a channel are those of its topic.
Ready(c) == HasInputs(c) /\ sources[c].title = top1[c].title

\* No date is ahead of the calendar.
DatesInv ==
    /\ TODAY <= clock /\ today <= clock
    /\ \A c \in Chan : top1[c] # NoTopic => top1[c].date <= clock

\* A file that exists is of a day whose topic its channel has, or had before; of
\* the channel's present topic it tells the story, from its sources.
Dated(f) ==
    content[f] # AbsentFile =>
        /\ top1[f[2]] # NoTopic /\ f[3] <= top1[f[2]].date
        /\ f[3] = top1[f[2]].date => Ready(f[2])
        /\ Usable(f) =>
            /\ content[f].topic.date = f[3]
            /\ content[f].urls.title = content[f].topic.title
            /\ f[3] = top1[f[2]].date => content[f].topic = top1[f[2]]

\* Where the run is, and what it has there.
PlaceInv ==
    /\ pc \in {"rank", "ranking"} => (top1[C] = NoTopic \/ top1[C].date < today)
    /\ pc = "collect" => top1[C] # NoTopic
    /\ pc \in {"video", "generate", "brand", "upload"} => Ready(C)
    /\ pc = "generate" => top1[C].date = today /\ content[Video(C, today)] = AbsentFile
    /\ SHORTS_OK => Ready(ShortsCh)
    /\ pc = "shortsGenerate" =>
        /\ SHORTS_OK /\ top1[ShortsCh].date = today
        /\ content[Shorts(today)] = AbsentFile

\* What a run without a failure has published so far.
PublishedInv ==
    /\ ~FAILED /\ pc \in InChannel =>
        \A i \in 1..(ch - 1) : uploaded[Branded(Channels[i], TODAY)] # AbsentFile
    /\ ~FAILED /\ pc \in {"shorts", "shortsGenerate", "shortsUpload", "end"} =>
        \A c \in Chan : uploaded[Branded(c, TODAY)] # AbsentFile
    /\ ~FAILED /\ pc = "end" => uploaded[Shorts(TODAY)] # AbsentFile

\* The channels before the present one do not come again.
Behind ==
    SHORTS_OK /\ pc \in InChannel => \E i \in 1..(ch - 1) : Channels[i] = ShortsCh

IInv ==
    /\ TypeOK /\ DatesInv /\ (\A f \in Files : Dated(f)) /\ PlaceInv /\ Behind
    /\ PublishedInv /\ MarkedIsPublished /\ TitleTellsTheStory /\ OneStoryADay

-----------------------------------------------------------------------------
(* The files and the channels. *)

\* Each file has its channel and its day.
LEMMA Places ==
    /\ ShortsCh \in Chan
    /\ \A c \in Chan, d \in Days :
        /\ Video(c, d) \in Files /\ Video(c, d)[2] = c /\ Video(c, d)[3] = d
        /\ Branded(c, d) \in Files /\ Branded(c, d)[2] = c /\ Branded(c, d)[3] = d
        /\ Video(c, d) # Branded(c, d)
    /\ \A d \in Days :
        /\ Shorts(d) \in Files /\ Shorts(d)[2] = ShortsCh /\ Shorts(d)[3] = d
    /\ \A f \in Files : f[2] \in Chan /\ f[3] \in Days
<1>1. ShortsCh \in Chan
  BY DailyRunAssumption
<1>2. ASSUME NEW c \in Chan, NEW d \in Days
      PROVE  /\ Video(c, d) \in Files /\ Video(c, d)[2] = c /\ Video(c, d)[3] = d
             /\ Branded(c, d) \in Files /\ Branded(c, d)[2] = c /\ Branded(c, d)[3] = d
             /\ Video(c, d) # Branded(c, d)
  BY DEF Files, Video, Branded
<1>3. ASSUME NEW d \in Days
      PROVE  Shorts(d) \in Files /\ Shorts(d)[2] = ShortsCh /\ Shorts(d)[3] = d
  BY DEF Files, Shorts
<1>4. ASSUME NEW f \in Files PROVE f[2] \in Chan /\ f[3] \in Days
  BY <1>1 DEF Files, Video, Branded, Shorts
<1> QED
  BY <1>1, <1>2, <1>3, <1>4

\* The channel at hand is one of them.
LEMMA ChannelTyped == TypeOK => C \in Chan
BY DEF TypeOK, C, Chan

\* What stands for no file or no topic is none of the files and topics.
LEMMA Distinct ==
    /\ AbsentFile # ZeroBytes /\ NoTopic \notin Topic /\ FileName \notin Topic
    /\ \A x \in Content : x # AbsentFile /\ x # ZeroBytes
    /\ \A t \in Topic \union {FileName}, v \in Content \union {ZeroBytes} :
        [title |-> t, video |-> v] # AbsentFile
<1>1. ASSUME NEW t \in Topic \union {FileName}, NEW v \in Content \union {ZeroBytes}
      PROVE  [title |-> t, video |-> v] # AbsentFile
  <2>1. [title |-> t, video |-> v]
          \in [title : Topic \union {FileName}, video : Content \union {ZeroBytes}]
    OBVIOUS
  <2> QED
    BY <2>1, DailyRunDistinct
<1> QED
  BY <1>1, DailyRunDistinct

\* The initial state.
LEMMA InitInv == Init => IInv
<1> SUFFICES ASSUME Init PROVE IInv
  OBVIOUS
<1>1. 1 \in Days /\ 1 \in 1..Len(Channels) /\ LastDay \in Nat
  BY DailyRunAssumption DEF Days
<1>2. /\ \A f \in Files : content[f] = AbsentFile /\ uploaded[f] = AbsentFile
      /\ \A c \in Chan : top1[c] = NoTopic
      /\ clock = 1 /\ TODAY = 1 /\ today = 1 /\ pc = "idle" /\ marker = {} /\ ~SHORTS_OK
  BY DEF Init
<1>3. TypeOK
  <2>1. /\ top1 \in [Chan -> Topic \union {NoTopic}] /\ sources \in [Chan -> Topic \union {NoTopic}]
        /\ content \in [Files -> Content \union {AbsentFile, ZeroBytes}]
        /\ uploaded \in [Files -> [title : Topic \union {FileName},
                               video : Content \union {ZeroBytes}] \union {AbsentFile}]
    BY DEF Init
  <2>2. /\ clock \in Days /\ TODAY \in Days /\ today \in Days /\ ch \in 1..Len(Channels)
        /\ faults \in 0..MaxFaults /\ ran = {} /\ marker = {} /\ outdated = {} /\ pc = "idle"
        /\ FAILED = FALSE /\ SHORTS_OK = FALSE
    BY <1>1, DailyRunAssumption DEF Init
  <2> QED
    BY <2>1, <2>2 DEF TypeOK, Pcs
<1>4. DatesInv /\ (\A f \in Files : Dated(f)) /\ PlaceInv /\ Behind /\ PublishedInv
  BY <1>2 DEF DatesInv, Dated, PlaceInv, Behind, PublishedInv, InChannel
<1>5. MarkedIsPublished /\ TitleTellsTheStory
  BY <1>2 DEF MarkedIsPublished, TitleTellsTheStory
<1>6. OneStoryADay
  BY <1>2, Places DEF OneStoryADay, Usable
<1> QED
  BY <1>3, <1>4, <1>5, <1>6 DEF IInv

-----------------------------------------------------------------------------
(* Types. *)

\* Every step keeps the types.
LEMMA TypeStep == IInv /\ [Next]_vars => TypeOK'
<1> SUFFICES ASSUME TypeOK, PlaceInv, [Next]_vars PROVE TypeOK'
  BY DEF IInv
<1> USE DailyRunAssumption, ChannelTyped, Places DEF TypeOK, Pcs
<1>1. ASSUME NEW ok \in BOOLEAN, BeginRun(ok), ran' \subseteq Days PROVE TypeOK'
  <2>1. UNCHANGED disk /\ UNCHANGED <<clock, marker, today>>
    BY <1>1 DEF BeginRun
  <2>2. /\ pc' = "daily" /\ TODAY' \in Days /\ ch' \in 1..Len(Channels)
        /\ FAILED' \in BOOLEAN /\ SHORTS_OK' \in BOOLEAN
    <3>1. ch' = 1 /\ pc' = "daily" /\ TODAY' = clock
      BY <1>1 DEF BeginRun
    <3>2. FAILED' \in BOOLEAN /\ SHORTS_OK' \in BOOLEAN
      BY <1>1, Zenon DEF BeginRun
    <3> QED
      BY <3>1, <3>2
  <2>3. faults' \in 0..MaxFaults
    BY <1>1 DEF BeginRun, Fault, NoFault
  <2> QED
    BY <1>1, <2>1, <2>2, <2>3 DEF disk
<1>2. ASSUME NEW ok \in BOOLEAN, MainRun(ok) \/ CatchupRun(ok) PROVE TypeOK'
  BY <1>1, <1>2 DEF MainRun, CatchupRun
<1>3. CASE EndRun
  BY <1>3 DEF EndRun, disk, run
<1>4. CASE DailyStart \/ RankStart
  BY <1>4 DEF DailyStart, RankStart, Then, world, disk, run
<1>5. CASE RankDone
  <2>1. PICK t \in Titles : top1' = [top1 EXCEPT ![C] = [date |-> today, title |-> t]]
    BY <1>5 DEF RankDone
  <2>2. [date |-> today, title |-> t] \in Topic
    BY DEF Topic
  <2>3. top1' \in [Chan -> Topic \union {NoTopic}]
    BY <2>1, <2>2
  <2> QED
    BY <1>5, <2>3 DEF RankDone, Then, world, run
<1>6. CASE CollectDone
  BY <1>6 DEF CollectDone, Then, world, run
<1>7. ASSUME NextChannel PROVE pc' \in Pcs /\ ch' \in 1..Len(Channels)
  BY <1>7 DEF NextChannel
<1>8. ASSUME ChannelFails \/ \E p \in Pcs : Then(p)
      PROVE  /\ pc' \in Pcs /\ ch' \in 1..Len(Channels) /\ TODAY' \in Days
             /\ FAILED' \in BOOLEAN /\ SHORTS_OK' \in BOOLEAN
  BY <1>7, <1>8 DEF ChannelFails, Then, run
<1>9. ASSUME NEW f \in Files
      PROVE  Unlinked(f) \in [Files -> Content \union {AbsentFile, ZeroBytes}]
  BY DEF Unlinked
<1>10. ASSUME NEW c \in Chan, NEW f \in Files, HasInputs(c)
       PROVE  Generated(c, f) \in [Files -> Content \union {AbsentFile, ZeroBytes}]
  <2>1. [topic |-> top1[c], urls |-> sources[c]] \in Content
    BY <1>10 DEF HasInputs, Content
  <2> QED
    BY <2>1 DEF Generated
<1>11. CASE VideoStart
  <2>1. content' \in [Files -> Content \union {AbsentFile, ZeroBytes}] /\ today' \in Days
    BY <1>9, <1>11 DEF VideoStart, FlowStart
  <2>2. ChannelFails \/ \E p \in Pcs : Then(p)
    BY <1>11 DEF VideoStart, FlowStart
  <2> QED
    BY <1>8, <1>11, <2>1, <2>2 DEF VideoStart, world
<1>12. CASE VideoDone
  <2>1. HasInputs(C)
    BY <1>12 DEF VideoDone, PlaceInv, Ready
  <2>2. content' \in [Files -> Content \union {AbsentFile, ZeroBytes}]
    BY <1>10, <1>12, <2>1 DEF VideoDone
  <2>3. outdated' \subseteq Files
    BY <1>12 DEF VideoDone
  <2> QED
    BY <1>12, <2>2, <2>3 DEF VideoDone, Then, world, run
<1>13. CASE Brand
  <2>1. content' \in [Files -> Content \union {AbsentFile, ZeroBytes}] /\ outdated' \subseteq Files
    <3>1. /\ Video(C, TODAY) \in Files /\ Branded(C, TODAY) \in Files
      OBVIOUS
    <3>2. CASE UNCHANGED <<content, outdated>>
      BY <3>2
    <3>3. CASE /\ Usable(Video(C, TODAY))
               /\ content' = [content EXCEPT ![Branded(C, TODAY)] = content[Video(C, TODAY)]]
               /\ outdated' = outdated \ {Branded(C, TODAY)}
      BY <3>1, <3>3
    <3> QED
      BY <1>13, <3>2, <3>3 DEF Brand
  <2>2. ChannelFails \/ \E p \in Pcs : Then(p)
    BY <1>13 DEF Brand
  <2> QED
    BY <1>8, <1>13, <2>1, <2>2 DEF Brand, world
<1>14. ASSUME NEW f \in Files, content[f] # AbsentFile, Publish(f)
       PROVE  uploaded' \in [Files -> [title : Topic \union {FileName},
                               video : Content \union {ZeroBytes}] \union {AbsentFile}]
  <2>1. TitleFor(f) \in Topic \union {FileName}
    BY DEF TitleFor
  <2>2. [title |-> TitleFor(f), video |-> content[f]]
          \in [title : Topic \union {FileName}, video : Content \union {ZeroBytes}]
    BY <1>14, <2>1
  <2> QED
    BY <1>14, <2>2 DEF Publish
<1>15. CASE Upload
  BY <1>7, <1>14, <1>15 DEF Upload, world
<1>16. ASSUME NEW p \in Pcs, ShortsFails(p) \/ Then(p)
       PROVE  /\ pc' \in Pcs /\ ch' \in 1..Len(Channels) /\ TODAY' \in Days
              /\ FAILED' \in BOOLEAN /\ SHORTS_OK' \in BOOLEAN
  BY <1>16 DEF ShortsFails, Then, run
<1>17. CASE ShortsStart
  <2>1. content' \in [Files -> Content \union {AbsentFile, ZeroBytes}] /\ today' \in Days
    BY <1>9, <1>17 DEF ShortsStart, FlowStart
  <2>2. \E p \in Pcs : ShortsFails(p) \/ Then(p)
    BY <1>17 DEF ShortsStart, FlowStart
  <2> QED
    BY <1>16, <1>17, <2>1, <2>2 DEF ShortsStart, world
<1>18. CASE ShortsDone
  <2>1. HasInputs(ShortsCh)
    BY <1>18 DEF ShortsDone, PlaceInv, Ready
  <2>2. content' \in [Files -> Content \union {AbsentFile, ZeroBytes}]
    BY <1>10, <1>18, <2>1 DEF ShortsDone
  <2> QED
    BY <1>18, <2>2 DEF ShortsDone, Then, world, run
<1>19. CASE ShortsUpload
  <2>1. \E p \in Pcs : ShortsFails(p) \/ Then(p)
    BY <1>19 DEF ShortsUpload
  <2>2. uploaded' \in [Files -> [title : Topic \union {FileName},
                               video : Content \union {ZeroBytes}] \union {AbsentFile}]
    BY <1>14, <1>19 DEF ShortsUpload
  <2> QED
    BY <1>16, <1>19, <2>1, <2>2 DEF ShortsUpload, world
<1>20. CASE StepFails
  <2>1. /\ pc' \in Pcs /\ ch' \in 1..Len(Channels) /\ TODAY' \in Days
        /\ FAILED' \in BOOLEAN /\ SHORTS_OK' \in BOOLEAN
    BY <1>8, <1>16, <1>20 DEF StepFails
  <2> QED
    BY <1>20, <2>1 DEF StepFails, Fault, world, disk
<1>21. CASE Kill
  BY <1>21 DEF Kill, Fault, world, disk, run
<1>22. CASE PowerLoss
  BY <1>22 DEF PowerLoss, Fault, world, run
<1>25. CASE EmptyDownload
  <2>1. /\ pc' \in Pcs /\ ch' \in 1..Len(Channels) /\ TODAY' \in Days
        /\ FAILED' \in BOOLEAN /\ SHORTS_OK' \in BOOLEAN
    BY <1>8, <1>16, <1>25 DEF EmptyDownload
  <2>2. content' \in [Files -> Content \union {AbsentFile, ZeroBytes}]
    BY <1>25 DEF EmptyDownload
  <2>3. UNCHANGED <<clock, ran, marker, top1, sources, outdated, uploaded, today>>
        /\ faults' \in 0..MaxFaults
    BY <1>25 DEF EmptyDownload, Fault, world
  <2> QED
    BY <1>25, <2>1, <2>2, <2>3 DEF EmptyDownload
<1>23. CASE Midnight
  <2>1. clock' \in Days
    BY <1>23 DEF Midnight, Days
  <2> QED
    BY <1>23, <2>1 DEF Midnight, disk, run
<1>24. CASE UNCHANGED vars
  BY <1>24 DEF vars
<1> QED
  BY <1>2, <1>3, <1>4, <1>5, <1>6, <1>11, <1>12, <1>13, <1>15, <1>17, <1>18, <1>19, <1>20, <1>21,
     <1>22, <1>25, <1>23, <1>24 DEF Next, Step

-----------------------------------------------------------------------------
(* Dates, topics and contents. *)

\* Two steps that change what the files tell or might: all others do not.
LEMMA DatedSame ==
    ASSUME \A f \in Files : Dated(f), UNCHANGED <<top1, sources, content>>
    PROVE  \A f \in Files : Dated(f)'
BY DEF Dated, Ready, HasInputs, Usable

\* One file is written, and of its day; the others are as they were.
LEMMA DatedOne ==
    ASSUME TypeOK, \A f \in Files : Dated(f), UNCHANGED <<top1, sources>>,
           NEW g \in Files, \A f \in Files \ {g} : content'[f] = content[f], Dated(g)'
    PROVE  \A f \in Files : Dated(f)'
<1> SUFFICES ASSUME NEW f \in Files, f # g PROVE Dated(f)'
  OBVIOUS
<1> QED
  BY DEF Dated, Ready, HasInputs, Usable

\* A new topic is of a later day than all there is.
LEMMA DatedRank ==
    ASSUME IInv, RankDone
    PROVE  \A f \in Files : Dated(f)'
<1> USE DEF IInv
<1>1. PICK t \in Titles : top1' = [top1 EXCEPT ![C] = [date |-> today, title |-> t]]
  BY DEF RankDone
<1>2. UNCHANGED <<sources, content>> /\ pc = "ranking" /\ C \in Chan
  BY ChannelTyped DEF RankDone
<1> SUFFICES ASSUME NEW f \in Files PROVE Dated(f)'
  OBVIOUS
<1>3. CASE f[2] # C
  <2>1. top1'[f[2]] = top1[f[2]]
    BY <1>1, <1>2, <1>3, Places DEF TypeOK
  <2> QED
    BY <1>2, <2>1 DEF Dated, Ready, HasInputs, Usable
<1>4. CASE f[2] = C
  <2>1. top1'[C] = [date |-> today, title |-> t] /\ top1'[C] # NoTopic
    <3>1. [date |-> today, title |-> t] \in Topic
      BY DEF Topic, TypeOK
    <3> QED
      BY <1>1, <1>2, <3>1, Distinct DEF TypeOK
  <2>2. content[f] # AbsentFile => f[3] < today
    <3>1. top1[C] = NoTopic \/ top1[C].date < today
      BY <1>2 DEF PlaceInv
    <3>2. content[f] # AbsentFile => top1[C] # NoTopic /\ f[3] <= top1[C].date
      BY <1>4 DEF Dated
    <3>3. f[3] \in Nat /\ today \in Nat /\ (top1[C] # NoTopic => top1[C].date \in Nat)
      BY <1>2, Places, DailyRunAssumption DEF TypeOK, Topic, Days
    <3> QED
      BY <3>1, <3>2, <3>3
  <2>3. f[3] \in Nat /\ today \in Nat
    BY Places, DailyRunAssumption DEF TypeOK, Days
  <2>4. content[f] # AbsentFile => f[3] <= top1'[C].date /\ f[3] # top1'[C].date
    BY <2>1, <2>2, <2>3
  <2>5. Usable(f) => /\ content[f].topic.date = f[3]
                     /\ content[f].urls.title = content[f].topic.title
    BY DEF Dated, Usable
  <2> QED
    BY <1>2, <1>4, <2>1, <2>4, <2>5 DEF Dated, Usable
<1> QED
  BY <1>3, <1>4

\* New sources do not make an older video tell another story.
LEMMA DatedCollect ==
    ASSUME IInv, CollectDone
    PROVE  (\A f \in Files : Dated(f)') /\ Ready(C)'
<1> USE DEF IInv
<1>1. /\ UNCHANGED <<top1, content, ch>> /\ pc = "collect" /\ C \in Chan /\ C' = C
      /\ sources' = [sources EXCEPT ![C] = top1[C]] /\ top1[C] # NoTopic
  BY ChannelTyped DEF CollectDone, Then, run, PlaceInv, C
<1>2. Ready(C)'
  BY <1>1 DEF Ready, HasInputs, TypeOK
<1>3. \A c \in Chan : Ready(c) => Ready(c)'
  BY <1>1 DEF Ready, HasInputs, TypeOK
<1>4. \A f \in Files : Dated(f)'
  BY <1>1, <1>3, Places DEF Dated, Usable
<1> QED
  BY <1>2, <1>4

\* An empty file is deleted.
LEMMA DatedUnlinked ==
    ASSUME TypeOK, \A f \in Files : Dated(f), NEW g \in Files, content' = Unlinked(g),
           UNCHANGED <<top1, sources>>
    PROVE  \A f \in Files : Dated(f)'
<1>1. \A f \in Files \ {g} : content'[f] = content[f]
  BY DEF Unlinked, TypeOK
<1>2. content'[g] = AbsentFile \/ content'[g] = content[g]
  BY DEF Unlinked, TypeOK
<1>3. Dated(g)'
  BY <1>2 DEF Dated, Ready, HasInputs, Usable
<1> QED
  BY <1>1, <1>3, DatedOne

\* A video of a channel's topic, on the topic's day.
LEMMA DatedGenerated ==
    ASSUME TypeOK, \A f \in Files : Dated(f), NEW g \in Files, Ready(g[2]),
           top1[g[2]].date = g[3], content' = Generated(g[2], g), UNCHANGED <<top1, sources>>
    PROVE  \A f \in Files : Dated(f)'
<1>1. \A f \in Files \ {g} : content'[f] = content[f]
  BY DEF Generated, TypeOK
<1>2. \/ content'[g] = content[g]
      \/ content'[g] = [topic |-> top1[g[2]], urls |-> sources[g[2]]]
  BY DEF Generated, TypeOK
<1>3. g[3] \in Nat
  BY Places, DailyRunAssumption DEF Days
<1>4. Dated(g)'
  BY <1>2, <1>3 DEF Dated, Ready, HasInputs, Usable
<1> QED
  BY <1>1, <1>4, DatedOne

\* Every step leaves the files telling their day's story.
LEMMA DatedStep == IInv /\ [Next]_vars => \A f \in Files : Dated(f)'
<1> SUFFICES ASSUME IInv, [Next]_vars PROVE \A f \in Files : Dated(f)'
  OBVIOUS
<1> USE ChannelTyped, Places DEF IInv
<1>1. /\ today \in Days /\ TODAY \in Days /\ clock \in Days /\ C \in Chan
      /\ \A f \in Files : Dated(f)
  BY DEF TypeOK
<1>2. CASE VideoStart
  <2>1. UNCHANGED <<top1, sources>> /\ (UNCHANGED content \/ content' = Unlinked(Video(C, clock)))
    BY <1>2 DEF VideoStart, FlowStart
  <2> QED
    BY <1>1, <2>1, DatedUnlinked, DatedSame
<1>3. CASE VideoDone
  <2>1. /\ UNCHANGED <<top1, sources>> /\ content' = Generated(C, Video(C, today))
        /\ Ready(C) /\ top1[C].date = today
    BY <1>3 DEF VideoDone, PlaceInv
  <2> QED
    BY <1>1, <2>1, DatedGenerated
<1>4. CASE Brand
  <2>1. UNCHANGED <<top1, sources>>
    BY <1>4 DEF Brand
  <2>2. \/ UNCHANGED content
        \/ /\ content' = [content EXCEPT ![Branded(C, TODAY)] = content[Video(C, TODAY)]]
           /\ Usable(Video(C, TODAY))
    BY <1>4 DEF Brand
  <2>3. CASE UNCHANGED content
    BY <1>1, <2>1, <2>3, DatedSame
  <2>4. CASE /\ content' = [content EXCEPT ![Branded(C, TODAY)] = content[Video(C, TODAY)]]
             /\ Usable(Video(C, TODAY))
    <3>0. PICK b \in Files, v \in Files : b = Branded(C, TODAY) /\ v = Video(C, TODAY)
      BY <1>1
    <3>1. /\ b \in Files /\ v \in Files /\ b[2] = v[2] /\ b[3] = v[3]
          /\ \A f \in Files \ {b} : content'[f] = content[f]
          /\ content'[b] = content[v]
      BY <1>1, <2>4, <3>0 DEF TypeOK
    <3>2. Dated(v)
      BY <3>1
    <3>4. content[v] # AbsentFile
      BY <2>4, <3>0 DEF Usable
    <3>3. Dated(b)'
      BY <2>1, <3>1, <3>2, <3>4 DEF Dated, Ready, HasInputs, Usable
    <3> QED
      BY <1>1, <2>1, <3>1, <3>3, DatedOne
  <2> QED
    BY <2>2, <2>3, <2>4
<1>5. CASE ShortsStart
  <2>1. UNCHANGED <<top1, sources>> /\ (UNCHANGED content \/ content' = Unlinked(Shorts(clock)))
    BY <1>5 DEF ShortsStart, FlowStart
  <2> QED
    BY <1>1, <2>1, DatedUnlinked, DatedSame
<1>6. CASE ShortsDone
  <2>1. /\ UNCHANGED <<top1, sources>> /\ content' = Generated(ShortsCh, Shorts(today))
        /\ Ready(ShortsCh) /\ top1[ShortsCh].date = today
    BY <1>6 DEF ShortsDone, PlaceInv
  <2> QED
    BY <1>1, <2>1, DatedGenerated
<1>7. CASE PowerLoss \/ EmptyDownload
  <2>0. PICK g \in Files : g = IF pc = "generate" THEN Video(C, today) ELSE Shorts(today)
    BY <1>1
  <2>1. /\ g \in Files /\ content' = [content EXCEPT ![g] = ZeroBytes]
        /\ UNCHANGED <<top1, sources>>
    BY <1>1, <1>7, <2>0 DEF PowerLoss, EmptyDownload
  <2>2. Ready(g[2]) /\ top1[g[2]].date = g[3] /\ g[3] \in Nat
    BY <1>1, <1>7, <2>0, DailyRunAssumption DEF PowerLoss, EmptyDownload, PlaceInv, Days
  <2>3. (\A f \in Files \ {g} : content'[f] = content[f]) /\ content'[g] = ZeroBytes
    BY <2>1 DEF TypeOK
  <2>4. Dated(g)'
    BY <2>1, <2>2, <2>3 DEF Dated, Ready, HasInputs, Usable
  <2> QED
    BY <1>1, <2>1, <2>3, <2>4, DatedOne
<1>8. CASE RankDone
  BY <1>8, DatedRank
<1>9. CASE CollectDone
  BY <1>9, DatedCollect
<1>10. CASE \/ \E ok \in BOOLEAN : MainRun(ok) \/ CatchupRun(ok)
            \/ DailyStart \/ RankStart \/ Upload \/ ShortsUpload \/ EndRun
            \/ StepFails \/ Kill \/ Midnight \/ UNCHANGED vars
  <2>1. UNCHANGED <<top1, sources, content>>
    BY <1>10 DEF MainRun, CatchupRun, BeginRun, DailyStart, RankStart, Upload, ShortsUpload,
       EndRun, StepFails, Kill, Midnight, vars, disk
  <2> QED
    BY <1>1, <2>1, DatedSame
<1> QED
  BY <1>2, <1>3, <1>4, <1>5, <1>6, <1>7, <1>8, <1>9, <1>10 DEF Next, Step

\* No step puts a date ahead of the calendar.
LEMMA DatesStep == IInv /\ [Next]_vars => DatesInv'
<1> SUFFICES ASSUME IInv, [Next]_vars PROVE DatesInv'
  OBVIOUS
<1> USE DEF IInv, DatesInv
<1>1. /\ clock \in Nat /\ TODAY \in Nat /\ today \in Nat
      /\ \A c \in Chan : top1[c] # NoTopic => top1[c].date \in Nat
  BY DailyRunAssumption DEF TypeOK, Days, Topic
<1>2. CASE RankDone
  BY <1>1, <1>2 DEF RankDone, Then, world, run, TypeOK
<1>3. CASE Midnight
  BY <1>1, <1>3 DEF Midnight, disk, run
<1>4. CASE \E ok \in BOOLEAN : MainRun(ok) \/ CatchupRun(ok)
  BY <1>1, <1>4 DEF MainRun, CatchupRun, BeginRun, disk
<1>5. CASE DailyStart \/ RankStart \/ VideoStart \/ ShortsStart
  <2>1. today' = clock \/ today' = today
    BY <1>5 DEF DailyStart, RankStart, VideoStart, ShortsStart, FlowStart
  <2>2. UNCHANGED <<clock, TODAY, top1>>
    BY <1>5 DEF DailyStart, RankStart, VideoStart, ShortsStart, FlowStart, Then, ChannelFails,
       ShortsFails, run, world, disk
  <2> QED
    BY <1>1, <2>1, <2>2
<1>6. CASE \/ CollectDone \/ VideoDone \/ Brand \/ Upload \/ ShortsDone \/ ShortsUpload \/ EndRun
           \/ StepFails \/ Kill \/ PowerLoss \/ EmptyDownload \/ UNCHANGED vars
  <2>1. UNCHANGED <<clock, TODAY, today, top1>>
    BY <1>6 DEF CollectDone, VideoDone, Brand, Upload, ShortsDone, ShortsUpload, EndRun,
       StepFails, Kill, PowerLoss, EmptyDownload, Then, ChannelFails, ShortsFails, NextChannel,
       world, run, disk, vars
  <2> QED
    BY <2>1
<1> QED
  BY <1>2, <1>3, <1>4, <1>5, <1>6 DEF Next, Step

-----------------------------------------------------------------------------
(* The place of the run. *)

\* The channel at hand is not that of the Short, once that has succeeded.
LEMMA NotTheShorts ==
    ASSUME TypeOK, Behind, SHORTS_OK, pc \in InChannel
    PROVE  C # ShortsCh
<1>1. PICK i \in 1..(ch - 1) : Channels[i] = ShortsCh
  BY DEF Behind
<1>2. i \in 1..Len(Channels) /\ ch \in 1..Len(Channels) /\ i # ch
  BY <1>1, DailyRunAssumption DEF TypeOK
<1> QED
  BY <1>1, <1>2, DailyRunAssumption DEF C

\* Where the run is can only hold less when it goes on to the next channel, ends or
\* fails.
LEMMA PlaceElsewhere ==
    ASSUME PlaceInv, UNCHANGED <<top1, sources>>, SHORTS_OK' => SHORTS_OK,
           pc' \in {"idle", "daily", "shorts", "shortsUpload", "end"}
    PROVE  PlaceInv'
BY DEF PlaceInv, Ready, HasInputs

\* The run's place fits what it finds there.
LEMMA PlaceStep == IInv /\ [Next]_vars => PlaceInv'
<1> SUFFICES ASSUME IInv, [Next]_vars PROVE PlaceInv'
  OBVIOUS
<1> USE ChannelTyped, Places DEF IInv
<1>1. /\ today \in Days /\ TODAY \in Days /\ clock \in Days /\ C \in Chan
      /\ \A d \in Days : d \in Nat
  BY DailyRunAssumption DEF TypeOK, Days
<1>2. UNCHANGED ch => C' = C
  BY DEF C
<1>3. UNCHANGED <<top1, sources>> => \A c \in Chan : Ready(c)' = Ready(c)
  BY DEF Ready, HasInputs
<1>4. SHORTS_OK => Ready(ShortsCh)
  BY DEF PlaceInv
<1>5. CASE DailyStart
  <2>1. /\ today' = clock /\ UNCHANGED <<top1, sources, content, ch, SHORTS_OK>>
        /\ pc' \in {"rank", "collect", "video"}
    BY <1>5 DEF DailyStart, Then, disk, run
  <2>2. ASSUME pc' = "rank" PROVE top1[C] = NoTopic \/ top1[C].date < clock
    <3>1. ~Locked(C, clock)
      BY <1>5, <2>2 DEF DailyStart, Then
    <3>2. top1[C] # NoTopic => top1[C].date \in Nat /\ top1[C].date <= clock /\ top1[C].date # clock
      BY <1>1, <3>1 DEF Locked, DatesInv, TypeOK, Topic
    <3> QED
      BY <1>1, <3>2
  <2>3. ASSUME pc' = "collect" PROVE top1[C] # NoTopic
    BY <1>5, <2>3 DEF DailyStart, Then, Locked
  <2>4. ASSUME pc' = "video" PROVE Ready(C)
    <3>1. CASE content[Video(C, clock)] # AbsentFile
      <4>1. Dated(Video(C, clock))
        BY <1>1
      <4>2. /\ top1[C] # NoTopic /\ clock <= top1[C].date
            /\ clock = top1[C].date => Ready(C)
        BY <1>1, <3>1, <4>1 DEF Dated
      <4>3. top1[C].date \in Nat /\ top1[C].date <= clock
        BY <1>1, <4>2 DEF DatesInv, TypeOK, Topic
      <4> QED
        BY <1>1, <4>2, <4>3
    <3>2. CASE content[Video(C, clock)] = AbsentFile
      BY <1>5, <2>4, <3>2 DEF DailyStart, Then, Locked, Collected, Ready, HasInputs
    <3> QED
      BY <3>1, <3>2
  <2> QED
    BY <1>2, <1>3, <1>4, <2>1, <2>2, <2>3, <2>4 DEF PlaceInv
<1>6. CASE RankStart
  <2>1. /\ today' = clock /\ UNCHANGED <<top1, sources, content, ch, SHORTS_OK>>
        /\ pc = "rank" /\ pc' = "ranking"
    BY <1>6 DEF RankStart, Then, disk, run
  <2>2. top1[C] = NoTopic \/ top1[C].date < clock
    BY <1>1, <2>1 DEF PlaceInv, DatesInv, TypeOK, Topic
  <2> QED
    BY <1>2, <1>3, <1>4, <2>1, <2>2 DEF PlaceInv
<1>7. CASE RankDone
  <2>1. PICK t \in Titles : top1' = [top1 EXCEPT ![C] = [date |-> today, title |-> t]]
    BY <1>7 DEF RankDone
  <2>2. UNCHANGED <<sources, ch, SHORTS_OK>> /\ pc = "ranking" /\ pc' = "collect"
    BY <1>7 DEF RankDone, Then, run
  <2>3. [date |-> today, title |-> t] \in Topic
    BY <1>1 DEF Topic
  <2>4. top1'[C] # NoTopic
    BY <1>1, <2>1, <2>3, Distinct DEF TypeOK
  <2>5. SHORTS_OK => C # ShortsCh
    BY <2>2, NotTheShorts DEF InChannel
  <2>6. SHORTS_OK => Ready(ShortsCh)'
    BY <1>4, <2>1, <2>2, <2>5 DEF Ready, HasInputs, TypeOK
  <2> QED
    BY <1>2, <2>2, <2>4, <2>6 DEF PlaceInv
<1>8. CASE CollectDone
  <2>1. /\ UNCHANGED <<top1, ch, SHORTS_OK>> /\ pc' = "video"
        /\ sources' = [sources EXCEPT ![C] = top1[C]] /\ top1[C] # NoTopic
    BY <1>8 DEF CollectDone, Then, run, PlaceInv
  <2>2. Ready(C)' /\ C' = C
    BY <1>2, <1>8, <2>1, DatedCollect
  <2>3. Ready(ShortsCh) => Ready(ShortsCh)'
    BY <2>1 DEF Ready, HasInputs, TypeOK
  <2> QED
    BY <1>4, <2>1, <2>2, <2>3 DEF PlaceInv
<1>9. ASSUME NEW f \in Files, ~Usable(f), content' = Unlinked(f)
      PROVE  content'[f] = AbsentFile
  BY <1>9 DEF Usable, Unlinked, TypeOK
<1>10. CASE VideoStart
  <2>1. UNCHANGED <<top1, sources>> /\ today' = clock /\ pc = "video" /\ SHORTS_OK' = SHORTS_OK
    BY <1>10 DEF VideoStart, FlowStart, Then, ChannelFails, run
  <2>2. CASE ChannelFails
    BY <2>1, <2>2, PlaceElsewhere DEF ChannelFails, NextChannel
  <2>3. CASE Then("brand")
    BY <1>2, <1>3, <1>4, <2>1, <2>3 DEF Then, run, PlaceInv
  <2>4. CASE /\ Then("generate") /\ ~Usable(Video(C, clock))
             /\ content' = Unlinked(Video(C, clock)) /\ top1[C].date = clock
    <3>1. content'[Video(C, clock)] = AbsentFile
      BY <1>1, <1>9, <2>4
    <3>2. pc' = "generate" /\ C' = C /\ Video(C, today)' = Video(C, clock)
      BY <1>2, <2>1, <2>4 DEF Then, run, Video
    <3> QED
      BY <1>3, <1>4, <2>1, <2>4, <3>1, <3>2 DEF PlaceInv
  <2> QED
    BY <1>10, <2>2, <2>3, <2>4 DEF VideoStart, FlowStart
<1>11. CASE VideoDone
  BY <1>2, <1>3, <1>4, <1>11 DEF VideoDone, Then, run, PlaceInv
<1>12. CASE Brand
  <2>1. UNCHANGED <<top1, sources>> /\ pc = "brand" /\ (ChannelFails \/ Then("upload"))
    BY <1>12 DEF Brand
  <2>2. CASE ChannelFails
    BY <2>1, <2>2, PlaceElsewhere DEF ChannelFails, NextChannel
  <2>3. CASE Then("upload")
    BY <1>2, <1>3, <1>4, <2>1, <2>3 DEF Then, run, PlaceInv
  <2> QED
    BY <2>1, <2>2, <2>3
<1>13. CASE Upload
  <2>1. /\ UNCHANGED <<top1, sources>> /\ pc = "upload" /\ pc' \in {"daily", "shorts"}
        /\ SHORTS_OK' = (SHORTS_OK \/ C = ShortsCh)
    BY <1>13 DEF Upload, NextChannel
  <2>2. Ready(C)
    BY <2>1 DEF PlaceInv
  <2> QED
    BY <1>3, <1>4, <2>1, <2>2 DEF PlaceInv
<1>14. CASE ShortsStart
  <2>1. UNCHANGED <<top1, sources>> /\ SHORTS_OK' = SHORTS_OK
    BY <1>14 DEF ShortsStart, FlowStart, Then, ShortsFails, run
  <2>2. CASE \E p \in {"end", "shortsUpload"} : ShortsFails(p) \/ Then(p)
    BY <2>1, <2>2, PlaceElsewhere DEF ShortsFails, Then
  <2>3. CASE /\ Then("shortsGenerate") /\ ~Usable(Shorts(clock)) /\ today' = clock /\ SHORTS_OK
             /\ content' = Unlinked(Shorts(clock)) /\ top1[ShortsCh].date = clock
    <3>1. content'[Shorts(clock)] = AbsentFile
      BY <1>1, <1>9, <2>3
    <3>2. pc' = "shortsGenerate" /\ Shorts(today)' = Shorts(clock)
      BY <2>3 DEF Then, Shorts
    <3> QED
      BY <1>3, <1>4, <2>1, <2>3, <3>1, <3>2 DEF PlaceInv
  <2> QED
    BY <1>14, <2>2, <2>3 DEF ShortsStart, FlowStart
<1>15. CASE ShortsDone \/ ShortsUpload \/ EndRun \/ Kill \/ PowerLoss
  <2>1. UNCHANGED <<top1, sources, SHORTS_OK>>
    BY <1>15 DEF ShortsDone, ShortsUpload, EndRun, Kill, PowerLoss, ShortsFails, Then, run, disk
  <2>2. pc' \in {"idle", "shortsUpload", "end"}
    BY <1>15 DEF ShortsDone, ShortsUpload, EndRun, Kill, PowerLoss, ShortsFails, Then
  <2> QED
    BY <2>1, <2>2, PlaceElsewhere
<1>16. CASE StepFails \/ EmptyDownload
  <2>1. UNCHANGED <<top1, sources, SHORTS_OK>> /\ pc' \in {"daily", "shorts", "shortsUpload", "end"}
    BY <1>16 DEF StepFails, EmptyDownload, ChannelFails, NextChannel, ShortsFails, disk
  <2> QED
    BY <2>1, PlaceElsewhere
<1>17. CASE \E ok \in BOOLEAN : MainRun(ok) \/ CatchupRun(ok)
  <2>1. UNCHANGED <<top1, sources>> /\ SHORTS_OK' = FALSE /\ pc' = "daily"
    BY <1>17 DEF MainRun, CatchupRun, BeginRun, disk
  <2> QED
    BY <2>1, PlaceElsewhere
<1>18. CASE Midnight \/ UNCHANGED vars
  <2>1. UNCHANGED <<top1, sources, content, ch, SHORTS_OK, pc, today>>
    BY <1>18 DEF Midnight, vars, disk, run
  <2> QED
    BY <1>2, <1>3, <2>1 DEF PlaceInv, Video, Shorts
<1> QED
  BY <1>5, <1>6, <1>7, <1>8, <1>10, <1>11, <1>12, <1>13, <1>14, <1>15, <1>16, <1>17,
     <1>18 DEF Next, Step

-----------------------------------------------------------------------------
(* What a run has published. *)

\* The channels are taken one by one.
LEMMA BehindStep == IInv /\ [Next]_vars => Behind'
<1> SUFFICES ASSUME TypeOK, Behind, [Next]_vars PROVE Behind'
  BY DEF IInv
<1>1. ch \in Nat
  BY DailyRunAssumption DEF TypeOK
<1>2. ASSUME pc \in InChannel, NextChannel, SHORTS_OK' => SHORTS_OK \/ C = ShortsCh
      PROVE  Behind'
  <2>1. CASE pc' = "shorts"
    BY <2>1 DEF Behind, InChannel
  <2>2. CASE ch' = ch + 1
    <3> SUFFICES ASSUME SHORTS_OK' PROVE \E i \in 1..(ch' - 1) : Channels[i] = ShortsCh
      BY DEF Behind
    <3>1. CASE SHORTS_OK
      BY <1>1, <1>2, <2>2, <3>1 DEF Behind
    <3>2. CASE C = ShortsCh
      <4>1. ch \in 1..(ch' - 1)
        BY <1>1, <2>2 DEF TypeOK
      <4> QED
        BY <3>2, <4>1 DEF C
    <3> QED
      BY <1>2, <3>1, <3>2
  <2> QED
    BY <1>2, <2>1, <2>2 DEF NextChannel
<1>3. CASE Upload
  BY <1>2, <1>3 DEF Upload, InChannel
<1>4. ASSUME ChannelFails, pc \in InChannel PROVE Behind'
  BY <1>2, <1>4 DEF ChannelFails
<1>5. ASSUME UNCHANGED <<ch, SHORTS_OK>>, pc \in InChannel \/ pc' \notin InChannel PROVE Behind'
  BY <1>5 DEF Behind
<1>6. CASE DailyStart \/ RankStart \/ RankDone \/ CollectDone \/ VideoDone
  BY <1>5, <1>6 DEF DailyStart, RankStart, RankDone, CollectDone, VideoDone, Then, run, InChannel
<1>7. CASE VideoStart
  <2>1. pc \in InChannel /\ (ChannelFails \/ \E p \in InChannel : Then(p))
    BY <1>7 DEF VideoStart, FlowStart, InChannel
  <2> QED
    BY <1>4, <1>5, <2>1 DEF Then, run
<1>8. CASE Brand
  <2>1. pc \in InChannel /\ (ChannelFails \/ \E p \in InChannel : Then(p))
    BY <1>8 DEF Brand, InChannel
  <2> QED
    BY <1>4, <1>5, <2>1 DEF Then, run
<1>9. CASE ShortsStart \/ ShortsDone \/ ShortsUpload \/ EndRun \/ Kill \/ PowerLoss
  <2>1. UNCHANGED <<ch, SHORTS_OK>> /\ pc' \notin InChannel
    BY <1>9 DEF ShortsStart, FlowStart, ShortsDone, ShortsUpload, EndRun, Kill, PowerLoss, Then,
       ShortsFails, run, InChannel
  <2> QED
    BY <1>5, <2>1
<1>10. CASE StepFails \/ EmptyDownload
  <2>1. CASE pc \in InChannel /\ ChannelFails
    BY <1>4, <2>1
  <2>2. CASE ShortsFails("shortsUpload") \/ ShortsFails("end")
    BY <1>5, <2>2 DEF ShortsFails, InChannel
  <2> QED
    BY <1>10, <2>1, <2>2 DEF StepFails, EmptyDownload, InChannel
<1>11. CASE \E ok \in BOOLEAN : MainRun(ok) \/ CatchupRun(ok)
  BY <1>11 DEF MainRun, CatchupRun, BeginRun, Behind
<1>12. CASE Midnight \/ UNCHANGED vars
  BY <1>12 DEF Midnight, vars, run, Behind
<1> QED
  BY <1>3, <1>6, <1>7, <1>8, <1>9, <1>10, <1>11, <1>12 DEF Next, Step

\* What is published stays so.
LEMMA PublishedStays ==
    ASSUME TypeOK, [Next]_vars, NEW f \in Files, uploaded[f] # AbsentFile
    PROVE  uploaded'[f] = uploaded[f]
<1>1. CASE Upload
  BY <1>1 DEF Upload, Publish, TypeOK
<1>2. CASE ShortsUpload
  BY <1>2 DEF ShortsUpload, Publish, TypeOK
<1>3. CASE UNCHANGED uploaded
  BY <1>3
<1> QED
  BY <1>1, <1>2, <1>3 DEF Next, Step, MainRun, CatchupRun, BeginRun, DailyStart, RankStart,
     RankDone, CollectDone, VideoStart, VideoDone, Brand, ShortsStart, ShortsDone, EndRun,
     StepFails, Kill, PowerLoss, EmptyDownload, Midnight, disk, vars

\* What appears among the published files is a file that was there, under its title.
LEMMA PublishedNow ==
    ASSUME TypeOK, [Next]_vars, NEW f \in Files, uploaded[f] = AbsentFile,
           uploaded'[f] # AbsentFile
    PROVE  /\ (Upload /\ f = Branded(C, TODAY)) \/ (ShortsUpload /\ f = Shorts(TODAY))
           /\ content[f] # AbsentFile /\ UNCHANGED content
           /\ uploaded' = [uploaded EXCEPT ![f] = [title |-> TitleFor(f), video |-> content[f]]]
           /\ uploaded'[f] = [title |-> TitleFor(f), video |-> content[f]]
<1> USE Places
<1>1. TODAY \in Days /\ C \in Chan
  BY ChannelTyped DEF TypeOK
<1>2. CASE Upload
  BY <1>1, <1>2 DEF Upload, Publish, TypeOK
<1>3. CASE ShortsUpload
  BY <1>1, <1>3 DEF ShortsUpload, Publish, TypeOK
<1>4. CASE UNCHANGED uploaded
  BY <1>4
<1> QED
  BY <1>2, <1>3, <1>4 DEF Next, Step, MainRun, CatchupRun, BeginRun, DailyStart, RankStart,
     RankDone, CollectDone, VideoStart, VideoDone, Brand, ShortsStart, ShortsDone, EndRun,
     StepFails, Kill, PowerLoss, EmptyDownload, Midnight, disk, vars

\* A file that is published counts as uploaded.
LEMMA PublishDone ==
    ASSUME TypeOK, NEW f \in Files, content[f] # AbsentFile, Publish(f)
    PROVE  uploaded'[f] # AbsentFile
<1>1. TitleFor(f) \in Topic \union {FileName} /\ content[f] \in Content \union {ZeroBytes}
  BY Places DEF TitleFor, TypeOK
<1>2. [title |-> TitleFor(f), video |-> content[f]] # AbsentFile
  BY <1>1, Distinct
<1> QED
  BY <1>2 DEF Publish, TypeOK

\* A run without a failure has published all it passed.
LEMMA PublishedStep == IInv /\ [Next]_vars => PublishedInv'
<1> SUFFICES ASSUME TypeOK, PublishedInv, [Next]_vars PROVE PublishedInv'
  BY DEF IInv
<1> USE Places, ChannelTyped
<1>1. /\ ch \in Nat /\ ch \in 1..Len(Channels) /\ Len(Channels) \in Nat /\ TODAY \in Days
      /\ C \in Chan /\ \A i \in 1..Len(Channels) : Channels[i] \in Chan
  <2>1. ch \in 1..Len(Channels) /\ TODAY \in Days /\ C \in Chan /\ Len(Channels) \in Nat
    BY DailyRunAssumption DEF TypeOK
  <2>2. \A i \in 1..Len(Channels) : Channels[i] \in Chan
    BY DEF Chan
  <2> QED
    BY <2>1, <2>2
<1>2. \A c \in Chan : uploaded[Branded(c, TODAY)] # AbsentFile
                        => uploaded'[Branded(c, TODAY)] # AbsentFile
  BY <1>1, PublishedStays
<1>3. uploaded[Shorts(TODAY)] # AbsentFile => uploaded'[Shorts(TODAY)] # AbsentFile
  BY <1>1, PublishedStays
<1>4. UNCHANGED TODAY => /\ \A c \in Chan : Branded(c, TODAY)' = Branded(c, TODAY)
                         /\ Shorts(TODAY)' = Shorts(TODAY)
  OBVIOUS
<1>5. ASSUME FAILED' PROVE PublishedInv'
  BY <1>5 DEF PublishedInv
<1>6. CASE Upload
  <2>1. /\ UNCHANGED <<TODAY, FAILED>> /\ pc = "upload" /\ NextChannel
        /\ content[Branded(C, TODAY)] # AbsentFile /\ Publish(Branded(C, TODAY))
    BY <1>6 DEF Upload
  <2>2. uploaded'[Branded(C, TODAY)] # AbsentFile
    BY <1>1, <2>1, PublishDone
  <2>3. ASSUME ~FAILED, NEW i \in 1..ch PROVE uploaded'[Branded(Channels[i], TODAY)] # AbsentFile
    <3>1. CASE i = ch
      BY <2>2, <3>1 DEF C
    <3>2. CASE i # ch
      <4>1. i \in 1..(ch - 1) /\ Channels[i] \in Chan
        BY <1>1, <3>2
      <4> QED
        BY <1>2, <2>1, <2>3, <4>1 DEF PublishedInv, InChannel
    <3> QED
      BY <3>1, <3>2
  <2>4. CASE pc' = "daily" /\ ch' = ch + 1
    <3>1. 1..(ch' - 1) = 1..ch
      BY <1>1, <2>4
    <3> QED
      BY <2>1, <2>3, <2>4, <3>1 DEF PublishedInv
  <2>5. CASE pc' = "shorts" /\ ~(ch < Len(Channels))
    <3>1. ch = Len(Channels)
      BY <1>1, <2>5
    <3>2. ASSUME ~FAILED, NEW c \in Chan PROVE uploaded'[Branded(c, TODAY)] # AbsentFile
      BY <2>3, <3>1, <3>2 DEF Chan
    <3> QED
      BY <2>1, <2>5, <3>2 DEF PublishedInv, InChannel
  <2> QED
    BY <2>1, <2>4, <2>5 DEF NextChannel
<1>7. ASSUME UNCHANGED <<TODAY, FAILED, ch>>, pc \in InChannel, pc' \in InChannel
      PROVE  PublishedInv'
  <2>1. \A i \in 1..(ch - 1) : Channels[i] \in Chan
    BY <1>1
  <2> QED
    BY <1>2, <1>7, <2>1 DEF PublishedInv, InChannel
<1>8. CASE DailyStart \/ RankStart \/ RankDone \/ CollectDone \/ VideoDone
  BY <1>7, <1>8 DEF DailyStart, RankStart, RankDone, CollectDone, VideoDone, Then, run, InChannel
<1>9. CASE VideoStart
  <2>1. pc \in InChannel /\ (ChannelFails \/ \E p \in InChannel : Then(p))
    BY <1>9 DEF VideoStart, FlowStart, InChannel
  <2> QED
    BY <1>5, <1>7, <2>1 DEF Then, run, ChannelFails
<1>10. CASE Brand
  <2>1. pc \in InChannel /\ (ChannelFails \/ \E p \in InChannel : Then(p))
    BY <1>10 DEF Brand, InChannel
  <2> QED
    BY <1>5, <1>7, <2>1 DEF Then, run, ChannelFails
<1>11. ASSUME UNCHANGED <<TODAY, FAILED>>, pc \in {"shorts", "shortsGenerate", "shortsUpload"},
              pc' \in {"shortsGenerate", "shortsUpload"}
       PROVE  PublishedInv'
  BY <1>2, <1>11 DEF PublishedInv, InChannel
<1>12. CASE ShortsStart \/ ShortsDone
  <2>1. \/ FAILED'
        \/ \E p \in {"shortsGenerate", "shortsUpload"} : Then(p)
    BY <1>12 DEF ShortsStart, FlowStart, ShortsDone, ShortsFails
  <2>2. pc \in {"shorts", "shortsGenerate", "shortsUpload"}
    BY <1>12 DEF ShortsStart, ShortsDone
  <2> QED
    BY <1>5, <1>11, <2>1, <2>2 DEF Then, run
<1>13. CASE ShortsUpload
  <2>1. CASE FAILED'
    BY <1>5, <2>1
  <2>2. CASE content[Shorts(TODAY)] # AbsentFile /\ Publish(Shorts(TODAY)) /\ Then("end")
    <3>1. uploaded'[Shorts(TODAY)] # AbsentFile
      BY <1>1, <2>2, PublishDone
    <3> QED
      BY <1>2, <1>13, <2>2, <3>1 DEF ShortsUpload, PublishedInv, Then, run, InChannel
  <2> QED
    BY <1>13, <2>1, <2>2 DEF ShortsUpload, ShortsFails
<1>14. CASE StepFails \/ EmptyDownload
  BY <1>5, <1>14 DEF StepFails, EmptyDownload, ChannelFails, ShortsFails
<1>15. CASE EndRun \/ Kill \/ PowerLoss
  <2>1. pc' = "idle"
    BY <1>15 DEF EndRun, Kill, PowerLoss
  <2> QED
    BY <2>1 DEF PublishedInv, InChannel
<1>16. CASE \E ok \in BOOLEAN : MainRun(ok) \/ CatchupRun(ok)
  <2>1. pc' = "daily" /\ ch' = 1
    BY <1>16 DEF MainRun, CatchupRun, BeginRun
  <2> QED
    BY <2>1 DEF PublishedInv
<1>17. CASE Midnight \/ UNCHANGED vars
  BY <1>17 DEF Midnight, vars, run, disk, PublishedInv
<1> QED
  BY <1>6, <1>8, <1>9, <1>10, <1>12, <1>13, <1>14, <1>15, <1>16, <1>17 DEF Next, Step

\* Only a day whose files are published is marked.
LEMMA MarkedStep == IInv /\ [Next]_vars => MarkedIsPublished'
<1> SUFFICES ASSUME IInv, [Next]_vars, NEW d \in marker', NEW f \in Uploads(d)
             PROVE  uploaded'[f] # AbsentFile
  BY DEF MarkedIsPublished
<1> USE DEF IInv
<1>1. marker' = marker \/ (pc = "end" /\ ~FAILED /\ marker' = marker \union {TODAY})
  BY DEF Next, Step, MainRun, CatchupRun, BeginRun, DailyStart, RankStart, RankDone, CollectDone,
     VideoStart, VideoDone, Brand, Upload, ShortsStart, ShortsDone, ShortsUpload, EndRun,
     StepFails, Kill, PowerLoss, EmptyDownload, Midnight, world, vars
<1>2. TODAY \in Days /\ marker \subseteq Days
  BY DEF TypeOK
<1>3. f \in Files
  BY <1>1, <1>2, Places DEF Uploads
<1>4. uploaded[f] # AbsentFile
  BY <1>1 DEF MarkedIsPublished, Uploads, PublishedInv
<1> QED
  BY <1>3, <1>4, PublishedStays

-----------------------------------------------------------------------------
(* The stories. *)

\* The title sent with a video is its topic's.
LEMMA TitleStep == IInv /\ [Next]_vars => TitleTellsTheStory'
<1> SUFFICES ASSUME IInv, [Next]_vars, NEW f \in Files,
                    uploaded'[f] # AbsentFile, uploaded'[f].video # ZeroBytes
             PROVE  uploaded'[f].title \in {FileName, uploaded'[f].video.topic}
  BY DEF TitleTellsTheStory
<1> USE DEF IInv
<1>1. CASE uploaded[f] # AbsentFile
  BY <1>1, PublishedStays DEF TitleTellsTheStory
<1>2. CASE uploaded[f] = AbsentFile
  <2>1. /\ content[f] # AbsentFile
        /\ uploaded'[f] = [title |-> TitleFor(f), video |-> content[f]]
    BY <1>2, PublishedNow
  <2>2. Usable(f)
    BY <2>1 DEF Usable
  <2> QED
    BY <2>1, <2>2 DEF TitleFor, Dated
<1> QED
  BY <1>1, <1>2

\* A usable video stays what it is; one that appears is of its channel's topic.
LEMMA VideosStay ==
    ASSUME IInv, [Next]_vars, NEW f \in Files, f[1] # "branded"
    PROVE  \/ content'[f] = content[f]
           \/ ~Usable(f) /\ content'[f] \in {AbsentFile, ZeroBytes}
           \/ ~Usable(f) /\ top1'[f[2]].date = f[3]
<1> USE ChannelTyped, Places DEF IInv
<1>1. /\ today \in Days /\ TODAY \in Days /\ clock \in Days /\ C \in Chan
  BY DEF TypeOK
<1>2. ASSUME NEW g \in Files, content' = Unlinked(g)
      PROVE  content'[f] = content[f] \/ (~Usable(f) /\ content'[f] = AbsentFile)
  BY <1>2 DEF Unlinked, Usable, TypeOK
<1>3. ASSUME NEW g \in Files, content' = Generated(g[2], g), top1'[g[2]].date = g[3]
      PROVE  content'[f] = content[f] \/ (~Usable(f) /\ top1'[f[2]].date = f[3])
  BY <1>3 DEF Generated, Usable, TypeOK
<1>4. CASE VideoStart \/ ShortsStart
  <2>1. UNCHANGED content \/ \E g \in Files : content' = Unlinked(g)
    BY <1>1, <1>4 DEF VideoStart, ShortsStart, FlowStart
  <2> QED
    BY <1>2, <2>1
<1>5. CASE VideoDone
  <2>1. content' = Generated(C, Video(C, today)) /\ top1'[C].date = today
    BY <1>5 DEF VideoDone, PlaceInv
  <2> QED
    BY <1>1, <1>3, <2>1
<1>6. CASE ShortsDone
  <2>1. content' = Generated(ShortsCh, Shorts(today)) /\ top1'[ShortsCh].date = today
    BY <1>6 DEF ShortsDone, PlaceInv
  <2> QED
    BY <1>1, <1>3, <2>1
<1>7. CASE Brand
  <2>1. \/ UNCHANGED content
        \/ content' = [content EXCEPT ![Branded(C, TODAY)] = content[Video(C, TODAY)]]
    BY <1>7 DEF Brand
  <2>2. f # Branded(C, TODAY)
    BY DEF Branded
  <2> QED
    BY <2>1, <2>2 DEF TypeOK
<1>8. CASE PowerLoss \/ EmptyDownload
  <2>1. PICK g \in Files : content[g] = AbsentFile /\ content' = [content EXCEPT ![g] = ZeroBytes]
    BY <1>1, <1>8 DEF PowerLoss, EmptyDownload, PlaceInv
  <2> QED
    BY <2>1 DEF Usable, TypeOK
<1>9. CASE UNCHANGED content
  BY <1>9
<1> QED
  BY <1>4, <1>5, <1>6, <1>7, <1>8, <1>9 DEF Next, Step, MainRun, CatchupRun, BeginRun, DailyStart,
     RankStart, RankDone, CollectDone, Upload, ShortsUpload, EndRun, StepFails, Kill, Midnight,
     disk, vars

\* A day's files of a channel tell one story.
LEMMA StoryStep == IInv /\ [Next]_vars => OneStoryADay'
<1> SUFFICES ASSUME IInv, [Next]_vars, NEW d \in Days,
                    Usable(Shorts(d))', Usable(Video(ShortsCh, d))'
             PROVE  content'[Shorts(d)].topic = content'[Video(ShortsCh, d)].topic
  BY DEF OneStoryADay, Shorts, Video
<1>1. PICK s \in Files, v \in Files :
        /\ s = Shorts(d) /\ v = Video(ShortsCh, d) /\ s[1] # "branded" /\ v[1] # "branded"
        /\ s[2] = ShortsCh /\ v[2] = ShortsCh /\ s[3] = d /\ v[3] = d
  BY Places DEF Shorts, Video
<1>2. Usable(s)' /\ Usable(v)'
  BY <1>1 DEF Usable, Shorts, Video
<1>3. CASE content'[s] = content[s] /\ content'[v] = content[v]
  BY <1>1, <1>2, <1>3 DEF OneStoryADay, Usable, IInv
<1>4. CASE top1'[ShortsCh].date = d
  <2>1. Dated(s)' /\ Dated(v)'
    BY DatedStep
  <2> QED
    BY <1>1, <1>2, <1>4, <2>1 DEF Dated, Usable
<1>5. ASSUME NEW f \in {s, v}, content'[f] # content[f] PROVE top1'[ShortsCh].date = d
  BY <1>1, <1>2, <1>5, VideosStay DEF Usable
<1> QED
  BY <1>1, <1>3, <1>4, <1>5

-----------------------------------------------------------------------------
\* Where the run may be, what it has, and what it has published.
THEOREM Invariance == Spec => []IInv
<1>1. IInv /\ [Next]_vars => IInv'
  <2> SUFFICES ASSUME IInv, [Next]_vars PROVE IInv'
    OBVIOUS
  <2>1. TypeOK' /\ DatesInv' /\ PlaceInv' /\ Behind' /\ PublishedInv'
    BY TypeStep, DatesStep, PlaceStep, BehindStep, PublishedStep
  <2>2. \A f \in Files : Dated(f)'
    BY DatedStep
  <2>3. MarkedIsPublished' /\ TitleTellsTheStory' /\ OneStoryADay'
    BY MarkedStep, TitleStep, StoryStep
  <2> QED
    BY <2>1, <2>2, <2>3 DEF IInv, Files, Video, Branded, Shorts
<1> QED
  BY InitInv, <1>1, PTL DEF Spec

\* Every variable keeps its type.
THEOREM TypeCorrect == Spec => []TypeOK
<1>1. IInv => TypeOK
  BY DEF IInv
<1> QED
  BY <1>1, Invariance, PTL

\* A day is marked as done only when each of its videos is published
\* (run_daily_cron.sh:76-78).
THEOREM MarkedMeansPublished == Spec => []MarkIsTrue
<1>1. IInv => MarkIsTrue
  BY DEF IInv, MarkIsTrue
<1> QED
  BY <1>1, Invariance, PTL

\* A title on YouTube is the story the video tells, or no story at all
\* (youtube_upload.py:67-79).
THEOREM TitlesAgree == Spec => []TitleTellsTheStory
<1>1. IInv => TitleTellsTheStory
  BY DEF IInv
<1> QED
  BY <1>1, Invariance, PTL

\* A video filed under a day tells that day's story, from the sources collected
\* for it (_orchestrator.py:55-61, run_daily.py:94-114).
THEOREM VideosAreFresh == Spec => []VideoIsFresh
<1>1. IInv => VideoIsFresh
  BY DEF IInv, Dated, Usable, VideoIsFresh
<1> QED
  BY <1>1, Invariance, PTL

\* The Short and the long video of a day tell one story, though they are made
\* from the same top1.json at different times.
THEOREM StoriesAgree == Spec => []OneStoryADay
<1>1. IInv => OneStoryADay
  BY DEF IInv
<1> QED
  BY <1>1, Invariance, PTL

\* A day's topic is chosen once: rank_news.py runs again only for a later day.
THEOREM ChosenOnce == Spec => TopicIsLocked
<1> DEFINE Locks ==
      \A c \in Chan :
          top1[c] # NoTopic /\ top1'[c].date = top1[c].date
              => top1'[c] = top1[c]
<1>1. ASSUME IInv, [Next]_vars PROVE Locks
  <2>1. CASE RankDone
    <3>1. PICK t \in Titles : top1' = [top1 EXCEPT ![C] = [date |-> today, title |-> t]]
      BY <2>1 DEF RankDone
    <3>2. pc = "ranking" /\ C \in Chan /\ TypeOK /\ PlaceInv
      BY <1>1, <2>1, ChannelTyped DEF RankDone, IInv
    <3>3. ASSUME top1[C] # NoTopic PROVE top1'[C].date # top1[C].date
      <4>1. top1[C].date < today /\ top1[C].date \in Nat /\ today \in Nat
        BY <3>2, <3>3, DailyRunAssumption DEF PlaceInv, TypeOK, Topic, Days
      <4>2. top1'[C] = [date |-> today, title |-> t]
        BY <3>1, <3>2 DEF TypeOK
      <4> QED
        BY <4>1, <4>2
    <3> QED
      BY <3>1, <3>2, <3>3 DEF TypeOK
  <2>2. CASE UNCHANGED top1
    BY <2>2
  <2> QED
    BY <1>1, <2>1, <2>2 DEF Next, Step, MainRun, CatchupRun, BeginRun, DailyStart, RankStart,
       CollectDone, VideoStart, VideoDone, Brand, Upload, ShortsStart, ShortsDone, ShortsUpload,
       EndRun, StepFails, Kill, PowerLoss, EmptyDownload, Midnight, disk, vars
<1> QED
  BY <1>1, Invariance, PTL DEF Spec, TopicIsLocked

-----------------------------------------------------------------------------
(* DailyRun implements DailyAbstract. *)

\* A branded file holds what its video holds, and what is published is what the
\* file holds, unless it was empty.
KeptInv ==
    /\ \A c \in Chan, d \in Days :
          content[Branded(c, d)] # AbsentFile =>
              Usable(Video(c, d)) /\ content[Branded(c, d)] = content[Video(c, d)]
    /\ \A f \in Files :
          uploaded[f] # AbsentFile /\ uploaded[f].video # ZeroBytes =>
              content[f] = uploaded[f].video

\* A branded file comes from its video, and stays.
LEMMA BrandedStays ==
    ASSUME IInv, KeptInv, [Next]_vars, NEW c \in Chan, NEW d \in Days
    PROVE  \/ content'[Branded(c, d)] = content[Branded(c, d)]
           \/ /\ Usable(Video(c, d)) /\ content'[Branded(c, d)] = content[Video(c, d)]
              /\ content'[Video(c, d)] = content[Video(c, d)]
<1> USE ChannelTyped, Places DEF IInv
<1> DEFINE b == Branded(c, d)
<1>1. /\ today \in Days /\ TODAY \in Days /\ clock \in Days /\ C \in Chan
  BY DEF TypeOK
<1>2. \A e \in Chan, g \in Days : Video(e, g) # b /\ Shorts(g) # b
  BY DEF Video, Shorts, Branded
<1>3. CASE \/ VideoStart \/ ShortsStart \/ VideoDone \/ ShortsDone \/ PowerLoss
           \/ EmptyDownload
  BY <1>1, <1>2, <1>3 DEF VideoStart, ShortsStart, VideoDone, ShortsDone, PowerLoss,
     EmptyDownload, FlowStart, Unlinked, Generated, TypeOK
<1>4. CASE Brand
  <2>1. \/ UNCHANGED content
        \/ /\ content' = [content EXCEPT ![Branded(C, TODAY)] = content[Video(C, TODAY)]]
           /\ Usable(Video(C, TODAY))
    BY <1>4 DEF Brand
  <2>2. CASE UNCHANGED content
    BY <2>2
  <2>3. CASE /\ content' = [content EXCEPT ![Branded(C, TODAY)] = content[Video(C, TODAY)]]
             /\ Usable(Video(C, TODAY))
    <3>1. CASE b = Branded(C, TODAY)
      <4>1. c = C /\ d = TODAY
        BY <1>1, <3>1 DEF Branded
      <4> QED
        BY <1>1, <1>2, <2>3, <4>1 DEF TypeOK
    <3>2. CASE b # Branded(C, TODAY)
      BY <2>3, <3>2 DEF TypeOK
    <3> QED
      BY <3>1, <3>2
  <2> QED
    BY <2>1, <2>2, <2>3
<1>5. CASE UNCHANGED content
  BY <1>5
<1> QED
  BY <1>3, <1>4, <1>5 DEF Next, Step, MainRun, CatchupRun, BeginRun, DailyStart, RankStart,
     RankDone, CollectDone, Upload, ShortsUpload, EndRun, StepFails, Kill, Midnight, disk, vars

\* What was published is still there.
LEMMA KeptStep ==
    ASSUME IInv, KeptInv, [Next]_vars
    PROVE  KeptInv'
<1> USE Places, Distinct
<1>t. TypeOK /\ TypeOK'
  BY TypeStep DEF IInv
<1>1. ASSUME NEW c \in Chan, NEW d \in Days
      PROVE  Usable(Video(c, d)) => content'[Video(c, d)] = content[Video(c, d)]
  <2>1. Video(c, d) \in Files /\ Video(c, d)[1] # "branded"
    BY DEF Video
  <2> QED
    BY <2>1, VideosStay DEF Usable
<1>2. ASSUME NEW c \in Chan, NEW d \in Days, content'[Branded(c, d)] # AbsentFile
      PROVE  /\ content'[Video(c, d)] \notin {AbsentFile, ZeroBytes}
             /\ content'[Branded(c, d)] = content'[Video(c, d)]
  BY <1>1, <1>2, BrandedStays DEF KeptInv, Usable
<1>3. ASSUME NEW f \in Files, uploaded[f] # AbsentFile, uploaded[f].video # ZeroBytes
      PROVE  content'[f] = content[f]
  <2>1. content[f] = uploaded[f].video /\ Usable(f)
    BY <1>t, <1>3 DEF KeptInv, Usable, TypeOK
  <2>2. CASE f[1] = "branded"
    <3>1. PICK c \in Chan, d \in Days : f = Branded(c, d)
      BY <2>2 DEF Files, Video, Branded, Shorts
    <3>2. content[Branded(c, d)] = content[Video(c, d)]
      BY <2>1, <3>1 DEF KeptInv, Usable
    <3> QED
      BY <3>1, <3>2, BrandedStays
  <2> QED
    BY <2>1, <2>2, VideosStay
<1>4. ASSUME NEW f \in Files, uploaded'[f] # AbsentFile, uploaded'[f].video # ZeroBytes
      PROVE  content'[f] = uploaded'[f].video
  <2>1. CASE uploaded[f] # AbsentFile
    BY <1>3, <1>4, <2>1, <1>t, PublishedStays DEF KeptInv
  <2>2. CASE uploaded[f] = AbsentFile
    <3>1. /\ content' = content
          /\ uploaded'[f] = [title |-> TitleFor(f), video |-> content[f]]
      BY <1>t, <1>4, <2>2, PublishedNow
    <3> QED
      BY <3>1
  <2> QED
    BY <2>1, <2>2
<1> QED
  BY <1>2, <1>4 DEF KeptInv, Usable, Files, Video, Branded, Shorts

\* The files of a day are the videos DailyAbstract knows it by.
LEMMA SameVideos ==
    \A d \in Days : /\ Promise!VideosOf(d) = Uploads(d)
                    /\ Uploads(d) \subseteq Files
                    /\ \A v \in Uploads(d) : v[3] = d
BY Places DEF Promise!VideosOf, Promise!Long, Promise!Short, Uploads, Branded, Shorts

\* What is published of a day's file is a story the day may tell.
LEMMA TellsTheStory ==
    ASSUME IInv, KeptInv, NEW d \in Days, NEW f \in Uploads(d), uploaded[f] = AbsentFile, Usable(f)
    PROVE  /\ Promise!StoryOf(content[f].topic, f[2], d)
           /\ content[f].topic \in Topic /\ content[f].urls \in Topic
           /\ content[f] = [topic |-> content[f].topic, urls |-> content[f].urls]
           /\ content[f].urls.title = content[f].topic.title
           /\ TitleFor(f) \in {FileName, content[f].topic}
<1> DEFINE s == content[f].topic
<1>1. f \in Files /\ f[3] = d /\ f[2] \in Chan
  BY SameVideos, Places
<1>2. content[f] \in Content
  BY <1>1 DEF IInv, TypeOK, Usable
<1>3. s \in Topic /\ content[f].urls \in Topic
      /\ content[f] = [topic |-> content[f].topic, urls |-> content[f].urls]
  BY <1>2 DEF Content
<1>4. /\ top1[f[2]] # NoTopic /\ d <= top1[f[2]].date
      /\ s.date = d /\ content[f].urls.title = s.title
      /\ d = top1[f[2]].date => s = top1[f[2]]
  BY <1>1 DEF IInv, Dated, Usable
<1>5. ASSUME NEW v \in Uploads(d), v[2] = f[2], uploaded[v] # AbsentFile,
             uploaded[v].video # ZeroBytes
      PROVE  uploaded[v].video.topic = s
  <2>1. v \in Files /\ v # f /\ content[v] = uploaded[v].video
    BY <1>1, <1>5, SameVideos DEF KeptInv
  <2>2. Usable(v)
    BY <1>5, <2>1, Distinct DEF IInv, TypeOK, Usable
  <2>3. \A c \in Chan : Usable(Branded(c, d))
          => Usable(Video(c, d)) /\ content[Branded(c, d)] = content[Video(c, d)]
    BY DEF KeptInv, Usable
  <2>4. CASE v = Shorts(d)
    <3>1. f = Branded(ShortsCh, d)
      BY <1>5, <2>1, <2>4, Places DEF Uploads
    <3> QED
      BY <2>1, <2>2, <2>3, <2>4, <3>1, Places DEF IInv, OneStoryADay
  <2>5. CASE f = Shorts(d)
    <3>1. v = Branded(ShortsCh, d)
      BY <1>5, <2>1, <2>5, Places DEF Uploads
    <3> QED
      BY <2>1, <2>2, <2>3, <2>5, <3>1, Places DEF IInv, OneStoryADay
  <2> QED
    BY <1>5, <2>1, <2>4, <2>5, Places DEF Uploads
<1>6. Promise!StoryOf(s, f[2], d)
  BY <1>4, <1>5, SameVideos DEF Promise!StoryOf
<1>7. TitleFor(f) \in {FileName, s}
  BY <1>1, <1>4 DEF TitleFor
<1> QED
  BY <1>3, <1>4, <1>6, <1>7

\* Choosing the day's story.
LEMMA ChooseStep ==
    ASSUME IInv, RankDone
    PROVE  Promise!Choose(C)
<1>1. PICK t \in Titles : top1' = [top1 EXCEPT ![C] = [date |-> today, title |-> t]]
  BY DEF RankDone
<1> DEFINE s == [date |-> today, title |-> t]
<1>2. s \in Topic /\ s.date = today
  BY DEF IInv, TypeOK, Topic
<1>3. today <= clock /\ (top1[C] = NoTopic \/ top1[C].date < today)
  BY DEF IInv, DatesInv, PlaceInv, RankDone
<1>4. UNCHANGED <<clock, uploaded, marker>>
  BY DEF RankDone, world
<1> HIDE DEF s
<1>5. top1' = [top1 EXCEPT ![C] = s]
  BY <1>1 DEF s
<1> QED
  BY <1>2, <1>3, <1>4, <1>5 DEF Promise!Choose

\* Publishing a file.
LEMMA PublishStep ==
    ASSUME IInv, KeptInv, [Next]_vars, NEW f \in Files, uploaded[f] = AbsentFile,
           uploaded'[f] # AbsentFile
    PROVE  \E d \in Days : \E v \in Promise!VideosOf(d) : Promise!Publish(v) \/ Promise!PublishEmpty(v)
<1>1. /\ (Upload /\ f = Branded(C, TODAY)) \/ (ShortsUpload /\ f = Shorts(TODAY))
      /\ content[f] # AbsentFile
      /\ uploaded' = [uploaded EXCEPT ![f] = [title |-> TitleFor(f), video |-> content[f]]]
  BY PublishedNow DEF IInv
<1>2. TODAY \in Days /\ f \in Uploads(TODAY) /\ f[3] = TODAY
  BY <1>1, ChannelTyped, SameVideos DEF IInv, TypeOK, Uploads
<1>3. UNCHANGED <<clock, top1, marker>>
  BY <1>1 DEF Upload, ShortsUpload, world
<1>4. CASE Usable(f)
  <2>1. Promise!Publish(f)
    <3> DEFINE s == content[f].topic
               u == content[f].urls
    <3>1. /\ s \in Topic /\ u \in Topic /\ Promise!StoryOf(s, f[2], f[3])
          /\ u.title = s.title /\ TitleFor(f) \in {FileName, s}
          /\ content[f] = [topic |-> s, urls |-> u]
      BY <1>2, <1>4, TellsTheStory
    <3>2. uploaded' = [uploaded EXCEPT ![f] =
                          [title |-> TitleFor(f), video |-> [topic |-> s, urls |-> u]]]
      BY <1>1, <3>1
    <3> HIDE DEF s, u
    <3> QED
      BY <1>3, <3>1, <3>2 DEF Promise!Publish
  <2> QED
    BY <1>2, <2>1, SameVideos
<1>5. CASE ~Usable(f)
  <2>1. content[f] = ZeroBytes /\ TitleFor(f) \in Topic \cup {FileName}
    BY <1>1, <1>5, Places DEF Usable, TitleFor, IInv, TypeOK
  <2>2. Promise!PublishEmpty(f)
    BY <1>1, <1>3, <2>1 DEF Promise!PublishEmpty
  <2> QED
    BY <1>2, <2>2, SameVideos
<1> QED
  BY <1>4, <1>5

\* Each step is one of DailyAbstract, or none.
LEMMA PromiseStep ==
    ASSUME IInv, KeptInv, [Next]_vars
    PROVE  [Promise!ANext]_(Promise!avars)
<1> DEFINE Goal == [Promise!ANext]_(Promise!avars)
<1>1. CASE RankDone
  <2>1. C \in Chan
    BY ChannelTyped DEF IInv
  <2> QED
    BY <1>1, <2>1, ChooseStep DEF Promise!ANext
<1>2. CASE Upload \/ ShortsUpload
  <2>1. CASE \E f \in Files : uploaded[f] = AbsentFile /\ uploaded'[f] # AbsentFile
    BY <2>1, PublishStep DEF Promise!ANext
  <2>2. CASE \A f \in Files : ~(uploaded[f] = AbsentFile /\ uploaded'[f] # AbsentFile)
    <3>1. PICK f \in Files : (Publish(f) /\ content[f] # AbsentFile) \/ UNCHANGED uploaded
      BY <1>2, ChannelTyped, Places DEF Upload, ShortsUpload, IInv, TypeOK
    <3>2. UNCHANGED uploaded
      BY <2>2, <3>1, PublishDone DEF IInv, Publish
    <3>3. UNCHANGED <<clock, top1, marker>>
      BY <1>2 DEF Upload, ShortsUpload, world
    <3> QED
      BY <3>2, <3>3 DEF Promise!avars
  <2> QED
    BY <2>1, <2>2
<1>3. CASE EndRun
  <2>1. CASE FAILED
    BY <1>3, <2>1 DEF EndRun, disk, Promise!avars
  <2>2. CASE ~FAILED
    <3>1. TODAY \in Days /\ \A v \in Promise!VideosOf(TODAY) : uploaded[v] # AbsentFile
      BY <1>3, <2>2, SameVideos DEF EndRun, IInv, TypeOK, PublishedInv, Uploads
    <3>2. Promise!Mark(TODAY)
      BY <1>3, <2>2, <3>1 DEF EndRun, disk, Promise!Mark
    <3> QED
      BY <3>1, <3>2 DEF Promise!ANext
  <2> QED
    BY <2>1, <2>2
<1>4. CASE Midnight
  <2>1. Promise!NextDay
    BY <1>4 DEF Midnight, disk, Promise!NextDay
  <2> QED
    BY <2>1 DEF Promise!ANext
<1>5. CASE UNCHANGED <<clock, top1, uploaded, marker>>
  BY <1>5 DEF Promise!avars
<1> QED
  BY <1>1, <1>2, <1>3, <1>4, <1>5 DEF Next, Step, MainRun, CatchupRun, BeginRun, DailyStart,
     RankStart, CollectDone, VideoStart, VideoDone, Brand, ShortsStart, ShortsDone, StepFails,
     Kill, PowerLoss, EmptyDownload, disk, world, vars

\* Whatever fails, is killed, runs again or crosses midnight: the daily run chooses
\* a day's story once, publishes each video once, with that story, and marks a day
\* when all of it is out.
THEOREM DailyRefines == Spec => ImplementsDaily
<1>1. Init => Promise!AInit /\ KeptInv
  BY Places DEF Init, Promise!AInit, KeptInv
<1>2. IInv /\ KeptInv /\ [Next]_vars => KeptInv'
  BY KeptStep
<1>3. IInv /\ KeptInv /\ [Next]_vars => [Promise!ANext]_(Promise!avars)
  BY PromiseStep
<1> QED
  BY <1>1, <1>2, <1>3, Invariance, PTL DEF Spec, ImplementsDaily, Promise!ASpec

-----------------------------------------------------------------------------
(* What Brand stands for: brand_video.py with its files, for the same days. *)

\* What is in the files: a video is whole; so is a branded file that is not older
\* than its video, unless it lost its data.
BrandedFiles ==
    \A d \in Dates :
        /\ held[Plain(d)] # Nothing => held[Plain(d)] = Whole(held[Plain(d)].version)
        /\ Older(Plain(d), Out(d)) /\ held[Out(d)] # Empty
           => held[Out(d)] = Whole(held[Plain(d)].version)

\* What the run is working on is of the present video.
BrandingWork ==
    /\ at # "idle" => Exists(Plain(file))
    /\ at \in {"encoding", "replace"} =>
        /\ held[Tmp(file)].version = held[Plain(file)].version
        /\ Older(Plain(file), Tmp(file))
    /\ at = "encoding" => held[Tmp(file)].kind = "partial"
    /\ at = "replace" => held[Tmp(file)].kind = "whole"

BrandInv == BTypeOK /\ BrandedFiles /\ BrandingWork /\ WholeAtUpload

\* A strict order of X, of which any two are in one order.
Order(o, X) ==
    /\ o \subseteq X \X X
    /\ \A f, g \in X : f = g \/ (<<f, g>> \in o <=> <<g, f>> \notin o)
    /\ \A f, g, h \in X : <<f, g>> \in o /\ <<g, h>> \in o => <<f, h>> \in o
    /\ \A f \in X : <<f, f>> \notin o

Ordered == Order(older, Existing)

\* Writing a file keeps the order.
LEMMA TouchKeeps ==
    ASSUME Ordered, NEW f \in Names, older' = Touched(f), Existing' = Existing \union {f}
    PROVE  /\ Ordered'
           /\ \A g \in Existing \ {f} : Older(g, f)'
           /\ \A g, h \in Names : g # f /\ h # f => (Older(g, h)' <=> Older(g, h))
           /\ \A g \in Names : ~Older(f, g)'
<1>1. \A g, h : <<g, h>> \in older' <=> \/ <<g, h>> \in older /\ g # f /\ h # f
                                        \/ g \in Existing \ {f} /\ h = f
  <2>1. older \subseteq Existing \X Existing
    BY DEF Ordered, Order
  <2> QED
    BY <2>1 DEF Touched
<1>2. older' \subseteq Existing' \X Existing'
  BY DEF Touched, Ordered, Order
<1>3. Existing' = Existing \union {f} /\ Existing \subseteq Names
  BY DEF Existing
<1>4. \A g, h \in Existing' : g = h \/ (<<g, h>> \in older' <=> <<h, g>> \notin older')
  BY <1>1, <1>3 DEF Ordered, Order
<1>5. \A g, h, i \in Existing' : <<g, h>> \in older' /\ <<h, i>> \in older'
                                 => <<g, i>> \in older'
  BY <1>1, <1>3 DEF Ordered, Order
<1>6. \A g \in Existing' : <<g, g>> \notin older'
  BY <1>1, <1>3 DEF Ordered, Order
<1>7. Ordered'
  BY <1>2, <1>4, <1>5, <1>6 DEF Ordered, Order
<1> QED
  BY <1>1, <1>3, <1>7 DEF Older

\* Renaming one keeps it, too.
LEMMA RenameKeeps ==
    ASSUME Ordered, NEW f \in Existing, NEW g \in Names, f # g, older' = Renamed(f, g),
           Existing' = (Existing \ {f}) \union {g}
    PROVE  /\ Ordered'
           /\ \A h \in Names \ {f, g} : Older(h, g)' <=> Older(h, f)
           /\ \A h, i \in Names \ {f, g} : Older(h, i)' <=> Older(h, i)
           /\ \A h \in Names : ~Older(h, f)' /\ ~Older(f, h)'
<1> DEFINE Was(h) == IF h = g THEN f ELSE h
<1>1. \A h, i : <<h, i>> \in older' <=> /\ h \in Names \ {f} /\ i \in Names \ {f}
                                        /\ <<Was(h), Was(i)>> \in older
  BY DEF Renamed, Older
<1>2. Existing \subseteq Names
  BY DEF Existing
<1>3. \A h \in Existing' : h \in Names \ {f} /\ Was(h) \in Existing
  BY <1>2
<1>4. \A h \in Names \ {f} : Was(h) \in Existing => h \in Existing'
  BY <1>2
<1>5. \A h, i \in Names \ {f} : Was(h) = Was(i) => h = i
  OBVIOUS
<1> HIDE DEF Was
<1>o. \A h, i : <<h, i>> \in older => h \in Existing /\ i \in Existing
  BY DEF Ordered, Order
<1>6. older' \subseteq Existing' \X Existing'
  <2>1. older' \subseteq Names \X Names
    BY DEF Renamed
  <2>2. \A h, i : <<h, i>> \in older' => h \in Existing' /\ i \in Existing'
    BY <1>1, <1>4, <1>o
  <2> QED
    BY <2>1, <2>2
<1>7. \A h, i \in Existing' : h = i \/ (<<h, i>> \in older' <=> <<i, h>> \notin older')
  <2> SUFFICES ASSUME NEW h \in Existing', NEW i \in Existing', h # i
               PROVE  <<h, i>> \in older' <=> <<i, h>> \notin older'
    OBVIOUS
  <2>1. Was(h) \in Existing /\ Was(i) \in Existing /\ Was(h) # Was(i)
    BY <1>3, <1>5
  <2>2. <<Was(h), Was(i)>> \in older <=> <<Was(i), Was(h)>> \notin older
    BY <2>1 DEF Ordered, Order
  <2> QED
    BY <1>1, <1>3, <2>2
<1>8. \A h, i, j \in Existing' : <<h, i>> \in older' /\ <<i, j>> \in older'
                                 => <<h, j>> \in older'
  <2> SUFFICES ASSUME NEW h \in Existing', NEW i \in Existing', NEW j \in Existing',
                      <<h, i>> \in older', <<i, j>> \in older'
               PROVE  <<h, j>> \in older'
    OBVIOUS
  <2>1. <<Was(h), Was(i)>> \in older /\ <<Was(i), Was(j)>> \in older
    BY <1>1
  <2>2. <<Was(h), Was(j)>> \in older
    BY <1>3, <2>1 DEF Ordered, Order
  <2> QED
    BY <1>1, <1>3, <2>2
<1>9. \A h \in Existing' : <<h, h>> \notin older'
  BY <1>1, <1>3 DEF Ordered, Order
<1>10. Ordered'
  BY <1>6, <1>7, <1>8, <1>9 DEF Ordered, Order
<1> QED
  BY <1>1, <1>10 DEF Older, Was

\* The names of a day are different, and those of different days.
LEMMA NamesDiffer ==
    \A d, e \in Dates :
        /\ Plain(d) \in Names /\ Out(d) \in Names /\ Tmp(d) \in Names
        /\ Plain(d) # Out(e) /\ Plain(d) # Tmp(e) /\ Out(d) # Tmp(e)
        /\ Plain(d) = Plain(e) \/ Out(d) = Out(e) \/ Tmp(d) = Tmp(e) => d = e
BY DEF Plain, Out, Tmp, Names

\* Writing a file, there or not, changes nothing about the others.
LEMMA WriteKeeps ==
    ASSUME BTypeOK, NEW f \in Names, NEW x \in Held \ {Nothing},
           held' = [held EXCEPT ![f] = x], older' = Touched(f)
    PROVE  /\ Ordered' /\ held' \in [Names -> Held]
           /\ \A g \in Existing \ {f} : <<g, f>> \in older'
           /\ \A g, h \in Names : g # f /\ h # f => (<<g, h>> \in older' <=> <<g, h>> \in older)
           /\ \A g \in Names : <<f, g>> \notin older'
<1>1. held' \in [Names -> Held]
  BY DEF BTypeOK
<1>2. Existing' = Existing \union {f}
  BY DEF BTypeOK, Existing, Exists
<1>3. Ordered
  BY DEF BTypeOK, Ordered, Order, Older
<1> QED
  BY <1>1, <1>2, <1>3, TouchKeeps DEF Older

\* The kinds of content are different, and of the right type.
LEMMA Kinds ==
    /\ Nothing \in Held /\ Empty \in Held /\ Empty # Nothing
    /\ \A v \in 0..MaxVersions :
          /\ Whole(v) \in Held /\ Whole(v) \notin {Nothing, Empty}
          /\ Whole(v).version = v /\ Whole(v).kind = "whole"
          /\ Partial(v) \in Held /\ Partial(v) \notin {Nothing, Empty}
          /\ Partial(v).version = v /\ Partial(v).kind = "partial"
    /\ \A x \in Held : x.version \in 0..MaxVersions /\ (x.kind = "whole" => x = Whole(x.version))
BY BrandingAssumption DEF Nothing, Empty, Held, Whole, Partial

\* os.replace makes the branded file whole, current and of the present video.
LEMMA ReplaceKeeps ==
    ASSUME BTypeOK, BrandingWork, file \in Dates, Replace
    PROVE  /\ Ordered' /\ held' \in [Names -> Held]
           /\ held'[Out(file)] = Whole(held[Plain(file)].version)
           /\ <<Plain(file), Out(file)>> \in older'
           /\ \A d \in Dates : held'[Plain(d)] = held[Plain(d)]
           /\ \A d \in Dates \ {file} :
                 /\ held'[Out(d)] = held[Out(d)]
                 /\ <<Plain(d), Out(d)>> \in older' <=> <<Plain(d), Out(d)>> \in older
<1> USE NamesDiffer
<1> DEFINE t == held[Tmp(file)]
<1>1. t \in Held /\ t.kind = "whole" /\ t.version = held[Plain(file)].version
      /\ Older(Plain(file), Tmp(file))
  BY DEF Replace, BrandingWork, BTypeOK
<1>2. t = Whole(held[Plain(file)].version) /\ t \notin {Nothing, Empty} /\ Tmp(file) \in Existing
  BY <1>1, Kinds DEF Existing, Exists
<1>3. held' = [held EXCEPT ![Out(file)] = t, ![Tmp(file)] = Nothing]
      /\ older' = Renamed(Tmp(file), Out(file))
  BY DEF Replace
<1>4. held' \in [Names -> Held]
  BY <1>1, <1>3, Kinds DEF BTypeOK
<1>5. Existing' = (Existing \ {Tmp(file)}) \union {Out(file)}
  BY <1>2, <1>3 DEF BTypeOK, Existing, Exists
<1>6. Ordered
  BY DEF BTypeOK, Ordered, Order, Older
<1>7. /\ Ordered'
      /\ \A h \in Names \ {Tmp(file), Out(file)} :
            <<h, Out(file)>> \in older' <=> <<h, Tmp(file)>> \in older
      /\ \A h, i \in Names \ {Tmp(file), Out(file)} :
            <<h, i>> \in older' <=> <<h, i>> \in older
  BY <1>2, <1>3, <1>5, <1>6, RenameKeeps DEF Older
<1>8. /\ held'[Out(file)] = t /\ \A d \in Dates : held'[Plain(d)] = held[Plain(d)]
      /\ \A d \in Dates \ {file} : held'[Out(d)] = held[Out(d)]
  BY <1>3 DEF BTypeOK
<1> QED
  BY <1>1, <1>2, <1>4, <1>7, <1>8 DEF Older

\* There is nothing yet.
LEMMA BrandInit == BInit => BrandInv
<1> SUFFICES ASSUME BInit PROVE BrandInv
  OBVIOUS
<1> USE BrandingAssumption
<1>1. Existing = {}
  BY DEF BInit, Existing, Exists
<1>2. BTypeOK
  <2>1. Nothing \in Held
    BY DEF Nothing, Held
  <2> QED
    BY <1>1, <2>1 DEF BInit, BTypeOK
<1>3. BrandedFiles
  BY NamesDiffer DEF BInit, BrandedFiles, Older
<1> QED
  BY <1>2, <1>3 DEF BInit, BrandInv, BrandingWork, WholeAtUpload

\* Each step keeps the invariant.
LEMMA BrandStep == ASSUME BrandInv, [BNext]_bvars PROVE BrandInv'
<1> USE NamesDiffer, BrandingAssumption
<1>t. BTypeOK /\ BrandedFiles /\ BrandingWork /\ WholeAtUpload /\ Ordered /\ file \in Dates
  BY DEF BrandInv, BTypeOK, Ordered, Order, Older
<1>k. ASSUME Ordered', held' \in [Names -> Held], sent' \in [Names -> Held],
             at' \in {"idle", "encoding", "replace", "upload"}, file' \in Dates,
             versions' \in [Dates -> 0..MaxVersions], mishaps' \in 0..MaxMishaps
      PROVE  BTypeOK'
  BY <1>k DEF BTypeOK, Ordered, Order, Older
<1>u. ASSUME UNCHANGED <<held, older>> PROVE BrandedFiles' /\ Ordered'
  BY <1>t, <1>u DEF BrandedFiles, Older, Ordered, Order, Existing, Exists
<1>1. ASSUME NEW d \in Dates, Generate(d) PROVE BrandInv'
  <2>1. versions[d] + 1 \in 0..MaxVersions
    BY <1>t, <1>1 DEF Generate, BTypeOK
  <2> DEFINE w == Whole(versions[d] + 1)
  <2>2. w \in Held \ {Nothing} /\ w = Whole(w.version)
    BY <2>1, Kinds
  <2> HIDE DEF w
  <2>3. held' = [held EXCEPT ![Plain(d)] = w] /\ older' = Touched(Plain(d))
    BY <1>1 DEF Generate, w
  <2>4. /\ Ordered' /\ held' \in [Names -> Held]
        /\ \A g, h \in Names : g # Plain(d) /\ h # Plain(d)
                                 => (Older(g, h)' <=> Older(g, h))
        /\ \A g \in Names : ~Older(Plain(d), g)'
    BY <1>t, WriteKeeps, <2>2, <2>3 DEF Older
  <2>5. BTypeOK'
    BY <1>k, <1>t, <1>1, <2>1, <2>4 DEF Generate, BTypeOK
  <2>6. BrandedFiles'
    BY <1>t, <2>2, <2>3, <2>4 DEF BrandedFiles, BTypeOK
  <2> QED
    BY <1>1, <2>5, <2>6 DEF Generate, BrandInv, BrandingWork, WholeAtUpload
<1>2. ASSUME NEW d \in Dates, BrandStart(d) PROVE BrandInv'
  <2>1. CASE UpToDate(d)
    <3>1. BTypeOK'
      BY <1>k, <1>t, <1>u, <1>2, <2>1 DEF BrandStart, BTypeOK
    <3>2. BrandedFiles'
      BY <1>u, <1>2, <2>1 DEF BrandStart
    <3>3. held[Out(d)] = Whole(held[Plain(d)].version)
      BY <1>t, <2>1 DEF BrandedFiles, UpToDate
    <3> QED
      BY <1>2, <2>1, <3>1, <3>2, <3>3 DEF BrandStart, BrandInv, BrandingWork, WholeAtUpload, Exists
  <2>2. CASE ~UpToDate(d)
    <3>1. held[Plain(d)].version \in 0..MaxVersions
      BY <1>t, Kinds DEF BTypeOK
    <3> DEFINE x == Partial(held[Plain(d)].version)
    <3>2. x \in Held \ {Nothing} /\ x.kind = "partial" /\ x.version = held[Plain(d)].version
      BY <3>1, Kinds
    <3> HIDE DEF x
    <3>3. held' = [held EXCEPT ![Tmp(d)] = x] /\ older' = Touched(Tmp(d))
      BY <1>2, <2>2 DEF BrandStart, x
    <3>4. /\ Ordered' /\ held' \in [Names -> Held]
          /\ \A g \in Existing \ {Tmp(d)} : Older(g, Tmp(d))'
          /\ \A g, h \in Names : g # Tmp(d) /\ h # Tmp(d)
                                   => (Older(g, h)' <=> Older(g, h))
      BY <1>t, WriteKeeps, <3>2, <3>3 DEF Older
    <3>5. BTypeOK'
      BY <1>k, <1>t, <1>2, <2>2, <3>4 DEF BrandStart, BTypeOK
    <3>6. BrandedFiles'
      BY <1>t, <3>3, <3>4 DEF BrandedFiles, BTypeOK
    <3>7. file' = d /\ at' = "encoding" /\ Exists(Plain(d)) /\ Plain(d) \in Existing
      BY <1>2, <2>2 DEF BrandStart, Existing
    <3>8. BrandingWork'
      BY <1>t, <3>2, <3>3, <3>4, <3>7 DEF BrandingWork, BTypeOK, Exists
    <3> QED
      BY <3>5, <3>6, <3>7, <3>8 DEF BrandInv, WholeAtUpload
  <2> QED
    BY <2>1, <2>2
<1>3. CASE Encode
  <2> DEFINE x == [held[Tmp(file)] EXCEPT !.kind = "whole"]
  <2>1. held[Tmp(file)] \in Held /\ at = "encoding"
    BY <1>t, <1>3 DEF BTypeOK, Encode
  <2>2. x \in Held \ {Nothing} /\ x.kind = "whole" /\ x.version = held[Tmp(file)].version
    BY <2>1 DEF Held, Nothing
  <2>3. held' = [held EXCEPT ![Tmp(file)] = x] /\ older' = Touched(Tmp(file))
    BY <1>3, <2>1 DEF Encode
  <2> HIDE DEF x
  <2>4. /\ Ordered' /\ held' \in [Names -> Held]
        /\ \A g \in Existing \ {Tmp(file)} : <<g, Tmp(file)>> \in older'
        /\ \A g, h \in Names : g # Tmp(file) /\ h # Tmp(file)
                                 => (Older(g, h)' <=> Older(g, h))
    <3>1. Tmp(file) \in Names
      BY <1>t
    <3> QED
      BY <1>t, WriteKeeps, <2>2, <2>3, <3>1 DEF Older
  <2>5. BTypeOK'
    BY <1>k, <1>t, <1>3, <2>4 DEF Encode, BTypeOK
  <2>6. BrandedFiles'
    BY <1>t, <2>3, <2>4 DEF BrandedFiles, BTypeOK
  <2>7. file' = file /\ at' = "replace" /\ Exists(Plain(file)) /\ Plain(file) \in Existing
    BY <1>t, <1>3 DEF Encode, Existing, BrandingWork
  <2>8. BrandingWork'
    <3>1. held'[Tmp(file)] = x /\ held'[Plain(file)] = held[Plain(file)]
      BY <1>t, <2>3 DEF BTypeOK
    <3>2. Older(Plain(file), Tmp(file))'
      BY <1>t, <2>4, <2>7 DEF Older
    <3> QED
      BY <1>t, <2>1, <2>2, <2>7, <3>1, <3>2 DEF BrandingWork, Exists
  <2> QED
    BY <2>5, <2>6, <2>7, <2>8 DEF BrandInv, WholeAtUpload
<1>4. CASE Replace
  <2>1. /\ Ordered' /\ held' \in [Names -> Held]
        /\ held'[Out(file)] = Whole(held[Plain(file)].version)
        /\ \A d \in Dates : held'[Plain(d)] = held[Plain(d)]
        /\ \A d \in Dates \ {file} :
              held'[Out(d)] = held[Out(d)] /\ (Older(Plain(d), Out(d))' <=> Older(Plain(d), Out(d)))
    BY <1>t, <1>4, ReplaceKeeps DEF Older
  <2>2. file' = file /\ at' = "upload" /\ Exists(Plain(file))
    BY <1>t, <1>4 DEF Replace, BrandingWork
  <2>3. BTypeOK'
    BY <1>k, <1>t, <1>4, <2>1 DEF Replace, BTypeOK
  <2>4. BrandedFiles'
    BY <1>t, <2>1 DEF BrandedFiles
  <2>5. BrandingWork' /\ WholeAtUpload'
    BY <1>t, <2>1, <2>2 DEF BrandingWork, WholeAtUpload, Exists
  <2> QED
    BY <2>3, <2>4, <2>5 DEF BrandInv
<1>5. ASSUME UploadBranded \/ UploadLatest PROVE BrandInv'
  <2>1. sent' \in [Names -> Held]
    BY <1>t, <1>5 DEF UploadBranded, UploadLatest, Send, BTypeOK, Existing
  <2>2. BTypeOK'
    BY <1>k, <1>t, <1>u, <1>5, <2>1 DEF UploadBranded, UploadLatest, BTypeOK
  <2> QED
    BY <1>t, <1>u, <1>5, <2>2 DEF UploadBranded, UploadLatest, BrandInv, BrandingWork,
       WholeAtUpload, Older, Exists
<1>6. CASE Break
  <2>1. BTypeOK'
    BY <1>k, <1>t, <1>u, <1>6 DEF Break, Mishap, BTypeOK
  <2> QED
    BY <1>u, <1>6, <2>1 DEF Break, BrandInv, BrandingWork, WholeAtUpload
<1>7. CASE DataLoss
  <2>1. held' \in [Names -> Held] /\ file' = file /\ at' = "idle" /\ older' = older
    BY <1>t, Kinds, <1>7 DEF DataLoss, BTypeOK
  <2>2. held[Out(file)] # Nothing
    BY <1>t, <1>7, Kinds DEF DataLoss, WholeAtUpload, BTypeOK
  <2>3. Existing' = Existing
    BY <1>t, Kinds, <1>7, <2>2 DEF DataLoss, BTypeOK, Existing, Exists
  <2>4. BTypeOK'
    BY <1>k, <1>t, <1>7, <2>1, <2>3 DEF DataLoss, Mishap, BTypeOK, Ordered, Order
  <2>5. BrandedFiles'
    BY <1>t, <1>7, <2>1 DEF DataLoss, BrandedFiles, BTypeOK, Older
  <2> QED
    BY <2>1, <2>4, <2>5 DEF BrandInv, BrandingWork, WholeAtUpload
<1>8. CASE UNCHANGED bvars
  <2>1. BTypeOK'
    BY <1>k, <1>t, <1>u, <1>8 DEF bvars, BTypeOK
  <2> QED
    BY <1>t, <1>u, <1>8, <2>1 DEF bvars, BrandInv, BrandingWork, WholeAtUpload, Older, Exists
<1> QED
  BY <1>1, <1>2, <1>3, <1>4, <1>5, <1>6, <1>7, <1>8 DEF BNext

\* The inductive invariant of the branding holds in every reachable state.
THEOREM BrandInvariance == BSpec => []BrandInv
<1>1. BInit => BrandInv
  BY BrandInit
<1>2. BrandInv /\ [BNext]_bvars => BrandInv'
  BY BrandStep
<1> QED
  BY <1>1, <1>2, PTL DEF BSpec

\* What the daily run hands to the upload is a whole branded file of the present
\* video, whatever ffmpeg, the machine or a new download did before.
THEOREM BrandedFilesAreWhole == BSpec => []BrandedIsWhole
<1>1. BrandInv => BrandedIsWhole
  BY DEF BrandInv, BrandedIsWhole
<1> QED
  BY <1>1, BrandInvariance, PTL

-----------------------------------------------------------------------------
(* Branding implements BrandAbstract, in which the daily run has it. *)

\* A day's video is its last version, and only a branded file that does not serve
\* is made anew.
MadeInv ==
    /\ \A d \in Dates : held[Plain(d)] = IF versions[d] = 0 THEN Nothing ELSE Whole(versions[d])
    /\ at \in {"encoding", "replace"} => ~UpToDate(file)

\* A current branded file, or else the video it is to be made from, is a version
\* that was downloaded.
LEMMA VideoVersion ==
    ASSUME BrandInv, MadeInv, NEW d \in Dates
    PROVE  /\ versions[d] \in 0..MaxVersions
           /\ Exists(Plain(d)) <=> versions[d] # 0
           /\ held[Plain(d)].version = versions[d]
BY Kinds DEF BrandInv, BTypeOK, MadeInv, Exists, Nothing

\* Writing the temporary file is no step of BrandAbstract.
LEMMA TmpKeeps ==
    ASSUME BTypeOK, NEW d \in Dates, NEW x \in Held \ {Nothing},
           held' = [held EXCEPT ![Tmp(d)] = x], older' = Touched(Tmp(d))
    PROVE  /\ UNCHANGED <<MadeFrom, Current>>
           /\ \A e \in Dates : held'[Plain(e)] = held[Plain(e)]
           /\ \A e \in Dates : held'[Out(e)] = held[Out(e)]
                               /\ (<<Plain(e), Out(e)>> \in older' <=> <<Plain(e), Out(e)>> \in older)
<1> USE NamesDiffer
<1>1. \A e \in Dates : held'[Plain(e)] = held[Plain(e)] /\ held'[Out(e)] = held[Out(e)]
  BY DEF BTypeOK
<1>2. \A e \in Dates : <<Plain(e), Out(e)>> \in older' <=> <<Plain(e), Out(e)>> \in older
  <2>1. Tmp(d) \in Names /\ \A e \in Dates : Plain(e) \in Names \ {Tmp(d)}
                                             /\ Out(e) \in Names \ {Tmp(d)}
    OBVIOUS
  <2>2. \A g, h \in Names : g # Tmp(d) /\ h # Tmp(d)
                            => (<<g, h>> \in older' <=> <<g, h>> \in older)
    BY <2>1, WriteKeeps
  <2> QED
    BY <2>1, <2>2
<1>3. UNCHANGED MadeFrom
  BY <1>1 DEF MadeFrom
<1>4. UNCHANGED Current
  BY <1>2 DEF Current, Older
<1> QED
  BY <1>1, <1>2, <1>3, <1>4

\* What the brander writes is something.
LEMMA TmpWritten ==
    ASSUME BrandInv, NEW d \in Dates, (BrandStart(d) /\ ~UpToDate(d)) \/ (Encode /\ d = file)
    PROVE  /\ UNCHANGED <<MadeFrom, Current, versions>>
           /\ \A e \in Dates : held'[Plain(e)] = held[Plain(e)]
           /\ \A e \in Dates : held'[Out(e)] = held[Out(e)]
                               /\ (<<Plain(e), Out(e)>> \in older' <=> <<Plain(e), Out(e)>> \in older)
<1> DEFINE x == IF at = "encoding" THEN [held[Tmp(d)] EXCEPT !.kind = "whole"]
                                   ELSE Partial(held[Plain(d)].version)
<1>1. held[Tmp(d)] \in Held /\ held[Plain(d)].version \in 0..MaxVersions
  BY Kinds, NamesDiffer DEF BrandInv, BTypeOK
<1>2. x \in Held \ {Nothing}
  <2>1. CASE at = "encoding"
    BY <1>1, <2>1 DEF Held, Nothing
  <2>2. CASE at # "encoding"
    BY <1>1, <2>2, Kinds
  <2> QED
    BY <2>1, <2>2
<1>3. held' = [held EXCEPT ![Tmp(d)] = x] /\ older' = Touched(Tmp(d)) /\ UNCHANGED versions
  BY DEF BrandStart, Encode, BrandInv, BTypeOK
<1> HIDE DEF x
<1> QED
  BY <1>2, <1>3, TmpKeeps DEF BrandInv

\* A new download makes the day's branded file an old one, and nothing else.
LEMMA GenerateKeeps ==
    ASSUME BrandInv, NEW d \in Dates, Generate(d)
    PROVE  /\ held'[Plain(d)] = Whole(versions[d] + 1) /\ versions[d] \in Nat
           /\ \A e \in Dates \ {d} : held'[Plain(e)] = held[Plain(e)]
           /\ UNCHANGED MadeFrom /\ Current' = Current \ {d}
<1> USE NamesDiffer
<1>1. versions[d] + 1 \in 0..MaxVersions
  BY BrandingAssumption DEF Generate, BrandInv, BTypeOK
<1> DEFINE x == Whole(versions[d] + 1)
<1>2. x \in Held \ {Nothing}
  BY <1>1, Kinds
<1> HIDE DEF x
<1>3. held' = [held EXCEPT ![Plain(d)] = x] /\ older' = Touched(Plain(d))
  BY DEF Generate, x
<1>4. \A e \in Dates : <<Plain(e), Out(e)>> \in older'
                       <=> e # d /\ <<Plain(e), Out(e)>> \in older
  BY <1>2, <1>3, WriteKeeps DEF BrandInv
<1>5. \A e \in Dates : held'[Out(e)] = held[Out(e)]
  BY <1>3 DEF BrandInv, BTypeOK
<1>6. held'[Plain(d)] = x /\ \A e \in Dates \ {d} : held'[Plain(e)] = held[Plain(e)]
  BY <1>3 DEF BrandInv, BTypeOK
<1> QED
  BY <1>1, <1>4, <1>5, <1>6 DEF MadeFrom, Current, Older, x, BrandInv, BTypeOK

\* The steps keep it.
LEMMA MadeStep ==
    ASSUME BrandInv, MadeInv, [BNext]_bvars
    PROVE  MadeInv'
<1> USE NamesDiffer
<1>t. BTypeOK /\ BrandingWork /\ file \in Dates
  BY DEF BrandInv, BTypeOK
<1>1. ASSUME NEW d \in Dates, Generate(d) PROVE MadeInv'
  <2>1. versions' = [versions EXCEPT ![d] = @ + 1] /\ at' = "idle"
    BY <1>1 DEF Generate
  <2>2. versions'[d] = versions[d] + 1 /\ \A e \in Dates \ {d} : versions'[e] = versions[e]
    BY <1>t, <2>1 DEF BTypeOK
  <2> QED
    BY <1>1, <2>1, <2>2, GenerateKeeps DEF MadeInv
<1>2. ASSUME NEW d \in Dates, BrandStart(d) PROVE MadeInv'
  <2>1. CASE UpToDate(d)
    BY <1>2, <2>1 DEF BrandStart, MadeInv
  <2>2. CASE ~UpToDate(d)
    <3>1. at' = "encoding" /\ file' = d
      BY <1>2, <2>2 DEF BrandStart
    <3> QED
      BY <1>2, <2>2, <3>1, TmpWritten DEF MadeInv, UpToDate, Older
  <2> QED
    BY <2>1, <2>2
<1>3. CASE Encode
  <2>1. at = "encoding" /\ file' = file
    BY <1>3 DEF Encode
  <2> QED
    BY <1>t, <1>3, <2>1, TmpWritten DEF MadeInv, UpToDate, Older
<1>4. CASE Replace
  <2>1. at' = "upload" /\ UNCHANGED versions
    BY <1>4 DEF Replace
  <2> QED
    BY <1>t, <1>4, <2>1, ReplaceKeeps DEF MadeInv
<1>5. CASE DataLoss
  <2>1. at' = "idle" /\ UNCHANGED versions /\ \A d \in Dates : held'[Plain(d)] = held[Plain(d)]
    BY <1>t, <1>5 DEF DataLoss, BTypeOK
  <2> QED
    BY <2>1 DEF MadeInv
<1>6. CASE UploadBranded \/ UploadLatest \/ Break \/ UNCHANGED bvars
  BY <1>6 DEF UploadBranded, UploadLatest, Break, bvars, MadeInv, UpToDate, Older
<1> QED
  BY <1>1, <1>2, <1>3, <1>4, <1>5, <1>6 DEF BNext

\* Each step is one of BrandAbstract, or none.
LEMMA OneStepStep ==
    ASSUME BrandInv, MadeInv, [BNext]_bvars
    PROVE  [OneStep!ANext]_(OneStep!avars)
<1> USE NamesDiffer
<1> DEFINE Goal == [OneStep!ANext]_(OneStep!avars)
<1>t. BTypeOK /\ BrandingWork /\ file \in Dates
  BY DEF BrandInv, BTypeOK
<1>1. ASSUME NEW d \in Dates, Generate(d) PROVE Goal
  <2>1. versions' = [versions EXCEPT ![d] = @ + 1] /\ at = "idle" /\ UNCHANGED Offered
    BY <1>1 DEF Generate, Offered
  <2>2. OneStep!Film(d)
    BY <1>1, <2>1, GenerateKeeps DEF OneStep!Film, Offered
  <2> QED
    BY <2>2 DEF OneStep!ANext
<1>2. ASSUME NEW d \in Dates, BrandStart(d) PROVE Goal
  <2>1. CASE UpToDate(d)
    <3>1. held[Out(d)] = Whole(versions[d]) /\ versions[d] \in 0..MaxVersions /\ versions[d] # 0
      BY <1>2, <2>1, VideoVersion DEF BrandInv, BrandedFiles, UpToDate, BrandStart
    <3>2. MadeFrom[d] # 0 /\ d \in Current
      BY <2>1, <3>1, Kinds DEF MadeFrom, Current, UpToDate
    <3>3. UNCHANGED <<MadeFrom, Current, versions>> /\ Offered = {} /\ Offered' = {d}
      BY <1>2, <2>1 DEF BrandStart, MadeFrom, Current, Older, Offered
    <3>4. OneStep!Brand(d)
      BY <3>1, <3>2, <3>3 DEF OneStep!Brand, OneStep!Use
    <3> QED
      BY <3>4 DEF OneStep!ANext
  <2>2. CASE ~UpToDate(d)
    <3>1. UNCHANGED Offered
      BY <1>2, <2>2 DEF BrandStart, Offered
    <3> QED
      BY <1>2, <2>2, <3>1, TmpWritten DEF OneStep!avars
  <2> QED
    BY <2>1, <2>2
<1>3. CASE Encode
  <2>1. UNCHANGED Offered
    BY <1>3 DEF Encode, Offered
  <2> QED
    BY <1>t, <1>3, <2>1, TmpWritten DEF OneStep!avars
<1>4. CASE Replace
  <2>1. Offered = {} /\ Offered' = {file} /\ UNCHANGED versions /\ at = "replace"
    BY <1>4 DEF Replace, Offered
  <2>2. held'[Out(file)] = Whole(versions[file]) /\ versions[file] \in 0..MaxVersions
        /\ versions[file] # 0
    BY <1>t, <1>4, <2>1, VideoVersion, ReplaceKeeps DEF BrandingWork
  <2>3. MadeFrom' = [MadeFrom EXCEPT ![file] = versions[file]]
    <3>1. MadeFrom'[file] = versions[file]
      BY <1>t, <2>2, Kinds DEF MadeFrom
    <3>2. \A d \in Dates \ {file} : MadeFrom'[d] = MadeFrom[d]
      BY <1>t, <1>4, ReplaceKeeps DEF MadeFrom
    <3> QED
      BY <3>1, <3>2 DEF MadeFrom
  <2>4. Current' = Current \cup {file}
    BY <1>t, <1>4, ReplaceKeeps DEF Current, Older
  <2>5. file \notin Current \/ MadeFrom[file] = 0
    BY <1>t, <2>1 DEF MadeInv, UpToDate, Current, MadeFrom, Nothing, Empty
  <2>6. OneStep!Brand(file)
    BY <2>1, <2>2, <2>3, <2>4, <2>5 DEF OneStep!Brand, OneStep!Make
  <2> QED
    BY <1>t, <2>6 DEF OneStep!ANext
<1>5. CASE UploadBranded \/ Break
  <2>1. Offered' = {} /\ UNCHANGED <<MadeFrom, Current, versions>>
    BY <1>5 DEF UploadBranded, Break, MadeFrom, Current, Older, Offered
  <2> QED
    BY <2>1 DEF OneStep!ANext, OneStep!Leave
<1>6. CASE DataLoss
  <2>1. Offered = {file} /\ Offered' = {} /\ UNCHANGED <<Current, versions>>
    BY <1>6 DEF DataLoss, Current, Older, Offered
  <2>2. MadeFrom' = [MadeFrom EXCEPT ![file] = 0]
    BY <1>t, <1>6 DEF DataLoss, MadeFrom, Empty, BTypeOK
  <2> QED
    BY <2>1, <2>2 DEF OneStep!ANext, OneStep!Leave
<1>7. CASE UploadLatest \/ UNCHANGED bvars
  BY <1>7 DEF UploadLatest, bvars, MadeFrom, Current, Older, Offered, OneStep!avars
<1> QED
  BY <1>1, <1>2, <1>3, <1>4, <1>5, <1>6, <1>7 DEF BNext

\* Whatever ffmpeg, the machine and new downloads do, the branding is what the
\* daily run takes it for: one step that makes the branded file of the present
\* video, or finds it made.
THEOREM BrandingRefines == BSpec => ImplementsBranding
<1>1. BInit => OneStep!AInit /\ MadeInv
  BY NamesDiffer DEF BInit, OneStep!AInit, MadeInv, MadeFrom, Current, Older, Offered, Nothing
<1>2. MadeInv /\ BrandInv /\ [BNext]_bvars => MadeInv'
  BY MadeStep
<1>3. MadeInv /\ BrandInv /\ [BNext]_bvars => [OneStep!ANext]_(OneStep!avars)
  BY OneStepStep
<1> QED
  BY <1>1, <1>2, <1>3, BrandInvariance, PTL DEF BSpec, ImplementsBranding, OneStep!ASpec

=============================================================================
