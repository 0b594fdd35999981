---------------------------- MODULE TopicsProofs ----------------------------
(***************************************************************************)
(* Proofs about Topics for any news, window, days, faults and rebuilds,    *)
(* under an operator who rebuilds with care (CarefulRebuild): the history  *)
(* recalls what is published, and, where telling the same story is         *)
(* transitive, no story is told twice within the window.                   *)
(***************************************************************************)
EXTENDS Topics, WellFoundedInduction, TLAPS

\* Telling the same story is transitive: no listing shares its title with one
\* piece of news and its URL with another.
Transitive ==
    \A i, j, k \in Items : SameStory(i, j) /\ SameStory(j, k) => SameStory(i, k)

\* Nothing bears a date of the future, and no upload a later date than its day.
DateInv ==
    /\ today <= clock /\ top1.date <= clock
    /\ \A h \in history \union seen \union articles \union copy : h.date <= clock
    /\ \A p \in published : p.date <= p.on /\ p.on <= clock

\* A careful operator lets nobody else write while the run or a rebuild does.
TurnInv ==
    /\ pc # "idle" => backfill = "idle" /\ ~lost /\ \A p \in published : p.date < today
    /\ pc \in {"rank", "write"} => seen = history
    /\ pc \in {"write", "written"} => chosen \in Items
    /\ pc = "made" => top1.date = today
    /\ backfill = "merge" => copy = history
    /\ lost => history = {} /\ top1 = NoTopic /\ before = published

\* What a rebuild wrote without a title is dated before today, or on a day that
\* has its video.
TitleInv ==
    /\ \A h \in history \union articles \union copy :
          h.item \in Items \/ h.date < clock \/ \E p \in published : p.date = h.date
    /\ pc \in {"rank", "write"} => \A h \in seen : h.date = today => h.item \in Items

Knows(entries, d, item) ==
    \E h \in entries : h.date = d /\ h.item \in Items /\ SameStory(h.item, item)

\* What is chosen is noted under its day before it is top1.json's.
NotedInv ==
    /\ pc = "written" => Knows(history, today, chosen)
    /\ top1.date # 0 /\ clock - top1.date < HistoryDays => Knows(history, top1.date, top1.item)

\* An entry that bars what is left to bar of an upload's story.
Covers(i, p) ==
    \/ i \in Items /\ SameStory(i, p.item)
    \/ Bare(p) /\ i.url = p.item.url

\* A video in the window has an entry that is not older.
Recalls(entries, p) ==
    \E h \in entries : p.date <= h.date /\ Covers(h.item, p)

RecallInv ==
    /\ lost \/ \A p \in published :
                  clock - p.date < HistoryDays /\ ~Gone(p) => Recalls(history, p)
    /\ backfill # "idle" /\ lost => \A p \in published : ~Gone(p) => Recalls(articles, p)

IInv == TypeOK /\ DateInv /\ TurnInv /\ TitleInv /\ NotedInv /\ RecallInv

\* From the next day on it has one that blocks.
Bars(entries, p) ==
    \E h \in entries : p.date <= h.date /\ h.date < clock /\ Covers(h.item, p)

Past(p) == p.date < clock /\ clock - p.date < HistoryDays /\ ~Gone(p)

BarInv ==
    /\ lost \/ \A p \in published : Past(p) => Bars(history, p)
    /\ backfill # "idle" /\ lost => \A p \in published : Past(p) => Bars(articles, p)

\* So that nothing that is told is chosen again.
ChoiceInv ==
    /\ pc = "rank" => \A p \in published : InWindow(p.date, today) /\ ~Gone(p)
                        => \E h \in seen : Blocks(h, today) /\ Covers(h.item, p)
    /\ pc \in {"write", "written"} =>
          \A p \in published : InWindow(p.date, today) /\ CanTell(p, chosen)
                              => ~SameStory(p.item, chosen)
    /\ \A p \in published :
          p.date < top1.date /\ InWindow(p.date, top1.date) /\ CanTell(p, top1.item)
          => ~SameStory(p.item, top1.item)

JInv == IInv /\ BarInv /\ ChoiceInv /\ NoRepeat

-----------------------------------------------------------------------------
(* Types and dates. *)

\* Bounded numbers have a greatest one.
LEMMA Latest ==
    ASSUME NEW D, D \subseteq Nat, D # {}, NEW n \in Nat, \A d \in D : d <= n
    PROVE  \E d \in D : \A e \in D : e <= d
<1> DEFINE T == {k \in Nat : n - k \in D}
           R == OpToRel(<, Nat)
<1>1. PICK d \in D : TRUE
  OBVIOUS
<1>2. n - d \in T
  OBVIOUS
<1>3. IsWellFoundedOn(R, Nat)
  BY NatLessThanWellFounded
<1>4. T \subseteq Nat /\ T # {}
  BY <1>2
<1>5. \E x \in T : \A y \in T : ~(<<y, x>> \in R)
  <2> HIDE DEF T, R
  <2> QED
    BY <1>3, <1>4, WFMin
<1>6. PICK k \in T : \A j \in T : ~(<<j, k>> \in R)
  BY <1>5
<1>7. \A j \in T : ~(j < k)
  BY <1>6 DEF OpToRel
<1> QED
  BY <1>7

\* Every step keeps the types.
LEMMA TypeKept == ASSUME IInv, [Next]_vars PROVE TypeOK'
<1>p. TypeOK /\ TurnInv
  BY DEF IInv
<1> USE <1>p, TopicsAssumption DEF TypeOK, runVars, fillVars, lossVars
<1>1. CASE Start
  BY <1>1 DEF Start, Today
<1>2. CASE NothingFresh \/ Rank
  BY <1>2 DEF NothingFresh, Rank, Fresh
<1>3. CASE Write
  <2>1. CASE pc = "write"
    <3>1. [date |-> today, item |-> chosen] \in Entry
      BY <2>1 DEF TurnInv, Entry
    <3>2. Noted \subseteq Entry
      BY <3>1 DEF Noted
    <3> QED
      BY <1>3, <2>1, <3>2 DEF Write, Writes
  <2>2. CASE pc = "written"
    <3>1. [date |-> today, item |-> chosen] \in Topic
      BY <2>2 DEF TurnInv, Topic
    <3> QED
      BY <1>3, <2>2, <3>1 DEF Write, Writes
  <2> QED
    BY <1>3, <2>1, <2>2 DEF Write, Writes
<1>4. CASE Publish
  <2>1. PICK plain \in BOOLEAN :
           published' = published \union
             {[date |-> today, item |-> top1.item, on |-> clock, plain |-> plain]}
    BY <1>4 DEF Publish
  <2> DEFINE n == [date |-> today, item |-> top1.item, on |-> clock, plain |-> plain]
  <2>2. top1 \in Topic
    BY <1>4 DEF Publish, NoTopic, Dates
  <2>3. n \in [date : Dates, item : Items, on : Dates, plain : BOOLEAN]
    BY <2>2 DEF Topic
  <2>4. /\ published' = published \union {n} /\ pc' = "idle"
        /\ UNCHANGED <<clock, history, top1, today, seen, chosen, fillVars, lossVars>>
    BY <1>4, <2>1 DEF Publish
  <2> HIDE DEF n
  <2> QED
    BY <2>3, <2>4
<1>5. CASE Break
  BY <1>5 DEF Break
<1>6. CASE BackfillFetch
  <2>1. articles' \subseteq Entry
    BY <1>6 DEF BackfillFetch, DayOf, Entry
  <2> QED
    BY <1>6, <2>1 DEF BackfillFetch
<1>7. CASE BackfillRead
  BY <1>7 DEF BackfillRead
<1>8. CASE BackfillWrite
  BY <1>8 DEF BackfillWrite, Added
<1>9. CASE LoseHistory
  BY <1>9 DEF LoseHistory
<1>10. CASE Midnight
  BY <1>10 DEF Midnight, Dates
<1>11. CASE UNCHANGED vars
  BY <1>11 DEF vars
<1> QED
  BY <1>1, <1>2, <1>3, <1>4, <1>5, <1>6, <1>7, <1>8, <1>9, <1>10, <1>11
     DEF Next, Run, Rebuild

\* Every step keeps the dates in order.
LEMMA DateKept == ASSUME IInv, [Next]_vars PROVE DateInv'
<1> USE DEF DateInv, runVars, fillVars, lossVars
<1>p. /\ DateInv /\ TypeOK /\ clock \in Nat /\ today \in Nat
  BY DEF IInv, TypeOK, Dates
<1>1. CASE Start
  BY <1>p, <1>1 DEF Start, Today
<1>2. CASE NothingFresh \/ Rank
  BY <1>p, <1>2 DEF NothingFresh, Rank
<1>3. CASE Write
  <2>1. \A h \in Noted : h.date <= clock
    BY <1>p DEF Noted
  <2> QED
    BY <1>p, <1>3, <2>1 DEF Write, Writes
<1>4. CASE Publish
  BY <1>p, <1>4 DEF Publish
<1>5. CASE Break
  BY <1>p, <1>5 DEF Break
<1>6. CASE BackfillFetch
  BY <1>p, <1>6 DEF BackfillFetch, DayOf
<1>7. CASE BackfillRead
  BY <1>p, <1>7 DEF BackfillRead
<1>8. CASE BackfillWrite
  BY <1>p, <1>8 DEF BackfillWrite, Added
<1>9. CASE LoseHistory
  BY <1>p, <1>9 DEF LoseHistory, NoTopic
<1>10. CASE Midnight
  <2>1. \A n \in Int : n <= clock => n <= clock + 1
    BY <1>p
  <2>2. clock' = clock + 1
    BY <1>10 DEF Midnight
  <2> QED
    BY <1>p, <1>10, <2>1, <2>2 DEF Midnight, TypeOK, Dates, Entry, Topic, NoTopic
<1>11. CASE UNCHANGED vars
  BY <1>p, <1>11 DEF vars
<1> QED
  BY <1>1, <1>2, <1>3, <1>4, <1>5, <1>6, <1>7, <1>8, <1>9, <1>10, <1>11
     DEF Next, Run, Rebuild

\* A run and a rebuild take turns.
LEMMA TurnKept == ASSUME CarefulRebuild = TRUE, IInv, [Next]_vars PROVE TurnInv'
<1> USE DEF TurnInv, runVars, fillVars, lossVars
<1>p. TurnInv /\ DateInv /\ TypeOK
  BY DEF IInv
<1>1. CASE Start
  <2>1. /\ backfill = "idle" /\ ~lost /\ today' = clock
        /\ UNCHANGED <<published, top1, history, backfill, copy, lost>>
        /\ \/ top1.date = clock /\ pc' = "made"
           \/ pc' = "rank" /\ seen' = history
    BY <1>1 DEF Start, Quiet, Today
  <2>2. \A p \in published : p.date < clock
    <3>1. \A p \in published : p.date # clock /\ p.date <= p.on /\ p.on <= clock
      BY <1>p, <1>1 DEF DateInv, Start, Today
    <3> QED
      BY <1>p, <3>1 DEF TypeOK, Dates
  <2> QED
    BY <1>p, <2>1, <2>2
<1>2. CASE NothingFresh \/ Rank
  BY <1>p, <1>2 DEF NothingFresh, Rank, Fresh
<1>3. CASE Write
  BY <1>p, <1>3 DEF Write, Writes
<1>4. CASE Publish \/ Break
  BY <1>p, <1>4 DEF Publish, Break
<1>5. CASE BackfillFetch \/ BackfillRead \/ BackfillWrite
  BY <1>p, <1>5 DEF BackfillFetch, BackfillRead, BackfillWrite
<1>6. CASE LoseHistory \/ Midnight
  BY <1>p, <1>6 DEF LoseHistory, Midnight
<1>7. CASE UNCHANGED vars
  BY <1>p, <1>7 DEF vars
<1> QED
  BY <1>1, <1>2, <1>3, <1>4, <1>5, <1>6, <1>7 DEF Next, Run, Rebuild

\* What a rebuild has written without a title stays before the day of a run.
LEMMA TitleKept == ASSUME CarefulRebuild = TRUE, IInv, [Next]_vars PROVE TitleInv'
<1> USE DEF TitleInv, runVars, fillVars, lossVars
<1>p. TitleInv /\ TurnInv /\ DateInv /\ TypeOK
  BY DEF IInv
<1>1. CASE Start
  <2>1. /\ today' = clock /\ \A p \in published : p.date # clock
        /\ UNCHANGED <<clock, published, history, articles, copy>>
        /\ pc' = "made" \/ (pc' = "rank" /\ seen' = history)
    BY <1>1 DEF Start, Today
  <2>2. \A n \in Int : ~(n < n)
    OBVIOUS
  <2>3. clock \in Int
    BY <1>p DEF TypeOK, Dates
  <2> QED
    BY <1>p, <2>1, <2>2, <2>3
<1>2. CASE NothingFresh \/ Rank
  BY <1>p, <1>2 DEF NothingFresh, Rank
<1>3. CASE Write
  <2>1. CASE pc = "write"
    <3>1. \A h \in Noted : h.item \in Items \/ h \in history
      BY <1>p, <2>1 DEF Noted, TurnInv
    <3>2. /\ history' = Noted /\ pc' = "written"
          /\ UNCHANGED <<clock, published, articles, copy>>
      BY <1>3, <2>1 DEF Write, Writes
    <3> QED
      BY <1>p, <3>1, <3>2
  <2>2. CASE pc = "written"
    BY <1>p, <1>3, <2>2 DEF Write, Writes
  <2> QED
    BY <1>3, <2>1, <2>2 DEF Write, Writes
<1>4. CASE Publish \/ Break
  <2>1. /\ published \subseteq published' /\ pc' = "idle"
        /\ UNCHANGED <<clock, history, articles, copy>>
    BY <1>4 DEF Publish, Break
  <2> QED
    BY <1>p, <2>1
<1>5. CASE BackfillFetch
  <2>1. /\ pc = "idle" /\ ~\E p \in published : p.date < clock /\ p.on = clock
        /\ UNCHANGED <<clock, published, history, copy, pc>>
        /\ \A h \in articles' : \E p \in published : h.date = p.on
    BY <1>5 DEF BackfillFetch, DayOf
  <2>2. \A h \in articles' : h.date < clock \/ \E p \in published : p.date = h.date
    <3> SUFFICES ASSUME NEW h \in articles', ~(h.date < clock)
                 PROVE  \E p \in published : p.date = h.date
      OBVIOUS
    <3>1. PICK p \in published : h.date = p.on
      BY <2>1
    <3>2. p.date \in Nat /\ p.on \in Nat /\ clock \in Nat /\ p.date <= p.on /\ p.on <= clock
      BY <1>p DEF DateInv, TypeOK, Dates
    <3>3. p.on = clock
      BY <3>1, <3>2
    <3>4. ~(p.date < clock)
      BY <2>1, <3>3
    <3>5. p.date = h.date
      BY <3>1, <3>2, <3>3, <3>4
    <3> QED
      BY <3>5
  <2> QED
    BY <1>p, <2>1, <2>2
<1>6. CASE BackfillRead
  BY <1>p, <1>6 DEF BackfillRead
<1>7. CASE BackfillWrite
  <2>1. /\ \A h \in history' : h \in copy \union articles
        /\ UNCHANGED <<clock, published, articles, copy, pc, seen, today>>
    BY <1>7 DEF BackfillWrite, Added
  <2> QED
    BY <1>p, <2>1
<1>8. CASE LoseHistory
  BY <1>p, <1>8 DEF LoseHistory
<1>9. CASE Midnight
  <2>1. /\ clock' = clock + 1
        /\ UNCHANGED <<published, history, articles, copy, pc, seen, today>>
    BY <1>9 DEF Midnight
  <2>2. \A h \in history \union articles \union copy :
           h.date \in Nat /\ clock \in Nat /\ h.date <= clock
    BY <1>p DEF DateInv, TypeOK, Dates, Entry
  <2>3. \A h \in history \union articles \union copy : h.date < clock + 1
    BY <2>2
  <2> QED
    BY <1>p, <2>1, <2>3
<1>10. CASE UNCHANGED vars
  BY <1>p, <1>10 DEF vars
<1> QED
  BY <1>1, <1>2, <1>3, <1>4, <1>5, <1>6, <1>7, <1>8, <1>9, <1>10 DEF Next, Run, Rebuild

-----------------------------------------------------------------------------
(* What the history knows. *)

\* What covers an upload shares its story.
LEMMA CoversSame == \A i, p : Covers(i, p) => SameStory(i, p.item)
BY DEF Covers, SameStory

\* A rebuild's entry covers the uploads with its URL.
LEMMA ParsedCovers ==
    ASSUME NEW p, NEW q, p \in before, q.item \in Items, q.item.url = p.item.url
    PROVE  Covers(Parsed(q.item), p)
<1>1. CASE q.item.url \in Titled
  BY <1>1 DEF Parsed, Covers, SameStory
<1>2. CASE q.item.url \notin Titled
  BY <1>2 DEF Parsed, Covers, Bare
<1> QED
  BY <1>1, <1>2

\* An entry in the day's window outlives the note of the day.
LEMMA NotedKeeps ==
    ASSUME IInv, pc = "write", NEW h \in history, clock - h.date < HistoryDays
    PROVE  h \in Noted
<1>1. h \in seen /\ today <= clock /\ clock \in Nat /\ today \in Nat /\ h.date \in Nat
  BY DEF IInv, TurnInv, DateInv, TypeOK, Dates, Entry
<1>2. InWindow(h.date, today)
  BY <1>1, TopicsAssumption DEF InWindow
<1> QED
  BY <1>1, <1>2 DEF Noted

\* The day's choice is noted.
LEMMA NotedKnows ==
    ASSUME IInv, pc = "write"
    PROVE  Knows(Noted, today, chosen)
<1>1. today \in Nat /\ InWindow(today, today)
  BY TopicsAssumption DEF IInv, TypeOK, Dates, InWindow
<1>2. CASE \E h \in seen : h.date = today /\ SameStory(h.item, chosen)
  <2>1. PICK h \in seen : h.date = today /\ SameStory(h.item, chosen)
    BY <1>2
  <2>2. h.item \in Items /\ h \in Noted
    BY <1>1, <1>2, <2>1 DEF Noted, IInv, TitleInv
  <2> QED
    BY <2>1, <2>2 DEF Knows
<1>3. CASE ~\E h \in seen : h.date = today /\ SameStory(h.item, chosen)
  <2> DEFINE n == [date |-> today, item |-> chosen]
  <2>1. n \in Noted /\ n.date = today /\ n.item \in Items /\ SameStory(n.item, chosen)
    BY <1>1, <1>3 DEF Noted, SameStory, IInv, TurnInv
  <2> QED
    BY <2>1 DEF Knows
<1> QED
  BY <1>2, <1>3

\* What is chosen is noted before it is published.
LEMMA NotedInvKept == ASSUME CarefulRebuild = TRUE, IInv, [Next]_vars PROVE NotedInv'
<1> USE DEF runVars, fillVars, lossVars
<1>p. /\ NotedInv /\ TurnInv /\ DateInv /\ TypeOK /\ clock \in Nat /\ today \in Nat
      /\ top1.date \in Nat
  BY DEF IInv, TypeOK, Dates, Entry, Topic, NoTopic
<1>1. ASSUME history \subseteq history', top1' = top1, clock' \in {clock, clock + 1},
             pc' = "written" => pc = "written" /\ UNCHANGED <<today, chosen>>
      PROVE  NotedInv'
  <2>1. clock' - top1.date < HistoryDays => clock - top1.date < HistoryDays
    BY <1>p, <1>1, TopicsAssumption
  <2> QED
    BY <1>p, <1>1, <2>1 DEF NotedInv, Knows
<1>2. CASE Start \/ NothingFresh \/ Rank \/ Publish \/ Break
  BY <1>1, <1>2 DEF Start, NothingFresh, Rank, Publish, Break
<1>3. CASE Write
  <2>1. CASE pc = "write"
    <3>1. history' = Noted /\ pc' = "written" /\ UNCHANGED <<clock, top1, today, chosen>>
      BY <1>3, <2>1 DEF Write, Writes
    <3>2. Knows(history', today, chosen)
      BY <2>1, <3>1, NotedKnows
    <3>3. ASSUME top1.date # 0, clock - top1.date < HistoryDays
          PROVE  Knows(history', top1.date, top1.item)
      <4>1. PICK h \in history :
               h.date = top1.date /\ h.item \in Items /\ SameStory(h.item, top1.item)
        BY <1>p, <3>3 DEF NotedInv, Knows
      <4>2. h \in Noted
        BY <2>1, <3>3, <4>1, NotedKeeps
      <4> QED
        BY <3>1, <4>1, <4>2 DEF Knows
    <3> QED
      BY <3>1, <3>2, <3>3 DEF NotedInv
  <2>2. CASE pc = "written"
    <3>1. /\ top1' = [date |-> today, item |-> chosen] /\ pc' = "made"
          /\ UNCHANGED <<clock, history>>
      BY <1>3, <2>2 DEF Write, Writes
    <3> QED
      BY <1>p, <2>2, <3>1 DEF NotedInv
  <2> QED
    BY <1>3, <2>1, <2>2 DEF Write, Writes
<1>4. CASE BackfillFetch \/ BackfillRead
  BY <1>1, <1>4 DEF BackfillFetch, BackfillRead
<1>5. CASE BackfillWrite
  <2>1. /\ history' = copy \union Added /\ backfill = "merge"
        /\ UNCHANGED <<top1, clock, pc, today, chosen>>
    BY <1>5 DEF BackfillWrite
  <2> QED
    BY <1>1, <1>p, <2>1 DEF TurnInv
<1>6. CASE LoseHistory
  BY <1>6 DEF LoseHistory, NotedInv, NoTopic
<1>7. CASE Midnight
  BY <1>1, <1>7 DEF Midnight
<1>8. CASE UNCHANGED vars
  BY <1>1, <1>8 DEF vars
<1> QED
  BY <1>2, <1>3, <1>4, <1>5, <1>6, <1>7, <1>8 DEF Next, Run, Rebuild

\* The rebuild takes for every upload it can read the latest with its URL.
LEMMA FetchFinds ==
    ASSUME TypeOK, NEW p \in published, Recoverable(p)
    PROVE  \E q \in published :
              /\ Recoverable(q) /\ q.item.url = p.item.url /\ p.on <= q.on
              /\ \A r \in published : Recoverable(r) /\ r.item.url = q.item.url => r.on <= q.on
<1> DEFINE U == {q \in published : Recoverable(q) /\ q.item.url = p.item.url}
           D == {r.on : r \in U}
<1>1. D \subseteq Nat /\ D # {} /\ LastDay \in Nat /\ \A d \in D : d <= LastDay
  BY TopicsAssumption DEF TypeOK, Dates
<1>2. \E d \in D : \A e \in D : e <= d
  <2> HIDE DEF D
  <2> QED
    BY <1>1, Latest
<1>3. PICK q \in U : \A e \in D : e <= q.on
  BY <1>2
<1> QED
  BY <1>3

\* What the rebuild reads of it covers the upload, if it was there at the loss.
LEMMA FetchCovers ==
    ASSUME TypeOK, BackfillFetch, NEW p \in published, p \in before, Recoverable(p)
    PROVE  \E q \in published :
              /\ q.item.url = p.item.url /\ p.on <= q.on
              /\ [date |-> q.on, item |-> Parsed(q.item)] \in articles'
              /\ Covers(Parsed(q.item), p)
<1>1. PICK q \in published :
         /\ Recoverable(q) /\ q.item.url = p.item.url /\ p.on <= q.on
         /\ \A r \in published : Recoverable(r) /\ r.item.url = q.item.url => r.on <= q.on
  BY FetchFinds
<1> DEFINE U == {r \in published : Recoverable(r)}
           L == {r \in U : \A t \in U : t.item.url = r.item.url => t.on <= r.on}
<1>2. q \in L
  BY <1>1
<1>3. articles' = {[date |-> r.on, item |-> Parsed(r.item)] : r \in L}
  BY DEF BackfillFetch, DayOf
<1>4. [date |-> q.on, item |-> Parsed(q.item)] \in articles'
  <2> HIDE DEF L
  <2> QED
    BY <1>2, <1>3
<1>5. Covers(Parsed(q.item), p)
  BY <1>1, ParsedCovers DEF TypeOK
<1> QED
  BY <1>1, <1>4, <1>5

\* Every step keeps what the history and a rebuild recall.
LEMMA RecallKept == ASSUME CarefulRebuild = TRUE, IInv, [Next]_vars PROVE RecallInv'
<1> USE DEF runVars, fillVars, lossVars
<1>p. /\ RecallInv /\ NotedInv /\ TurnInv /\ DateInv /\ TypeOK
      /\ clock \in Nat /\ today \in Nat /\ HistoryDays \in Nat \ {0}
      /\ \A p \in published : p.date \in Nat /\ p.on \in Nat
  BY TopicsAssumption DEF IInv, TypeOK, Dates
<1>1. ASSUME history \subseteq history', published' = published, clock' \in {clock, clock + 1},
             lost' = lost, before' = before,
             backfill' # "idle" => backfill # "idle" /\ articles' = articles
      PROVE  RecallInv'
  <2>1. \A p \in published : clock' - p.date < HistoryDays => clock - p.date < HistoryDays
    BY <1>p, <1>1
  <2> QED
    BY <1>p, <1>1, <2>1 DEF RecallInv, Recalls, Covers, Bare, Gone
<1>2. CASE Start \/ NothingFresh \/ Rank \/ Break
  BY <1>1, <1>2 DEF Start, NothingFresh, Rank, Break
<1>3. CASE Write
  <2>1. UNCHANGED <<published, clock, lost, before, backfill, articles>>
    BY <1>3 DEF Write
  <2>2. CASE pc = "write"
    <3>1. history' = Noted /\ ~lost /\ backfill = "idle"
      BY <1>p, <1>3, <2>2 DEF Write, Writes, TurnInv
    <3>2. ASSUME NEW p \in published, clock - p.date < HistoryDays, ~Gone(p)
          PROVE  Recalls(history', p)
      <4>1. PICK h \in history : p.date <= h.date /\ Covers(h.item, p)
        BY <1>p, <3>1, <3>2 DEF RecallInv, Recalls
      <4>2. h.date \in Nat
        BY <1>p DEF TypeOK, Entry, Dates
      <4>3. clock - h.date < HistoryDays
        BY <1>p, <3>2, <4>1, <4>2
      <4>4. h \in Noted
        BY <2>2, <4>3, NotedKeeps
      <4> QED
        BY <3>1, <4>1, <4>4 DEF Recalls
    <3> QED
      BY <2>1, <3>1, <3>2 DEF RecallInv, Recalls, Covers, Bare, Gone
  <2>3. CASE pc = "written"
    <3>1. history' = history
      BY <1>3, <2>3 DEF Write, Writes
    <3> QED
      BY <1>1, <2>1, <3>1
  <2> QED
    BY <1>3, <2>2, <2>3 DEF Write, Writes
<1>4. CASE Publish
  <2>1. PICK plain \in BOOLEAN :
           published' = published \union
             {[date |-> today, item |-> top1.item, on |-> clock, plain |-> plain]}
    BY <1>4 DEF Publish
  <2> DEFINE n == [date |-> today, item |-> top1.item, on |-> clock, plain |-> plain]
  <2>2. /\ published' = published \union {n} /\ top1.date = today /\ today # 0
        /\ UNCHANGED <<history, clock, lost, before, backfill, articles>> /\ backfill = "idle"
    BY <1>p, <1>4, <2>1 DEF Publish, TurnInv, TypeOK, Dates
  <2>3. clock - n.date < HistoryDays => Recalls(history, n)
    <3> SUFFICES ASSUME clock - today < HistoryDays PROVE Recalls(history, n)
      OBVIOUS
    <3>1. PICK h \in history : h.date = today /\ h.item \in Items /\ SameStory(h.item, top1.item)
      BY <1>p, <2>2 DEF NotedInv, Knows
    <3> QED
      BY <1>p, <3>1 DEF Recalls, Covers
  <2> HIDE DEF n
  <2> QED
    BY <1>p, <2>2, <2>3 DEF RecallInv, Recalls, Covers, Bare, Gone
<1>5. CASE BackfillFetch
  <2>1. UNCHANGED <<history, published, clock, lost, before>>
    BY <1>5 DEF BackfillFetch
  <2>2. ASSUME lost, NEW p \in published, ~Gone(p) PROVE Recalls(articles', p)
    <3>1. p \in before /\ Recoverable(p)
      BY <1>p, <2>2 DEF TurnInv, Gone
    <3>2. PICK q \in published :
             /\ q.item.url = p.item.url /\ p.on <= q.on
             /\ [date |-> q.on, item |-> Parsed(q.item)] \in articles'
             /\ Covers(Parsed(q.item), p)
      BY <1>p, <1>5, <3>1, FetchCovers
    <3>3. p.date <= q.on
      BY <1>p, <3>2 DEF DateInv
    <3> QED
      BY <3>2, <3>3 DEF Recalls
  <2> QED
    BY <1>p, <2>1, <2>2 DEF RecallInv, Recalls, Covers, Bare, Gone
<1>6. CASE BackfillRead
  BY <1>1, <1>6 DEF BackfillRead
<1>7. CASE BackfillWrite
  <2>1. /\ history' = copy \union Added /\ backfill = "merge" /\ backfill' = "idle"
        /\ copy = history /\ ~lost' /\ UNCHANGED <<clock, published, before>>
    BY <1>p, <1>7 DEF BackfillWrite, TurnInv
  <2>2. CASE lost
    <3>1. articles \subseteq history'
      BY <1>p, <2>1, <2>2 DEF TurnInv, Added
    <3> QED
      BY <1>p, <2>1, <2>2, <3>1 DEF RecallInv, Recalls, Covers, Bare, Gone
  <2>3. CASE ~lost
    BY <1>p, <2>1, <2>3 DEF RecallInv, Recalls, Covers, Bare, Gone
  <2> QED
    BY <2>2, <2>3
<1>8. CASE LoseHistory
  BY <1>8 DEF LoseHistory, RecallInv
<1>9. CASE Midnight
  BY <1>1, <1>9 DEF Midnight
<1>10. CASE UNCHANGED vars
  BY <1>1, <1>10 DEF vars
<1> QED
  BY <1>2, <1>3, <1>4, <1>5, <1>6, <1>7, <1>8, <1>9, <1>10 DEF Next, Run, Rebuild

\* Nothing is published.
LEMMA InitKept == Init => JInv
<1> SUFFICES ASSUME Init PROVE JInv
  OBVIOUS
<1>1. TypeOK
  <2>1. 1 \in Dates /\ 0 \in 0..MaxFaults /\ 0 \in 0..MaxBackfills
    BY TopicsAssumption DEF Dates
  <2> QED
    BY <2>1 DEF Init, TypeOK
<1>2. DateInv /\ TurnInv /\ TitleInv
  BY DEF Init, DateInv, TurnInv, TitleInv, NoTopic
<1>3. NotedInv /\ RecallInv
  BY DEF Init, NotedInv, RecallInv, NoTopic
<1>4. BarInv /\ ChoiceInv /\ NoRepeat
  BY DEF Init, BarInv, ChoiceInv, NoRepeat
<1> QED
  BY <1>1, <1>2, <1>3, <1>4 DEF IInv, JInv

\* Every step keeps the invariant of the history.
LEMMA IStep == ASSUME CarefulRebuild = TRUE, IInv, [Next]_vars PROVE IInv'
BY TypeKept, DateKept, TurnKept, TitleKept, NotedInvKept, RecallKept DEF IInv

\* The inductive invariant of the history holds in every reachable state.
THEOREM Invariance == ASSUME CarefulRebuild = TRUE PROVE Spec => []IInv
<1>1. Init => IInv
  BY InitKept DEF JInv
<1>2. IInv /\ [Next]_vars => IInv'
  BY IStep
<1> QED
  BY <1>1, <1>2, PTL DEF Spec

\* A published story in the window is known to the history with a date that still
\* blocks, whatever broke and after any rebuild, but for the uploads a rebuild cannot
\* know after a loss: without news or with a publisher's URL (rank_news.py,
\* backfill_history.py).
THEOREM HistoryRecalls == ASSUME CarefulRebuild = TRUE PROVE Spec => []HistoryInv
<1>1. IInv => HistoryInv
  <2> SUFFICES ASSUME IInv, ~lost, NEW p \in published,
                      clock - p.date < HistoryDays, ~Gone(p)
               PROVE  \E h \in history : clock - h.date < HistoryDays /\ SameStory(h.item, p.item)
    BY DEF IInv, HistoryInv, Remembered
  <2>1. PICK h \in history : p.date <= h.date /\ SameStory(h.item, p.item)
    BY CoversSame DEF IInv, RecallInv, Recalls
  <2>2. h.date \in Nat /\ p.date \in Nat /\ clock \in Nat /\ HistoryDays \in Nat
    BY TopicsAssumption DEF IInv, TypeOK, Entry, Dates
  <2> QED
    BY <2>1, <2>2
<1> QED
  BY <1>1, Invariance, PTL

\* What is in the window is only added to, unless the file is lost: a run's writing
\* and a rebuild's both keep every entry that still blocks ("只增不減" in
\* design-decisions.md:38), because they take turns.
OnlyLossForgets ==
    [][lost' \/ \A h \in history : clock - h.date < HistoryDays => h \in history']_vars

\* The history of the window is only added to.
THEOREM HistoryGrows == ASSUME CarefulRebuild = TRUE PROVE Spec => OnlyLossForgets
<1> DEFINE Grows == lost' \/ \A h \in history : clock - h.date < HistoryDays => h \in history'
<1>1. ASSUME IInv, [Next]_vars PROVE Grows
  <2>1. CASE Write
    <3>1. CASE pc = "write"
      BY <1>1, <2>1, <3>1, NotedKeeps DEF Write, Writes
    <3>2. CASE pc = "written"
      BY <2>1, <3>2 DEF Write, Writes
    <3> QED
      BY <2>1, <3>1, <3>2 DEF Write, Writes
  <2>2. CASE BackfillWrite
    BY <1>1, <2>2 DEF BackfillWrite, IInv, TurnInv
  <2>3. CASE LoseHistory
    BY <2>3 DEF LoseHistory
  <2>4. CASE UNCHANGED history
    BY <2>4
  <2> QED
    BY <1>1, <2>1, <2>2, <2>3, <2>4 DEF Next, Run, Rebuild, Start, NothingFresh, Rank, Publish,
       Break, BackfillFetch, BackfillRead, Midnight, vars
<1> QED
  BY <1>1, Invariance, PTL DEF Spec, OnlyLossForgets

-----------------------------------------------------------------------------
(* Nothing is told twice. *)

\* What the proofs below use of the dates.
LEMMA Numbers ==
    ASSUME IInv
    PROVE  /\ clock \in Nat /\ today \in Nat /\ today <= clock /\ HistoryDays \in Nat \ {0}
           /\ \A p \in published : /\ p.date \in Nat /\ p.on \in Nat /\ p.item \in Items
                                   /\ p.date <= p.on /\ p.on <= clock
           /\ \A h \in history \union seen \union articles \union copy :
                 h.date \in Nat /\ h.date <= clock
           /\ top1.date \in Nat
BY TopicsAssumption DEF IInv, DateInv, TypeOK, Entry, Topic, Dates, NoTopic

\* A step that only adds to the history, beside no change of day.
LEMMA BarSame ==
    ASSUME BarInv, history \subseteq history', clock' = clock, published' = published,
           lost' = lost, before' = before,
           backfill' # "idle" => backfill # "idle" /\ articles' = articles
    PROVE  BarInv'
BY DEF BarInv, Past, Bars, Covers, Bare, Gone

\* An entry that is not newer than yesterday, or of the day after which it bars.
LEMMA BarNextDay ==
    ASSUME IInv, BarInv, clock' = clock + 1,
           UNCHANGED <<history, published, lost, before, backfill, articles>>
    PROVE  BarInv'
<1>p. RecallInv
  BY DEF IInv
<1>1. ASSUME NEW entries, \A h \in entries : h.date \in Nat /\ h.date <= clock,
             NEW p \in published, Recalls(entries, p)
      PROVE  \E h \in entries : p.date <= h.date /\ h.date < clock' /\ Covers(h.item, p)
  <2>1. PICK h \in entries : p.date <= h.date /\ Covers(h.item, p)
    BY <1>1 DEF Recalls
  <2>2. h.date < clock + 1
    BY <1>1, Numbers
  <2> QED
    BY <2>1, <2>2
<1>2. \A p \in published : clock' - p.date < HistoryDays => clock - p.date < HistoryDays
  BY Numbers
<1>3. ASSUME ~lost, NEW p \in published, clock' - p.date < HistoryDays, ~Gone(p)
      PROVE  \E h \in history : p.date <= h.date /\ h.date < clock' /\ Covers(h.item, p)
  BY <1>p, <1>1, <1>2, <1>3, Numbers DEF RecallInv
<1>4. ASSUME backfill # "idle", lost, NEW p \in published, ~Gone(p)
      PROVE  \E h \in articles : p.date <= h.date /\ h.date < clock' /\ Covers(h.item, p)
  BY <1>p, <1>1, <1>4, Numbers DEF RecallInv
<1> QED
  BY <1>3, <1>4 DEF BarInv, Past, Bars, Covers, Bare, Gone

\* Every step keeps what bars a story.
LEMMA BarKept == ASSUME CarefulRebuild = TRUE, JInv, [Next]_vars PROVE BarInv'
<1> USE DEF runVars, fillVars, lossVars
<1>p. BarInv /\ IInv /\ TurnInv /\ NotedInv /\ DateInv /\ TypeOK /\ NoRepeat
  BY DEF JInv, IInv
<1>1. CASE Start \/ NothingFresh \/ Rank \/ Break
  BY <1>p, <1>1, BarSame DEF Start, NothingFresh, Rank, Break
<1>2. CASE Write
  <2>1. UNCHANGED <<published, clock, lost, before, backfill, articles>>
    BY <1>2 DEF Write
  <2>2. CASE pc = "write"
    <3>1. history' = Noted /\ ~lost /\ backfill = "idle"
      BY <1>p, <1>2, <2>2 DEF Write, Writes, TurnInv
    <3>2. ASSUME NEW p \in published, Past(p) PROVE Bars(history', p)
      <4>1. PICK h \in history : p.date <= h.date /\ h.date < clock /\ Covers(h.item, p)
        BY <1>p, <3>1, <3>2 DEF BarInv, Bars
      <4>2. clock - h.date < HistoryDays
        BY <1>p, <3>2, <4>1, Numbers DEF Past
      <4>3. h \in Noted
        BY <1>p, <2>2, <4>2, NotedKeeps
      <4> QED
        BY <3>1, <4>1, <4>3 DEF Bars
    <3> QED
      BY <2>1, <3>1, <3>2 DEF BarInv, Bars, Past, Covers, Bare, Gone
  <2>3. CASE pc = "written"
    <3>1. history' = history
      BY <1>2, <2>3 DEF Write, Writes
    <3> QED
      BY <1>p, <2>1, <3>1, BarSame
  <2> QED
    BY <1>2, <2>2, <2>3 DEF Write, Writes
<1>3. CASE Publish
  <2>1. PICK plain \in BOOLEAN :
           published' = published \union
             {[date |-> today, item |-> top1.item, on |-> clock, plain |-> plain]}
    BY <1>3 DEF Publish
  <2> DEFINE n == [date |-> today, item |-> top1.item, on |-> clock, plain |-> plain]
  <2>2. /\ published' = published \union {n} /\ top1.date = today /\ today # 0
        /\ UNCHANGED <<history, clock, lost, before, backfill, articles>> /\ backfill = "idle"
    BY <1>p, <1>3, <2>1 DEF Publish, TurnInv, TypeOK, Dates
  <2>3. Past(n) => Bars(history, n)
    <3> SUFFICES ASSUME clock - today < HistoryDays, today < clock PROVE Bars(history, n)
      BY DEF Past
    <3>1. PICK h \in history : h.date = today /\ h.item \in Items /\ SameStory(h.item, top1.item)
      BY <1>p, <2>2 DEF NotedInv, Knows
    <3> QED
      BY <1>p, <3>1, Numbers DEF Bars, Covers
  <2> HIDE DEF n
  <2> QED
    BY <1>p, <2>2, <2>3 DEF BarInv, Bars, Past, Covers, Bare, Gone
<1>4. CASE BackfillFetch
  <2>1. /\ UNCHANGED <<history, published, clock, lost, before>>
        /\ ~\E p \in published : p.date < clock /\ p.on = clock
    BY <1>4 DEF BackfillFetch
  <2>2. ASSUME lost, NEW p \in published, Past(p) PROVE Bars(articles', p)
    <3>1. p \in before /\ Recoverable(p)
      BY <1>p, <2>2 DEF TurnInv, Gone, Past
    <3>2. PICK q \in published :
             /\ q.item.url = p.item.url /\ p.on <= q.on
             /\ [date |-> q.on, item |-> Parsed(q.item)] \in articles'
             /\ Covers(Parsed(q.item), p)
      BY <1>p, <1>4, <3>1, FetchCovers
    <3>3. p.date <= q.on
      BY <1>p, <3>2, Numbers
    <3>4. SameStory(p.item, q.item)
      BY <3>2 DEF SameStory
    <3>5. q.on # clock
      <4> SUFFICES ASSUME q.on = clock PROVE FALSE
        OBVIOUS
      <4>1. q.date = clock
        BY <1>p, <2>1, Numbers
      <4>2. p.date < q.date /\ InWindow(p.date, q.date)
        BY <1>p, <2>2, <4>1, Numbers DEF Past, InWindow
      <4>3. CanTell(p, q.item)
        BY <2>2, <3>2 DEF CanTell, Past
      <4> QED
        BY <1>p, <3>4, <4>2, <4>3 DEF NoRepeat
    <3>6. q.on < clock
      BY <1>p, <3>5, Numbers
    <3> QED
      BY <3>2, <3>3, <3>6 DEF Bars
  <2> QED
    BY <1>p, <2>1, <2>2 DEF BarInv, Bars, Past, Covers, Bare, Gone
<1>5. CASE BackfillRead
  BY <1>p, <1>5, BarSame DEF BackfillRead
<1>6. CASE BackfillWrite
  <2>1. /\ history' = copy \union Added /\ backfill = "merge" /\ backfill' = "idle"
        /\ copy = history /\ ~lost' /\ UNCHANGED <<clock, published, before>>
    BY <1>p, <1>6 DEF BackfillWrite, TurnInv
  <2>2. CASE lost
    <3>1. articles \subseteq history'
      BY <1>p, <2>1, <2>2 DEF TurnInv, Added
    <3> QED
      BY <1>p, <2>1, <2>2, <3>1 DEF BarInv, Bars, Past, Covers, Bare, Gone
  <2>3. CASE ~lost
    BY <1>p, <2>1, <2>3 DEF BarInv, Bars, Past, Covers, Bare, Gone
  <2> QED
    BY <2>2, <2>3
<1>7. CASE LoseHistory
  BY <1>7 DEF LoseHistory, BarInv
<1>8. CASE Midnight
  BY <1>p, <1>8, BarNextDay DEF Midnight
<1>9. CASE UNCHANGED vars
  BY <1>p, <1>9, BarSame DEF vars
<1> QED
  BY <1>1, <1>2, <1>3, <1>4, <1>5, <1>6, <1>7, <1>8, <1>9 DEF Next, Run, Rebuild

\* Every step keeps the choice clear of what is told.
LEMMA ChoiceKept ==
    ASSUME CarefulRebuild = TRUE, Transitive, JInv, [Next]_vars
    PROVE  ChoiceInv'
<1> USE DEF runVars, fillVars, lossVars
<1>p. ChoiceInv /\ BarInv /\ IInv /\ TurnInv /\ DateInv
  BY DEF JInv, IInv
<1>1. ASSUME UNCHANGED <<published, before, top1, today, seen, chosen>>, pc' \in {pc, "idle"}
      PROVE  ChoiceInv'
  BY <1>p, <1>1 DEF ChoiceInv, CanTell, Covers, Bare, Gone
<1>2. CASE Start
  <2>1. /\ today' = clock /\ ~lost /\ UNCHANGED <<published, before, top1>>
        /\ \A p \in published : p.date # clock
        /\ pc' = "made" \/ (pc' = "rank" /\ seen' = history)
    BY <1>2 DEF Start, Quiet, Today
  <2>2. ASSUME NEW p \in published, InWindow(p.date, clock), ~Gone(p)
        PROVE  \E h \in history : Blocks(h, clock) /\ Covers(h.item, p)
    <3>1. Past(p)
      BY <1>p, <2>1, <2>2, Numbers DEF Past, InWindow
    <3>2. PICK h \in history : p.date <= h.date /\ h.date < clock /\ Covers(h.item, p)
      BY <1>p, <2>1, <3>1 DEF BarInv, Bars
    <3>3. Blocks(h, clock)
      BY <1>p, <2>2, <3>2, Numbers DEF Blocks, InWindow
    <3> QED
      BY <3>2, <3>3
  <2>3. pc' = "rank" => \A p \in published' : InWindow(p.date, today') /\ ~Gone(p)
                          => \E h \in seen' : Blocks(h, today') /\ Covers(h.item, p)
    BY <2>1, <2>2
  <2> QED
    BY <1>p, <2>1, <2>3 DEF ChoiceInv, CanTell, Covers, Bare, Gone
<1>3. CASE NothingFresh \/ Break
  BY <1>1, <1>3 DEF NothingFresh, Break
<1>4. CASE Rank
  <2>1. /\ pc = "rank" /\ pc' = "write" /\ chosen' \in Fresh(seen, today)
        /\ UNCHANGED <<published, before, top1, today, seen>>
    BY <1>4 DEF Rank
  <2>2. ASSUME NEW p \in published, InWindow(p.date, today), CanTell(p, chosen')
        PROVE  ~SameStory(p.item, chosen')
    <3>1. PICK h \in seen : Blocks(h, today) /\ Covers(h.item, p)
      BY <1>p, <2>1, <2>2 DEF ChoiceInv, CanTell
    <3>2. chosen' \in Items /\ ~SameStory(h.item, chosen')
      BY <2>1, <3>1 DEF Fresh
    <3>3. p.item \in Items
      BY <1>p, Numbers
    <3>4. CASE h.item \in Items /\ SameStory(h.item, p.item)
      BY <3>2, <3>3, <3>4 DEF Transitive
    <3>5. CASE Bare(p) /\ h.item.url = p.item.url
      BY <2>2, <3>2, <3>5 DEF CanTell, SameStory
    <3> QED
      BY <3>1, <3>4, <3>5 DEF Covers
  <2> QED
    BY <1>p, <2>1, <2>2 DEF ChoiceInv, CanTell, Covers, Bare, Gone
<1>5. CASE Write
  <2>1. CASE pc = "write"
    <3>1. pc' = "written" /\ UNCHANGED <<published, before, top1, today, seen, chosen>>
      BY <1>5, <2>1 DEF Write, Writes
    <3> QED
      BY <1>p, <2>1, <3>1 DEF ChoiceInv, CanTell, Bare, Gone
  <2>2. CASE pc = "written"
    <3>1. /\ pc' = "made" /\ top1' = [date |-> today, item |-> chosen]
          /\ UNCHANGED <<published, before, today>>
      BY <1>5, <2>2 DEF Write, Writes
    <3> QED
      BY <1>p, <2>2, <3>1 DEF ChoiceInv, CanTell, Bare, Gone
  <2> QED
    BY <1>5, <2>1, <2>2 DEF Write, Writes
<1>6. CASE Publish
  <2>1. PICK plain \in BOOLEAN :
           published' = published \union
             {[date |-> today, item |-> top1.item, on |-> clock, plain |-> plain]}
    BY <1>6 DEF Publish
  <2> DEFINE n == [date |-> today, item |-> top1.item, on |-> clock, plain |-> plain]
  <2>2. /\ published' = published \union {n} /\ top1.date = today
        /\ pc' = "idle" /\ UNCHANGED <<top1, before>>
    BY <1>6, <2>1 DEF Publish
  <2>3. ~(n.date < top1.date)
    BY <1>p, <2>2, Numbers
  <2> HIDE DEF n
  <2> QED
    BY <1>p, <2>2, <2>3 DEF ChoiceInv, CanTell, Bare, Gone
<1>7. CASE BackfillFetch \/ BackfillRead \/ BackfillWrite
  BY <1>1, <1>7 DEF BackfillFetch, BackfillRead, BackfillWrite
<1>8. CASE LoseHistory
  <2>1. pc' = "idle" /\ top1'.date = 0 /\ UNCHANGED published
    BY <1>8 DEF LoseHistory, NoTopic
  <2>2. \A p \in published : ~(p.date < 0)
    BY <1>p, Numbers
  <2> QED
    BY <2>1, <2>2 DEF ChoiceInv
<1>9. CASE Midnight
  BY <1>1, <1>9 DEF Midnight
<1>10. CASE UNCHANGED vars
  BY <1>1, <1>10 DEF vars
<1> QED
  BY <1>2, <1>3, <1>4, <1>5, <1>6, <1>7, <1>8, <1>9, <1>10 DEF Next, Run, Rebuild

\* No step tells a story again.
LEMMA RepeatKept == ASSUME JInv, CarefulRebuild = TRUE, [Next]_vars PROVE NoRepeat'
<1>p. NoRepeat /\ ChoiceInv /\ IInv /\ TurnInv
  BY DEF JInv, IInv
<1>1. CASE UNCHANGED published /\ before \subseteq before'
  BY <1>p, <1>1 DEF NoRepeat, CanTell, Bare, Gone
<1>2. CASE Publish
  <2>1. PICK plain \in BOOLEAN :
           published' = published \union
             {[date |-> today, item |-> top1.item, on |-> clock, plain |-> plain]}
    BY <1>2 DEF Publish
  <2> DEFINE n == [date |-> today, item |-> top1.item, on |-> clock, plain |-> plain]
  <2>2. /\ published' = published \union {n} /\ top1.date = today /\ pc = "made"
        /\ before' = before
    BY <1>2, <2>1 DEF Publish, lossVars
  <2>3. \A p \in published : p.date < today
    BY <1>p, <2>2 DEF TurnInv
  <2>4. \A p \in published : ~(n.date < p.date)
    BY <1>p, <2>3, Numbers
  <2>5. \A p \in published : p.date < n.date /\ InWindow(p.date, n.date) /\ CanTell(p, n.item)
                             => ~SameStory(p.item, n.item)
    BY <1>p, <2>2 DEF ChoiceInv
  <2>6. ~(n.date < n.date)
    BY <1>p, Numbers
  <2> HIDE DEF n
  <2> QED
    BY <1>p, <2>2, <2>4, <2>5, <2>6 DEF NoRepeat, CanTell, Bare, Gone
<1>3. Publish \/ (UNCHANGED published /\ before \subseteq before')
  BY <1>p DEF Next, Run, Rebuild, Start, NothingFresh, Rank, Write, Break, BackfillFetch,
     BackfillRead, BackfillWrite, LoseHistory, Midnight, vars, lossVars, IInv, TypeOK
<1> QED
  BY <1>1, <1>2, <1>3

\* No story that the history can know comes back within the window, whatever broke
\* in between, while every two listings of a story are of the same story
\* (fresh_item_indices, rank_news.py).
THEOREM NothingTwice ==
    ASSUME CarefulRebuild = TRUE, Transitive
    PROVE  Spec => []NoRepeat
<1>1. Init => JInv
  BY InitKept
<1>2. JInv /\ [Next]_vars => JInv'
  BY IStep, BarKept, ChoiceKept, RepeatKept DEF JInv
<1>3. JInv => NoRepeat
  BY DEF JInv
<1> QED
  BY <1>1, <1>2, <1>3, PTL DEF Spec

=============================================================================
