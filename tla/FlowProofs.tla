----------------------------- MODULE FlowProofs -----------------------------
(***************************************************************************)
(* Proofs about VideoFlow for any flows, urls, days and faults: a video is *)
(* made in its own notebook from its own day's sources, no notebook is     *)
(* deleted before its video is there (but that of an empty Short on a day  *)
(* marked after midnight), and but for the lost ones there is never more   *)
(* than one for a flow and day.                                            *)
(***************************************************************************)
EXTENDS VideoFlow, FiniteSetTheorems, TLAPS

Busy == {"save", "list", "add", "generate", "download"}

\* One step of the shell script at a time, and the dates.
LockInv ==
    /\ \A f \in Flows : pc[f] # "idle" =>
        /\ stage = "flows" /\ status[f] = "todo"
        /\ \A g \in Flows \ {f} : pc[g] = "idle"
        /\ state[f].day <= today[f] /\ shell <= today[f]
    /\ sweeping # 0 => stage = "sweep"
    /\ stage # "none" => shell # 0
    /\ shell <= clock
    /\ \A f \in Flows : state[f].day <= clock /\ today[f] <= clock

\* The notebook at hand is the flow's own of the day, and the state file names
\* it once it is saved; until then it is there and not lost.
NotebookInv ==
    /\ \A f \in Flows : state[f].nb # NoNotebook =>
        state[f].nb \in 1..Len(made) /\ made[state[f].nb] = <<f, state[f].day>>
    /\ \A f \in Flows : pc[f] \in Busy =>
        active = nb[f] /\ nb[f] \in 1..Len(made) /\ made[nb[f]] = <<f, today[f]>>
    /\ \A f \in Flows : pc[f] \in (Busy \ {"save"}) \cup {"delete"} =>
        state[f].day = today[f] /\ state[f].nb = nb[f]
    /\ \A f \in Flows : pc[f] = "save" => nb[f] \in live \ lost

\* What is in a notebook is of its day.
SourcesInv ==
    /\ \A n \in Notebooks :
        /\ n \in 1..Len(made) =>
            good[n] \cup newest[n] \subseteq {made[n][2]} \X Urls
        /\ n \notin 1..Len(made) => good[n] = {} /\ newest[n] = {}
    /\ \A f \in Flows : pc[f] = "add" => pending[f] \subseteq {today[f]} \X Urls
    /\ lost \subseteq 1..Len(made)

\* A run works towards a video that is not there.
VideoInv ==
    /\ \A f \in Flows :
        /\ pc[f] \in Busy \cup {"ensure"} => video[f][today[f]] = Absent
        /\ pc[f] \in {"delete", "upload"} => video[f][today[f]].kind = "whole"
    /\ \A f \in Flows, d \in Days :
        video[f][d].kind = "whole" => video[f][d].nb \in 1..Len(made)

\* What the shell's statuses say of a flow's file of day d: it is whole, or
\* it was taken for whole after the day was over.
Settled(f, d) ==
    \/ video[f][d].kind = "whole"
    \/ video[f][d].kind = "empty" /\ f \notin Branded /\ d < clock

\* What has passed is settled, and so is all of a marked day.
SettledInv ==
    /\ \A f \in Flows :
        status[f] = "ok" => stage = "flows" /\ Settled(f, shell)
    /\ \A d \in marker, f \in Flows : Settled(f, d)

\* A notebook that is not lost is about to be saved, in the state file, or of
\* a day before that of the state file; so there is one for a flow and day.
Single ==
    /\ \A n \in live \ lost : \A f \in Flows : made[n][1] = f =>
        \/ pc[f] = "save" /\ nb[f] = n
        \/ state[f].day = made[n][2] /\ state[f].nb = n
        \/ made[n][2] < state[f].day
    /\ \A m, n \in live \ lost : made[m] = made[n] => m = n

IInv ==
    /\ TypeOK /\ LockInv /\ NotebookInv /\ SourcesInv /\ VideoInv
    /\ SettledInv /\ OwnSources /\ Single

\* The type invariant in parts.
VideoRec == [kind : {"absent", "empty", "whole"},
             nb : Notebooks \cup {NoNotebook}, urls : SUBSET Source]
StateRec == [day : 0..LastDay, nb : Notebooks \cup {NoNotebook}]

Clocks ==
    /\ clock \in Days /\ topic \in 0..LastDay /\ marker \subseteq Days
    /\ sweeping \in 0..LastDay
    /\ shell \in 0..LastDay /\ stage \in {"none", "sweep", "daily", "flows"}
    /\ lost \subseteq Notebooks /\ faults \in 0..MaxFaults
Videos == video \in [Flows -> [Days -> VideoRec]]
States ==
    /\ state \in [Flows -> StateRec]
    /\ active \in Notebooks \cup {NoNotebook}
Runs ==
    /\ status \in [Flows -> {"todo", "ok", "failed"}]
    /\ pc \in [Flows -> Pcs] /\ today \in [Flows -> Days]
    /\ nb \in [Flows -> Notebooks \cup {NoNotebook}]
    /\ pending \in [Flows -> SUBSET Source] /\ added \in [Flows -> BOOLEAN]
Made ==
    /\ made \in Seq(Flows \X Days) /\ Len(made) \in 0..Cardinality(Notebooks)
    /\ live \subseteq 1..Len(made)
Contents ==
    /\ good \in [Notebooks -> SUBSET Source]
    /\ bad \in [Notebooks -> SUBSET Source]
    /\ newest \in [Notebooks -> SUBSET Source]

-----------------------------------------------------------------------------
(* Constants and records. *)

\* The parts make the whole.
LEMMA Parts ==
    TypeOK <=> Clocks /\ Videos /\ States /\ Runs /\ Made /\ Contents
BY DEF TypeOK, Clocks, Videos, States, Runs, Made, Contents, VideoRec, StateRec

\* A day is a date, and a day's url is a source.
LEMMA Dates ==
    /\ \A d \in Days : d \in 0..LastDay /\ {d} \X Urls \subseteq Source
    /\ \A s \in Source : s \in Source
BY VideoFlowAssumption DEF Days, Source

\* What becomes of a video is a video record.
LEMMA VideoRecs ==
    /\ Absent \in VideoRec /\ Empty \in VideoRec
    /\ \A n \in Notebooks, s \in SUBSET Source : Whole(n, s) \in VideoRec
BY DEF VideoRec, Absent, Empty, Whole

\* The notebooks are 1..K for a natural K.
LEMMA Bound ==
    /\ Cardinality(Notebooks) \in Nat
    /\ Notebooks = 1..Cardinality(Notebooks)
<1> DEFINE K == Cardinality(Flows) * LastDay + MaxFaults
<1>1. Cardinality(Flows) \in Nat
  BY VideoFlowAssumption, FS_CardinalityType
<1>2. K \in Nat
  BY <1>1, VideoFlowAssumption
<1>3. Notebooks = 1..K
  BY DEF Notebooks
<1>4. Cardinality(1..K) = K
  <2> HIDE DEF K
  <2> QED BY <1>2, FS_Interval, 1 \in Int, K \in Int, Z3
<1> QED
  BY <1>2, <1>3, <1>4

-----------------------------------------------------------------------------
\* The initial state.
LEMMA InitInv == Init => IInv
<1> SUFFICES ASSUME Init PROVE IInv
  OBVIOUS
<1> USE DEF Init
<1>1. 1 \in Days /\ 0 \in 0..LastDay
  BY VideoFlowAssumption DEF Days
<1>2. TypeOK
  BY <1>1, Bound, VideoFlowAssumption DEF TypeOK, Absent, NoState, NoNotebook,
     Pcs
<1>3. LockInv /\ NotebookInv /\ SourcesInv
  BY <1>1 DEF LockInv, NotebookInv, SourcesInv, Busy, NoState, NoNotebook
<1>4. VideoInv /\ SettledInv /\ OwnSources /\ Single
  BY <1>1 DEF VideoInv, SettledInv, OwnSources, Single, Busy, Absent
<1> QED
  BY <1>2, <1>3, <1>4 DEF IInv

\* The memory of a script that ends is as it was before it started.
LEMMA EndTypes ==
    ASSUME Runs, NEW f \in Flows, NEW o \in {"ok", "failed"}, End(f, o)
    PROVE  Runs'
<1>1. 1 \in Days
  BY VideoFlowAssumption DEF Days
<1> QED
  BY <1>1 DEF End, Goto, Forget, Runs, Pcs

\* The shell script ends, and nothing has been tried.
LEMMA OverTypes ==
    ASSUME Over
    PROVE  /\ shell' \in 0..LastDay
           /\ stage' \in {"none", "sweep", "daily", "flows"}
           /\ status' \in [Flows -> {"todo", "ok", "failed"}]
  BY VideoFlowAssumption DEF Over

\* Every step keeps the types.
LEMMA TypeStep ==
    TypeOK /\ LockInv /\ NotebookInv /\ [Next]_vars => TypeOK'
<1> SUFFICES ASSUME TypeOK, LockInv, NotebookInv, [Next]_vars PROVE TypeOK'
  OBVIOUS
<1>p. Clocks /\ Videos /\ States /\ Runs /\ Made /\ Contents
  BY Parts
<1> USE DEF own, remote, outside, cron, Goto, NoFault, Fault
<1>1. ASSUME NEW f \in Flows, Begin(f) PROVE TypeOK'
  <2>1. Videos'
    BY <1>p, <1>1, VideoRecs DEF Begin, Clocks, Videos
  <2>2. Runs'
    BY <1>p, <1>1 DEF Begin, Clocks, Runs, Pcs
  <2>3. Clocks' /\ States' /\ Made' /\ Contents'
    BY <1>p, <1>1 DEF Begin, Clocks, States, Made, Contents
  <2> QED
    BY <2>1, <2>2, <2>3 DEF Clocks, Videos, States, Runs, Made, Contents,
       TypeOK, VideoRec, StateRec
<1>2. ASSUME NEW f \in Flows, ReuseNotebook(f) PROVE TypeOK'
  <2>1. States'
    BY <1>p, <1>2 DEF ReuseNotebook, States, StateRec
  <2>2. Runs'
    BY <1>p, <1>2 DEF ReuseNotebook, States, StateRec, Runs, Pcs
  <2>3. Clocks' /\ Videos' /\ Made' /\ Contents'
    BY <1>p, <1>2 DEF ReuseNotebook, Clocks, Videos, Made, Contents
  <2> QED
    BY <2>1, <2>2, <2>3 DEF Clocks, Videos, States, Runs, Made, Contents,
       TypeOK, VideoRec, StateRec
<1>3. ASSUME NEW f \in Flows, CreateNotebook(f) PROVE TypeOK'
  <2>1. Made'
    <3>1. made \in Seq(Flows \X Days) /\ <<f, today[f]>> \in Flows \X Days
      BY <1>p DEF Made, Runs
    <3>2. Len(made) + 1 \in 0..Cardinality(Notebooks)
      BY <1>3, Bound DEF CreateNotebook
    <3>3. made' = Append(made, <<f, today[f]>>) /\ live' = live \cup {Len(made) + 1}
      BY <1>3 DEF CreateNotebook
    <3>4. made' \in Seq(Flows \X Days) /\ Len(made') = Len(made) + 1
      BY <3>1, <3>3
    <3>5. Len(made) \in Nat /\ live \subseteq 1..Len(made)
      BY <1>p, <3>1 DEF Made
    <3>6. ASSUME NEW l \in Nat PROVE 1..l \cup {l + 1} \subseteq 1..(l + 1)
      OBVIOUS
    <3>7. 1..Len(made) \cup {Len(made) + 1} \subseteq 1..(Len(made) + 1)
      BY <3>5, <3>6
    <3>8. live' \subseteq 1..(Len(made) + 1)
      BY <3>3, <3>5, <3>7, Zenon
    <3> QED
      BY <3>2, <3>4, <3>8 DEF Made
  <2>2. States'
    BY <1>p, <1>3 DEF CreateNotebook, States
  <2>3. Runs'
    BY <1>p, <1>3 DEF CreateNotebook, Runs, Pcs
  <2>4. Clocks' /\ Videos' /\ Contents'
    BY <1>p, <1>3 DEF CreateNotebook, Clocks, Videos, Contents
  <2> QED
    BY <2>1, <2>2, <2>3, <2>4 DEF Clocks, Videos, States, Runs, Made,
       Contents, TypeOK, VideoRec, StateRec
<1>4. ASSUME NEW f \in Flows, SaveState(f) PROVE TypeOK'
  <2>1. States'
    BY <1>p, <1>4, Dates DEF SaveState, States, Runs, StateRec
  <2>2. Runs'
    BY <1>p, <1>4 DEF SaveState, Runs, Pcs
  <2>3. Clocks' /\ Videos' /\ Made' /\ Contents'
    BY <1>p, <1>4 DEF SaveState, Clocks, Videos, Made, Contents
  <2> QED
    BY <2>1, <2>2, <2>3 DEF Clocks, Videos, States, Runs, Made, Contents,
       TypeOK, VideoRec, StateRec
<1>5. ASSUME NEW f \in Flows, ListSources(f) PROVE TypeOK'
  <2>1. Runs'
    BY <1>p, <1>5, Dates DEF ListSources, Runs, Pcs, Wanted
  <2>2. Clocks' /\ Videos' /\ States' /\ Made' /\ Contents'
    BY <1>p, <1>5 DEF ListSources, Clocks, Videos, States, Made, Contents
  <2> QED
    BY <2>1, <2>2 DEF Clocks, Videos, States, Runs, Made, Contents, TypeOK,
       VideoRec, StateRec
<1>6. ASSUME NEW f \in Flows, AddSource(f) PROVE TypeOK'
  <2>1. Runs'
    BY <1>p, <1>6 DEF AddSource, Runs
  <2>2. Contents'
    BY <1>p, <1>6 DEF AddSource, Runs, Contents
  <2>3. Clocks'
    BY <1>p, <1>6, VideoFlowAssumption DEF AddSource, Clocks
  <2>4. Videos' /\ States' /\ Made'
    BY <1>p, <1>6 DEF AddSource, Videos, States, Made
  <2> QED
    BY <2>1, <2>2, <2>3, <2>4 DEF Clocks, Videos, States, Runs, Made,
       Contents, TypeOK, VideoRec, StateRec
<1>7. ASSUME NEW f \in Flows, CheckSources(f) PROVE TypeOK'
  <2>1. Runs'
    <3>1. CASE End(f, "failed")
      BY <1>p, <3>1, EndTypes
    <3>2. CASE ~End(f, "failed")
      BY <1>p, <1>7, <3>2 DEF CheckSources, Runs, Pcs
    <3> QED
      BY <3>1, <3>2
  <2>2. Contents'
    BY <1>p, <1>7 DEF CheckSources, Contents
  <2>3. Clocks'
    BY <1>p, <1>7, VideoFlowAssumption DEF CheckSources, Clocks
  <2>4. Videos' /\ States' /\ Made'
    BY <1>p, <1>7 DEF CheckSources, Videos, States, Made
  <2> QED
    BY <2>1, <2>2, <2>3, <2>4 DEF Clocks, Videos, States, Runs, Made,
       Contents, TypeOK, VideoRec, StateRec
<1>8. ASSUME NEW f \in Flows, Generate(f) PROVE TypeOK'
  <2>1. Runs'
    BY <1>p, <1>8 DEF Generate, Runs, Pcs
  <2>2. Contents'
    BY <1>p, <1>8 DEF Generate, Contents
  <2>3. Clocks' /\ Videos' /\ States' /\ Made'
    BY <1>p, <1>8 DEF Generate, Clocks, Videos, States, Made
  <2> QED
    BY <2>1, <2>2, <2>3 DEF Clocks, Videos, States, Runs, Made, Contents,
       TypeOK, VideoRec, StateRec
<1>9. ASSUME NEW f \in Flows, Download(f) PROVE TypeOK'
  <2>1. Videos'
    <3>1. active \in Notebooks /\ newest[active] \in SUBSET Source
      BY <1>p, <1>9, Bound DEF Download, Contents, Made
    <3>2. video[f][today[f]] \in VideoRec
      BY <1>p DEF Videos, Runs
    <3> DEFINE v == IF video[f][today[f]] = Absent
                    THEN Whole(active, newest[active])
                    ELSE video[f][today[f]]
    <3>3. v \in VideoRec
      BY <3>1, <3>2, VideoRecs
    <3>4. \/ video' = [video EXCEPT ![f][today[f]] = v]
          \/ video' = [video EXCEPT ![f][today[f]] = Empty]
      BY <1>9 DEF Download
    <3> QED
      BY <1>p, <3>3, <3>4, VideoRecs DEF Videos, Runs
  <2>2. Runs'
    <3>1. CASE End(f, "failed")
      BY <1>p, <3>1, EndTypes
    <3>2. CASE ~End(f, "failed")
      BY <1>p, <1>9, <3>2 DEF Download, Runs, Pcs
    <3> QED
      BY <3>1, <3>2
  <2>3. Clocks' /\ States' /\ Made' /\ Contents'
    BY <1>p, <1>9, VideoFlowAssumption DEF Download, Clocks, States, Made,
       Contents
  <2> QED
    BY <2>1, <2>2, <2>3 DEF Clocks, Videos, States, Runs, Made, Contents,
       TypeOK, VideoRec, StateRec
<1>10. ASSUME NEW f \in Flows, DeleteNotebook(f) PROVE TypeOK'
  <2>1. Made'
    BY <1>p, <1>10 DEF DeleteNotebook, Made
  <2>2. Runs'
    BY <1>p, <1>10 DEF DeleteNotebook, Runs, Pcs
  <2>3. Clocks'
    BY <1>p, <1>10, VideoFlowAssumption DEF DeleteNotebook, Clocks
  <2>4. Videos' /\ States' /\ Contents'
    BY <1>p, <1>10 DEF DeleteNotebook, Videos, States, Contents
  <2> QED
    BY <2>1, <2>2, <2>3, <2>4 DEF Clocks, Videos, States, Runs, Made,
       Contents, TypeOK, VideoRec, StateRec
<1>11. ASSUME NEW f \in Flows, Break(f) PROVE TypeOK'
  <2>1. Runs'
    BY <1>p, <1>11, EndTypes DEF Break
  <2>2. Contents'
    BY <1>p, <1>11 DEF Break, Contents
  <2>3. Clocks'
    BY <1>p, <1>11, Bound, VideoFlowAssumption DEF Break, Clocks, NotebookInv,
       Busy, Made
  <2>4. Videos' /\ States' /\ Made'
    BY <1>p, <1>11 DEF Break, Videos, States, Made
  <2> QED
    BY <2>1, <2>2, <2>3, <2>4 DEF Clocks, Videos, States, Runs, Made,
       Contents, TypeOK, VideoRec, StateRec
<1>12. ASSUME NEW f \in Flows, PowerLoss(f) PROVE TypeOK'
  <2>1. Videos'
    BY <1>p, <1>12, VideoRecs DEF PowerLoss, Videos, Runs
  <2>2. Runs'
    <3>1. 1 \in Days
      BY VideoFlowAssumption DEF Days
    <3> QED
      BY <1>p, <1>12, <3>1, OverTypes DEF PowerLoss, Forget, Runs, Pcs
  <2>3. Clocks'
    BY <1>p, <1>12, OverTypes, VideoFlowAssumption DEF PowerLoss, Clocks
  <2>4. States' /\ Made' /\ Contents'
    BY <1>p, <1>12 DEF PowerLoss, States, Made, Contents
  <2> QED
    BY <2>1, <2>2, <2>3, <2>4 DEF Clocks, Videos, States, Runs, Made,
       Contents, TypeOK, VideoRec, StateRec
<1>13. CASE StartSweep
  <2>1. Clocks'
    BY <1>p, <1>13, Dates DEF StartSweep, Clocks
  <2>2. Videos' /\ States' /\ Runs' /\ Made' /\ Contents'
    BY <1>p, <1>13 DEF StartSweep, Videos, States, Runs, Made, Contents
  <2> QED
    BY <2>1, <2>2 DEF Clocks, Videos, States, Runs, Made, Contents, TypeOK,
       VideoRec, StateRec
<1>14. CASE EndSweep
  <2>1. Clocks'
    BY <1>p, <1>14, VideoFlowAssumption DEF EndSweep, Clocks
  <2>2. Made'
    BY <1>p, <1>14 DEF EndSweep, Made, Sweepable, Recorded
  <2>3. Videos' /\ States' /\ Runs' /\ Contents'
    BY <1>p, <1>14 DEF EndSweep, Videos, States, Runs, Contents
  <2> QED
    BY <2>1, <2>2, <2>3 DEF Clocks, Videos, States, Runs, Made, Contents,
       TypeOK, VideoRec, StateRec
<1>15. CASE NewTopic
  <2>1. Clocks'
    BY <1>p, <1>15, Dates DEF NewTopic, Clocks
  <2>2. Videos' /\ States' /\ Runs' /\ Made' /\ Contents'
    BY <1>p, <1>15 DEF NewTopic, Videos, States, Runs, Made, Contents
  <2> QED
    BY <2>1, <2>2 DEF Clocks, Videos, States, Runs, Made, Contents, TypeOK,
       VideoRec, StateRec
<1>16. CASE EndRun
  <2>1. Clocks'
    <3>1. stage # "none" => shell \in Days
      BY <1>p DEF LockInv, Clocks, Days
    <3>2. marker' \subseteq Days
      BY <1>p, <1>16, <3>1 DEF EndRun, Mark, Clocks
    <3> QED
      BY <1>p, <1>16, <3>2, OverTypes DEF EndRun, Clocks
  <2>2. Videos' /\ States' /\ Runs' /\ Made' /\ Contents'
    BY <1>p, <1>16, OverTypes DEF EndRun, Videos, States, Runs, Made, Contents
  <2> QED
    BY <2>1, <2>2 DEF Clocks, Videos, States, Runs, Made, Contents, TypeOK,
       VideoRec, StateRec
<1>17. CASE Midnight
  <2>1. Clocks'
    BY <1>p, <1>17, VideoFlowAssumption DEF Midnight, Clocks, Days
  <2>2. Videos' /\ States' /\ Runs' /\ Made' /\ Contents'
    BY <1>p, <1>17 DEF Midnight, Videos, States, Runs, Made, Contents
  <2> QED
    BY <2>1, <2>2 DEF Clocks, Videos, States, Runs, Made, Contents, TypeOK,
       VideoRec, StateRec
<1>18. CASE UNCHANGED vars
  BY <1>18 DEF vars, TypeOK
<1>19. ASSUME NEW f \in Flows, Upload(f) PROVE TypeOK'
  <2>1. Runs'
    BY <1>p, <1>19, EndTypes DEF Upload
  <2>2. Clocks' /\ Videos' /\ States' /\ Made' /\ Contents'
    BY <1>p, <1>19 DEF Upload, Clocks, Videos, States, Made, Contents
  <2> QED
    BY <2>1, <2>2 DEF Clocks, Videos, States, Runs, Made, Contents, TypeOK,
       VideoRec, StateRec
<1>20. CASE StartRun
  <2>1. Clocks'
    BY <1>p, <1>20, Dates DEF StartRun, Clocks
  <2>2. Videos' /\ States' /\ Runs' /\ Made' /\ Contents'
    BY <1>p, <1>20 DEF StartRun, Videos, States, Runs, Made, Contents
  <2> QED
    BY <2>1, <2>2 DEF Clocks, Videos, States, Runs, Made, Contents, TypeOK,
       VideoRec, StateRec
<1> QED
  BY <1>1, <1>2, <1>3, <1>4, <1>5, <1>6, <1>7, <1>8, <1>9, <1>10, <1>11,
     <1>12, <1>13, <1>14, <1>15, <1>16, <1>17, <1>18, <1>19, <1>20 DEF Next, Step

\* The lock holds one of them.
LEMMA LockStep ==
    TypeOK /\ LockInv /\ [Next]_vars => LockInv'
<1> SUFFICES ASSUME TypeOK, LockInv, [Next]_vars PROVE LockInv'
  OBVIOUS
<1>p. Clocks /\ States /\ Runs
  BY Parts
<1> USE DEF Clocks, States, Runs, LockInv, Days, Pcs,
    own, remote, outside, cron, Goto, End, Forget, Over, Quiet
<1>1. ASSUME NEW f \in Flows, Begin(f) PROVE LockInv'
  <2>1. state[f].day <= clock /\ clock \in Days
    BY <1>p
  <2>2. /\ \A g \in Flows : pc[g] = "idle"
        /\ sweeping = 0 /\ stage = "flows" /\ status[f] = "todo"
        /\ UNCHANGED <<sweeping, state, clock, shell, stage>>
    BY <1>1 DEF Begin
  <2>3. \A g \in Flows : g # f => /\ pc'[g] = "idle" /\ today'[g] = today[g]
                                 /\ status'[g] = status[g]
    BY <1>p, <1>1, <2>2 DEF Begin
  <2>4. \/ pc'[f] = "idle" /\ today'[f] = today[f]
        \/ today'[f] = clock /\ status'[f] = "todo"
    BY <1>p, <1>1, <2>2 DEF Begin
  <2> QED
    BY <1>p, <2>1, <2>2, <2>3, <2>4
<1>2. ASSUME NEW f \in Flows, ReuseNotebook(f) PROVE LockInv'
  BY <1>p, <1>2, VideoFlowAssumption DEF ReuseNotebook
<1>3. ASSUME NEW f \in Flows, CreateNotebook(f) PROVE LockInv'
  BY <1>p, <1>3, VideoFlowAssumption DEF CreateNotebook
<1>4. ASSUME NEW f \in Flows, SaveState(f) PROVE LockInv'
  BY <1>p, <1>4, VideoFlowAssumption DEF SaveState
<1>5. ASSUME NEW f \in Flows, ListSources(f) PROVE LockInv'
  BY <1>p, <1>5, VideoFlowAssumption DEF ListSources
<1>6. ASSUME NEW f \in Flows, AddSource(f) PROVE LockInv'
  BY <1>p, <1>6, VideoFlowAssumption DEF AddSource
<1>7. ASSUME NEW f \in Flows, CheckSources(f) PROVE LockInv'
  BY <1>p, <1>7, VideoFlowAssumption DEF CheckSources
<1>8. ASSUME NEW f \in Flows, Generate(f) PROVE LockInv'
  BY <1>p, <1>8, VideoFlowAssumption DEF Generate
<1>9. ASSUME NEW f \in Flows, Download(f) PROVE LockInv'
  BY <1>p, <1>9, VideoFlowAssumption DEF Download
<1>10. ASSUME NEW f \in Flows, DeleteNotebook(f) PROVE LockInv'
  BY <1>p, <1>10, VideoFlowAssumption DEF DeleteNotebook
<1>11. ASSUME NEW f \in Flows, Break(f) PROVE LockInv'
  BY <1>p, <1>11, VideoFlowAssumption DEF Break
<1>12. ASSUME NEW f \in Flows, PowerLoss(f) PROVE LockInv'
  BY <1>p, <1>12, VideoFlowAssumption DEF PowerLoss
<1>13. CASE StartSweep
  BY <1>p, <1>13, VideoFlowAssumption DEF StartSweep
<1>14. CASE EndSweep
  BY <1>p, <1>14, VideoFlowAssumption DEF EndSweep
<1>15. CASE NewTopic
  BY <1>p, <1>15, VideoFlowAssumption DEF NewTopic
<1>16. CASE EndRun
  BY <1>p, <1>16, VideoFlowAssumption DEF EndRun, Mark
<1>17. CASE Midnight
  <2>1. clock \in Nat /\ clock' = clock + 1
    BY <1>p, <1>17, VideoFlowAssumption DEF Midnight
  <2>2. UNCHANGED <<pc, state, today, sweeping, shell, stage, status>>
    BY <1>17 DEF Midnight
  <2>3. /\ \A f \in Flows : state[f].day \in Nat /\ today[f] \in Nat
        /\ shell \in Nat
    BY <1>p, VideoFlowAssumption DEF StateRec
  <2> QED
    BY <2>1, <2>2, <2>3
<1>18. CASE UNCHANGED vars
  BY <1>p, <1>18, VideoFlowAssumption DEF vars
<1>19. ASSUME NEW f \in Flows, Upload(f) PROVE LockInv'
  BY <1>p, <1>19, VideoFlowAssumption DEF Upload
<1>20. CASE StartRun
  BY <1>p, <1>20, VideoFlowAssumption DEF StartRun
<1> QED
  BY <1>1, <1>2, <1>3, <1>4, <1>5, <1>6, <1>7, <1>8, <1>9, <1>10, <1>11,
     <1>12, <1>13, <1>14, <1>15, <1>16, <1>17, <1>18, <1>19, <1>20 DEF Next, Step

\* The notebook at hand stays the flow's own.
LEMMA NotebookStep ==
    TypeOK /\ LockInv /\ NotebookInv /\ SourcesInv
    /\ [Next]_vars => NotebookInv'
<1> SUFFICES ASSUME TypeOK, LockInv, NotebookInv, SourcesInv, [Next]_vars
             PROVE NotebookInv'
  OBVIOUS
<1>p. Clocks /\ States /\ Runs /\ Made
  BY Parts
<1> USE DEF Clocks, States, Runs, Made, LockInv, NotebookInv, SourcesInv, Pcs,
    NoNotebook, Busy,
    own, remote, outside, cron, Goto, End, Forget, Over, Quiet
<1>1. ASSUME NEW f \in Flows, Begin(f) PROVE NotebookInv'
  BY <1>p, <1>1, Bound DEF Begin
<1>2. ASSUME NEW f \in Flows, ReuseNotebook(f) PROVE NotebookInv'
  BY <1>p, <1>2, Bound DEF ReuseNotebook
<1>3. ASSUME NEW f \in Flows, CreateNotebook(f) PROVE NotebookInv'
  <2>1. /\ made' = Append(made, <<f, today[f]>>)
        /\ live' = live \cup {Len(made) + 1}
        /\ active' = Len(made) + 1
        /\ nb' = [nb EXCEPT ![f] = Len(made) + 1]
        /\ pc' = [pc EXCEPT ![f] = "save"]
        /\ UNCHANGED <<state, today, lost>>
        /\ pc[f] = "ensure"
    BY <1>3 DEF CreateNotebook
  <2>2. /\ Len(made) \in Nat /\ Len(made') = Len(made) + 1
        /\ made'[Len(made) + 1] = <<f, today[f]>>
        /\ \A n \in 1..Len(made) : n \in 1..Len(made') /\ made'[n] = made[n]
    BY <1>p, <2>1
  <2>3. \A g \in Flows : g # f => pc[g] = "idle"
    BY <1>p, <2>1
  <2>4. Len(made) + 1 \notin lost
    BY <2>2
  <2>5. Len(made) + 1 \in live' \ lost' /\ Len(made) + 1 \in 1..Len(made')
    BY <2>1, <2>2, <2>4
  <2>6. pc'[f] = "save" /\ nb'[f] = Len(made) + 1 /\ today'[f] = today[f]
    BY <1>p, <2>1
  <2>7. \A g \in Flows : g # f => pc'[g] = "idle"
    BY <1>p, <2>1, <2>3
  <2> HIDE DEF LockInv, SourcesInv, Clocks, Made, Runs, States
  <2> QED
    BY <2>1, <2>2, <2>5, <2>6, <2>7
<1>4. ASSUME NEW f \in Flows, SaveState(f) PROVE NotebookInv'
  BY <1>p, <1>4, Bound DEF SaveState
<1>5. ASSUME NEW f \in Flows, ListSources(f) PROVE NotebookInv'
  BY <1>p, <1>5, Bound DEF ListSources
<1>6. ASSUME NEW f \in Flows, AddSource(f) PROVE NotebookInv'
  BY <1>p, <1>6, Bound DEF AddSource
<1>7. ASSUME NEW f \in Flows, CheckSources(f) PROVE NotebookInv'
  <2>1. pc[f] = "add" /\ UNCHANGED <<state, active, made, live, lost>>
    BY <1>7 DEF CheckSources
  <2>2. \A g \in Flows : g # f => pc[g] = "idle"
    BY <1>p, <2>1
  <2>3. \A g \in Flows :
          pc'[g] = "idle" \/ (/\ g = f /\ pc'[g] = "generate"
                             /\ UNCHANGED <<today, nb>>)
    BY <1>p, <1>7, <2>2 DEF CheckSources
  <2> QED
    BY <1>p, <2>1, <2>3
<1>8. ASSUME NEW f \in Flows, Generate(f) PROVE NotebookInv'
  BY <1>p, <1>8, Bound DEF Generate
<1>9. ASSUME NEW f \in Flows, Download(f) PROVE NotebookInv'
  <2>1. pc[f] = "download" /\ UNCHANGED <<state, active, made, live, lost>>
    BY <1>9 DEF Download
  <2>2. \A g \in Flows : g # f => pc[g] = "idle"
    BY <1>p, <2>1
  <2>3. \A g \in Flows :
          pc'[g] = "idle" \/ (/\ g = f /\ pc'[g] = "delete"
                             /\ UNCHANGED <<today, nb>>)
    BY <1>p, <1>9, <2>2 DEF Download
  <2> QED
    BY <1>p, <2>1, <2>3
<1>10. ASSUME NEW f \in Flows, DeleteNotebook(f) PROVE NotebookInv'
  BY <1>p, <1>10, Bound DEF DeleteNotebook
<1>11. ASSUME NEW f \in Flows, Break(f) PROVE NotebookInv'
  BY <1>p, <1>11, Bound DEF Break
<1>12. ASSUME NEW f \in Flows, PowerLoss(f) PROVE NotebookInv'
  BY <1>p, <1>12, Bound DEF PowerLoss
<1>13. CASE StartSweep
  BY <1>p, <1>13, Bound DEF StartSweep
<1>14. CASE EndSweep
  BY <1>p, <1>14, Bound DEF EndSweep
<1>15. CASE NewTopic
  BY <1>p, <1>15, Bound DEF NewTopic
<1>16. CASE EndRun
  BY <1>p, <1>16, Bound DEF EndRun, Mark
<1>17. CASE Midnight
  BY <1>p, <1>17, Bound DEF Midnight
<1>18. CASE UNCHANGED vars
  BY <1>p, <1>18, Bound DEF vars
<1>19. ASSUME NEW f \in Flows, Upload(f) PROVE NotebookInv'
  BY <1>p, <1>19, Bound DEF Upload
<1>20. CASE StartRun
  BY <1>p, <1>20, Bound DEF StartRun
<1> QED
  BY <1>1, <1>2, <1>3, <1>4, <1>5, <1>6, <1>7, <1>8, <1>9, <1>10, <1>11,
     <1>12, <1>13, <1>14, <1>15, <1>16, <1>17, <1>18, <1>19, <1>20 DEF Next, Step

\* Only the day's own sources are added.
LEMMA SourcesStep ==
    TypeOK /\ LockInv /\ NotebookInv /\ SourcesInv
    /\ [Next]_vars => SourcesInv'
<1> SUFFICES ASSUME TypeOK, LockInv, NotebookInv, SourcesInv, [Next]_vars
             PROVE SourcesInv'
  OBVIOUS
<1>p. Runs /\ Made /\ Contents
  BY Parts
<1> USE DEF Runs, Made, Contents, LockInv, NotebookInv, SourcesInv, Pcs, Busy,
    own, remote, outside, cron, Goto, End, Forget, Over, Quiet
<1>1. ASSUME NEW f \in Flows, Begin(f) PROVE SourcesInv'
  BY <1>p, <1>1, Bound DEF Begin
<1>2. ASSUME NEW f \in Flows, ReuseNotebook(f) PROVE SourcesInv'
  BY <1>p, <1>2, Bound DEF ReuseNotebook
<1>3. ASSUME NEW f \in Flows, CreateNotebook(f) PROVE SourcesInv'
  BY <1>p, <1>3, Bound DEF CreateNotebook
<1>4. ASSUME NEW f \in Flows, SaveState(f) PROVE SourcesInv'
  BY <1>p, <1>4, Bound DEF SaveState
<1>5. ASSUME NEW f \in Flows, ListSources(f) PROVE SourcesInv'
  <2>1. pending'[f] \subseteq {today[f]} \X Urls
    BY <1>p, <1>5 DEF ListSources, Wanted
  <2>2. \A g \in Flows : g # f => pc'[g] # "add"
    BY <1>p, <1>5 DEF ListSources
  <2> QED
    BY <1>p, <1>5, <2>1, <2>2 DEF ListSources
<1>6. ASSUME NEW f \in Flows, AddSource(f) PROVE SourcesInv'
  <2>1. /\ pc[f] = "add" /\ active = nb[f] /\ nb[f] \in 1..Len(made)
        /\ made[active] = <<f, today[f]>>
        /\ UNCHANGED <<pc, today, made, newest, lost>>
    BY <1>6 DEF AddSource
  <2>2. PICK s \in pending[f] :
          /\ pending' = [pending EXCEPT ![f] = @ \ {s}]
          /\ good' \in {good, [good EXCEPT ![active] = @ \cup {s}]}
    BY <1>6 DEF AddSource
  <2>3. s \in {made[active][2]} \X Urls
    BY <2>1, <2>2
  <2>4. \A n \in Notebooks : good'[n] \subseteq good[n] \cup {s}
                             /\ (n # active => good'[n] = good[n])
    BY <1>p, <2>2
  <2>5. \A g \in Flows : pending'[g] \subseteq pending[g]
    BY <1>p, <2>2
  <2> QED
    BY <1>p, <2>1, <2>3, <2>4, <2>5
<1>7. ASSUME NEW f \in Flows, CheckSources(f) PROVE SourcesInv'
  <2>1. \A g \in Flows : pc'[g] # "add"
    BY <1>p, <1>7 DEF CheckSources
  <2> QED
    BY <1>p, <1>7, <2>1 DEF CheckSources
<1>8. ASSUME NEW f \in Flows, Generate(f) PROVE SourcesInv'
  BY <1>p, <1>8, Bound DEF Generate
<1>9. ASSUME NEW f \in Flows, Download(f) PROVE SourcesInv'
  BY <1>p, <1>9, Bound DEF Download
<1>10. ASSUME NEW f \in Flows, DeleteNotebook(f) PROVE SourcesInv'
  BY <1>p, <1>10, Bound DEF DeleteNotebook
<1>11. ASSUME NEW f \in Flows, Break(f) PROVE SourcesInv'
  <2>1. \A g \in Flows : pc'[g] # "add"
    BY <1>p, <1>11 DEF Break
  <2>2. /\ UNCHANGED <<made, good>> /\ lost' \subseteq lost \cup {nb[f]}
        /\ (pc[f] # "save" => lost' = lost)
    BY <1>11 DEF Break
  <2>3. \A n \in Notebooks : newest'[n] = newest[n] \/ newest'[n] = good[n]
    BY <1>p, <1>11 DEF Break
  <2>4. lost' \subseteq 1..Len(made)
    BY <2>2
  <2> QED
    BY <1>p, <2>1, <2>2, <2>3, <2>4
<1>12. ASSUME NEW f \in Flows, PowerLoss(f) PROVE SourcesInv'
  BY <1>p, <1>12, Bound DEF PowerLoss
<1>13. CASE StartSweep
  BY <1>p, <1>13, Bound DEF StartSweep
<1>14. CASE EndSweep
  BY <1>p, <1>14, Bound DEF EndSweep
<1>15. CASE NewTopic
  BY <1>p, <1>15, Bound DEF NewTopic
<1>16. CASE EndRun
  BY <1>p, <1>16, Bound DEF EndRun, Mark
<1>17. CASE Midnight
  BY <1>p, <1>17, Bound DEF Midnight
<1>18. CASE UNCHANGED vars
  BY <1>p, <1>18, Bound DEF vars
<1>19. ASSUME NEW f \in Flows, Upload(f) PROVE SourcesInv'
  BY <1>p, <1>19, Bound DEF Upload
<1>20. CASE StartRun
  BY <1>p, <1>20, Bound DEF StartRun
<1> QED
  BY <1>1, <1>2, <1>3, <1>4, <1>5, <1>6, <1>7, <1>8, <1>9, <1>10, <1>11,
     <1>12, <1>13, <1>14, <1>15, <1>16, <1>17, <1>18, <1>19, <1>20 DEF Next, Step

\* A video that is there is not worked on again.
LEMMA VideoStep ==
    TypeOK /\ LockInv /\ NotebookInv /\ VideoInv /\ [Next]_vars => VideoInv'
<1> SUFFICES ASSUME TypeOK, LockInv, NotebookInv, VideoInv, [Next]_vars
             PROVE VideoInv'
  OBVIOUS
<1>p. Clocks /\ Videos /\ Runs /\ Made
  BY Parts
<1> USE DEF Videos, Runs, Made, LockInv, NotebookInv, VideoInv, Busy,
    own, remote, outside, Goto, End, Quiet
<1>a. ASSUME UNCHANGED <<video, made>>, NEW f \in Flows,
             \A g \in Flows : \/ pc'[g] = "idle"
                              \/ pc'[g] = pc[g] /\ today'[g] = today[g]
                              \/ /\ g = f /\ today'[g] = today[g]
                                 /\ pc[f] \in (Busy \cup {"ensure"}) \ {"download"}
                                 /\ pc'[f] \in Busy
      PROVE VideoInv'
  BY <1>a
<1>1. ASSUME NEW f \in Flows, Begin(f) PROVE VideoInv'
  <2>1. \A g \in Flows : pc[g] = "idle" /\ (g # f => pc'[g] = "idle")
    BY <1>p, <1>1 DEF Begin
  <2>2. clock \in Days /\ made' = made
    BY <1>p, <1>1 DEF Begin, Clocks
  <2>3. CASE video[f][clock].kind = "whole"
    BY <1>p, <1>1, <2>1, <2>2, <2>3 DEF Begin
  <2>4. CASE video[f][clock].kind # "whole"
    <3>1. /\ video'[f][clock] = Absent
          /\ \A g \in Flows, d \in Days :
                g # f \/ d # clock => video'[g][d] = video[g][d]
      BY <1>p, <1>1, <2>2, <2>4 DEF Begin
    <3>2. pc'[f] = "idle" \/ (pc'[f] = "ensure" /\ today'[f] = clock)
      BY <1>p, <1>1, <2>1, <2>4 DEF Begin
    <3>3. \A g \in Flows, d \in Days : video'[g][d].kind = "whole" =>
              video'[g][d] = video[g][d]
      BY <3>1 DEF Absent
    <3> QED
      BY <2>1, <2>2, <3>1, <3>2, <3>3
  <2> QED
    BY <2>3, <2>4
<1>2. ASSUME NEW f \in Flows, ReuseNotebook(f) PROVE VideoInv'
  BY <1>p, <1>2, <1>a DEF ReuseNotebook
<1>3. ASSUME NEW f \in Flows, CreateNotebook(f) PROVE VideoInv'
  <2>1. /\ made' = Append(made, <<f, today[f]>>)
        /\ pc[f] = "ensure" /\ pc' = [pc EXCEPT ![f] = "save"]
        /\ UNCHANGED <<video, today>>
    BY <1>3 DEF CreateNotebook
  <2>2. 1..Len(made) \subseteq 1..Len(made')
    BY <1>p, <2>1
  <2>3. \A g \in Flows : pc'[g] = pc[g] \/ (g = f /\ pc'[g] = "save")
    BY <1>p, <2>1
  <2> QED
    BY <2>1, <2>2, <2>3
<1>4. ASSUME NEW f \in Flows, SaveState(f) PROVE VideoInv'
  BY <1>p, <1>4, <1>a DEF SaveState
<1>5. ASSUME NEW f \in Flows, ListSources(f) PROVE VideoInv'
  BY <1>p, <1>5, <1>a DEF ListSources
<1>6. ASSUME NEW f \in Flows, AddSource(f) PROVE VideoInv'
  BY <1>p, <1>6, <1>a DEF AddSource
<1>7. ASSUME NEW f \in Flows, CheckSources(f) PROVE VideoInv'
  <2>1. pc[f] = "add" /\ UNCHANGED <<video, made>>
    BY <1>7 DEF CheckSources
  <2>2. \A g \in Flows : g # f => pc'[g] = "idle"
    BY <1>p, <1>7, <2>1 DEF CheckSources
  <2>3. pc'[f] = "idle" \/ (pc'[f] = "generate" /\ today'[f] = today[f])
    BY <1>p, <1>7, <2>1 DEF CheckSources
  <2> QED
    BY <2>1, <2>2, <2>3, <1>a
<1>8. ASSUME NEW f \in Flows, Generate(f) PROVE VideoInv'
  BY <1>p, <1>8, <1>a DEF Generate
<1>9. ASSUME NEW f \in Flows, Download(f) PROVE VideoInv'
  <2>1. /\ pc[f] = "download" /\ active = nb[f] /\ nb[f] \in 1..Len(made)
        /\ made' = made /\ video[f][today[f]] = Absent
        /\ \A g \in Flows : g # f => pc[g] = "idle"
    BY <1>9 DEF Download, remote
  <2>2. /\ \A g \in Flows : g # f => pc'[g] = "idle"
        /\ \A g \in Flows, d \in Days :
              g # f \/ d # today[f] => video'[g][d] = video[g][d]
    BY <1>p, <1>9, <2>1 DEF Download
  <2>3. \/ /\ pc'[f] = "delete" /\ today'[f] = today[f]
           /\ video'[f][today[f]] = Whole(active, newest[active])
        \/ pc'[f] = "idle" /\ video'[f][today[f]] = Empty
    BY <1>p, <1>9, <2>1 DEF Download
  <2>4. \/ /\ pc'[f] = "delete" /\ today'[f] = today[f]
           /\ video'[f][today[f]].kind = "whole"
           /\ video'[f][today[f]].nb = nb[f]
        \/ pc'[f] = "idle" /\ video'[f][today[f]].kind = "empty"
    BY <2>1, <2>3 DEF Whole, Empty
  <2>5. \A g \in Flows, d \in Days :
          video'[g][d].kind = "whole" => video'[g][d].nb \in 1..Len(made)
    <3>1. SUFFICES ASSUME NEW g \in Flows, NEW d \in Days,
                          video'[g][d].kind = "whole"
                   PROVE video'[g][d].nb \in 1..Len(made)
      OBVIOUS
    <3>2. CASE g = f /\ d = today[f]
      BY <3>1, <3>2, <2>4, <2>1
    <3>3. CASE g # f \/ d # today[f]
      BY <3>1, <3>3, <2>2
    <3> QED
      BY <3>2, <3>3
  <2> QED
    BY <2>1, <2>2, <2>4, <2>5
<1>10. ASSUME NEW f \in Flows, DeleteNotebook(f) PROVE VideoInv'
  BY <1>p, <1>10 DEF DeleteNotebook
<1>11. ASSUME NEW f \in Flows, Break(f) PROVE VideoInv'
  <2>1. UNCHANGED <<video, made>>
    BY <1>11 DEF Break
  <2>2. \A g \in Flows : pc'[g] = "idle"
    BY <1>p, <1>11 DEF Break
  <2> QED
    BY <2>1, <2>2
<1>12. ASSUME NEW f \in Flows, PowerLoss(f) PROVE VideoInv'
  <2>1. /\ pc[f] = "download" /\ made' = made
        /\ video' = [video EXCEPT ![f][today[f]] = Empty]
    BY <1>12 DEF PowerLoss
  <2>2. \A g \in Flows : pc'[g] = "idle"
    BY <1>p, <1>12, <2>1 DEF PowerLoss
  <2>3. \A g \in Flows, d \in Days :
          \/ video'[g][d].kind = "empty"
          \/ video'[g][d] = video[g][d]
    BY <1>p, <2>1 DEF Empty
  <2> QED
    BY <2>1, <2>2, <2>3
<1>13. ASSUME NEW f \in Flows, Upload(f) PROVE VideoInv'
  <2>1. UNCHANGED <<video, made>>
    BY <1>13 DEF Upload
  <2>2. \A g \in Flows : pc'[g] = "idle"
    BY <1>p, <1>13 DEF Upload
  <2> QED
    BY <2>1, <2>2
<1>14. CASE UNCHANGED <<video, made, pc, today>>
  BY <1>14
<1> QED
  BY <1>1, <1>2, <1>3, <1>4, <1>5, <1>6, <1>7, <1>8, <1>9, <1>10, <1>11,
     <1>12, <1>13, <1>14 DEF Next, Step, StartRun, StartSweep, EndSweep,
     NewTopic, EndRun, Midnight, vars

\* What is settled stays settled while its file is not touched.
LEMMA SettledKept ==
    ASSUME TypeOK, clock' = clock \/ clock' = clock + 1,
           NEW f \in Flows, NEW d \in Days, Settled(f, d),
           video'[f][d] = video[f][d]
    PROVE  Settled(f, d)'
  BY DEF TypeOK, Settled, Days

\* An empty file of today is not settled, nor is one that is not there.
LEMMA NotSettled ==
    ASSUME NEW f \in Flows, NEW d \in Days, Settled(f, d)
    PROVE  /\ video[f][d] # Absent
           /\ d = clock => video[f][d].kind = "whole"
  BY DEF Settled, Absent, Days

\* The shell marks a day over files that are settled.
LEMMA SettledStep ==
    TypeOK /\ LockInv /\ VideoInv /\ SettledInv /\ [Next]_vars => SettledInv'
<1> SUFFICES ASSUME TypeOK, LockInv, VideoInv, SettledInv, [Next]_vars
             PROVE SettledInv'
  OBVIOUS
<1>p. Clocks /\ Videos /\ Runs
  BY Parts
<1>d. stage # "none" => shell \in Days
  BY <1>p DEF LockInv, Clocks, Days
<1> USE DEF cron, outside, own, Goto
\* Only the file of one flow's one day is touched, and it was not settled.
<1>a. ASSUME NEW f \in Flows, NEW e \in Days, ~Settled(f, e),
             \A g \in Flows, d \in Days :
                g # f \/ d # e => video'[g][d] = video[g][d],
             UNCHANGED <<clock, marker, cron>>,
             \A g \in Flows : status'[g] = "ok" => status[g] = "ok"
      PROVE SettledInv'
  <2>1. \A g \in Flows, d \in Days : Settled(g, d) => Settled(g, d)'
    BY <1>a, SettledKept
  <2> QED
    BY <1>a, <1>p, <1>d, <2>1 DEF SettledInv, Clocks
\* No file is touched.
<1>b. ASSUME UNCHANGED <<video, clock, marker, cron>>,
             \A g \in Flows : status'[g] = "ok" => status[g] = "ok"
      PROVE SettledInv'
  <2>1. \A g \in Flows, d \in Days : Settled(g, d)' <=> Settled(g, d)
    BY <1>b DEF Settled
  <2> QED
    BY <1>b, <1>p, <1>d, <2>1 DEF SettledInv, Clocks
\* No flow has passed yet.
<1>c. ASSUME UNCHANGED <<video, marker>>, clock' = clock \/ clock' = clock + 1,
             \A g \in Flows : status'[g] # "ok"
      PROVE SettledInv'
  BY <1>c, <1>p, SettledKept DEF SettledInv, Clocks
<1>1. ASSUME NEW f \in Flows, Begin(f) PROVE SettledInv'
  <2>1. UNCHANGED <<clock, marker, cron>> /\ clock \in Days
    BY <1>1, <1>p DEF Begin, Clocks
  <2>2. \A g \in Flows : status'[g] = "ok" => status[g] = "ok"
    BY <1>1, <1>p DEF Begin, Runs
  <2>3. CASE video[f][clock].kind = "whole"
    BY <1>1, <1>b, <2>1, <2>2, <2>3 DEF Begin
  <2>4. CASE video[f][clock].kind # "whole"
    <3>1. ~Settled(f, clock)
      BY <2>1, <2>4, NotSettled
    <3>2. \A g \in Flows, d \in Days :
              g # f \/ d # clock => video'[g][d] = video[g][d]
      BY <1>1, <1>p, <2>1, <2>4 DEF Begin, Videos
    <3> QED
      BY <1>a, <2>1, <2>2, <3>1, <3>2
  <2> QED
    BY <2>3, <2>4
<1>2. ASSUME NEW f \in Flows, Download(f) \/ PowerLoss(f) PROVE SettledInv'
  <2>1. today[f] \in Days /\ ~Settled(f, today[f])
    BY <1>2, <1>p, NotSettled DEF Download, PowerLoss, VideoInv, Busy, Runs
  <2>2. \A g \in Flows, d \in Days :
              g # f \/ d # today[f] => video'[g][d] = video[g][d]
    BY <1>2, <1>p, <2>1 DEF Download, PowerLoss, Videos
  <2>3. CASE Download(f)
    BY <1>a, <1>p, <2>1, <2>2, <2>3 DEF Download, End, Runs
  <2>4. CASE PowerLoss(f)
    <3>1. \A g \in Flows, d \in Days : Settled(g, d) => Settled(g, d)'
      BY <2>1, <2>2, <2>4, SettledKept DEF PowerLoss
    <3>2. \A g \in Flows : status'[g] = "todo"
      BY <2>4 DEF PowerLoss, Over
    <3> QED
      BY <1>p, <2>4, <3>1, <3>2 DEF PowerLoss, SettledInv, Clocks
  <2> QED
    BY <1>2, <2>3, <2>4
<1>3. ASSUME NEW f \in Flows, Upload(f) PROVE SettledInv'
  <2>1. /\ UNCHANGED <<video, clock, marker, cron>> /\ stage = "flows"
        /\ video[f][today[f]].kind = "whole"
        /\ shell \in Days /\ today[f] \in Days /\ clock \in Days
        /\ shell <= today[f] /\ today[f] <= clock
    BY <1>3, <1>p, <1>d DEF Upload, LockInv, VideoInv, Runs, Clocks
  <2>2. \A g \in Flows, d \in Days : Settled(g, d)' <=> Settled(g, d)
    BY <2>1 DEF Settled
  <2>3. Usable(f, shell) => Settled(f, shell)
    <3>1. CASE shell = today[f]
      BY <2>1, <3>1 DEF Settled
    <3>2. CASE shell # today[f]
      <4>1. shell < clock
        BY <2>1, <3>2 DEF Days
      <4> QED
        BY <4>1 DEF Usable, Settled
    <3> QED
      BY <3>1, <3>2
  <2>4. \A g \in Flows : status'[g] = "ok" =>
              status[g] = "ok" \/ (g = f /\ Usable(f, shell))
    BY <1>3, <1>p DEF Upload, End, Runs
  <2> QED
    BY <1>p, <2>1, <2>2, <2>3, <2>4 DEF SettledInv, Clocks
<1>4. CASE EndRun
  <2>1. \A g \in Flows : status'[g] # "ok"
    BY <1>4 DEF EndRun, Over
  <2>2. UNCHANGED <<video, clock>>
    BY <1>4 DEF EndRun
  <2>3. \A g \in Flows, d \in Days : Settled(g, d)' <=> Settled(g, d)
    BY <2>2 DEF Settled
  <2>4. \A d \in marker', g \in Flows : d \in Days /\ Settled(g, d)
    BY <1>4, <1>p, <1>d DEF EndRun, Mark, SettledInv, Clocks
  <2> QED
    BY <2>1, <2>3, <2>4 DEF SettledInv
<1>5. CASE StartRun \/ EndSweep \/ NewTopic
  <2>1. stage # "flows" /\ UNCHANGED <<status, video, clock, marker>>
    BY <1>5 DEF StartRun, EndSweep, NewTopic, LockInv
  <2>2. \A g \in Flows : status'[g] # "ok"
    BY <2>1 DEF SettledInv
  <2> QED
    BY <1>c, <2>1, <2>2
<1>6. CASE Midnight
  <2>1. clock' = clock + 1 /\ UNCHANGED <<video, marker, cron, status>>
    BY <1>6 DEF Midnight
  <2>2. \A g \in Flows, d \in Days : Settled(g, d) => Settled(g, d)'
    BY <2>1, SettledKept
  <2> QED
    BY <1>p, <1>d, <2>1, <2>2 DEF SettledInv, Clocks
<1>7. ASSUME NEW f \in Flows, CheckSources(f) \/ Break(f) PROVE SettledInv'
  BY <1>7, <1>b, <1>p DEF CheckSources, Break, End, Runs
<1>8. ASSUME NEW f \in Flows,
             \/ ReuseNotebook(f) \/ CreateNotebook(f) \/ SaveState(f)
             \/ ListSources(f) \/ AddSource(f) \/ Generate(f)
             \/ DeleteNotebook(f)
      PROVE SettledInv'
  BY <1>8, <1>b DEF ReuseNotebook, CreateNotebook, SaveState, ListSources,
     AddSource, Generate, DeleteNotebook
<1>9. CASE StartSweep \/ UNCHANGED vars
  BY <1>9, <1>b DEF StartSweep, vars
<1> QED
  BY <1>1, <1>2, <1>3, <1>4, <1>5, <1>6, <1>7, <1>8, <1>9 DEF Next, Step

\* A video that lands is of its own notebook and day.
LEMMA OwnStep ==
    TypeOK /\ LockInv /\ NotebookInv /\ SourcesInv /\ VideoInv /\ OwnSources
    /\ [Next]_vars => OwnSources'
<1> SUFFICES ASSUME TypeOK, LockInv, NotebookInv, SourcesInv, VideoInv,
                OwnSources, [Next]_vars
             PROVE OwnSources'
  OBVIOUS
<1>p. Videos /\ Runs /\ Made
  BY Parts
<1> USE DEF Videos, Runs, Made, LockInv, NotebookInv, SourcesInv, VideoInv,
    OwnSources, Busy, Absent, Empty,
    own, remote, outside, cron, Goto, End, Forget, Over, Quiet
<1>1. ASSUME NEW f \in Flows, Begin(f) PROVE OwnSources'
  BY <1>p, <1>1, Bound DEF Begin
<1>2. ASSUME NEW f \in Flows, ReuseNotebook(f) PROVE OwnSources'
  BY <1>p, <1>2, Bound DEF ReuseNotebook
<1>3. ASSUME NEW f \in Flows, CreateNotebook(f) PROVE OwnSources'
  BY <1>p, <1>3, Bound DEF CreateNotebook
<1>4. ASSUME NEW f \in Flows, SaveState(f) PROVE OwnSources'
  BY <1>p, <1>4, Bound DEF SaveState
<1>5. ASSUME NEW f \in Flows, ListSources(f) PROVE OwnSources'
  BY <1>p, <1>5, Bound DEF ListSources
<1>6. ASSUME NEW f \in Flows, AddSource(f) PROVE OwnSources'
  BY <1>p, <1>6, Bound DEF AddSource
<1>7. ASSUME NEW f \in Flows, CheckSources(f) PROVE OwnSources'
  BY <1>p, <1>7, Bound DEF CheckSources
<1>8. ASSUME NEW f \in Flows, Generate(f) PROVE OwnSources'
  BY <1>p, <1>8, Bound DEF Generate
<1>9. ASSUME NEW f \in Flows, Download(f) PROVE OwnSources'
  <2>1. /\ pc[f] = "download" /\ active = nb[f] /\ nb[f] \in 1..Len(made)
        /\ newest[active] # {} /\ made[active] = <<f, today[f]>>
        /\ made' = made /\ video[f][today[f]] = Absent
    BY <1>9 DEF Download
  <2>2. newest[active] \subseteq {today[f]} \X Urls
    BY <1>p, <2>1, Bound
  <2>3. /\ video'[f][today[f]] \in {Whole(active, newest[active]), Empty}
        /\ \A g \in Flows, d \in Days :
              g # f \/ d # today[f] => video'[g][d] = video[g][d]
    BY <1>p, <1>9, <2>1 DEF Download
  <2>4. SUFFICES ASSUME NEW g \in Flows, NEW d \in Days,
                        video'[g][d].kind = "whole"
                 PROVE /\ made[video'[g][d].nb] = <<g, d>>
                       /\ video'[g][d].urls # {}
                       /\ video'[g][d].urls \subseteq {d} \X Urls
    BY <2>1 DEF OwnSources
  <2>5. CASE g = f /\ d = today[f]
    BY <2>1, <2>2, <2>3, <2>4, <2>5 DEF Whole
  <2>6. CASE g # f \/ d # today[f]
    BY <2>3, <2>4, <2>6
  <2> QED
    BY <2>5, <2>6
<1>10. ASSUME NEW f \in Flows, DeleteNotebook(f) PROVE OwnSources'
  BY <1>p, <1>10, Bound DEF DeleteNotebook
<1>11. ASSUME NEW f \in Flows, Break(f) PROVE OwnSources'
  BY <1>p, <1>11, Bound DEF Break
<1>12. ASSUME NEW f \in Flows, PowerLoss(f) PROVE OwnSources'
  BY <1>p, <1>12, Bound DEF PowerLoss
<1>13. CASE StartSweep
  BY <1>p, <1>13, Bound DEF StartSweep
<1>14. CASE EndSweep
  BY <1>p, <1>14, Bound DEF EndSweep
<1>15. CASE NewTopic
  BY <1>p, <1>15, Bound DEF NewTopic
<1>16. CASE EndRun
  BY <1>p, <1>16, Bound DEF EndRun, Mark
<1>17. CASE Midnight
  BY <1>p, <1>17, Bound DEF Midnight
<1>18. CASE UNCHANGED vars
  BY <1>p, <1>18, Bound DEF vars
<1>19. ASSUME NEW f \in Flows, Upload(f) PROVE OwnSources'
  BY <1>p, <1>19, Bound DEF Upload
<1>20. CASE StartRun
  BY <1>p, <1>20, Bound DEF StartRun
<1> QED
  BY <1>1, <1>2, <1>3, <1>4, <1>5, <1>6, <1>7, <1>8, <1>9, <1>10, <1>11,
     <1>12, <1>13, <1>14, <1>15, <1>16, <1>17, <1>18, <1>19, <1>20 DEF Next, Step

\* A second notebook is not made while the first is known.
LEMMA SingleStep ==
    TypeOK /\ LockInv /\ NotebookInv /\ SourcesInv /\ Single
    /\ [Next]_vars => Single'
<1> SUFFICES ASSUME TypeOK, LockInv, NotebookInv, SourcesInv, Single,
                [Next]_vars
             PROVE Single'
  OBVIOUS
<1>p. Clocks /\ States /\ Runs /\ Made
  BY Parts
<1> USE DEF Clocks, States, Runs, Made, LockInv, NotebookInv, SourcesInv,
    Single, Busy, NoNotebook,
    own, remote, outside, cron, Goto, End, Forget, Over, Quiet
<1>1. ASSUME NEW f \in Flows, Begin(f) PROVE Single'
  BY <1>p, <1>1, Bound DEF Begin
<1>2. ASSUME NEW f \in Flows, ReuseNotebook(f) PROVE Single'
  BY <1>p, <1>2, Bound DEF ReuseNotebook
<1>3. ASSUME NEW f \in Flows, CreateNotebook(f) PROVE Single'
  <2> DEFINE k == Len(made) + 1
  <2>1. /\ made' = Append(made, <<f, today[f]>>)
        /\ live' = live \cup {k}
        /\ nb' = [nb EXCEPT ![f] = k]
        /\ pc' = [pc EXCEPT ![f] = "save"]
        /\ UNCHANGED <<state, today, lost>>
        /\ pc[f] = "ensure"
        /\ ~(state[f].day = today[f] /\ state[f].nb \in live)
    BY <1>3 DEF CreateNotebook
  <2>2. /\ Len(made) \in Nat
        /\ made'[k] = <<f, today[f]>>
        /\ \A n \in 1..Len(made) : n # k /\ made'[n] = made[n]
    BY <1>p, <2>1
  <2>3. \A n \in live \ lost : n \in 1..Len(made) /\ n # k /\ made'[n] = made[n]
    BY <1>p, <2>2
  <2>4. live' \ lost' \subseteq (live \ lost) \cup {k}
    BY <2>1
  <2>5. pc'[f] = "save" /\ nb'[f] = k
    BY <1>p, <2>1
  <2>6. \A g \in Flows : g # f => pc'[g] = pc[g] /\ nb'[g] = nb[g]
    BY <1>p, <2>1
  <2>7. ASSUME NEW n \in live \ lost PROVE made[n] # <<f, today[f]>>
    <3>1. SUFFICES ASSUME made[n] = <<f, today[f]>> PROVE FALSE
      OBVIOUS
    <3>2. \/ state[f].day = today[f] /\ state[f].nb = n
          \/ today[f] < state[f].day
      BY <2>1, <3>1
    <3>3. /\ state[f].day <= today[f]
          /\ state[f].day \in Int /\ today[f] \in Int
      BY <1>p, <2>1 DEF StateRec, Days
    <3> QED
      BY <2>1, <3>2, <3>3
  <2>8. ASSUME NEW n \in live' \ lost', NEW g \in Flows, made'[n][1] = g
        PROVE \/ pc'[g] = "save" /\ nb'[g] = n
              \/ state'[g].day = made'[n][2] /\ state'[g].nb = n
              \/ made'[n][2] < state'[g].day
    <3>1. CASE n = k
      BY <2>2, <2>5, <2>8, <3>1
    <3>2. CASE n \in live \ lost
      BY <2>1, <2>3, <2>6, <2>8, <3>2
    <3> QED
      BY <2>4, <3>1, <3>2
  <2>9. ASSUME NEW m \in live' \ lost', NEW n \in live' \ lost',
               made'[m] = made'[n]
        PROVE m = n
    BY <2>2, <2>3, <2>4, <2>7, <2>9
  <2> QED
    BY <2>8, <2>9
<1>4. ASSUME NEW f \in Flows, SaveState(f) PROVE Single'
  <2>1. /\ pc[f] = "save"
        /\ state' = [state EXCEPT ![f] = [day |-> today[f], nb |-> nb[f]]]
        /\ pc' = [pc EXCEPT ![f] = "list"]
        /\ UNCHANGED <<nb, made, live, lost>>
    BY <1>4 DEF SaveState
  <2>2. /\ state'[f].day = today[f] /\ state'[f].nb = nb[f]
        /\ \A g \in Flows : g # f => state'[g] = state[g] /\ pc'[g] = pc[g]
    BY <1>p, <2>1
  <2>3. /\ nb[f] \in live \ lost /\ made[nb[f]] = <<f, today[f]>>
        /\ state[f].day <= today[f]
    BY <2>1
  <2>4. ASSUME NEW n \in live \ lost, made[n][1] = f
        PROVE n = nb[f] \/ made[n][2] < today[f]
    <3>1. made[n] \in Flows \X Days
      BY <1>p
    <3>2. /\ state[f].day \in Int /\ today[f] \in Int /\ made[n][2] \in Int
          /\ made[n] = <<f, made[n][2]>>
      <4>1. made[n][2] \in Days /\ made[n] = <<made[n][1], made[n][2]>>
        BY ONLY <3>1
      <4>2. state[f] \in StateRec /\ today[f] \in Days
        BY ONLY <1>p DEF States, Runs
      <4>3. state[f].day \in 0..LastDay
        BY ONLY <4>2 DEF StateRec
      <4> QED
        BY ONLY <2>4, <4>1, <4>2, <4>3, VideoFlowAssumption DEF Days
    <3>3. n = nb[f] \/ made[n][2] <= state[f].day
      BY <2>4, <3>2
    <3>4. made[n][2] = today[f] => n = nb[f]
      BY <2>3, <3>2
    <3> QED
      BY <2>3, <3>2, <3>3, <3>4
  <2>5. ASSUME NEW n \in live' \ lost', NEW g \in Flows, made'[n][1] = g
        PROVE \/ pc'[g] = "save" /\ nb'[g] = n
              \/ state'[g].day = made'[n][2] /\ state'[g].nb = n
              \/ made'[n][2] < state'[g].day
    <3>1. CASE g = f
      BY <2>1, <2>2, <2>3, <2>4, <2>5, <3>1
    <3>2. CASE g # f
      BY <2>1, <2>2, <2>5, <3>2
    <3> QED
      BY <3>1, <3>2
  <2> QED
    BY <2>1, <2>5
<1>5. ASSUME NEW f \in Flows, ListSources(f) PROVE Single'
  BY <1>p, <1>5, Bound DEF ListSources
<1>6. ASSUME NEW f \in Flows, AddSource(f) PROVE Single'
  BY <1>p, <1>6, Bound DEF AddSource
<1>7. ASSUME NEW f \in Flows, CheckSources(f) PROVE Single'
  BY <1>p, <1>7, Bound DEF CheckSources
<1>8. ASSUME NEW f \in Flows, Generate(f) PROVE Single'
  BY <1>p, <1>8, Bound DEF Generate
<1>9. ASSUME NEW f \in Flows, Download(f) PROVE Single'
  BY <1>p, <1>9, Bound DEF Download
<1>10. ASSUME NEW f \in Flows, DeleteNotebook(f) PROVE Single'
  BY <1>p, <1>10, Bound DEF DeleteNotebook
<1>11. ASSUME NEW f \in Flows, Break(f) PROVE Single'
  BY <1>p, <1>11, Bound DEF Break
<1>12. ASSUME NEW f \in Flows, PowerLoss(f) PROVE Single'
  BY <1>p, <1>12, Bound DEF PowerLoss
<1>13. CASE StartSweep
  BY <1>p, <1>13, Bound DEF StartSweep
<1>14. CASE EndSweep
  <2>1. live' \subseteq live /\ UNCHANGED <<lost, made, pc, nb, state>>
    BY <1>14 DEF EndSweep, Sweepable, Recorded
  <2> QED
    BY <2>1
<1>15. CASE NewTopic
  BY <1>p, <1>15, Bound DEF NewTopic
<1>16. CASE EndRun
  BY <1>p, <1>16, Bound DEF EndRun, Mark
<1>17. CASE Midnight
  BY <1>p, <1>17, Bound DEF Midnight
<1>18. CASE UNCHANGED vars
  BY <1>p, <1>18, Bound DEF vars
<1>19. ASSUME NEW f \in Flows, Upload(f) PROVE Single'
  BY <1>p, <1>19, Bound DEF Upload
<1>20. CASE StartRun
  BY <1>p, <1>20, Bound DEF StartRun
<1> QED
  BY <1>1, <1>2, <1>3, <1>4, <1>5, <1>6, <1>7, <1>8, <1>9, <1>10, <1>11,
     <1>12, <1>13, <1>14, <1>15, <1>16, <1>17, <1>18, <1>19, <1>20 DEF Next, Step

-----------------------------------------------------------------------------
(* The theorems. *)

\* In every reachable state the pipeline's lock is held by one run or the
\* sweep, the run's notebook is its own, and what is in it is of its day.
THEOREM Invariance == Spec => []IInv
<1>1. Init => IInv
  BY InitInv
<1>2. IInv /\ [Next]_vars => IInv'
  BY TypeStep, LockStep, NotebookStep, SourcesStep, VideoStep, SettledStep,
     OwnStep, SingleStep DEF IInv
<1> QED
  BY <1>1, <1>2, PTL DEF Spec

\* Every variable has its type (the state of _orchestrator.py, _cli.py and
\* cleanup_notebooks.py).
THEOREM TypeCorrect == Spec => []TypeOK
<1>1. IInv => TypeOK
  BY DEF IInv
<1> QED
  BY <1>1, Invariance, PTL

\* A finished video was made in its flow's notebook of that day from that
\* day's sources, although the flows share the active notebook
\* (_cli.py:126-128).
THEOREM MadeFromItsOwn == Spec => []OwnVideos
<1>1. IInv => OwnVideos
  BY DEF IInv, OwnVideos
<1> QED
  BY <1>1, Invariance, PTL

\* Beside notebooks whose id was lost there is one for a flow and day
\* (_cli.py:223-248).
THEOREM NotebooksDoNotPileUp == Spec => []OneNotebookADay
<1>1. ASSUME IInv PROVE OneNotebookADay
  <2> SUFFICES ASSUME NEW f \in Flows, NEW d \in Days
               PROVE Cardinality({n \in live \ lost : made[n] = <<f, d>>}) <= 1
    BY DEF OneNotebookADay
  <2> DEFINE S == {n \in live \ lost : made[n] = <<f, d>>}
  <2>1. \A m, n \in S : m = n
    BY <1>1 DEF IInv, Single
  <2>2. S = {} \/ \E n : S = {n}
    BY <2>1
  <2>3. Cardinality(S) = 0 \/ Cardinality(S) = 1
    BY <2>2, FS_EmptySet, FS_Singleton
  <2> QED
    BY <2>3
<1> QED
  BY <1>1, Invariance, PTL

\* No step deletes a notebook before the video it was made for is on disk
\* (cleanup_notebooks.py:8-9, _orchestrator.py:79-82), but that of a flow that
\* is not branded, whose file is empty on a day marked after it was over.
THEOREM NeededIsNotDeleted == Spec => NeededNotebookKept
<1> DEFINE Gone(n) ==
      LET f == made[n][1]
          d == made[n][2]
      IN  \/ video[f][d].kind = "whole"
          \/ /\ video[f][d].kind = "empty" /\ f \notin Branded
             /\ d < clock /\ d \in marker
<1>1. ASSUME IInv, [Next]_vars PROVE \A n \in live \ live' : Gone(n)
  <2> USE DEF remote, own, outside
  <2>1. TypeOK /\ NotebookInv /\ VideoInv /\ SettledInv
    BY <1>1 DEF IInv
  <2>2. ASSUME NEW f \in Flows, DeleteNotebook(f), NEW n \in live \ live'
        PROVE Gone(n)
    <3>1. pc[f] = "delete" /\ n = state[f].nb
      BY <2>2 DEF DeleteNotebook
    <3>2. state[f].nb # NoNotebook
      BY <2>1, <2>2, <3>1 DEF TypeOK, NoNotebook
    <3>3. made[n] = <<f, today[f]>>
      BY <2>1, <3>1, <3>2 DEF NotebookInv
    <3> QED
      BY <2>1, <3>1, <3>3 DEF VideoInv
  <2>3. ASSUME EndSweep, NEW n \in live \ live' PROVE Gone(n)
    <3>1. n \in Recorded \/ SafeToDelete(made[n][2])
      BY <2>3 DEF EndSweep, Sweepable
    <3>2. n \in 1..Len(made) /\ n # NoNotebook /\ made[n] \in Flows \X Days
      BY <2>1, <2>3 DEF TypeOK, NoNotebook
    <3>3. made[n][2] \in marker
      BY <2>1, <3>1, <3>2 DEF Recorded, SafeToDelete, NotebookInv
    <3>4. Settled(made[n][1], made[n][2])
      BY <2>1, <3>2, <3>3 DEF SettledInv
    <3> QED
      BY <3>3, <3>4 DEF Settled
  <2>4. ASSUME NEW f \in Flows,
               \/ Begin(f) \/ ReuseNotebook(f) \/ CreateNotebook(f)
               \/ SaveState(f) \/ ListSources(f) \/ AddSource(f)
               \/ CheckSources(f) \/ Generate(f) \/ Download(f) \/ Upload(f)
               \/ Break(f) \/ PowerLoss(f)
        PROVE live \subseteq live'
    BY <2>4 DEF Begin, ReuseNotebook, CreateNotebook, SaveState, ListSources,
       AddSource, CheckSources, Generate, Download, Upload, Break, PowerLoss
  <2>5. CASE \/ StartRun \/ StartSweep \/ NewTopic \/ EndRun \/ Midnight
             \/ UNCHANGED vars
    BY <2>5 DEF StartRun, StartSweep, NewTopic, EndRun, Midnight, vars
  <2> QED
    BY <1>1, <2>2, <2>3, <2>4, <2>5 DEF Next, Step
<1> QED
  BY <1>1, Invariance, PTL DEF Spec, NeededNotebookKept

=============================================================================
