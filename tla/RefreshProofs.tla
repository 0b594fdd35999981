--------------------------- MODULE RefreshProofs ---------------------------
(***************************************************************************)
(* Proofs about RefreshCmd for any processes, callers and bounds: in a     *)
(* process one refresh is driven at a time, and on a file system that can  *)
(* lock one in all; none is driven that is not needed; no failure is taken *)
(* for a refresh; a cancelled caller does not leave a flight in the air.   *)
(***************************************************************************)
EXTENDS RefreshCmd, FiniteSetTheorems, TLAPS

Succeeded(p) == {f \in Callers : ProcessOf[f] = p /\ task[f] = "ok"}

\* A flight that is driven is the one registered, its followers see nothing of
\* its end yet, and its leader waits; a caller that has no flight has no task.
FlightsInv ==
    \A f \in Callers :
        /\ task[f] \in Driving => registry[ProcessOf[f]] = f
        /\ bridge[f] # "pending" => /\ task[f] \in Settled
                                    /\ bridge[f] = Outcome(f)
        /\ pc[f] \in {"idle", "claim"} => task[f] = "none"
        /\ pc[f] = "await" /\ joined[f] # f => task[f] = "none"
        /\ pc[f] \in {"await", "cancelled"} => joined[f] \in Callers
        /\ pc[f] = "cancelled" => bridge[joined[f]] # "pending"

\* The holder of the lock is a task that runs the command or tries the lock, and
\* where the file system can lock there is one in all processes.
LocksInv ==
    /\ \A f \in Callers : task[f] \in {"run", "probe"} => holder[ProcessOf[f]] = f
    /\ flockWorks => \A p, q \in Processes :
                        (holder[p] # NoOne /\ holder[q] # NoOne) => p = q

\* The epoch counts the commands that succeeded; nobody noted a later one, a
\* flight's leader noted the present one, and who returned has a reason to.
EpochsInv ==
    /\ \A p \in Processes : epoch[p] = Cardinality(Succeeded(p))
    /\ \A c \in Callers :
        /\ before[c] <= epoch[ProcessOf[c]]
        /\ task[c] \in Driving => epoch[ProcessOf[c]] = before[c]
        /\ pc[c] = "returned" =>
            \/ epoch[ProcessOf[c]] > before[c]
            \/ joined[c] # NoOne /\ task[joined[c]] \in {"ok", "waited"}

\* What is waited for goes on: the flight registered in a process is one of its own
\* that was begun, a process that is dead has no caller left, a task that runs has
\* begun its command, and nobody awaits a flight or a lock of the dead.
StayInv ==
    /\ \A p \in Processes : registry[p] # NoOne =>
        ProcessOf[registry[p]] = p /\ task[registry[p]] # "none"
    /\ \A f, c \in Callers :
        (task[f] = "dead" /\ ProcessOf[c] = ProcessOf[f]) => pc[c] \in Ended
    /\ \A f \in Callers : task[f] = "run" => cmd[f] # "none"
    /\ NobodyIsLeftBehind

IInv == TypeOK /\ FlightsInv /\ LocksInv /\ EpochsInv /\ StayInv

-----------------------------------------------------------------------------
\* Every step keeps every variable in its type.
LEMMA TypeStep == TypeOK /\ [Next]_vars => TypeOK'
<1> SUFFICES ASSUME TypeOK, [Next]_vars PROVE TypeOK'
  OBVIOUS
<1> USE RefreshAssumption DEF TypeOK, Ended, Driving, Settled
<1>1. ASSUME NEW c \in Callers, Begin(c) PROVE TypeOK'
  BY <1>1 DEF Begin
<1>2. ASSUME NEW c \in Callers, Cancel(c) PROVE TypeOK'
  BY <1>2 DEF Cancel
<1>3. ASSUME NEW c \in Callers, Skip(c) PROVE TypeOK'
  BY <1>3 DEF Skip
<1>4. ASSUME NEW c \in Callers, Follow(c) PROVE TypeOK'
  BY <1>4 DEF Follow
<1>5. ASSUME NEW c \in Callers, Lead(c) PROVE TypeOK'
  BY <1>5 DEF Lead
<1>6. ASSUME NEW c \in Callers, Resume(c) PROVE TypeOK'
  BY <1>6 DEF Resume
<1>7. ASSUME NEW f \in Callers, RunCommand(f) PROVE TypeOK'
  BY <1>7 DEF RunCommand, callVars
<1>8. ASSUME NEW f \in Callers, Contended(f) PROVE TypeOK'
  BY <1>8 DEF Contended, callVars
<1>9. ASSUME NEW f \in Callers, Probe(f) PROVE TypeOK'
  BY <1>9 DEF Probe, callVars
<1>10. ASSUME NEW f \in Callers, ProbeEnds(f) PROVE TypeOK'
  BY <1>10 DEF ProbeEnds, callVars
<1>11. ASSUME NEW f \in Callers, WaitGivenUp(f) PROVE TypeOK'
  BY <1>11 DEF WaitGivenUp, callVars
<1>12. ASSUME NEW f \in Callers, CommandEnds(f) PROVE TypeOK'
  BY <1>12 DEF CommandEnds, callVars
<1>13. ASSUME NEW f \in Callers, TaskEnds(f) PROVE TypeOK'
  <2>1. epoch' \in [Processes -> Nat]
    BY <1>13 DEF TaskEnds, NoteSuccess
  <2>2. task' \in [Callers -> {"none", "dead"} \union Driving \union Settled]
    BY <1>13 DEF TaskEnds
  <2> QED
    BY <1>13, <2>1, <2>2 DEF TaskEnds, callVars
<1>14. ASSUME NEW f \in Callers, Mirror(f) PROVE TypeOK'
  BY <1>14 DEF Mirror, HasEnded, Outcome, callVars
<1>15. ASSUME NEW f \in Callers, Pop(f) PROVE TypeOK'
  BY <1>15 DEF Pop, callVars
<1>16. ASSUME NEW f \in Callers, Teardown(f) PROVE TypeOK'
  BY <1>16 DEF Teardown, Released
<1>17. ASSUME NEW p \in Processes, Crash(p) PROVE TypeOK'
  BY <1>17 DEF Crash
<1>18. CASE UNCHANGED vars
  BY <1>18 DEF vars, callVars
<1> QED
  BY <1>1, <1>2, <1>3, <1>4, <1>5, <1>6, <1>7, <1>8, <1>9, <1>10, <1>11,
     <1>12, <1>13, <1>14, <1>15, <1>16, <1>17, <1>18
     DEF Next, CallerStep, TaskStep

\* The initial state is well typed.
LEMMA TypeInit == Init => TypeOK
  BY RefreshAssumption DEF Init, TypeOK, Ended, Driving, Settled

\* The state of every caller, flight and command keeps its type.
THEOREM TypeCorrect == Spec => []TypeOK
  BY TypeInit, TypeStep, PTL DEF Spec

-----------------------------------------------------------------------------
(* The single flight. *)

\* Nobody flies.
LEMMA FlightsInit == Init => FlightsInv
  BY DEF Init, FlightsInv, Driving, Settled

\* Every step keeps one flight in a process.
LEMMA FlightsStep ==
    ASSUME TypeOK, FlightsInv, [Next]_vars
    PROVE  FlightsInv'
<1> USE RefreshAssumption DEF TypeOK, FlightsInv, Ended, Driving, Settled
<1>1. ASSUME NEW c \in Callers, Begin(c) PROVE FlightsInv'
  BY <1>1 DEF Begin, Outcome
<1>2. ASSUME NEW c \in Callers, Cancel(c) PROVE FlightsInv'
  BY <1>2 DEF Cancel, Outcome
<1>3. ASSUME NEW c \in Callers, Skip(c) PROVE FlightsInv'
  BY <1>3 DEF Skip, Outcome
<1>4. ASSUME NEW c \in Callers, Follow(c) PROVE FlightsInv'
  BY <1>4 DEF Follow, InFlight, Outcome
<1>5. ASSUME NEW c \in Callers, Lead(c) PROVE FlightsInv'
  <2>1. \A f \in Callers : ProcessOf[f] = ProcessOf[c] => task[f] \notin Driving
    BY <1>5 DEF Lead, InFlight
  <2> QED
    BY <1>5, <2>1 DEF Lead, Outcome
<1>6. ASSUME NEW c \in Callers, Resume(c) PROVE FlightsInv'
  <2>1. pc' = [pc EXCEPT ![c] = pc'[c]] /\ joined[c] \in Callers
    BY <1>6 DEF Resume
  <2>2. pc'[c] \in {"cancelled", "returned", "raised", "claim"}
    BY <1>6 DEF Resume
  <2>3. pc'[c] = "claim" => task[c] = "none"
    BY <1>6 DEF Resume
  <2>4. bridge[joined[c]] # "pending" /\ UNCHANGED <<joined, task, bridge, registry>>
    BY <1>6 DEF Resume, MayLeave
  <2> QED
    BY <2>1, <2>2, <2>3, <2>4 DEF Outcome
<1>7. ASSUME NEW f \in Callers, RunCommand(f) PROVE FlightsInv'
  BY <1>7 DEF RunCommand, callVars, Outcome
<1>8. ASSUME NEW f \in Callers, Contended(f) PROVE FlightsInv'
  BY <1>8 DEF Contended, callVars, Outcome
<1>9. ASSUME NEW f \in Callers, Probe(f) PROVE FlightsInv'
  BY <1>9 DEF Probe, callVars, Outcome
<1>10. ASSUME NEW f \in Callers, ProbeEnds(f) PROVE FlightsInv'
  BY <1>10 DEF ProbeEnds, callVars, Outcome
<1>11. ASSUME NEW f \in Callers, WaitGivenUp(f) PROVE FlightsInv'
  BY <1>11 DEF WaitGivenUp, callVars, Outcome
<1>12. ASSUME NEW f \in Callers, CommandEnds(f) PROVE FlightsInv'
  BY <1>12 DEF CommandEnds, callVars, Outcome
<1>13. ASSUME NEW f \in Callers, TaskEnds(f) PROVE FlightsInv'
  BY <1>13 DEF TaskEnds, callVars, Outcome
<1>14. ASSUME NEW f \in Callers, Mirror(f) PROVE FlightsInv'
  BY <1>14 DEF Mirror, HasEnded, callVars, Outcome
<1>15. ASSUME NEW f \in Callers, Pop(f) PROVE FlightsInv'
  BY <1>15 DEF Pop, callVars, Outcome
<1>16. ASSUME NEW f \in Callers, Teardown(f) PROVE FlightsInv'
  BY <1>16 DEF Teardown, Outcome
<1>17. ASSUME NEW p \in Processes, Crash(p) PROVE FlightsInv'
  BY <1>17 DEF Crash, Outcome
<1>18. CASE UNCHANGED vars
  BY <1>18 DEF vars, callVars, Outcome
<1> QED
  BY <1>1, <1>2, <1>3, <1>4, <1>5, <1>6, <1>7, <1>8, <1>9, <1>10, <1>11,
     <1>12, <1>13, <1>14, <1>15, <1>16, <1>17, <1>18
     DEF Next, CallerStep, TaskStep

\* The locks are free.
LEMMA LocksInit == Init => LocksInv
  BY DEF Init, LocksInv

\* Every step keeps the locks with who runs.
LEMMA LocksStep ==
    ASSUME TypeOK, LocksInv, [Next]_vars
    PROVE  LocksInv'
<1> USE RefreshAssumption DEF TypeOK, LocksInv, Driving, Settled
<1>1. ASSUME NEW c \in Callers, Begin(c) \/ Cancel(c) \/ Skip(c) \/ Follow(c) \/ Resume(c)
      PROVE  LocksInv'
  BY <1>1 DEF Begin, Cancel, Skip, Follow, Resume
<1>2. ASSUME NEW c \in Callers, Lead(c) PROVE LocksInv'
  BY <1>2 DEF Lead
<1>3. ASSUME NEW f \in Callers, RunCommand(f) PROVE LocksInv'
  BY <1>3 DEF RunCommand, LockFree
<1>4. ASSUME NEW f \in Callers, Probe(f) PROVE LocksInv'
  BY <1>4 DEF Probe, LockFree
<1>5. ASSUME NEW f \in Callers, ProbeEnds(f) PROVE LocksInv'
  BY <1>5 DEF ProbeEnds
<1>6. ASSUME NEW f \in Callers, TaskEnds(f) PROVE LocksInv'
  <2>1. cmd[f] \notin {"run", "probe"}
    BY <1>6
  <2> QED
    BY <1>6, <2>1 DEF TaskEnds
<1>7. ASSUME NEW f \in Callers, Contended(f) \/ WaitGivenUp(f) PROVE LocksInv'
  BY <1>7 DEF Contended, WaitGivenUp
<1>8. ASSUME NEW f \in Callers, CommandEnds(f) \/ Mirror(f) \/ Pop(f) PROVE LocksInv'
  BY <1>8 DEF CommandEnds, Mirror, Pop
<1>9. ASSUME NEW f \in Callers, Teardown(f) PROVE LocksInv'
  BY <1>9 DEF Teardown, Released
<1>10. ASSUME NEW p \in Processes, Crash(p) PROVE LocksInv'
  BY <1>10 DEF Crash
<1>11. CASE UNCHANGED vars
  BY <1>11 DEF vars
<1> QED
  BY <1>1, <1>2, <1>3, <1>4, <1>5, <1>6, <1>7, <1>8, <1>9, <1>10, <1>11
     DEF Next, CallerStep, TaskStep

-----------------------------------------------------------------------------
(* The epochs. *)

\* No command has run.
LEMMA EpochsInit == Init => EpochsInv
<1> SUFFICES ASSUME Init PROVE EpochsInv
  OBVIOUS
<1>1. \A p \in Processes : Succeeded(p) = {}
  BY DEF Init, Succeeded
<1> QED
  BY <1>1, FS_EmptySet, RefreshAssumption DEF Init, EpochsInv, Driving

\* What does not end a task leaves the count of successes as it is.
LEMMA SameSuccesses ==
    ASSUME \A f \in Callers : task'[f] = "ok" <=> task[f] = "ok"
    PROVE  \A p \in Processes : Succeeded(p)' = Succeeded(p)
  BY DEF Succeeded

\* The task that ends is the only one driven in its process.
LEMMA OnlyDriver ==
    ASSUME FlightsInv, NEW f \in Callers, task[f] \in Driving,
           NEW g \in Callers, task[g] \in Driving, ProcessOf[g] = ProcessOf[f]
    PROVE  g = f
  BY DEF FlightsInv

\* A task that ends counts once.
LEMMA TaskEndsEpochs ==
    ASSUME TypeOK, FlightsInv, EpochsInv, NEW f \in Callers, TaskEnds(f)
    PROVE  EpochsInv'
<1> USE RefreshAssumption DEF TypeOK
<1> DEFINE p == ProcessOf[f]
<1>1. /\ task[f] = "run" /\ task' = [task EXCEPT ![f] = cmd[f]]
      /\ cmd[f] \in {"none", "ok", "failed"}
      /\ UNCHANGED <<pc, before, joined>>
  BY DEF TaskEnds, callVars
<1>2. \A g \in Callers : task'[g] \in Driving =>
            task[g] \in Driving /\ ProcessOf[g] # p
  BY <1>1, OnlyDriver DEF Driving
<1>3. CASE cmd[f] = "ok"
  <2>1. epoch' = [epoch EXCEPT ![p] = @ + 1]
    BY <1>3 DEF TaskEnds, NoteSuccess
  <2>2. Succeeded(p)' = Succeeded(p) \cup {f} /\ f \notin Succeeded(p)
    BY <1>1, <1>3 DEF Succeeded
  <2>3. \A q \in Processes : q # p => Succeeded(q)' = Succeeded(q)
    BY <1>1, <1>3 DEF Succeeded
  <2>4. IsFiniteSet(Succeeded(p))
    BY FS_Subset DEF Succeeded
  <2>5. Cardinality(Succeeded(p) \cup {f}) = Cardinality(Succeeded(p)) + 1
    BY <2>2, <2>4, FS_AddElement
  <2>6. \A q \in Processes : epoch'[q] = Cardinality(Succeeded(q)')
    BY <2>1, <2>2, <2>3, <2>5 DEF EpochsInv
  <2>7. \A c \in Callers :
            /\ before'[c] <= epoch'[ProcessOf[c]]
            /\ task'[c] \in Driving => epoch'[ProcessOf[c]] = before'[c]
    BY <1>1, <1>2, <2>1 DEF EpochsInv
  <2>8. \A c \in Callers : pc'[c] = "returned" =>
            \/ epoch'[ProcessOf[c]] > before'[c]
            \/ joined'[c] # NoOne /\ task'[joined'[c]] \in {"ok", "waited"}
    BY <1>1, <1>3, <2>1 DEF EpochsInv
  <2> QED
    BY <2>6, <2>7, <2>8 DEF EpochsInv
<1>4. CASE cmd[f] # "ok"
  <2>1. epoch' = epoch
    BY <1>4 DEF TaskEnds, NoteSuccess
  <2>2. \A q \in Processes : Succeeded(q)' = Succeeded(q)
    BY <1>1, <1>4, SameSuccesses
  <2>3. \A c \in Callers : task'[c] \in Driving => epoch'[ProcessOf[c]] = before'[c]
    BY <1>1, <1>2, <2>1 DEF EpochsInv
  <2>4. \A c \in Callers : pc'[c] = "returned" =>
            \/ epoch'[ProcessOf[c]] > before'[c]
            \/ joined'[c] # NoOne /\ task'[joined'[c]] \in {"ok", "waited"}
    BY <1>1, <2>1 DEF EpochsInv
  <2> QED
    BY <1>1, <2>1, <2>2, <2>3, <2>4 DEF EpochsInv
<1> QED
  BY <1>3, <1>4

\* Every step keeps the epochs.
LEMMA EpochsStep ==
    ASSUME TypeOK, FlightsInv, EpochsInv, [Next]_vars
    PROVE  EpochsInv'
<1> USE RefreshAssumption DEF TypeOK, Ended, Driving, Settled
<1> DEFINE Counted == \A p \in Processes : epoch'[p] = Cardinality(Succeeded(p)')
<1>1. ASSUME NEW c \in Callers, Begin(c) PROVE EpochsInv'
  <2>1. Counted
    BY <1>1 DEF Begin, EpochsInv, Succeeded
  <2>2. task[c] = "none"
    BY <1>1 DEF Begin, FlightsInv
  <2> QED
    BY <1>1, <2>1, <2>2 DEF Begin, EpochsInv
<1>2. ASSUME NEW c \in Callers, Cancel(c) \/ Follow(c) PROVE EpochsInv'
  <2>1. Counted
    BY <1>2 DEF Cancel, Follow, EpochsInv, Succeeded
  <2> QED
    BY <1>2, <2>1 DEF Cancel, Follow, EpochsInv
<1>3. ASSUME NEW c \in Callers, Skip(c) PROVE EpochsInv'
  <2>1. Counted
    BY <1>3 DEF Skip, EpochsInv, Succeeded
  <2> QED
    BY <1>3, <2>1 DEF Skip, Refreshed, EpochsInv
<1>4. ASSUME NEW c \in Callers, Lead(c) PROVE EpochsInv'
  <2>1. task[c] = "none"
    BY <1>4 DEF Lead, FlightsInv
  <2>2. Counted
    BY <1>4, <2>1, SameSuccesses DEF Lead, EpochsInv
  <2>3. epoch[ProcessOf[c]] = before[c]
    BY <1>4 DEF Lead, Refreshed, EpochsInv
  <2> QED
    BY <1>4, <2>1, <2>2, <2>3 DEF Lead, EpochsInv
<1>5. ASSUME NEW c \in Callers, Resume(c) PROVE EpochsInv'
  <2>1. Counted
    BY <1>5 DEF Resume, EpochsInv, Succeeded
  <2>2. joined[c] \in Callers
    BY <1>5 DEF Resume, FlightsInv
  <2>3. pc'[c] = "returned" =>
            \/ epoch[ProcessOf[c]] > before[c]
            \/ task[joined[c]] \in {"ok", "waited"}
    BY <1>5, <2>2 DEF Resume, Refreshed, FlightsInv, Outcome
  <2>4. /\ \A d \in Callers : d # c => pc'[d] = pc[d]
        /\ UNCHANGED <<before, joined, task, epoch>>
    BY <1>5 DEF Resume
  <2> QED
    BY <2>1, <2>2, <2>3, <2>4 DEF EpochsInv
<1>6. ASSUME NEW f \in Callers,
             RunCommand(f) \/ Contended(f) \/ Probe(f) \/ ProbeEnds(f) \/ WaitGivenUp(f)
      PROVE  EpochsInv'
  <2>1. task[f] \in Driving
    BY <1>6 DEF RunCommand, Contended, Probe, ProbeEnds, WaitGivenUp
  <2>2. \E t \in {"run", "wait", "probe", "waited"} : task' = [task EXCEPT ![f] = t]
    BY <1>6 DEF RunCommand, Contended, Probe, ProbeEnds, WaitGivenUp
  <2>3. UNCHANGED <<pc, before, joined, epoch>>
    BY <1>6 DEF RunCommand, Contended, Probe, ProbeEnds, WaitGivenUp, callVars
  <2>4. Counted
    BY <2>1, <2>2, <2>3, SameSuccesses DEF EpochsInv
  <2> QED
    BY <2>1, <2>2, <2>3, <2>4 DEF EpochsInv
<1>7. ASSUME NEW f \in Callers, CommandEnds(f) \/ Mirror(f) \/ Pop(f) PROVE EpochsInv'
  <2>1. UNCHANGED <<pc, before, joined, task, epoch>>
    BY <1>7 DEF CommandEnds, Mirror, Pop, callVars
  <2> QED
    BY <2>1 DEF EpochsInv, Succeeded
<1>8. ASSUME NEW f \in Callers, TaskEnds(f) PROVE EpochsInv'
  BY <1>8, TaskEndsEpochs
<1>9. ASSUME NEW f \in Callers, Teardown(f) PROVE EpochsInv'
  <2>1. Counted
    BY <1>9, SameSuccesses DEF Teardown, EpochsInv
  <2> QED
    BY <1>9, <2>1 DEF Teardown, EpochsInv
<1>10. ASSUME NEW p \in Processes, Crash(p) PROVE EpochsInv'
  <2>1. \A g \in Callers : /\ task'[g] = task[g] \/ (task[g] \in Driving /\ task'[g] = "dead")
                           /\ pc'[g] = pc[g] \/ pc'[g] = "dead"
    BY <1>10 DEF Crash
  <2>2. UNCHANGED <<before, joined, epoch>>
    BY <1>10 DEF Crash
  <2>3. Counted
    BY <2>1, <2>2, SameSuccesses DEF EpochsInv
  <2> QED
    BY <2>1, <2>2, <2>3 DEF EpochsInv
<1>11. CASE UNCHANGED vars
  BY <1>11 DEF vars, callVars, EpochsInv, Succeeded
<1> QED
  BY <1>1, <1>2, <1>3, <1>4, <1>5, <1>6, <1>7, <1>8, <1>9, <1>10, <1>11
     DEF Next, CallerStep, TaskStep

-----------------------------------------------------------------------------
(* Who waits, and for what. *)

\* Nobody waits yet.
LEMMA StayInit == Init => StayInv
  BY DEF Init, StayInv, NobodyIsLeftBehind

\* Every step keeps a task under whatever is waited for.
LEMMA StayStep ==
    ASSUME TypeOK, FlightsInv, LocksInv, StayInv, [Next]_vars
    PROVE  StayInv'
<1> USE RefreshAssumption DEF TypeOK, StayInv, NobodyIsLeftBehind, Ended, Driving, Settled
<1>1. ASSUME NEW c \in Callers, Begin(c) PROVE StayInv'
  BY <1>1 DEF Begin
<1>2. ASSUME NEW c \in Callers, Cancel(c) PROVE StayInv'
  BY <1>2 DEF Cancel
<1>3. ASSUME NEW c \in Callers, Skip(c) PROVE StayInv'
  BY <1>3 DEF Skip
<1>4. ASSUME NEW c \in Callers, Follow(c) PROVE StayInv'
  <2>1. \E f \in Callers : /\ f = registry[ProcessOf[c]] /\ ProcessOf[f] = ProcessOf[c]
                          /\ task[f] \in Driving \union Settled
    BY <1>4 DEF Follow, InFlight
  <2> QED
    BY <1>4, <2>1 DEF Follow
<1>5. ASSUME NEW c \in Callers, Lead(c) PROVE StayInv'
  <2>1. task[c] = "none"
    BY <1>5 DEF Lead, FlightsInv
  <2>2. \A p \in Processes : holder[p] # c
    BY <2>1
  <2> QED
    BY <1>5, <2>1, <2>2 DEF Lead
<1>6. ASSUME NEW c \in Callers, Resume(c) PROVE StayInv'
  <2>1. /\ pc' = [pc EXCEPT ![c] = pc'[c]] /\ pc[c] = "await"
        /\ pc'[c] \in {"cancelled", "returned", "raised", "claim"}
        /\ UNCHANGED <<joined, task, cmd, registry, holder>>
    BY <1>6 DEF Resume
  <2> QED
    BY <2>1
<1>7. ASSUME NEW f \in Callers, RunCommand(f) PROVE StayInv'
  BY <1>7 DEF RunCommand, LockFree, callVars
<1>8. ASSUME NEW f \in Callers, Contended(f) PROVE StayInv'
  BY <1>8 DEF Contended, callVars
<1>9. ASSUME NEW f \in Callers, Probe(f) PROVE StayInv'
  BY <1>9 DEF Probe, LockFree, callVars
<1>10. ASSUME NEW f \in Callers, ProbeEnds(f) PROVE StayInv'
  BY <1>10 DEF ProbeEnds, callVars
<1>11. ASSUME NEW f \in Callers, WaitGivenUp(f) PROVE StayInv'
  BY <1>11 DEF WaitGivenUp, callVars
<1>12. ASSUME NEW f \in Callers, CommandEnds(f) PROVE StayInv'
  BY <1>12 DEF CommandEnds, callVars
<1>13. ASSUME NEW f \in Callers, TaskEnds(f) PROVE StayInv'
  <2>1. cmd[f] \in {"ok", "failed"}
    BY <1>13 DEF TaskEnds
  <2> QED
    BY <1>13, <2>1 DEF TaskEnds, callVars
<1>14. ASSUME NEW f \in Callers, Mirror(f) PROVE StayInv'
  BY <1>14 DEF Mirror, callVars
<1>15. ASSUME NEW f \in Callers, Pop(f) PROVE StayInv'
  BY <1>15 DEF Pop, callVars
<1>16. ASSUME NEW f \in Callers, Teardown(f) PROVE StayInv'
  BY <1>16 DEF Teardown, Released
<1>17. ASSUME NEW p \in Processes, Crash(p) PROVE StayInv'
  BY <1>17 DEF Crash
<1>18. CASE UNCHANGED vars
  BY <1>18 DEF vars, callVars
<1> QED
  BY <1>1, <1>2, <1>3, <1>4, <1>5, <1>6, <1>7, <1>8, <1>9, <1>10, <1>11,
     <1>12, <1>13, <1>14, <1>15, <1>16, <1>17, <1>18
     DEF Next, CallerStep, TaskStep

\* The inductive invariant: types, flights, locks and epochs.
THEOREM Invariance == Spec => []IInv
<1>1. Init => IInv
  BY TypeInit, FlightsInit, LocksInit, EpochsInit, StayInit DEF IInv
<1>2. IInv /\ [Next]_vars => IInv'
  BY TypeStep, FlightsStep, LocksStep, EpochsStep, StayStep DEF IInv
<1> QED
  BY <1>1, <1>2, PTL DEF Spec

\* In a process one refresh is driven at a time, and on a file system that can
\* lock one command runs in all processes (single_flight.py and the refresh flock).
THEOREM OneAtATime == Spec => []SingleFlight
<1>1. IInv => OneDriver
  BY DEF IInv, FlightsInv, OneDriver
<1>2. IInv => OneProcessRuns
  BY RefreshAssumption DEF IInv, LocksInv, OneProcessRuns
<1>3. IInv => SingleFlight
  BY <1>1, <1>2 DEF IInv, SingleFlight
<1> QED
  BY <1>3, Invariance, PTL

\* No flight is driven in a process that was refreshed since its leader's call.
THEOREM NeverRedundant == Spec => []NoRedundantRefresh
<1>1. IInv => NoRedundantRefresh
  BY DEF IInv, EpochsInv, NoRedundantRefresh
<1> QED
  BY <1>1, Invariance, PTL

\* Whoever returns has a refresh to show, its own process's or another's.
THEOREM ReturnsAreBacked == Spec => []ReturnIsBacked
<1>1. IInv => ReturnIsBacked
  BY RefreshAssumption DEF IInv, TypeOK, EpochsInv, Succeeded, ReturnIsBacked
<1> QED
  BY <1>1, Invariance, PTL

\* A caller that was cancelled has waited for its flight to settle.
THEOREM CancelledHaveWaited == Spec => []CancelSettles
<1>1. IInv => CancelSettles
  BY DEF IInv, FlightsInv, CancelSettles
<1> QED
  BY <1>1, Invariance, PTL

\* Nobody awaits a flight that cannot end, and no lock is left to the dead: the safe
\* half of "never a hang" (single_flight.py), whoever is cancelled or killed.
THEOREM NobodyStranded == Spec => []NobodyIsLeftBehind
<1>1. IInv => NobodyIsLeftBehind
  BY DEF IInv, StayInv
<1> QED
  BY <1>1, Invariance, PTL

=============================================================================
