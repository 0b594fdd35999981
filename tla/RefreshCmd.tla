----------------------------- MODULE RefreshCmd -----------------------------
(***************************************************************************)
(* notebooklm/_auth: the external command that renews a storage file's     *)
(* cookies (refresh.py, _coalesced_run_refresh_cmd), shared by every       *)
(* caller of a process through single_flight.py and between processes      *)
(* through the file lock of storage.py and keepalive.py.                   *)
(*                                                                         *)
(* One storage file.  A caller is a coroutine on an event loop of its      *)
(* own; a process has several loops on several threads.  A caller leads at *)
(* most one flight in a call, so a flight is named by its leader.          *)
(***************************************************************************)
EXTENDS Naturals, FiniteSets

CONSTANTS
    Processes,
    Callers,
    ProcessOf,          \* the process of each caller
    MaxFollowRetries,   \* _MAX_REFRESH_FOLLOW_RETRIES, 3 in the code
    MaxFaults,          \* bound: processes killed, loops torn down
    NoOne

ASSUME RefreshAssumption ==
    /\ IsFiniteSet(Callers)
    /\ ProcessOf \in [Callers -> Processes]
    /\ MaxFollowRetries \in Nat \ {0}
    /\ MaxFaults \in Nat
    /\ NoOne \notin Callers

VARIABLES
    pc,          \* where each caller is
    before,      \* epoch_before of each caller
    joined,      \* the flight a caller awaits
    failures,    \* follow_failures of each caller
    cancelled,   \* callers that were asked to cancel
    task,        \* the leader task of each flight
    cmd,         \* the subprocess of each flight
    bridge,      \* what followers of a flight see
    registry,    \* _FLIGHTS of each process
    epoch,       \* _SUCCESS_EPOCHS of each process
    holder,      \* the flight holding the lock in each process
    flockWorks,  \* whether the file system can lock
    faults

callVars == <<pc, before, joined, failures, cancelled>>
vars == <<callVars, task, cmd, bridge, registry, epoch, holder, flockWorks, faults>>

Ended   == {"returned", "raised", "cancelled", "dead"}
Driving == {"start", "run", "wait", "probe"}
Settled == {"ok", "failed", "waited", "cancelled"}

Init ==
    /\ pc = [c \in Callers |-> "idle"]
    /\ before = [c \in Callers |-> 0]
    /\ joined = [c \in Callers |-> NoOne]
    /\ failures = [c \in Callers |-> 0]
    /\ cancelled = {}
    /\ task = [f \in Callers |-> "none"]
    /\ cmd = [f \in Callers |-> "none"]
    /\ bridge = [f \in Callers |-> "pending"]
    /\ registry = [p \in Processes |-> NoOne]
    /\ epoch = [p \in Processes |-> 0]
    /\ holder = [p \in Processes |-> NoOne]
    /\ flockWorks \in BOOLEAN
    /\ faults = 0

-----------------------------------------------------------------------------
\* The caller: it notes the success epoch before anything it may wait for.
Begin(c) ==
    /\ pc[c] = "idle"
    /\ pc' = [pc EXCEPT ![c] = "claim"]
    /\ before' = [before EXCEPT ![c] = epoch[ProcessOf[c]]]
    /\ UNCHANGED <<joined, failures, cancelled, task, cmd, bridge, registry,
                   epoch, holder, flockWorks, faults>>

\* Wrong on purpose: the epoch is not looked at.
RefreshedUnchecked(c) == FALSE

\* Somebody refreshed since the call began.
Refreshed(c) == epoch[ProcessOf[c]] > before[c]

\* Wrong on purpose: the registry is not looked at.
InFlightUnseen(p) == FALSE

\* A settled flight left in the registry is overwritten.
InFlight(p) == registry[p] # NoOne /\ bridge[registry[p]] = "pending"

\* _claim, under one hold of _REGISTRY_LOCK: skip, follow or lead.
Skip(c) ==
    /\ pc[c] = "claim" /\ Refreshed(c)
    /\ pc' = [pc EXCEPT ![c] = "returned"]
    /\ UNCHANGED <<before, joined, failures, cancelled, task, cmd, bridge,
                   registry, epoch, holder, flockWorks, faults>>

Follow(c) ==
    /\ pc[c] = "claim" /\ ~Refreshed(c) /\ InFlight(ProcessOf[c])
    /\ pc' = [pc EXCEPT ![c] = "await"]
    /\ joined' = [joined EXCEPT ![c] = registry[ProcessOf[c]]]
    /\ UNCHANGED <<before, failures, cancelled, task, cmd, bridge, registry,
                   epoch, holder, flockWorks, faults>>

Lead(c) ==
    /\ pc[c] = "claim" /\ ~Refreshed(c) /\ ~InFlight(ProcessOf[c])
    /\ pc' = [pc EXCEPT ![c] = "await"]
    /\ joined' = [joined EXCEPT ![c] = c]
    /\ task' = [task EXCEPT ![c] = "start"]
    /\ registry' = [registry EXCEPT ![ProcessOf[c]] = c]
    /\ UNCHANGED <<before, failures, cancelled, cmd, bridge, epoch, holder,
                   flockWorks, faults>>

\* Somebody cancels the caller; await_flight keeps waiting all the same.
Cancel(c) ==
    /\ pc[c] = "await" /\ c \notin cancelled
    /\ cancelled' = cancelled \union {c}
    /\ UNCHANGED <<pc, before, joined, failures, task, cmd, bridge, registry,
                   epoch, holder, flockWorks, faults>>

\* Wrong on purpose: a cancelled caller does not wait for the flight.
MayLeaveAtOnce(c) == bridge[joined[c]] # "pending" \/ c \in cancelled

\* When a cancelled caller may go: once its flight is settled.
MayLeave(c) == bridge[joined[c]] # "pending"

\* await_flight ends; _coalesced_run_refresh_cmd looks at what it brought.
Resume(c) ==
    LET seen == bridge[joined[c]]
        gone == c \in cancelled \/ seen = "cancelled"
        last == joined[c] = c \/ failures[c] + 1 >= MaxFollowRetries
    IN /\ pc[c] = "await" /\ MayLeave(c)
       /\ \/ /\ gone
             /\ pc' = [pc EXCEPT ![c] = "cancelled"]
             /\ UNCHANGED failures
          \/ /\ ~gone /\ (seen = "ok" \/ Refreshed(c))
             /\ pc' = [pc EXCEPT ![c] = "returned"]
             /\ UNCHANGED failures
          \/ /\ ~gone /\ seen = "failed" /\ ~Refreshed(c) /\ last
             /\ pc' = [pc EXCEPT ![c] = "raised"]
             /\ UNCHANGED failures
          \/ /\ ~gone /\ seen = "failed" /\ ~Refreshed(c) /\ ~last
             /\ pc' = [pc EXCEPT ![c] = "claim"]
             /\ failures' = [failures EXCEPT ![c] = @ + 1]
       /\ UNCHANGED <<before, joined, cancelled, task, cmd, bridge, registry,
                      epoch, holder, flockWorks, faults>>

-----------------------------------------------------------------------------
\* The leader's task.  The lock of the process is tried first, then the file's;
\* a file system that cannot lock lets the command run without it.
LockFree(p) ==
    /\ holder[p] = NoOne
    /\ flockWorks => \A q \in Processes : holder[q] = NoOne

RunCommand(f) ==
    /\ task[f] = "start" /\ LockFree(ProcessOf[f])
    /\ task' = [task EXCEPT ![f] = "run"]
    /\ cmd' = [cmd EXCEPT ![f] = "running"]
    /\ holder' = [holder EXCEPT ![ProcessOf[f]] = f]
    /\ UNCHANGED <<callVars, bridge, registry, epoch, flockWorks, faults>>

Contended(f) ==
    /\ task[f] = "start" /\ ~LockFree(ProcessOf[f])
    /\ task' = [task EXCEPT ![f] = "wait"]
    /\ UNCHANGED <<callVars, cmd, bridge, registry, epoch, holder, flockWorks,
                   faults>>

\* _wait_for_refresh_holder takes the lock for a moment to see that it is free.
Probe(f) ==
    /\ task[f] = "wait" /\ LockFree(ProcessOf[f])
    /\ task' = [task EXCEPT ![f] = "probe"]
    /\ holder' = [holder EXCEPT ![ProcessOf[f]] = f]
    /\ UNCHANGED <<callVars, cmd, bridge, registry, epoch, flockWorks, faults>>

ProbeEnds(f) ==
    /\ task[f] = "probe"
    /\ task' = [task EXCEPT ![f] = "waited"]
    /\ holder' = [holder EXCEPT ![ProcessOf[f]] = NoOne]
    /\ UNCHANGED <<callVars, cmd, bridge, registry, epoch, flockWorks, faults>>

WaitGivenUp(f) ==
    /\ task[f] = "wait" /\ ~LockFree(ProcessOf[f])
    /\ task' = [task EXCEPT ![f] = "waited"]
    /\ UNCHANGED <<callVars, cmd, bridge, registry, epoch, holder, flockWorks,
                   faults>>

\* The subprocess exits, or is killed after its sixty seconds.
CommandEnds(f) ==
    /\ cmd[f] = "running"
    /\ \E result \in {"ok", "failed"} : cmd' = [cmd EXCEPT ![f] = result]
    /\ UNCHANGED <<callVars, task, bridge, registry, epoch, holder, flockWorks,
                   faults>>

\* note_success, only when the command succeeded.
NoteSuccess(f) ==
    epoch' = IF cmd[f] = "ok"
             THEN [epoch EXCEPT ![ProcessOf[f]] = @ + 1] ELSE epoch

TaskEnds(f) ==
    /\ task[f] = "run" /\ cmd[f] # "running"
    /\ task' = [task EXCEPT ![f] = cmd[f]]
    /\ NoteSuccess(f)
    /\ holder' = [holder EXCEPT ![ProcessOf[f]] = NoOne]
    /\ UNCHANGED <<callVars, cmd, bridge, registry, flockWorks, faults>>

\* Wrong on purpose: a failure reaches the followers as an ordinary end.
OutcomeLost(f) == IF task[f] \in {"waited", "failed"} THEN "ok" ELSE task[f]

\* _on_done: the outcome is mirrored to the followers, then the slot emptied,
\* unless a newer flight is in it.
Outcome(f) == IF task[f] = "waited" THEN "ok" ELSE task[f]

\* Wrong on purpose: a task that was cancelled tells nobody.
HasEndedByItself(f) == task[f] \in Settled \ {"cancelled"}

HasEnded(f) == task[f] \in Settled

Mirror(f) ==
    /\ HasEnded(f) /\ bridge[f] = "pending"
    /\ bridge' = [bridge EXCEPT ![f] = Outcome(f)]
    /\ UNCHANGED <<callVars, task, cmd, registry, epoch, holder, flockWorks, faults>>

Pop(f) ==
    /\ bridge[f] # "pending" /\ registry[ProcessOf[f]] = f
    /\ registry' = [registry EXCEPT ![ProcessOf[f]] = NoOne]
    /\ UNCHANGED <<callVars, task, cmd, bridge, epoch, holder, flockWorks, faults>>

-----------------------------------------------------------------------------
\* Wrong on purpose: a task that is cancelled goes with the lock in its hand.
KeptLock(f) == holder

\* Leaving the with block releases the lock, if the task has it.
Released(f) == [p \in Processes |-> IF holder[p] = f THEN NoOne ELSE holder[p]]

\* The leader's loop is torn down: its task and its caller are cancelled and the
\* lock released, but the thread that waits for the subprocess is not stopped.
Teardown(f) ==
    /\ task[f] \in {"start", "run", "wait"} /\ faults < MaxFaults
    /\ task' = [task EXCEPT ![f] = "cancelled"]
    /\ cancelled' = cancelled \union {f}
    /\ holder' = Released(f)
    /\ faults' = faults + 1
    /\ UNCHANGED <<pc, before, joined, failures, cmd, bridge, registry, epoch,
                   flockWorks>>

\* A process is killed; the system releases its lock, its subprocess goes on.
Crash(p) ==
    /\ faults < MaxFaults
    /\ \E c \in Callers : ProcessOf[c] = p /\ pc[c] \notin Ended
    /\ faults' = faults + 1
    /\ pc' = [c \in Callers |->
                IF ProcessOf[c] = p /\ pc[c] \notin Ended THEN "dead" ELSE pc[c]]
    /\ task' = [f \in Callers |->
                IF ProcessOf[f] = p /\ task[f] \in Driving THEN "dead" ELSE task[f]]
    /\ holder' = [holder EXCEPT ![p] = NoOne]
    /\ UNCHANGED <<before, joined, failures, cancelled, cmd, bridge, registry,
                   epoch, flockWorks>>

CallerStep(c) == Skip(c) \/ Follow(c) \/ Lead(c) \/ Resume(c)
TaskStep(f) ==
    \/ RunCommand(f) \/ Contended(f) \/ Probe(f) \/ ProbeEnds(f)
    \/ WaitGivenUp(f) \/ CommandEnds(f) \/ TaskEnds(f) \/ Mirror(f) \/ Pop(f)

Next ==
    \/ \E c \in Callers : Begin(c) \/ Cancel(c) \/ CallerStep(c) \/ TaskStep(c)
    \/ \E f \in Callers : Teardown(f)
    \/ \E p \in Processes : Crash(p)

Spec == Init /\ [][Next]_vars

\* The event loops keep running what is ready, and a subprocess has a timeout.
Fairness == \A c \in Callers : WF_vars(CallerStep(c)) /\ WF_vars(TaskStep(c))

FairSpec == Spec /\ Fairness

-----------------------------------------------------------------------------
\* Every variable has its type: the states a caller, a leader task and a
\* subprocess of _coalesced_run_refresh_cmd can be in.
TypeOK ==
    /\ pc \in [Callers -> {"idle", "claim", "await"} \union Ended]
    /\ before \in [Callers -> Nat]
    /\ joined \in [Callers -> Callers \union {NoOne}]
    /\ failures \in [Callers -> 0..(MaxFollowRetries - 1)]
    /\ cancelled \subseteq Callers
    /\ task \in [Callers -> {"none", "dead"} \union Driving \union Settled]
    /\ cmd \in [Callers -> {"none", "running", "ok", "failed"}]
    /\ bridge \in [Callers -> {"pending", "ok", "failed", "cancelled"}]
    /\ registry \in [Processes -> Callers \union {NoOne}]
    /\ epoch \in [Processes -> Nat]
    /\ holder \in [Processes -> Callers \union {NoOne}]
    /\ flockWorks \in BOOLEAN
    /\ faults \in 0..MaxFaults

\* A process drives one refresh at a time, whoever is cancelled, fails or comes
\* late: the registry of single_flight.py admits one unsettled flight per key.
OneDriver ==
    \A f, g \in Callers :
        (ProcessOf[f] = ProcessOf[g] /\ task[f] \in Driving /\ task[g] \in Driving)
            => f = g

\* No flight is under way in a process that was refreshed after the flight's
\* leader looked at the epoch: compare and claim are one step (the "late-waiter
\* skip" of _coalesced_run_refresh_cmd).
NoRedundantRefresh ==
    \A f \in Callers : task[f] \in Driving => epoch[ProcessOf[f]] = before[f]

\* A caller returns only if a command of its process succeeded since its call,
\* or its flight's command did, or its flight waited for another process's lock:
\* a failed or cancelled command is never taken for a refresh.
ReturnIsBacked ==
    \A c \in Callers : pc[c] = "returned" =>
        \/ Cardinality({f \in Callers : ProcessOf[f] = ProcessOf[c] /\ task[f] = "ok"})
                > before[c]
        \/ joined[c] # NoOne /\ task[joined[c]] \in {"ok", "waited"}

\* A cancelled caller leaves only when the shared work has settled, so that
\* nobody starts a second command beside it (await_flight).
CancelSettles ==
    \A c \in Callers : pc[c] = "cancelled" => bridge[joined[c]] # "pending"

\* Two processes on a file system that can lock do not both drive the command
\* (the refresh flock of _refresh_cmd_leader_body).
OneProcessRuns ==
    flockWorks => \A f, g \in Callers : (task[f] = "run" /\ task[g] = "run") => f = g

\* The single flight: in a process one refresh is driven at a time, and on a file
\* system that can lock one in all processes.
SingleFlight == TypeOK /\ OneDriver /\ OneProcessRuns

\* Nobody waits for what will not come: the flight a caller awaits is driven or has
\* ended, and has a place in the caller's own process; a lock is held by a task of
\* its process that is about to release it, whoever was cancelled or killed.
NobodyIsLeftBehind ==
    /\ \A c \in Callers : pc[c] = "await" =>
        /\ joined[c] \in Callers /\ ProcessOf[joined[c]] = ProcessOf[c]
        /\ task[joined[c]] \in Driving \union Settled
    /\ \A p \in Processes : holder[p] # NoOne =>
        ProcessOf[holder[p]] = p /\ task[holder[p]] \in {"run", "probe"}

\* Every call comes to an end: it returns, raises or is cancelled, whatever
\* commands fail and whoever is killed holding the lock.
EveryCallEnds == \A c \in Callers : pc[c] = "claim" ~> pc[c] \in Ended

\* single_flight.py:251 of a leader whose loop is torn down: "never a hang and
\* never a duplicate subprocess".  The subprocess of such a leader goes on.
NeverTwoCommands ==
    \A f, g \in Callers :
        (ProcessOf[f] = ProcessOf[g] /\ cmd[f] = "running" /\ cmd[g] = "running")
            => f = g

=============================================================================
