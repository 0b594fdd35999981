------------------------------ MODULE Shutdown ------------------------------
(***************************************************************************)
(* notebooklm: how a client is closed under work in progress.  Calls and   *)
(* artifact polls are counted by the drain tracker (_transport_drain.py);  *)
(* close() (client.py) cancels the polls, waits for the count to reach     *)
(* zero and runs the lifecycle's teardown (_runtime/lifecycle.py); callers *)
(* of wait_for_completion share a poll per artifact (_artifact/polling.py) *)
(* and calls share one auth refresh (_runtime/auth.py).                    *)
(*                                                                         *)
(* One client on one event loop: a step is what runs between two awaits.   *)
(***************************************************************************)
EXTENDS Naturals, FiniteSets

CONSTANTS
    Ops,           \* plain calls: one RPC, counted as one operation
    Artifacts,     \* what is polled; the poll's task bears the same name
    Waiters,       \* callers of wait_for_completion
    MaxRetries,    \* POLL_MAX_RETRIES, 3 in the code
    MaxOpens,      \* bound: times the client is opened
    MaxFaults      \* bound: cancelled callers and missed drain deadlines

ASSUME ShutdownAssumption ==
    /\ IsFiniteSet(Ops) /\ IsFiniteSet(Artifacts) /\ Ops \cap Artifacts = {}
    /\ Waiters # {} => Artifacts # {}
    /\ MaxRetries \in Nat /\ MaxOpens \in Nat \ {0} /\ MaxFaults \in Nat

VARIABLES
    http,        \* whether there is an HTTP session
    phase,       \* how far the closing has come
    caller,      \* the caller of close
    outcome,     \* what the closing brought so far
    opens,
    draining, inFlight,
    at,          \* where each call and each poll is
    depth,       \* _operation_depths
    refreshed,   \* RPCs that spent their refresh
    tries, expired,
    result,      \* how the poll's task ended
    waiter, waitsFor,
    hookFor,     \* polls cancelled by a hook that waits for them
    refresh,     \* the shared refresh task
    keepalive,
    faults

taskVars  == <<inFlight, at, depth, refreshed, tries, expired, result>>
closeVars == <<http, phase, caller, outcome, opens, draining, keepalive>>
waitVars  == <<waiter, waitsFor>>
vars == <<taskVars, closeVars, waitVars, hookFor, refresh, faults>>

Tasks  == Ops \union Artifacts
Active == {k \in Artifacts : at[k] \in {"new", "sleep", "post", "refresh"}}

Init ==
    /\ http = TRUE /\ phase = "open" /\ caller = "none" /\ outcome = "none"
    /\ opens = 1
    /\ draining = FALSE /\ inFlight = 0
    /\ at = [t \in Tasks |-> "idle"]
    /\ depth = [t \in Tasks |-> 0]
    /\ refreshed = {}
    /\ tries = [k \in Artifacts |-> 0]
    /\ expired = {}
    /\ result = [k \in Artifacts |-> "none"]
    /\ waiter = [w \in Waiters |-> "idle"]
    /\ waitsFor = [w \in Waiters |-> CHOOSE k \in Artifacts : TRUE]
    /\ hookFor = {}
    /\ refresh = "none"
    /\ keepalive = "sleep"
    /\ faults = 0

-----------------------------------------------------------------------------
\* What the tracker counts for the tasks of S: each as often as it has entered.
Held(S) == {p \in S \X (1..2) : p[2] <= depth[p[1]]}

\* begin_transport_post and finish_transport_post: depth and count move as one.
Holds(t, n) ==
    /\ depth' = [depth EXCEPT ![t] = n]
    /\ inFlight' = (inFlight + n) - depth[t]

\* Wrong on purpose: work that comes while draining is accepted.
RefusedNever(t) == FALSE

\* Work that is not part of an accepted operation is refused while draining.
Refused(t) == draining /\ depth[t] = 0

Call(o) ==
    /\ at[o] = "idle"
    /\ IF Refused(o)
       THEN at' = [at EXCEPT ![o] = "refused"] /\ UNCHANGED <<inFlight, depth>>
       ELSE at' = [at EXCEPT ![o] = "post"] /\ Holds(o, 1)
    /\ UNCHANGED <<refreshed, tries, expired, result, closeVars, waitVars, hookFor,
                   refresh, faults>>

\* A task that has come to its end: a call is over, a poll's callback is due.
Ends(t, how) ==
    /\ at' = [at EXCEPT ![t] = "over"]
    /\ Holds(t, 0)
    /\ refreshed' = refreshed \ {t}
    /\ result' = IF t \in Artifacts THEN [result EXCEPT ![t] = how] ELSE result
    /\ hookFor' = hookFor \ {t}

\* The RPC is answered by a 401: the shared refresh is joined or begun.
Unauthorized(t) ==
    /\ at[t] = "post" /\ http /\ t \notin refreshed /\ t \notin hookFor
    /\ at' = [at EXCEPT ![t] = "refresh"]
    /\ refresh' = "running"
    /\ UNCHANGED <<inFlight, depth, refreshed, tries, expired, result, closeVars,
                   waitVars, hookFor, faults>>

\* The refresh ends: those that joined it post again, or fail.
RefreshEnds ==
    LET joined == {t \in Tasks : at[t] = "refresh"} IN
    /\ refresh = "running"
    /\ refresh' = "none"
    /\ \/ /\ http
          /\ at' = [t \in Tasks |-> IF t \in joined THEN "post" ELSE at[t]]
          /\ refreshed' = refreshed \union joined
          /\ UNCHANGED <<inFlight, depth, result, hookFor>>
       \/ /\ at' = [t \in Tasks |-> IF t \in joined THEN "over" ELSE at[t]]
          /\ depth' = [t \in Tasks |-> IF t \in joined THEN 0 ELSE depth[t]]
          /\ inFlight' = inFlight - Cardinality(Held(joined))
          /\ result' = [k \in Artifacts |-> IF k \in joined THEN "error" ELSE result[k]]
          /\ hookFor' = hookFor \ joined
          /\ refreshed' = refreshed \ joined
    /\ UNCHANGED <<tries, expired, closeVars, waitVars, faults>>

\* A call's RPC ends, one way or the other.
CallEnds(o) ==
    /\ at[o] = "post"
    /\ Ends(o, "done")
    /\ UNCHANGED <<tries, expired, closeVars, waitVars, refresh, faults>>

-----------------------------------------------------------------------------
\* wait_for_completion: the first caller makes the poll's task, others join.
WaitFor(w, k) ==
    /\ waiter[w] = "idle"
    /\ waiter' = [waiter EXCEPT ![w] = "waiting"]
    /\ waitsFor' = [waitsFor EXCEPT ![w] = k]
    /\ IF at[k] = "idle"
       THEN /\ at' = [at EXCEPT ![k] = "new"]
            /\ tries' = [tries EXCEPT ![k] = 0]
            /\ expired' = expired \ {k}
       ELSE UNCHANGED <<at, tries, expired>>
    /\ UNCHANGED <<inFlight, depth, refreshed, result, closeVars, hookFor, refresh,
                   faults>>

\* The task enters its operation scope and posts the first time.
PollBegins(k) ==
    /\ at[k] = "new" /\ k \notin hookFor
    /\ IF Refused(k)
       THEN Ends(k, "error")
       ELSE /\ at' = [at EXCEPT ![k] = "post"] /\ Holds(k, 2)
            /\ UNCHANGED <<refreshed, result, hookFor>>
    /\ UNCHANGED <<tries, expired, closeVars, waitVars, refresh, faults>>

PollAgain(k) ==
    /\ at[k] = "sleep" /\ k \notin hookFor
    /\ at' = [at EXCEPT ![k] = "post"] /\ Holds(k, 2)
    /\ UNCHANGED <<refreshed, tries, expired, result, closeVars, waitVars, hookFor,
                   refresh, faults>>

PollSleeps(k) ==
    /\ at' = [at EXCEPT ![k] = "sleep"] /\ Holds(k, 1)
    /\ refreshed' = refreshed \ {k}
    /\ UNCHANGED <<result, hookFor>>

\* The answer: finished, not yet, an error that is retried a few times, or one that
\* is not, like what a callback raises.
PollAnswered(k) ==
    /\ at[k] = "post" /\ k \notin hookFor
    /\ \/ http /\ Ends(k, "done") /\ UNCHANGED tries
       \/ http /\ k \notin expired /\ PollSleeps(k)
             /\ tries' = [tries EXCEPT ![k] = 0]
       \/ tries[k] < MaxRetries /\ k \notin expired /\ http /\ PollSleeps(k)
             /\ tries' = [tries EXCEPT ![k] = @ + 1]
       \/ Ends(k, "error") /\ UNCHANGED tries
    /\ UNCHANGED <<expired, closeVars, waitVars, refresh, faults>>

\* The wait's timeout of three hundred seconds has passed.
Expire(k) ==
    /\ k \in Active /\ k \notin expired
    /\ expired' = expired \union {k}
    /\ UNCHANGED <<inFlight, at, depth, refreshed, tries, result, closeVars,
                   waitVars, hookFor, refresh, faults>>

\* A cancelled task stops at the await it is at.
PollCancelled(k) ==
    /\ k \in hookFor
    /\ Ends(k, "cancelled")
    /\ UNCHANGED <<tries, expired, closeVars, waitVars, refresh, faults>>

\* Wrong on purpose: nobody is told of a poll that was cancelled.
ToldUnlessCancelled(k) ==
    [w \in Waiters |-> IF waiter[w] = "waiting" /\ waitsFor[w] = k
                            /\ result[k] # "cancelled" THEN result[k] ELSE waiter[w]]

Told(k) ==
    [w \in Waiters |-> IF waiter[w] = "waiting" /\ waitsFor[w] = k
                       THEN result[k] ELSE waiter[w]]

\* _resolve_poll: the registry is cleared and all who wait are told.
Settle(k) ==
    /\ k \in Artifacts /\ at[k] = "over"
    /\ at' = [at EXCEPT ![k] = "idle"]
    /\ waiter' = Told(k)
    /\ UNCHANGED <<inFlight, depth, refreshed, tries, expired, result, waitsFor,
                   closeVars, hookFor, refresh, faults>>

\* Wrong on purpose: the waiter takes the poll with it.
TakesAlong(w) == hookFor' = hookFor \union ({waitsFor[w]} \cap Active)

\* A waiter is cancelled; the poll is shielded.
LeavesAlone(w) == hookFor' = hookFor

CancelWaiter(w) ==
    /\ waiter[w] = "waiting" /\ faults < MaxFaults
    /\ faults' = faults + 1
    /\ waiter' = [waiter EXCEPT ![w] = "left"]
    /\ LeavesAlone(w)
    /\ UNCHANGED <<taskVars, closeVars, waitsFor, refresh>>

-----------------------------------------------------------------------------
\* The keepalive loop.
Poke ==
    /\ keepalive \in {"sleep", "poke"}
    /\ keepalive' = IF keepalive = "sleep" THEN "poke" ELSE "sleep"
    /\ UNCHANGED <<taskVars, http, phase, caller, outcome, opens, draining, waitVars,
                   hookFor, refresh, faults>>

\* The teardown begins by cancelling the keepalive task.
KeepaliveStopped == keepalive' = "off"

\* close(drain): the hooks first, which cancel the polls there are, ...
Close ==
    /\ phase = "open"
    /\ \/ /\ phase' = "hooks" /\ outcome' = "ok"
          /\ hookFor' = hookFor \union Active /\ UNCHANGED keepalive
       \/ /\ phase' = "keepalive" /\ outcome' = "undrained"
          /\ KeepaliveStopped /\ UNCHANGED hookFor
    /\ caller' = "waiting"
    /\ UNCHANGED <<taskVars, http, opens, draining, waitVars, refresh,
                   faults>>

\* ... then nobody new is let in ...
Drain ==
    /\ phase = "hooks" /\ hookFor = {}
    /\ phase' = "drain" /\ draining' = TRUE
    /\ UNCHANGED <<taskVars, http, caller, outcome, opens, keepalive, waitVars,
                   hookFor, refresh, faults>>

\* ... until the last operation has ended ...
Idle == inFlight = 0

Drained ==
    /\ phase = "drain" /\ Idle
    /\ phase' = "keepalive" /\ KeepaliveStopped
    /\ UNCHANGED <<taskVars, http, caller, outcome, opens, draining, waitVars,
                   hookFor, refresh, faults>>

\* ... or the deadline is missed, or the caller cancelled.
GiveUpDrain ==
    /\ faults < MaxFaults
    /\ faults' = faults + 1
    /\ \/ phase = "drain" /\ outcome' = "timeout"
       \/ phase \in {"hooks", "drain"} /\ outcome' = "cancelled"
    /\ phase' = "keepalive" /\ KeepaliveStopped
    /\ UNCHANGED <<taskVars, http, caller, opens, draining, waitVars,
                   hookFor, refresh>>

\* drain() refuses a deadline below zero, or to run in another event loop: close()
\* raises, and the session, whose polls the hooks have cancelled, stays open.
RefuseDrain ==
    /\ phase = "hooks" /\ hookFor = {} /\ faults < MaxFaults
    /\ faults' = faults + 1
    /\ phase' = "open" /\ caller' = "none" /\ outcome' = "refused"
    /\ UNCHANGED <<taskVars, http, opens, draining, keepalive, waitVars, hookFor,
                   refresh>>

Teardown == {"keepalive", "hooks2", "save", "aclose"}

\* The caller is cancelled in the teardown: after a drain the teardown is
\* shielded and goes on by itself, without one only the closing of the session is.
GoesOn == phase' = IF outcome = "undrained" THEN "aclose" ELSE phase

CancelTeardown ==
    /\ phase \in Teardown /\ caller = "waiting" /\ faults < MaxFaults
    /\ faults' = faults + 1
    /\ GoesOn
    /\ IF outcome = "undrained" /\ phase # "aclose"
       THEN UNCHANGED <<caller, outcome>>
       ELSE caller' = "returned" /\ outcome' = "abandoned"
    /\ UNCHANGED <<taskVars, http, opens, draining, keepalive, waitVars, hookFor,
                   refresh>>

\* cancel_inflight_refresh: those that joined the refresh are cancelled with it;
\* then the hooks again.
CancelRefresh ==
    LET joined == IF refresh = "running" THEN {t \in Tasks : at[t] = "refresh"} ELSE {}
    IN
    /\ phase = "keepalive"
    /\ phase' = "hooks2" /\ refresh' = "none"
    /\ at' = [t \in Tasks |-> IF t \in joined THEN "over" ELSE at[t]]
    /\ depth' = [t \in Tasks |-> IF t \in joined THEN 0 ELSE depth[t]]
    /\ inFlight' = inFlight - Cardinality(Held(joined))
    /\ result' = [k \in Artifacts |-> IF k \in joined THEN "cancelled" ELSE result[k]]
    /\ refreshed' = refreshed \ joined
    /\ hookFor' = (hookFor \union Active) \ joined
    /\ UNCHANGED <<tries, expired, http, caller, outcome, opens, draining, keepalive,
                   waitVars, faults>>

\* Wrong on purpose: the closing of the session is begun and not awaited.
CloserReturns == "returned"

\* The closing of the session is awaited.
CloserWaits == caller

\* The last save of the cookies, whether it succeeds or not.
SaveCookies ==
    /\ \/ /\ phase = "hooks2" /\ hookFor = {}
          /\ phase' = "save" /\ UNCHANGED caller
       \/ /\ phase = "save"
          /\ phase' = "aclose" /\ caller' = CloserWaits
    /\ UNCHANGED <<taskVars, http, outcome, opens, draining, keepalive,
                   waitVars, hookFor, refresh, faults>>

Aclose ==
    /\ phase = "aclose"
    /\ phase' = "closed" /\ http' = FALSE
    /\ caller' = "returned"
    /\ UNCHANGED <<taskVars, outcome, opens, draining, keepalive, waitVars, hookFor,
                   refresh, faults>>

\* open(): only the flag is reset; what is still counted stays counted.
Reopen ==
    /\ phase = "closed" /\ opens < MaxOpens
    /\ http' = TRUE /\ phase' = "open" /\ caller' = "none" /\ outcome' = "none"
    /\ opens' = opens + 1
    /\ draining' = FALSE /\ keepalive' = "sleep"
    /\ UNCHANGED <<taskVars, waitVars, hookFor, refresh, faults>>

TaskStep(t) ==
    \/ t \in Ops /\ CallEnds(t)
    \/ t \in Artifacts /\ (PollBegins(t) \/ PollAgain(t) \/ PollAnswered(t)
                            \/ PollCancelled(t) \/ Settle(t))
CloseStep ==
    \/ Drain \/ Drained \/ CancelRefresh \/ SaveCookies \/ Aclose

Next ==
    \/ \E o \in Ops : Call(o)
    \/ \E t \in Tasks : TaskStep(t) \/ Unauthorized(t)
    \/ \E k \in Artifacts : Expire(k)
    \/ \E w \in Waiters : CancelWaiter(w) \/ \E k \in Artifacts : WaitFor(w, k)
    \/ RefreshEnds \/ Poke
    \/ Close \/ CloseStep \/ GiveUpDrain \/ RefuseDrain \/ CancelTeardown \/ Reopen

Spec == Init /\ [][Next]_vars

\* The loop runs what is ready, requests time out, and so does a poll's wait.
Fairness ==
    /\ \A t \in Tasks : WF_vars(TaskStep(t))
    /\ \A k \in Artifacts : WF_vars(Expire(k))
    /\ WF_vars(RefreshEnds)
    /\ WF_vars(CloseStep)

FairSpec == Spec /\ Fairness

-----------------------------------------------------------------------------
\* Every variable has its type, and the tracker's count is the sum of the depths
\* of the tasks, however they ended.
TypeOK ==
    /\ http \in BOOLEAN /\ draining \in BOOLEAN
    /\ phase \in {"open", "hooks", "drain", "closed"} \union Teardown
    /\ caller \in {"none", "waiting", "returned"}
    /\ outcome \in {"none", "ok", "timeout", "cancelled", "undrained", "abandoned",
                   "refused"}
    /\ opens \in 1..MaxOpens
    /\ at \in [Tasks -> {"idle", "refused", "new", "sleep", "post", "refresh", "over"}]
    /\ depth \in [Tasks -> 0..2]
    /\ inFlight = Cardinality(Held(Tasks))
    /\ refreshed \subseteq Tasks
    /\ tries \in [Artifacts -> 0..MaxRetries]
    /\ expired \subseteq Artifacts
    /\ result \in [Artifacts -> {"none", "done", "error", "cancelled"}]
    /\ waiter \in [Waiters -> {"idle", "waiting", "left", "done", "error", "cancelled"}]
    /\ waitsFor \in [Waiters -> Artifacts]
    /\ hookFor \subseteq Active
    /\ refresh \in {"none", "running"}
    /\ keepalive \in {"sleep", "poke", "off"}
    /\ faults \in 0..MaxFaults

\* After a drain that was seen to its end no operation is under way and none
\* begins, so that nothing is posted on a session that is being closed
\* (begin_transport_post, drain).
DrainedIsIdle ==
    (outcome = "ok" /\ phase \in Teardown \union {"closed"}) => inFlight = 0

\* A close() that returns leaves no session behind, also when its deadline was
\* missed or its caller cancelled once in the drain ("Practical guarantee" in
\* client.py); only one cancelled in the teardown returns before it is closed.
ReturnMeansClosed ==
    (caller = "returned" /\ outcome # "abandoned") => ~http

\* The keepalive loop never pokes on a closed session (lifecycle.close stops it
\* before all else).
NoPokeOnClosed == ~http => keepalive # "poke"

\* What close() leaves: the tracker's count agrees with the tasks, the session is
\* closed when close() has returned, and nobody posts on it.
ClosedInv == TypeOK /\ ReturnMeansClosed /\ NoPokeOnClosed

\* Waiters are told of a cancelled poll only when the client was closed, or its
\* close() refused half way: a waiter that is cancelled itself takes nobody with it
\* (asyncio.shield in polling.py).
OnlyCloseCancels ==
    (\E w \in Waiters : waiter[w] = "cancelled")
    => opens > 1 \/ phase # "open" \/ outcome = "refused"

\* Nobody waits for what will not come: the poll of who waits is under way or about
\* to tell, who joined a refresh has one that runs, and what the drain counts is
\* held by a call or a poll that has yet to end.
NobodyIsLeftBehind ==
    /\ \A w \in Waiters : waiter[w] = "waiting" =>
        waitsFor[w] \in Active \/ at[waitsFor[w]] = "over"
    /\ \A t \in Tasks : at[t] = "refresh" => refresh = "running"
    /\ inFlight > 0 => \E t \in Tasks : at[t] \in {"sleep", "post", "refresh"}

\* The session is closed in the end, whatever is under way, misses its deadline
\* or is cancelled (client.py: "no path that leaves a live transport behind"), unless
\* the drain is refused; then it stays open.
CloseEnds == phase \notin {"open", "closed"} ~> ~http \/ outcome = "refused"

\* Who waits for an artifact is told something: its poll ends, is refused or is
\* cancelled, and the shared future is settled every time (_resolve_poll).
WaitsEnd == \A w \in Waiters : waiter[w] = "waiting" ~> waiter[w] # "waiting"

\* Nobody is left hanging: a closing ends with the session closed, a wait with an
\* answer.
EverybodyReturns == CloseEnds /\ WaitsEnd

\* client.py:456 of the hooks' running first: it "lets drain() observe a
\* cancelled-then-settled count instead of parking on it".  A poll that begins
\* while the hooks wait is neither cancelled nor refused.
DrainNeverParksOnPoll ==
    phase = "drain" => \A k \in Artifacts : depth[k] > 0 => k \in hookFor

=============================================================================
