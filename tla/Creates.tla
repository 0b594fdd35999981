------------------------------ MODULE Creates ------------------------------
(***************************************************************************)
(* notebooklm: calls that change something on the service, whose answer    *)
(* may be lost.  A create is posted once, without the retries below it;    *)
(* after a transport failure idempotent_create (_idempotency.py) looks     *)
(* whether the resource is there before it posts again.  What a probe      *)
(* takes for the resource differs: notebooks.create, sources.add_url and   *)
(* sources.add_file.  A call the service may safely repeat is retried by   *)
(* RetryMiddleware and after one auth refresh, which AuthRefreshMiddleware *)
(* and the executor (_rpc_executor.py) share.                              *)
(*                                                                         *)
(* All calls ask for the same title and the same URL: the worst case.      *)
(* Kinds of call: "notebook", "padded" (a notebook whose title reads       *)
(* otherwise once the library has decoded it), "source" (a URL, a Drive    *)
(* file), "file", "text" (any create without a probe) and "rename" (a set  *)
(* operation).  The service may act on a request whose sender has given it *)
(* up, at any time or never.                                               *)
(***************************************************************************)
EXTENDS Naturals, FiniteSets

CONSTANTS
    Callers,
    Asked,         \* the kinds of call the callers may make together
    Other,         \* whoever else works in the account
    MaxForeign,    \* bound: resources of the others
    RateMax,       \* rate_limit_max_retries
    ServerMax      \* server_error_max_retries

ASSUME CreatesAssumption ==
    /\ IsFiniteSet(Callers)
    /\ Asked \subseteq [Callers -> {"notebook", "padded", "source", "file", "text", "rename"}]
    /\ Other \notin Callers
    /\ MaxForeign \in Nat /\ RateMax \in Nat /\ ServerMax \in Nat

VARIABLES
    kind,        \* what each caller asks for
    shelf,       \* the service's resources
    wire,        \* creates the service may still act on
    pc,
    baseline,    \* what was listed before the create, if that could be read
    before,      \* history: what was there when the call began
    attempt, posts,
    limited, failed,   \* retries after a 429, after an error or a lost answer
    budget,      \* RefreshBudget
    refreshes,   \* history: auth refreshes of the call
    result,
    blind,       \* history: calls with a probe that got no readable list
    late         \* history: calls whose probe had looked when the service acted

serviceVars == <<shelf, wire>>
retryVars   == <<limited, failed, budget, refreshes>>
callVars    == <<baseline, before, attempt, posts>>
historyVars == <<blind, late>>
vars == <<kind, serviceVars, retryVars, callVars, pc, result, historyVars>>

MaxAttempts == 2
Ids     == {r.id : r \in shelf}
NoneYet == [how |-> "none", id |-> 0]

Creating(c) == kind[c] # "rename"
Probing(c)  == kind[c] \in {"notebook", "padded", "source", "file"}

\* What the service makes of a call.
Sort(c) == IF kind[c] = "padded" THEN "notebook" ELSE kind[c]

Init ==
    /\ kind \in Asked
    /\ shelf = {} /\ wire = {}
    /\ pc = [c \in Callers |-> "idle"]
    /\ baseline = [c \in Callers |-> [read |-> FALSE, ids |-> {}]]
    /\ before = [c \in Callers |-> {}]
    /\ attempt = [c \in Callers |-> 1]
    /\ posts = [c \in Callers |-> 0]
    /\ limited = [c \in Callers |-> 0]
    /\ failed = [c \in Callers |-> 0]
    /\ budget = [c \in Callers |-> TRUE]
    /\ refreshes = [c \in Callers |-> 0]
    /\ result = [c \in Callers |-> NoneYet]
    /\ blind = {} /\ late = {}

-----------------------------------------------------------------------------
(* The service. *)

Shelve(what, by, n) ==
    shelf' = shelf \union {[id |-> Cardinality(shelf) + 1, kind |-> what, by |-> by, n |-> n]}

\* Of others only what is on the list the calls read: notebooks, or a notebook's sources.
Listed == IF \E c \in Callers : Sort(c) = "notebook" THEN "notebook" ELSE "source"

Foreign(what) ==
    /\ what = Listed
    /\ Cardinality({r \in shelf : r.by = Other}) < MaxForeign
    /\ Shelve(what, Other, 0)
    /\ UNCHANGED <<wire, retryVars, callVars, pc, result, historyVars, kind>>

\* The probe that follows a request has looked.
Looked(w) == pc[w.by] = "post" \/ w.n # posts[w.by] \/ result[w.by].how = "probed"

\* The service acts on a request, perhaps long after its sender has given it up.
Commit(w) ==
    /\ Shelve(Sort(w.by), w.by, w.n)
    /\ wire' = wire \ {w}
    /\ late' = IF Looked(w) THEN late \union {w.by} ELSE late
    /\ UNCHANGED <<retryVars, callVars, pc, result, blind, kind>>

-----------------------------------------------------------------------------
(* How a call ends. *)

Fail(c) ==
    /\ pc' = [pc EXCEPT ![c] = "done"]
    /\ result' = [result EXCEPT ![c] = [how |-> "error", id |-> 0]]

\* The title goes only to a source this call created
\* (honor_requested_title_if_fresh); a file's bytes go to whatever was found.
Fresh(c, how) == kind[c] = "file" \/ (kind[c] = "source" /\ how = "created")

Return(c, how, id) ==
    /\ result' = [result EXCEPT ![c] = [how |-> how, id |-> id]]
    /\ pc' = [pc EXCEPT ![c] = "done"]

\* What the call then writes to: the rename of a fresh source, the upload into
\* a registered file source.
Touched(c) ==
    IF result[c].how \in {"created", "probed"} /\ Fresh(c, result[c].how)
    THEN {result[c].id} ELSE {}

-----------------------------------------------------------------------------
(* One call. *)

\* A notebook or a file first lists what is there; the baseline is best
\* effort, without it the set stays empty.
Begin(c) ==
    /\ pc[c] = "idle"
    /\ before' = [before EXCEPT ![c] = Ids]
    /\ \/ /\ kind[c] \in {"notebook", "padded", "file"}
          /\ baseline' = [baseline EXCEPT ![c] = [read |-> TRUE, ids |-> Ids]]
       \/ UNCHANGED baseline
    /\ pc' = [pc EXCEPT ![c] = "post"]
    /\ UNCHANGED <<serviceVars, retryVars, attempt, posts, result, historyVars, kind>>

Post(c) ==
    /\ pc[c] = "post"
    /\ IF Creating(c)
       THEN /\ posts' = [posts EXCEPT ![c] = @ + 1]
            /\ wire' = wire \union {[by |-> c, n |-> posts[c] + 1]}
       ELSE UNCHANGED <<posts, wire>>
    /\ pc' = [pc EXCEPT ![c] = "sent"]
    /\ UNCHANGED <<shelf, retryVars, baseline, before, attempt, result, historyVars, kind>>

Answered(c) ==
    /\ pc[c] = "sent"
    /\ \/ ~Creating(c) /\ Return(c, "created", 0)
       \/ \E r \in shelf : r.by = c /\ r.n = posts[c] /\ Return(c, "created", r.id)
    /\ UNCHANGED <<serviceVars, retryVars, callVars, historyVars, kind>>

\* An answer without a usable id: only a file's registration looks further.
Garbled(c) ==
    /\ pc[c] = "sent"
    /\ IF kind[c] = "file"
       THEN pc' = [pc EXCEPT ![c] = "confirm"] /\ UNCHANGED result
       ELSE Fail(c)
    /\ UNCHANGED <<serviceVars, retryVars, callVars, historyVars, kind>>

\* A client error, and an auth error that allows no replay; either may come after
\* the service has acted.
Rejected(c) ==
    /\ pc[c] = "sent"
    /\ Fail(c)
    /\ UNCHANGED <<serviceVars, retryVars, callVars, historyVars, kind>>

-----------------------------------------------------------------------------
(* Failures the layers below a call retry, or may not. *)

\* Wrong on purpose: a create without a probe is retried like a set operation.
RetriesInsideText(c) == kind[c] \in {"rename", "text"}

\* resolve_effective_disable_internal_retries: the policy forbids the others.
RetriesInside(c) == ~Creating(c)

\* Wrong on purpose: the retries are not counted.
CountedNever(n) == n

Counted(n) == n + 1

\* A 429, a 5xx or a lost answer, which each layer below may answer to.
Retry(c) ==
    /\ pc[c] = "sent" /\ RetriesInside(c)
    /\ \/ /\ limited[c] < RateMax
          /\ limited' = [limited EXCEPT ![c] = Counted(@)]
          /\ UNCHANGED failed
       \/ /\ failed[c] < ServerMax
          /\ failed' = [failed EXCEPT ![c] = Counted(@)]
          /\ UNCHANGED limited
    /\ pc' = [pc EXCEPT ![c] = "post"]
    /\ UNCHANGED <<serviceVars, callVars, budget, refreshes, result, historyVars, kind>>

\* The failure reaches the caller: the retries or the deadline are exhausted,
\* or there are none; a create that has one then probes.
Transient(c) ==
    /\ pc[c] = "sent"
    /\ IF Probing(c)
       THEN pc' = [pc EXCEPT ![c] = "probe"] /\ UNCHANGED result
       ELSE Fail(c)
    /\ UNCHANGED <<serviceVars, retryVars, callVars, historyVars, kind>>

\* Wrong on purpose: each layer has a refresh of its own.
MayRefreshEach(c, layer) == ~Creating(c) /\ refreshes[c] < 2

\* Either layer may refresh, if the call still has its refresh.
MayRefresh(c, layer) == ~Creating(c) /\ budget[c]

\* HTTP 401 or 403, in AuthRefreshMiddleware.
Unauthorized(c) ==
    /\ pc[c] = "sent" /\ MayRefresh(c, "http")
    /\ pc' = [pc EXCEPT ![c] = "refreshHttp"]
    /\ UNCHANGED <<serviceVars, retryVars, callVars, result, historyVars, kind>>

\* An answer that decodes to an auth error, in the executor.
AuthDecoded(c) ==
    /\ pc[c] = "sent" /\ MayRefresh(c, "rpc")
    /\ budget' = [budget EXCEPT ![c] = FALSE]
    /\ pc' = [pc EXCEPT ![c] = "refreshRpc"]
    /\ UNCHANGED <<serviceVars, limited, failed, refreshes, callVars, result, historyVars, kind>>

RefreshFails(c) ==
    /\ pc[c] \in {"refreshHttp", "refreshRpc"}
    /\ refreshes' = [refreshes EXCEPT ![c] = @ + 1]
    /\ Fail(c)
    /\ UNCHANGED <<serviceVars, limited, failed, budget, callVars, historyVars, kind>>

\* The HTTP layer's second post is part of the same try; the executor's is a
\* new trip through the layers, with fresh retry counters.
Refreshed(c) ==
    /\ pc[c] \in {"refreshHttp", "refreshRpc"}
    /\ refreshes' = [refreshes EXCEPT ![c] = @ + 1]
    /\ budget' = [budget EXCEPT ![c] = FALSE]
    /\ IF pc[c] = "refreshRpc"
       THEN limited' = [limited EXCEPT ![c] = 0] /\ failed' = [failed EXCEPT ![c] = 0]
       ELSE UNCHANGED <<limited, failed>>
    /\ pc' = [pc EXCEPT ![c] = "post"]
    /\ UNCHANGED <<serviceVars, callVars, result, historyVars, kind>>

-----------------------------------------------------------------------------
(* The probe: what is on the service, and is it ours. *)

\* Wrong on purpose: the probe does not look at what was there before.
CandidatesAll(c) ==
    {r \in shelf : IF kind[c] = "file" THEN r.kind # "notebook" ELSE r.kind = kind[c]}

\* A notebook's title as it was decoded against the title as it was asked for, any
\* source's title for a file, a source's URL; the first two only if they came
\* since the baseline.
Candidates(c) ==
    {r \in shelf :
        /\ IF kind[c] = "file" THEN r.kind # "notebook" ELSE r.kind = kind[c]
        /\ r.id \notin baseline[c].ids}

\* Wrong on purpose: of several new notebooks the first is taken.
AmbiguousFile(c) ==
    /\ kind[c] = "file"
    /\ \/ Cardinality(Candidates(c)) > 1
       \/ ~baseline[c].read /\ Candidates(c) # {}

\* Two new matches; for a file also one, when nothing tells old from new.
Ambiguous(c) ==
    /\ kind[c] # "source"
    /\ \/ Cardinality(Candidates(c)) > 1
       \/ kind[c] = "file" /\ ~baseline[c].read /\ Candidates(c) # {}

AttemptsLeft(c) == attempt[c] < MaxAttempts

\* The probe saw nothing: post again, or raise what the last post raised.
NextAttempt(c) ==
    IF AttemptsLeft(c)
    THEN /\ attempt' = [attempt EXCEPT ![c] = @ + 1]
         /\ pc' = [pc EXCEPT ![c] = "post"]
         /\ UNCHANGED <<baseline, before, posts, result>>
    ELSE Fail(c) /\ UNCHANGED callVars

ProbeFinds(c) ==
    /\ pc[c] = "probe" /\ ~Ambiguous(c)
    /\ \E r \in Candidates(c) : Return(c, "probed", r.id)
    /\ UNCHANGED <<serviceVars, retryVars, callVars, historyVars, kind>>

ProbeRefuses(c) ==
    /\ pc[c] = "probe" /\ Ambiguous(c)
    /\ Fail(c)
    /\ UNCHANGED <<serviceVars, retryVars, callVars, historyVars, kind>>

ProbeFindsNothing(c) ==
    /\ pc[c] = "probe" /\ Candidates(c) = {}
    /\ NextAttempt(c)
    /\ UNCHANGED <<serviceVars, retryVars, historyVars, kind>>

\* The list came in a form nobody understands: taken for no match.
ProbeIsBlind(c) ==
    /\ pc[c] = "probe"
    /\ blind' = blind \union {c}
    /\ NextAttempt(c)
    /\ UNCHANGED <<serviceVars, retryVars, late, kind>>

\* A transport or auth error of the probe ends the call.
ProbeFailureEnds(c) == Fail(c) /\ UNCHANGED callVars

ProbeFails(c) ==
    /\ pc[c] = "probe"
    /\ ProbeFailureEnds(c)
    /\ UNCHANGED <<serviceVars, retryVars, historyVars, kind>>

\* The probe inside the create of a file whose answer held no usable id; what
\* it finds counts as created, and whatever else happens ends the call.
Confirm(c) ==
    /\ pc[c] = "confirm"
    /\ \/ ~Ambiguous(c) /\ \E r \in Candidates(c) : Return(c, "created", r.id)
       \/ Fail(c)
    /\ UNCHANGED <<serviceVars, retryVars, callVars, historyVars, kind>>

-----------------------------------------------------------------------------
Step(c) ==
    \/ Begin(c) \/ Post(c)
    \/ Answered(c) \/ Garbled(c) \/ Rejected(c)
    \/ Retry(c) \/ Transient(c) \/ Unauthorized(c) \/ AuthDecoded(c)
    \/ RefreshFails(c) \/ Refreshed(c)
    \/ ProbeFinds(c) \/ ProbeRefuses(c) \/ ProbeFindsNothing(c)
    \/ ProbeIsBlind(c) \/ ProbeFails(c) \/ Confirm(c)

Next ==
    \/ \E k \in {"notebook", "source"} : Foreign(k)
    \/ \E w \in wire : Commit(w)
    \/ \E c \in Callers : Step(c)

Spec == Init /\ [][Next]_vars

\* A caller goes on: every request is answered or times out in the end.
FairSpec == Spec /\ \A c \in Callers : WF_vars(Step(c))

-----------------------------------------------------------------------------
\* Every variable has its type; a create's attempts and posts stay within
\* DEFAULT_MAX_ATTEMPTS of _idempotency.py.
TypeOK ==
    /\ kind \in Asked
    /\ shelf \subseteq [id : 1..(2 * Cardinality(Callers) + MaxForeign),
                        kind : {"notebook", "source", "file", "text"},
                        by : Callers \union {Other}, n : 0..MaxAttempts]
    /\ wire \subseteq [by : Callers, n : 1..MaxAttempts]
    /\ \A c \in Callers :
        /\ pc[c] \in {"idle", "post", "sent", "refreshHttp", "refreshRpc",
                      "probe", "confirm", "done"}
        /\ attempt[c] \in 1..MaxAttempts /\ posts[c] \in 0..MaxAttempts
        /\ limited[c] \in 0..RateMax /\ failed[c] \in 0..ServerMax
        /\ result[c].how \in {"none", "created", "probed", "error"}

Own(c) == {r \in shelf : r.by = c}

\* A call leaves at most one resource of its making on the service, however
\* answers are lost and whatever others make meanwhile (idempotent_create): a
\* second one takes a service that acts on a request after its sender's probe has
\* looked, a list nobody could read, or a title that is decoded otherwise.
OneEach ==
    \A c \in Callers :
        c \notin blind \union late /\ kind[c] # "padded" => Cardinality(Own(c)) <= 1

\* Known limit: what python-api.md promises, that the probe prevents duplicates when
\* the server accepted the request and only the response was lost.
ProbePreventsDuplicates ==
    \A c \in Callers : Probing(c) /\ c \notin blind => Cardinality(Own(c)) <= 1

\* A notebook or file that a probe found is the call's own whenever the call's
\* own is there, whoever else made one of that name meanwhile: unless the service
\* acted on the request only after the probe had looked.
OwnWhenThere ==
    \A c \in Callers :
        /\ result[c].how = "probed" /\ kind[c] \in {"notebook", "file"}
        /\ Own(c) # {} /\ c \notin late
        => \E r \in Own(c) : r.id = result[c].id

\* A notebook that is returned was not there before the call, if the baseline
\* could be read.
ReturnIsNew ==
    \A c \in Callers :
        /\ kind[c] = "notebook" /\ baseline[c].read
        /\ result[c].how \in {"created", "probed"}
        => result[c].id \notin before[c]

\* No call writes a title or a file's bytes into a resource that was there
\* before it, baseline or not.
OldIsUntouched == \A c \in Callers : Touched(c) \cap before[c] = {}

\* What was there before a call is neither returned as its notebook nor written to.
OldIsNotTaken == ReturnIsNew /\ OldIsUntouched

\* The two layers that can refresh the session do so once per call in all.
RefreshOnce == \A c \in Callers : refreshes[c] <= 1

\* Every variable has its type, posts within the attempts a create may make, and no
\* call refreshes more than once.
Bounded == TypeOK /\ RefreshOnce

\* Every call returns or raises: no failure is retried for ever.
EveryCallEnds == \A c \in Callers : pc[c] = "post" ~> pc[c] = "done"

=============================================================================
