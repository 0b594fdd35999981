--------------------------- MODULE ShutdownProofs ---------------------------
(***************************************************************************)
(* Proofs about Shutdown for any calls, artifacts, waiters and bounds: the *)
(* tracker's count is what the tasks hold, a close() that returns leaves   *)
(* no session, a drain that went well leaves nothing under way, and only   *)
(* closing cancels what somebody waits for.                                *)
(***************************************************************************)
EXTENDS Shutdown, FiniteSetTheorems, TLAPS

Wheres  == {"idle", "refused", "new", "sleep", "post", "refresh", "over"}
Working == {"new", "sleep", "post", "refresh"}
Results == {"none", "done", "error", "cancelled"}

\* What the tasks are: where they are, what they hold and how they ended.
TaskTypes ==
    /\ at \in [Tasks -> Wheres] /\ depth \in [Tasks -> 0..2]
    /\ result \in [Artifacts -> Results]

Counted == inFlight = Cardinality(Held(Tasks))

\* A task holds its places while it posts, a poll one of them while it sleeps.
DepthInv ==
    \A t \in Tasks :
        /\ at[t] \in {"idle", "refused", "new", "over"} => depth[t] = 0
        /\ at[t] = "sleep" => depth[t] = 1
        /\ at[t] \in {"post", "refresh"} => depth[t] >= 1
        /\ t \in Ops => at[t] \notin {"new", "sleep"}
        /\ t \in Artifacts /\ at[t] = "over" => result[t] # "none"

\* Only a poll under way is waited for by the hooks.
HookInv == hookFor \subseteq Active

TaskInv == TaskTypes /\ Counted /\ DepthInv /\ HookInv

\* The counters of the polls and the retries.
BookTypes ==
    /\ refreshed \subseteq Tasks /\ expired \subseteq Artifacts
    /\ tries \in [Artifacts -> 0..MaxRetries]

WaitTypes ==
    /\ waiter \in [Waiters -> {"idle", "waiting", "left", "done", "error", "cancelled"}]
    /\ waitsFor \in [Waiters -> Artifacts]

CloseTypes ==
    /\ http \in BOOLEAN /\ draining \in BOOLEAN
    /\ phase \in {"open", "hooks", "drain", "closed"} \union Teardown
    /\ caller \in {"none", "waiting", "returned"}
    /\ outcome \in {"none", "ok", "timeout", "cancelled", "undrained", "abandoned",
                   "refused"}
    /\ opens \in 1..MaxOpens
    /\ refresh \in {"none", "running"}
    /\ keepalive \in {"sleep", "poke", "off"}
    /\ faults \in 0..MaxFaults

\* The session lasts until the closing has come to its end, the keepalive until
\* the teardown begins; who closed has returned when it is closed, or abandoned it.
CloseInv ==
    /\ http <=> phase # "closed"
    /\ phase \in Teardown \union {"closed"} => keepalive = "off"
    /\ caller = "returned" /\ outcome # "abandoned" => phase = "closed"

\* A drain that goes well lets nobody in, and ends when nobody is left.
DrainInv ==
    /\ phase \in {"hooks", "drain"} => outcome = "ok"
    /\ outcome = "ok" /\ phase \notin {"open", "hooks"} => draining
    /\ outcome = "ok" /\ phase \in Teardown \union {"closed"}
       => \A t \in Tasks : depth[t] = 0

\* In a first session that nobody tries to close nothing is cancelled.
CancelInv ==
    opens = 1 /\ phase = "open" /\ outcome # "refused"
    => /\ hookFor = {} /\ \A k \in Artifacts : result[k] # "cancelled"
       /\ \A w \in Waiters : waiter[w] # "cancelled"

\* Who waits has a poll that tells it, who joined a refresh has one that runs; a poll
\* is never refused before it is a task.
StayInv ==
    /\ \A k \in Artifacts : at[k] # "refused"
    /\ \A w \in Waiters : waiter[w] = "waiting" => at[waitsFor[w]] # "idle"
    /\ \A t \in Tasks : at[t] = "refresh" => refresh = "running"

IInv ==
    /\ TaskInv /\ BookTypes /\ WaitTypes /\ CloseTypes
    /\ CloseInv /\ DrainInv /\ CancelInv /\ StayInv

-----------------------------------------------------------------------------
(* The count. *)

\* Held, for any depths.
Places(d, S) == {p \in S \X (1..2) : p[2] <= d[p[1]]}

\* There are finitely many tasks.
LEMMA TasksFinite == IsFiniteSet(Tasks)
BY ShutdownAssumption, FS_Union DEF Tasks

\* Two numbers.
LEMMA OneTwo == IsFiniteSet(1..2) /\ 1..2 = {1, 2}
<1>1. 1..2 = {1} \union {2}
  OBVIOUS
<1>2. IsFiniteSet({1})
  BY FS_Singleton
<1>3. IsFiniteSet({1} \union {2})
  BY <1>2, FS_AddElement
<1> QED
  BY <1>1, <1>3

\* What finitely many tasks hold is a finite set.
LEMMA PlacesFinite ==
    ASSUME NEW S, IsFiniteSet(S), NEW d
    PROVE  IsFiniteSet(Places(d, S)) /\ Cardinality(Places(d, S)) \in Nat
<1>1. IsFiniteSet(S \X (1..2))
  BY OneTwo, FS_Product
<1>2. Places(d, S) \in SUBSET (S \X (1..2))
  BY DEF Places
<1> QED
  BY <1>1, <1>2, FS_Subset, FS_CardinalityType

\* The tasks of a set and the others hold what all hold.
LEMMA PlacesSplit ==
    ASSUME NEW S, IsFiniteSet(S), NEW T \in SUBSET S, NEW d
    PROVE  Cardinality(Places(d, S)) = Cardinality(Places(d, T)) + Cardinality(Places(d, S \ T))
<1> DEFINE A == Places(d, T)
           B == Places(d, S \ T)
<1>1. IsFiniteSet(T) /\ IsFiniteSet(S \ T)
  BY FS_Subset
<1>2. /\ IsFiniteSet(A) /\ Cardinality(A) \in Nat
      /\ IsFiniteSet(B) /\ Cardinality(B) \in Nat
  BY <1>1, PlacesFinite
<1>3. Places(d, S) = A \union B /\ A \cap B = {}
  BY DEF Places
<1> HIDE DEF A, B
<1>4. Cardinality(A \union B) = Cardinality(A) + Cardinality(B) - Cardinality(A \cap B)
  BY <1>2, FS_Union
<1>5. Cardinality(A \cap B) = 0
  BY <1>3, FS_EmptySet
<1>6. Cardinality(Places(d, S)) = Cardinality(A \union B)
  BY <1>3
<1>7. Cardinality(Places(d, S)) = Cardinality(A) + Cardinality(B)
  BY <1>2, <1>4, <1>5, <1>6
<1> QED
  BY <1>7 DEF A, B

\* A task holds as many places as its depth says.
LEMMA PlacesOfOne ==
    ASSUME NEW d \in [Tasks -> 0..2], NEW t \in Tasks
    PROVE  Cardinality(Places(d, {t})) = d[t]
<1>1. Places(d, {t}) = {<<t, i>> : i \in {j \in {1, 2} : j <= d[t]}}
  BY OneTwo DEF Places
<1>2. CASE d[t] = 0
  <2>1. Places(d, {t}) = {}
    BY <1>1, <1>2
  <2> QED
    BY <1>2, <2>1, FS_EmptySet
<1>3. CASE d[t] = 1
  <2>1. Places(d, {t}) = {<<t, 1>>}
    BY <1>1, <1>3
  <2> QED
    BY <1>3, <2>1, FS_Singleton
<1>4. CASE d[t] = 2
  <2> DEFINE p == <<t, 1>>
             q == <<t, 2>>
  <2>1. Places(d, {t}) = {p} \union {q} /\ q # p
    BY <1>1, <1>4
  <2> HIDE DEF p, q
  <2>2. IsFiniteSet({p}) /\ Cardinality({p}) = 1 /\ q \notin {p}
    BY <2>1, FS_Singleton
  <2>3. Cardinality({p} \union {q}) = 2
    BY <2>2, FS_AddElement
  <2> QED
    BY <1>4, <2>1, <2>3
<1> QED
  BY <1>2, <1>3, <1>4

\* Counting a task anew counts all of them.
LEMMA RecountOne ==
    ASSUME NEW d \in [Tasks -> 0..2], NEW e \in [Tasks -> 0..2], NEW t \in Tasks,
           \A u \in Tasks : u # t => e[u] = d[u]
    PROVE  /\ Cardinality(Places(e, Tasks)) = (Cardinality(Places(d, Tasks)) + e[t]) - d[t]
<1> DEFINE R == Tasks \ {t}
<1>1. Places(e, R) = Places(d, R)
  BY DEF Places
<1>2. {t} \in SUBSET Tasks /\ IsFiniteSet(R) /\ IsFiniteSet(Tasks)
  BY TasksFinite, FS_Subset
<1>3. Cardinality(Places(d, R)) \in Nat
  BY <1>2, PlacesFinite
<1>4. Cardinality(Places(d, Tasks)) = d[t] + Cardinality(Places(d, R))
  BY <1>2, PlacesSplit, PlacesOfOne
<1>5. Cardinality(Places(e, Tasks)) = e[t] + Cardinality(Places(e, R))
  BY <1>2, PlacesSplit, PlacesOfOne
<1>6. d[t] \in 0..2 /\ e[t] \in 0..2
  OBVIOUS
<1> HIDE DEF R
<1> QED
  BY <1>1, <1>3, <1>4, <1>5, <1>6

\* Tasks that let go of what they hold are no longer counted.
LEMMA RecountLeft ==
    ASSUME NEW d \in [Tasks -> 0..2], NEW T \in SUBSET Tasks,
           NEW e, e = [t \in Tasks |-> IF t \in T THEN 0 ELSE d[t]]
    PROVE  Cardinality(Places(e, Tasks)) = Cardinality(Places(d, Tasks)) - Cardinality(Places(d, T))
<1> DEFINE R == Tasks \ T
<1>1. Places(e, R) = Places(d, R)
  BY DEF Places
<1>2. Places(e, T) = {}
  <2>1. \A i \in 1..2 : ~(i <= 0)
    OBVIOUS
  <2> QED
    BY <2>1 DEF Places
<1>3. IsFiniteSet(T) /\ IsFiniteSet(R) /\ IsFiniteSet(Tasks)
  BY TasksFinite, FS_Subset
<1>4. Cardinality(Places(d, R)) \in Nat /\ Cardinality(Places(d, T)) \in Nat
  BY <1>3, PlacesFinite
<1>5. Cardinality(Places(d, Tasks)) = Cardinality(Places(d, T)) + Cardinality(Places(d, R))
  BY <1>3, PlacesSplit
<1>6. Cardinality(Places(e, Tasks)) = Cardinality(Places(e, T)) + Cardinality(Places(e, R))
  BY <1>3, PlacesSplit
<1>7. Cardinality(Places(e, T)) = 0
  BY <1>2, FS_EmptySet
<1> HIDE DEF R
<1> QED
  BY <1>1, <1>4, <1>5, <1>6, <1>7

\* Nobody holds anything: the count is zero.
LEMMA NobodyHolds ==
    ASSUME NEW d, \A t \in Tasks : d[t] = 0
    PROVE  Cardinality(Places(d, Tasks)) = 0
<1>1. \A i \in 1..2 : ~(i <= 0)
  OBVIOUS
<1>2. Places(d, Tasks) = {}
  BY <1>1 DEF Places
<1> QED
  BY <1>2, FS_EmptySet

\* The count is zero: nobody holds anything.
LEMMA ZeroMeansNobody ==
    ASSUME TaskTypes, Counted, inFlight = 0
    PROVE  \A t \in Tasks : depth[t] = 0
<1>1. Held(Tasks) = Places(depth, Tasks)
  BY DEF Held, Places
<1>2. Places(depth, Tasks) = {}
  BY <1>1, TasksFinite, PlacesFinite, FS_EmptySet DEF Counted
<1> SUFFICES ASSUME NEW t \in Tasks, depth[t] # 0 PROVE FALSE
  OBVIOUS
<1>3. depth[t] \in {1, 2}
  BY DEF TaskTypes
<1>4. <<t, 1>> \in Places(depth, Tasks)
  BY <1>3, OneTwo DEF Places
<1> QED
  BY <1>2, <1>4

-----------------------------------------------------------------------------
(* The tasks. *)

\* A task goes to a place where it is counted n times.
Moves(t, a, n) ==
    /\ at' = [at EXCEPT ![t] = a]
    /\ depth' = [depth EXCEPT ![t] = n]
    /\ inFlight' = (inFlight + n) - depth[t]
    /\ hookFor' = IF a \in Working THEN hookFor ELSE hookFor \ {t}
    /\ \A k \in Artifacts : k # t => result'[k] = result[k]

\* A place and the times one is counted there.
Agree(t, a, n) ==
    /\ a \in {"idle", "refused", "new", "over"} => n = 0
    /\ a = "sleep" => n = 1
    /\ a \in {"post", "refresh"} => n >= 1
    /\ t \in Ops => a \notin {"new", "sleep"}
    /\ t \in Artifacts /\ a = "over" => result'[t] # "none"

\* A step of one task keeps the tasks and their count in order.
LEMMA MoveKept ==
    ASSUME TaskInv, NEW t \in Tasks, NEW a \in Wheres, NEW n \in 0..2,
           Moves(t, a, n), Agree(t, a, n), result' \in [Artifacts -> Results]
    PROVE  TaskInv'
<1> USE DEF TaskInv, TaskTypes
<1>1. /\ at' \in [Tasks -> Wheres] /\ depth' \in [Tasks -> 0..2]
      /\ \A u \in Tasks : u # t => at'[u] = at[u] /\ depth'[u] = depth[u]
      /\ at'[t] = a /\ depth'[t] = n
  BY DEF Moves
<1>2. Counted'
  <2>1. Cardinality(Places(depth', Tasks)) = (Cardinality(Places(depth, Tasks)) + n) - depth[t]
    BY <1>1, RecountOne
  <2> QED
    BY <2>1 DEF Counted, Held, Places, Moves
<1>3. DepthInv'
  <2> SUFFICES ASSUME NEW u \in Tasks
               PROVE  /\ at'[u] \in {"idle", "refused", "new", "over"} => depth'[u] = 0
                      /\ at'[u] = "sleep" => depth'[u] = 1
                      /\ at'[u] \in {"post", "refresh"} => depth'[u] >= 1
                      /\ u \in Ops => at'[u] \notin {"new", "sleep"}
                      /\ u \in Artifacts /\ at'[u] = "over" => result'[u] # "none"
    BY DEF DepthInv
  <2>1. CASE u = t
    BY <1>1, <2>1 DEF Agree
  <2>2. CASE u # t
    BY <1>1, <2>2 DEF DepthInv, Moves
  <2> QED
    BY <2>1, <2>2
<1>4. HookInv'
  <2>1. \A k \in hookFor' : k \in hookFor /\ (k = t => a \in Working)
    BY DEF Moves
  <2>2. \A k \in Artifacts : k \in Tasks
    BY DEF Tasks
  <2> QED
    BY <1>1, <2>1, <2>2 DEF HookInv, Active, Working
<1> QED
  BY <1>1, <1>2, <1>3, <1>4

\* Tasks that joined a refresh post again.
LEMMA JoinedPost ==
    ASSUME TaskInv, NEW J, J = {t \in Tasks : at[t] = "refresh"},
           at' = [t \in Tasks |-> IF t \in J THEN "post" ELSE at[t]],
           UNCHANGED <<inFlight, depth, result, hookFor>>
    PROVE  TaskInv'
<1> USE DEF TaskInv, TaskTypes
<1>1. at' \in [Tasks -> Wheres]
  BY DEF Wheres
<1>2. Counted'
  BY DEF Counted, Held
<1>3. DepthInv'
  BY DEF DepthInv
<1>4. HookInv'
  <2>1. \A k \in Artifacts : k \in Tasks
    BY DEF Tasks
  <2> QED
    BY <2>1 DEF HookInv, Active
<1> QED
  BY <1>1, <1>2, <1>3, <1>4

\* Tasks that joined a refresh end with it.
LEMMA JoinedEnd ==
    ASSUME TaskInv, NEW J \in SUBSET Tasks, \A t \in J : at[t] = "refresh",
           NEW how \in {"error", "cancelled"},
           at' = [t \in Tasks |-> IF t \in J THEN "over" ELSE at[t]],
           depth' = [t \in Tasks |-> IF t \in J THEN 0 ELSE depth[t]],
           inFlight' = inFlight - Cardinality(Held(J)),
           result' = [k \in Artifacts |-> IF k \in J THEN how ELSE result[k]],
           hookFor' \subseteq Active \ J
    PROVE  TaskInv'
<1> USE DEF TaskInv, TaskTypes
<1>1. at' \in [Tasks -> Wheres] /\ depth' \in [Tasks -> 0..2] /\ result' \in [Artifacts -> Results]
  BY DEF Wheres, Results
<1>2. Counted'
  <2>1. Cardinality(Places(depth', Tasks))
          = Cardinality(Places(depth, Tasks)) - Cardinality(Places(depth, J))
    BY RecountLeft
  <2> QED
    BY <2>1 DEF Counted, Held, Places
<1>3. DepthInv'
  BY DEF DepthInv
<1>4. HookInv'
  <2>1. \A k \in Artifacts : k \in Tasks
    BY DEF Tasks
  <2> QED
    BY <2>1 DEF HookInv, Active
<1> QED
  BY <1>1, <1>2, <1>3, <1>4

\* A task that ends.
LEMMA EndsKept ==
    ASSUME TaskInv, NEW t \in Tasks, NEW how \in {"done", "error", "cancelled"}, Ends(t, how)
    PROVE  TaskInv' /\ result' \in {result, [result EXCEPT ![t] = how]}
           /\ (result' # result => t \in Artifacts)
<1>1. result' \in [Artifacts -> Results] /\ (t \in Artifacts => result'[t] = how)
  BY DEF Ends, TaskInv, TaskTypes, Results
<1>2. Moves(t, "over", 0)
  BY DEF Ends, Holds, Moves, Working, TaskInv, TaskTypes
<1>3. Agree(t, "over", 0)
  BY <1>1 DEF Agree
<1>4. TaskInv'
  BY <1>1, <1>2, <1>3, MoveKept DEF Wheres
<1> QED
  BY <1>4 DEF Ends

\* What a step leaves as it is keeps the tasks in order.
LEMMA TasksAlone ==
    ASSUME TaskInv, UNCHANGED taskVars, hookFor' \subseteq Active
    PROVE  TaskInv'
BY DEF TaskInv, TaskTypes, Counted, Held, DepthInv, HookInv, Active, taskVars

\* A poll sleeps until its next try.
LEMMA SleepsKept ==
    ASSUME TaskInv, NEW k \in Artifacts, k \notin hookFor, PollSleeps(k)
    PROVE  TaskInv'
<1>1. k \in Tasks /\ k \notin Ops
  BY ShutdownAssumption DEF Tasks
<1>2. Moves(k, "sleep", 1)
  BY <1>1 DEF PollSleeps, Holds, Moves, Working, TaskInv, TaskTypes
<1>3. Agree(k, "sleep", 1)
  BY <1>1 DEF Agree
<1> QED
  BY <1>1, <1>2, <1>3, MoveKept DEF Wheres, PollSleeps, TaskInv, TaskTypes

\* A task enters what is counted, for the RPC or for the operation and the RPC.
LEMMA PostKept ==
    ASSUME TaskInv, NEW t \in Tasks, NEW n \in {1, 2},
           at' = [at EXCEPT ![t] = "post"], Holds(t, n), UNCHANGED <<result, hookFor>>
    PROVE  TaskInv'
<1>1. Moves(t, "post", n)
  BY DEF Holds, Moves, Working, TaskInv, TaskTypes
<1>2. Agree(t, "post", n)
  BY DEF Agree
<1> QED
  BY <1>1, <1>2, MoveKept DEF Wheres, TaskInv, TaskTypes

\* A task goes on without touching what is counted.
LEMMA GoesKept ==
    ASSUME TaskInv, NEW t \in Tasks, NEW a \in Wheres, at' = [at EXCEPT ![t] = a],
           UNCHANGED <<inFlight, depth, result>>, Agree(t, a, depth[t]),
           hookFor' = hookFor, t \in hookFor => a \in Working
    PROVE  TaskInv'
<1>1. depth[t] \in 0..2 /\ depth = [depth EXCEPT ![t] = depth[t]] /\ inFlight \in Nat
  BY TasksFinite, PlacesFinite DEF TaskInv, TaskTypes, Counted, Held, Places
<1>2. Moves(t, a, depth[t])
  BY <1>1 DEF Moves
<1> QED
  BY <1>1, <1>2, MoveKept DEF TaskInv, TaskTypes

\* Every step keeps the tasks and their count in order.
LEMMA TaskStepKept ==
    ASSUME IInv, [Next]_vars
    PROVE  TaskInv'
<1>p. /\ TaskInv /\ TaskTypes /\ DepthInv /\ hookFor \subseteq Active
      /\ \A k \in Artifacts : k \in Tasks /\ k \notin Ops
      /\ \A o \in Ops : o \in Tasks /\ o \notin Artifacts
  BY ShutdownAssumption DEF IInv, TaskInv, HookInv, Tasks
<1>1. ASSUME NEW o \in Ops, Call(o) PROVE TaskInv'
  <2>1. CASE Refused(o)
    <3>1. /\ at[o] = "idle" /\ at' = [at EXCEPT ![o] = "refused"]
          /\ UNCHANGED <<inFlight, depth, result, hookFor>>
      BY <1>1, <2>1 DEF Call
    <3>2. depth[o] = 0 /\ o \notin hookFor
      BY <1>p, <3>1 DEF DepthInv, Active
    <3>3. Agree(o, "refused", depth[o])
      BY <1>p, <3>2 DEF Agree
    <3> QED
      BY <1>p, <3>1, <3>2, <3>3, GoesKept DEF Wheres
  <2>2. CASE ~Refused(o)
    <3>1. /\ at' = [at EXCEPT ![o] = "post"] /\ Holds(o, 1) /\ UNCHANGED <<result, hookFor>>
      BY <1>1, <2>2 DEF Call
    <3> QED
      BY <1>p, <3>1, PostKept
  <2> QED
    BY <2>1, <2>2
<1>2. ASSUME NEW t \in Tasks, Unauthorized(t) PROVE TaskInv'
  <2>1. /\ at[t] = "post" /\ at' = [at EXCEPT ![t] = "refresh"]
        /\ UNCHANGED <<inFlight, depth, result, hookFor>>
    BY <1>2 DEF Unauthorized
  <2>2. Agree(t, "refresh", depth[t])
    BY <1>p, <2>1 DEF Agree, DepthInv
  <2> QED
    BY <1>p, <2>1, <2>2, GoesKept DEF Wheres, Working
<1>3. CASE RefreshEnds
  <2> DEFINE J == {t \in Tasks : at[t] = "refresh"}
  <2>1. CASE /\ at' = [t \in Tasks |-> IF t \in J THEN "post" ELSE at[t]]
             /\ UNCHANGED <<inFlight, depth, result, hookFor>>
    BY <1>p, <2>1, JoinedPost
  <2>2. CASE /\ at' = [t \in Tasks |-> IF t \in J THEN "over" ELSE at[t]]
             /\ depth' = [t \in Tasks |-> IF t \in J THEN 0 ELSE depth[t]]
             /\ inFlight' = inFlight - Cardinality(Held(J))
             /\ result' = [k \in Artifacts |-> IF k \in J THEN "error" ELSE result[k]]
             /\ hookFor' = hookFor \ J
    BY <1>p, <2>2, JoinedEnd
  <2> QED
    BY <1>3, <2>1, <2>2 DEF RefreshEnds
<1>4. ASSUME NEW o \in Ops, CallEnds(o) PROVE TaskInv'
  BY <1>p, <1>4, EndsKept DEF CallEnds
<1>5. ASSUME NEW w \in Waiters, NEW k \in Artifacts, WaitFor(w, k) PROVE TaskInv'
  <2>1. CASE at[k] = "idle"
    <3>1. at' = [at EXCEPT ![k] = "new"] /\ UNCHANGED <<inFlight, depth, result, hookFor>>
      BY <1>5, <2>1 DEF WaitFor
    <3>2. Agree(k, "new", depth[k])
      BY <1>p, <2>1 DEF Agree, DepthInv
    <3> QED
      BY <1>p, <3>1, <3>2, GoesKept DEF Wheres, Working
  <2>2. CASE at[k] # "idle"
    <3>1. UNCHANGED <<at, inFlight, depth, refreshed, tries, expired, result, hookFor>>
      BY <1>5, <2>2 DEF WaitFor
    <3> QED
      BY <1>p, <3>1, TasksAlone DEF taskVars
  <2> QED
    BY <2>1, <2>2
<1>6. ASSUME NEW k \in Artifacts, PollBegins(k) PROVE TaskInv'
  <2>1. CASE Refused(k)
    BY <1>p, <1>6, <2>1, EndsKept DEF PollBegins
  <2>2. CASE ~Refused(k)
    BY <1>p, <1>6, <2>2, PostKept DEF PollBegins
  <2> QED
    BY <2>1, <2>2
<1>7. ASSUME NEW k \in Artifacts, PollAgain(k) PROVE TaskInv'
  BY <1>p, <1>7, PostKept DEF PollAgain
<1>8. ASSUME NEW k \in Artifacts, PollAnswered(k) PROVE TaskInv'
  <2>1. k \notin hookFor /\ (Ends(k, "done") \/ Ends(k, "error") \/ PollSleeps(k))
    BY <1>8 DEF PollAnswered
  <2> QED
    BY <1>p, <2>1, EndsKept, SleepsKept
<1>9. ASSUME NEW k \in Artifacts, Expire(k) PROVE TaskInv'
  <2>1. UNCHANGED <<at, inFlight, depth, result, hookFor>>
    BY <1>9 DEF Expire
  <2> QED
    BY <2>1, <1>p DEF TaskInv, TaskTypes, Counted, Held, DepthInv, HookInv, Active
<1>10. ASSUME NEW k \in Artifacts, PollCancelled(k) PROVE TaskInv'
  BY <1>p, <1>10, EndsKept DEF PollCancelled
<1>11. ASSUME NEW k \in Artifacts, Settle(k) PROVE TaskInv'
  <2>1. /\ at[k] = "over" /\ at' = [at EXCEPT ![k] = "idle"]
        /\ UNCHANGED <<inFlight, depth, result, hookFor>>
    BY <1>11 DEF Settle
  <2>2. Agree(k, "idle", depth[k]) /\ k \notin hookFor
    BY <1>p, <2>1 DEF Agree, DepthInv, Active
  <2> QED
    BY <1>p, <2>1, <2>2, GoesKept DEF Wheres
<1>12. ASSUME NEW w \in Waiters, CancelWaiter(w) PROVE TaskInv'
  BY <1>p, <1>12, TasksAlone DEF CancelWaiter, LeavesAlone
<1>13. CASE Poke
  BY <1>p, <1>13, TasksAlone DEF Poke
<1>14. CASE Close
  BY <1>p, <1>14, TasksAlone DEF Close
<1>15. CASE Drain \/ Drained \/ GiveUpDrain \/ RefuseDrain \/ CancelTeardown
  BY <1>p, <1>15, TasksAlone DEF Drain, Drained, GiveUpDrain, RefuseDrain, CancelTeardown
<1>16. CASE CancelRefresh
  <2> DEFINE J == IF refresh = "running" THEN {t \in Tasks : at[t] = "refresh"} ELSE {}
  <2>1. /\ at' = [t \in Tasks |-> IF t \in J THEN "over" ELSE at[t]]
        /\ depth' = [t \in Tasks |-> IF t \in J THEN 0 ELSE depth[t]]
        /\ inFlight' = inFlight - Cardinality(Held(J))
        /\ result' = [k \in Artifacts |-> IF k \in J THEN "cancelled" ELSE result[k]]
        /\ hookFor' = (hookFor \union Active) \ J
    BY <1>16 DEF CancelRefresh
  <2>2. J \in SUBSET Tasks /\ \A t \in J : at[t] = "refresh"
    OBVIOUS
  <2> HIDE DEF J
  <2>3. hookFor' \subseteq Active \ J
    BY <1>p, <2>1
  <2> QED
    BY <1>p, <2>1, <2>2, <2>3, JoinedEnd
<1>17. CASE SaveCookies \/ Aclose \/ Reopen
  BY <1>p, <1>17, TasksAlone DEF SaveCookies, Aclose, Reopen
<1>18. CASE UNCHANGED vars
  BY <1>p, <1>18, TasksAlone DEF vars
<1> QED
  BY <1>1, <1>2, <1>3, <1>4, <1>5, <1>6, <1>7, <1>8, <1>9, <1>10, <1>11, <1>12,
     <1>13, <1>14, <1>15, <1>16, <1>17, <1>18 DEF Next, TaskStep, CloseStep

-----------------------------------------------------------------------------
(* The polls' counters and the waiters. *)

\* What a task's step may do to the counters and the waiters.
LEMMA BooksKept == ASSUME IInv, [Next]_vars PROVE BookTypes'
<1>p. /\ BookTypes /\ MaxRetries \in Nat
      /\ \A k \in Artifacts : k \in Tasks
      /\ \A o \in Ops : o \in Tasks
  BY ShutdownAssumption DEF IInv, Tasks
<1> USE DEF BookTypes
<1>1. ASSUME NEW o \in Ops, Call(o) \/ CallEnds(o) PROVE BookTypes'
  BY <1>p, <1>1 DEF Call, CallEnds, Ends
<1>2. ASSUME NEW t \in Tasks, Unauthorized(t) PROVE BookTypes'
  BY <1>p, <1>2 DEF Unauthorized
<1>3. CASE RefreshEnds
  BY <1>p, <1>3 DEF RefreshEnds
<1>4. ASSUME NEW w \in Waiters, NEW k \in Artifacts, WaitFor(w, k) PROVE BookTypes'
  BY <1>p, <1>4 DEF WaitFor
<1>5. ASSUME NEW k \in Artifacts, PollBegins(k) \/ PollAgain(k) \/ PollCancelled(k)
      PROVE  BookTypes'
  BY <1>p, <1>5 DEF PollBegins, PollAgain, PollCancelled, Ends
<1>6. ASSUME NEW k \in Artifacts, PollAnswered(k) PROVE BookTypes'
  <2>1. /\ expired' = expired /\ refreshed' \subseteq refreshed
        /\ \/ tries' = tries
           \/ tries' = [tries EXCEPT ![k] = 0]
           \/ tries[k] < MaxRetries /\ tries' = [tries EXCEPT ![k] = @ + 1]
    BY <1>6 DEF PollAnswered, PollSleeps, Ends
  <2> QED
    BY <1>p, <2>1
<1>7. ASSUME NEW k \in Artifacts, Expire(k) \/ Settle(k) PROVE BookTypes'
  BY <1>p, <1>7 DEF Expire, Settle
<1>8. ASSUME NEW w \in Waiters, CancelWaiter(w) PROVE BookTypes'
  BY <1>p, <1>8 DEF CancelWaiter, taskVars
<1>9. CASE CancelRefresh
  BY <1>p, <1>9 DEF CancelRefresh
<1>10. CASE \/ Poke \/ Close \/ Drain \/ Drained \/ GiveUpDrain \/ RefuseDrain
            \/ CancelTeardown
  BY <1>p, <1>10 DEF Poke, Close, Drain, Drained, GiveUpDrain, RefuseDrain, CancelTeardown,
     taskVars
<1>11. CASE SaveCookies \/ Aclose \/ Reopen \/ UNCHANGED vars
  BY <1>p, <1>11 DEF SaveCookies, Aclose, Reopen, vars, taskVars
<1> QED
  BY <1>1, <1>2, <1>3, <1>4, <1>5, <1>6, <1>7, <1>8, <1>9, <1>10, <1>11
     DEF Next, TaskStep, CloseStep

\* A step is one of a task, of a waiter or of the closing, and each leaves the
\* others' state alone.
LEMMA Frame ==
    ASSUME [Next]_vars
    PROVE  \/ \E t \in Tasks : TaskStep(t) \/ Unauthorized(t)
           \/ \E o \in Ops : Call(o)
           \/ \E k \in Artifacts : Expire(k)
           \/ RefreshEnds
           \/ \E w \in Waiters : CancelWaiter(w) \/ \E k \in Artifacts : WaitFor(w, k)
           \/ Poke \/ Close \/ CloseStep \/ GiveUpDrain \/ RefuseDrain
           \/ CancelTeardown \/ Reopen \/ UNCHANGED vars
BY DEF Next

\* The steps of the tasks do not close anything.
LEMMA TasksDoNotClose ==
    ASSUME \/ \E t \in Tasks : TaskStep(t) \/ Unauthorized(t)
           \/ \E o \in Ops : Call(o)
           \/ \E k \in Artifacts : Expire(k)
           \/ RefreshEnds
    PROVE  UNCHANGED <<http, phase, caller, outcome, opens, draining, keepalive, faults>>
           /\ refresh' \in {refresh, "none", "running"}
<1> USE DEF closeVars
<1>1. ASSUME NEW t \in Ops, CallEnds(t)
      PROVE  UNCHANGED <<closeVars, faults, refresh>>
  BY <1>1 DEF CallEnds
<1>2. ASSUME NEW k \in Artifacts,
             PollBegins(k) \/ PollAgain(k) \/ PollAnswered(k) \/ PollCancelled(k) \/ Settle(k)
      PROVE  UNCHANGED <<closeVars, faults, refresh>>
  BY <1>2 DEF PollBegins, PollAgain, PollAnswered, PollCancelled, Settle
<1>3. ASSUME NEW t \in Tasks, Unauthorized(t)
      PROVE  UNCHANGED <<closeVars, faults>> /\ refresh' = "running"
  BY <1>3 DEF Unauthorized
<1>4. ASSUME NEW o \in Ops, Call(o) PROVE UNCHANGED <<closeVars, faults, refresh>>
  BY <1>4 DEF Call
<1>5. ASSUME NEW k \in Artifacts, Expire(k) PROVE UNCHANGED <<closeVars, faults, refresh>>
  BY <1>5 DEF Expire
<1>6. CASE RefreshEnds
  BY <1>6 DEF RefreshEnds
<1> QED
  BY <1>1, <1>2, <1>3, <1>4, <1>5, <1>6 DEF TaskStep

\* The steps of the waiters do not close anything either.
LEMMA WaitersDoNotClose ==
    ASSUME NEW w \in Waiters, CancelWaiter(w) \/ \E k \in Artifacts : WaitFor(w, k)
    PROVE  /\ UNCHANGED <<http, phase, caller, outcome, opens, draining, keepalive, refresh>>
           /\ faults' = faults \/ (faults < MaxFaults /\ faults' = faults + 1)
BY DEF CancelWaiter, WaitFor, closeVars

\* The closing keeps its types.
LEMMA CloseTyped == ASSUME IInv, [Next]_vars PROVE CloseTypes'
<1>p. CloseTypes /\ MaxOpens \in Nat /\ MaxFaults \in Nat
  BY ShutdownAssumption DEF IInv
<1> USE DEF CloseTypes, Teardown
<1>1. CASE \/ \E t \in Tasks : TaskStep(t) \/ Unauthorized(t)
           \/ \E o \in Ops : Call(o)
           \/ \E k \in Artifacts : Expire(k)
           \/ RefreshEnds
  BY <1>p, <1>1, TasksDoNotClose
<1>2. ASSUME NEW w \in Waiters, CancelWaiter(w) \/ \E k \in Artifacts : WaitFor(w, k)
      PROVE  CloseTypes'
  BY <1>p, <1>2, WaitersDoNotClose
<1>3. CASE Poke \/ Close
  BY <1>p, <1>3 DEF Poke, Close, KeepaliveStopped
<1>4. CASE Drain \/ Drained
  BY <1>p, <1>4 DEF Drain, Drained, KeepaliveStopped
<1>9. CASE GiveUpDrain
  <2>1. /\ faults' = faults + 1 /\ faults < MaxFaults /\ phase' = "keepalive"
        /\ outcome' \in {"timeout", "cancelled"} /\ keepalive' = "off"
        /\ UNCHANGED <<http, caller, opens, draining, refresh>>
    BY <1>9 DEF GiveUpDrain, KeepaliveStopped
  <2> QED
    BY <1>p, <2>1
<1>5. CASE CancelTeardown \/ RefuseDrain
  BY <1>p, <1>5 DEF CancelTeardown, RefuseDrain, GoesOn
<1>6. CASE CancelRefresh
  BY <1>p, <1>6 DEF CancelRefresh
<1>7. CASE SaveCookies \/ Aclose
  BY <1>p, <1>7 DEF SaveCookies, CloserWaits, Aclose
<1>10. CASE Reopen
  <2>1. opens < MaxOpens /\ opens' = opens + 1 /\ opens \in 1..MaxOpens
    BY <1>p, <1>10 DEF Reopen
  <2>2. opens' \in 1..MaxOpens
    BY <1>p, <2>1
  <2> QED
    BY <1>p, <1>10, <2>2 DEF Reopen
<1>8. CASE UNCHANGED vars
  BY <1>p, <1>8 DEF vars, closeVars
<1> QED
  BY <1>1, <1>2, <1>3, <1>4, <1>5, <1>6, <1>7, <1>8, <1>9, <1>10, Frame DEF CloseStep

\* The session ends last, the keepalive first.
LEMMA CloseKept == ASSUME IInv, [Next]_vars PROVE CloseInv'
<1>p. CloseInv /\ CloseTypes /\ DrainInv
  BY DEF IInv
<1> USE DEF CloseInv, Teardown
<1>1. CASE \/ \E t \in Tasks : TaskStep(t) \/ Unauthorized(t)
           \/ \E o \in Ops : Call(o)
           \/ \E k \in Artifacts : Expire(k)
           \/ RefreshEnds
  <2>1. UNCHANGED <<http, phase, caller, outcome, keepalive>>
    BY <1>1, TasksDoNotClose
  <2> QED
    BY <1>p, <2>1, Zenon
<1>2. ASSUME NEW w \in Waiters, CancelWaiter(w) \/ \E k \in Artifacts : WaitFor(w, k)
      PROVE  CloseInv'
  BY <1>p, <1>2, WaitersDoNotClose, Zenon
<1>3. CASE Poke \/ Close
  BY <1>p, <1>3 DEF Poke, Close, KeepaliveStopped
<1>4. CASE Drain \/ Drained \/ GiveUpDrain
  BY <1>p, <1>4 DEF Drain, Drained, GiveUpDrain, KeepaliveStopped, DrainInv
<1>5. CASE CancelTeardown \/ RefuseDrain
  BY <1>p, <1>5 DEF CancelTeardown, RefuseDrain, GoesOn, closeVars
<1>6. CASE CancelRefresh
  BY <1>p, <1>6 DEF CancelRefresh
<1>7. CASE SaveCookies \/ Aclose \/ Reopen
  BY <1>p, <1>7 DEF SaveCookies, CloserWaits, Aclose, Reopen
<1>8. CASE UNCHANGED vars
  BY <1>p, <1>8, Zenon DEF vars, closeVars
<1> QED
  BY <1>1, <1>2, <1>3, <1>4, <1>5, <1>6, <1>7, <1>8, Frame DEF CloseStep

\* Waiters keep their types: who is told is told how a poll ended.
LEMMA WaitTyped == ASSUME IInv, [Next]_vars PROVE WaitTypes'
<1>p. WaitTypes /\ TaskTypes /\ DepthInv /\ \A k \in Artifacts : k \in Tasks
  BY DEF IInv, TaskInv, Tasks
<1> USE DEF WaitTypes, waitVars
<1>1. ASSUME NEW k \in Artifacts, Settle(k) PROVE WaitTypes'
  <2>1. result[k] \in {"done", "error", "cancelled"}
    BY <1>p, <1>1 DEF Settle, DepthInv, TaskTypes, Results
  <2> QED
    BY <1>p, <1>1, <2>1 DEF Settle, Told
<1>2. ASSUME NEW w \in Waiters, CancelWaiter(w) \/ \E k \in Artifacts : WaitFor(w, k)
      PROVE  WaitTypes'
  BY <1>p, <1>2 DEF CancelWaiter, WaitFor
<1>3. ASSUME NEW t \in Ops, CallEnds(t) \/ Call(t) PROVE WaitTypes'
  BY <1>p, <1>3 DEF CallEnds, Call
<1>4. ASSUME NEW k \in Artifacts,
             PollBegins(k) \/ PollAgain(k) \/ PollAnswered(k) \/ PollCancelled(k) \/ Expire(k)
      PROVE  WaitTypes'
  BY <1>p, <1>4 DEF PollBegins, PollAgain, PollAnswered, PollCancelled, Expire
<1>5. ASSUME NEW t \in Tasks, Unauthorized(t) PROVE WaitTypes'
  BY <1>p, <1>5 DEF Unauthorized
<1>6. CASE RefreshEnds \/ Poke \/ Close \/ Drain \/ Drained \/ GiveUpDrain
  BY <1>p, <1>6 DEF RefreshEnds, Poke, Close, Drain, Drained, GiveUpDrain
<1>7. CASE \/ RefuseDrain \/ CancelTeardown \/ CancelRefresh \/ SaveCookies \/ Aclose
           \/ Reopen \/ UNCHANGED vars
  BY <1>p, <1>7 DEF RefuseDrain, CancelTeardown, CancelRefresh, SaveCookies, Aclose, Reopen, vars
<1> QED
  BY <1>1, <1>2, <1>3, <1>4, <1>5, <1>6, <1>7 DEF Next, TaskStep, CloseStep

-----------------------------------------------------------------------------
(* The drain. *)

\* While nobody holds anything and nobody is let in, nobody begins to.
LEMMA NobodyBegins ==
    ASSUME TaskInv, draining, \A t \in Tasks : depth[t] = 0,
           \/ \E t \in Tasks : TaskStep(t) \/ Unauthorized(t)
           \/ \E o \in Ops : Call(o)
           \/ \E k \in Artifacts : Expire(k)
           \/ RefreshEnds
    PROVE  \A t \in Tasks : depth'[t] = 0
<1>p. /\ TaskTypes /\ DepthInv
      /\ \A k \in Artifacts : k \in Tasks
      /\ \A o \in Ops : o \in Tasks
      /\ \A t \in Tasks : at[t] \notin {"post", "sleep", "refresh"}
  BY DEF TaskInv, Tasks, DepthInv
<1> USE DEF TaskTypes
<1>1. ASSUME NEW t \in Tasks, NEW how, Ends(t, how) PROVE \A u \in Tasks : depth'[u] = 0
  BY <1>p, <1>1 DEF Ends, Holds
<1>2. ASSUME NEW o \in Ops, Call(o) PROVE depth' = depth
  BY <1>p, <1>2 DEF Call, Refused
<1>3. ASSUME NEW t \in Ops, CallEnds(t) PROVE FALSE
  BY <1>p, <1>3 DEF CallEnds
<1>4. ASSUME NEW k \in Artifacts, PollAgain(k) \/ PollAnswered(k) PROVE FALSE
  BY <1>p, <1>4 DEF PollAgain, PollAnswered
<1>5. ASSUME NEW k \in Artifacts, PollBegins(k) \/ PollCancelled(k)
      PROVE  \A u \in Tasks : depth'[u] = 0
  BY <1>p, <1>1, <1>5 DEF PollBegins, PollCancelled, Refused
<1>6. ASSUME NEW k \in Artifacts, Settle(k) \/ Expire(k) PROVE depth' = depth
  BY <1>6 DEF Settle, Expire
<1>7. ASSUME NEW t \in Tasks, Unauthorized(t) PROVE FALSE
  BY <1>p, <1>7 DEF Unauthorized
<1>8. CASE RefreshEnds
  <2>1. depth' = depth \/ depth' = [t \in Tasks |-> IF t \in {u \in Tasks : at[u] = "refresh"}
                                                  THEN 0 ELSE depth[t]]
    BY <1>8 DEF RefreshEnds
  <2> QED
    BY <2>1
<1> QED
  BY <1>2, <1>3, <1>4, <1>5, <1>6, <1>7, <1>8 DEF TaskStep

\* A drain that goes well stays well, and leaves nobody.
LEMMA DrainKept == ASSUME IInv, [Next]_vars PROVE DrainInv'
<1>p. DrainInv /\ CloseTypes /\ TaskInv
  BY DEF IInv
<1> USE DEF DrainInv, Teardown
<1>1. CASE \/ \E t \in Tasks : TaskStep(t) \/ Unauthorized(t)
           \/ \E o \in Ops : Call(o)
           \/ \E k \in Artifacts : Expire(k)
           \/ RefreshEnds
  <2>1. UNCHANGED <<phase, outcome, draining>>
    BY <1>1, TasksDoNotClose
  <2>2. CASE outcome = "ok" /\ phase \in {"keepalive", "hooks2", "save", "aclose", "closed"}
    <3>1. draining /\ \A t \in Tasks : depth[t] = 0
      BY <1>p, <2>2
    <3>2. \A t \in Tasks : depth'[t] = 0
      BY <1>p, <1>1, <3>1, NobodyBegins
    <3> QED
      BY <2>1, <2>2, <3>1, <3>2
  <2>3. CASE ~(outcome = "ok" /\ phase \in {"keepalive", "hooks2", "save", "aclose", "closed"})
    BY <1>p, <2>1, <2>3
  <2> QED
    BY <2>2, <2>3
<1>2. ASSUME NEW w \in Waiters, CancelWaiter(w) \/ \E k \in Artifacts : WaitFor(w, k)
      PROVE  DrainInv'
  <2>1. UNCHANGED <<phase, outcome, draining, depth>>
    BY <1>2, WaitersDoNotClose DEF CancelWaiter, WaitFor, taskVars
  <2> QED
    BY <1>p, <2>1
<1>3. CASE Poke \/ Close
  BY <1>p, <1>3 DEF Poke, Close, taskVars
<1>4. CASE Drained
  <2>1. inFlight = 0 /\ phase = "drain" /\ phase' = "keepalive"
        /\ UNCHANGED <<outcome, draining, depth>>
    BY <1>4 DEF Drained, Idle, taskVars
  <2>2. \A t \in Tasks : depth[t] = 0
    BY <1>p, <2>1, ZeroMeansNobody DEF TaskInv
  <2> QED
    BY <1>p, <2>1, <2>2
<1>5. CASE Drain \/ GiveUpDrain \/ RefuseDrain
  BY <1>p, <1>5 DEF Drain, GiveUpDrain, RefuseDrain, taskVars
<1>6. CASE CancelTeardown
  BY <1>p, <1>6 DEF CancelTeardown, GoesOn, taskVars, closeVars
<1>7. CASE CancelRefresh
  <2>1. /\ phase = "keepalive" /\ phase' = "hooks2" /\ UNCHANGED <<outcome, draining>>
        /\ \A t \in Tasks : depth'[t] \in {0, depth[t]}
    BY <1>7 DEF CancelRefresh
  <2> QED
    BY <1>p, <2>1
<1>8. CASE SaveCookies \/ Aclose \/ Reopen
  BY <1>p, <1>8 DEF SaveCookies, Aclose, Reopen, taskVars
<1>9. CASE UNCHANGED vars
  BY <1>p, <1>9 DEF vars, closeVars, taskVars
<1> QED
  BY <1>1, <1>2, <1>3, <1>4, <1>5, <1>6, <1>7, <1>8, <1>9, Frame DEF CloseStep

-----------------------------------------------------------------------------
(* Cancelling. *)

\* In a first session nothing is cancelled before it is closed.
LEMMA CancelKept == ASSUME IInv, [Next]_vars PROVE CancelInv'
<1>p. /\ CancelInv /\ CloseTypes /\ WaitTypes /\ TaskTypes
      /\ \A k \in Artifacts : k \in Tasks
      /\ \A o \in Ops : o \in Tasks /\ o \notin Artifacts
  BY ShutdownAssumption DEF IInv, TaskInv, Tasks
<1> DEFINE Open == opens = 1 /\ phase = "open" /\ outcome # "refused"
           Calm == /\ hookFor = {} /\ \A k \in Artifacts : result[k] # "cancelled"
                   /\ \A w \in Waiters : waiter[w] # "cancelled"
<1>q. CancelInv = (Open => Calm)
  BY DEF CancelInv
<1>1. ASSUME NEW t \in Tasks, NEW how \in {"done", "error"}, Ends(t, how),
             UNCHANGED <<opens, phase, outcome, waiter>>
      PROVE  CancelInv'
  <2>1. Calm => Calm'
    BY <1>p, <1>1 DEF Ends, TaskTypes
  <2> QED
    BY <1>p, <1>1, <2>1 DEF CancelInv
<1>2. ASSUME UNCHANGED <<opens, phase, outcome, hookFor, result, waiter>> PROVE CancelInv'
  BY <1>p, <1>2 DEF CancelInv
<1>3. ASSUME NEW o \in Ops, Call(o) PROVE CancelInv'
  BY <1>2, <1>3 DEF Call, closeVars, waitVars
<1>4. ASSUME NEW t \in Tasks, Unauthorized(t) PROVE CancelInv'
  BY <1>2, <1>4 DEF Unauthorized, closeVars, waitVars
<1>5. CASE RefreshEnds
  <2>1. /\ UNCHANGED <<opens, phase, outcome, waiter>> /\ hookFor' \subseteq hookFor
        /\ \A k \in Artifacts : result'[k] \in {result[k], "error"}
    BY <1>p, <1>5 DEF RefreshEnds, closeVars, waitVars
  <2> QED
    BY <1>p, <2>1 DEF CancelInv
<1>6. ASSUME NEW o \in Ops, CallEnds(o) PROVE CancelInv'
  BY <1>p, <1>1, <1>6 DEF CallEnds, closeVars, waitVars
<1>7. ASSUME NEW w \in Waiters, CancelWaiter(w) \/ \E k \in Artifacts : WaitFor(w, k)
      PROVE  CancelInv'
  <2>1. /\ UNCHANGED <<opens, phase, outcome, hookFor, result>>
        /\ \E how \in {"left", "waiting"} : waiter' = [waiter EXCEPT ![w] = how]
    BY <1>7 DEF CancelWaiter, LeavesAlone, WaitFor, closeVars, taskVars
  <2> QED
    BY <1>p, <2>1 DEF CancelInv, WaitTypes
<1>8. ASSUME NEW k \in Artifacts, PollBegins(k) PROVE CancelInv'
  <2>1. UNCHANGED <<opens, phase, outcome, waiter>>
    BY <1>8 DEF PollBegins, closeVars, waitVars
  <2>2. Ends(k, "error") \/ UNCHANGED <<hookFor, result>>
    BY <1>8 DEF PollBegins
  <2> QED
    BY <1>p, <1>1, <1>2, <2>1, <2>2
<1>9. ASSUME NEW k \in Artifacts, PollAgain(k) \/ Expire(k) PROVE CancelInv'
  BY <1>2, <1>9 DEF PollAgain, Expire, closeVars, waitVars
<1>10. ASSUME NEW k \in Artifacts, PollAnswered(k) PROVE CancelInv'
  <2>1. UNCHANGED <<opens, phase, outcome, waiter>>
    BY <1>10 DEF PollAnswered, closeVars, waitVars
  <2>2. Ends(k, "done") \/ Ends(k, "error") \/ UNCHANGED <<hookFor, result>>
    BY <1>10 DEF PollAnswered, PollSleeps
  <2> QED
    BY <1>p, <1>1, <1>2, <2>1, <2>2
<1>11. ASSUME NEW k \in Artifacts, PollCancelled(k) PROVE CancelInv'
  <2>1. k \in hookFor /\ UNCHANGED <<opens, phase, outcome>>
    BY <1>11 DEF PollCancelled, closeVars
  <2> QED
    BY <1>p, <2>1 DEF CancelInv
<1>12. ASSUME NEW k \in Artifacts, Settle(k) PROVE CancelInv'
  <2>1. /\ UNCHANGED <<opens, phase, outcome, hookFor, result>>
        /\ \A w \in Waiters : waiter'[w] \in {waiter[w], result[k]}
    BY <1>12 DEF Settle, Told, closeVars
  <2> QED
    BY <1>p, <2>1 DEF CancelInv
<1>13. CASE Poke
  BY <1>2, <1>13 DEF Poke, taskVars, waitVars
<1>14. CASE \/ Close \/ Drain \/ Drained \/ GiveUpDrain \/ CancelTeardown
            \/ CancelRefresh \/ SaveCookies \/ Aclose
  <2>1. phase' # "open"
    BY <1>p, <1>14 DEF Close, Drain, Drained, GiveUpDrain, CancelTeardown, GoesOn,
       CancelRefresh, SaveCookies, Aclose, Teardown
  <2> QED
    BY <2>1 DEF CancelInv
<1>15. CASE Reopen \/ RefuseDrain
  <2>1. opens' # 1 \/ outcome' = "refused"
    BY <1>p, <1>15 DEF Reopen, RefuseDrain, CloseTypes
  <2> QED
    BY <2>1 DEF CancelInv
<1>16. CASE UNCHANGED vars
  BY <1>2, <1>16 DEF vars, taskVars, closeVars, waitVars
<1> QED
  BY <1>3, <1>4, <1>5, <1>6, <1>7, <1>8, <1>9, <1>10, <1>11, <1>12, <1>13, <1>14,
     <1>15, <1>16 DEF Next, TaskStep, CloseStep

-----------------------------------------------------------------------------
(* Who waits, and for what. *)

\* Every step keeps something under way under whoever waits.
LEMMA StayKept == ASSUME IInv, [Next]_vars PROVE StayInv'
<1>p. /\ StayInv /\ WaitTypes /\ TaskTypes
      /\ \A k \in Artifacts : k \in Tasks /\ k \notin Ops
      /\ \A o \in Ops : o \in Tasks /\ o \notin Artifacts
  BY ShutdownAssumption DEF IInv, TaskInv, Tasks
<1> USE DEF StayInv, WaitTypes, TaskTypes
<1>1. ASSUME NEW t \in Tasks, NEW how, Ends(t, how), UNCHANGED <<waiter, waitsFor, refresh>>
      PROVE  StayInv'
  BY <1>p, <1>1 DEF Ends
<1>2. ASSUME NEW t \in Tasks, NEW a \in {"sleep", "post"}, at' = [at EXCEPT ![t] = a],
             UNCHANGED <<waiter, waitsFor, refresh>>
      PROVE  StayInv'
  BY <1>p, <1>2
<1>3. ASSUME UNCHANGED <<at, waiter, waitsFor, refresh>> PROVE StayInv'
  BY <1>p, <1>3
<1>4. ASSUME NEW J \in SUBSET Tasks, \A t \in Tasks : at[t] = "refresh" => t \in J,
             NEW a \in {"over", "post"},
             at' = [t \in Tasks |-> IF t \in J THEN a ELSE at[t]],
             UNCHANGED <<waiter, waitsFor>>
      PROVE  StayInv'
  BY <1>p, <1>4
<1>5. ASSUME NEW o \in Ops, Call(o) PROVE StayInv'
  <2>1. /\ \E a \in {"refused", "post"} : at' = [at EXCEPT ![o] = a]
        /\ at[o] = "idle" /\ UNCHANGED <<waiter, waitsFor, refresh>>
    BY <1>5 DEF Call, waitVars
  <2> QED
    BY <1>p, <2>1
<1>6. ASSUME NEW t \in Tasks, Unauthorized(t) PROVE StayInv'
  BY <1>p, <1>6 DEF Unauthorized, waitVars
<1>7. CASE RefreshEnds
  <2> DEFINE J == {t \in Tasks : at[t] = "refresh"}
  <2>1. /\ \E a \in {"over", "post"} : at' = [t \in Tasks |-> IF t \in J THEN a ELSE at[t]]
        /\ UNCHANGED <<waiter, waitsFor>>
    BY <1>7 DEF RefreshEnds, waitVars
  <2> QED
    BY <1>4, <2>1
<1>8. ASSUME NEW o \in Ops, CallEnds(o) PROVE StayInv'
  BY <1>p, <1>1, <1>8 DEF CallEnds, waitVars
<1>9. ASSUME NEW w \in Waiters, NEW k \in Artifacts, WaitFor(w, k) PROVE StayInv'
  <2>1. /\ waiter' = [waiter EXCEPT ![w] = "waiting"] /\ waitsFor' = [waitsFor EXCEPT ![w] = k]
        /\ at' = IF at[k] = "idle" THEN [at EXCEPT ![k] = "new"] ELSE at
        /\ refresh' = refresh
    BY <1>9 DEF WaitFor
  <2> QED
    BY <1>p, <2>1
<1>10. ASSUME NEW w \in Waiters, CancelWaiter(w) PROVE StayInv'
  BY <1>p, <1>10 DEF CancelWaiter, taskVars
<1>11. ASSUME NEW k \in Artifacts, PollBegins(k) PROVE StayInv'
  BY <1>p, <1>1, <1>2, <1>11 DEF PollBegins, waitVars
<1>12. ASSUME NEW k \in Artifacts, PollAgain(k) PROVE StayInv'
  BY <1>p, <1>2, <1>12 DEF PollAgain, waitVars
<1>13. ASSUME NEW k \in Artifacts, PollAnswered(k) PROVE StayInv'
  <2>1. UNCHANGED <<waiter, waitsFor, refresh>>
    BY <1>13 DEF PollAnswered, waitVars
  <2>2. Ends(k, "done") \/ Ends(k, "error") \/ at' = [at EXCEPT ![k] = "sleep"]
    BY <1>13 DEF PollAnswered, PollSleeps
  <2> QED
    BY <1>p, <1>1, <1>2, <2>1, <2>2
<1>14. ASSUME NEW k \in Artifacts, PollCancelled(k) PROVE StayInv'
  BY <1>p, <1>1, <1>14 DEF PollCancelled, waitVars
<1>15. ASSUME NEW k \in Artifacts, Settle(k) PROVE StayInv'
  <2>1. /\ at' = [at EXCEPT ![k] = "idle"] /\ waiter' = Told(k)
        /\ UNCHANGED <<waitsFor, refresh>>
    BY <1>15 DEF Settle
  <2>2. \A w \in Waiters : waiter'[w] = "waiting" => waiter[w] = "waiting" /\ waitsFor[w] # k
    BY <1>p, <2>1 DEF Told, Results
  <2> QED
    BY <1>p, <2>1, <2>2
<1>16. CASE CancelRefresh
  <2> DEFINE J == IF refresh = "running" THEN {t \in Tasks : at[t] = "refresh"} ELSE {}
  <2>1. /\ at' = [t \in Tasks |-> IF t \in J THEN "over" ELSE at[t]]
        /\ UNCHANGED <<waiter, waitsFor>>
    BY <1>16 DEF CancelRefresh, waitVars
  <2>2. \A t \in Tasks : at[t] = "refresh" => t \in J
    BY <1>p
  <2> QED
    BY <1>4, <2>1, <2>2
<1>17. ASSUME NEW k \in Artifacts, Expire(k) PROVE StayInv'
  BY <1>3, <1>17 DEF Expire, waitVars
<1>18. CASE \/ Poke \/ Close \/ Drain \/ Drained \/ GiveUpDrain \/ RefuseDrain
            \/ CancelTeardown \/ SaveCookies \/ Aclose \/ Reopen \/ UNCHANGED vars
  BY <1>3, <1>18 DEF Poke, Close, Drain, Drained, GiveUpDrain, RefuseDrain, CancelTeardown,
     SaveCookies, Aclose, Reopen, vars, taskVars, waitVars
<1> QED
  BY <1>5, <1>6, <1>7, <1>8, <1>9, <1>10, <1>11, <1>12, <1>13, <1>14, <1>15, <1>16,
     <1>17, <1>18 DEF Next, TaskStep, CloseStep

-----------------------------------------------------------------------------
\* A new client is open, and nothing is under way.
LEMMA InitKept == Init => IInv
<1> SUFFICES ASSUME Init PROVE IInv
  OBVIOUS
<1>1. TaskTypes /\ DepthInv /\ HookInv
  BY DEF Init, TaskTypes, Wheres, Results, DepthInv, HookInv
<1>2. Counted
  BY NobodyHolds DEF Init, Counted, Held, Places
<1>3. BookTypes
  BY ShutdownAssumption DEF Init, BookTypes
<1>4. WaitTypes
  <2>1. ASSUME NEW w \in Waiters PROVE (CHOOSE k \in Artifacts : TRUE) \in Artifacts
    BY ShutdownAssumption
  <2> QED
    BY <2>1 DEF Init, WaitTypes
<1>5. CloseTypes
  <2>1. 1 \in 1..MaxOpens /\ 0 \in 0..MaxFaults
    BY ShutdownAssumption
  <2> QED
    BY <2>1 DEF Init, CloseTypes
<1>6. CloseInv /\ DrainInv /\ CancelInv /\ StayInv
  BY DEF Init, CloseInv, DrainInv, CancelInv, StayInv, Tasks, Teardown
<1> QED
  BY <1>1, <1>2, <1>3, <1>4, <1>5, <1>6 DEF IInv, TaskInv

\* The inductive invariant holds in every reachable state.
THEOREM Invariance == Spec => []IInv
<1>1. IInv /\ [Next]_vars => IInv'
  BY TaskStepKept, BooksKept, WaitTyped, CloseTyped, CloseKept, DrainKept, CancelKept,
     StayKept DEF IInv
<1> QED
  BY <1>1, InitKept, PTL DEF Spec

\* What close() leaves: the tracker's count is what the tasks hold, the session is
\* closed when close() has returned, and the keepalive pokes on none
\* (_transport_drain.py, client.py, lifecycle.py).
THEOREM CloseIsSound == Spec => []ClosedInv
<1>1. IInv => TypeOK
  BY DEF IInv, TaskInv, TaskTypes, Counted, HookInv, BookTypes, WaitTypes, CloseTypes,
     TypeOK, Wheres, Results
<1>2. IInv => ReturnMeansClosed /\ NoPokeOnClosed
  <2> SUFFICES ASSUME IInv PROVE ReturnMeansClosed /\ NoPokeOnClosed
    OBVIOUS
  <2>1. CloseInv /\ http \in BOOLEAN
    BY DEF IInv, CloseTypes
  <2> QED
    BY <2>1 DEF CloseInv, ReturnMeansClosed, NoPokeOnClosed
<1> QED
  BY <1>1, <1>2, Invariance, PTL DEF ClosedInv

\* After a drain that was seen to its end nothing is under way and nothing begins
\* until the client is opened again (begin_transport_post, drain).
THEOREM NothingAfterDrain == Spec => []DrainedIsIdle
<1>1. IInv => DrainedIsIdle
  BY NobodyHolds DEF IInv, TaskInv, Counted, Held, Places, DrainInv, DrainedIsIdle
<1> QED
  BY <1>1, Invariance, PTL

\* No waiter is told of a cancelled poll in a first session that nobody closes: a
\* waiter that is cancelled takes nobody with it (asyncio.shield in polling.py).
THEOREM CancelledByClose == Spec => []OnlyCloseCancels
<1>1. IInv => OnlyCloseCancels
  BY DEF IInv, CancelInv, OnlyCloseCancels, CloseTypes
<1> QED
  BY <1>1, Invariance, PTL

\* Nobody waits for a poll that has gone, a refresh that does not run or a count that
\* nobody holds (_resolve_poll, await_refresh, finish_transport_post).
THEOREM NobodyStranded == Spec => []NobodyIsLeftBehind
<1>1. IInv => NobodyIsLeftBehind
  <2> SUFFICES ASSUME IInv PROVE NobodyIsLeftBehind
    OBVIOUS
  <2>1. TaskTypes /\ Counted /\ DepthInv /\ WaitTypes /\ StayInv
    BY DEF IInv, TaskInv
  <2>2. ASSUME NEW w \in Waiters, waiter[w] = "waiting"
        PROVE  waitsFor[w] \in Active \/ at[waitsFor[w]] = "over"
    <3>1. waitsFor[w] \in Artifacts /\ waitsFor[w] \in Tasks
      BY <2>1 DEF WaitTypes, Tasks
    <3>2. at[waitsFor[w]] \in Wheres \ {"idle", "refused"}
      BY <2>1, <2>2, <3>1 DEF TaskTypes, StayInv
    <3> QED
      BY <3>1, <3>2 DEF Active, Wheres
  <2>3. ASSUME inFlight > 0 PROVE \E t \in Tasks : at[t] \in {"sleep", "post", "refresh"}
    <3>1. PICK t \in Tasks : depth[t] # 0
      BY <2>1, <2>3, NobodyHolds DEF Counted, Held, Places
    <3> QED
      BY <2>1, <3>1 DEF TaskTypes, DepthInv, Wheres
  <2> QED
    BY <2>1, <2>2, <2>3 DEF StayInv, NobodyIsLeftBehind
<1> QED
  BY <1>1, Invariance, PTL

=============================================================================
