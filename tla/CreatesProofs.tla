--------------------------- MODULE CreatesProofs ---------------------------
(***************************************************************************)
(* Proofs about Creates for any callers, kinds of call and bounds: a call  *)
(* writes into nothing that was there before it, leaves one resource at    *)
(* most and takes its own, unless the service acts after a probe has       *)
(* looked, and keeps its counters within their bounds.                     *)
(***************************************************************************)
EXTENDS Creates, FiniteSetTheorems, TLAPS

Kinds == {"notebook", "padded", "source", "file", "text", "rename"}

Places == {"idle", "post", "sent", "refreshHttp", "refreshRpc", "probe", "confirm", "done"}

\* The types the proofs need; ids are not bounded.
Typed ==
    /\ kind \in [Callers -> Kinds]
    /\ shelf \subseteq [id : Nat, kind : Kinds, by : Callers \union {Other}, n : Nat]
    /\ wire \subseteq [by : Callers, n : Nat]
    /\ pc \in [Callers -> Places]
    /\ baseline \in [Callers -> [read : BOOLEAN, ids : SUBSET Nat]]
    /\ before \in [Callers -> SUBSET Nat]
    /\ attempt \in [Callers -> Nat] /\ posts \in [Callers -> Nat]
    /\ result \in [Callers -> [how : {"none", "created", "probed", "error"}, id : Nat]]
    /\ blind \subseteq Callers

\* The service numbers its resources, and keeps each as it was asked for.
ShelfInv ==
    /\ IsFiniteSet(shelf)
    /\ \A r \in shelf : r.id \in 1..Cardinality(shelf)
    /\ \A r \in shelf : r.by \in Callers => r.kind = Sort(r.by)

\* What is a call's own came after it began; the baseline, if there is one, is
\* what was there then; what it returns or writes to is not.
OldInv ==
    \A c \in Callers :
        /\ before[c] \subseteq Ids
        /\ pc[c] = "idle" => /\ Own(c) = {} /\ \A w \in wire : w.by # c
                            /\ result[c].how = "none" /\ ~baseline[c].read
        /\ pc[c] = "confirm" => kind[c] = "file"
        /\ \A r \in Own(c) : r.id \notin before[c]
        /\ baseline[c].ids = IF baseline[c].read THEN before[c] ELSE {}
        /\ (/\ result[c].how \in {"created", "probed"}
            /\ kind[c] = "file" \/ (kind[c] = "notebook" /\ baseline[c].read)
                \/ (kind[c] = "source" /\ result[c].how = "created"))
            => result[c].id \notin before[c]

IInv == Typed /\ ShelfInv /\ OldInv

-----------------------------------------------------------------------------
\* The service shelves a resource under a new number.
LEMMA ShelveTyped ==
    ASSUME Typed, ShelfInv, NEW what \in Kinds, NEW by \in Callers \union {Other},
           NEW n \in Nat, Shelve(what, by, n)
    PROVE  /\ shelf' \subseteq [id : Nat, kind : Kinds, by : Callers \union {Other}, n : Nat]
           /\ IsFiniteSet(shelf')
           /\ \A r \in shelf' : r.id \in 1..Cardinality(shelf')
           /\ Cardinality(shelf) + 1 \notin Ids
<1> DEFINE N == Cardinality(shelf) + 1
           new == [id |-> N, kind |-> what, by |-> by, n |-> n]
<1>1. Cardinality(shelf) \in Nat
  BY FS_CardinalityType DEF ShelfInv
<1>2. shelf' = shelf \union {new}
  BY DEF Shelve
<1>3. new \notin shelf
  BY <1>1 DEF ShelfInv
<1>4. IsFiniteSet(shelf') /\ Cardinality(shelf') = N
  BY <1>2, <1>3, FS_AddElement DEF ShelfInv
<1>5. \A r \in shelf' : r.id \in 1..N
  BY <1>1, <1>2 DEF ShelfInv
<1>6. shelf' \subseteq [id : Nat, kind : Kinds, by : Callers \union {Other}, n : Nat]
  BY <1>1, <1>2 DEF Typed
<1>7. \A r \in shelf : r.id <= Cardinality(shelf) /\ r.id \in Nat
  BY <1>1 DEF ShelfInv
<1>8. N \notin Ids
  BY <1>1, <1>7 DEF Ids
<1> QED
  BY <1>4, <1>5, <1>6, <1>8

\* The initial state is well typed.
LEMMA TypedInit == Init => Typed /\ ShelfInv
<1> SUFFICES ASSUME Init PROVE Typed /\ ShelfInv
  OBVIOUS
<1>1. kind \in [Callers -> Kinds]
  BY CreatesAssumption DEF Init, Kinds
<1> QED
  BY <1>1, FS_EmptySet DEF Init, Typed, Places, ShelfInv, NoneYet

\* What a step of a call may do to the types: go on, and end with a result.
LEMMA CallTyped ==
    ASSUME Typed, ShelfInv, NEW c \in Callers, NEW at \in Places,
           UNCHANGED <<shelf, kind, baseline, before, posts>>,
           wire' \subseteq wire, blind' \subseteq blind \union {c},
           pc' = [pc EXCEPT ![c] = at],
           attempt' \in {attempt, [attempt EXCEPT ![c] = @ + 1]},
           \/ result' = result
           \/ \E how \in {"created", "probed", "error"}, id \in Nat :
                 result' = [result EXCEPT ![c] = [how |-> how, id |-> id]]
    PROVE  Typed' /\ ShelfInv'
<1> USE DEF Typed, Places
<1>1. ShelfInv'
  BY DEF ShelfInv, Sort
<1>2. result' \in [Callers -> [how : {"none", "created", "probed", "error"}, id : Nat]]
  <2>1. CASE result' = result
    BY <2>1
  <2>2. ASSUME NEW how \in {"created", "probed", "error"}, NEW id \in Nat,
               result' = [result EXCEPT ![c] = [how |-> how, id |-> id]]
        PROVE  result' \in [Callers -> [how : {"none", "created", "probed", "error"}, id : Nat]]
    BY <2>2
  <2> QED
    BY <2>1, <2>2
<1>3. attempt' \in [Callers -> Nat] /\ posts' \in [Callers -> Nat]
  OBVIOUS
<1>4. pc' \in [Callers -> Places]
  OBVIOUS
<1> QED
  BY <1>1, <1>2, <1>3, <1>4

\* Every step keeps the types and the shelf.
LEMMA TypedStep ==
    ASSUME Typed, ShelfInv, [Next]_vars
    PROVE  Typed' /\ ShelfInv'
<1> USE CreatesAssumption DEF Typed, MaxAttempts, Places, historyVars
<1> DEFINE Still == shelf' = shelf /\ kind' = kind
<1>1. Still => ShelfInv'
  BY DEF ShelfInv, Sort
<1>2. ASSUME NEW k \in {"notebook", "source"}, Foreign(k) PROVE Typed' /\ ShelfInv'
  <2>1. k \in Kinds /\ 0 \in Nat /\ Shelve(k, Other, 0)
    BY <1>2 DEF Foreign, Kinds
  <2>2. \A r \in shelf' : r.by \in Callers => r.kind = Sort(r.by)'
    BY <1>2 DEF Foreign, Shelve, ShelfInv, Sort
  <2> QED
    BY <1>2, <2>1, <2>2, ShelveTyped DEF Foreign, ShelfInv, retryVars, callVars
<1>3. ASSUME NEW w \in wire, Commit(w) PROVE Typed' /\ ShelfInv'
  <2>1. /\ w.by \in Callers /\ w.n \in Nat /\ Sort(w.by) \in Kinds
        /\ Shelve(Sort(w.by), w.by, w.n)
    BY <1>3 DEF Commit, Sort, Kinds
  <2>2. \A r \in shelf' : r.by \in Callers => r.kind = Sort(r.by)'
    BY <1>3, <2>1 DEF Commit, Shelve, ShelfInv, Sort
  <2> QED
    BY <1>3, <2>1, <2>2, ShelveTyped DEF Commit, ShelfInv, retryVars, callVars
<1>4. ASSUME NEW c \in Callers, Begin(c) PROVE Typed' /\ ShelfInv'
  <2>1. Ids \in SUBSET Nat
    BY DEF Ids
  <2>2. baseline' \in [Callers -> [read : BOOLEAN, ids : SUBSET Nat]]
    <3>1. CASE baseline' = [baseline EXCEPT ![c] = [read |-> TRUE, ids |-> Ids]]
      <4>1. [read |-> TRUE, ids |-> Ids] \in [read : BOOLEAN, ids : SUBSET Nat]
        BY <2>1
      <4> QED
        BY <3>1, <4>1
    <3>2. CASE UNCHANGED baseline
      BY <3>2
    <3> QED
      BY <1>4, <3>1, <3>2 DEF Begin
  <2>3. before' \in [Callers -> SUBSET Nat] /\ UNCHANGED <<shelf, kind, wire, result, blind>>
    BY <1>4, <2>1 DEF Begin, serviceVars
  <2>4. UNCHANGED <<attempt, posts>>
    BY <1>4 DEF Begin
  <2>5. pc' = [pc EXCEPT ![c] = "post"]
    BY <1>4 DEF Begin
  <2> QED
    BY <1>1, <2>2, <2>3, <2>4, <2>5
<1>5. ASSUME NEW c \in Callers, Post(c) PROVE Typed' /\ ShelfInv'
  BY <1>5, <1>1 DEF Post, serviceVars, retryVars, callVars
<1>6. ASSUME NEW c \in Callers, Answered(c) PROVE Typed' /\ ShelfInv'
  <2>1. UNCHANGED <<shelf, kind, baseline, before, posts, wire, attempt, blind>>
    BY <1>6 DEF Answered, serviceVars, callVars
  <2>2. /\ pc' = [pc EXCEPT ![c] = "done"]
        /\ \E id \in Nat : result' = [result EXCEPT ![c] = [how |-> "created", id |-> id]]
    BY <1>6 DEF Answered, Return
  <2> QED
    BY <2>1, <2>2, CallTyped
<1>7. ASSUME NEW c \in Callers, Garbled(c) \/ Transient(c) PROVE Typed' /\ ShelfInv'
  <2>1. /\ UNCHANGED <<shelf, kind, baseline, before, posts, attempt, blind>>
        /\ wire' \subseteq wire
    BY <1>7 DEF Garbled, Transient, serviceVars, callVars
  <2>2. /\ \E at \in {"confirm", "probe", "done"} : pc' = [pc EXCEPT ![c] = at]
        /\ \/ result' = result
           \/ result' = [result EXCEPT ![c] = [how |-> "error", id |-> 0]]
    BY <1>7 DEF Garbled, Transient, Fail
  <2> QED
    BY <2>1, <2>2, CallTyped
<1>8. ASSUME NEW c \in Callers, Rejected(c) PROVE Typed' /\ ShelfInv'
  BY <1>8, <1>1 DEF Rejected, Fail, serviceVars, retryVars, callVars
<1>9. ASSUME NEW c \in Callers, Retry(c) PROVE Typed' /\ ShelfInv'
  BY <1>9, <1>1 DEF Retry, serviceVars, retryVars, callVars
<1>11. ASSUME NEW c \in Callers, Unauthorized(c) PROVE Typed' /\ ShelfInv'
  BY <1>11, <1>1 DEF Unauthorized, serviceVars, retryVars, callVars
<1>12. ASSUME NEW c \in Callers, AuthDecoded(c) PROVE Typed' /\ ShelfInv'
  BY <1>12, <1>1 DEF AuthDecoded, serviceVars, retryVars, callVars
<1>13. ASSUME NEW c \in Callers, RefreshFails(c) PROVE Typed' /\ ShelfInv'
  BY <1>13, <1>1 DEF RefreshFails, Fail, serviceVars, retryVars, callVars
<1>14. ASSUME NEW c \in Callers, Refreshed(c) PROVE Typed' /\ ShelfInv'
  BY <1>14, <1>1 DEF Refreshed, serviceVars, retryVars, callVars
<1>15. ASSUME NEW c \in Callers, ProbeFinds(c) PROVE Typed' /\ ShelfInv'
  BY <1>15, <1>1 DEF ProbeFinds, Return, Candidates, serviceVars, retryVars, callVars
<1>16. ASSUME NEW c \in Callers, ProbeRefuses(c) PROVE Typed' /\ ShelfInv'
  BY <1>16, <1>1 DEF ProbeRefuses, Fail, serviceVars, retryVars, callVars
<1>17. ASSUME NEW c \in Callers, ProbeFindsNothing(c) \/ ProbeIsBlind(c)
       PROVE  Typed' /\ ShelfInv'
  <2>1. UNCHANGED <<shelf, kind, baseline, before, posts, wire>> /\ blind' \subseteq blind \union {c}
    BY <1>17 DEF ProbeFindsNothing, ProbeIsBlind, NextAttempt, Fail, serviceVars, callVars
  <2>2. /\ \E at \in {"post", "done"} : pc' = [pc EXCEPT ![c] = at]
        /\ attempt' \in {attempt, [attempt EXCEPT ![c] = @ + 1]}
        /\ \/ result' = result
           \/ result' = [result EXCEPT ![c] = [how |-> "error", id |-> 0]]
    BY <1>17 DEF ProbeFindsNothing, ProbeIsBlind, NextAttempt, Fail, callVars
  <2> QED
    BY <2>1, <2>2, CallTyped
<1>19. ASSUME NEW c \in Callers, ProbeFails(c) PROVE Typed' /\ ShelfInv'
  BY <1>19, <1>1 DEF ProbeFails, ProbeFailureEnds, Fail, serviceVars, retryVars, callVars
<1>20. ASSUME NEW c \in Callers, Confirm(c) PROVE Typed' /\ ShelfInv'
  <2>1. UNCHANGED <<shelf, kind, baseline, before, posts, wire, attempt, blind>>
    BY <1>20 DEF Confirm, serviceVars, callVars
  <2>2. /\ pc' = [pc EXCEPT ![c] = "done"]
        /\ \E how \in {"created", "error"}, id \in Nat :
              result' = [result EXCEPT ![c] = [how |-> how, id |-> id]]
    <3>1. CASE Fail(c)
      BY <3>1 DEF Fail
    <3>2. CASE \E r \in Candidates(c) : Return(c, "created", r.id)
      BY <3>2 DEF Return, Candidates
    <3> QED
      BY <1>20, <3>1, <3>2 DEF Confirm
  <2> QED
    BY <2>1, <2>2, CallTyped
<1>21. CASE UNCHANGED vars
  BY <1>21, <1>1 DEF vars, serviceVars, retryVars, callVars
<1> QED
  BY <1>2, <1>3, <1>4, <1>5, <1>6, <1>7, <1>8, <1>9, <1>11, <1>12, <1>13, <1>14, <1>15, <1>16,
     <1>17, <1>19, <1>20, <1>21 DEF Next, Step

-----------------------------------------------------------------------------
(* What was there before a call. *)

\* Nobody has begun.
LEMMA OldInit == Init => OldInv
<1> SUFFICES ASSUME Init PROVE OldInv
  OBVIOUS
<1>1. Ids = {} /\ \A c \in Callers : Own(c) = {}
  BY DEF Init, Ids, Own
<1> QED
  BY <1>1 DEF Init, OldInv, NoneYet

\* A new resource keeps what is old old, if its maker has begun.
LEMMA ShelveOld ==
    ASSUME Typed, ShelfInv, OldInv, NEW what \in Kinds,
           NEW by \in Callers \union {Other}, NEW n \in Nat,
           by \in Callers => pc[by] # "idle", wire' \subseteq wire,
           Shelve(what, by, n), UNCHANGED <<pc, kind, baseline, before, result>>
    PROVE  OldInv'
<1> DEFINE new == [id |-> Cardinality(shelf) + 1, kind |-> what, by |-> by, n |-> n]
<1>1. shelf' = shelf \union {new} /\ new.id \notin Ids
  BY ShelveTyped DEF Shelve
<1>2. Ids \subseteq Ids'
  BY <1>1 DEF Ids
<1>3. ASSUME NEW c \in Callers
      PROVE  Own(c)' = Own(c) \/ (c = by /\ Own(c)' = Own(c) \union {new})
  BY <1>1, <1>3 DEF Own
<1>4. ASSUME NEW c \in Callers
      PROVE  /\ pc[c] = "idle" => Own(c)' = {} /\ \A w \in wire' : w.by # c
             /\ \A r \in Own(c)' : r.id \notin before[c]
             /\ before[c] \subseteq Ids'
  BY <1>1, <1>2, <1>3, <1>4 DEF OldInv
<1> QED
  BY <1>4 DEF OldInv

\* A step of a call that is under way: it posts, waits, fails or returns what is
\* not old.
LEMMA SameOld ==
    ASSUME Typed, OldInv, NEW c \in Callers, pc[c] # "idle",
           UNCHANGED <<shelf, kind, baseline, before>>,
           \A d \in Callers : d # c => pc'[d] = pc[d] /\ result'[d] = result[d],
           pc'[c] # "idle", pc'[c] = "confirm" => kind[c] = "file",
           \A w \in wire' : w \in wire \/ w.by = c,
           \/ result'[c] = result[c]
           \/ result'[c].how = "error"
           \/ result'[c].how = "created" /\ kind[c] = "rename"
           \/ result'[c].how = "probed" /\ kind[c] = "source"
           \/ kind[c] = "notebook" /\ ~baseline[c].read
           \/ result'[c].id \notin before[c]
    PROVE  OldInv'
<1>1. Ids' = Ids /\ \A d \in Callers : Own(d)' = Own(d)
  BY DEF Ids, Own
<1> QED
  BY <1>1 DEF OldInv

\* What a probe picks as the only match was not there before a notebook's or a
\* file's call.
LEMMA PickedIsNew ==
    ASSUME Typed, OldInv, NEW c \in Callers, ~Ambiguous(c), NEW r \in Candidates(c),
           kind[c] = "file" \/ (kind[c] = "notebook" /\ baseline[c].read)
    PROVE  r.id \notin before[c]
<1>1. r.id \notin baseline[c].ids
  BY DEF Candidates
<1>2. kind[c] = "file" => baseline[c].read
  BY DEF Ambiguous
<1> QED
  BY <1>1, <1>2 DEF OldInv, Typed

\* No step takes what was there before the call.
LEMMA OldStep ==
    ASSUME Typed, ShelfInv, OldInv, [Next]_vars
    PROVE  OldInv'
<1> USE DEF Typed
<1>1. ASSUME NEW k \in {"notebook", "source"}, Foreign(k) PROVE OldInv'
  <2>1. k \in Kinds /\ 0 \in Nat /\ Shelve(k, Other, 0) /\ Other \notin Callers
    BY <1>1, CreatesAssumption DEF Foreign, Kinds
  <2> QED
    BY <1>1, <2>1, ShelveOld DEF Foreign, callVars
<1>2. ASSUME NEW w \in wire, Commit(w) PROVE OldInv'
  <2>1. /\ w.by \in Callers /\ w.n \in Nat /\ Sort(w.by) \in Kinds
        /\ Shelve(Sort(w.by), w.by, w.n) /\ pc[w.by] # "idle" /\ wire' \subseteq wire
    BY <1>2 DEF Commit, OldInv, Sort, Kinds
  <2> QED
    BY <1>2, <2>1, ShelveOld DEF Commit, callVars
<1>3. ASSUME NEW c \in Callers, Begin(c) PROVE OldInv'
  <2>1. Ids' = Ids /\ \A d \in Callers : Own(d)' = Own(d)
    BY <1>3 DEF Begin, serviceVars, Ids, Own
  <2>2. Own(c) = {} /\ pc' = [pc EXCEPT ![c] = "post"] /\ result[c].how = "none"
    BY <1>3 DEF Begin, OldInv
  <2>3. /\ before' = [before EXCEPT ![c] = Ids]
        /\ \A d \in Callers : d # c => baseline'[d] = baseline[d]
        /\ UNCHANGED <<result, kind, wire>>
    BY <1>3 DEF Begin, serviceVars
  <2>4. baseline'[c].ids = IF baseline'[c].read THEN Ids ELSE {}
    BY <1>3 DEF Begin, OldInv
  <2>5. /\ before'[c] = Ids /\ \A r \in Own(c)' : r.id \notin before'[c]
        /\ pc'[c] = "post" /\ baseline'[c].ids = IF baseline'[c].read THEN before'[c] ELSE {}
        /\ before'[c] \subseteq Ids' /\ result'[c].how = "none"
    BY <2>1, <2>2, <2>3, <2>4
  <2>6. ASSUME NEW d \in Callers, d # c
        PROVE  /\ before'[d] = before[d] /\ pc'[d] = pc[d] /\ result'[d] = result[d]
               /\ baseline'[d] = baseline[d] /\ Own(d)' = Own(d) /\ kind'[d] = kind[d]
    BY <2>1, <2>2, <2>3, <2>6
  <2> QED
    BY <2>1, <2>3, <2>5, <2>6 DEF OldInv
<1>4. ASSUME NEW c \in Callers, Answered(c) PROVE OldInv'
  <2>1. UNCHANGED <<shelf, wire, kind, baseline, before>>
    BY <1>4 DEF Answered, serviceVars, callVars
  <2>2. /\ pc[c] = "sent" /\ pc' = [pc EXCEPT ![c] = "done"]
        /\ \/ /\ ~Creating(c)
              /\ result' = [result EXCEPT ![c] = [how |-> "created", id |-> 0]]
           \/ \E r \in Own(c) : result' = [result EXCEPT ![c] =
                                             [how |-> "created", id |-> r.id]]
    BY <1>4 DEF Answered, Return, Own
  <2>3. \/ result'[c].how = "created" /\ kind[c] = "rename"
        \/ result'[c].id \notin before[c]
    BY <2>2 DEF OldInv, Creating
  <2> QED
    BY <2>1, <2>2, <2>3, SameOld
<1>5. ASSUME NEW c \in Callers, ProbeFinds(c) PROVE OldInv'
  <2>1. /\ UNCHANGED <<shelf, wire, kind, baseline, before>> /\ pc[c] = "probe"
        /\ pc' = [pc EXCEPT ![c] = "done"]
    BY <1>5 DEF ProbeFinds, Return, serviceVars, callVars
  <2>2. PICK r \in Candidates(c) :
            result' = [result EXCEPT ![c] = [how |-> "probed", id |-> r.id]]
    BY <1>5 DEF ProbeFinds, Return
  <2>3. \/ kind[c] # "file" /\ (kind[c] = "notebook" => ~baseline[c].read)
        \/ r.id \notin before[c]
    BY <1>5, PickedIsNew DEF ProbeFinds
  <2>4. ASSUME kind[c] \in {"text", "rename", "padded"} PROVE OldInv'
    BY <2>1, <2>2, <2>4 DEF OldInv, Ids, Own
  <2> QED
    BY <2>1, <2>2, <2>3, <2>4, SameOld DEF Kinds
<1>6. ASSUME NEW c \in Callers, Confirm(c) PROVE OldInv'
  <2>1. /\ UNCHANGED <<shelf, wire, kind, baseline, before>> /\ pc[c] = "confirm"
        /\ pc' = [pc EXCEPT ![c] = "done"] /\ kind[c] = "file"
    BY <1>6 DEF Confirm, Return, Fail, serviceVars, callVars, OldInv
  <2>2. CASE Fail(c)
    BY <2>1, <2>2, SameOld DEF Fail
  <2>3. CASE ~Ambiguous(c) /\ \E r \in Candidates(c) : Return(c, "created", r.id)
    <3>1. PICK r \in Candidates(c) :
            result' = [result EXCEPT ![c] = [how |-> "created", id |-> r.id]]
      BY <2>3 DEF Return
    <3>2. r.id \notin before[c]
      BY <2>1, <2>3, PickedIsNew
    <3> QED
      BY <2>1, <3>1, <3>2, SameOld
  <2> QED
    BY <1>6, <2>2, <2>3 DEF Confirm
<1>7. ASSUME NEW c \in Callers,
             \/ Post(c) \/ Garbled(c) \/ Rejected(c) \/ Retry(c) \/ Transient(c)
             \/ Unauthorized(c) \/ AuthDecoded(c) \/ RefreshFails(c) \/ Refreshed(c)
             \/ ProbeRefuses(c) \/ ProbeFindsNothing(c) \/ ProbeIsBlind(c) \/ ProbeFails(c)
      PROVE  OldInv'
  <2>1. UNCHANGED <<shelf, kind, baseline, before>> /\ pc[c] # "idle"
    BY <1>7 DEF Post, Garbled, Rejected, Retry, Transient, Unauthorized, AuthDecoded,
         RefreshFails, Refreshed, ProbeRefuses, ProbeFindsNothing, ProbeIsBlind,
         ProbeFails, ProbeFailureEnds, NextAttempt, Fail, serviceVars, callVars
  <2>2. \E at \in {"post", "sent", "refreshHttp", "refreshRpc", "probe", "confirm", "done"} :
            pc' = [pc EXCEPT ![c] = at] /\ (at = "confirm" => kind[c] = "file")
    BY <1>7 DEF Post, Garbled, Rejected, Retry, Transient, Unauthorized, AuthDecoded,
         RefreshFails, Refreshed, ProbeRefuses, ProbeFindsNothing, ProbeIsBlind,
         ProbeFails, ProbeFailureEnds, NextAttempt, Fail
  <2>3. \/ result' = result
        \/ result' = [result EXCEPT ![c] = [how |-> "error", id |-> 0]]
    BY <1>7 DEF Post, Garbled, Rejected, Retry, Transient, Unauthorized, AuthDecoded,
         RefreshFails, Refreshed, ProbeRefuses, ProbeFindsNothing, ProbeIsBlind,
         ProbeFails, ProbeFailureEnds, NextAttempt, Fail
  <2>4. \A w \in wire' : w \in wire \/ w.by = c
    BY <1>7 DEF Post, Garbled, Rejected, Retry, Transient, Unauthorized, AuthDecoded,
         RefreshFails, Refreshed, ProbeRefuses, ProbeFindsNothing, ProbeIsBlind,
         ProbeFails, serviceVars
  <2> QED
    BY <2>1, <2>2, <2>3, <2>4, SameOld
<1>8. CASE UNCHANGED vars
  BY <1>8 DEF vars, serviceVars, callVars, OldInv, Ids, Own
<1> QED
  BY <1>1, <1>2, <1>3, <1>4, <1>5, <1>6, <1>7, <1>8 DEF Next, Step

\* The invariant that needs nothing of the service.
THEOREM Invariance == Spec => []IInv
<1>1. Init => IInv
  BY TypedInit, OldInit DEF IInv
<1>2. IInv /\ [Next]_vars => IInv'
  BY TypedStep, OldStep DEF IInv
<1> QED
  BY <1>1, <1>2, PTL DEF Spec

\* A notebook that is returned was not there before the call, if the baseline
\* could be read, and no call renames or fills a source that was.
THEOREM OldIsLeftAlone == Spec => []OldIsNotTaken
<1>1. IInv => ReturnIsNew
  BY DEF IInv, OldInv, ReturnIsNew
<1>2. IInv => OldIsUntouched
  <2> SUFFICES ASSUME IInv, NEW c \in Callers
               PROVE  Touched(c) \cap before[c] = {}
    BY DEF OldIsUntouched
  <2> QED
    BY DEF IInv, OldInv, Touched, Fresh
<1>3. IInv => OldIsNotTaken
  BY <1>1, <1>2 DEF OldIsNotTaken
<1> QED
  BY <1>3, Invariance, PTL

-----------------------------------------------------------------------------
(* What is counted. *)

\* A call's counters: it posts once an attempt, and refreshes while it has its
\* budget.
CountInv ==
    /\ attempt \in [Callers -> 1..MaxAttempts]
    /\ limited \in [Callers -> 0..RateMax] /\ failed \in [Callers -> 0..ServerMax]
    /\ budget \in [Callers -> BOOLEAN] /\ refreshes \in [Callers -> 0..1]
    /\ \A c \in Callers :
        /\ posts[c] <= attempt[c]
        /\ pc[c] \in {"idle", "post"} => posts[c] < attempt[c]
        /\ ~Creating(c) => posts[c] = 0
        /\ pc[c] \in {"refreshHttp", "refreshRpc"} => ~Creating(c) /\ refreshes[c] = 0
        /\ pc[c] # "done" /\ budget[c] => refreshes[c] = 0

\* The service acts on a post once: a call's resources bear the numbers of its
\* posts, each another one, and none of those still on the wire.
NumberInv ==
    /\ \A w \in wire : /\ Creating(w.by) /\ w.n \in 1..posts[w.by]
                       /\ \A r \in shelf : r.by # w.by \/ r.n # w.n
    /\ \A r \in shelf : r.by \in Callers => Creating(r.by) /\ r.n \in 1..posts[r.by]
    /\ \A r \in shelf : r.by = Other => r.kind \in {"notebook", "source"} /\ r.n = 0
    /\ \A r, s \in shelf : r.by \in Callers /\ r.by = s.by /\ r.n = s.n => r = s
    /\ Cardinality({r \in shelf : r.by = Other}) <= MaxForeign

BInv == Typed /\ ShelfInv /\ CountInv /\ NumberInv

\* Nothing has been posted.
LEMMA CountInit == Init => CountInv /\ NumberInv
<1> SUFFICES ASSUME Init PROVE CountInv /\ NumberInv
  OBVIOUS
<1>1. CountInv
  BY CreatesAssumption DEF Init, CountInv, MaxAttempts
<1>2. {r \in shelf : r.by = Other} = {}
  BY DEF Init
<1>3. NumberInv
  BY <1>2, FS_EmptySet, CreatesAssumption DEF Init, NumberInv
<1> QED
  BY <1>1, <1>3

\* A step of a call that posts nothing keeps the numbers.
LEMMA SameNumbers ==
    ASSUME NumberInv, UNCHANGED <<shelf, kind, posts>>, wire' \subseteq wire
    PROVE  NumberInv'
BY DEF NumberInv, Creating

\* One element more is one more at most.
LEMMA OneMore ==
    ASSUME NEW S, NEW x, IsFiniteSet(S)
    PROVE  /\ Cardinality(S) \in Nat /\ Cardinality(S \union {x}) \in Nat
           /\ Cardinality(S \union {x}) <= Cardinality(S) + 1
<1>1. Cardinality(S) \in Nat
  BY FS_CardinalityType
<1> QED
  BY <1>1, FS_AddElement

\* Every step keeps the numbers.
LEMMA NumberStep ==
    ASSUME BInv, [Next]_vars
    PROVE  NumberInv'
<1> USE DEF BInv
<1>1. ASSUME NEW k \in {"notebook", "source"}, Foreign(k) PROVE NumberInv'
  <2> DEFINE new == [id |-> Cardinality(shelf) + 1, kind |-> k, by |-> Other, n |-> 0]
             old == {r \in shelf : r.by = Other}
  <2>1. /\ shelf' = shelf \union {new} /\ UNCHANGED <<wire, posts, kind>>
        /\ Cardinality(old) < MaxForeign
    BY <1>1 DEF Foreign, Shelve, callVars
  <2>2. {r \in shelf' : r.by = Other} = old \union {new}
    BY <2>1
  <2>3. IsFiniteSet(old)
    BY FS_Subset DEF ShelfInv
  <2>4. /\ Cardinality(old) \in Nat /\ Cardinality(old \union {new}) \in Nat
        /\ Cardinality(old \union {new}) <= Cardinality(old) + 1
    <3> HIDE DEF old, new
    <3> QED
      BY <2>3, OneMore
  <2>5. Cardinality({r \in shelf' : r.by = Other}) <= MaxForeign
    <3>1. Cardinality(old) < MaxForeign
      BY <2>1
    <3>2. Cardinality(old \union {new}) <= MaxForeign
      <4> HIDE DEF old, new
      <4> QED
        BY <2>4, <3>1, CreatesAssumption
    <3> QED
      BY <2>2, <3>2, Zenon
  <2>6. \A r \in shelf' : r.by \in Callers => r \in shelf
    BY <2>1, CreatesAssumption
  <2>7. \A w \in wire : w.by \in Callers
    BY DEF Typed
  <2>8. \A r \in shelf' : r.by = Other => r.kind \in {"notebook", "source"} /\ r.n = 0
    BY <2>1 DEF NumberInv
  <2>9. \A w \in wire' : /\ Creating(w.by)' /\ w.n \in 1..posts'[w.by]
                         /\ \A r \in shelf' : r.by # w.by \/ r.n # w.n
    BY <2>1, <2>6, <2>7 DEF NumberInv, Creating
  <2>10. \A r \in shelf' : r.by \in Callers => Creating(r.by)' /\ r.n \in 1..posts'[r.by]
    BY <2>1, <2>6 DEF NumberInv, Creating
  <2>11. \A r, s \in shelf' : r.by \in Callers /\ r.by = s.by /\ r.n = s.n => r = s
    BY <2>6 DEF NumberInv
  <2> QED
    BY <2>5, <2>8, <2>9, <2>10, <2>11 DEF NumberInv
<1>2. ASSUME NEW w \in wire, Commit(w) PROVE NumberInv'
  <2> DEFINE new == [id |-> Cardinality(shelf) + 1, kind |-> Sort(w.by), by |-> w.by, n |-> w.n]
  <2>1. /\ shelf' = shelf \union {new} /\ wire' = wire \ {w} /\ UNCHANGED <<posts, kind>>
        /\ w.by \in Callers /\ w.by # Other
    BY <1>2, CreatesAssumption DEF Commit, Shelve, callVars, Typed
  <2>2. {r \in shelf' : r.by = Other} = {r \in shelf : r.by = Other}
    BY <2>1
  <2>3. \A v \in wire' : v.by # w.by \/ v.n # w.n
    BY <2>1 DEF Typed
  <2>4. \A r \in shelf : r.by # w.by \/ r.n # w.n
    BY DEF NumberInv
  <2>5. \A v \in wire' : /\ Creating(v.by)' /\ v.n \in 1..posts'[v.by]
                         /\ \A r \in shelf' : r.by # v.by \/ r.n # v.n
    BY <2>1, <2>3 DEF NumberInv, Creating
  <2>6. \A r \in shelf' : r.by \in Callers => Creating(r.by)' /\ r.n \in 1..posts'[r.by]
    BY <2>1 DEF NumberInv, Creating
  <2>7. \A r \in shelf' : r.by = Other => r.kind \in {"notebook", "source"} /\ r.n = 0
    BY <2>1 DEF NumberInv
  <2>8. \A r, s \in shelf' : r.by \in Callers /\ r.by = s.by /\ r.n = s.n => r = s
    BY <2>1, <2>4 DEF NumberInv
  <2>9. Cardinality({r \in shelf' : r.by = Other}) <= MaxForeign
    BY <2>2 DEF NumberInv
  <2> QED
    BY <2>5, <2>6, <2>7, <2>8, <2>9 DEF NumberInv
<1>3. ASSUME NEW c \in Callers, Post(c) PROVE NumberInv'
  <2>1. CASE Creating(c)
    <3>1. /\ posts' = [posts EXCEPT ![c] = posts[c] + 1] /\ UNCHANGED <<shelf, kind>>
          /\ wire' = wire \union {[by |-> c, n |-> posts[c] + 1]}
      BY <1>3, <2>1 DEF Post
    <3>2. /\ \A d \in Callers : 1..posts[d] \subseteq 1..posts'[d]
          /\ posts[c] + 1 \in 1..posts'[c] /\ posts[c] + 1 \notin 1..posts[c]
      BY <3>1 DEF Typed
    <3>3. \A w \in wire : w.by \in Callers
      BY DEF Typed
    <3> QED
      BY <2>1, <3>1, <3>2, <3>3 DEF NumberInv, Creating
  <2>2. CASE ~Creating(c)
    BY <1>3, <2>2, SameNumbers DEF Post
  <2> QED
    BY <2>1, <2>2
<1>4. ASSUME NEW c \in Callers, Step(c), ~Post(c) PROVE NumberInv'
  <2>1. UNCHANGED <<shelf, kind, posts>> /\ wire' \subseteq wire
    <3> USE DEF serviceVars, callVars
    <3>1. CASE Begin(c) \/ Unauthorized(c) \/ AuthDecoded(c) \/ Refreshed(c)
      BY <3>1 DEF Begin, Unauthorized, AuthDecoded, Refreshed
    <3>2. CASE Garbled(c) \/ Rejected(c) \/ Retry(c) \/ Transient(c)
      BY <3>2 DEF Garbled, Rejected, Retry, Transient, Fail
    <3>3. CASE RefreshFails(c) \/ ProbeRefuses(c) \/ ProbeFails(c)
      BY <3>3 DEF RefreshFails, ProbeRefuses, ProbeFails, ProbeFailureEnds, Fail
    <3>4. CASE ProbeFindsNothing(c) \/ ProbeIsBlind(c)
      BY <3>4 DEF ProbeFindsNothing, ProbeIsBlind, NextAttempt, Fail
    <3>5. CASE Answered(c) \/ ProbeFinds(c) \/ Confirm(c)
      BY <3>5 DEF Answered, ProbeFinds, Confirm, Return, Fail
    <3> QED
      BY <1>4, <3>1, <3>2, <3>3, <3>4, <3>5 DEF Step
  <2> QED
    BY <2>1, SameNumbers
<1>5. CASE UNCHANGED vars
  BY <1>5, SameNumbers DEF vars, serviceVars, callVars
<1> QED
  BY <1>1, <1>2, <1>3, <1>4, <1>5 DEF Next

\* A step of a call that neither posts nor refreshes nor tries again.
LEMMA SameCounts ==
    ASSUME Typed, CountInv, NEW c \in Callers, NEW at \in Places,
           pc' = [pc EXCEPT ![c] = at], UNCHANGED <<kind, posts, attempt, refreshes>>,
           pc[c] # "done", at \notin {"idle", "post", "refreshHttp", "refreshRpc"},
           UNCHANGED <<limited, failed, budget>>
    PROVE  CountInv'
BY DEF Typed, CountInv, Creating, Places

\* A step of the service touches no counter.
LEMMA CountsAlone ==
    ASSUME CountInv, UNCHANGED <<kind, pc, posts, attempt, retryVars>>
    PROVE  CountInv'
BY DEF CountInv, Creating, retryVars

\* Every step keeps the counters within their bounds.
LEMMA CountStep ==
    ASSUME BInv, [Next]_vars
    PROVE  CountInv'
<1> USE DEF BInv
<1>1. ASSUME NEW k \in {"notebook", "source"}, Foreign(k) PROVE CountInv'
  BY <1>1, CountsAlone DEF Foreign, callVars
<1>2. ASSUME NEW w \in wire, Commit(w) PROVE CountInv'
  BY <1>2, CountsAlone DEF Commit, callVars
<1>3. ASSUME NEW c \in Callers, Begin(c) PROVE CountInv'
  <2>1. /\ pc[c] = "idle" /\ pc' = [pc EXCEPT ![c] = "post"]
        /\ UNCHANGED <<kind, posts, attempt, limited, failed, budget, refreshes>>
    BY <1>3 DEF Begin, retryVars
  <2> QED
    BY <2>1 DEF Typed, CountInv, Creating
<1>4. ASSUME NEW c \in Callers, Post(c) PROVE CountInv'
  <2>1. /\ pc[c] = "post" /\ pc' = [pc EXCEPT ![c] = "sent"]
        /\ IF Creating(c) THEN posts' = [posts EXCEPT ![c] = posts[c] + 1] ELSE posts' = posts
        /\ UNCHANGED <<kind, attempt, limited, failed, budget, refreshes>>
    BY <1>4 DEF Post, retryVars
  <2>2. posts'[c] <= attempt[c] /\ \A d \in Callers : d # c => posts'[d] = posts[d]
    BY <2>1 DEF Typed, CountInv, MaxAttempts
  <2> QED
    BY <2>1, <2>2 DEF Typed, CountInv, Creating
<1>5. ASSUME NEW c \in Callers,
             Answered(c) \/ Garbled(c) \/ Rejected(c) \/ Transient(c)
             \/ ProbeFinds(c) \/ ProbeRefuses(c) \/ ProbeFails(c) \/ Confirm(c)
      PROVE  CountInv'
  <2>1. /\ pc[c] # "done"
        /\ UNCHANGED <<kind, posts, attempt, limited, failed, budget, refreshes>>
        /\ \E at \in {"done", "confirm", "probe"} : pc' = [pc EXCEPT ![c] = at]
    <3> USE DEF retryVars, callVars
    <3>1. CASE Garbled(c) \/ Rejected(c) \/ Transient(c)
      BY <3>1 DEF Garbled, Rejected, Transient, Fail
    <3>2. CASE ProbeRefuses(c) \/ ProbeFails(c)
      BY <3>2 DEF ProbeRefuses, ProbeFails, ProbeFailureEnds, Fail
    <3>3. CASE Answered(c) \/ ProbeFinds(c) \/ Confirm(c)
      BY <3>3 DEF Answered, ProbeFinds, Confirm, Return, Fail
    <3> QED
      BY <1>5, <3>1, <3>2, <3>3
  <2> QED
    BY <2>1, SameCounts DEF Places
<1>6. ASSUME NEW c \in Callers, Retry(c) PROVE CountInv'
  <2>1. /\ pc[c] = "sent" /\ ~Creating(c) /\ pc' = [pc EXCEPT ![c] = "post"]
        /\ UNCHANGED <<kind, posts, attempt, budget, refreshes>>
    BY <1>6 DEF Retry, RetriesInside, callVars
  <2>2. limited' \in [Callers -> 0..RateMax] /\ failed' \in [Callers -> 0..ServerMax]
    BY <1>6, CreatesAssumption DEF Retry, Counted, CountInv
  <2>3. posts[c] = 0 /\ attempt[c] >= 1
    BY <2>1 DEF CountInv, MaxAttempts
  <2>4. pc[c] # "done" /\ (budget[c] => refreshes[c] = 0)
    BY <2>1 DEF CountInv
  <2>5. \A d \in Callers : IF d = c THEN pc'[d] = "post" ELSE pc'[d] = pc[d]
    BY <2>1 DEF Typed
  <2> QED
    BY <2>1, <2>2, <2>3, <2>4, <2>5 DEF CountInv, Creating
<1>7. ASSUME NEW c \in Callers, Unauthorized(c) \/ AuthDecoded(c) PROVE CountInv'
  <2>1. /\ pc[c] = "sent" /\ ~Creating(c) /\ budget[c]
        /\ \E at \in {"refreshHttp", "refreshRpc"} : pc' = [pc EXCEPT ![c] = at]
        /\ UNCHANGED <<kind, posts, attempt, limited, failed, refreshes>>
        /\ budget' \in {budget, [budget EXCEPT ![c] = FALSE]}
    BY <1>7 DEF Unauthorized, AuthDecoded, MayRefresh, retryVars, callVars
  <2>2. budget' \in [Callers -> BOOLEAN] /\ \A d \in Callers : budget'[d] => budget[d]
    BY <2>1, Zenon DEF CountInv
  <2> QED
    BY <2>1, <2>2 DEF Typed, CountInv, Creating
<1>8. ASSUME NEW c \in Callers, RefreshFails(c) PROVE CountInv'
  <2>1. /\ pc[c] \in {"refreshHttp", "refreshRpc"} /\ pc' = [pc EXCEPT ![c] = "done"]
        /\ refreshes' = [refreshes EXCEPT ![c] = @ + 1]
        /\ UNCHANGED <<kind, posts, attempt, limited, failed, budget>>
    BY <1>8 DEF RefreshFails, Fail, callVars
  <2> QED
    BY <2>1 DEF Typed, CountInv, Creating
<1>9. ASSUME NEW c \in Callers, Refreshed(c) PROVE CountInv'
  <2>1. /\ pc[c] \in {"refreshHttp", "refreshRpc"} /\ pc' = [pc EXCEPT ![c] = "post"]
        /\ refreshes' = [refreshes EXCEPT ![c] = @ + 1]
        /\ budget' = [budget EXCEPT ![c] = FALSE]
        /\ UNCHANGED <<kind, posts, attempt>>
    BY <1>9 DEF Refreshed, callVars
  <2>2. limited' \in [Callers -> 0..RateMax] /\ failed' \in [Callers -> 0..ServerMax]
    BY <1>9, CreatesAssumption DEF Refreshed, CountInv
  <2>3. posts[c] = 0 /\ attempt[c] >= 1 /\ refreshes[c] = 0
    BY <2>1 DEF CountInv, MaxAttempts
  <2>4. /\ budget' \in [Callers -> BOOLEAN] /\ ~budget'[c]
        /\ \A d \in Callers : d # c => budget'[d] = budget[d]
    BY <2>1, Zenon DEF CountInv
  <2> QED
    BY <2>1, <2>2, <2>3, <2>4 DEF Typed, CountInv, Creating
<1>10. ASSUME NEW c \in Callers, ProbeFindsNothing(c) \/ ProbeIsBlind(c) PROVE CountInv'
  <2>1. /\ pc[c] = "probe" /\ NextAttempt(c)
        /\ UNCHANGED <<kind, limited, failed, budget, refreshes>>
    BY <1>10 DEF ProbeFindsNothing, ProbeIsBlind, retryVars
  <2>2. CASE AttemptsLeft(c)
    <3>1. /\ attempt' = [attempt EXCEPT ![c] = @ + 1] /\ pc' = [pc EXCEPT ![c] = "post"]
          /\ attempt[c] < MaxAttempts /\ UNCHANGED posts
      BY <2>1, <2>2 DEF NextAttempt, AttemptsLeft
    <3>2. attempt' \in [Callers -> 1..MaxAttempts] /\ posts[c] < attempt'[c]
      BY <3>1 DEF Typed, CountInv, MaxAttempts
    <3> QED
      BY <2>1, <3>1, <3>2 DEF Typed, CountInv, Creating
  <2>3. CASE ~AttemptsLeft(c)
    <3>1. pc' = [pc EXCEPT ![c] = "done"] /\ UNCHANGED <<attempt, posts>>
      BY <2>1, <2>3 DEF NextAttempt, Fail, callVars
    <3> QED
      BY <2>1, <3>1, SameCounts DEF Places
  <2> QED
    BY <2>2, <2>3
<1>11. CASE UNCHANGED vars
  BY <1>11, CountsAlone DEF vars, callVars
<1> QED
  BY <1>1, <1>2, <1>3, <1>4, <1>5, <1>6, <1>7, <1>8, <1>9, <1>10, <1>11 DEF Next, Step

\* The service holds two resources of a caller at most, and those of the others.
LEMMA ShelfIsBounded ==
    ASSUME BInv
    PROVE  Cardinality(shelf) <= 2 * Cardinality(Callers) + MaxForeign
<1> USE DEF BInv
<1>0. IsFiniteSet(1..2) /\ Cardinality(1..2) = 2
  <2>1. 1..2 = {1} \union {2} /\ 2 \notin {1}
    OBVIOUS
  <2>2. IsFiniteSet({1}) /\ Cardinality({1}) = 1
    BY FS_Singleton
  <2>3. IsFiniteSet({1} \union {2}) /\ Cardinality({1} \union {2}) = 2
    BY <2>1, <2>2, FS_AddElement
  <2> QED
    BY <2>1, <2>3
<1> DEFINE foreign == {r \in shelf : r.by = Other}
           own     == {r \in shelf : r.by \in Callers}
           places  == Callers \X (1..2)
           f       == [r \in own |-> <<r.by, r.n>>]
<1>1. shelf = foreign \union own
  BY DEF Typed
<1>2. IsFiniteSet(foreign) /\ IsFiniteSet(own) /\ IsFiniteSet(foreign \cap own)
  BY FS_Subset DEF ShelfInv
<1>3. /\ Cardinality(foreign) \in Nat /\ Cardinality(own) \in Nat
      /\ Cardinality(foreign \cap own) \in Nat /\ Cardinality(Callers) \in Nat
  BY <1>2, FS_CardinalityType, CreatesAssumption
<1>4. Cardinality(shelf) = Cardinality(foreign) + Cardinality(own) - Cardinality(foreign \cap own)
  BY <1>1, <1>2, FS_Union
<1>6. IsFiniteSet(places) /\ Cardinality(places) = Cardinality(Callers) * 2
  BY <1>0, FS_Product, CreatesAssumption
<1>7. f \in Injection(own, places)
  <2>1. ASSUME NEW r \in own PROVE f[r] \in places
    <3>1. r.n \in 1..posts[r.by] /\ posts[r.by] <= attempt[r.by] /\ r.by \in Callers
      BY DEF NumberInv, CountInv
    <3>2. attempt[r.by] \in 1..2 /\ posts[r.by] \in Nat
      BY <3>1 DEF CountInv, MaxAttempts, Typed
    <3>3. r.n \in 1..2
      BY <3>1, <3>2
    <3> QED
      BY <3>1, <3>3
  <2>2. ASSUME NEW r \in own, NEW s \in own, f[r] = f[s] PROVE r = s
    BY <2>2 DEF NumberInv
  <2> QED
    BY <2>1, <2>2 DEF Injection, IsInjective
<1>8. Cardinality(own) <= Cardinality(places)
  BY <1>6, <1>7, FS_Injection
<1>9. Cardinality(foreign) <= MaxForeign
  BY DEF NumberInv
<1> HIDE DEF foreign, own, places
<1> QED
  BY <1>3, <1>4, <1>6, <1>8, <1>9, CreatesAssumption

\* However failures follow each other, every counter stays within its bound and a
\* call refreshes once at most, over both layers (RefreshBudget, RetryMiddleware,
\* DEFAULT_MAX_ATTEMPTS).
THEOREM CountersAreBounded == Spec => []Bounded
<1> DEFINE InAsked == kind \in Asked
<1>1. Init => BInv
  BY TypedInit, CountInit DEF BInv
<1>2. BInv /\ [Next]_vars => BInv'
  BY TypedStep, CountStep, NumberStep DEF BInv
<1>3. BInv /\ InAsked => Bounded
  <2> SUFFICES ASSUME BInv, InAsked PROVE Bounded
    OBVIOUS
  <2> USE DEF BInv
  <2>1. RefreshOnce
    BY DEF CountInv, RefreshOnce
  <2>2. ASSUME NEW r \in shelf
        PROVE  r \in [id : 1..(2 * Cardinality(Callers) + MaxForeign),
                      kind : {"notebook", "source", "file", "text"},
                      by : Callers \union {Other}, n : 0..MaxAttempts]
    <3>1. r.id \in 1..(2 * Cardinality(Callers) + MaxForeign)
      <4>1. Cardinality(shelf) \in Nat /\ Cardinality(Callers) \in Nat
        BY FS_CardinalityType, CreatesAssumption DEF ShelfInv
      <4> QED
        BY <4>1, ShelfIsBounded, CreatesAssumption DEF ShelfInv
    <3>2. r.kind \in {"notebook", "source", "file", "text"} /\ r.n \in 0..MaxAttempts
      <4>1. CASE r.by = Other
        BY <4>1 DEF NumberInv, MaxAttempts
      <4>2. CASE r.by \in Callers
        <5>1. r.n \in 1..posts[r.by] /\ Creating(r.by) /\ r.kind = Sort(r.by)
          BY <4>2 DEF NumberInv, ShelfInv
        <5>2. posts[r.by] <= MaxAttempts /\ posts[r.by] \in Nat
          BY <4>2 DEF CountInv, Typed, MaxAttempts
        <5>3. r.n \in 0..MaxAttempts
          BY <5>1, <5>2 DEF MaxAttempts
        <5>4. kind[r.by] \in Kinds /\ kind[r.by] # "rename"
          BY <4>2, <5>1 DEF Typed, Creating
        <5> QED
          BY <5>1, <5>3, <5>4 DEF Kinds, Sort
      <4> QED
        BY <4>1, <4>2 DEF Typed
    <3> QED
      BY <3>1, <3>2 DEF Typed
  <2>3. ASSUME NEW w \in wire PROVE w \in [by : Callers, n : 1..MaxAttempts]
    <3>1. w.n \in 1..posts[w.by] /\ w.by \in Callers
      BY DEF NumberInv, Typed
    <3>2. posts[w.by] <= MaxAttempts /\ posts[w.by] \in Nat
      BY <3>1 DEF CountInv, Typed, MaxAttempts
    <3>3. w.n \in 1..MaxAttempts
      BY <3>1, <3>2 DEF MaxAttempts
    <3> QED
      BY <3>1, <3>3 DEF Typed
  <2>4. ASSUME NEW c \in Callers
        PROVE  /\ pc[c] \in Places
               /\ attempt[c] \in 1..MaxAttempts /\ posts[c] \in 0..MaxAttempts
               /\ limited[c] \in 0..RateMax /\ failed[c] \in 0..ServerMax
               /\ result[c].how \in {"none", "created", "probed", "error"}
    <3>1. posts[c] \in Nat /\ posts[c] <= attempt[c] /\ attempt[c] \in 1..MaxAttempts
      BY DEF Typed, CountInv
    <3>2. posts[c] \in 0..MaxAttempts
      BY <3>1 DEF MaxAttempts
    <3> QED
      BY <3>1, <3>2 DEF Typed, CountInv
  <2> QED
    BY <2>1, <2>2, <2>3, <2>4 DEF Bounded, TypeOK, Places
<1>4. Init => InAsked
  BY DEF Init
<1>5. InAsked /\ [Next]_vars => InAsked'
  <2> SUFFICES ASSUME [Next]_vars PROVE kind' = kind
    OBVIOUS
  <2>1. ASSUME NEW c \in Callers, Step(c) PROVE kind' = kind
    BY <2>1 DEF Step, Begin, Post, Answered, Garbled, Rejected, Retry, Transient,
       Unauthorized, AuthDecoded, RefreshFails, Refreshed, ProbeFinds, ProbeRefuses,
       ProbeFindsNothing, ProbeIsBlind, ProbeFails, Confirm
  <2> QED
    BY <2>1 DEF Next, Foreign, Commit, vars
<1> HIDE DEF InAsked
<1> QED
  BY <1>1, <1>2, <1>3, <1>4, <1>5, PTL DEF Spec

-----------------------------------------------------------------------------
(* One resource for a call, and the call's own. *)

\* The calls OneEach speaks of.
Sure(c) == c \notin blind \union late /\ kind[c] # "padded"

\* What is a call's own came of its last post, and when it posts again there is
\* nothing.
Single(c) ==
    /\ pc[c] \in {"refreshHttp", "refreshRpc"} => ~Creating(c)
    /\ pc[c] = "probe" => Probing(c)
    /\ Sure(c) => /\ pc[c] = "post" => Own(c) = {}
                  /\ \A r \in Own(c) : r.n = posts[c]

\* What a probe found is the call's own, if that was there.
Found(c) ==
    /\ result[c].how # "none" => pc[c] = "done"
    /\ /\ result[c].how = "probed" /\ kind[c] \in {"notebook", "file"}
       /\ Own(c) # {} /\ c \notin late
       => \E r \in Own(c) : r.id = result[c].id

Kept(c) == Single(c) /\ Found(c)

JInv == IInv /\ CountInv /\ NumberInv /\ \A c \in Callers : Kept(c)

\* A call's own resource always passes for what its probe looks for, if its title
\* is decoded as it was asked for.
LEMMA OwnIsCandidate ==
    ASSUME IInv, NEW c \in Callers, Probing(c), kind[c] # "padded"
    PROVE  Own(c) \subseteq Candidates(c)
<1> SUFFICES ASSUME NEW r \in Own(c) PROVE r \in Candidates(c)
  OBVIOUS
<1>1. r \in shelf /\ r.by = c /\ r.kind = kind[c]
  BY DEF Own, IInv, ShelfInv, Sort
<1>2. r.id \notin baseline[c].ids
  BY DEF IInv, OldInv
<1> QED
  BY <1>1, <1>2 DEF Candidates, Probing

\* An unambiguous probe of a notebook or a file has one candidate at most.
LEMMA OneCandidate ==
    ASSUME IInv, NEW c \in Callers, kind[c] \in {"notebook", "file"}, ~Ambiguous(c),
           NEW r \in Candidates(c), NEW s \in Candidates(c)
    PROVE  r = s
<1>1. IsFiniteSet(Candidates(c)) /\ IsFiniteSet({r, s})
  BY FS_Subset, FS_AddElement, FS_Singleton DEF Candidates, IInv, ShelfInv
<1>2. Cardinality(Candidates(c)) \in Nat /\ ~(Cardinality(Candidates(c)) > 1)
  BY <1>1, FS_CardinalityType DEF Ambiguous
<1>3. SUFFICES ASSUME r # s PROVE FALSE
  OBVIOUS
<1>4. Cardinality({r, s}) = 2
  <2>1. Cardinality({r}) = 1 /\ IsFiniteSet({r}) /\ s \notin {r}
    BY <1>3, FS_Singleton
  <2>2. {r, s} = {r} \union {s}
    OBVIOUS
  <2>3. Cardinality({r} \union {s}) = Cardinality({r}) + 1
    BY <2>1, FS_AddElement
  <2>4. Cardinality({r, s}) = Cardinality({r} \union {s})
    BY <2>2, Zenon
  <2> QED
    BY <2>1, <2>3, <2>4
<1>5. Cardinality({r, s}) <= Cardinality(Candidates(c))
  BY <1>1, FS_Subset
<1> QED
  BY <1>2, <1>4, <1>5

\* What disturbs nothing of a call's.
LEMMA OthersKept ==
    ASSUME NEW d \in Callers, Kept(d), Own(d)' = Own(d),
           pc'[d] = pc[d], posts'[d] = posts[d], result'[d] = result[d], kind' = kind,
           d \in blind => d \in blind', d \in late => d \in late'
    PROVE  Kept(d)'
<1>1. /\ Creating(d)' = Creating(d) /\ Probing(d)' = Probing(d)
      /\ Sure(d)' => Sure(d)
  BY DEF Creating, Probing, Sure
<1> QED
  BY <1>1 DEF Kept, Single, Found

\* Nobody has begun.
LEMMA KeptInit == Init => \A c \in Callers : Kept(c)
<1> SUFFICES ASSUME Init, NEW c \in Callers PROVE Kept(c)
  OBVIOUS
<1>1. Own(c) = {} /\ pc[c] = "idle" /\ result[c].how = "none"
  BY DEF Init, Own, NoneYet
<1> QED
  BY <1>1 DEF Kept, Single, Found

\* A step of a call: nothing new is on the shelf, and nobody else moves.
LEMMA StepAlone ==
    ASSUME Typed, NEW c \in Callers, Step(c), NEW d \in Callers, d # c
    PROVE  /\ shelf' = shelf /\ kind' = kind
           /\ pc'[d] = pc[d] /\ posts'[d] = posts[d] /\ result'[d] = result[d]
           /\ d \in blind => d \in blind'
           /\ d \in late => d \in late'
<1> USE DEF Typed, serviceVars, callVars, historyVars
<1>1. CASE Begin(c) \/ Unauthorized(c) \/ AuthDecoded(c) \/ Refreshed(c)
  BY <1>1 DEF Begin, Unauthorized, AuthDecoded, Refreshed
<1>2. CASE Post(c)
  BY <1>2 DEF Post
<1>3. CASE Garbled(c) \/ Rejected(c) \/ Retry(c) \/ Transient(c)
  BY <1>3 DEF Garbled, Rejected, Retry, Transient, Fail
<1>4. CASE RefreshFails(c) \/ ProbeRefuses(c) \/ ProbeFails(c)
  BY <1>4 DEF RefreshFails, ProbeRefuses, ProbeFails, ProbeFailureEnds, Fail
<1>5. CASE ProbeFindsNothing(c) \/ ProbeIsBlind(c)
  BY <1>5 DEF ProbeFindsNothing, ProbeIsBlind, NextAttempt, Fail
<1>6. CASE Answered(c) \/ ProbeFinds(c) \/ Confirm(c)
  BY <1>6 DEF Answered, ProbeFinds, Confirm, Return, Fail
<1> QED
  BY <1>1, <1>2, <1>3, <1>4, <1>5, <1>6 DEF Step

\* A call that ends, or goes where it does not post.
LEMMA EndKept ==
    ASSUME NEW c \in Callers, Kept(c),
           UNCHANGED <<shelf, kind, posts, blind, late>>,
           \/ pc'[c] = "done"
           \/ pc'[c] = "confirm" /\ result'[c] = result[c] /\ result[c].how = "none"
           \/ pc'[c] = "probe" /\ Probing(c) /\ result'[c] = result[c] /\ result[c].how = "none",
           \/ result'[c] = result[c]
           \/ result'[c].how # "probed"
           \/ kind[c] \notin {"notebook", "file"}
           \/ \A r \in Own(c) : r.id = result'[c].id
    PROVE  Kept(c)'
<1>1. /\ Own(c)' = Own(c) /\ Probing(c)' = Probing(c) /\ Sure(c)' = Sure(c)
      /\ posts'[c] = posts[c] /\ kind'[c] = kind[c]
  BY DEF Own, Probing, Sure
<1>2. Single(c)'
  BY <1>1 DEF Kept, Single
<1>3. Found(c)'
  BY <1>1 DEF Kept, Found
<1> QED
  BY <1>2, <1>3 DEF Kept

\* A call that goes on, with nothing there if it is one of those OneEach speaks of.
LEMMA GoesOnKept ==
    ASSUME NEW c \in Callers, Sure(c)' => Own(c) = {}, result[c].how = "none",
           UNCHANGED <<shelf, kind, result>>,
           pc'[c] \in {"post", "refreshHttp", "refreshRpc", "sent"},
           pc'[c] \in {"refreshHttp", "refreshRpc"} => ~Creating(c)
    PROVE  Kept(c)'
<1>1. Own(c)' = Own(c) /\ Creating(c)' = Creating(c)
  BY DEF Own, Creating
<1>2. Single(c)'
  BY <1>1 DEF Single
<1>3. Found(c)'
  BY <1>1 DEF Found
<1> QED
  BY <1>2, <1>3 DEF Kept

\* A caller's own step.
LEMMA StepKept ==
    ASSUME IInv, NumberInv, NEW c \in Callers, Kept(c), Step(c)
    PROVE  Kept(c)'
<1> USE DEF IInv, Typed, serviceVars, callVars, historyVars
<1>1. pc[c] # "done" => result[c].how = "none"
  BY DEF Kept, Found
<1>2. ~Creating(c) => Own(c) = {}
  BY DEF NumberInv, Own
<1>3. CASE Begin(c)
  <2>1. Own(c) = {} /\ pc[c] = "idle" /\ result[c].how = "none"
    BY <1>3 DEF Begin, OldInv
  <2>2. UNCHANGED <<shelf, kind, result>> /\ pc'[c] = "post"
    BY <1>3 DEF Begin
  <2> QED
    BY <2>1, <2>2, GoesOnKept
<1>4. CASE Post(c)
  <2>1. /\ pc[c] = "post" /\ pc'[c] = "sent" /\ UNCHANGED <<shelf, kind, result, blind, late>>
    BY <1>4 DEF Post
  <2>2. Sure(c)' => Own(c) = {}
    BY <2>1 DEF Sure, Kept, Single
  <2> QED
    BY <1>1, <2>1, <2>2, GoesOnKept
<1>5. CASE Answered(c)
  <2>1. /\ UNCHANGED <<shelf, kind, posts, blind, late>> /\ pc'[c] = "done"
        /\ result'[c].how = "created"
    BY <1>5 DEF Answered, Return
  <2> QED
    BY <2>1, EndKept
<1>6. CASE Garbled(c) \/ Rejected(c) \/ Transient(c)
  <2>1. UNCHANGED <<shelf, kind, posts, blind, late>> /\ pc[c] = "sent"
    BY <1>6 DEF Garbled, Rejected, Transient
  <2>2. \/ pc'[c] = "done" /\ result'[c].how = "error"
        \/ pc'[c] = "confirm" /\ result'[c] = result[c]
        \/ pc'[c] = "probe" /\ Probing(c) /\ result'[c] = result[c]
    BY <1>6 DEF Garbled, Rejected, Transient, Fail
  <2> QED
    BY <1>1, <2>1, <2>2, EndKept
<1>7. CASE Retry(c)
  <2>1. /\ ~Creating(c) /\ pc'[c] = "post" /\ pc[c] = "sent"
        /\ UNCHANGED <<shelf, kind, result>>
    BY <1>7 DEF Retry, RetriesInside
  <2> QED
    BY <1>1, <1>2, <2>1, GoesOnKept
<1>8. CASE Unauthorized(c) \/ AuthDecoded(c)
  <2>1. /\ ~Creating(c) /\ pc[c] = "sent" /\ pc'[c] \in {"refreshHttp", "refreshRpc"}
        /\ UNCHANGED <<shelf, kind, result>>
    BY <1>8 DEF Unauthorized, AuthDecoded, MayRefresh
  <2> QED
    BY <1>1, <1>2, <2>1, GoesOnKept
<1>9. CASE Refreshed(c)
  <2>1. /\ pc[c] \in {"refreshHttp", "refreshRpc"} /\ pc'[c] = "post"
        /\ UNCHANGED <<shelf, kind, result>>
    BY <1>9 DEF Refreshed
  <2>2. ~Creating(c)
    BY <2>1 DEF Kept, Single
  <2> QED
    BY <1>1, <1>2, <2>1, <2>2, GoesOnKept
<1>10. CASE RefreshFails(c) \/ ProbeRefuses(c) \/ ProbeFails(c)
  <2>1. /\ UNCHANGED <<shelf, kind, posts, blind, late>> /\ pc'[c] = "done"
        /\ result'[c].how = "error"
    BY <1>10 DEF RefreshFails, ProbeRefuses, ProbeFails, ProbeFailureEnds, Fail
  <2> QED
    BY <2>1, EndKept
<1>11. CASE ProbeFinds(c)
  <2>1. /\ UNCHANGED <<shelf, kind, posts, blind, late>> /\ pc'[c] = "done"
        /\ pc[c] = "probe" /\ ~Ambiguous(c)
    BY <1>11 DEF ProbeFinds, Return
  <2>2. PICK s \in Candidates(c) : result'[c] = [how |-> "probed", id |-> s.id]
    BY <1>11 DEF ProbeFinds, Return
  <2>3. kind[c] \in {"notebook", "file"} => \A r \in Own(c) : r = s
    <3>1. kind[c] # "padded" => Own(c) \subseteq Candidates(c)
      BY <2>1, OwnIsCandidate DEF Kept, Single
    <3> QED
      BY <2>1, <2>2, <3>1, OneCandidate
  <2> QED
    BY <2>1, <2>2, <2>3, EndKept
<1>12. CASE ProbeFindsNothing(c) \/ ProbeIsBlind(c)
  <2>1. UNCHANGED <<shelf, kind, posts, late>> /\ blind \subseteq blind' /\ pc[c] = "probe"
    BY <1>12 DEF ProbeFindsNothing, ProbeIsBlind, NextAttempt, Fail
  <2>2. Sure(c)' => Sure(c) /\ Candidates(c) = {}
    BY <1>12, <2>1 DEF ProbeFindsNothing, ProbeIsBlind, Sure
  <2>3. Sure(c)' => Own(c) = {}
    BY <2>1, <2>2, OwnIsCandidate DEF Kept, Single, Sure
  <2>4. \/ pc'[c] = "done" /\ result'[c].how = "error"
        \/ pc'[c] = "post" /\ UNCHANGED result
    BY <1>12 DEF ProbeFindsNothing, ProbeIsBlind, NextAttempt, Fail
  <2>5. CASE pc'[c] = "done" /\ result'[c].how = "error"
    <3>1. Own(c)' = Own(c)
      BY <2>1 DEF Own
    <3> QED
      BY <2>3, <2>5, <3>1 DEF Kept, Single, Found
  <2>6. CASE pc'[c] = "post" /\ UNCHANGED result
    BY <1>1, <2>1, <2>3, <2>6, GoesOnKept
  <2> QED
    BY <2>4, <2>5, <2>6
<1>13. CASE Confirm(c)
  <2>1. /\ UNCHANGED <<shelf, kind, posts, blind, late>> /\ pc'[c] = "done"
        /\ result'[c].how # "probed"
    BY <1>13 DEF Confirm, Return, Fail
  <2> QED
    BY <2>1, EndKept
<1> QED
  BY <1>3, <1>4, <1>5, <1>6, <1>7, <1>8, <1>9, <1>10, <1>11, <1>12, <1>13 DEF Step

\* The service acts on a request.
LEMMA CommitKept ==
    ASSUME IInv, NEW w \in wire, Commit(w), NEW c \in Callers, Kept(c)
    PROVE  Kept(c)'
<1> DEFINE new == [id |-> Cardinality(shelf) + 1, kind |-> Sort(w.by), by |-> w.by, n |-> w.n]
<1>1. /\ shelf' = shelf \union {new} /\ UNCHANGED <<pc, posts, result, kind, blind>>
      /\ late' = IF Looked(w) THEN late \union {w.by} ELSE late
  BY DEF Commit, Shelve, callVars
<1>2. CASE c # w.by
  <2>1. Own(c)' = Own(c)
    BY <1>1, <1>2 DEF Own
  <2> QED
    BY <1>1, <2>1, OthersKept
<1>3. CASE c = w.by /\ c \in late'
  BY <1>1, <1>3 DEF Kept, Single, Found, Sure, Creating, Probing
<1>4. CASE c = w.by /\ c \notin late'
  <2>1. Own(c)' = Own(c) \union {new} /\ Creating(c)' = Creating(c) /\ Probing(c)' = Probing(c)
    BY <1>1, <1>4 DEF Own, Creating, Probing
  <2>2. pc[c] # "post" /\ w.n = posts[c] /\ result[c].how # "probed" /\ c \notin late
    BY <1>1, <1>4 DEF Looked
  <2>3. Single(c)'
    BY <1>1, <2>1, <2>2 DEF Kept, Single, Sure
  <2>4. Found(c)'
    BY <1>1, <2>2 DEF Kept, Found
  <2> QED
    BY <2>3, <2>4 DEF Kept
<1> QED
  BY <1>2, <1>3, <1>4

\* Every step keeps one resource for a call at most.
LEMMA JStep == JInv /\ [Next]_vars => JInv'
<1> SUFFICES ASSUME JInv, [Next]_vars PROVE JInv'
  OBVIOUS
<1> USE DEF JInv
<1>1. IInv' /\ CountInv' /\ NumberInv'
  BY TypedStep, OldStep, CountStep, NumberStep DEF IInv, BInv
<1> SUFFICES ASSUME NEW c \in Callers PROVE Kept(c)'
  BY <1>1
<1>2. ASSUME NEW k \in {"notebook", "source"}, Foreign(k) PROVE Kept(c)'
  <2>1. Own(c)' = Own(c)
    BY <1>2, CreatesAssumption DEF Foreign, Shelve, Own
  <2>2. UNCHANGED <<pc, posts, result, kind, blind, late>>
    BY <1>2 DEF Foreign, callVars, historyVars
  <2> QED
    BY <2>1, <2>2, OthersKept
<1>3. ASSUME NEW w \in wire, Commit(w) PROVE Kept(c)'
  BY <1>3, CommitKept
<1>4. ASSUME NEW d \in Callers, Step(d), d # c PROVE Kept(c)'
  <2>1. /\ shelf' = shelf /\ kind' = kind
        /\ pc'[c] = pc[c] /\ posts'[c] = posts[c] /\ result'[c] = result[c]
        /\ c \in blind => c \in blind'
        /\ c \in late => c \in late'
    BY <1>4, StepAlone DEF IInv
  <2>2. Own(c)' = Own(c)
    BY <2>1 DEF Own
  <2> QED
    BY <2>1, <2>2, OthersKept
<1>5. CASE Step(c)
  BY <1>5, StepKept
<1>6. CASE UNCHANGED vars
  <2>1. Own(c)' = Own(c) /\ UNCHANGED <<pc, posts, result, kind, blind, late>>
    BY <1>6 DEF vars, serviceVars, callVars, historyVars, Own
  <2> QED
    BY <2>1, OthersKept
<1> QED
  BY <1>2, <1>3, <1>4, <1>5, <1>6 DEF Next

\* The invariant of what calls leave and find.
THEOREM KeptAlways == Spec => []JInv
<1>1. Init => JInv
  BY TypedInit, OldInit, CountInit, KeptInit DEF JInv, IInv
<1> QED
  BY <1>1, JStep, PTL DEF Spec

\* A call leaves one resource at most, unless the service acts on a request after its
\* sender's probe has looked, a list could not be read or the title is decoded
\* otherwise (idempotent_create, _idempotency.py).
THEOREM OneIsEnough == Spec => []OneEach
<1>1. JInv => OneEach
  <2> SUFFICES ASSUME JInv, NEW c \in Callers, Sure(c)
               PROVE  Cardinality(Own(c)) <= 1
    BY DEF OneEach, Sure
  <2>1. CASE Own(c) = {}
    BY <2>1, FS_EmptySet
  <2>2. CASE Own(c) # {}
    <3>1. PICK r \in Own(c) : TRUE
      BY <2>2
    <3>2. \A s \in Own(c) : s.n = posts[c]
      BY DEF JInv, Kept, Single
    <3>3. \A s \in Own(c) : s = r
      BY <3>1, <3>2 DEF JInv, NumberInv, Own
    <3>4. Own(c) = {r}
      BY <3>3
    <3>5. Cardinality(Own(c)) = 1
      BY <3>4, FS_Singleton
    <3> QED
      BY <3>5
  <2> QED
    BY <2>1, <2>2
<1> QED
  BY <1>1, KeptAlways, PTL

\* What a probe takes for the call's notebook or file is the call's own whenever
\* that is there, unless it came after the probe had looked.
THEOREM OwnIsPreferred == Spec => []OwnWhenThere
<1>1. JInv => OwnWhenThere
  BY DEF JInv, Kept, Found, OwnWhenThere
<1> QED
  BY <1>1, KeptAlways, PTL

=============================================================================
