---------------------------- MODULE CookieProofs ----------------------------
(***************************************************************************)
(* Proofs about CookieStore for any clients, keys, accounts and bounds:    *)
(* the account survives the saves, a baseline tells what the file held,    *)
(* and no save of a client whose jar grew out of its baseline puts an older *)
(* cookie back.                                                            *)
(***************************************************************************)
EXTENDS CookieStore, TLAPS

Known == [login : 1..issued, n : 1..issued] \union {Absent}
KJars == [Keys -> Known]
Jobs  == [seq : Nat, jar : KJars]
Saves == [phase : {"none", "lock", "write"}, seq : Nat, jar : KJars,
          read : KJars, account : Accounts \union {Nobody}]

\* The types, with cookies no younger than the last issue.
Typed ==
    /\ issued \in 1..(MaxIssued + 1) /\ logins \in 1..issued
    /\ file \in [cookies : KJars, account : Accounts] /\ told \in Accounts
    /\ wrote \in [Keys -> SUBSET Known]
    /\ open \subseteq loaded /\ loaded \subseteq Clients
    /\ shared \subseteq loaded /\ adrift \subseteq loaded
    /\ authJar \in [Clients -> KJars]
    /\ jar \in [Clients -> KJars] /\ baseline \in [Clients -> KJars]
    /\ queued \in [Clients -> SUBSET Jobs]
    /\ nextSeq \in [Clients -> Nat \ {0}]
    /\ applied \in [Clients -> Nat]
    /\ saving \in [Clients -> Saves]
    /\ \A p \in Clients \ open : queued[p] = {} /\ saving[p] = NoSave
    /\ holder \in Clients \union {Nobody}

\* Who is about to write holds the lock, and the file is as it was read.
LockInv ==
    \A p \in Clients : saving[p].phase = "write" =>
        /\ holder = p
        /\ saving[p].read = file.cookies /\ saving[p].account = file.account

\* What is in the file was written, and what a client takes to be there as well.
WroteInv ==
    \A k \in Keys : /\ file.cookies[k] \in wrote[k]
                    /\ \A p \in Clients : baseline[p][k] \in wrote[k] \union {Absent}

\* The cookie is the other one, rotated or evicted since.
From(new, old) ==
    \/ new = old
    \/ new = Absent
    \/ old # Absent /\ new.login = old.login /\ new.n > old.n

FromAll(new, old) == \A k \in Keys : From(new[k], old[k])

\* The jars of the saves of a client that is not adrift follow each other in the
\* order of their numbers, and so does the baseline.
Ordered(p) ==
    /\ applied[p] < nextSeq[p] /\ FromAll(jar[p], baseline[p])
    /\ \A j \in queued[p] :
        /\ j.seq < nextSeq[p] /\ j.seq # applied[p] /\ FromAll(jar[p], j.jar)
        /\ j.seq > applied[p] => FromAll(j.jar, baseline[p])
        /\ \A i \in queued[p] : /\ i.seq < j.seq => FromAll(j.jar, i.jar)
                                /\ i.seq = j.seq => i = j
    /\ saving[p].phase # "none" =>
        /\ applied[p] < saving[p].seq /\ saving[p].seq < nextSeq[p]
        /\ FromAll(jar[p], saving[p].jar) /\ FromAll(saving[p].jar, baseline[p])
        /\ \A j \in queued[p] :
            /\ j.seq # saving[p].seq
            /\ j.seq > saving[p].seq => FromAll(j.jar, saving[p].jar)

OrderInv == \A p \in Clients \ adrift : Ordered(p)

IInv == Typed /\ LockInv /\ WroteInv /\ OrderInv

-----------------------------------------------------------------------------
\* Following is transitive.
LEMMA FromTransitive ==
    ASSUME NEW a \in KJars, NEW b \in KJars, NEW c \in KJars, FromAll(a, b), FromAll(b, c),
           issued \in Nat
    PROVE  FromAll(a, c)
<1> SUFFICES ASSUME NEW k \in Keys PROVE From(a[k], c[k])
  BY DEF FromAll
<1>1. a[k] \in Known /\ b[k] \in Known /\ c[k] \in Known
  BY DEF KJars
<1>2. From(a[k], b[k]) /\ From(b[k], c[k])
  BY DEF FromAll
<1> QED
  BY <1>1, <1>2 DEF From, Known, Absent

-----------------------------------------------------------------------------
(* Types. *)

\* The initial state is well typed.
LEMMA TypedInit == Init => Typed
<1> SUFFICES ASSUME Init PROVE Typed
  OBVIOUS
<1>1. issued = 1 /\ logins = 1 /\ 1 \in 1..(MaxIssued + 1)
  BY CookieAssumption DEF Init
<1>2. First \in Known /\ Absent \in Known
  BY <1>1 DEF Known, First, Absent
<1>3. [k \in Keys |-> First] \in KJars /\ [k \in Keys |-> Absent] \in KJars
  BY <1>2 DEF KJars
<1>4. NoSave \in Saves
  BY <1>3, CookieAssumption DEF NoSave, Saves
<1>5. /\ file \in [cookies : KJars, account : Accounts] /\ told \in Accounts
      /\ wrote \in [Keys -> SUBSET Known]
  BY <1>2, <1>3 DEF Init
<1>6. saving \in [Clients -> Saves] /\ \A p \in Clients : queued[p] = {} /\ saving[p] = NoSave
  BY <1>4 DEF Init
<1>7. /\ jar \in [Clients -> KJars] /\ baseline \in [Clients -> KJars]
      /\ authJar \in [Clients -> KJars]
  BY <1>3 DEF Init
<1>8. /\ nextSeq \in [Clients -> Nat \ {0}] /\ applied \in [Clients -> Nat]
      /\ queued \in [Clients -> SUBSET Jobs]
      /\ holder = Nobody /\ open = {} /\ loaded = {} /\ shared = {} /\ adrift = {}
  BY CookieAssumption DEF Init
<1> QED
  BY <1>1, <1>5, <1>6, <1>7, <1>8 DEF Typed

\* A new issue only adds to the cookies that may be about.
LEMMA KnownGrows ==
    ASSUME Typed, issued' \in 1..(MaxIssued + 1), issued <= issued'
    PROVE  /\ Known \subseteq Known' /\ KJars \subseteq KJars'
           /\ Jobs \subseteq Jobs' /\ Saves \subseteq Saves'
<1>1. issued \in Nat /\ issued' \in Nat /\ Absent' = Absent
  BY CookieAssumption DEF Typed, Absent
<1>2. Known \subseteq Known'
  BY <1>1 DEF Known
<1>3. KJars \subseteq KJars'
  BY <1>2 DEF KJars
<1> QED
  BY <1>2, <1>3 DEF Jobs, Saves

\* The same, for what a step does not touch.
LEMMA StillTyped ==
    ASSUME Typed, issued' \in 1..(MaxIssued + 1), issued <= issued', logins' \in 1..issued'
    PROVE  /\ file' = file => file' \in [cookies : KJars', account : Accounts]
           /\ wrote' = wrote => wrote' \in [Keys -> SUBSET Known']
           /\ jar' = jar => jar' \in [Clients -> KJars']
           /\ baseline' = baseline => baseline' \in [Clients -> KJars']
           /\ authJar' = authJar => authJar' \in [Clients -> KJars']
           /\ queued' = queued => queued' \in [Clients -> SUBSET Jobs']
           /\ saving' = saving => saving' \in [Clients -> Saves']
<1>1. /\ Known \subseteq Known' /\ KJars \subseteq KJars'
      /\ Jobs \subseteq Jobs' /\ Saves \subseteq Saves'
  BY KnownGrows
<1> QED
  BY <1>1 DEF Typed

\* A store of cookies that are known.
LEMMA StoreTyped ==
    ASSUME Typed, NEW cookies \in KJars', NEW a \in Accounts, Store(cookies, a),
           issued' \in 1..(MaxIssued + 1), issued <= issued'
    PROVE  /\ file' \in [cookies : KJars', account : Accounts]
           /\ wrote' \in [Keys -> SUBSET Known']
<1>1. Known \subseteq Known'
  BY KnownGrows
<1>2. \A k \in Keys : cookies[k] \in Known' /\ wrote[k] \subseteq Known'
  BY <1>1 DEF KJars, Typed
<1> QED
  BY <1>2 DEF Store

\* A client that goes leaves a well typed state.
LEMMA GoneTyped ==
    ASSUME Typed, NEW p \in Clients, Gone(p), UNCHANGED <<issued, logins, file, told, wrote>>,
           (UNCHANGED saving /\ saving[p] = NoSave) \/ saving' = [saving EXCEPT ![p] = NoSave],
           holder' \in {holder, Nobody}
    PROVE  Typed'
<1>1. Known' = Known /\ KJars' = KJars /\ Jobs' = Jobs /\ Saves' = Saves /\ NoSave' = NoSave
  BY DEF Known, KJars, Jobs, Saves, NoSave
<1>2. Absent \in Known
  BY DEF Known
<1>3. NoSave.jar \in KJars /\ NoSave \in Saves
  BY <1>2, CookieAssumption DEF NoSave, KJars, Saves
<1>4. /\ jar' \in [Clients -> KJars] /\ baseline' \in [Clients -> KJars]
      /\ authJar' \in [Clients -> KJars]
  BY <1>3 DEF Gone, Typed
<1>5. queued' \in [Clients -> SUBSET Jobs] /\ saving' \in [Clients -> Saves]
  BY <1>3 DEF Gone, Typed
<1>6. nextSeq' \in [Clients -> Nat \ {0}] /\ applied' \in [Clients -> Nat]
  BY CookieAssumption DEF Gone, Typed
<1>7. /\ open' \subseteq loaded' /\ loaded' \subseteq Clients
      /\ shared' \subseteq loaded' /\ adrift' \subseteq loaded'
  BY DEF Gone, Typed
<1>8. \A q \in Clients \ open' : queued'[q] = {} /\ saving'[q] = NoSave
  BY DEF Gone, Typed
<1> QED
  BY <1>1, <1>4, <1>5, <1>6, <1>7, <1>8 DEF Typed

\* Every step keeps the types.
LEMMA TypedStep == Typed /\ LockInv /\ [Next]_vars => Typed'
<1> SUFFICES ASSUME Typed, LockInv, [Next]_vars PROVE Typed'
  OBVIOUS
<1> DEFINE Same == /\ Known' = Known /\ KJars' = KJars /\ Jobs' = Jobs /\ Saves' = Saves
                   /\ NoSave' = NoSave
<1>20. NoSave \in Saves
  <2>1. [k \in Keys |-> Absent] \in KJars
    BY DEF KJars, Known
  <2> QED
    BY <2>1, CookieAssumption DEF NoSave, Saves
<1>0. issued' = issued => Same
  BY DEF Known, KJars, Jobs, Saves, NoSave
<1>1. ASSUME NEW p \in Clients, Open(p) PROVE Typed'
  <2>1. /\ jar' \in [Clients -> KJars] /\ baseline' \in [Clients -> KJars]
        /\ authJar' \in [Clients -> KJars]
        /\ open' \subseteq loaded' /\ loaded' \subseteq Clients
        /\ shared' \subseteq loaded' /\ adrift' \subseteq loaded'
    BY <1>1 DEF Open, Typed
  <2>2. \A q \in Clients \ open' : q \in Clients \ open
    BY <1>1 DEF Open
  <2> QED
    BY <1>0, <1>1, <2>1, <2>2 DEF Open, Typed
<1>2. ASSUME NEW p \in Clients, Reload(p) PROVE Typed'
  <2>1. jar' \in [Clients -> KJars] /\ adrift' \subseteq loaded
    BY <1>2 DEF Reload, Typed
  <2> QED
    BY <1>0, <1>2, <2>1 DEF Reload, Typed
<1>3. ASSUME NEW p \in Clients, Save(p) \/ RefreshAuth(p) PROVE Typed'
  <2>0. Dispatch(p)
    BY <1>3 DEF Save, RefreshAuth
  <2>1. [seq |-> nextSeq[p], jar |-> jar[p]] \in Jobs /\ p \in open
    BY <2>0, CookieAssumption DEF Dispatch, Typed, Jobs
  <2>2. queued' \in [Clients -> SUBSET Jobs]
    BY <2>0, <2>1 DEF Dispatch, Typed
  <2>3. nextSeq' \in [Clients -> Nat \ {0}]
    BY <2>0, CookieAssumption DEF Dispatch, Typed
  <2>4. \A q \in Clients \ open : queued'[q] = queued[q]
    BY <2>0, <2>1 DEF Dispatch, Typed
  <2>5. NoSave.jar \in KJars
    BY <1>20 DEF Saves
  <2>6. authJar' \in [Clients -> KJars] /\ shared' \subseteq loaded
    BY <1>3, <2>1, <2>5 DEF Save, RefreshAuth, Typed
  <2> QED
    BY <1>0, <2>0, <2>2, <2>3, <2>4, <2>6 DEF Dispatch, Typed
<1>4. ASSUME NEW p \in Clients, Close(p) PROVE Typed'
  <2>1. UNCHANGED <<issued, logins, file, told, wrote, saving, holder, baseline, queued,
                    nextSeq, applied, loaded, authJar, shared, adrift>>
    BY <1>4 DEF Close, authVars
  <2>2. NoSave.jar \in KJars
    BY <1>20 DEF Saves
  <2>3. jar' \in [Clients -> KJars] /\ open' \subseteq loaded
    BY <1>4, <2>2 DEF Close, Typed
  <2>4. \A q \in Clients \ open' : queued[q] = {} /\ saving[q] = NoSave
    BY <1>4 DEF Close, Typed
  <2> QED
    BY <1>0, <2>1, <2>3, <2>4 DEF Typed
<1>5. ASSUME NEW p \in Clients, Kill(p) \/ Exit(p) PROVE Typed'
  <2>1. CASE Kill(p)
    BY <2>1, GoneTyped DEF Kill, EndSave
  <2>2. CASE Exit(p)
    <3>1. saving[p] = NoSave
      BY <2>2 DEF Exit, Typed
    <3> QED
      BY <2>2, <3>1, GoneTyped DEF Exit
  <2> QED
    BY <1>5, <2>1, <2>2
<1>14. ASSUME NEW p \in Clients, Reopen(p) PROVE Typed'
  <2>1. UNCHANGED <<issued, logins, file, told, wrote, saving, holder, baseline, queued,
                    nextSeq, applied, loaded>>
    BY <1>14 DEF Reopen
  <2>2. /\ open' \subseteq loaded /\ shared' \subseteq loaded /\ adrift' \subseteq loaded
        /\ open \subseteq open'
    BY <1>14 DEF Reopen, Typed
  <2>3. jar' \in [Clients -> KJars] /\ authJar' \in [Clients -> KJars]
    BY <1>14 DEF Reopen, Typed
  <2> QED
    BY <1>0, <2>1, <2>2, <2>3 DEF Typed
<1>6. ASSUME NEW p \in Clients, BeginSave(p) PROVE Typed'
  <2>1. PICK job \in queued[p] :
          /\ queued' = [queued EXCEPT ![p] = @ \ {job}]
          /\ saving' = IF Overtaken(p, job) THEN saving
                       ELSE [saving EXCEPT ![p] = [NoSave EXCEPT !.phase = "lock",
                                                      !.seq = job.seq, !.jar = job.jar]]
    BY <1>6 DEF BeginSave
  <2>2. job \in Jobs /\ p \in open
    BY DEF Typed
  <2>4. [NoSave EXCEPT !.phase = "lock", !.seq = job.seq, !.jar = job.jar] \in Saves
    <3>1. job.seq \in Nat /\ job.jar \in KJars
      BY <2>2, CookieAssumption DEF Jobs
    <3>2. \A s \in Saves : [s EXCEPT !.phase = "lock", !.seq = job.seq, !.jar = job.jar] \in Saves
      BY <3>1 DEF Saves
    <3> QED
      BY <1>20, <3>2
  <2>6. queued' \in [Clients -> SUBSET Jobs] /\ saving' \in [Clients -> Saves]
    BY <2>1, <2>4 DEF Typed
  <2>7. \A q \in Clients \ open : queued'[q] = {} /\ saving'[q] = NoSave
    BY <2>1, <2>2 DEF Typed
  <2> QED
    BY <1>0, <1>6, <2>6, <2>7 DEF BeginSave, Typed, authVars
<1>7. ASSUME NEW p \in Clients, MergeRead(p) PROVE Typed'
  <2>1. p \in open
    BY <1>7 DEF MergeRead, Typed, NoSave
  <2>2. saving' = [saving EXCEPT ![p] = [saving[p] EXCEPT !.phase = "write",
                      !.read = file.cookies, !.account = file.account]]
    BY <1>7 DEF MergeRead, Typed
  <2>4. [saving[p] EXCEPT !.phase = "write", !.read = file.cookies,
                          !.account = file.account] \in Saves
    BY DEF Typed, Saves
  <2>5. saving' \in [Clients -> Saves]
    BY <2>2, <2>4 DEF Typed
  <2>3. \A q \in Clients \ open : saving'[q] = saving[q]
    BY <2>1, <2>2 DEF Typed
  <2> QED
    BY <1>0, <1>7, <2>3, <2>5 DEF MergeRead, Typed, authVars
<1>8. ASSUME NEW p \in Clients, MergeWrite(p) PROVE Typed'
  <2>1. /\ saving[p] \in Saves /\ saving[p].jar \in KJars /\ saving[p].read \in KJars
        /\ baseline[p] \in KJars
    BY DEF Typed, Saves
  <2>2. Merged(p) \in KJars /\ Advanced(p) \in KJars
    BY <2>1 DEF Merged, Advanced, KJars
  <2>3. file' \in [cookies : KJars, account : Accounts] /\ wrote' \in [Keys -> SUBSET Known]
    <3>1. CASE UNCHANGED <<file, wrote>>
      BY <3>1 DEF Typed
    <3>2. CASE Store(Merged(p), saving[p].account)
      <4>1. saving[p].account \in Accounts
        BY <1>8 DEF MergeWrite, LockInv, Typed
      <4> QED
        BY <1>0, <1>8, <2>2, <3>2, <4>1, StoreTyped, CookieAssumption DEF MergeWrite, Typed
    <3> QED
      BY <1>8, <3>1, <3>2 DEF MergeWrite
  <2>4. baseline' \in [Clients -> KJars] /\ applied' \in [Clients -> Nat]
    BY <1>8, <2>1, <2>2 DEF MergeWrite, Typed, Saves
  <2>5. saving' \in [Clients -> Saves] /\ \A q \in Clients \ open : saving'[q] = NoSave
    BY <1>8, <1>20 DEF MergeWrite, Typed, EndSave
  <2>6. holder' \in Clients \union {Nobody}
    BY <1>8 DEF MergeWrite, Typed, EndSave
  <2> QED
    BY <1>0, <1>8, <2>3, <2>4, <2>5, <2>6 DEF MergeWrite, Typed, authVars
<1>9. ASSUME NEW p \in Clients, MergeFails(p) PROVE Typed'
  <2>1. holder' \in Clients \union {Nobody}
    BY <1>9 DEF MergeFails, EndSave, Typed
  <2>4. saving' \in [Clients -> Saves] /\ \A q \in Clients \ open : saving'[q] = NoSave
    BY <1>9, <1>20 DEF MergeFails, Typed, EndSave
  <2> QED
    BY <1>0, <1>9, <2>1, <2>4 DEF MergeFails, Typed, authVars
<1>10. ASSUME NEW p \in Clients, NEW k \in Keys, Rotate(p, k) \/ Evict(p, k) PROVE Typed'
  <2>1. issued' = issued + 1 /\ issued <= MaxIssued /\ issued \in Nat
    BY <1>10, CookieAssumption DEF Rotate, Evict, Typed
  <2>2. issued' \in 1..(MaxIssued + 1) /\ issued <= issued' /\ logins' \in 1..issued'
    BY <1>10, <2>1, CookieAssumption DEF Rotate, Evict, Typed
  <2>3. KJars \subseteq KJars'
    BY <2>2, KnownGrows
  <2>4. PICK new \in Known' : jar' = [jar EXCEPT ![p][k] = new]
    <3>1. CASE Rotate(p, k)
      <4>1. jar[p][k] \in Known /\ jar[p][k] # Absent
        BY <3>1 DEF Rotate, Typed, KJars
      <4>2. jar[p][k].login \in 1..issued'
        BY <2>1, <4>1 DEF Known
      <4>3. [login |-> jar[p][k].login, n |-> issued + 1] \in Known'
        BY <2>1, <4>2 DEF Known
      <4> QED
        BY <3>1, <4>3 DEF Rotate
    <3>2. CASE Evict(p, k)
      BY <3>2 DEF Evict, Known
    <3> QED
      BY <1>10, <3>1, <3>2
  <2>5. [jar[p] EXCEPT ![k] = new] \in KJars'
    BY <2>3 DEF Typed, KJars
  <2>6. jar' \in [Clients -> KJars']
    BY <2>3, <2>4, <2>5 DEF Typed
  <2>7. UNCHANGED <<file, told, wrote, open, baseline, queued, nextSeq, applied,
                    saving, holder, loaded, authJar, shared, adrift>>
    BY <1>10 DEF Rotate, Evict, authVars
  <2> QED
    BY <2>2, <2>6, <2>7, StillTyped DEF Typed, NoSave
<1>11. CASE Login
  <2>1. issued' = issued + 1 /\ issued <= MaxIssued /\ logins' = logins + 1 /\ issued \in Nat
    BY <1>11, CookieAssumption DEF Login, Typed
  <2>2. issued' \in 1..(MaxIssued + 1) /\ issued <= issued' /\ logins' \in 1..issued'
    BY <2>1, CookieAssumption DEF Typed
  <2>3. PICK kept \in SUBSET Keys, a \in Accounts :
          /\ Store([k \in Keys |-> IF k \in kept
                      THEN [login |-> logins + 1, n |-> issued + 1] ELSE Absent], a)
          /\ told' = a
    BY <1>11 DEF Login
  <2>4. [login |-> logins + 1, n |-> issued + 1] \in Known' /\ Absent \in Known'
    BY <2>1, <2>2 DEF Known
  <2>5. [k \in Keys |-> IF k \in kept
            THEN [login |-> logins + 1, n |-> issued + 1] ELSE Absent] \in KJars'
    BY <2>4 DEF KJars
  <2>6. /\ file' \in [cookies : KJars', account : Accounts]
        /\ wrote' \in [Keys -> SUBSET Known']
    BY <2>2, <2>3, <2>5, StoreTyped
  <2>7. UNCHANGED <<open, jar, baseline, queued, nextSeq, applied,
                    saving, holder, loaded, authJar, shared, adrift>>
    BY <1>11 DEF Login, clientVars, authVars
  <2> QED
    BY <2>2, <2>3, <2>6, <2>7, StillTyped DEF Typed, NoSave
<1>12. CASE SetAccount
  <2>1. PICK a \in Accounts : Store(file.cookies, a) /\ told' = a
    BY <1>12 DEF SetAccount
  <2>2. UNCHANGED <<issued, logins, open, jar, baseline, queued, nextSeq, applied,
                    saving, holder, loaded, authJar, shared, adrift>>
    BY <1>12 DEF SetAccount, clientVars, authVars
  <2>3. file.cookies \in KJars' /\ issued' \in 1..(MaxIssued + 1) /\ issued <= issued'
        /\ logins' \in 1..issued'
    BY <1>0, <2>2, CookieAssumption DEF Typed
  <2>4. /\ file' \in [cookies : KJars', account : Accounts]
        /\ wrote' \in [Keys -> SUBSET Known']
    BY <2>1, <2>3, StoreTyped
  <2> QED
    BY <1>0, <2>1, <2>2, <2>4 DEF Typed
<1>13. CASE UNCHANGED vars
  BY <1>0, <1>13 DEF vars, clientVars, authVars, Typed
<1> QED
  BY <1>1, <1>2, <1>3, <1>4, <1>5, <1>6, <1>7, <1>8, <1>9, <1>10, <1>11, <1>12, <1>13, <1>14
  DEF Next, SaveStep

-----------------------------------------------------------------------------
(* The lock, and what was written. *)

\* Who is about to write keeps the lock, and nobody else writes.
LEMMA LockStep == Typed /\ LockInv /\ [Next]_vars => LockInv'
<1> SUFFICES ASSUME Typed, LockInv, [Next]_vars, NEW q \in Clients, saving'[q].phase = "write"
             PROVE  /\ holder' = q
                    /\ saving'[q].read = file'.cookies /\ saving'[q].account = file'.account
  BY DEF LockInv
<1> USE DEF LockInv
<1>1. ASSUME NEW p \in Clients,
             \/ Open(p) \/ Reopen(p) \/ Reload(p) \/ Save(p) \/ RefreshAuth(p) \/ Close(p)
             \/ Exit(p) \/ \E k \in Keys : Rotate(p, k) \/ Evict(p, k)
      PROVE  UNCHANGED <<file, saving, holder>>
  BY <1>1 DEF Open, Reopen, Reload, Save, RefreshAuth, Dispatch, Close, Exit, Rotate, Evict
<1>2. ASSUME NEW p \in Clients, BeginSave(p)
      PROVE  UNCHANGED <<file, holder>> /\ saving'[q] = saving[q]
  <2>1. UNCHANGED <<file, holder>>
    BY <1>2 DEF BeginSave
  <2>2. saving'[q] = saving[q] \/ saving'[q].phase = "lock"
    BY <1>2 DEF BeginSave, Typed, NoSave
  <2> QED
    BY <2>1, <2>2
<1>3. CASE \E p \in Clients : MergeRead(p)
  <2>1. PICK p \in Clients : MergeRead(p)
    BY <1>3
  <2>2. holder = Nobody /\ holder' = p /\ file' = file
    BY <2>1 DEF MergeRead, LockFree
  <2>3. q = p
    BY <2>1, <2>2, CookieAssumption DEF MergeRead, Typed
  <2>4. saving'[p].read = file.cookies /\ saving'[p].account = file.account
    BY <2>1 DEF MergeRead, Typed, Saves
  <2> QED
    BY <2>2, <2>3, <2>4
<1>4. ASSUME NEW p \in Clients, MergeWrite(p) \/ MergeFails(p) PROVE FALSE
  <2>1. saving[p].phase = "write" /\ saving' = [saving EXCEPT ![p] = NoSave]
    BY <1>4 DEF MergeWrite, MergeFails, EndSave
  <2>2. q # p
    BY <2>1 DEF Typed, NoSave
  <2> QED
    BY <2>1, <2>2 DEF Typed
<1>5. ASSUME NEW p \in Clients, Kill(p)
      PROVE  saving'[q] = saving[q] /\ holder' = holder /\ file' = file
  BY <1>5 DEF Kill, EndSave, Typed, NoSave
<1>6. CASE Login \/ SetAccount
  BY <1>6, CookieAssumption DEF Login, SetAccount, LockFree, clientVars
<1>7. CASE UNCHANGED vars
  BY <1>7 DEF vars, clientVars
<1> QED
  BY <1>1, <1>2, <1>3, <1>4, <1>5, <1>6, <1>7 DEF Next, SaveStep

\* Only a step that holds the lock changes the account, and tells so.
LEMMA AccountStep == Typed /\ LockInv /\ AccountKept /\ [Next]_vars => AccountKept'
<1> SUFFICES ASSUME Typed, LockInv, AccountKept, [Next]_vars PROVE file'.account = told'
  BY DEF AccountKept
<1>1. ASSUME NEW p \in Clients, MergeWrite(p) PROVE file'.account = told'
  BY <1>1 DEF MergeWrite, Store, LockInv, AccountKept
<1>2. CASE Login \/ SetAccount
  BY <1>2 DEF Login, SetAccount, Store
<1>3. CASE UNCHANGED <<file, told>>
  BY <1>3 DEF AccountKept
<1>4. ASSUME NEW p \in Clients,
             \/ Open(p) \/ Reopen(p) \/ Reload(p) \/ Save(p) \/ RefreshAuth(p) \/ Close(p)
             \/ Exit(p) \/ BeginSave(p) \/ MergeRead(p) \/ MergeFails(p) \/ Kill(p)
             \/ \E k \in Keys : Rotate(p, k) \/ Evict(p, k)
      PROVE  UNCHANGED <<file, told>>
  BY <1>4 DEF Open, Reopen, Reload, Save, RefreshAuth, Dispatch, Close, Exit, BeginSave,
              MergeRead, MergeFails, Kill, Rotate, Evict
<1> QED
  BY <1>1, <1>2, <1>3, <1>4 DEF Next, SaveStep, vars

\* A step that changes the file writes what it puts there.
LEMMA WroteStep == Typed /\ LockInv /\ WroteInv /\ [Next]_vars => WroteInv'
<1> SUFFICES ASSUME Typed, LockInv, WroteInv, [Next]_vars, NEW k \in Keys
             PROVE  /\ file'.cookies[k] \in wrote'[k]
                    /\ \A p \in Clients : baseline'[p][k] \in wrote'[k] \union {Absent}
  BY DEF WroteInv
<1> DEFINE Goal == /\ file'.cookies[k] \in wrote'[k]
                   /\ \A p \in Clients : baseline'[p][k] \in wrote'[k] \union {Absent}
<1> USE DEF WroteInv
<1>1. ASSUME NEW p \in Clients,
             \/ Reopen(p) \/ Reload(p) \/ Save(p) \/ RefreshAuth(p) \/ Close(p) \/ BeginSave(p)
             \/ MergeRead(p) \/ MergeFails(p) \/ \E l \in Keys : Rotate(p, l) \/ Evict(p, l)
      PROVE  UNCHANGED <<file, wrote, baseline>>
  BY <1>1 DEF Reopen, Reload, Save, RefreshAuth, Dispatch, Close, BeginSave, MergeRead,
              MergeFails, Rotate, Evict
<1>2. ASSUME NEW p \in Clients, Open(p) PROVE Goal
  BY <1>2 DEF Open, Typed
<1>3. ASSUME NEW p \in Clients, Exit(p) \/ Kill(p) PROVE Goal
  BY <1>3 DEF Exit, Kill, Gone, NoSave, Typed
<1>4. ASSUME NEW p \in Clients, MergeWrite(p) PROVE Goal
  <2>1. /\ baseline' = [baseline EXCEPT ![p] = Advanced(p)] /\ saving[p].phase = "write"
        /\ saving[p].read = file.cookies
    BY <1>4 DEF MergeWrite, LockInv
  <2>2. wrote[k] \subseteq wrote'[k] /\ file'.cookies[k] \in wrote'[k]
    BY <1>4 DEF MergeWrite, Store, Typed
  <2>3. Advanced(p)[k] \in {baseline[p][k], saving[p].jar[k]}
    BY DEF Advanced
  <2>4. CASE ~Changed(p, k) \/ Rejected(p, k)
    <3>1. Advanced(p)[k] = baseline[p][k]
      BY <2>4 DEF Advanced, Changed
    <3> QED
      BY <2>1, <2>2, <3>1 DEF Typed
  <2>5. CASE Changed(p, k) /\ ~Rejected(p, k)
    <3>1. Store(Merged(p), saving[p].account) /\ Merged(p)[k] = saving[p].jar[k]
      BY <1>4, <2>5 DEF MergeWrite, Merged
    <3>2. saving[p].jar[k] \in wrote'[k]
      BY <3>1 DEF Store
    <3> QED
      BY <2>1, <2>2, <2>3, <3>2, <2>5 DEF Typed, Advanced
  <2> QED
    BY <2>4, <2>5
<1>5. CASE Login \/ SetAccount
  BY <1>5 DEF Login, SetAccount, Store, clientVars, Typed, KJars
<1>6. CASE UNCHANGED vars
  BY <1>6 DEF vars, clientVars
<1> QED
  BY <1>1, <1>2, <1>3, <1>4, <1>5, <1>6 DEF Next, SaveStep

-----------------------------------------------------------------------------
(* The order of the saves. *)

\* Every jar follows itself.
LEMMA FromSelf == \A a : FromAll(a, a)
BY DEF FromAll, From

\* What another client does leaves a client's saves alone.
LEMMA OthersOrdered ==
    ASSUME NEW q \in Clients, Ordered(q), applied'[q] = applied[q], nextSeq'[q] = nextSeq[q],
           jar'[q] = jar[q], baseline'[q] = baseline[q], queued'[q] = queued[q],
           saving'[q] = saving[q]
    PROVE  Ordered(q)'
BY DEF Ordered

\* Nobody has saved yet.
LEMMA OrderInit == Init => OrderInv
<1> SUFFICES ASSUME Init, NEW p \in Clients PROVE Ordered(p)
  BY DEF OrderInv
<1> QED
  BY FromSelf DEF Init, Ordered, NoSave

\* A client starts with its jar and baseline as the file is.
LEMMA OpenOrdered ==
    ASSUME Typed, NEW p \in Clients, Open(p), Ordered(p)
    PROVE  Ordered(p)'
<1>1. /\ queued'[p] = {} /\ saving'[p].phase = "none" /\ applied'[p] = applied[p]
      /\ nextSeq'[p] = nextSeq[p] /\ jar'[p] = baseline'[p]
  BY DEF Open, Typed, NoSave
<1> QED
  BY <1>1, FromSelf DEF Ordered

\* A client that goes leaves nothing to order.
LEMMA GoneOrdered ==
    ASSUME Typed, NEW p \in Clients, Gone(p), saving'[p] = NoSave
    PROVE  Ordered(p)'
<1>1. /\ queued'[p] = {} /\ saving'[p].phase = "none" /\ applied'[p] = 0
      /\ nextSeq'[p] = 1 /\ jar'[p] = baseline'[p]
  BY DEF Gone, Typed, NoSave
<1> QED
  BY <1>1, FromSelf DEF Ordered

\* A closed client keeps the jar it goes on with, or none.
LEMMA CloseOrdered ==
    ASSUME Typed, NEW p \in Clients, Close(p), Ordered(p)
    PROVE  Ordered(p)'
<1>1. /\ queued'[p] = {} /\ saving'[p].phase = "none" /\ applied'[p] = applied[p]
      /\ nextSeq'[p] = nextSeq[p] /\ baseline'[p] = baseline[p]
  BY DEF Close, Typed, NoSave
<1>2. jar'[p] = jar[p] \/ \A k \in Keys : jar'[p][k] = Absent
  BY DEF Close, Typed, NoSave
<1>3. FromAll(jar'[p], baseline[p])
  BY <1>2 DEF Ordered, FromAll, From
<1> QED
  BY <1>1, <1>3 DEF Ordered

\* A client that opens again and is not adrift goes on with the jar it had, or
\* with what it noted.
LEMMA ReopenOrdered ==
    ASSUME Typed, OrderInv, NEW p \in Clients, Reopen(p), p \notin adrift'
    PROVE  Ordered(p)'
<1>1. /\ queued'[p] = {} /\ saving'[p].phase = "none" /\ applied'[p] = applied[p]
      /\ nextSeq'[p] = nextSeq[p] /\ baseline'[p] = baseline[p]
  BY DEF Reopen, Typed, NoSave
<1>2. p \notin adrift
  BY DEF Reopen
<1>3. CASE p \in shared
  <2>1. jar' = jar
    BY <1>3 DEF Reopen
  <2> QED
    BY <1>1, <1>2, <2>1 DEF OrderInv, Ordered
<1>4. CASE p \notin shared
  <2>1. jar'[p] = baseline[p]
    BY <1>4 DEF Reopen, Typed
  <2> QED
    BY <1>1, <1>2, <2>1, FromSelf DEF OrderInv, Ordered
<1> QED
  BY <1>3, <1>4

\* The service rotates or evicts a cookie.
LEMMA RotateOrdered ==
    ASSUME Typed, NEW p \in Clients, NEW k \in Keys, Rotate(p, k) \/ Evict(p, k), Ordered(p)
    PROVE  Ordered(p)'
<1>1. UNCHANGED <<baseline, queued, nextSeq, applied, saving>>
  BY DEF Rotate, Evict
<1>2. jar[p] \in KJars /\ issued \in Nat
  BY CookieAssumption DEF Typed
<1>3. jar[p][k] \in Known /\ jar[p][k] # Absent
  BY <1>2 DEF Rotate, Evict, KJars
<1>4. \A l \in Keys : jar'[p][l] = jar[p][l] \/ (l = k /\
            (jar'[p][l] = Absent \/ jar'[p][l] = [login |-> jar[p][k].login, n |-> issued + 1]))
  BY <1>2 DEF Rotate, Evict, Typed, KJars
<1>5. jar[p][k].n \in Nat /\ issued + 1 > jar[p][k].n
  BY <1>2, <1>3 DEF Known
<1>6. ASSUME NEW a \in KJars, FromAll(jar[p], a) PROVE FromAll(jar'[p], a)
  <2> SUFFICES ASSUME NEW l \in Keys PROVE From(jar'[p][l], a[l])
    BY DEF FromAll
  <2>1. From(jar[p][l], a[l]) /\ a[l] \in Known
    BY <1>6 DEF FromAll, KJars
  <2>2. CASE jar'[p][l] = jar[p][l]
    BY <2>1, <2>2
  <2>3. CASE jar'[p][l] = Absent
    BY <2>3 DEF From
  <2>4. CASE l = k /\ jar'[p][l] = [login |-> jar[p][k].login, n |-> issued + 1]
    <3>1. a[l] # Absent /\ jar[p][k].login = a[l].login /\ a[l].n \in 1..issued
      BY <1>3, <2>1, <2>4 DEF From, Known, Absent
    <3>2. jar'[p][l].login = a[l].login /\ jar'[p][l].n > a[l].n
      BY <1>2, <2>4, <3>1
    <3> QED
      BY <3>1, <3>2 DEF From
  <2> QED
    BY <1>4, <2>2, <2>3, <2>4
<1>7. /\ baseline[p] \in KJars /\ \A j \in queued[p] : j.jar \in KJars
      /\ saving[p].jar \in KJars
  BY DEF Typed, Jobs, Saves
<1> QED
  BY <1>1, <1>6, <1>7 DEF Ordered

\* A save is queued with the next number and the jar of the moment.
LEMMA SaveOrdered ==
    ASSUME Typed, NEW p \in Clients, Dispatch(p), Ordered(p)
    PROVE  Ordered(p)'
<1> DEFINE new == [seq |-> nextSeq[p], jar |-> jar[p]]
<1>1. /\ queued'[p] = queued[p] \union {new} /\ nextSeq'[p] = nextSeq[p] + 1
      /\ UNCHANGED <<jar, baseline, applied, saving>>
  BY DEF Dispatch, Typed
<1>2. /\ nextSeq[p] \in Nat /\ applied[p] \in Nat /\ \A j \in queued[p] : j.seq \in Nat
      /\ saving[p].seq \in Nat
  BY CookieAssumption DEF Typed, Jobs, Saves
<1>3. FromAll(jar[p], jar[p])
  BY FromSelf
<1>4. applied'[p] < nextSeq'[p] /\ FromAll(jar'[p], baseline'[p])
  BY <1>1, <1>2 DEF Ordered
<1>5. ASSUME NEW j \in queued'[p]
      PROVE  /\ j.seq < nextSeq'[p] /\ j.seq # applied'[p] /\ FromAll(jar'[p], j.jar)
             /\ j.seq > applied'[p] => FromAll(j.jar, baseline'[p])
             /\ \A i \in queued'[p] : /\ i.seq < j.seq => FromAll(j.jar, i.jar)
                                      /\ i.seq = j.seq => i = j
  <2>1. CASE j \in queued[p]
    BY <1>1, <1>2, <2>1 DEF Ordered
  <2>2. CASE j = new
    <3>1. j.seq = nextSeq[p] /\ j.jar = jar[p]
      BY <2>2
    <3>2. \A i \in queued'[p] : i = j \/ i \in queued[p]
      BY <1>1, <2>2
    <3> QED
      BY <1>1, <1>2, <1>3, <3>1, <3>2 DEF Ordered
  <2> QED
    BY <1>1, <2>1, <2>2
<1>6. saving'[p].phase # "none" =>
        /\ applied'[p] < saving'[p].seq /\ saving'[p].seq < nextSeq'[p]
        /\ FromAll(jar'[p], saving'[p].jar) /\ FromAll(saving'[p].jar, baseline'[p])
        /\ \A j \in queued'[p] :
            /\ j.seq # saving'[p].seq
            /\ j.seq > saving'[p].seq => FromAll(j.jar, saving'[p].jar)
  BY <1>1, <1>2 DEF Ordered
<1> QED
  BY <1>4, <1>5, <1>6 DEF Ordered

\* A worker takes a save, or finds it overtaken.
LEMMA BeginOrdered ==
    ASSUME Typed, NEW p \in Clients, BeginSave(p), Ordered(p)
    PROVE  Ordered(p)'
<1>1. PICK job \in queued[p] :
        /\ queued'[p] = queued[p] \ {job}
        /\ \/ saving'[p] = saving[p]
           \/ ~(job.seq < applied[p]) /\ saving'[p].seq = job.seq /\ saving'[p].jar = job.jar
  <2>1. PICK job \in queued[p] :
          /\ queued' = [queued EXCEPT ![p] = @ \ {job}]
          /\ saving' = IF Overtaken(p, job) THEN saving
                       ELSE [saving EXCEPT ![p] = [NoSave EXCEPT !.phase = "lock",
                                                      !.seq = job.seq, !.jar = job.jar]]
    BY DEF BeginSave
  <2>2. [NoSave EXCEPT !.phase = "lock", !.seq = job.seq, !.jar = job.jar].seq = job.seq
    BY DEF NoSave
  <2>3. [NoSave EXCEPT !.phase = "lock", !.seq = job.seq, !.jar = job.jar].jar = job.jar
    BY DEF NoSave
  <2>4. queued'[p] = queued[p] \ {job}
    BY <2>1 DEF Typed
  <2>5. \/ saving'[p] = saving[p]
        \/ ~(job.seq < applied[p]) /\ saving'[p].seq = job.seq /\ saving'[p].jar = job.jar
    BY <2>1, <2>2, <2>3 DEF Overtaken, Typed
  <2> QED
    BY <2>4, <2>5
<1>2. UNCHANGED <<jar, baseline, applied, nextSeq>> /\ saving[p].phase = "none"
  BY DEF BeginSave, NoSave
<1>3. applied[p] \in Nat /\ \A j \in queued[p] : j.seq \in Nat
  BY CookieAssumption DEF Typed, Jobs
<1>4. applied[p] < nextSeq[p] /\ FromAll(jar[p], baseline[p])
  BY DEF Ordered
<1>5. \A j \in queued[p] :
        /\ j.seq < nextSeq[p] /\ j.seq # applied[p] /\ FromAll(jar[p], j.jar)
        /\ j.seq > applied[p] => FromAll(j.jar, baseline[p])
        /\ \A i \in queued[p] : /\ i.seq < j.seq => FromAll(j.jar, i.jar)
                                /\ i.seq = j.seq => i = j
  BY DEF Ordered
<1>6. CASE saving'[p] = saving[p]
  BY <1>1, <1>2, <1>4, <1>5, <1>6 DEF Ordered
<1>7. CASE ~(job.seq < applied[p]) /\ saving'[p].seq = job.seq /\ saving'[p].jar = job.jar
  <2>1. job.seq > applied[p]
    BY <1>3, <1>5, <1>7
  <2> QED
    BY <1>1, <1>2, <1>4, <1>5, <1>7, <2>1 DEF Ordered
<1> QED
  BY <1>1, <1>6, <1>7

\* Reading the file under the lock changes nothing of the order.
LEMMA ReadOrdered ==
    ASSUME Typed, NEW p \in Clients, MergeRead(p), Ordered(p)
    PROVE  Ordered(p)'
<1>1. /\ saving[p].phase = "lock" /\ saving'[p].seq = saving[p].seq
      /\ saving'[p].jar = saving[p].jar
  BY DEF MergeRead, Typed, Saves
<1>2. UNCHANGED <<jar, baseline, applied, nextSeq, queued>>
  BY DEF MergeRead
<1> QED
  BY <1>1, <1>2 DEF Ordered

\* The save ends: the baseline is its jar, or what it was before.
LEMMA WriteOrdered ==
    ASSUME Typed, NEW p \in Clients, MergeWrite(p), Ordered(p)
    PROVE  Ordered(p)'
<1>1. /\ saving[p].phase = "write" /\ saving'[p].phase = "none"
      /\ applied'[p] = saving[p].seq /\ baseline'[p] = Advanced(p)
      /\ UNCHANGED <<jar, queued, nextSeq>>
  BY DEF MergeWrite, EndSave, Typed, NoSave
<1>2. \A k \in Keys : Advanced(p)[k] \in {baseline[p][k], saving[p].jar[k]}
  BY DEF Advanced
<1>3. ASSUME NEW a, FromAll(a, baseline[p]), FromAll(a, saving[p].jar)
      PROVE  FromAll(a, Advanced(p))
  BY <1>2, <1>3 DEF FromAll
<1>4. /\ applied[p] \in Nat /\ saving[p].seq \in Nat /\ \A j \in queued[p] : j.seq \in Nat
  BY CookieAssumption DEF Typed, Jobs, Saves
<1>5. /\ applied[p] < saving[p].seq /\ saving[p].seq < nextSeq[p]
      /\ FromAll(jar[p], saving[p].jar) /\ FromAll(jar[p], baseline[p])
      /\ \A j \in queued[p] :
            /\ j.seq # saving[p].seq
            /\ j.seq > saving[p].seq => FromAll(j.jar, saving[p].jar)
            /\ j.seq > applied[p] => FromAll(j.jar, baseline[p])
  BY <1>1 DEF Ordered
<1>6. FromAll(jar[p], Advanced(p))
  BY <1>3, <1>5
<1>7. \A j \in queued[p] : j.seq > saving[p].seq => FromAll(j.jar, Advanced(p))
  BY <1>3, <1>4, <1>5
<1> QED
  BY <1>1, <1>4, <1>5, <1>6, <1>7 DEF Ordered

\* A save that fails moves no baseline.
LEMMA FailsOrdered ==
    ASSUME Typed, NEW p \in Clients, MergeFails(p), Ordered(p)
    PROVE  Ordered(p)'
<1>1. saving'[p].phase = "none" /\ UNCHANGED <<jar, baseline, applied, nextSeq, queued>>
  BY DEF MergeFails, EndSave, Typed, NoSave
<1> QED
  BY <1>1 DEF Ordered

\* Every step of a client that is not adrift keeps the order.
LEMMA OrderStep == Typed /\ OrderInv /\ [Next]_vars => OrderInv'
<1> SUFFICES ASSUME Typed, OrderInv, [Next]_vars, NEW q \in Clients, q \notin adrift'
             PROVE  Ordered(q)'
  BY DEF OrderInv
<1>1. ASSUME NEW p \in Clients, p # q,
             \/ Open(p) \/ Reopen(p) \/ Reload(p) \/ Save(p) \/ RefreshAuth(p) \/ Close(p)
             \/ Exit(p) \/ SaveStep(p) \/ MergeFails(p) \/ Kill(p)
             \/ \E k \in Keys : Rotate(p, k) \/ Evict(p, k)
      PROVE  Ordered(q)'
  <2>1. /\ applied'[q] = applied[q] /\ nextSeq'[q] = nextSeq[q] /\ jar'[q] = jar[q]
        /\ baseline'[q] = baseline[q] /\ queued'[q] = queued[q] /\ saving'[q] = saving[q]
        /\ q \notin adrift
    <3>1. CASE Open(p) \/ Reopen(p) \/ Reload(p)
      BY <1>1, <3>1 DEF Open, Reopen, Reload, Typed
    <3>2. CASE Close(p) \/ Exit(p) \/ Kill(p)
      BY <1>1, <3>2 DEF Close, Exit, Kill, Gone, EndSave, Typed, authVars
    <3>3. CASE SaveStep(p) \/ MergeFails(p)
      BY <1>1, <3>3 DEF SaveStep, BeginSave, MergeRead, MergeWrite, MergeFails, EndSave, Typed,
                        authVars
    <3>4. CASE \E k \in Keys : Rotate(p, k) \/ Evict(p, k)
      BY <1>1, <3>4 DEF Rotate, Evict, Typed, authVars
    <3>5. CASE Save(p) \/ RefreshAuth(p)
      BY <1>1, <3>5 DEF Save, RefreshAuth, Dispatch, Typed
    <3> QED
      BY <1>1, <3>1, <3>2, <3>3, <3>4, <3>5
  <2> QED
    BY <2>1, OthersOrdered DEF OrderInv
<1>2. CASE Exit(q) \/ Kill(q)
  <2>1. Gone(q) /\ saving'[q] = NoSave
    BY <1>2 DEF Exit, Kill, EndSave, Typed
  <2> QED
    BY <2>1, GoneOrdered
<1>3. CASE Reload(q)
  BY <1>3 DEF Reload
<1>4. CASE \/ Open(q) \/ Save(q) \/ RefreshAuth(q) \/ Close(q) \/ SaveStep(q) \/ MergeFails(q)
           \/ \E k \in Keys : Rotate(q, k) \/ Evict(q, k)
  <2>1. q \notin adrift
    BY <1>4 DEF Open, Save, RefreshAuth, Dispatch, Close, SaveStep, BeginSave, MergeRead,
                MergeWrite, MergeFails, Rotate, Evict, authVars
  <2>2. Ordered(q)
    BY <2>1 DEF OrderInv
  <2>3. Save(q) \/ RefreshAuth(q) => Dispatch(q)
    BY DEF Save, RefreshAuth
  <2> QED
    BY <1>4, <2>2, <2>3, OpenOrdered, SaveOrdered, CloseOrdered, BeginOrdered, ReadOrdered,
       WriteOrdered, FailsOrdered, RotateOrdered DEF SaveStep
<1>6. CASE Reopen(q)
  BY <1>6, ReopenOrdered
<1>5. CASE Login \/ SetAccount \/ UNCHANGED vars
  <2>1. UNCHANGED clientVars
    BY <1>5 DEF Login, SetAccount, vars
  <2> QED
    BY <2>1, OthersOrdered DEF OrderInv, clientVars, authVars
<1> QED
  BY <1>1, <1>2, <1>3, <1>4, <1>5, <1>6 DEF Next

-----------------------------------------------------------------------------
\* The inductive invariant, and the account with it.
THEOREM Invariance == Spec => [](IInv /\ AccountKept)
<1>1. Init => IInv /\ AccountKept
  <2>1. Init => LockInv /\ WroteInv /\ AccountKept
    BY DEF Init, LockInv, WroteInv, AccountKept, NoSave, First
  <2> QED
    BY <2>1, TypedInit, OrderInit DEF IInv
<1>2. IInv /\ AccountKept /\ [Next]_vars => (IInv /\ AccountKept)'
  BY TypedStep, LockStep, WroteStep, OrderStep, AccountStep DEF IInv
<1> QED
  BY <1>1, <1>2, PTL DEF Spec

\* The store is well typed, and no save undoes the account that was set last:
\* merges and logins read and write the file under one lock (storage_writer.py).
THEOREM StoreIsSound == Spec => []StoreInv
<1>1. Typed => TypeOK
  <2> SUFFICES ASSUME Typed PROVE TypeOK
    OBVIOUS
  <2>1. issued \in 1..(MaxIssued + 1) /\ logins \in 1..(MaxIssued + 1)
    BY CookieAssumption DEF Typed
  <2>2. Known \subseteq Cookies
    BY <2>1, CookieAssumption DEF Known, Cookies
  <2>3. KJars \subseteq Jars
    BY <2>2 DEF KJars, Jars
  <2>4. /\ authJar \in [Clients -> Jars]
        /\ jar \in [Clients -> Jars] /\ baseline \in [Clients -> Jars]
        /\ file \in [cookies : Jars, account : Accounts]
        /\ wrote \in [Keys -> SUBSET Cookies]
    BY <2>2, <2>3 DEF Typed
  <2>5. \A p \in Clients : \A job \in queued[p] : job.seq \in Nat /\ job.jar \in Jars
    BY <2>3 DEF Typed, Jobs
  <2>6. saving \in [Clients -> [phase : {"none", "lock", "write"}, seq : Nat,
                               jar : Jars, read : Jars, account : Accounts \union {Nobody}]]
    BY <2>3 DEF Typed, Saves
  <2> QED
    BY <2>1, <2>4, <2>5, <2>6 DEF Typed, TypeOK
<1>2. IInv /\ AccountKept => StoreInv
  BY <1>1 DEF IInv, StoreInv
<1> QED
  BY <1>2, Invariance, PTL

\* What a client takes to be in the file was there (_advance_baseline_after_save).
THEOREM BaselineIsTrue == Spec => []BaselineWasWritten
<1>1. IInv => BaselineWasWritten
  BY DEF IInv, WroteInv, Typed, BaselineWasWritten
<1> QED
  BY <1>1, Invariance, PTL

\* No save of a client whose jar grew out of its baseline overwrites a newer cookie or
\* another login's (_merge_cookies_with_snapshot), closed and opened again or not.
THEOREM NoStaleOverwrite == Spec => NeverOlder
<1>1. ASSUME IInv, [Next]_vars, logins' = logins, NEW k \in Keys,
             \A p \in adrift : saving[p].phase # "write"
      PROVE  Forward(k)
  <2> USE DEF Forward
  <2>1. ASSUME NEW p \in Clients, MergeWrite(p) PROVE Forward(k)
    <3>1. saving[p].phase = "write" /\ p \notin adrift /\ saving[p].read = file.cookies
      BY <1>1, <2>1 DEF MergeWrite, IInv, LockInv
    <3>2. From(saving[p].jar[k], baseline[p][k])
      BY <1>1, <3>1 DEF IInv, OrderInv, Ordered, FromAll
    <3>3. CASE file' = file
      BY <3>3
    <3>4. CASE Store(Merged(p), saving[p].account)
      <4>1. file'.cookies[k] = IF Changed(p, k) /\ ~Rejected(p, k)
                               THEN saving[p].jar[k] ELSE file.cookies[k]
        BY <3>1, <3>4 DEF Store, Merged
      <4>2. ~Rejected(p, k) /\ Changed(p, k) =>
                file.cookies[k] \in {Absent, baseline[p][k], saving[p].jar[k]}
        BY <3>1 DEF Rejected, Expected
      <4> QED
        BY <3>2, <4>1, <4>2 DEF From
    <3> QED
      BY <2>1, <3>3, <3>4 DEF MergeWrite
  <2>2. CASE Login
    <3>1. logins' = logins + 1 /\ logins \in Nat
      BY <1>1, <2>2, CookieAssumption DEF Login, IInv, Typed
    <3> QED
      BY <1>1, <3>1
  <2>3. CASE SetAccount
    BY <2>3 DEF SetAccount, Store
  <2>4. ASSUME NEW p \in Clients,
               \/ Open(p) \/ Reopen(p) \/ Reload(p) \/ Save(p) \/ RefreshAuth(p) \/ Close(p)
               \/ Exit(p) \/ BeginSave(p) \/ MergeRead(p) \/ MergeFails(p) \/ Kill(p)
               \/ \E l \in Keys : Rotate(p, l) \/ Evict(p, l)
        PROVE  file' = file
    BY <2>4 DEF Open, Reopen, Reload, Save, RefreshAuth, Dispatch, Close, Exit, BeginSave,
                MergeRead, MergeFails, Kill, Rotate, Evict
  <2>5. CASE UNCHANGED vars
    BY <2>5 DEF vars
  <2> QED
    BY <1>1, <2>1, <2>2, <2>3, <2>4, <2>5 DEF Next, SaveStep
<1>2. IInv /\ [Next]_vars =>
        ((logins' = logins /\ \A p \in adrift : saving[p].phase # "write")
            => \A k \in Keys : Forward(k))
  BY <1>1
<1> QED
  BY <1>2, Invariance, PTL DEF Spec, NeverOlder

=============================================================================
