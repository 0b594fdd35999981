---------------------------- MODULE CookieStore ----------------------------
(***************************************************************************)
(* notebooklm/_auth: the file of a login's cookies, storage_state.json,    *)
(* and those who write it.  Long-running clients save the cookies of their *)
(* HTTP session by a merge that compares with what they last knew the file *)
(* to hold (_cookie_persistence.py, storage.py); a login or a re-mint      *)
(* replaces the cookies, and the account is set beside them                *)
(* (storage_writer.py).                                                    *)
(*                                                                         *)
(* A cookie is the login it descends from and the number of its issue;     *)
(* expiry and other attributes are left out, and so are the two spellings  *)
(* of a domain.  The file system can lock: where it cannot, the code saves *)
(* without a lock and promises nothing.                                    *)
(***************************************************************************)
EXTENDS Naturals, FiniteSets

CONSTANTS
    Clients,     \* processes with a NotebookLMClient
    Lasting,     \* those that may open the client they closed again
    Keys,        \* the (name, domain, path) of a cookie
    Accounts,
    MaxIssued,   \* bound: cookies set or expired by the service, after the first
    MaxSaves,    \* bound, of each client: saves it dispatches
    Nobody

ASSUME CookieAssumption ==
    /\ MaxIssued \in Nat /\ MaxSaves \in [Clients -> Nat]
    /\ Keys # {} /\ Accounts # {} /\ Nobody \notin Clients /\ Lasting \subseteq Clients

VARIABLES
    file,        \* the cookies and the account in storage_state.json
    told,        \* the account last set on purpose
    wrote,       \* the cookies each key ever had in the file
    issued, logins,
    open,        \* clients whose HTTP session is open
    jar,         \* the live cookies of a client
    baseline,    \* loaded_cookie_snapshot
    queued,      \* saves handed to worker threads that have not begun
    nextSeq, applied,
    saving,      \* the save that holds save_lock, and the file as it read it
    holder,      \* who holds the file lock
    loaded,      \* clients that have read their login from the file
    authJar,     \* auth.cookie_jar as it was when the session opened
    shared,      \* clients whose auth.cookie_jar is the live jar since a refresh
    adrift       \* clients whose jar has not grown out of what they noted

authVars   == <<loaded, authJar, shared, adrift>>
clientVars == <<open, jar, baseline, queued, nextSeq, applied, saving, authVars>>
vars == <<file, told, wrote, issued, logins, clientVars, holder>>

Absent  == [login |-> 0, n |-> 0]
Cookies == [login : 1..(MaxIssued + 1), n : 1..(MaxIssued + 1)] \union {Absent}
First   == [login |-> 1, n |-> 1]
NoSave  == [phase |-> "none", seq |-> 0, jar |-> [k \in Keys |-> Absent],
            read |-> [k \in Keys |-> Absent], account |-> Nobody]

Init ==
    /\ \E a \in Accounts : /\ file = [cookies |-> [k \in Keys |-> First], account |-> a]
                           /\ told = a
    /\ wrote = [k \in Keys |-> {First}]
    /\ issued = 1 /\ logins = 1
    /\ open = {}
    /\ jar = [p \in Clients |-> [k \in Keys |-> Absent]]
    /\ baseline = [p \in Clients |-> [k \in Keys |-> Absent]]
    /\ queued = [p \in Clients |-> {}]
    /\ nextSeq = [p \in Clients |-> 1]
    /\ applied = [p \in Clients |-> 0]
    /\ saving = [p \in Clients |-> NoSave]
    /\ holder = Nobody
    /\ loaded = {} /\ shared = {} /\ adrift = {}
    /\ authJar = [p \in Clients |-> [k \in Keys |-> Absent]]

Store(cookies, account) ==
    /\ file' = [cookies |-> cookies, account |-> account]
    /\ wrote' = [k \in Keys |-> wrote[k] \union {cookies[k]}]

-----------------------------------------------------------------------------
\* The client: the jar is loaded from the file, and what was loaded noted.
Open(p) ==
    /\ p \notin loaded
    /\ open' = open \union {p} /\ loaded' = loaded \union {p}
    /\ jar' = [jar EXCEPT ![p] = file.cookies]
    /\ authJar' = [authJar EXCEPT ![p] = file.cookies]
    /\ baseline' = [baseline EXCEPT ![p] = file.cookies]
    /\ UNCHANGED <<file, told, wrote, issued, logins, queued, nextSeq, applied,
                   saving, holder, shared, adrift>>

\* A closed client opens again with a copy of auth.cookie_jar.  That is the jar it
\* closed with only if a refresh made the two one; what it noted
\* (auth.cookie_snapshot) has moved with every save all the same.
Reopen(p) ==
    /\ p \in (loaded \intersect Lasting) \ open
    /\ open' = open \union {p}
    /\ IF p \in shared
       THEN /\ authJar' = [authJar EXCEPT ![p] = jar[p]] /\ shared' = shared \ {p}
            /\ UNCHANGED <<jar, adrift>>
       ELSE /\ jar' = [jar EXCEPT ![p] = authJar[p]]
            /\ adrift' = IF authJar[p] = baseline[p] THEN adrift ELSE adrift \union {p}
            /\ UNCHANGED <<authJar, shared>>
    /\ UNCHANGED <<file, told, wrote, issued, logins, baseline, queued, nextSeq, applied,
                   saving, holder, loaded>>

\* A response rotates a cookie, or evicts it (Max-Age=0).
Rotate(p, k) ==
    /\ p \in open /\ jar[p][k] # Absent /\ issued <= MaxIssued
    /\ issued' = issued + 1
    /\ jar' = [jar EXCEPT ![p][k] = [login |-> jar[p][k].login, n |-> issued + 1]]
    /\ UNCHANGED <<file, told, wrote, logins, open, baseline, queued, nextSeq,
                   applied, saving, holder, authVars>>

Evict(p, k) ==
    /\ p \in open /\ jar[p][k] # Absent /\ issued <= MaxIssued
    /\ issued' = issued + 1
    /\ jar' = [jar EXCEPT ![p][k] = Absent]
    /\ UNCHANGED <<file, told, wrote, logins, open, baseline, queued,
                   nextSeq, applied, saving, holder, authVars>>

\* A recovery in the middle of the session reloads the jar (_replace_cookie_jar);
\* the baseline stays what it was.
Reload(p) ==
    /\ p \in open /\ jar[p] # file.cookies
    /\ jar' = [jar EXCEPT ![p] = file.cookies]
    /\ adrift' = adrift \union {p}
    /\ UNCHANGED <<file, told, wrote, issued, logins, open, baseline, queued,
                   nextSeq, applied, saving, holder, loaded, authJar, shared>>

\* save(): a copy of the jar and a number go to a worker thread.
Dispatch(p) ==
    /\ p \in open /\ nextSeq[p] <= MaxSaves[p]
    /\ queued' = [queued EXCEPT ![p] = @ \union {[seq |-> nextSeq[p], jar |-> jar[p]]}]
    /\ nextSeq' = [nextSeq EXCEPT ![p] = @ + 1]
    /\ UNCHANGED <<file, told, wrote, issued, logins, open, jar, baseline, applied, saving,
                   holder, loaded, adrift>>

Save(p) == Dispatch(p) /\ UNCHANGED <<shared, authJar>>

\* refresh_auth: auth.cookie_jar becomes the live jar (update_auth_headers), which
\* is saved.
RefreshAuth(p) ==
    /\ Dispatch(p)
    /\ shared' = shared \union {p} /\ authJar' = [authJar EXCEPT ![p] = NoSave.jar]

\* The session closes after a save; worker threads are waited for.  What was noted
\* and the numbers stay with the client, and so does the jar that is auth.cookie_jar.
Close(p) ==
    /\ p \in open
    /\ nextSeq[p] > 1 /\ queued[p] = {} /\ saving[p] = NoSave
    /\ open' = open \ {p}
    /\ jar' = IF p \in shared THEN jar ELSE [jar EXCEPT ![p] = NoSave.jar]
    /\ UNCHANGED <<file, told, wrote, issued, logins, baseline, queued, nextSeq,
                   applied, saving, holder, authVars>>

\* Nothing of a client is left when its process ends.
Gone(p) ==
    /\ open' = open \ {p} /\ loaded' = loaded \ {p}
    /\ jar' = [jar EXCEPT ![p] = NoSave.jar]
    /\ authJar' = [authJar EXCEPT ![p] = NoSave.jar]
    /\ baseline' = [baseline EXCEPT ![p] = NoSave.jar]
    /\ queued' = [queued EXCEPT ![p] = {}]
    /\ nextSeq' = [nextSeq EXCEPT ![p] = 1]
    /\ applied' = [applied EXCEPT ![p] = 0]
    /\ shared' = shared \ {p} /\ adrift' = adrift \ {p}

Exit(p) ==
    /\ p \in loaded \ open
    /\ Gone(p)
    /\ UNCHANGED <<file, told, wrote, issued, logins, saving, holder>>

\* Wrong on purpose: an older save is applied over a newer one.
NeverOvertaken(p, job) == FALSE

\* A newer save has been applied already.
Overtaken(p, job) == job.seq < applied[p]

\* A worker gets save_lock; the threads come in any order.
BeginSave(p) ==
    /\ saving[p] = NoSave
    /\ \E job \in queued[p] :
        /\ queued' = [queued EXCEPT ![p] = @ \ {job}]
        /\ saving' = IF Overtaken(p, job) THEN saving
                     ELSE [saving EXCEPT ![p] =
                            [NoSave EXCEPT !.phase = "lock", !.seq = job.seq,
                                           !.jar = job.jar]]
    /\ UNCHANGED <<file, told, wrote, issued, logins, open, jar, baseline, nextSeq,
                   applied, holder, authVars>>

\* Wrong on purpose: nobody waits for the lock.
LockIgnored == TRUE

\* The lock is waited for.
LockFree == holder = Nobody

\* merge_cookie_delta reads the file under the lock ...
MergeRead(p) ==
    /\ saving[p].phase = "lock" /\ LockFree
    /\ holder' = p
    /\ saving' = [saving EXCEPT ![p].phase = "write", ![p].read = file.cookies,
                                ![p].account = file.account]
    /\ UNCHANGED <<file, told, wrote, issued, logins, open, jar, baseline, queued,
                   nextSeq, applied, authVars>>

\* ... compares each key (_merge_cookies_with_snapshot): a change is refused
\* when the file holds neither what this client last knew nor what it brings ...
Changed(p, k)  == saving[p].jar[k] # baseline[p][k]

Expected(p, k) == {Absent, baseline[p][k], saving[p].jar[k]}
Rejected(p, k) == Changed(p, k) /\ saving[p].read[k] \notin Expected(p, k)

Merged(p) ==
    [k \in Keys |-> IF Changed(p, k) /\ ~Rejected(p, k)
                    THEN saving[p].jar[k] ELSE saving[p].read[k]]

\* Wrong on purpose: the baseline is advanced for a refused key as well.
AdvancedAll(p) == saving[p].jar

\* _advance_baseline_after_save: all keys but the refused ones.
Advanced(p) ==
    [k \in Keys |-> IF Rejected(p, k) THEN baseline[p][k] ELSE saving[p].jar[k]]

EndSave(p) ==
    /\ saving' = [saving EXCEPT ![p] = NoSave]
    /\ holder' = IF holder = p THEN Nobody ELSE holder

\* ... and replaces the file if a key was updated.
MergeWrite(p) ==
    /\ saving[p].phase = "write"
    /\ IF \E k \in Keys : Changed(p, k) /\ ~Rejected(p, k)
       THEN Store(Merged(p), saving[p].account) ELSE UNCHANGED <<file, wrote>>
    /\ applied' = [applied EXCEPT ![p] = saving[p].seq]
    /\ baseline' = [baseline EXCEPT ![p] = Advanced(p)]
    /\ EndSave(p)
    /\ UNCHANGED <<told, issued, logins, open, jar, queued, nextSeq, authVars>>

\* The write fails: neither the number nor the baseline moves.
MergeFails(p) ==
    /\ saving[p].phase = "write"
    /\ EndSave(p)
    /\ UNCHANGED <<file, told, wrote, issued, logins, open, jar, baseline, queued,
                   nextSeq, applied, authVars>>

-----------------------------------------------------------------------------
\* The writers below give up when they cannot have the lock; they hold it from
\* their reading to their writing, so each is one step.
\* replace_from_login, replace_from_remint, persist_minted_jar: the cookies of a
\* new login, perhaps fewer, with the account set or carried over.
Login ==
    /\ LockFree /\ issued <= MaxIssued
    /\ issued' = issued + 1
    /\ logins' = logins + 1
    /\ \E kept \in SUBSET Keys \ {{}}, a \in Accounts :
        /\ Store([k \in Keys |-> IF k \in kept
                    THEN [login |-> logins + 1, n |-> issued + 1] ELSE Absent], a)
        /\ told' = a
    /\ UNCHANGED <<clientVars, holder>>

\* update_account_metadata, clear_in_band_account.
SetAccount ==
    /\ LockFree
    /\ \E a \in Accounts \ {file.account} :
        /\ Store(file.cookies, a)
        /\ told' = a
    /\ UNCHANGED <<issued, logins, clientVars, holder>>

\* A client is killed; the system releases its lock, os.replace leaves no half.
Kill(p) ==
    /\ p \in open
    /\ Gone(p) /\ EndSave(p)
    /\ UNCHANGED <<file, told, wrote, issued, logins>>

SaveStep(p) == BeginSave(p) \/ MergeRead(p) \/ MergeWrite(p)

Next ==
    \/ \E p \in Clients :
        \/ Open(p) \/ Reopen(p) \/ Reload(p) \/ Save(p) \/ RefreshAuth(p) \/ Close(p) \/ Exit(p)
        \/ SaveStep(p) \/ MergeFails(p) \/ Kill(p)
        \/ \E k \in Keys : Rotate(p, k) \/ Evict(p, k)
    \/ Login
    \/ SetAccount

Spec == Init /\ [][Next]_vars

-----------------------------------------------------------------------------
Jars == [Keys -> Cookies]

\* Every variable has its type, and only an open client has a save under way: the
\* file, the clients' jars and the saves of _cookie_persistence.py.
TypeOK ==
    /\ file \in [cookies : Jars, account : Accounts]
    /\ told \in Accounts
    /\ wrote \in [Keys -> SUBSET Cookies]
    /\ issued \in 1..(MaxIssued + 1) /\ logins \in 1..(MaxIssued + 1)
    /\ jar \in [Clients -> Jars] /\ baseline \in [Clients -> Jars]
    /\ \A p \in Clients : \A job \in queued[p] :
        job.seq \in Nat /\ job.jar \in Jars
    /\ nextSeq \in [Clients -> Nat \ {0}]
    /\ applied \in [Clients -> Nat]
    /\ saving \in [Clients -> [phase : {"none", "lock", "write"}, seq : Nat,
                               jar : Jars, read : Jars,
                               account : Accounts \union {Nobody}]]
    /\ \A p \in Clients \ open : queued[p] = {} /\ saving[p] = NoSave
    /\ holder \in Clients \union {Nobody}
    /\ open \subseteq loaded /\ loaded \subseteq Clients /\ authJar \in [Clients -> Jars]
    /\ shared \subseteq loaded /\ adrift \subseteq loaded

\* The file's cookie is replaced by a younger one of its login, or by a later login's.
Forward(k) ==
    LET old == file.cookies[k]
        new == file'.cookies[k]
    IN (old # new /\ old # Absent /\ new # Absent) =>
           \/ new.login > old.login
           \/ new.login = old.login /\ new.n > old.n

\* A client whose jar has grown out of what it noted never puts an older cookie over
\* a newer one, nor one of an earlier login over what a login wrote, in whatever
\* order its saves run (the stale-overwrite-fresh race that the merge of storage.py
\* and the dispatch numbers of _cookie_persistence.py exclude).  Two kinds of jar have
\* not: one reloaded in the session, and the one of a client that was closed and
\* opened again without a refresh in between.
NeverOlder ==
    [][(logins' = logins /\ \A p \in adrift : saving[p].phase # "write")
            => \A k \in Keys : Forward(k)]_vars

\* Known limit: the same of every client.  One that rotates a cookie, saves, is
\* closed and opened again puts the cookie it first loaded back over the newer one
\* (_kernel.py:88, _cookie_persistence.py:82), and so may one that reloaded.
NeverOlderReopened == [][logins' = logins => \A k \in Keys : Forward(k)]_vars

\* What a client takes to be in the file was there: a refused or failed save is
\* not noted as done, so that the next one offers the cookie again
\* (_advance_baseline_after_save), also by a client that was closed and opens again.
BaselineWasWritten ==
    \A p \in loaded : \A k \in Keys :
        baseline[p][k] \in wrote[k] \union {Absent}

\* The saves of cookies rewrite the whole file and never undo an account that
\* was set meanwhile: readers of the file hold the lock until they have written.
AccountKept == file.account = told

\* The store between the steps of its writers: well typed, and the account the one
\* that was set last.
StoreInv == TypeOK /\ AccountKept

\* storage.py:481: cookies the service issues "are serialized back to disk".  A
\* save that brings a newer cookie of the file's own login has it written; of a
\* client alone with the file this fails after Reload, as the baseline is that
\* of the login before.
NewestIsWritten ==
    [][\A p \in Clients :
        (saving[p].phase = "write" /\ applied'[p] = saving[p].seq) =>
            \A k \in Keys :
                LET new == saving[p].jar[k]
                    old == file.cookies[k]
                IN (new.login = old.login /\ new.n > old.n) =>
                        file'.cookies[k] = new]_vars

=============================================================================
