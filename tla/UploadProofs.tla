---------------------------- MODULE UploadProofs ----------------------------
(***************************************************************************)
(* Proofs about Upload for every value of its constants.  The types need   *)
(* no assumption.  The rest is proved for runs under the flock only        *)
(* (Manual = {}): a run by hand beside the scheduled one can publish a     *)
(* file twice (README, known limits).                                      *)
(***************************************************************************)
EXTENDS Upload, TLAPS

\* A process that ends leaves the client's memory well typed.
LEMMA ExitTypes ==
    ASSUME TypeOK, Assigned, NEW p \in Procs, Exit(p)
    PROVE  /\ pc' \in [Procs -> Pcs]
           /\ file' \in [Procs -> Files \cup {NoFile}]
           /\ mem' \in [Procs -> [Files -> Record]]
           /\ uri' \in [Procs -> Sessions \cup {NoSession}]
           /\ lost' \subseteq Procs /\ lock' \in Procs \cup {NoProc}
           /\ Assigned'
<1>1. [f \in Files |-> NoRecord] \in [Files -> Record]
  BY DEF Record
<1> QED
  BY <1>1 DEF TypeOK, Assigned, Exit, Pcs

\* A session that the service commits leaves its state well typed.
LEMMA CommitTypes ==
    ASSUME TypeOK, NEW s \in Sessions, Commit(s)
    PROVE  /\ state' \in [Sessions -> {"unused", "open", "complete", "expired"}]
           /\ wire' \subseteq Sessions /\ videos' \subseteq Sessions
  BY DEF TypeOK, Commit

\* Every step keeps every variable in its type; a process that moves needs a
\* file of the channel for that.
LEMMA TypeStep == TypeOK /\ Assigned /\ [Next]_vars => (TypeOK /\ Assigned)'
<1> SUFFICES ASSUME TypeOK, Assigned, [Next]_vars PROVE (TypeOK /\ Assigned)'
  OBVIOUS
<1> USE UploadAssumption DEF TypeOK, Assigned, Record, NoRecord, Pcs
<1>1. ASSUME NEW p \in Procs, NEW f \in Files, NEW force \in BOOLEAN,
             Start(p, f, force)
      PROVE  (TypeOK /\ Assigned)'
  BY <1>1 DEF Start, service
<1>2. ASSUME NEW p \in Procs, Query(p) PROVE (TypeOK /\ Assigned)'
  <2> DEFINE s == mem[p][file[p]].ref
  <2>1. s \in Sessions /\ file[p] \in Files
    BY <1>2 DEF Query
  <2>2. pc' \in [Procs -> Pcs] /\ uri' \in [Procs -> Sessions \cup {NoSession}]
    BY <1>2, <2>1 DEF Query
  <2>3. excused' \subseteq Files /\ lost' \subseteq Procs
    BY <1>2, <2>1 DEF Query
  <2>4. Assigned'
    BY <1>2, <2>1 DEF Query
  <2> QED
    BY <1>2, <2>2, <2>3, <2>4 DEF Query, service
<1>3. ASSUME NEW p \in Procs, InitUpload(p) PROVE (TypeOK /\ Assigned)'
  BY <1>3 DEF InitUpload, ghost
<1>4. ASSUME NEW p \in Procs, SaveSession(p) PROVE (TypeOK /\ Assigned)'
  BY <1>4 DEF SaveSession, SaveRecord, Uploading, service, ghost
<1>5. ASSUME NEW p \in Procs, UploadBody(p) PROVE (TypeOK /\ Assigned)'
  <2>1. CASE p \notin lost
    BY <1>5, <2>1 DEF UploadBody, ghost
  <2>2. CASE p \in lost
    BY <1>5, <2>2, ExitTypes DEF UploadBody, ghost
  <2> QED
    BY <2>1, <2>2
<1>6. ASSUME NEW p \in Procs, Reply(p) PROVE (TypeOK /\ Assigned)'
  <2>1. CASE state[uri[p]] = "complete"
    BY <1>6, <2>1 DEF Reply, service, ghost
  <2>2. CASE state[uri[p]] # "complete"
    BY <1>6, <2>2, ExitTypes DEF Reply, service, ghost
  <2> QED
    BY <2>1, <2>2
<1>7. ASSUME NEW p \in Procs, Finalize(p) PROVE (TypeOK /\ Assigned)'
  <2>1. uri[p] \in Sessions
    BY <1>7 DEF Finalize
  <2>2. CASE state[uri[p]] = "open"
    BY <1>7, <2>1, <2>2, CommitTypes DEF Finalize, ghost
  <2>3. CASE state[uri[p]] = "complete"
    BY <1>7, <2>3 DEF Finalize, ghost
  <2>4. CASE state[uri[p]] = "expired"
    BY <1>7, <2>4, ExitTypes DEF Finalize, ghost
  <2> QED
    BY <1>7, <2>2, <2>3, <2>4 DEF Finalize
<1>8. ASSUME NEW p \in Procs, RecordDone(p) PROVE (TypeOK /\ Assigned)'
  BY <1>8 DEF RecordDone, Done, Exit, service, ghost
<1>9. ASSUME NEW p \in Procs, Crash(p) PROVE (TypeOK /\ Assigned)'
  BY <1>9 DEF Crash, Fault, Exit, service
<1>10. ASSUME NEW s \in Sessions, Receive(s) PROVE (TypeOK /\ Assigned)'
  BY <1>10 DEF Receive, client, ghost
<1>11. ASSUME NEW s \in Sessions, Complete(s) PROVE (TypeOK /\ Assigned)'
  BY <1>11 DEF Complete, Commit, client, ghost
<1>12. ASSUME NEW s \in Sessions, Disconnect(s) PROVE (TypeOK /\ Assigned)'
  BY <1>12 DEF Disconnect, Fault, client
<1>13. ASSUME NEW s \in Sessions, Expire(s) PROVE (TypeOK /\ Assigned)'
  BY <1>13 DEF Expire, Fault, client
<1>14. CASE UNCHANGED vars
  BY <1>14 DEF vars
<1> QED
  BY <1>1, <1>2, <1>3, <1>4, <1>5, <1>6, <1>7, <1>8, <1>9, <1>10, <1>11,
     <1>12, <1>13, <1>14 DEF Next, Step, ServiceStep

\* The initial state is well typed.
LEMMA TypeInit == Init => TypeOK /\ Assigned
  BY UploadAssumption DEF Init, TypeOK, Assigned, Record, NoRecord, Pcs

\* The variables of client, service and bookkeeping keep their types, also
\* with runs started by hand.
THEOREM TypeCorrect == Spec => []TypeOK
  BY TypeInit, TypeStep, PTL DEF Spec

-----------------------------------------------------------------------------
(* Runs under the flock. *)

Safe == OneRunner /\ RecordsAgree /\ ServiceSane /\ Recorded /\
        \A p \in Procs : Position(p)

\* Nothing is published and nothing recorded.
LEMMA SafeInit == Init => Safe
  BY DEF Init, Safe, OneRunner, RecordsAgree, ServiceSane, Recorded, Position,
         Sent

\* The flock: when p is under way every other process is idle.
LEMMA Alone ==
    ASSUME OneRunner, NEW p \in Procs, pc[p] # "idle",
           NEW q \in Procs, q # p
    PROVE  pc[q] = "idle"
  BY DEF OneRunner

\* A run that starts holds the lock.
LEMMA StartSafe ==
    ASSUME Manual = {}, TypeOK, Assigned, Safe, NEW p \in Procs,
           NEW f \in Files, NEW force \in BOOLEAN, Start(p, f, force)
    PROVE  Safe'
<1> USE DEF Safe, Start, TypeOK
<1>1. \A q \in Procs : q # p => pc[q] = "idle" /\ pc'[q] = "idle"
  BY UploadAssumption DEF OneRunner
<1>2. OneRunner'
  BY <1>1 DEF OneRunner
<1>3. RecordsAgree' /\ ServiceSane'
  BY DEF RecordsAgree, ServiceSane, Sent, service
<1>4. Recorded'
  BY DEF Recorded, Sent, service
<1>5. disk[f].status # "uploading" => f \in excused' \/ disk[f] = NoRecord
  BY DEF RecordsAgree, Record, NoRecord
<1>6. pc'[p] = "init" => Fresh(f)'
  <2> SUFFICES ASSUME disk[f] = NoRecord, f \notin excused,
                      NEW s \in Sessions, owner[s] = f, Sent(s)
               PROVE  state[s] = "expired" /\ s \notin videos
    BY <1>5 DEF Fresh, Sent, service
  <2>1. disk[f].ref # s
    BY UploadAssumption DEF NoRecord
  <2> QED
    BY <2>1 DEF Recorded
<1>7. \A q \in Procs : Position(q)'
  BY <1>1, <1>6 DEF Position
<1> QED
  BY <1>2, <1>3, <1>4, <1>7

\* Asking for a session's status publishes nothing new.
LEMMA QuerySafe ==
    ASSUME TypeOK, Assigned, Safe, NEW p \in Procs, Query(p)
    PROVE  Safe'
<1> DEFINE f == file[p]
           s == disk[f].ref
<1>1. /\ f \in Files /\ mem[p] = disk /\ lock = p
      /\ disk[f].status = "uploading" /\ s \in Sessions
      /\ disk[f] = Uploading(s) /\ owner[s] = f
  BY DEF Query, Safe, OneRunner, Assigned, TypeOK, Record, NoRecord,
         RecordsAgree, Uploading
<1>2. \A q \in Procs : q # p => pc'[q] = "idle"
  BY Alone DEF Query, Safe, TypeOK
<1>3. OneRunner'
  BY <1>1, <1>2 DEF Query, OneRunner
<1>4. RecordsAgree' /\ ServiceSane'
  BY DEF Safe, Query, RecordsAgree, ServiceSane, Sent, service
<1>5. Recorded'
  BY DEF Safe, Query, Recorded, Sent, service, TypeOK
<1>6. Position(p)'
  <2>1. CASE state[s] = "complete"
    BY <1>1, <2>1 DEF Query, Position, Safe, ServiceSane, TypeOK, service
  <2>2. CASE state[s] = "open"
    BY <1>1, <2>2, UploadAssumption DEF Query, Position, TypeOK, service
  <2>3. CASE state[s] = "expired"
    <3>1. s \in videos => f \in excused'
      BY <1>1, <2>3 DEF Query, TypeOK
    <3>2. Fresh(f)'
      BY <1>1, <2>3, <3>1 DEF Query, Fresh, Safe, Recorded, Sent, service,
         TypeOK
    <3> QED
      BY <1>1, <2>3, <3>2 DEF Query, Position, TypeOK
  <2> QED
    BY <1>1, <2>1, <2>2, <2>3 DEF Query
<1> QED
  BY <1>2, <1>3, <1>4, <1>5, <1>6 DEF Safe, Position

\* A new session is the file's own, and not on disk yet.
LEMMA InitUploadSafe ==
    ASSUME TypeOK, Assigned, Safe, NEW p \in Procs, InitUpload(p)
    PROVE  Safe'
<1>1. PICK s \in Sessions :
          /\ state[s] = "unused"
          /\ state' = [state EXCEPT ![s] = "open"]
          /\ owner' = [owner EXCEPT ![s] = file[p]]
          /\ uri' = [uri EXCEPT ![p] = s]
  BY DEF InitUpload
<1>2. file[p] \in Files /\ pc[p] = "init" /\ ~Sent(s) /\ owner[s] = NoFile
  BY <1>1 DEF InitUpload, Assigned, Safe, ServiceSane
<1>3. \A q \in Procs : q # p => pc'[q] = "idle"
  BY <1>2, Alone DEF InitUpload, Safe, TypeOK
<1>4. OneRunner'
  BY <1>2, <1>3 DEF InitUpload, Safe, OneRunner, ghost
<1>5. \A t \in Sessions : Sent(t)' <=> Sent(t)
  BY DEF InitUpload, Sent
<1>6. RecordsAgree'
  BY <1>1, <1>2, UploadAssumption DEF InitUpload, Safe, RecordsAgree, TypeOK,
     Record, NoRecord
<1>7. ServiceSane'
  BY <1>1, <1>2, <1>5 DEF InitUpload, Safe, ServiceSane, TypeOK, Sent
<1>8. Recorded'
  BY <1>1, <1>2, <1>5 DEF InitUpload, Safe, Recorded, TypeOK, ghost
<1>9. Fresh(file[p])'
  BY <1>1, <1>2, <1>5 DEF InitUpload, Safe, Position, Fresh, TypeOK, ghost
<1>10. Position(p)'
  BY <1>1, <1>2, <1>5, <1>9 DEF InitUpload, Position, TypeOK
<1> QED
  BY <1>3, <1>4, <1>6, <1>7, <1>8, <1>10 DEF Safe, Position

\* The session is written down before its bytes are sent.
LEMMA SaveSessionSafe ==
    ASSUME TypeOK, Assigned, Safe, NEW p \in Procs, SaveSession(p)
    PROVE  Safe'
<1> DEFINE f == file[p]
<1>1. /\ pc[p] = "save" /\ f \in Files /\ uri[p] \in Sessions
      /\ mem[p] = disk /\ lock = p /\ Fresh(f)
      /\ owner[uri[p]] = f /\ ~Sent(uri[p]) /\ state[uri[p]] # "unused"
  BY DEF SaveSession, Assigned, Safe, OneRunner, Position
<1>2. \A q \in Procs : q # p => pc'[q] = "idle"
  BY <1>1, Alone DEF SaveSession, Safe, TypeOK
<1>3. /\ disk' = [disk EXCEPT ![f] = Uploading(uri[p])]
      /\ mem'[p] = disk'
  BY <1>1 DEF SaveSession, SaveRecord, TypeOK
<1>4. OneRunner'
  BY <1>1, <1>2, <1>3 DEF SaveSession, OneRunner
<1>5. RecordsAgree' /\ ServiceSane'
  BY <1>1, <1>3 DEF SaveSession, Safe, RecordsAgree, ServiceSane, Sent,
     Uploading, service, TypeOK, NoRecord, Record
<1>6. Recorded'
  BY <1>1, <1>3 DEF SaveSession, Safe, Recorded, Fresh, Sent, service, ghost,
     TypeOK
<1>7. Position(p)'
  BY <1>1, <1>3 DEF SaveSession, Position, TypeOK, Uploading
<1> QED
  BY <1>2, <1>4, <1>5, <1>6, <1>7 DEF Safe, Position

\* The bytes go to the session that is on disk.
LEMMA UploadBodySafe ==
    ASSUME TypeOK, Assigned, Safe, NEW p \in Procs, UploadBody(p), p \notin lost
    PROVE  Safe'
<1>1. /\ pc[p] = "put" /\ file[p] \in Files /\ uri[p] \in Sessions
      /\ disk[file[p]] = Uploading(uri[p])
  BY DEF UploadBody, Assigned, Safe, Position
<1>2. \A q \in Procs : q # p => pc'[q] = "idle"
  BY <1>1, Alone DEF UploadBody, Safe, TypeOK
<1>3. OneRunner' /\ RecordsAgree'
  BY <1>1, <1>2 DEF UploadBody, Safe, OneRunner, RecordsAgree
<1>4. owner[uri[p]] = file[p] /\ disk[file[p]].ref = uri[p]
  BY <1>1 DEF Safe, RecordsAgree, Uploading, NoRecord
<1>5. ServiceSane'
  BY <1>1 DEF UploadBody, Safe, ServiceSane, Sent, TypeOK
<1>6. Recorded'
  BY <1>1, <1>4 DEF UploadBody, Safe, Recorded, Sent, ghost, TypeOK
<1>7. Position(p)'
  BY <1>1 DEF UploadBody, Position, TypeOK
<1> QED
  BY <1>2, <1>3, <1>5, <1>6, <1>7 DEF Safe, Position

\* A process that only ends, whatever the reason, disturbs nothing.
LEMMA ExitSafe ==
    ASSUME TypeOK, Safe, NEW p \in Procs, pc[p] # "idle", Exit(p),
           UNCHANGED <<disk, service, excused>>
    PROVE  Safe'
<1>1. \A q \in Procs : pc'[q] = "idle"
  BY Alone DEF Exit, Safe, TypeOK
<1> QED
  BY <1>1 DEF Safe, OneRunner, RecordsAgree, ServiceSane, Recorded, Sent,
     Position, service

\* A run without an offset ends, and what it leaves is on disk.
LEMMA LostOffsetSafe ==
    ASSUME TypeOK, Assigned, Safe, NEW p \in Procs, UploadBody(p), p \in lost
    PROVE  Safe'
  BY ExitSafe DEF UploadBody, service, ghost

\* The session of a process past the save becomes a video.
LEMMA CommitSafe ==
    ASSUME TypeOK, Safe, NEW s \in Sessions, Commit(s),
           state[s] = "open", Sent(s),
           UNCHANGED <<disk, owner, recv, excused>>
    PROVE  RecordsAgree' /\ ServiceSane' /\ Recorded'
<1>1. RecordsAgree'
  BY DEF Commit, Safe, RecordsAgree
<1>2. ServiceSane'
  BY DEF Commit, Safe, ServiceSane, Sent, TypeOK
<1>3. Recorded'
  BY DEF Commit, Safe, Recorded, Sent, TypeOK
<1> QED
  BY <1>1, <1>2, <1>3

\* A reply sends the run to the record of its own session, or ends it.
LEMMA ReplySafe ==
    ASSUME TypeOK, Assigned, Safe, NEW p \in Procs, Reply(p)
    PROVE  Safe'
<1>1. CASE state[uri[p]] # "complete"
  BY <1>1, ExitSafe DEF Reply, ghost
<1>2. CASE state[uri[p]] = "complete"
  <2>1. pc[p] = "await" /\ uri[p] \in Sessions
    BY DEF Reply, Assigned
  <2>2. \A q \in Procs : q # p => pc'[q] = "idle"
    BY <1>2, <2>1, Alone DEF Reply, Safe, TypeOK
  <2>3. OneRunner' /\ RecordsAgree' /\ ServiceSane' /\ Recorded'
    BY <1>2, <2>1, <2>2 DEF Reply, Safe, OneRunner, RecordsAgree,
       ServiceSane, Recorded, Sent, service, ghost
  <2>4. Position(p)'
    BY <1>2, <2>1 DEF Reply, Safe, Position, ServiceSane, service, TypeOK
  <2> QED
    BY <2>2, <2>3, <2>4 DEF Safe, Position
<1> QED
  BY <1>1, <1>2

\* A session that is all sent is finalized by the run it belongs to.
LEMMA FinalizeSafe ==
    ASSUME TypeOK, Assigned, Safe, NEW p \in Procs, Finalize(p)
    PROVE  Safe'
<1>1. /\ pc[p] = "finalize" /\ uri[p] \in Sessions /\ file[p] \in Files
      /\ disk[file[p]] = Uploading(uri[p]) /\ Sent(uri[p])
  BY DEF Finalize, Assigned, Safe, Position, Sent
<1>2. CASE state[uri[p]] = "expired"
  BY <1>1, <1>2, ExitSafe DEF Finalize, ghost, service
<1>3. CASE state[uri[p]] \in {"open", "complete"}
  <2>1. pc' = [pc EXCEPT ![p] = "record"] /\ UNCHANGED <<file, mem, uri, lock>>
    BY <1>3 DEF Finalize
  <2>2. \A q \in Procs : q # p => pc'[q] = "idle"
    BY <1>1, <2>1, Alone DEF Safe, TypeOK
  <2>3. OneRunner'
    BY <1>1, <2>1, <2>2 DEF Finalize, Safe, OneRunner
  <2>4. RecordsAgree' /\ ServiceSane' /\ Recorded'
    <3>1. CASE state[uri[p]] = "open"
      BY <1>1, <3>1, CommitSafe DEF Finalize, ghost
    <3>2. CASE state[uri[p]] = "complete"
      BY <3>2 DEF Finalize, Safe, RecordsAgree, ServiceSane, Recorded, Sent,
         ghost
    <3> QED
      BY <1>3, <3>1, <3>2
  <2>5. uri[p] \in videos'
    BY <1>1, <1>3 DEF Finalize, Commit, Safe, ServiceSane
  <2>6. Position(p)'
    BY <1>1, <2>1, <2>5 DEF Finalize, Position, TypeOK
  <2> QED
    BY <2>2, <2>3, <2>4, <2>6 DEF Safe, Position
<1> QED
  BY <1>2, <1>3 DEF Finalize

\* What is recorded is published.
LEMMA RecordDoneSafe ==
    ASSUME TypeOK, Assigned, Safe, NEW p \in Procs, RecordDone(p)
    PROVE  Safe'
<1> DEFINE f == file[p]
<1>1. /\ pc[p] = "record" /\ f \in Files /\ uri[p] \in Sessions
      /\ mem[p] = disk /\ disk[f] = Uploading(uri[p]) /\ uri[p] \in videos
  BY DEF RecordDone, Assigned, Safe, OneRunner, Position
<1>2. owner[uri[p]] = f
  BY <1>1 DEF Safe, RecordsAgree, Uploading, NoRecord
<1>3. \A q \in Procs : pc'[q] = "idle"
  BY <1>1, Alone DEF RecordDone, Exit, Safe, TypeOK
<1>4. disk' = [disk EXCEPT ![f] = Done(uri[p])]
  BY <1>1 DEF RecordDone
<1>5. RecordsAgree' /\ ServiceSane' /\ Recorded'
  BY <1>1, <1>2, <1>4 DEF RecordDone, Safe, RecordsAgree, ServiceSane,
     Recorded, Sent, Done, Uploading, service, ghost, TypeOK, NoRecord
<1> QED
  BY <1>3, <1>5 DEF Safe, OneRunner, Position

\* A step of the service or the network moves no process.
LEMMA ServiceSafe ==
    ASSUME TypeOK, Assigned, Safe, NEW s \in Sessions,
           ServiceStep(s) \/ Disconnect(s) \/ Expire(s)
    PROVE  Safe'
<1>1. UNCHANGED client /\ UNCHANGED <<owner, excused>>
  BY DEF ServiceStep, Receive, Complete, Disconnect, Expire, ghost
<1>2. OneRunner'
  BY <1>1 DEF client, Safe, OneRunner
<1>3. /\ \A t \in Sessions : Sent(t)' => Sent(t)
      /\ \A t \in Sessions : recv[t] > 0 => recv'[t] > 0
      /\ videos \subseteq videos'
      /\ \A t \in Sessions : state[t] = "unused" <=> state'[t] = "unused"
      /\ \A t \in Sessions : state[t] = "expired" => state'[t] = "expired"
      /\ \A t \in Sessions : t \in videos' /\ t \notin videos =>
                               state[t] = "open"
  <2>1. CASE Receive(s)
    BY <2>1 DEF Receive, Sent, TypeOK
  <2>2. CASE Complete(s)
    BY <2>2 DEF Complete, Commit, Sent, TypeOK
  <2>3. CASE Disconnect(s)
    BY <2>3 DEF Disconnect, Sent, TypeOK
  <2>4. CASE Expire(s)
    BY <2>4 DEF Expire, Sent, TypeOK
  <2> QED
    BY <2>1, <2>2, <2>3, <2>4 DEF ServiceStep
<1>4. RecordsAgree'
  BY <1>1, <1>3 DEF Safe, RecordsAgree, client
<1>5. ServiceSane'
  <2>1. CASE Receive(s)
    BY <2>1 DEF Receive, Safe, ServiceSane, Sent, TypeOK
  <2>2. CASE Complete(s)
    BY <2>2, CommitSafe DEF Complete, Sent, client, ghost
  <2>3. CASE Disconnect(s)
    BY <2>3 DEF Disconnect, Safe, ServiceSane, Sent, TypeOK
  <2>4. CASE Expire(s)
    BY <2>4 DEF Expire, Safe, ServiceSane, Sent, TypeOK
  <2> QED
    BY <2>1, <2>2, <2>3, <2>4 DEF ServiceStep
<1>6. Recorded'
  BY <1>1, <1>3 DEF Safe, Recorded, client
<1>7. ASSUME NEW p \in Procs PROVE Position(p)'
  <2>1. file[p] \in Files /\ Fresh(file[p]) => Fresh(file[p])'
    BY <1>1, <1>3 DEF Fresh, client
  <2> QED
    BY <1>1, <1>3, <2>1 DEF Safe, Position, Assigned, client
<1> QED
  BY <1>2, <1>4, <1>5, <1>6, <1>7 DEF Safe

\* Every step keeps the invariant.
LEMMA SafeStep ==
    ASSUME Manual = {}, TypeOK, Assigned, Safe, [Next]_vars
    PROVE  Safe'
<1>1. ASSUME NEW p \in Procs, NEW f \in Files, NEW force \in BOOLEAN,
             Start(p, f, force)
      PROVE  Safe'
  BY <1>1, StartSafe
<1>2. ASSUME NEW p \in Procs, Step(p) PROVE Safe'
  BY <1>2, QuerySafe, InitUploadSafe, SaveSessionSafe, UploadBodySafe,
     LostOffsetSafe, ReplySafe, FinalizeSafe, RecordDoneSafe DEF Step
<1>3. ASSUME NEW p \in Procs, Crash(p) PROVE Safe'
  BY <1>3, ExitSafe DEF Crash
<1>4. ASSUME NEW s \in Sessions,
             ServiceStep(s) \/ Disconnect(s) \/ Expire(s)
      PROVE  Safe'
  BY <1>4, ServiceSafe
<1>5. CASE UNCHANGED vars
  BY <1>5 DEF vars, Safe, OneRunner, RecordsAgree, ServiceSane, Recorded,
     Sent, Position, Fresh
<1> QED
  BY <1>1, <1>2, <1>3, <1>4, <1>5 DEF Next

\* The inductive invariant holds in every run under the flock.
THEOREM Invariance == ASSUME Manual = {} PROVE Spec => []IInv
<1>1. Init => IInv
  BY TypeInit, SafeInit DEF IInv, Safe
<1>2. IInv /\ [Next]_vars => IInv'
  BY TypeStep, SafeStep DEF IInv, Safe
<1> QED
  BY <1>1, <1>2, PTL DEF Spec

\* No file is published twice (youtube_upload.py:16-18), whatever crashes,
\* replies are lost or sessions expire, unless --force asked for it or the
\* service forgot a session it had completed.
THEOREM NeverPublishedTwice == ASSUME Manual = {} PROVE Spec => []NoDuplicate
<1>1. IInv => NoDuplicate
  <2> SUFFICES ASSUME IInv, NEW f \in Files \ excused,
                      NEW s \in VideosOf(f), NEW t \in VideosOf(f)
               PROVE  s = t
    BY DEF NoDuplicate
  <2>1. s \in Sessions /\ t \in Sessions
    BY DEF IInv, TypeOK, VideosOf
  <2> QED
    BY <2>1 DEF IInv, Recorded, Sent, VideosOf
<1> QED
  BY <1>1, Invariance, PTL

\* What a later run asks about is the session that holds the bytes
\* (youtube_upload.py:472-474).
THEOREM NothingSentIsForgotten ==
    ASSUME Manual = {} PROVE Spec => []SentIsRecorded
<1>1. IInv => SentIsRecorded
  BY DEF IInv, Recorded, SentIsRecorded
<1> QED
  BY <1>1, Invariance, PTL

\* A done record names a video that was published (youtube_upload.py:410-414).
THEOREM RecordIsTrue == ASSUME Manual = {} PROVE Spec => []RecordsInv
<1>1. IInv => RecordsInv
  BY DEF IInv, TypeOK, RecordsAgree, RecordsInv, DoneIsPublished, VideosOf, NoRecord
<1> QED
  BY <1>1, Invariance, PTL

\* Only --force reopens a done record: at the one point where a session is
\* written over a record, nothing sent for the file can be or become a video.
THEOREM DoneIsNeverUndone == ASSUME Manual = {} PROVE Spec => DoneIsKept
<1> DEFINE Kept == \A f \in Files \ excused' :
                      disk[f].status = "done" => disk'[f] = disk[f]
<1>1. ASSUME IInv, [Next]_vars PROVE Kept
  <2> USE <1>1 DEF IInv
  <2>1. ASSUME NEW p \in Procs, SaveSession(p) PROVE Kept
    <3>1. /\ file[p] \in Files /\ mem[p] = disk /\ Fresh(file[p])
          /\ excused' = excused
      BY <2>1 DEF SaveSession, Assigned, OneRunner, Position, ghost
    <3>2. disk[file[p]].status = "done" => file[p] \in excused
      BY <3>1 DEF Fresh, RecordsAgree, NoRecord, Sent, TypeOK
    <3> QED
      BY <2>1, <3>1, <3>2 DEF SaveSession, SaveRecord, TypeOK
  <2>2. ASSUME NEW p \in Procs, RecordDone(p) PROVE Kept
    <3>1. /\ file[p] \in Files /\ mem[p] = disk
          /\ disk[file[p]] = Uploading(uri[p])
      BY <2>2 DEF RecordDone, Assigned, OneRunner, Position
    <3>2. disk[file[p]].status # "done"
      BY <3>1 DEF Uploading
    <3> QED
      BY <2>2, <3>1, <3>2 DEF RecordDone, TypeOK
  <2>3. CASE UNCHANGED disk
    BY <2>3
  <2> QED
    BY <2>1, <2>2, <2>3 DEF Next, Step, ServiceStep, Start, Query, InitUpload,
       UploadBody, Reply, Finalize, Crash, Receive, Complete, Disconnect,
       Expire, client, vars
<1> QED
  BY <1>1, Invariance, PTL DEF Spec, DoneIsKept

-----------------------------------------------------------------------------
(* Upload implements UploadAbstract. *)

\* A commit is the abstract Publish: the file has no video yet, because the
\* recorded session is this one and not that of an earlier video.
LEMMA CommitPublishes ==
    ASSUME IInv, NEW s \in Sessions, Commit(s), state[s] = "open", Sent(s),
           UNCHANGED <<disk, owner, excused>>
    PROVE  Abstract!Publish(owner[s])
<1>1. owner[s] \in Files /\ s \notin videos
  BY DEF IInv, ServiceSane
<1>2. VideosOf(owner[s]) = {} \/ owner[s] \in excused
  <2> SUFFICES ASSUME owner[s] \notin excused, NEW t \in VideosOf(owner[s])
               PROVE  FALSE
    OBVIOUS
  <2>1. t \in Sessions /\ t \in videos /\ owner[t] = owner[s]
    BY DEF VideosOf, IInv, TypeOK
  <2>2. disk[owner[s]].ref = t /\ disk[owner[s]].ref = s
    BY <2>1 DEF IInv, Recorded, Sent
  <2> QED
    BY <1>1, <2>1, <2>2
<1>3. \A f \in Files : VideosOf(f)' = IF f = owner[s] THEN VideosOf(f) \cup {s}
                                     ELSE VideosOf(f)
  BY DEF VideosOf, Commit
<1>4. [f \in Files |-> VideosOf(f)]'
        = [[f \in Files |-> VideosOf(f)] EXCEPT ![owner[s]] = @ \cup {s}]
  BY <1>1, <1>3
<1> QED
  BY <1>1, <1>2, <1>4 DEF Abstract!Publish

\* A step that touches neither the videos nor a record's status is a stutter.
LEMMA Stutter ==
    ASSUME UNCHANGED <<disk, videos, owner, excused>>
    PROVE  UNCHANGED Abstract!avars
  BY DEF Abstract!avars, VideosOf

\* Every step is one of the abstract publisher, or a stutter.
LEMMA StepImplements ==
    ASSUME Manual = {}, IInv, [Next]_vars
    PROVE  [Abstract!ANext]_(Abstract!avars)
<1> DEFINE pub == [f \in Files |-> VideosOf(f)]
           rep == [f \in Files |-> disk[f].status = "done"]
           Goal == [Abstract!ANext]_(Abstract!avars)
<1>1. ASSUME NEW p \in Procs, NEW f \in Files, NEW force \in BOOLEAN,
             Start(p, f, force)
      PROVE  Goal
  <2>1. pub' = pub /\ rep' = rep
    BY <1>1 DEF Start, service, VideosOf
  <2>2. excused' = excused \/ excused' = excused \cup {f}
    BY <1>1 DEF Start
  <2> QED
    BY <2>1, <2>2 DEF Abstract!ANext, Abstract!Waive, Abstract!avars
<1>2. ASSUME NEW p \in Procs, Query(p) PROVE Goal
  <2>1. pub' = pub /\ rep' = rep
    BY <1>2 DEF Query, service, VideosOf
  <2>2. file[p] \in Files
    BY <1>2 DEF Query, IInv, Assigned
  <2>3. excused' = excused \/ excused' = excused \cup {file[p]}
    BY <1>2 DEF Query
  <2> QED
    BY <2>1, <2>2, <2>3 DEF Abstract!ANext, Abstract!Waive, Abstract!avars
<1>3. ASSUME NEW p \in Procs, InitUpload(p) PROVE Goal
  <2>1. \A f \in Files : VideosOf(f)' = VideosOf(f)
    BY <1>3 DEF InitUpload, IInv, ServiceSane, Sent, VideosOf, TypeOK
  <2>2. pub' = pub /\ rep' = rep /\ excused' = excused
    BY <1>3, <2>1 DEF InitUpload, ghost
  <2> QED
    BY <2>2 DEF Abstract!avars
<1>4. ASSUME NEW p \in Procs, SaveSession(p) PROVE Goal
  <2> DEFINE f == file[p]
  <2>1. f \in Files /\ mem[p] = disk /\ Fresh(f)
    BY <1>4 DEF SaveSession, IInv, Assigned, OneRunner, Position
  <2>2. disk' = [disk EXCEPT ![f] = Uploading(uri[p])]
    BY <1>4, <2>1 DEF SaveSession, SaveRecord
  <2>3. pub' = pub /\ excused' = excused
    BY <1>4 DEF SaveSession, service, ghost, VideosOf
  <2>4. rep' = [rep EXCEPT ![f] = FALSE]
    BY <2>1, <2>2 DEF Uploading, IInv, TypeOK
  <2>5. CASE disk[f].status = "done"
    <3>1. f \in excused
      BY <2>1, <2>5 DEF IInv, Fresh, RecordsAgree, NoRecord, Sent, TypeOK
    <3> QED
      BY <2>1, <2>3, <2>4, <3>1 DEF Abstract!ANext, Abstract!Reopen
  <2>6. CASE disk[f].status # "done"
    <3>1. rep' = rep
      BY <2>1, <2>4, <2>6
    <3> QED
      BY <2>3, <3>1 DEF Abstract!avars
  <2> QED
    BY <2>5, <2>6
<1>5. ASSUME NEW p \in Procs, RecordDone(p) PROVE Goal
  <2> DEFINE f == file[p]
  <2>1. /\ f \in Files /\ mem[p] = disk /\ uri[p] \in videos
        /\ disk[f] = Uploading(uri[p])
    BY <1>5 DEF RecordDone, IInv, Assigned, OneRunner, Position
  <2>2. owner[uri[p]] = f
    BY <2>1 DEF IInv, RecordsAgree, Uploading, NoRecord
  <2>3. disk' = [disk EXCEPT ![f] = Done(uri[p])]
    BY <1>5, <2>1 DEF RecordDone
  <2>4. pub' = pub /\ excused' = excused
    BY <1>5 DEF RecordDone, service, ghost, VideosOf
  <2>5. \A g \in Files :
            (disk'[g].status = "done") = IF g = f THEN TRUE
                                         ELSE (disk[g].status = "done")
    BY <2>1, <2>3 DEF Done, IInv, TypeOK
  <2>6. rep' = [rep EXCEPT ![f] = TRUE]
    BY <2>1, <2>5, Zenon
  <2>7. ~rep[f]
    <3>1. ~(disk[f].status = "done")
      BY <2>1 DEF Uploading
    <3> QED
      BY <2>1, <3>1, Zenon
  <2>8. pub[f] # {}
    BY <2>1, <2>2 DEF VideosOf
  <2> QED
    BY <2>1, <2>4, <2>6, <2>7, <2>8 DEF Abstract!ANext, Abstract!Report
<1>6. ASSUME NEW p \in Procs, Finalize(p) PROVE Goal
  <2>1. uri[p] \in Sessions /\ Sent(uri[p])
    BY <1>6 DEF Finalize, IInv, Assigned, Position, Sent
  <2>2. CASE state[uri[p]] = "open"
    <3>1. Abstract!Publish(owner[uri[p]])
      BY <1>6, <2>1, <2>2, CommitPublishes DEF Finalize, ghost
    <3>2. owner[uri[p]] \in Files
      BY <2>1, <2>2 DEF IInv, ServiceSane
    <3> QED
      BY <3>1, <3>2 DEF Abstract!ANext
  <2>3. CASE state[uri[p]] # "open"
    BY <1>6, <2>3, Stutter DEF Finalize, ghost
  <2> QED
    BY <2>2, <2>3
<1>7. ASSUME NEW s \in Sessions, Complete(s) PROVE Goal
  <2>1. Abstract!Publish(owner[s])
    BY <1>7, CommitPublishes DEF Complete, Sent, client, ghost
  <2>2. owner[s] \in Files
    BY <1>7 DEF Complete, IInv, ServiceSane
  <2> QED
    BY <2>1, <2>2 DEF Abstract!ANext
<1>8. CASE UNCHANGED <<disk, videos, owner, excused>>
  BY <1>8, Stutter
<1> QED
  BY <1>1, <1>2, <1>3, <1>4, <1>5, <1>6, <1>7, <1>8 DEF Next, Step,
     ServiceStep, UploadBody, Reply, Crash, Receive, Disconnect, Expire,
     client, service, ghost, vars

\* The whole script, with its sessions, its record file and its retries, is
\* a publication at most once per file and a truthful report of it.
THEOREM Refinement == ASSUME Manual = {} PROVE Spec => ImplementsAbstract
<1>1. Init => Abstract!AInit
  <2> SUFFICES ASSUME Init PROVE Abstract!AInit
    OBVIOUS
  <2>1. \A f \in Files : VideosOf(f) = {}
    BY DEF Init, VideosOf
  <2>2. \A f \in Files : (disk[f].status = "done") = FALSE
    BY DEF Init, NoRecord
  <2> QED
    BY <2>1, <2>2, Zenon DEF Init, Abstract!AInit
<1>2. IInv /\ [Next]_vars => [Abstract!ANext]_(Abstract!avars)
  BY StepImplements
<1> QED
  BY <1>1, <1>2, Invariance, PTL DEF Spec, ImplementsAbstract, Abstract!ASpec

=============================================================================
