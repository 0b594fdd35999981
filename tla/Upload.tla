------------------------------- MODULE Upload -------------------------------
(***************************************************************************)
(* pipeline/scripts/youtube_upload.py: one channel's resumable uploads to  *)
(* YouTube and the record file youtube_uploads.json that makes a re-run    *)
(* resume an interrupted upload instead of starting a second one.          *)
(*                                                                         *)
(* A process is one execution of the script.  Those started by the cron    *)
(* and catch-up scripts run under `flock pipeline.lock`; those in Manual   *)
(* are started by hand, and the script takes no lock of its own.  The      *)
(* service keeps one session per init_upload; a session that has received  *)
(* the whole body is committed and becomes one video.                      *)
(***************************************************************************)
EXTENDS Naturals, FiniteSets

CONSTANTS
    Files,        \* video files of the channel (long video, Shorts)
    Procs,        \* executions of youtube_upload.py that may overlap
    Manual,       \* those started outside the flock
    Sessions,     \* resumable sessions the service can hand out
    Size,         \* a file's length, in units of transfer
    MaxForce,     \* bound: runs with --force
    MaxFaults,    \* bound: those, crashes, lost replies, HTTP errors, expiries
    NoFile, NoSession, NoProc

ASSUME UploadAssumption ==
    /\ Manual \subseteq Procs
    /\ Size \in Nat \ {0}
    /\ MaxForce \in Nat /\ MaxFaults \in Nat
    /\ NoFile \notin Files /\ NoSession \notin Sessions /\ NoProc \notin Procs

VARIABLES
    disk,     \* youtube_uploads.json: file name -> record
    pc,       \* where each process is in main()
    file,     \* the file a process uploads
    mem,      \* the records a process loaded when it started
    uri,      \* its session_uri, later the session whose video id it holds
    lost,     \* processes whose offset is None: decide_resume said restart
    lock,     \* holder of pipeline.lock
    state,    \* the service's view of each session
    owner,    \* the file a session was created for
    recv,     \* units of the body the service has received
    wire,     \* sessions with a body in flight (its sender may be dead)
    videos,   \* sessions that became a video: the published videos
    excused,  \* files whose duplicate is asked for, or beyond the client
    forces, faults

client  == <<disk, pc, file, mem, uri, lost, lock>>
service == <<state, owner, recv, wire, videos>>
ghost   == <<excused, forces, faults>>
vars    == <<disk, pc, file, mem, uri, lost, lock, state, owner, recv, wire, videos,
             excused, forces, faults>>

NoRecord == [status |-> "none", ref |-> NoSession]

Record == [status : {"uploading", "done"}, ref : Sessions] \cup {NoRecord}

\* The two records main() writes.  A done one keeps the video id; the session
\* that became the video stands for it.
Uploading(s) == [status |-> "uploading", ref |-> s]
Done(s)      == [status |-> "done", ref |-> s]

VideosOf(f) == {s \in videos : owner[s] = f}

Init ==
    /\ disk = [f \in Files |-> NoRecord]
    /\ pc = [p \in Procs |-> "idle"]
    /\ file = [p \in Procs |-> NoFile]
    /\ mem = [p \in Procs |-> [f \in Files |-> NoRecord]]
    /\ uri = [p \in Procs |-> NoSession]
    /\ lost = {} /\ lock = NoProc
    /\ state = [s \in Sessions |-> "unused"]
    /\ owner = [s \in Sessions |-> NoFile]
    /\ recv = [s \in Sessions |-> 0]
    /\ wire = {} /\ videos = {}
    /\ excused = {} /\ forces = 0 /\ faults = 0

-----------------------------------------------------------------------------
(* The script. *)

\* The process ends, by return, by fail(), by an exception or by a kill:
\* its memory is gone and the kernel drops its flock.
Exit(p) ==
    /\ pc' = [pc EXCEPT ![p] = "idle"]
    /\ file' = [file EXCEPT ![p] = NoFile]
    /\ mem' = [mem EXCEPT ![p] = [f \in Files |-> NoRecord]]
    /\ uri' = [uri EXCEPT ![p] = NoSession]
    /\ lost' = lost \ {p}
    /\ lock' = IF lock = p THEN NoProc ELSE lock

Fault == forces + faults < MaxFaults /\ faults' = faults + 1

\* Wrong on purpose: the cron script started without its flock.
StartUnlocked(p, f, force) ==
    /\ pc[p] = "idle"
    /\ disk[f].status \in {"none", "uploading"} \/ force
    /\ force => forces < MaxForce /\ forces + faults < MaxFaults
    /\ pc' = [pc EXCEPT ![p] =
                 IF disk[f].status = "uploading" THEN "query" ELSE "init"]
    /\ file' = [file EXCEPT ![p] = f]
    /\ mem' = [mem EXCEPT ![p] = disk]
    /\ excused' = IF force THEN excused \cup {f} ELSE excused
    /\ forces' = IF force THEN forces + 1 ELSE forces
    /\ UNCHANGED <<disk, uri, lost, lock, faults, service>>

\* main() up to the duplicate check: load the records, skip a file already
\* done unless --force, and go on to the interrupted session when the record
\* names one.  A run that skips changes nothing and is no step here.
Start(p, f, force) ==
    /\ pc[p] = "idle"
    /\ p \notin Manual => lock = NoProc
    /\ disk[f].status \in {"none", "uploading"} \/ force
    /\ force => forces < MaxForce /\ forces + faults < MaxFaults
    /\ lock' = IF p \in Manual THEN lock ELSE p
    /\ pc' = [pc EXCEPT ![p] =
                 IF disk[f].status = "uploading" THEN "query" ELSE "init"]
    /\ file' = [file EXCEPT ![p] = f]
    /\ mem' = [mem EXCEPT ![p] = disk]
    /\ excused' = IF force THEN excused \cup {f} ELSE excused
    /\ forces' = IF force THEN forces + 1 ELSE forces
    /\ UNCHANGED <<disk, uri, lost, faults, service>>

\* Any failure before the end: no token, HTTP status that is not expected,
\* a lost reply, a time-out, a kill.
Crash(p) ==
    /\ pc[p] # "idle"
    /\ Fault
    /\ Exit(p)
    /\ UNCHANGED <<disk, service, excused, forces>>

\* Wrong on purpose: 308 is taken for "not usable", and a new session begun.
QueryRestarts(p) ==
    LET s == mem[p][file[p]].ref IN
    /\ pc[p] = "query"
    /\ pc' = [pc EXCEPT ![p] = IF state[s] = "complete" THEN "record" ELSE "init"]
    /\ uri' = [uri EXCEPT ![p] = s]
    /\ UNCHANGED <<disk, file, mem, lost, lock, service, ghost>>

\* Wrong on purpose: 404/410 is an error like any other, never a restart.
QueryGivesUp(p) ==
    LET s == mem[p][file[p]].ref IN
    /\ pc[p] = "query"
    /\ \/ /\ state[s] = "expired"
          /\ Exit(p)
       \/ /\ state[s] # "expired"
          /\ pc' = [pc EXCEPT ![p] =
                       CASE state[s] = "complete" -> "record"
                         [] recv[s] >= Size -> "finalize"
                         [] OTHER -> "put"]
          /\ uri' = [uri EXCEPT ![p] = s]
          /\ UNCHANGED <<file, mem, lost, lock>>
    /\ UNCHANGED <<disk, service, ghost>>

\* query_upload_status and decide_resume on the recorded session.  For an
\* expired one it answers ("restart", None), and the None becomes the offset.
Query(p) ==
    LET s == mem[p][file[p]].ref IN
    /\ pc[p] = "query"
    /\ \/ /\ state[s] = "complete"                       \* 200/201
          /\ pc' = [pc EXCEPT ![p] = "record"]
          /\ uri' = [uri EXCEPT ![p] = s]
          /\ UNCHANGED <<lost, excused>>
       \/ /\ state[s] = "open"                           \* 308
          /\ pc' = [pc EXCEPT ![p] =
                       IF recv[s] >= Size THEN "finalize" ELSE "put"]
          /\ uri' = [uri EXCEPT ![p] = s]
          /\ UNCHANGED <<lost, excused>>
       \/ /\ state[s] = "expired"                        \* 404/410
          /\ pc' = [pc EXCEPT ![p] = "init"]
          /\ lost' = lost \cup {p}
          /\ excused' = IF s \in videos THEN excused \cup {file[p]}
                                        ELSE excused
          /\ UNCHANGED uri
    /\ UNCHANGED <<disk, file, mem, lock, service, forces, faults>>

\* init_upload answered with a Location header.
InitUpload(p) ==
    /\ pc[p] = "init"
    /\ \E s \in Sessions :
          /\ state[s] = "unused"
          /\ state' = [state EXCEPT ![s] = "open"]
          /\ owner' = [owner EXCEPT ![s] = file[p]]
          /\ uri' = [uri EXCEPT ![p] = s]
    /\ pc' = [pc EXCEPT ![p] = "save"]
    /\ UNCHANGED <<disk, file, mem, lost, lock, recv, wire, videos, ghost>>

\* records[file.name] = {...}; save_upload_records: the whole file is
\* rewritten from the copy loaded at the start.
SaveRecord(p, r) ==
    LET new == [mem[p] EXCEPT ![file[p]] = r] IN
    /\ mem' = [mem EXCEPT ![p] = new]
    /\ disk' = new

\* Wrong on purpose: the record is written only when the upload is over.
SaveSessionLate(p) ==
    /\ pc[p] = "save"
    /\ pc' = [pc EXCEPT ![p] = "put"]
    /\ UNCHANGED <<disk, file, mem, uri, lost, lock, service, ghost>>

\* The session URI is on disk before the first byte is sent.
SaveSession(p) ==
    /\ pc[p] = "save"
    /\ SaveRecord(p, Uploading(uri[p]))
    /\ pc' = [pc EXCEPT ![p] = "put"]
    /\ UNCHANGED <<file, uri, lost, lock, service, ghost>>

\* upload_body: PUT everything from the offset to the end of the file.  With
\* no offset, fh.seek(None) raises: the run that restarted a session ends
\* before its first byte, the new session recorded, and a later run sends.
UploadBody(p) ==
    /\ pc[p] = "put"
    /\ \/ /\ p \notin lost
          /\ wire' = IF state[uri[p]] = "open" THEN wire \cup {uri[p]} ELSE wire
          /\ pc' = [pc EXCEPT ![p] = "await"]
          /\ UNCHANGED <<file, mem, uri, lost, lock>>
       \/ /\ p \in lost
          /\ Exit(p)
          /\ UNCHANGED wire
    /\ UNCHANGED <<disk, state, owner, recv, videos, ghost>>

\* Wrong on purpose: the status code of the PUT is not looked at.
ReplyUnchecked(p) ==
    /\ pc[p] = "await"
    /\ state[uri[p]] = "complete" \/ uri[p] \notin wire
    /\ pc' = [pc EXCEPT ![p] = "record"]
    /\ UNCHANGED <<disk, file, mem, uri, lost, lock, service, ghost>>

\* The reply to the PUT: 200/201 with the video, anything else is fail().
Reply(p) ==
    /\ pc[p] = "await"
    /\ \/ /\ state[uri[p]] = "complete"
          /\ pc' = [pc EXCEPT ![p] = "record"]
          /\ UNCHANGED <<file, mem, uri, lost, lock>>
       \/ /\ state[uri[p]] # "complete"
          /\ uri[p] \notin wire
          /\ Exit(p)
    /\ UNCHANGED <<disk, service, ghost>>

Commit(s) ==
    /\ state' = [state EXCEPT ![s] = "complete"]
    /\ videos' = videos \cup {s}
    /\ wire' = wire \ {s}

\* finalize_upload: an empty PUT closes a session that has every byte.
Finalize(p) ==
    /\ pc[p] = "finalize"
    /\ \/ /\ state[uri[p]] = "open"
          /\ Commit(uri[p])
          /\ pc' = [pc EXCEPT ![p] = "record"]
          /\ UNCHANGED <<file, mem, uri, lost, lock>>
       \/ /\ state[uri[p]] = "complete"
          /\ pc' = [pc EXCEPT ![p] = "record"]
          /\ UNCHANGED <<file, mem, uri, lost, lock, state, videos, wire>>
       \/ /\ state[uri[p]] = "expired"
          /\ Exit(p)
          /\ UNCHANGED <<state, videos, wire>>
    /\ UNCHANGED <<disk, owner, recv, ghost>>

\* record_done, and the script returns.
RecordDone(p) ==
    /\ pc[p] = "record"
    /\ disk' = [mem[p] EXCEPT ![file[p]] = Done(uri[p])]
    /\ Exit(p)
    /\ UNCHANGED <<service, ghost>>

-----------------------------------------------------------------------------
(* The service and the network, as the script uses them. *)

Receive(s) ==
    /\ s \in wire /\ state[s] = "open" /\ recv[s] < Size
    /\ recv' = [recv EXCEPT ![s] = @ + 1]
    /\ UNCHANGED <<client, state, owner, wire, videos, ghost>>

Complete(s) ==
    /\ s \in wire /\ state[s] = "open" /\ recv[s] = Size
    /\ Commit(s)
    /\ UNCHANGED <<client, owner, recv, ghost>>

\* The connection breaks with part of the body unsent.
Disconnect(s) ==
    /\ s \in wire
    /\ Fault
    /\ wire' = wire \ {s}
    /\ UNCHANGED <<client, state, owner, recv, videos, excused, forces>>

\* The service forgets a session: its URI answers 404/410 from now on.
Expire(s) ==
    /\ state[s] \in {"open", "complete"}
    /\ Fault
    /\ state' = [state EXCEPT ![s] = "expired"]
    /\ wire' = wire \ {s}
    /\ UNCHANGED <<client, owner, recv, videos, excused, forces>>

-----------------------------------------------------------------------------
Step(p) ==
    \/ Query(p) \/ InitUpload(p) \/ SaveSession(p) \/ UploadBody(p)
    \/ Reply(p) \/ Finalize(p) \/ RecordDone(p)

ServiceStep(s) == Receive(s) \/ Complete(s)

Next ==
    \/ \E p \in Procs, f \in Files, force \in BOOLEAN : Start(p, f, force)
    \/ \E p \in Procs : Step(p) \/ Crash(p)
    \/ \E s \in Sessions : ServiceStep(s) \/ Disconnect(s) \/ Expire(s)

Spec == Init /\ [][Next]_vars

\* A started script and the service keep moving, and the scheduled runs come
\* back to every file: the 08:00 run and then the catch-up every 15 minutes
\* call the script for each file of the day in turn, under the flock.
Fairness ==
    /\ \A p \in Procs : WF_vars(Step(p))
    /\ \A s \in Sessions : WF_vars(ServiceStep(s))
    /\ \A f \in Files :
          SF_vars(\E p \in Procs \ Manual : Start(p, f, FALSE))

FairSpec == Spec /\ Fairness

-----------------------------------------------------------------------------
(* Properties. *)

Pcs == {"idle", "query", "init", "save", "put", "await", "finalize", "record"}

\* Every variable of the client, the service and the bookkeeping has its type.
TypeOK ==
    /\ disk \in [Files -> Record]
    /\ pc \in [Procs -> Pcs]
    /\ file \in [Procs -> Files \cup {NoFile}]
    /\ mem \in [Procs -> [Files -> Record]]
    /\ uri \in [Procs -> Sessions \cup {NoSession}]
    /\ lost \subseteq Procs /\ lock \in Procs \cup {NoProc}
    /\ state \in [Sessions -> {"unused", "open", "complete", "expired"}]
    /\ owner \in [Sessions -> Files \cup {NoFile}]
    /\ recv \in [Sessions -> 0..Size]
    /\ wire \subseteq Sessions /\ videos \subseteq Sessions
    /\ excused \subseteq Files
    /\ forces \in 0..MaxForce /\ faults \in 0..MaxFaults

\* The promise of the module docstring (youtube_upload.py:16-18): whatever is
\* interrupted, a re-run never publishes a file a second time, unless --force
\* asks for it or the service has forgotten a session it had completed.
NoDuplicate ==
    \A f \in Files \ excused :
        \A s, t \in VideosOf(f) : s = t

\* The service holds, or may still receive, content through this session.
Sent(s) == recv[s] > 0 \/ s \in wire \/ s \in videos

\* Why that holds (youtube_upload.py:472-474): a session that holds bytes, has
\* a body in flight or has become a video, and can still answer, is the one
\* the record on disk names, so the next run asks about it.
SentIsRecorded ==
    \A s \in Sessions :
        /\ Sent(s)
        /\ state[s] \in {"open", "complete"}
        /\ owner[s] \notin excused
        => disk[owner[s]].ref = s

\* A record marked done names a video of that very file (youtube_upload.py:
\* 410-414 skips the file on the strength of the record alone, for ever).
DoneIsPublished ==
    \A f \in Files :
        disk[f].status = "done" => disk[f].ref \in VideosOf(f)

\* The records and all other variables are well typed, and the records true.
RecordsInv == TypeOK /\ DoneIsPublished

\* Saving one file's record never undoes another's (the whole file is written
\* back from a copy loaded earlier): only --force reopens a done record.
DoneIsKept ==
    [][\A f \in Files \ excused' :
          disk[f].status = "done" => disk'[f] = disk[f]]_vars

\* Every file is eventually published and recorded, once interruptions stop:
\* also one whose session expired, although the run that finds that out ends
\* without sending a byte (youtube_upload.py:432 and 370).
EventuallyDone == \A f \in Files : <>(disk[f].status = "done")

-----------------------------------------------------------------------------
(* Why NoDuplicate holds when nobody runs the script outside the flock: the  *)
(* inductive invariant, part by part.                                        *)

\* A process under way has a file, the record it resumes and its session.
Assigned ==
    \A p \in Procs :
        /\ pc[p] # "idle" => file[p] \in Files
        /\ pc[p] = "query" => mem[p][file[p]].status = "uploading"
        /\ pc[p] \in {"save", "put", "await", "finalize", "record"} =>
              uri[p] \in Sessions

\* A run under the flock is alone, so its copy of the records is current.
OneRunner == \A p \in Procs : pc[p] # "idle" => lock = p /\ mem[p] = disk

\* A record is blank or names a session of its own file.
RecordsAgree ==
    \A f \in Files :
        \/ disk[f] = NoRecord
        \/ /\ owner[disk[f].ref] = f
           /\ disk[f].status = "done" => disk[f].ref \in videos

ServiceSane ==
    \A s \in Sessions :
        /\ state[s] = "unused" => owner[s] = NoFile /\ ~Sent(s)
        /\ state[s] # "unused" => owner[s] \in Files
        /\ s \in wire => state[s] = "open"
        /\ state[s] = "open" => s \notin videos
        /\ state[s] = "complete" => s \in videos

\* Nothing sent for f can still become, or already is, a video.
Fresh(f) ==
    f \in excused \/ \A s \in Sessions :
        owner[s] = f /\ Sent(s) => state[s] = "expired" /\ s \notin videos

\* What a process knows at each point of main().
Position(p) ==
    /\ pc[p] \in {"init", "save"} => Fresh(file[p])
    /\ pc[p] = "save" => /\ state[uri[p]] # "unused"
                         /\ owner[uri[p]] = file[p]
                         /\ ~Sent(uri[p])
    /\ pc[p] \in {"put", "await", "finalize", "record"} =>
          disk[file[p]] = Uploading(uri[p])
    /\ pc[p] = "finalize" => recv[uri[p]] > 0
    /\ pc[p] = "record" => uri[p] \in videos

\* A session that is a video, or still can become one, is the recorded one.
Recorded ==
    \A s \in Sessions :
        /\ Sent(s)
        /\ owner[s] \notin excused
        /\ s \in videos \/ state[s] # "expired"
        => disk[owner[s]].ref = s

IInv ==
    /\ TypeOK /\ Assigned /\ OneRunner /\ RecordsAgree /\ ServiceSane /\ Recorded
    /\ \A p \in Procs : Position(p)

\* The promise of UploadAbstract, read off the service and the record file.
Abstract == INSTANCE UploadAbstract WITH
    Ids       <- Sessions,
    published <- [f \in Files |-> VideosOf(f)],
    done      <- [f \in Files |-> disk[f].status = "done"],
    waived    <- excused

\* The script implements it: interruptions, resumptions and restarts are all
\* a single publication and a single report.
ImplementsAbstract == Abstract!ASpec

\* What the comment at youtube_upload.py:472 says without exception: after any
\* crash or disconnection a re-run never uploads twice.
NeverTwice ==
    forces = 0 => \A f \in Files : \A s, t \in VideosOf(f) : s = t

\* What decide_resume says of a session that expired (youtube_upload.py:326):
\* a new one is opened and the upload goes on, so that only a fault keeps a
\* run that has its session from sending the file.
RestartGoesOn ==
    [][\A p \in Procs :
          pc[p] = "put" /\ pc'[p] = "idle" => faults' # faults]_vars

=============================================================================
