# tech-news-to-video: a TLA+ model

The repository has two halves. `pipeline/scripts/` runs, every morning and
without anybody watching, a pipeline that fetches news, lets Gemini choose one
story per channel, has NotebookLM make a long video and a 60-second Short of it,
and publishes both on YouTube. `src/notebooklm/` is the library (notebooklm-py)
that the pipeline drives NotebookLM with.

What is hard in the first half is that any script may fail, be killed, be
suspended past midnight or be started again by the catch-up every 15 minutes,
and that everything the next run knows is what earlier runs left in a few JSON
files, video files and marker files. The README of the repository promises "Safe
to re-run at any point — no duplicates ever". What is hard in the second half is
concurrency: coroutines that share a refresh, a poll or a cookie jar, threads
and processes that share a file, answers that get lost after the service acted.

This directory models the parts those promises rest on, model-checks them with
TLC, and proves with TLAPS every safety property of the passing runs, for all
values of the constants that meet the assumptions section 5 names.

## 1. Inventory

| Component | State it keeps | Operations | What is hard | What makes it correct |
|---|---|---|---|---|
| `youtube_upload.py` | `youtube_uploads.json` per channel; YouTube's resumable session | open a session, record it, send the body, ask for its status, resume, finalize, record the video | crash between any two of these; lost replies; the record file is written back whole from an old copy; 404/410 | a file is published once; a done record is true and stays |
| `run_daily_cron.sh`, `run_daily_catchup.sh` | `logs/done_<day>.marker`, `pipeline.lock`, FAILED, SHORTS_OK | the loop over channels, the Short, the marker | partial failure; the shell's date and the scripts' dates differ after midnight | marked means published; every day gets there |
| `run_daily.py` (with `fetch_news`, `rank_news`, `collect_sources`) | `top1.json`, `sources.json` | decide which steps to skip, choose, collect | re-runs must not choose again; stale files | one story a day; sources of that story |
| `_orchestrator.py`, `run_video_pipeline.py`, `run_shorts_pipeline.py` | `video_<day>.mp4`, `shorts_<day>.mp4` | keep, unlink, refuse, generate, download, delete the notebook | empty remains; freshness; shared active notebook | each video from its day's own notebook and sources |
| `_cli.py` | `pipeline_state.json`, `shorts_state.json`; the CLI's active notebook; NotebookLM's notebooks and sources | ensure_notebook, sync_sources, generate, download | a notebook exists before its id is on disk; time-outs; sources that fail later | at most one known notebook for a day and flow |
| `cleanup_notebooks.py` | none of its own | sweep by state file, sweep by listing | deleting what a retry still needs; what no file names any more | needed ones are kept, the others go |
| `brand_video.py` | `video_<day>.branded.mp4` and a temporary file | skip, encode, replace | ffmpeg killed half way; mtimes | what is published is whole and of the present video |
| `rank_news.py`, `backfill_history.py` | `topic_history.json` | de-duplicated choice, pruning, rebuild | three writes, two writers, no lock | no story twice in 90 days |
| `fetch_news.py`, `collect_sources.py`, `_http.py` | none between runs | fetch, merge, check urls | partial failures, deadlines | the merge is fair and duplicate-free |
| `_gemini.py`, `_youtube.py` | the token file | calls with retries, device flow, refresh | retry budgets, quotas, transient or final errors | bounded calls; the token survives transient errors |
| `channel_stats.py`, `check_auth.py`, `make_branding.py`, `preview_styles.py`, `*_auth.py` | reports, assets | one-shot tools | nothing later steps depend on | — |
| library: `_auth/refresh.py`, `single_flight.py`, `keepalive.py` | registry of flights, success epochs, in-process and file locks | run the external refresh command once for all who need it | leaders and followers on different event loops; cancellation; torn-down loops; processes killed holding the lock | one refresh at a time, none that is not needed, nobody hangs |
| library: `_cookie_persistence.py`, `_auth/storage.py`, `storage_writer.py` | `storage_state.json`; a client's jar, baseline and save numbers | load, rotate, save by worker threads with a three-way merge, log in, set the account | saves out of order, writers in several processes, stale baselines | newer cookies are not undone; the account stays |
| library: `client.py`, `_runtime/`, `_transport_drain.py`, `_artifact/polling.py` | the session, the count of operations, shared polls, the shared auth refresh, the keepalive task | close with or without a drain, poll, wait, reopen | closing under work, cancelled closers and waiters, hooks that wait for what they cancel | the count is right; the session ends closed; nobody waits for ever |
| library: `_idempotency.py`, `_notebooks.py`, `_source/`, `_middleware/`, `_rpc_executor.py` | baseline of a create, retry counters, the refresh budget | create with probe, retry, refresh and replay | the answer is lost after the service acted; others make things of the same name; two layers retry | one resource for a call, its own, nobody else's |
| library: the other API areas, command line, MCP and REST servers | none between calls | one RPC each; argument handling; formatting | — | — |

How they interact: crontab starts `run_daily_cron.sh` at 08:00 under
`flock pipeline.lock`; the catch-up does so under the same lock until the day's
marker exists. The shell calls, per channel, `run_daily.py`,
`run_video_pipeline.py`, `brand_video.py`, `youtube_upload.py`, then for one
channel the Shorts pipeline and the upload of the Short. They share nothing but
files. `_cli.py` calls the library's command line as a subprocess; each command
is a client of the library that loads the cookie file, makes its calls and
closes. NotebookLM, YouTube, the clock, the operating system and ffmpeg are the
environment.

## 2. Modules

| Module | Models | Checked by | Proved in |
|---|---|---|---|
| `Upload` | `youtube_upload.py` and YouTube's sessions | `UploadSafe` | `UploadProofs` |
| `UploadAbstract` | what the upload promises: publish once, report after | `UploadSafe` (`ImplementsAbstract`) | `UploadProofs.Refinement` |
| `DailyRun` | the two shell scripts, `run_daily.py`, the gates of `run_video_flow`, the title's choice | `DailySafe` | `DailyProofs` |
| `DailyAbstract` | what the daily run promises: one story a day, each video published once with it, the marker last | `DailySafe` (`ImplementsDaily`) | `DailyProofs.DailyRefines` |
| `VideoFlow` | `run_video_flow`, `_cli.py`, `cleanup_notebooks.py` against NotebookLM, inside one channel of `run_daily_cron.sh` | `FlowSafe`, `FlowLive` | `FlowProofs` |
| `Branding` | `brand_video.py`, `latest_video` | `BrandSafe` | `DailyProofs` |
| `BrandAbstract` | what the daily run takes `brand_video.py` for: one step | `BrandSafe` (`ImplementsBranding`) | `DailyProofs.BrandingRefines` |
| `Topics` | `rank_news.main`, `backfill_history.main`, their history | `TopicsSafe`, `TopicsChain` | `TopicsProofs` |
| `RefreshCmd` | the single flight of the refresh command | `RefreshSafe` | `RefreshProofs` |
| `CookieStore` | the cookie file and its writers | `CookieSafe`, `CookieReload` | `CookieProofs` |
| `Shutdown` | `close()`, draining, shared polls and refresh | `ShutdownSafe` | `ShutdownProofs` |
| `Creates` | creates with probes, retries, refresh budget | `CreatesSafe` | `CreatesProofs` |

`MC<Module>` gives a module's constants their values for TLC.

### The pipeline

**Upload.** A process is one execution of the script; `pc` names the places in
`main()` between which it may be interrupted: `query` (about to ask about the
recorded session), `init`, `save` (session opened, not yet on disk), `put`,
`await` (body sent, no reply yet), `finalize`, `record`. `disk` is the record
file and `mem` a process's copy of it, written back whole. A session is what
`init_upload` gets; it counts the units received, and becomes a video when all
have arrived, also when its sender is dead. Faults: a crash anywhere, a broken
connection, a session forgotten. `excused` is a bookkeeping set: files whose
second publication was asked for (`--force`) or follows from a completed
session that answered 404/410. A run that is told to start over
records a new session but has no offset (`lost`: `decide_resume` returns None),
so that it dies at `fh.seek` before a byte is sent; it is the next run, whose 308
answer gives an offset, that sends the file.

**DailyRun.** `TODAY` is the date the shell took, `today` the one the running
Python script took, `clock` the date in Sydney; `Midnight` may happen between
any two steps. `top1`, `sources` and `content` are the files as data: a topic
is a headline and its day, a video holds the topic and the topic its sources
were collected for. `|| { FAILED=1; continue; }` is `ChannelFails`. An upload is
one step, which `Upload` justifies, and so is the branding of a video, which
`Branding` justifies by implementing `BrandAbstract`. Topics of different days count as
different titles, which `Topics` justifies. A download may end with an empty file
(`EmptyDownload`), which fails its script and not the upload after it.

**VideoFlow.** Around the flows is one execution of the shell script: `shell` is
its `TODAY`, `stage` how far it has come (`sweep`, `daily`, `flows`), `status` what
each flow's part of it returned. It uploads the file of its own `TODAY`, and marks
that day when every status is 0, whatever day the Python scripts it started have
worked on and whether or not a file is empty; ffmpeg refuses an empty file, which
is why it matters which flows are `Branded`. A flow (the long video, the Short) has
a state file and a run; `active` is the CLI's active notebook, which all commands but `use`, `create`
and `delete` act on. A notebook is what its title says, `<<flow, day>>`;
`good`/`bad` are its sources by status. `lost` are the notebooks whose creator
was killed before it wrote their id down. A reply to `create` that is lost
after the notebook was made is the same as a kill at `save`, since every run
sets the active notebook before it uses it.

**Branding.** `older` orders the files by last modification (no two are modified
at one time). The temporary file exists from the start of the encoding to
`os.replace`, which carries its content and mtime over. `Plain`, `Out` and `Tmp`
are the script's `file`, `out` and `tmp`; `at` is where the run of
`brand_video.py`, and of the upload after it, is. `BrandAbstract` has no
temporary file and no mtimes: `MadeFrom`, `Current` and `Offered` read its
state off the files.

**Topics.** A piece of news is the two keys `topic_keys` gives it, title and
URL; `SameStory` is sharing one. What a rebuild gets back of an upload
(`Parsed`) is its URL, and its title if the description's first line gives it
(`Titled`); nothing, if the URL is a publisher's (not in `Redirects`) or the
upload was made after midnight without the news in its description (`plain`).
`before` are the uploads there were when the history was lost. `Start` reads the history (`seen`), `Rank` is
Gemini's choice among `Fresh` of it, `Write` the history (pruned to the window,
with the choice unless the same day already has it) and then `top1.json`, with
`Break` in between. The rebuild reads the channel's uploads (`articles`), then
the history (`copy`), and writes the merge. `DayOf` is the day
an upload is attributed to. `CarefulRebuild` says when the operator rebuilds
(see 6).

### The library

**RefreshCmd.** A caller is one call of `_coalesced_run_refresh_cmd` on an event
loop of its own; a process has several. A flight is named by its leader. `task`
is the leader task, which outlives its caller (`asyncio.shield`): it tries the
lock (`start`), runs the command (`run`), waits for whoever has the file lock
(`wait`) and looks afterwards (`probe`). `bridge` is the concurrent future that
followers on other loops see, `registry` is `_FLIGHTS`, `epoch`
`_SUCCESS_EPOCHS`. `Cancel` asks a caller to cancel, `Teardown` ends a leader's
loop, `Crash` kills a process.

**CookieStore.** A cookie is the login it descends from and the number of its
issue. `Save` takes a copy of the jar and a number and hands both to a worker
thread; the threads begin in any order (`queued`), each takes `save_lock`,
drops itself if overtaken (`Overtaken`), takes the file lock, reads, merges
against `baseline` and writes, after which the baseline advances only where the
file took the client's value (`Advanced`). Logins and re-mints replace the
cookies and keep the account; setting the account keeps the cookies. `Reload`
is `_replace_cookie_jar` in the middle of a session. A client that was closed may
be opened again: it starts from `auth.cookie_jar` (`authJar`), which is the jar it
first loaded unless an auth refresh has made it the live one (`shared`), while the
baseline and the save numbers stay with it. `adrift` are the clients whose jar, by a
`Reload` or a `Reopen`, no longer descends from their baseline.

**Shutdown.** One event loop: a step is what runs between two awaits. `phase`
is how far the closing has come: `hooks` (cancel the polls and wait for them),
`drain` (refuse new work, wait for the count), then the teardown: `keepalive`,
`hooks2`, `save`, `aclose`. `caller` is the coroutine that called `close()`:
cancelled in the teardown it may leave while the shielded teardown goes on.
`RefuseDrain` is a drain that raises at once (a deadline below zero, another event
loop): the session then stays open.
`inFlight` and `depth` are the drain tracker's count and a task's depth; a poll
holds a place in the count while it makes an RPC. `Held(S)` are the places the
tasks of S hold, which is what the count ought to be. `waiter`/`waitsFor` are
callers of `wait_for_completion`, `refresh` the auth refresh calls share.

**Creates.** All calls ask for the same title and URL, the worst case for a
probe. `shelf` is what the service has, `wire` the creates it has not acted on: it
may act on each at any time, long after the caller has given it up, or never.
`late` are the calls for whom it did so after their probe had looked. A `padded`
call asks for a notebook under a title that is stripped when it is decoded, so its
probe never finds it. An error may come back after the service has acted.
A create takes its `baseline` where it can read it, posts once, and after a
transport failure probes; what a probe takes for the resource (`Candidates`,
`Ambiguous`) differs between notebooks, sources and files. A `rename` is
retried by RetryMiddleware instead, and replayed once after an auth refresh
for which two layers share a `budget`. `blind` are the calls whose lists could
not be read.

## 3. Runs

Ten runs pass and two show a disagreement. Type correctness of every variable
is part of one invariant of each module.

| Run | Question | Bounds |
|---|---|---|
| `UploadSafe` | can interruptions and re-runs publish twice, or spoil the record file; does the script implement the abstract publisher; is every file recorded in the end? | 2 files, 2 processes, 4 sessions, size 2, 1 `--force`, 2 faults |
| `DailySafe` | marker, titles, topics, sources across failures and midnight; is every run a part of one choice, one publication, one marker a day; does the catch-up always finish the last day? | 2 channels, 2 days, 2 titles, 2 faults |
| `FlowSafe` | own notebook, own day, no piling up, no premature deletion | 2 flows, 2 days, 2 urls, 3 faults |
| `FlowLive` | do old notebooks go? | 2 flows, 2 days, 1 url, 2 faults |
| `BrandSafe` | is the branded file whole and current; is branding one step? | 3 versions of the video, 3 faults |
| `TopicsSafe` | no story twice in the window, whatever breaks or is rebuilt; does a broken run cost the day its video? | 4 listings of 3 stories, 3 days, window 2, 2 faults, 1 rebuild |
| `TopicsChain` | the same with a listing that shares its title with one and its URL with another (violated) | 3 listings, 2 days, 1 fault |
| `RefreshSafe` | one refresh at a time, none in vain, no failure taken for success, is whatever is waited for going on, does every call end? | 2 callers in one process, 1 in another, 1 process killed or loop torn down |
| `CookieSafe` | is a newer cookie ever undone, is the account kept, is the baseline true? | 2 clients, 1 cookie, 2 issues; one client saves twice and may reopen, the other saves once; failed writes and kills at will |
| `CookieReload` | does what the service issues reach the file? (violated after a reload) | 1 client, 1 cookie |
| `ShutdownSafe` | is the count right, the session closed, something under way under whoever waits, nobody left waiting in the end? | 1 call, 1 artifact, 2 waiters, 2 openings, 1 fault |
| `CreatesSafe` | one resource for a call, its own, nobody else's; are retries bounded? | every pair of kinds that can see each other's resources, 1 resource of somebody else |

Why the bounds are enough.

- `Upload`: size 2 has the three cases of a 308 answer: no byte, some, all. Two
  faults allow an interruption of the recovery from an interruption; `--force`,
  crashes, lost replies, errors and expiries share them, so four sessions
  suffice.
- `DailyRun`, `VideoFlow`: two days are what a run can straddle; a third would
  repeat the pair. Two channels are needed because a failure of the first must
  not be forgotten by the second. Three faults leave a failed Short, an empty one
  and an interrupted deletion in one history of `VideoFlow`. `FlowLive` uses one url
  and one fault less only because liveness checking costs more.
- `Topics`: three days with a window of two have a day in the window and one
  that has left it; three stories leave the last day one to choose. Two listings
  of one story share their title, and a rebuild gets that title back from one of
  them only; the URL of another story is a publisher's. No two are in a chain: that
  case is `TopicsChain`.
- `RefreshCmd`: leader, follower and a second process are the three roles.
  `MaxFollowRetries` is 2 where the code has 3; with two callers to a process a
  follower's retries are ended by the other's end before either limit.
- `CookieStore`: two saves of one client can overtake each other, two clients can
  write between each other's read and write; one of them reopens. Cookies are merged one by one, so
  one is enough for the merge; the proofs are for any number.
- `Shutdown`: two waiters share a poll; a second opening meets what the first
  left. A fault is a cancelled waiter, a cancelled closer, a missed deadline or a
  refused drain. A poll may end with an error at any time.
- `Creates`: a pair is what can mistake one's resource for the other's (two
  notebooks, a source and a file, a file and a text), with one pair for the title
  that decodes otherwise and one for the calls without a probe; a third resource is
  somebody else's.

All calendars and counters stop at their bounds, and clients that have closed or
calls that have ended do nothing more, so deadlock is not an error in these
modules. Each property of a passing run has a deliberately wrong variant of a
definition ("Wrong on purpose") under which TLC finds it violated.

Properties that are conjunctions: `Upload.RecordsInv` (types, and a record marked
done names a video of its file), `DailyRun.MarkIsTrue` (types, and
`MarkedIsPublished`: a marked day has every video published),
`VideoFlow.OwnVideos` (types, and `OwnSources`: a video is of its own notebook and
day), `CookieStore.StoreInv` (types, and the account
is the one last set), `Shutdown.ClosedInv` (types, a `close()` that returned has
closed the session unless it was abandoned, no keepalive poke on a closed
session), `RefreshCmd.SingleFlight` (types, one driver in a process, one in all
where the file system can lock), `Topics.HistoryInv` (types, what was published
in the window is remembered, but for what no rebuild of a lost history can know), `Branding.BrandedIsWhole` (types, what is about to
be uploaded is whole and of the present video).

### Disagreements found

1. `CookieReload`. A recovery in the middle of a session replaces the live jar
   (`_auth/refresh.py:352`) and leaves the baseline as it was. From then on the
   merge refuses the rotations of that cookie that follow, and the session's saves
   do not write them until a login or an eviction realigns the two, although
   `storage.py:481-483` says that updated cookies are serialized back to disk.
2. `TopicsChain`. A run that crashes between the history and `top1.json` is done
   again and may choose another listing of the same story; `already_recorded`
   (`rank_news.py:571`) is then true by the title, the URL of what is really
   published is not noted, and a later day's listing under that URL is chosen.
   `rank_news.py:248` says that a match of either key is the same topic.

### Known limits of the code

These statements of the repository do not hold in corners the model reaches.
Their properties are kept in the modules; each can be seen by checking the
property named under the run's configuration with the change given.

| Property | Says | Fails because | To see it |
|---|---|---|---|
| `Upload.NeverTwice` | `youtube_upload.py:472`: never twice after any crash | a completed session that answers 404/410 is taken for one that never completed; or a run by hand, without the flock | `UploadSafe`; for the second `Manual = {catchup}` |
| `Upload.RestartGoesOn` | `youtube_upload.py:326` | after a 404/410 the offset is None (432), and `fh.seek` (370) raises; the file waits for the next run | `UploadSafe` |
| `DailyRun.PublishedIsWhole` | `_orchestrator.py:45-46` | an empty Short, of this run's download or an earlier one's, is handed to the upload although the Shorts pipeline failed | `DailySafe` |
| `VideoFlow.OnlyWholeDaysSwept` | `cleanup_notebooks.py:8-9` | the shell marks its own `TODAY` (`run_daily_cron.sh:16,76-78`): with the day's Short empty and its scripts started after midnight, the statuses are those of the next day's files | `FlowSafe` |
| `VideoFlow.NeverTwoNotebooks` | README.md:51 | a kill between `create` and the state file; the sweep finds the lost one later (`EventuallyClean`) | `FlowSafe` |
| `Branding.SentIsWhole` | `brand_video.py:138` | ffmpeg's temporary file matches `video_*.mp4` and may be the newest | `BrandSafe` |
| `RefreshCmd.NeverTwoCommands` | `single_flight.py:251-252` | the subprocess of a leader whose loop is torn down goes on beside the next leader's | `RefreshSafe` |
| `Topics.RebuildKnowsAll` | `backfill_history.py:12` | descriptions carry publishers' URLs (`youtube_upload.py:253-257`), or no news at all when uploaded after midnight; `parse_video` passes them over (65, 137-139) | `TopicsSafe` |
| `CookieStore.NeverOlderReopened` | `_auth/storage.py:757`: the merge closes stale-overwrite-fresh | a client closed and opened again without a refresh starts from its first jar (`_kernel.py:88`) with the advanced baseline (`_cookie_persistence.py:82`): its next save puts the older cookie back | `CookieSafe` |
| `Shutdown.DrainNeverParksOnPoll` | `client.py:456` | a poll that begins while the hooks wait is neither cancelled nor refused | `ShutdownSafe` |
| `Creates.ProbePreventsDuplicates` | docs/python-api.md:420, 442 | the service acts on the first request after the probe has looked; or the notebook's title is stripped when decoded (`_types/notebooks.py:80`) and compared with the title asked for (`_notebooks.py:591`) | `CreatesSafe` |

Seen while reading, not modelled: entries of the history that are not objects are
ignored at `rank_news.py:305` and crash `main` at 572 and 582; a `PIPELINE_DATE`
ahead of the calendar prunes the history early; the catch-up looks for the
marker of the calendar's date (`run_daily_catchup.sh:10`) whatever `PIPELINE_DATE`
the run it starts honours.

## 4. Fairness

- `Upload`: a started script goes on (weak), the service goes on (weak), and
  scheduled runs come back to each file. The last is strong fairness, because
  the lock is taken and released in between; cron's 08:00 run and the catch-up
  every 15 minutes justify it. Crashes are bounded, not fair.
- `DailyRun`: scripts go on and the catch-up comes back (weak; nothing else
  runs while it is enabled for good).
- `VideoFlow`: a flow goes on or breaks, since every command has a time-out; the
  shell script is started (cron, the catch-up), sweeps and ends (all weak). Nothing
  is assumed of the topic or of the flows being started.
- `Topics`: the run goes on, since the catch-up starts it again and again, and a
  rebuild that began ends. Nobody need begin one.
- `RefreshCmd`: event loops run what is ready, and the command has a time-out
  (weak, per caller and flight). A loop torn down or a process killed steps no
  more.
- `Shutdown`: the loop runs what is ready, requests and polls time out, the
  refresh ends, the closing goes on (weak). Nobody need close or wait.
- `Creates`: a caller goes on, as every request is answered or times out (weak).
  The service need not act on a request.

## 5. Proofs

Each proof module extends the module it is about and proves an inductive
invariant (`IInv`) and the properties that follow from it, for all values of
the constants that meet the module's named assumption.

| Module | Theorems | Further assumption |
|---|---|---|
| `UploadProofs` | `TypeCorrect`, `Invariance`, `NeverPublishedTwice` (`NoDuplicate`), `NothingSentIsForgotten` (`SentIsRecorded`), `RecordIsTrue` (`RecordsInv`), `DoneIsNeverUndone` (`DoneIsKept`), `Refinement` (`ImplementsAbstract`) | `Manual = {}`, every run under the flock; not for `TypeCorrect` |
| `DailyProofs` | `Invariance`, `TypeCorrect`, `MarkedMeansPublished` (`MarkIsTrue`), `TitlesAgree` (`TitleTellsTheStory`), `VideosAreFresh` (`VideoIsFresh`), `StoriesAgree` (`OneStoryADay`), `ChosenOnce` (a topic is locked), `DailyRefines` (`ImplementsDaily`) | none |
| `DailyProofs`, about `Branding` | `BrandInvariance`, `BrandedFilesAreWhole` (`BrandedIsWhole`), `BrandingRefines` (`ImplementsBranding`) | none |
| `FlowProofs` | `Invariance`, `TypeCorrect`, `MadeFromItsOwn` (`OwnVideos`), `NotebooksDoNotPileUp` (`OneNotebookADay`), `NeededIsNotDeleted` (`NeededNotebookKept`) | none |
| `RefreshProofs` | `TypeCorrect`, `Invariance`, `OneAtATime` (`SingleFlight`), `NeverRedundant` (`NoRedundantRefresh`), `ReturnsAreBacked` (`ReturnIsBacked`), `CancelledHaveWaited` (`CancelSettles`), `NobodyStranded` (`NobodyIsLeftBehind`) | none |
| `CookieProofs` | `Invariance`, `StoreIsSound` (`StoreInv`), `BaselineIsTrue` (`BaselineWasWritten`), `NoStaleOverwrite` (`NeverOlder`) | none |
| `CreatesProofs` | `Invariance`, `OldIsLeftAlone` (`OldIsNotTaken`), `CountersAreBounded` (`Bounded`), `KeptAlways`, `OneIsEnough` (`OneEach`), `OwnIsPreferred` (`OwnWhenThere`) | none |
| `ShutdownProofs` | `Invariance`, `CloseIsSound` (`ClosedInv`), `NothingAfterDrain` (`DrainedIsIdle`), `CancelledByClose` (`OnlyCloseCancels`), `NobodyStranded` (`NobodyIsLeftBehind`) | none |
| `TopicsProofs` | `Invariance`, `HistoryRecalls` (`HistoryInv`), `HistoryGrows` (nothing in the window is dropped but by a loss of the file), `NothingTwice` (`NoRepeat`) | `CarefulRebuild = TRUE`; for `NothingTwice` also `Transitive` |

Why the properties need a stronger invariant, and which:

- *Upload.* Nothing in `NoDuplicate` says that a session about to be opened is
  the only live one of its file. `IInv` adds that the running process is alone
  and its copy of the records current (`OneRunner`), that records name sessions
  of their own file (`RecordsAgree`), that what was sent for a file and can
  still matter is what the record names (`Recorded`), and what a process knows
  at each place in `main()` (`Position`): above all that at `init` and `save`
  nothing older of that file can still become a video (`Fresh`). A run that
  restarts and dies for want of an offset leaves exactly that state on disk
  (`LostOffsetSafe`).
- *DailyRun.* That a video is fresh follows from the date of its file, not from
  the step that made it: no date is ahead of the calendar (`DatesInv`), so a file
  dated today is of the topic its channel has now (`Dated`), and each place in
  the shell script knows what the gate before it let through (`PlaceInv`).
  For the marker, `PublishedInv` counts what a run without a failure has
  published so far, by its place in the loop. The refinement of `DailyAbstract`
  must also know that two videos of a day that are out tell the same: a branded
  file holds what its video holds, and what was published is still what the
  file holds (`KeptInv`), so it is enough that the files on disk do
  (`OneStoryADay`). Most steps of the scripts are none of the abstract ones;
  `RankDone` is `Choose`, an upload that is not yet recorded `Publish`, an
  `EndRun` without a failure `Mark`.
- *Branding.* The skip trusts two things it sees of a branded file, that it is
  not empty and not older than its video. `BrandedFiles` says that these are
  enough: such a file was made, whole, from the video that is there now. To keep
  that through `os.replace`, which carries the temporary file's mtime over, the
  temporary file must be newer than the video while it is worked on
  (`BrandingWork`). That `BrandAbstract` is implemented needs in addition that a
  video is its last version and that only a branded file that does not serve is
  made anew (`MadeInv`): then `os.replace` is the one step, and the encoding, a
  killed ffmpeg and what it leaves behind are none. The proofs are in
  `DailyProofs`, since one step of `DailyRun` rests on them; the names of
  `Branding` are therefore chosen to differ from those of `DailyRun`.
- *VideoFlow.* The active notebook is shared, so `OwnSources` needs that one run
  is under way at a time (`LockInv`), that between `save` and `download` the
  active notebook is the run's own of the day and the state file names it
  (`NotebookInv`), and that what is in a notebook is of its day (`SourcesInv`).
  What a sweep may rely on is what the marker tells (`SettledInv`): a status of 0
  says that the file of the shell's `TODAY` is whole or, if nothing has read it
  before the upload and the day was over by then, empty; and so it is for every
  flow of a marked day. It stays so because only a missing video is worked on
  (`VideoInv`). This is what `NeededNotebookKept` excepts, and no more. `Single`
  says where a notebook that is not lost is known: in the hand of a run about to
  save it, in the state file, or of an earlier day than the state file's.
- *RefreshCmd.* `FlightsInv` ties task, registry and bridge together: who drives
  is registered and followers see nothing of its end yet. `LocksInv` gives the
  locks to who runs. `EpochsInv` says that the epoch is the number of commands
  that succeeded and that a driving leader noted the present one, from which
  neither a redundant refresh nor an unbacked return is possible. `StayInv` is
  the safe half of "never a hang": a follower awaits what the registry named, so
  that must be a flight of the same process that was begun (`registry`), and a
  process whose tasks are dead must have no caller left to await them.
- *CookieStore.* `NeverOlder` is about saves in the wrong order. `OrderInv` says
  that the jars of a client's saves follow each other (a cookie is the same,
  rotated or evicted since) in the order of their numbers, waiting, running and
  live, and that all follow the baseline; so what the merge takes for a change
  of the client's is one. It holds of clients that are not adrift, which is the
  exception the property makes: a client that was reopened after a refresh, or
  before its saves had changed anything, is not. `LockInv` says that
  between read and write nobody else writes, `WroteInv` that a baseline was
  once in the file.
- *Creates.* `OldInv` (what a call takes was not there before it) needs only
  that a call's own came after it began. `OneEach` needs to know that when a call
  posts again nothing of its own is there, and that what is there came of
  its last post (`Single`); `OwnWhenThere` that a probe's finding stays the
  call's own (`Found`). A request that is still on the wire when its caller goes on
  may be acted on at any later step: then its caller is in `late`, and the
  properties make no claim of it, as the code makes none true (see the known
  limits). That a call's own is a candidate of its probe needs a title that decodes
  as it was asked for (`OwnIsCandidate`). `Bounded` has no exception. Its
  posts and refreshes follow the attempts and the
  budget (`CountInv`); the ids of the resources are bounded because the service
  acts on a post once: a call's resources bear the numbers of its posts, each
  another one and none of those still on the wire (`NumberInv`), so there are no
  more of them than posts (`ShelfIsBounded`).
- *Shutdown.* The count is right because it is the number of places the tasks
  hold (`Counted`, a cardinality), and because a task holds them only where it
  posts or sleeps (`DepthInv`): when a poll and the refresh it waits for are
  cancelled together, exactly their places are given back. After a drain that
  went well nobody holds a place and nobody may take one, since the tracker has
  refused since the drain began (`DrainInv`). That a session which nobody closes
  cancels nothing is inductive only together with `hookFor = {}` (`CancelInv`).
  `NobodyIsLeftBehind` follows from `StayInv` (a poll under a waiter has not gone
  back to `idle`, since `Settle` tells all who wait) and, for what the drain
  waits for, from the count: a positive cardinality has a member.
- *Topics.* `HistoryInv` asks that a published video be known under a date in the
  window, which is not inductive: a rebuild may write it under another one.
  `RecallInv` says that an entry *not older than the video* covers it, in the
  history and in what a rebuild has read: it tells its story or, of an upload
  whose title is gone, has its URL (`Covers`). An entry without a title is never of
  a day that may still choose (`TitleInv`), since it would let the choice of a
  re-run pass for known. Both properties except what no rebuild can know (`Gone`,
  `CanTell`): only uploads from before the loss of the file, never what a run has
  noted itself. For `NoRepeat` it must be older
  than the present day as well, or it would not bar a choice (`BarInv`); then what
  is chosen tells the story of no video in the window, at every place of the run
  (`ChoiceInv`). The step from an entry to the video it recalls and on to the new
  choice shares first one key and then perhaps the other: `Transitive` says that
  this is sharing a story, and `TopicsChain` shows that the code needs it. A
  rebuild keeps the latest of the uploads with one URL; that there is a latest
  one rests on the well-foundedness of `<` (`Latest`), without an induction.

`NobodyIsLeftBehind`, in both modules, is what liveness needs of every single
state: under whatever is waited for there is something that can still move. That
it does move is left to `EveryCallEnds` and `EverybodyReturns`.

Only model-checked: the liveness properties (`EventuallyDone`, `EventuallyMarked`,
`EventuallyClean`, `DayIsServed`, `EveryCallEnds` twice, `EverybodyReturns`),
which are beyond the prover.

## 6. What is not modelled, and why

- *Pipelines run by hand* beside the scheduled one: `VideoFlow` and `DailyRun`
  assume the flock. The scripts take no lock themselves, and all share the CLI's
  active notebook, so without it a video may be made in another flow's notebook.
- *A rebuild of the history beside a run.* `CarefulRebuild = TRUE` is what the
  operator is taken to do: rebuild a lost history before the next run, beside no
  run, and not on a day with an upload dated earlier. The script takes no lock
  and writes back what it read before, so beside a run it loses the run's entry,
  although pipeline/docs/design-decisions.md:38 says the history only grows. No
  property covers that race; the assumption is stated with every theorem about
  `Topics`.
- *Inputs*: wording, prompts, titles' algorithms, HTML, XML and nested-list
  decoding: text handling without state. `--skip-*`, `--dry-run`,
  `PIPELINE_DATE`, `AUTO_DELETE_NOTEBOOKS=false`: choices of the operator that
  leave out steps.
- *Damaged JSON files*: every writer replaces its file atomically (`save_json`,
  `_atomic_io`); a file system that loses a renamed file's data on power loss is
  modelled for videos only.
- *Late generation*: NotebookLM finishing a video long after its command was
  given up, when a second one is already under way.
- `fetch_news.py`, `collect_sources.py`: one sequential computation over lists.
  `_gemini.py`: one blocking call at a time in a bounded loop. `_youtube.py`: the
  token file has one writer under the flock, and a failing refresh is a failing
  upload. `_http.py`: a worker with a one-place queue nobody reads after the
  deadline. None has two actors or a state that outlives it; their failures are
  steps of the modules that call them.
- *The library's front ends and API areas*: command line, MCP and REST servers,
  and the forty-odd RPC wrappers keep no state between calls. They are most of
  the repository's lines, which is why the mapped share of it is small.
- *In the library's modelled parts*: token fetching round the refresh command,
  cookie domains and expiry, the legacy merge without a baseline, file systems
  without locks for cookies, the depth a child task inherits, the loop-affinity
  checks, and a file's upload after its registration.
- *Composition*: `DailyRun` uses an upload and a branding of one step each; that
  `Upload` and `Branding` are such is what their refinement theorems say, not a
  composed run. `DailyRun` has no data loss of a branded file, which
  `BrandAbstract` allows (`Leave`) and the next run repairs, and keeps one
  branded file a channel and day.

## 7. Plan

What would come next, in order of importance:

1. `DailyRun` with `UploadAbstract` in place of its one-step upload, so that the
   two theorems compose.
2. The rest of the library's concurrency: the keepalive poke with its rotation
   of cookies, and a file's resumable upload.
3. Inputs left out: `PIPELINE_DATE`, damaged records.
