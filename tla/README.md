# Verification of the Telegram to Google Drive bot

The bot receives media in Telegram, downloads it, asks its owner for a name and
a Drive folder, and uploads it. SQLite is the source of truth for the state of
a job; everything runs in one asyncio loop, except the Drive upload, which runs
in a thread. This directory holds TLA+ models of that program, the TLC
configurations that check them on small instances, and theorems checked by
TLAPS. `PROJECT.json` maps every definition to the lines it models, and lists
runs, mutants, findings, hazards and theorems.

    tlc -workers 2 -config UploadFaulty.cfg MCUploadWorker
    tlapm UploadPromiseProofs.tla

## 1. The system

| Component | Code | State it keeps | Operations |
|---|---|---|---|
| Job states | `job_state.py` | none | transition table, terminal states, recovery and upload policies |
| Repository | `database/repository.py`, `connection.py` | tables `files`, `downloads`, `users`, folders | one commit per `UPDATE`; guarded (`transition_file_state`, `schedule_upload_retry`, `cancel_upload`, ...) and unguarded (`update_file_status`, `mark_*`) writes; selectors for the workers and for recovery |
| Download queue | `download_queue.py` | `_queue`, `_jobs` (status, attempts, cancel event), the worker task, the current progress | start, stop, enqueue, recover, retry, cancel, the attempt loop, the progress flush |
| Download manager | `download_manager.py`, `utils/filesystem.py` | files in `tmp/` and `downloads/` | choose source, download to `.part`, verify the size, move, clean up |
| Upload worker | `upload_worker.py` | the worker task, `_current_file_record`, `_cancelled_file_ids`, the deferred ids of a run | start, run until idle, claim, upload in a thread, verify, record, retry, finalize, cancel, recover |
| Telegram handlers | `telegram_bot.py` | conversation data (pending rename, pending folder, folder tokens) | media, rename callbacks and text, folder browsing and selection, `/cancel` |
| Admin service | `admin_service.py`, `admin_commands.py` | none | `/retry_failed`, `/cancel <job>`, `/cleanup_temp`, read-only summaries |
| Temporary file service | `temp_files.py` | none | find and delete orphaned temp files, protecting those of active jobs |
| Folder browser | `drive/browser.py` | TTL caches of listings, searches and shared drives | list, search, refresh, validate |
| Lifecycle | `lifecycle.py`, `startup_validation.py`, `startup_recovery.py`, `shutdown_control.py` | the container of services, the shutdown request and its event | startup order, recovery, start of the workers, request, ordered shutdown |
| Pyrogram session | `pyrogram_client.py` | one lazily started client | start, stop, download |
| Task manager | `task_manager.py` | a set of tasks nobody adds to | cancel all |

How they interact. A media handler writes a `received` row, awaits the
acknowledgement and calls `DownloadQueue.enqueue`. The download worker takes
jobs one by one, runs the transfer and a flush task beside it, and ends with
`awaiting_rename` and a prompt. Taps on that prompt and on the folder keyboard
move the row to `awaiting_folder` and `ready_for_upload`, and call
`UploadWorker.start`. The upload worker drains the ready rows: it claims a row,
sends the file in a thread, verifies and records the Drive id, deletes the local
file and completes the row. `/cancel` and `/retry_failed` write the same rows
and the same in-memory jobs. After a restart `run_startup_recovery` rebuilds the
queue and finalizes recorded uploads before the handlers run.

What is hard.
- Handlers run wherever a worker awaits; a row read before the await is used
  after it (`upload_worker.py:402`, `download_queue.py:344`).
- A repository call that touches two tables commits twice; the process may die
  in between, and recovery looks at one of the tables only.
- Telegram delivers old taps late and twice, and the handlers write the status
  without looking at it.
- The Drive create and the commit of its id are two steps; a retry may repeat
  what was done.
- Persisted retry counts outlive the job they counted for.
- `start()` does nothing while a task is alive, so a wake-up can be lost.
- A path is chosen or read long before it is used: the final path of a transfer,
  the path the uploader's thread opens.
- Buttons stay in the chat and carry a token or nothing at all; what they mean
  depends on `user_data`, which a restart or `/cancel` empties.
- Services are stopped one after the other while handlers still run.

What makes each component correct.
- Job states: terminal states have no way out; the recovery policy is what
  recovery does.
- Upload worker: a recorded object is a verified one and is never replaced; no
  file is deleted before it is stored or given up; a completed job is stored and
  clean; retries are bounded; no ready job lacks a worker; what was stored is
  completed.
- Download queue: attempts are bounded; cancellation stops the retries and
  stays; the two rows of a file agree; what is queued is in the queue; every
  download ends; what was downloaded is offered for renaming.
- Download manager and temporary files: two jobs never share a path; no file of
  a running job is deleted; cancelled and failed jobs leave nothing behind.
- Conversation: a text or a tap is applied to the job the user was asked about.
- Folder browser: what is listed and selected is what Drive holds, within the
  time the cache may be old.
- Lifecycle: after shutdown nothing runs; each service stops before the ones it
  uses.

## 2. The modules

`JobState` transcribes `job_state.py`: the states, `ValidTransitions`,
`TerminalStates`, `ShouldStartUpload`, `RecoveryState`. It has no variables and
is extended by `UploadWorker` and `DownloadQueue`.

The six component modules share an idiom: what the environment does wrong is a
fault, struck at most so often (`Budget`, or `MaxStruck` of the faults in
`Strikes`), and remembered, so that a property may say what it needs to be spared.

### UploadWorker

| Variables | Code |
|---|---|
| `status`, `driveId`, `retryCount`, `retryAfter` | columns of `files`; the n-th Drive object made for a file has the id n |
| `local` | the downloaded file (and its partial variants) exists |
| `created`, `truncated` | objects Google Drive holds for the file, and those shorter than announced |
| `proc` | down, in startup recovery, handlers running, worker started |
| `pc`, `current`, `deferred` | the worker coroutine, `_current_file_record`, `deferred_file_ids` |
| `thread` | the request of `GoogleDriveUploader.upload_file` under way, or its outcome |
| `cancelledIds` | `_cancelled_file_ids` |

A worker action is the code between two awaits or two commits, whichever is
closer, so that a `Crash` may come after any commit. Handlers (`Keep`, `Skip`,
`SelectFolder`, `AdminCancel`, `AdminRetry`) need `Yielded`: they run while the
worker is absent or awaits its thread. The thread's create and metadata request
are separate steps, each of which may fail transiently or permanently, also
after the object was created. A tap on a prompt the job has left behind is
charged to the budget "stale". `MarkCancelled`, `CleanUpFails` and
`TransitionRejected` are the exceptions that escape the worker or that it
survives.

`UploadPromise` is the abstract specification: a file waits, is stored, done,
failed, cancelled or skipped, and its copy is given up only once it is stored or
cancelled. `UploadWorker!PromiseKept` refines it under a mapping of the status.

### DownloadQueue

| Variables | Code |
|---|---|
| `fileStatus` | `files.status` |
| `dlStatus`, `dlRetries` | `downloads.status`, `downloads.retry_count` |
| `job`, `attempts`, `cancelEvent`, `queue` | `_jobs` and `_queue` |
| `pc`, `current`, `transfer`, `unflushed` | the worker coroutine, `_current_job`, `active_task`, a snapshot not yet flushed |
| `ack` | the media handler between its insert and its enqueue |
| `prompted` | the rename prompt reached Telegram |
| `commits` | the commits of the running step still to be made |

Every write of a step goes into `commits` and reaches the database one at a time
through `Commit`. No other coroutine runs in between (`LoopFree`), but the
process may die, so that torn two-table writes are part of the model. The
attempt loop is `LoopHead` (reached from `Take` and from the back-off,
`Resume`), `Announce`, the transfer with `Progress` and `Flush` beside it,
`StopProgress`, and one of `Complete`, `SettleCancelled`, `Fail`, `BackOff`.
`PromptFails` is the Telegram error nothing catches: the worker task is dead
until the next start. `DownloadQueue.stop` cancels the task at an await and
writes nothing, so for the database it is a `Crash` there.

### LocalFiles

| Variables | Code |
|---|---|
| `disk` | `downloads/`: the bytes at each path, a path being a name and the number `unique_path` appends |
| `part` | the `.part` or `.part.temp` of a file in `tmp/` |
| `localPath` | `downloads.local_path` |
| `stage` | the row, as far as the local file depends on it |
| `current`, `target`, `cancelled` | the running transfer, its `final_path`, the cancel events |
| `upload` | `_UploadInput` in the thread: the path it was given, the bytes it opened |

A transfer is `Start` (the final path is chosen here), `Fill`, and `Move`, `Fail`
or `Abort`; `Record` follows an await later. The two kinds of transfer differ:
the one by forward origin can be cancelled while it runs, the Bot API one
reports progress once, after the move. `Rename` moves whatever lies at the
recorded path to a free one; `Uploaded`, `UploadFails` and `CancelUpload` delete
the recorded file and its `.part`, `.part.temp` and `.temp`. `CleanupTemp` is
`/cleanup_temp --confirm`, `Restart` includes the clean-up of the runtime
directory. `DownloadQueue` and `UploadWorker` say which rows exist when; here
`stage` allows every order they allow.

### Lifecycle

| Variables | Code |
|---|---|
| `pc`, `container` | where `run()` is: startup, validation step, waiting, step of the shutdown |
| `database`, `session`, `telegram` | the SQLite connection, the Pyrogram client, the Telegram application |
| `updates`, `sent` | updates fetched and not yet handled; fetched so far |
| `downloader`, `uploader`, `ready` | the two workers' tasks (with the upload's thread) and the rows ready for upload |
| `requested`, `event` | `ShutdownController` |
| `unrecorded` | a Drive object exists whose id was not recorded |

Each validation step may fail (`ValidationFails`); `LeftBy` says in what state
it leaves the session. `startup` then stops the session and closes the database
(`StartupAborted`), or that stop raises, as it does for a client that is
connected and not initialized, and the database stays open (`AbortRaises`). A
failure to open the database or to recover is outside that `try` and cleans up
nothing (`OpenDatabaseFails`, `RecoverFails`). The shutdown stops its services
one by one; awaiting a task that died raises, and skips the rest. Handlers run
until the application has stopped. When `run()` has ended, `asyncio.run` cancels
what is left, but not a thread.

### FolderBrowser

| Variables | Code |
|---|---|
| `cache` | the entries of the three `TTLCache`s: the version read, and its age |
| `shown` | what the last view of a key showed |
| `content`, `quiet` | Drive: how often a place has changed, how long it has neither changed nor failed |
| `floor` | the version Drive had at the last refresh |

`Hit`, `Miss`, `MissFails`, `DrivesFail` (an `HttpError` of the shared drives
becomes a cached empty list), `Refresh` and `RefreshFails`, which invalidate the
keys with the same prefix first. `Prefix` is a parameter: the search for "ab"
is invalidated by a refresh of "a".

### Conversation

| Variables | Code |
|---|---|
| `status`, `dest` | `files.status`, `files.destination_folder_id` |
| `chosen` | the folder on the button tapped, or in the text sent |
| `last`, `recent`, `favorites` | the folder tables |
| `data` | `user_data`: pending rename, folder id and search, view, back stack, tokens, shared drives |
| `chat` | the keyboards of each file that are still in the chat |

A keyboard keeps what its buttons carry: the token of each folder and the folder
that token had on it, and the folder on its Last Folder button. Every handler is
one action, as it changes nothing after an await and updates of a user are
handled one after the other; showing its result comes last and may fail, in
`Edit` (Telegram) or `ShowPage` (Drive). The four commits of a selection may be
cut short by a crash. Refresh, Next, Back and Favorite follow the user's current
view and not the message they are on, "Select this folder" on search results is
My Drive, and a status is written whatever it was: all as in the code.

### Abstractions

- In `LocalFiles`, stage stands for the rows of both tables, and a `.part` and
  `.part.temp` are one; the preview of `/cleanup_temp` is left out.
- In `Conversation`, a reply is the only other keyboard of a file (`Replies`),
  and the deletion of a keyboard's message by the user is left out.
- Recent folders of the same second may be in either order (`RecentAfter`), as
  `used_at` has seconds and ties are not broken.
- Two rows of equal rank are taken in any order: selectors order by timestamps
  that are not modelled.
- A time-out, a back-off and a retry schedule pass at any moment.
- `_is_permanent_download_failure` and the upload's classification are a
  nondeterministic choice of the kind of error.
- In `LocalFiles` a deletion does not fail; `UploadWorker` has the failing one.
- In `FolderBrowser` a request and the write of its answer to the cache are one
  step: the call blocks the event loop, and the time Drive takes to answer, by
  which an entry is older than its age says, is left out.
- In `Conversation` the list of the shared drives has one drive; an empty list,
  which an error also becomes, only leaves that button out.
- `get_next_uploading_with_drive_file_id` is folded into `PickFinalize`.
- Rows have metadata and a status message: `enqueue` always writes both, so
  recovery's skips of incomplete rows do not occur.
- Wording, logging, speeds and percentages are left out.

## 3. What the runs check

Bounds of the two workers: two files (one of them of unknown size, for the upload), so that one can
wait, be cancelled or be recovered while the other is transferred; a retry limit
of 1, so that a first attempt, a retry and an exhausted limit all occur (the code uses 2 for downloads
and 6 for uploads, with the same branches); and a `Budget` that says how often
each fault may strike. Faults are budgeted because two of them usually only repeat what one
shows, while the combinations that matter (a crash after an administrator's
retry, a stale tap and a crash) are each covered by a run. Taps, cancellations
and errors of transfers are not budgeted. No run limits the depth. Deadlock
checking is off, as the bot may have nothing to do or the process may end; only
in FolderBrowser, where time always passes, it is on.

Bounds of the others. LocalFiles: two files with the same name, one of each kind
of transfer and one of unknown size, a second name that looks like a temporary
file of the first, three numbers (`MaxSuffix` 2) for two files, so that a name
runs out only when it was given away, and any one of the six faults. Lifecycle:
any three of the seven faults, four updates and three ready rows, so that a
shutdown request, two selections and another update may come in any order with
an upload under way. FolderBrowser: all keys on one place of Drive, two searches
of which one is a prefix of the other, a TTL of 2 ticks (one would make every
entry either new or expired), a change of the place and a failing request;
pages of different places share nothing but the clock. Conversation: two files
answered by one user, My Drive with one folder and two pages, a shared drive,
search results, one entry in Back and in the recent folders (the second folder
already displaces the first), and any one fault; Drive, Telegram and the
process fail at most once (`Once`), answering late needs another fault before it
and is not counted. The theorems hold for every `MaxStruck` and
`Once`, also an empty one.

| Run | Budget | Shows |
|---|---|---|
| UploadFaulty | crash, stale tap, failed deletion | recorded ids are verified and final, completion is real, deletions are justified, retries bounded; until the crash an uploading row is the one being sent |
| UploadRetries | crash, `/retry_failed` | the worker implements `UploadPromise`; no copy and no wake-up is lost; terminal states stay; the task drains before it ends |
| UploadLive | crash | what was stored is completed, ready jobs are served; without the crash cancelled uploads are cleaned |
| DownloadFaulty | crash, failing Telegram call, `/retry_failed` | attempts are bounded, cancellation stops retries, queued jobs are in the queue exactly once, the two rows of a file agree |
| DownloadLive | crash, failing Telegram call, `/retry_failed` | every download ends; every downloaded file is offered for renaming |
| LocalFiles | one of: crash, crash inside a rename, rename to the running target, late rename, deletion of a sibling, `/cleanup_temp` | a waiting job finds its own bytes, the thread sends them, `tmp/` holds the running transfer only, a settled job leaves no copy |
| Lifecycle | three of: failing validation, failing early or late startup, dying workers, a stop that raises, a late update | the database outlives its users, a startup whose validation fails leaves nothing open if its session can be stopped, uploads are recorded before the end, a requested shutdown completes |
| FolderBrowser | one failing request | no stale page outlives the TTL, a refresh is not undone, and who keeps looking sees what Drive has |
| Conversation | one of: crash, cancel, two files at once, Drive, Telegram; and late answers | the folder uploaded to is the one on the button, no dead end, a text reaches its question |

Some properties hold only as long as a certain fault has not struck; they say so
with `Spared`. Each of these exceptions is behaviour of the code:

- A crash makes `uploading` rows without a worker (UploadRecoveryGap), tears the
  two rows of a download, which recovery does not mend, and loses
  `_cancelled_file_ids`.
- A failing rename prompt ends the download worker, and an administrator's retry
  keeps the persisted count, so that after a restart the job may be taken and
  dropped while its row stays queued.
- A late tap takes a job out of a terminal state, or the row away from the upload
  worker, whose transition then raises and ends its task. So does a failed
  deletion of a cancelled upload's file. The properties of `UploadRetries` are
  stated until the first such tap, `ReadyHasWorker` and `DrainsBeforeExit` also
  until the first failed deletion; the run strikes with neither, the theorems of
  section 4 cover the steps before them under every budget.
- A cancellation that meets the end of a transfer is lost: the file goes on to
  `awaiting_rename`. And a progress flush after it marks the row running again.
  `CancelStopsRetries` is therefore about the attempts, and `Recovered` in
  LocalFiles lets a cancelled job come back.
- The target of a transfer is chosen before it, so a rename may take it
  (LocalOverwrite, fault "clash"). A crash between `os.replace` and the commit
  leaves a row with a path where nothing lies ("torn"). A late rename takes a
  file from under its upload ("stale"). A clean-up deletes `name.part`, which
  may be another job's file, and a third file may get the name that became free
  ("sibling"); `/cleanup_temp` has the same effect ("cleanup").
- The Bot API transfer sees a cancellation only after the move and leaves the
  file in `downloads/`.
- A failure to open the database or to recover is not cleaned up after
  ("early"), and a failed validation only up to the session if stopping that
  raises: the line that closes the database is skipped ("stop"). A worker that
  died makes its `stop` raise ("download", "upload"); an update handled after
  the upload worker was stopped starts it again ("late", ShutdownOrphansUpload).
- Answering a second file before the first has its folder mixes their views and
  tokens ("overlap"), and so does a tap on a keyboard of a job that moved on.
- A message that fails leaves the tapped keyboard in the chat beside the next
  one. Both work, until `/cancel` or a restart empties the tokens: the next
  browsing gives them out again from one, and the old keyboard's buttons select
  other folders than their labels say. It takes a failed message and then a
  cancellation or a crash, so `SelectionMatchesButton` excludes the two
  together. The run strikes one fault at a time and cannot meet it; the attempt
  to prove the property without this condition did.
- A refused folder, a failing request or `/cancel` leaves a job that still waits
  without keyboard or question.

Fairness. `FairSpec` asks for weak fairness of what the program and its
deployment do by themselves: the loop runs its tasks, pending commits happen,
Drive requests and transfers end (they have time-outs or end in an error), the
container is restarted (`restart: unless-stopped` in `docker-compose.yml`), and
an acknowledged message is enqueued. No user action, no fault and no progress
callback is fair. In `Lifecycle` the loop runs startup, shutdown, the handlers of
fetched updates and the workers; the delay before the shutdown event and the
thread end. Neither a request to shut down nor an update is fair. In
`FolderBrowser` time passes and the user looks at each page again and again;
Refresh is not fair, so the caches alone must become right.

### Where the code and its documents differ

Each of these runs ends in a counterexample.

| Run | What happens |
|---|---|
| UploadRecoveryGap | A row interrupted while its file is being sent stays `uploading`: recovery selects only those with a Drive id, and `recovery_state` has no caller (ADR 0001, line 121). |
| LocalOverwrite | A file is renamed to the final path the running transfer has chosen; the move overwrites it, and its job later uploads the other file's bytes (ADR, line 86: "using a unique final filename"). |
| ShutdownOrphansUpload | A folder is selected after `UploadWorker.stop` and before the handlers stop; the upload it starts is not awaited, and its Drive object is never recorded (ADR, line 126). |

## 4. What is proved

Every invariant and action property of the passing runs, and the refinement
`PromiseKept`, are also theorems. A proof module extends its component and holds
for every value of its constants under the component's named assumptions:
`NoFile` is not a file, limits and bounds are natural numbers (the TTL,
`MaxReady` and `RecentLimit` positive), budgets map faults to natural numbers,
`Strikes` are known faults, every key has a place and is a prefix of itself, a
place has at least one page, which is a sequence of folders.

| Module | Theorems |
|---|---|
| UploadWorkerProofs | type correctness, recorded ids, completion, deletions, retries |
| UploadPromiseProofs | the refinement of `UploadPromise`; copies, wake-ups, ends |
| DownloadQueueProofs | type correctness, attempts, cancellation |
| DownloadRowsProofs | the two rows of a file, the queue |
| LocalFilesProofs | the bytes at a path, temporary files, what is left behind, what a move replaces |
| LifecycleProofs | the order of the shutdown, startups whose validation fails, uploads that are awaited |
| FolderBrowserProofs | the age of what is shown, refreshes |
| ConversationProofs | types, buttons, questions, no dead ends |

Each rests on an inductive invariant, a conjunction of named parts, with one
lemma per action or group of actions and a theorem that puts them together
(`Invariance` and its like). A property conditional on `Spared` needs two
more facts: that the record of the faults only grows (`BudgetStep`,
`StrikeKeeps`), and which faults the step at hand may strike.

### Upload worker

`IInv` adds to `TypeOK` and the checked invariants three facts that make them
inductive:
- `ControlOK`: in which process state the worker may be where, that it holds a
  record exactly while it is busy, and a thread exactly while it transfers;
- `CurrentOK`: nothing is recorded for the held row before its transfer ended,
  the row is `uploaded` while it is finalized, and its file is gone before it
  completes;
- `UploadedIsRecorded`: an uploaded row has a Drive id.

From it follow `TypeCorrect`, `RecordedObjectsAreVerified`,
`CompletedJobsAreDone` and `RetryCountIsBounded`; from it and the steps that
touch the columns, the action properties `RecordedIdsAreFinal` and
`DeletionsAreJustified`.

`PInv` of UploadPromiseProofs says what the worker may rely on across an await,
as long as no tap comes late. None of its properties is inductive alone:
- `OnTime`: the row the worker holds is `uploading` or was cancelled, a
  cancelled id is a cancelled row, a recorded one is `uploaded` or `completed`.
  Without it `CopyIsKept` fails at the clean-up after a cancellation, and
  `TerminalIsFinal` at every transition that follows an await;
- `NoneDeferred`: only a failed deletion puts a row off, so what the task leaves
  when it ends is what `Eligible` says;
- `BudgetKept`: a fault whose budget is whole has not struck.

They give `CopiesAreKept`, `UploadingRowsAreCurrent`, `ReadyRowsHaveWorker`, and
with the steps that end the task or change a status, `TaskDrains` and
`TerminalJobsStay`.

The refinement maps each status to a phase and the local file to the copy.
`Moves(f)` lists what a step may do to the status and the copy of one file; `StepsAreMoves` shows it of every action, several files at once for
`/retry_failed`, and `MovesKeepPromise` turns it into a step of `UploadPromise`
or a stutter. `WorkerKeepsPromise` states the refinement for the behaviours
without late taps, `WorkerImplementsPromise` for the specification with a budget
that has none. A late tap breaks it: it reopens a finished job.

`RecoveryMissesOnlyUnrecorded` is what the finding of `UploadRecoveryGap` comes
down to: when recovery ends, every row is as `recovery_state` wants it, except
those that were being sent without a recorded id. It needs `RowsOK`: only an
uploaded row is put off, so recovery skips no row that was being sent.

### Download queue

`IInv` is `TypeOK`, whose conjunct on `commits` bounds the counts on their way
to the database, with `HoldsJob` (a worker past `_queue.get` holds a job) and
`AttemptsAreBounded`. `AttemptsBounded` needs the three together: the persisted
count bounds the attempts of a recovered job, and the attempts bound the count
that is written next. `CancellationEndsRetries` is the action property: only the
head of the loop counts an attempt, and it does so only when the event is not
set; a new job of the file clears the event.

`RowsAgree` speaks of the moments without pending commits; in between the two
rows differ. `RowsWillAgree` therefore speaks of `FileEnd(f)` and
`DownloadEnd(f)`, the rows a file will have once the commits of the running step
(at most three) are made. A `Commit` leaves both as they are, and every other
step is judged by all it writes at once. `RowsBeforeJobs` says what exists
before what while a message is being acknowledged.

`QueuedJobsAreInQueue` needs `EnteredOnce`: the queue has no duplicates and none
of its jobs is held by the worker or has an attempt, and a row that recovery may
queue again has no attempt on its count, nor has any commit still to be made.
The last part is what an administrator's retry breaks.

### Local files

`IInv` rests on `HoldersOK`: the jobs that still need their file (they wait,
failed with it, or the thread has its path) have their own bytes at pairwise
different paths. Neither half is inductive alone: a deletion or a rename at the
path of one job keeps the others' bytes only if the paths differ, and a new path
differs only because it was free. `TargetOK` says the target of the transfer is
free until the move and nobody's afterwards; `UploadOK`, that the thread's path
is still the recorded one; `StageOK` and `TransferOK`, when a job has a path and
a transfer a target. All are conditional on the faults after which a name may
have been given away (`Given`), and `StrikeKeeps` and `CleanedPath` show that no
other step hides such a fault. They give `WaitingJobsHaveTheirFiles` and
`UploadsSendOwnBytes` for any number of jobs; `PartsBelong` needs no condition.

`CopiesOK` is an account of every copy: while nothing went wrong (`Clean`) the
bytes of a job lie at the target between move and record, then at the recorded
path until the job is done, or, for a cancelled Bot API transfer, where nobody
will look for them. `SettledJobsLeaveNothing` follows.

`MovesReplaceNothing` is what the finding of `LocalOverwrite` comes down to:
`TargetFree` survives every step but a rename to the running target and a late
rename, so nothing else can make a move replace a file.

### Lifecycle

The properties speak of the end, so `IInv` says how far startup and shutdown
have come at each point: what exists without a container (`StartupOK`), where
the database may be closed (`DatabaseOK`; it is open when the startup aborts), who has stopped (`UsersOK`), and that
no upload runs after the wait for it (`UploadsOK`).

### Folder browser

`QuietDriveIsShown` is not inductive: `StaleIsOld` relates the age of an entry
to the time its place has been quiet, so that a wrong entry is never older than
the last change or failure. `FloorIsPast` says that a refresh saw at most the
present content, which makes refilled entries safe.

### Conversation

Tokens are given by a fold over the folders of a page, a recursive function of
its length. What it computes is proved by induction in the form of sets: the
natural numbers are well founded (`NatLessThanWellFounded`, `WFMin`), so the
numbers for which a formula fails have a least one (`LeastNatural`, `Induction`).
`RememberingExists` shows that the function exists, `RememberedKeeps` that the
fold keeps the tokens given before and names every folder of the page, and
`LabelsMatch` that the buttons then say what their tokens mean.

`CInv` has, beside the types and the three invariants it is for:
- `OneAtATime`: two files are being answered only if the user began the second
  before the first had its folder;
- `LabelsOK`: the tokens on the keyboards of the file being answered are those in
  memory; where they were lost, all are, and the view with them;
- `OneWayOn`: while messages arrive and files are answered in turn, each has one
  keyboard that leads on or the question that took its place, and one question is open.

`LabelsOK` gives the button its folder when it is tapped; `SelectionMatchesButton`
keeps it through the commits of the selection, which a crash may cut at any
point. `OneWayOn` is what makes `AwaitingIsAnswerable` inductive, because a step
that takes a keyboard away puts another or a question in its place. Steps are
proved by what they do to the keyboards and `user_data`: `Browses` shows another
keyboard, `Asks` waits for a text, `Withdraws` takes a keyboard that means nothing
any more, `Selected` and `Refused` are the ends of a selection, `Forgotten` is
what `/cancel` and a restart do to `user_data`. The theorems are `ButtonsSelectTheirFolder`, `NoDeadEnds` and
`TextsReachTheirQuestions`, for any number of files, folders, pages and taps.

### Only model-checked

- All liveness, whose fairness is out of the prover's reach:
  `StoredIsCompleted`, `CancelledIsCleaned`, `ReadyIsServed`, `DownloadsSettle`,
  `AwaitingIsPrompted`, `ShutdownCompletes`, `StaleViewsEnd`.
- The three properties the code does not have (section 3). What holds instead is
  proved: `RecoveryMissesOnlyUnrecorded`, `MovesReplaceNothing` and, for the
  shutdown, `UploadsAreAwaited`.

## 5. What is not modelled, and what is left

- Configuration, credentials, health and command line: straight-line code before
  any job runs, or read-only. Messages, progress texts, logging, constants,
  validators: wording and types. What each validation step looks at.
- The task manager: nothing creates a task through it.
- The schema and its migrations: a durable commit is what the models assume.
- `UploadWorker.run_once` (only tests call it), `DriveFolderBrowser.get_folder`
  (nothing does), the empty search term, read-only commands and summaries,
  the choice of a file's source message, users.
- A signal before its handlers are installed, which kills the process at once.
- The commit of `downloads` and that of `files` are one in LocalFiles, as
  DownloadQueue covers the crash between them.

Left to do: an abstract life of a job which `DownloadQueue` and `UploadWorker`
each implement, with a module that composes the two.
