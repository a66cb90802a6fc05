---------------------------- MODULE DownloadQueue ----------------------------
(***************************************************************************)
(* The download side of the bot: app/download_queue.py, with the rows it   *)
(* reads and writes, the handlers that feed and cancel it, crashes and     *)
(* startup recovery.                                                       *)
(*                                                                         *)
(* A repository call that writes two tables commits twice.  The writes of  *)
(* a step are put in "commits" and reach the database one at a time; no    *)
(* other coroutine runs in between, but the process may die.               *)
(***************************************************************************)
EXTENDS Naturals, Sequences, FiniteSets, JobState

CONSTANTS
  Files,       \* media messages the user sends
  NoFile,      \* nothing
  RetryLimit,  \* constants.DOWNLOAD_QUEUE_RETRY_LIMIT
  Budget       \* how often each fault of the environment may strike

Faults == {"crash",     \* the process dies
           "telegram",  \* sending a message fails
           "retry"}     \* an administrator runs /retry_failed

ASSUME FilesAssumption == NoFile \notin Files
ASSUME LimitAssumption == RetryLimit \in Nat
ASSUME BudgetAssumption == Budget \in [Faults -> Nat]

VARIABLES
  \* the database
  fileStatus,  \* files.status, "absent" before the row exists
  dlStatus,    \* downloads.status, "absent" before the row exists
  dlRetries,   \* downloads.retry_count
  \* Telegram
  prompted,    \* files whose rename prompt was sent
  ack,         \* the file whose handler awaits its acknowledgement
  \* the process
  proc,        \* "down", "recovering", "up"
  job,         \* DownloadJob.status of _jobs, "absent" when there is none
  attempts,    \* DownloadJob.attempts
  cancelEvent, \* files whose job's cancel_event is set
  queue,       \* _queue
  pc,          \* where the worker task is
  current,     \* _current_job
  transfer,    \* the active task: "running" or how it ended
  unflushed,   \* a progress snapshot waits for flush_progress
  commits,     \* writes of the running step not yet committed
  left         \* what is left of Budget

db     == <<fileStatus, dlStatus, dlRetries>>
chat   == <<prompted, ack>>
jobs   == <<job, attempts, cancelEvent, queue>>
worker == <<pc, current, transfer, unflushed>>
vars   == <<db, chat, proc, jobs, worker, commits, left>>

DownloadStates == {"absent", "queued", "running", "completed", "failed", "cancelled"}
Active == {"queued", "running"}

Init ==
  /\ fileStatus = [f \in Files |-> "absent"]
  /\ dlStatus = [f \in Files |-> "absent"]
  /\ dlRetries = [f \in Files |-> 0]
  /\ prompted = {}
  /\ ack = NoFile
  /\ proc = "up"
  /\ job = [f \in Files |-> "absent"]
  /\ attempts = [f \in Files |-> 0]
  /\ cancelEvent = {}
  /\ queue = <<>>
  /\ pc = "unstarted"
  /\ current = NoFile
  /\ transfer = "none"
  /\ unflushed = FALSE
  /\ commits = <<>>
  /\ left = Budget

-----------------------------------------------------------------------------
(* Building blocks. *)

Spend(fault) ==
  /\ left[fault] > 0
  /\ left' = [left EXCEPT ![fault] = @ - 1]

FileTo(f, s)     == [file |-> f, row |-> "files", to |-> s, retries |-> 0]
DownloadTo(f, s, n) == [file |-> f, row |-> "downloads", to |-> s, retries |-> n]

\* The coroutines take turns; none runs between two commits of another.
LoopFree == proc # "down" /\ commits = <<>>

\* mark_download_cancelled
CancelWrites(f, n) == <<DownloadTo(f, "cancelled", n), FileTo(f, "cancelled")>>

\* requeue_interrupted_download and requeue_failed_download: the retry count
\* of the row is kept.
RequeueWrites(f) == <<DownloadTo(f, "queued", dlRetries[f]), FileTo(f, "queued")>>

NewJob(f, n) ==
  /\ job' = [job EXCEPT ![f] = "queued"]
  /\ attempts' = [attempts EXCEPT ![f] = n]
  /\ cancelEvent' = cancelEvent \ {f}
  /\ queue' = Append(queue, f)

Commit ==
  LET w == Head(commits)
  IN  /\ commits # <<>>
      /\ commits' = Tail(commits)
      /\ IF w.row = "files"
         THEN /\ fileStatus' = [fileStatus EXCEPT ![w.file] = w.to]
              /\ UNCHANGED <<dlStatus, dlRetries>>
         ELSE /\ dlStatus' = [dlStatus EXCEPT ![w.file] = w.to]
              /\ dlRetries' = [dlRetries EXCEPT ![w.file] = w.retries]
              /\ UNCHANGED fileStatus
      /\ UNCHANGED <<chat, proc, jobs, worker, left>>

-----------------------------------------------------------------------------
(* Handlers: updates are processed one after the other. *)

HandlerFree == proc = "up" /\ LoopFree /\ ack = NoFile

\* handle_media_message up to its await.
Receive(f) ==
  /\ HandlerFree
  /\ fileStatus[f] = "absent"
  /\ commits' = <<FileTo(f, "received")>>
  /\ ack' = f
  /\ UNCHANGED <<db, prompted, proc, jobs, worker, left>>

\* DownloadQueue.enqueue after the acknowledgement was sent.
Enqueue ==
  /\ proc = "up" /\ LoopFree
  /\ ack # NoFile
  /\ NewJob(ack, 0)
  /\ commits' = <<FileTo(ack, "queued"), DownloadTo(ack, "queued", dlRetries[ack])>>
  /\ ack' = NoFile
  /\ UNCHANGED <<db, prompted, proc, worker, left>>

\* The acknowledgement fails: the handler ends and nothing is queued.
AckFails ==
  /\ proc = "up" /\ LoopFree
  /\ ack # NoFile
  /\ Spend("telegram")
  /\ ack' = NoFile
  /\ UNCHANGED <<db, prompted, proc, jobs, worker, commits>>

\* /cancel of the chat picks a job that is queued or running, /cancel <job> one
\* whose row is; both end in DownloadQueue.cancel, which lets a cancelled job be.
Cancel(f) ==
  /\ HandlerFree
  /\ job[f] \in Active \/ dlStatus[f] \in Active
  /\ job[f] \notin {"absent", "cancelled"}
  /\ cancelEvent' = cancelEvent \cup {f}
  /\ job' = [job EXCEPT ![f] = "cancelled"]
  /\ commits' = IF dlStatus[f] \in Active THEN CancelWrites(f, dlRetries[f]) ELSE <<>>
  /\ UNCHANGED <<db, chat, proc, attempts, queue, worker, left>>

\* /retry_failed for one record; the permanent failures it skips are those that
\* the step is not taken for.
AdminRetry(f) ==
  /\ HandlerFree
  /\ fileStatus[f] = "failed" /\ dlStatus[f] = "failed"
  /\ job[f] \notin Active
  /\ Spend("retry")
  /\ NewJob(f, 0)
  /\ commits' = RequeueWrites(f)
  /\ UNCHANGED <<db, chat, proc, worker>>

-----------------------------------------------------------------------------
(* The worker: _run_worker and _process_job. *)

StartQueue ==
  /\ proc = "up" /\ LoopFree
  /\ pc = "unstarted"
  /\ pc' = "wait"
  /\ UNCHANGED <<db, chat, proc, jobs, current, transfer, unflushed, commits, left>>

Rest == pc' = "wait" /\ current' = NoFile /\ transfer' = "none" /\ UNCHANGED unflushed

\* Mutant: the loop does not look at the cancel event.
LoopHeadDeaf(f) ==
  \/ /\ attempts[f] > RetryLimit
     /\ Rest
     /\ UNCHANGED <<job, attempts, commits>>
  \/ /\ attempts[f] <= RetryLimit
     /\ job' = [job EXCEPT ![f] = "running"]
     /\ attempts' = [attempts EXCEPT ![f] = @ + 1]
     /\ commits' = <<FileTo(f, "downloading")>>
     /\ pc' = "announce" /\ current' = f
     /\ transfer' = "none" /\ unflushed' = FALSE

\* The head of the attempt loop: the loop is over, the job was cancelled, or
\* another attempt starts.
LoopHead(f) ==
  \/ /\ attempts[f] > RetryLimit
     /\ Rest
     /\ UNCHANGED <<job, attempts, commits>>
  \/ /\ attempts[f] <= RetryLimit
     /\ f \in cancelEvent
     /\ job' = [job EXCEPT ![f] = "cancelled"]
     /\ commits' = CancelWrites(f, attempts[f])
     /\ pc' = "edit" /\ current' = f
     /\ UNCHANGED <<attempts, transfer, unflushed>>
  \/ /\ attempts[f] <= RetryLimit
     /\ f \notin cancelEvent
     /\ job' = [job EXCEPT ![f] = "running"]
     /\ attempts' = [attempts EXCEPT ![f] = @ + 1]
     /\ commits' = <<FileTo(f, "downloading")>>
     /\ pc' = "announce" /\ current' = f
     /\ transfer' = "none" /\ unflushed' = FALSE

Take ==
  /\ LoopFree
  /\ pc = "wait"
  /\ queue # <<>>
  /\ queue' = Tail(queue)
  /\ LoopHead(Head(queue))
  /\ UNCHANGED <<db, chat, proc, cancelEvent, left>>

\* The back-off ended, by its timer or by the cancel event.
Resume ==
  /\ LoopFree
  /\ pc = "backoff"
  /\ LoopHead(current)
  /\ UNCHANGED <<db, chat, proc, cancelEvent, queue, left>>

\* The start message was edited: the download and the flush tasks start.
Announce ==
  /\ LoopFree
  /\ pc = "announce"
  /\ pc' = "transfer"
  /\ transfer' = "running"
  /\ UNCHANGED <<db, chat, proc, jobs, current, unflushed, commits, left>>

\* The progress callback raises CancelledError once the job is cancelled.
Progress ==
  /\ LoopFree
  /\ transfer = "running"
  /\ IF current \in cancelEvent
     THEN transfer' = "cancelled" /\ UNCHANGED unflushed
     ELSE unflushed' = TRUE /\ UNCHANGED transfer
  /\ UNCHANGED <<db, chat, proc, jobs, pc, current, commits, left>>

\* Mutant: the status of the file goes to the row of the download.
FlushFileStatus ==
  /\ LoopFree
  /\ pc = "transfer"
  /\ unflushed
  /\ unflushed' = FALSE
  /\ commits' = <<DownloadTo(current, "downloading", dlRetries[current])>>
  /\ UNCHANGED <<db, chat, proc, jobs, pc, current, transfer, left>>

\* flush_progress marks the row running, whatever its status is by now.
Flush ==
  /\ LoopFree
  /\ pc = "transfer"
  /\ unflushed
  /\ unflushed' = FALSE
  /\ commits' = <<DownloadTo(current, "running", dlRetries[current])>>
  /\ UNCHANGED <<db, chat, proc, jobs, pc, current, transfer, left>>

\* DownloadManager.download returns or raises DownloadError.
TransferEnds(result) ==
  /\ transfer = "running"
  /\ transfer' = result
  /\ UNCHANGED <<db, chat, proc, jobs, pc, current, unflushed, commits, left>>

\* The worker resumes, and awaits the end of the flush task.
StopProgress ==
  /\ LoopFree
  /\ pc = "transfer"
  /\ transfer # "running"
  /\ pc' = "stopping"
  /\ UNCHANGED <<db, chat, proc, jobs, current, transfer, unflushed, commits, left>>

\* Mutant: mark_file_awaiting_rename is forgotten.
CompleteHalf ==
  /\ LoopFree
  /\ pc = "stopping" /\ transfer = "ok"
  /\ commits' = <<DownloadTo(current, "completed", dlRetries[current]),
                  FileTo(current, "downloaded")>>
  /\ job' = [job EXCEPT ![current] = "completed"]
  /\ pc' = "done_edit"
  /\ UNCHANGED <<db, chat, proc, attempts, cancelEvent, queue, current, transfer,
                 unflushed, left>>

\* mark_download_complete and mark_file_awaiting_rename; no cancellation check.
Complete ==
  /\ LoopFree
  /\ pc = "stopping" /\ transfer = "ok"
  /\ commits' = <<DownloadTo(current, "completed", dlRetries[current]),
                  FileTo(current, "downloaded"),
                  FileTo(current, "awaiting_rename")>>
  /\ job' = [job EXCEPT ![current] = "completed"]
  /\ pc' = "done_edit"
  /\ UNCHANGED <<db, chat, proc, attempts, cancelEvent, queue, current, transfer,
                 unflushed, left>>

Cancelled == transfer = "cancelled" \/ (transfer = "error" /\ current \in cancelEvent)

SettleCancelled ==
  /\ LoopFree
  /\ pc = "stopping" /\ Cancelled
  /\ commits' = CancelWrites(current, attempts[current])
  /\ job' = [job EXCEPT ![current] = "cancelled"]
  /\ pc' = "edit"
  /\ UNCHANGED <<db, chat, proc, attempts, cancelEvent, queue, current, transfer,
                 unflushed, left>>

Fail ==
  /\ LoopFree
  /\ pc = "stopping" /\ transfer = "error" /\ ~Cancelled
  /\ attempts[current] > RetryLimit
  /\ commits' = <<DownloadTo(current, "failed", attempts[current]),
                  FileTo(current, "failed")>>
  /\ job' = [job EXCEPT ![current] = "failed"]
  /\ pc' = "edit"
  /\ UNCHANGED <<db, chat, proc, attempts, cancelEvent, queue, current, transfer,
                 unflushed, left>>

BackOff ==
  /\ LoopFree
  /\ pc = "stopping" /\ transfer = "error" /\ ~Cancelled
  /\ attempts[current] <= RetryLimit
  /\ pc' = "backoff"
  /\ UNCHANGED <<db, chat, proc, jobs, current, transfer, unflushed, commits, left>>

\* The last edit of the status message; its errors are caught.
Edited ==
  /\ LoopFree
  /\ pc = "edit"
  /\ Rest
  /\ UNCHANGED <<db, chat, proc, jobs, commits, left>>

\* Mutant: the worker turns to the next job without the rename prompt.
CompleteUnprompted ==
  /\ LoopFree
  /\ pc = "done_edit"
  /\ Rest
  /\ UNCHANGED <<db, chat, proc, jobs, commits, left>>

CompleteEdited ==
  /\ LoopFree
  /\ pc = "done_edit"
  /\ pc' = "prompt"
  /\ UNCHANGED <<db, chat, proc, jobs, current, transfer, unflushed, commits, left>>

\* _send_rename_prompt
Prompt ==
  /\ LoopFree
  /\ pc = "prompt"
  /\ prompted' = prompted \cup {current}
  /\ Rest
  /\ UNCHANGED <<db, ack, proc, jobs, commits, left>>

\* Nothing catches the error of the prompt: the worker task dies.
PromptFails ==
  /\ LoopFree
  /\ pc = "prompt"
  /\ Spend("telegram")
  /\ pc' = "dead" /\ current' = NoFile /\ transfer' = "none"
  /\ UNCHANGED <<db, chat, proc, jobs, unflushed, commits>>

-----------------------------------------------------------------------------
(* The process.  DownloadQueue.stop interrupts the worker at an await and    *)
(* writes nothing: for the database it is a crash at that await.             *)

Crash ==
  /\ proc # "down"
  /\ Spend("crash")
  /\ proc' = "down"
  /\ ack' = NoFile
  /\ job' = [f \in Files |-> "absent"]
  /\ attempts' = [f \in Files |-> 0]
  /\ cancelEvent' = {}
  /\ queue' = <<>>
  /\ pc' = "unstarted" /\ current' = NoFile /\ transfer' = "none" /\ unflushed' = FALSE
  /\ commits' = <<>>
  /\ UNCHANGED <<db, prompted>>

Restart ==
  /\ proc = "down"
  /\ proc' = "recovering"
  /\ UNCHANGED <<db, chat, jobs, worker, commits, left>>

\* Mutant: a row left running is not taken for interrupted.
InterruptedQueued == {f \in Files : dlStatus[f] = "queued" /\ job[f] = "absent"}

Interrupted == {f \in Files : dlStatus[f] \in Active /\ job[f] = "absent"}

\* Mutant: the interrupted attempt is counted on top of the persisted ones.
RecoverCounting(f) ==
  /\ proc = "recovering" /\ LoopFree
  /\ f \in Interrupted
  /\ NewJob(f, dlRetries[f] + 1)
  /\ commits' = RequeueWrites(f)
  /\ UNCHANGED <<db, chat, proc, worker, left>>

\* Mutant: the job is registered but not put into the queue.
RecoverUnqueued(f) ==
  /\ proc = "recovering" /\ LoopFree
  /\ f \in Interrupted
  /\ job' = [job EXCEPT ![f] = "queued"]
  /\ attempts' = [attempts EXCEPT ![f] = dlRetries[f]]
  /\ commits' = RequeueWrites(f)
  /\ UNCHANGED <<db, chat, proc, cancelEvent, queue, worker, left>>

\* recover_interrupted_jobs: the attempts start from the persisted count.
Recover(f) ==
  /\ proc = "recovering" /\ LoopFree
  /\ f \in Interrupted
  /\ NewJob(f, dlRetries[f])
  /\ commits' = RequeueWrites(f)
  /\ UNCHANGED <<db, chat, proc, worker, left>>

RecoveryDone ==
  /\ proc = "recovering" /\ LoopFree
  /\ Interrupted = {}
  /\ proc' = "up"
  /\ UNCHANGED <<db, chat, jobs, worker, commits, left>>

-----------------------------------------------------------------------------
Handlers == \/ Enqueue \/ AckFails
            \/ \E f \in Files : Receive(f) \/ Cancel(f) \/ AdminRetry(f)

WorkerStep == \/ StartQueue \/ Take \/ Resume \/ Announce \/ StopProgress
              \/ Complete \/ SettleCancelled \/ Fail \/ BackOff
              \/ Edited \/ CompleteEdited \/ Prompt \/ PromptFails

Transfer == \E result \in {"ok", "error"} : TransferEnds(result)

Boot == Restart \/ RecoveryDone \/ \E f \in Files : Recover(f)

Next == \/ Commit \/ Handlers \/ WorkerStep
        \/ Progress \/ Flush \/ Transfer
        \/ Crash \/ Boot

Spec == Init /\ [][Next]_vars

\* The loop runs its tasks, an acknowledged message is enqueued, transfers end,
\* and the deployment restarts the process.
FairSpec == /\ Spec
            /\ WF_vars(Commit) /\ WF_vars(WorkerStep) /\ WF_vars(Transfer)
            /\ WF_vars(Enqueue) /\ WF_vars(Boot)

-----------------------------------------------------------------------------
(* What is checked. *)

FileWrites == [file : Files, row : {"files"}, to : JobStates, retries : {0}]
DownloadWrites == [file : Files, row : {"downloads"}, to : DownloadStates,
                   retries : 0 .. RetryLimit + 1]

\* Every variable keeps to its domain.
TypeOK ==
  /\ fileStatus \in [Files -> JobStates \cup {"absent"}]
  /\ dlStatus \in [Files -> DownloadStates]
  /\ dlRetries \in [Files -> Nat]
  /\ prompted \subseteq Files
  /\ ack \in Files \cup {NoFile}
  /\ proc \in {"down", "recovering", "up"}
  /\ job \in [Files -> DownloadStates]
  /\ attempts \in [Files -> Nat]
  /\ cancelEvent \subseteq Files
  /\ queue \in Seq(Files)
  /\ pc \in {"unstarted", "wait", "announce", "transfer", "stopping", "edit",
             "done_edit", "prompt", "backoff", "dead"}
  /\ current \in Files \cup {NoFile}
  /\ transfer \in {"none", "running", "ok", "error", "cancelled"}
  /\ unflushed \in BOOLEAN
  /\ commits \in Seq(FileWrites \cup DownloadWrites)
  /\ left \in [Faults -> Nat]

\* No file is attempted more than RetryLimit + 1 times by a process, and the
\* count a crash leaves behind never allows more.
AttemptsAreBounded ==
  \A f \in Files : attempts[f] <= RetryLimit + 1 /\ dlRetries[f] <= RetryLimit + 1

\* "Cancellation never triggers retries" (ADR 0001): no attempt of a job starts
\* after its cancel event was set.
CancelStopsRetries ==
  [][\A f \in cancelEvent \cap cancelEvent' : attempts'[f] = attempts[f]]_vars

\* None of these faults has struck yet.
Spared(faults) == \A fault \in faults : left[fault] = Budget[fault]

\* Until a crash strikes, the two tables tell the same story of every file the
\* worker does not hold, whatever was cancelled in the middle of a transfer.
RowsAgree ==
  Spared({"crash"}) /\ commits = <<>> =>
    \A f \in Files \ {current} :
      /\ dlStatus[f] = "completed" <=> fileStatus[f] = "awaiting_rename"
      /\ dlStatus[f] = "failed" <=> fileStatus[f] = "failed"
      /\ dlStatus[f] = "cancelled" <=> fileStatus[f] = "cancelled"
      /\ dlStatus[f] = "queued" <=> fileStatus[f] = "queued"

\* Without /retry_failed, a job the queue reports as queued is in the queue, and
\* once only, also when it was recovered.
QueuedJobsAreInQueue ==
  Spared({"retry"}) =>
    \A f \in Files : job[f] = "queued" =>
      Cardinality({i \in DOMAIN queue : queue[i] = f}) = 1

\* Without /retry_failed and with Telegram answering, a download that was queued
\* or running is settled in the end, across crashes.
DownloadsSettle == []Spared({"retry", "telegram"}) =>
  \A f \in Files : dlStatus[f] \in Active ~> dlStatus[f] \notin Active

\* Without crashes and with Telegram answering, a downloaded file gets its rename
\* prompt, whatever is cancelled or retried meanwhile.
AwaitingIsPrompted == []Spared({"crash", "telegram"}) =>
  \A f \in Files : fileStatus[f] = "awaiting_rename" ~> f \in prompted
=============================================================================
