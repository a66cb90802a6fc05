---------------------------- MODULE UploadWorker ----------------------------
(***************************************************************************)
(* The upload side of the bot: app/upload_worker.py, with the repository   *)
(* rows it reads and writes, the Drive API calls made in its thread, the   *)
(* Telegram handlers and admin commands that write the same rows, crashes  *)
(* and startup recovery.                                                   *)
(*                                                                         *)
(* One asyncio loop runs everything but the upload thread, so the worker   *)
(* and the handlers interleave only where the worker awaits; a crash may   *)
(* fall between any two commits.                                           *)
(***************************************************************************)
EXTENDS Naturals, FiniteSets, JobState

CONSTANTS
  Files,       \* file records that reached the rename prompt
  NoFile,      \* "no current file record"
  SizeKnown,   \* files whose size Telegram announced
  RetryLimit,  \* constants.UPLOAD_RETRY_LIMIT
  Budget       \* how often each fault of the environment may strike

Faults == {"crash",     \* the process dies
           "stale",     \* a tap on a prompt the job has already left behind
           "oserror",   \* deleting a local file fails
           "retry"}     \* an administrator runs /retry_failed

ASSUME FilesAssumption == NoFile \notin Files /\ SizeKnown \subseteq Files
ASSUME LimitAssumption == RetryLimit \in Nat
ASSUME BudgetAssumption == Budget \in [Faults -> Nat]

VARIABLES
  \* the files table
  status,       \* files.status
  driveId,      \* files.google_drive_file_id: 0 is NULL, n the n-th object
  retryCount,   \* files.upload_retry_count
  retryAfter,   \* files.upload_retry_after: "none" is NULL, "later", "due"
  \* the disk and Google Drive
  local,        \* the downloaded file is still in downloads/
  created,      \* how many Drive objects were created for the file
  truncated,    \* those of them whose size is not the announced one
  \* the process
  proc,         \* "down", "recovering", "booting" (handlers run), "up"
  pc,           \* where the worker task is; "idle" when there is none
  current,      \* _current_file_record
  thread,       \* the to_thread call: the Drive request or the outcome
  deferred,     \* deferred_file_ids of the running loop
  cancelledIds, \* _cancelled_file_ids
  left          \* what is left of Budget

db    == <<status, driveId, retryCount, retryAfter>>
drive == <<created, truncated>>
task  == <<pc, current, thread, deferred>>
vars  == <<db, local, drive, proc, task, cancelledIds, left>>

Init ==
  /\ status = [f \in Files |-> "awaiting_rename"]
  /\ driveId = [f \in Files |-> 0]
  /\ retryCount = [f \in Files |-> 0]
  /\ retryAfter = [f \in Files |-> "none"]
  /\ local = [f \in Files |-> TRUE]
  /\ created = [f \in Files |-> 0]
  /\ truncated = [f \in Files |-> {}]
  /\ proc = "up"
  /\ pc = "idle"
  /\ current = NoFile
  /\ thread = "none"
  /\ deferred = {}
  /\ cancelledIds = {}
  /\ left = Budget

-----------------------------------------------------------------------------
(* Building blocks. *)

Spend(fault) ==
  /\ left[fault] > 0
  /\ left' = [left EXCEPT ![fault] = @ - 1]

\* Handlers get the loop only while the worker is absent or awaits its thread.
Yielded == proc \in {"booting", "up"} /\ pc \in {"idle", "starting", "transfer"}

\* UploadWorker.start: a no-op while the task is alive.
StartWorker ==
  /\ pc' = IF pc = "idle" THEN "starting" ELSE pc
  /\ UNCHANGED <<current, thread, deferred>>

\* The worker coroutine ends, normally or because an exception escaped it.
TaskEnds ==
  /\ pc' = "idle"
  /\ current' = NoFile
  /\ thread' = "none"
  /\ deferred' = {}

\* Back to the head of the loop; the job may be put off until the next run.
NextJob(putOff) ==
  /\ pc' = "loop"
  /\ current' = NoFile
  /\ thread' = "none"
  /\ deferred' = deferred \cup putOff

\* DatabaseRepository.update_file_status, without any check.
SetStatus(f, s) == status' = [status EXCEPT ![f] = s]

\* Mutant of CancelUpload: a misspelled state value.
CancelUploadMisspelled(f) ==
  /\ status' = [status EXCEPT ![f] = "canceled"]
  /\ UNCHANGED <<driveId, retryCount, retryAfter>>

\* DatabaseRepository.cancel_upload: nothing to cancel once the job settled.
CancelUpload(f) ==
  LET settled == status[f] \in {"uploaded", "failed"} \cup TerminalStates
  IN  /\ status' = IF settled THEN status ELSE [status EXCEPT ![f] = "cancelled"]
      /\ retryAfter' = IF settled THEN retryAfter
                       ELSE [retryAfter EXCEPT ![f] = "none"]
      /\ UNCHANGED <<driveId, retryCount>>

\* _cleanup_uploaded_files: the local file and its partial variants go.
DeleteLocal(f) == local' = [local EXCEPT ![f] = FALSE]

CancelRequested(f) == f \in cancelledIds \/ status[f] = "cancelled"

\* Mutant of NextToFinalize: uploaded rows are not looked for.
NextToFinalizeForgetful ==
  {f \in Files \ deferred : status[f] = "uploading" /\ driveId[f] # 0}

\* get_next_uploading_with_drive_file_id has priority over get_next_uploaded.
NextToFinalize ==
  LET interrupted == {f \in Files \ deferred :
                        status[f] = "uploading" /\ driveId[f] # 0}
      uploaded    == {f \in Files \ deferred : status[f] = "uploaded"}
  IN  IF interrupted # {} THEN interrupted ELSE uploaded

Eligible == {f \in Files \ deferred : /\ status[f] = "ready_for_upload"
                                      /\ driveId[f] = 0
                                      /\ retryAfter[f] # "later"}

\* get_next_ready_for_upload: rows without a schedule sort first; which row of
\* a class comes next depends on timestamps that are not modelled.
NextReady ==
  LET unscheduled == {f \in Eligible : retryAfter[f] = "none"}
  IN  IF unscheduled # {} THEN unscheduled ELSE Eligible

-----------------------------------------------------------------------------
(* Telegram handlers and admin commands. *)

\* A tap on the prompt the job is at is free, any other one is a stale tap.
Tap(f, prompt) == IF status[f] = prompt THEN UNCHANGED left ELSE Spend("stale")

\* "Keep" and the text of a rename: the folder prompt follows.
Keep(f) ==
  /\ Yielded
  /\ Tap(f, "awaiting_rename")
  /\ SetStatus(f, "awaiting_folder")
  /\ UNCHANGED <<driveId, retryCount, retryAfter, local, drive, proc, task,
                 cancelledIds>>

Skip(f) ==
  /\ Yielded
  /\ Tap(f, "awaiting_rename")
  /\ SetStatus(f, "skipped")
  /\ UNCHANGED <<driveId, retryCount, retryAfter, local, drive, proc, task,
                 cancelledIds>>

\* Mutant of SelectFolder: a new destination forgets the recorded object.
SelectFolderForgetful(f) ==
  /\ Yielded
  /\ status[f] \notin {"awaiting_rename", "skipped"}
  /\ Tap(f, "awaiting_folder")
  /\ SetStatus(f, "ready_for_upload")
  /\ driveId' = [driveId EXCEPT ![f] = 0]
  /\ StartWorker
  /\ UNCHANGED <<retryCount, retryAfter, local, drive, proc, cancelledIds>>

\* A validated destination folder, chosen on a prompt that only exists once the
\* name is settled.
SelectFolder(f) ==
  /\ Yielded
  /\ status[f] \notin {"awaiting_rename", "skipped"}
  /\ Tap(f, "awaiting_folder")
  /\ SetStatus(f, "ready_for_upload")
  /\ StartWorker
  /\ UNCHANGED <<driveId, retryCount, retryAfter, local, drive, proc,
                 cancelledIds>>

\* /cancel <job> upload: the files of the active upload are left to the worker.
AdminCancel(f) ==
  /\ Yielded
  /\ status[f] \in {"ready_for_upload", "uploading"}
  /\ CancelUpload(f)
  /\ cancelledIds' = cancelledIds \cup {f}
  /\ \/ current = f /\ UNCHANGED <<local, left>>
     \/ current # f /\ DeleteLocal(f) /\ UNCHANGED left
     \/ current # f /\ Spend("oserror") /\ UNCHANGED local
  /\ UNCHANGED <<drive, proc, task>>

\* Mutant of RetryEligible: cancelled uploads are retried as well.
RetryEligibleGreedy == {f \in Files : /\ status[f] \in {"failed", "cancelled"}
                                      /\ driveId[f] = 0
                                      /\ retryCount[f] > 0}

RetryEligible == {f \in Files : /\ status[f] = "failed"
                                /\ driveId[f] = 0
                                /\ retryCount[f] > 0}

Requeue(fs) ==
  /\ status' = [f \in Files |-> IF f \in fs THEN "ready_for_upload" ELSE status[f]]
  /\ retryAfter' = [f \in Files |-> IF f \in fs THEN "none" ELSE retryAfter[f]]
  /\ UNCHANGED <<driveId, retryCount>>

\* Mutant of AdminRetry: the worker is not started.
AdminRetryUnstarted ==
  /\ Yielded
  /\ RetryEligible # {}
  /\ Spend("retry")
  /\ Requeue(RetryEligible)
  /\ UNCHANGED <<local, drive, proc, task, cancelledIds>>

\* /retry_failed
AdminRetry ==
  /\ Yielded
  /\ RetryEligible # {}
  /\ Spend("retry")
  /\ Requeue(RetryEligible)
  /\ StartWorker
  /\ UNCHANGED <<local, drive, proc, cancelledIds>>

-----------------------------------------------------------------------------
(* The worker: run_until_idle. *)

Begin ==
  /\ pc = "starting"
  /\ pc' = "loop"
  /\ deferred' = {}
  /\ UNCHANGED <<db, local, drive, proc, current, thread, cancelledIds, left>>

\* An upload that is already on Drive goes (back) to its cleanup.
PickFinalize(f) ==
  /\ pc = "loop"
  /\ f \in NextToFinalize
  /\ SetStatus(f, "uploaded")
  /\ pc' = "finalize"
  /\ current' = f
  /\ UNCHANGED <<driveId, retryCount, retryAfter, local, drive, proc, thread,
                 deferred, cancelledIds, left>>

Claim(f) ==
  /\ pc = "loop" /\ proc # "recovering"
  /\ NextToFinalize = {}
  /\ f \in NextReady
  /\ ShouldStartUpload(status[f], driveId[f] # 0)
  /\ CanTransition(status[f], "uploading")
  /\ SetStatus(f, "uploading")
  /\ pc' = "claimed"
  /\ current' = f
  /\ UNCHANGED <<driveId, retryCount, retryAfter, local, drive, proc, thread,
                 deferred, cancelledIds, left>>

Drain ==
  /\ pc = "loop" /\ proc # "recovering"
  /\ NextToFinalize = {} /\ Eligible = {}
  /\ TaskEnds
  /\ UNCHANGED <<db, local, drive, proc, cancelledIds, left>>

\* The schedule is cleared, then the file is handed to the thread.
BeginTransfer ==
  /\ pc = "claimed"
  /\ ~CancelRequested(current)
  /\ local[current]
  /\ retryAfter' = [retryAfter EXCEPT ![current] = "none"]
  /\ pc' = "transfer"
  /\ thread' = "creating"
  /\ UNCHANGED <<status, driveId, retryCount, local, drive, proc, current,
                 deferred, cancelledIds, left>>

\* The local file is gone: a permanent failure before anything is sent.
MissingLocalFile ==
  /\ pc = "claimed"
  /\ ~CancelRequested(current)
  /\ ~local[current]
  /\ retryAfter' = [retryAfter EXCEPT ![current] = "none"]
  /\ SetStatus(current, "failed")
  /\ NextJob({})
  /\ UNCHANGED <<driveId, retryCount, local, drive, proc, cancelledIds, left>>

-----------------------------------------------------------------------------
(* The thread: GoogleDriveUploader.upload_file, files().create then get. *)

ThreadCreates(intact) ==
  LET n == created[current] + 1
  IN  /\ thread = "creating"
      /\ created' = [created EXCEPT ![current] = n]
      /\ truncated' = IF intact THEN truncated
                      ELSE [truncated EXCEPT ![current] = @ \cup {n}]
      /\ thread' = "reading"
      /\ UNCHANGED <<db, local, proc, pc, current, deferred, cancelledIds, left>>

ThreadReads ==
  /\ thread = "reading"
  /\ thread' = "returned"
  /\ UNCHANGED <<db, local, drive, proc, pc, current, deferred, cancelledIds, left>>

\* Either request raises; _classify_upload_failure tells which kind it is.
ThreadRaises(kind) ==
  /\ thread \in {"creating", "reading"}
  /\ thread' = kind
  /\ UNCHANGED <<db, local, drive, proc, pc, current, deferred, cancelledIds, left>>

-----------------------------------------------------------------------------
(* The worker after its await. *)

ThreadDone == thread \in {"returned", "transient", "permanent"}

\* Mutant of Verified: no size is compared.
VerifiedBlindly == TRUE

\* _verify_upload: the size is compared when Telegram announced one.
Verified == current \in SizeKnown => created[current] \notin truncated[current]

NextRetry == retryCount[current] + 1

\* Mutant of Target: the limit is compared with the old count.
TargetLate ==
  IF thread = "returned" /\ Verified THEN "uploaded"
  ELSE IF thread = "transient" /\ retryCount[current] <= RetryLimit
       THEN "ready_for_upload"
       ELSE "failed"

\* The state the outcome asks for (_handle_upload_failure for the failures).
Target ==
  IF thread = "returned" /\ Verified THEN "uploaded"
  ELSE IF thread = "transient" /\ NextRetry <= RetryLimit THEN "ready_for_upload"
  ELSE "failed"

Settling(target) ==
  /\ ThreadDone
  /\ ~CancelRequested(current)
  /\ Target = target
  /\ CanTransition(status[current], target)

\* Mutant of PersistUploaded: the id is not passed to the transition.
PersistUploadedWithoutId ==
  /\ Settling("uploaded")
  /\ SetStatus(current, "uploaded")
  /\ pc' = "finalize_new"
  /\ thread' = "none"
  /\ UNCHANGED <<driveId, retryCount, retryAfter, local, drive, proc, current,
                 deferred, cancelledIds, left>>

PersistUploaded ==
  /\ Settling("uploaded")
  /\ SetStatus(current, "uploaded")
  /\ driveId' = [driveId EXCEPT ![current] = created[current]]
  /\ pc' = "finalize_new"
  /\ thread' = "none"
  /\ UNCHANGED <<retryCount, retryAfter, local, drive, proc, current, deferred,
                 cancelledIds, left>>

\* Mutant of ScheduleRetry: the row is not handed back.
ScheduleRetryUploading ==
  /\ Settling("ready_for_upload")
  /\ retryCount' = [retryCount EXCEPT ![current] = NextRetry]
  /\ retryAfter' = [retryAfter EXCEPT ![current] = "later"]
  /\ NextJob({})
  /\ UNCHANGED <<status, driveId, local, drive, proc, cancelledIds, left>>

ScheduleRetry ==
  /\ Settling("ready_for_upload")
  /\ SetStatus(current, "ready_for_upload")
  /\ retryCount' = [retryCount EXCEPT ![current] = NextRetry]
  /\ retryAfter' = [retryAfter EXCEPT ![current] = "later"]
  /\ NextJob({})
  /\ UNCHANGED <<driveId, local, drive, proc, cancelledIds, left>>

\* Mutant of FailPermanently: the failed upload's file is cleaned up too.
FailPermanentlyTidy ==
  /\ Settling("failed")
  /\ SetStatus(current, "failed")
  /\ DeleteLocal(current)
  /\ NextJob({})
  /\ UNCHANGED <<driveId, retryCount, retryAfter, drive, proc, cancelledIds, left>>

FailPermanently ==
  /\ Settling("failed")
  /\ SetStatus(current, "failed")
  /\ NextJob({})
  /\ UNCHANGED <<driveId, retryCount, retryAfter, local, drive, proc,
                 cancelledIds, left>>

\* The row moved under the transfer: require_transition raises and, nothing
\* catching it, the task dies with the id of the new object.
TransitionRejected ==
  /\ ThreadDone
  /\ ~CancelRequested(current)
  /\ ~CanTransition(status[current], Target)
  /\ TaskEnds
  /\ UNCHANGED <<db, local, drive, proc, cancelledIds, left>>

\* Mutant of MarkCancelled: the cancellation is raised instead of returned.
MarkCancelledRaises ==
  /\ pc = "claimed" \/ ThreadDone
  /\ CancelRequested(current)
  /\ CancelUpload(current)
  /\ cancelledIds' = cancelledIds \cup {current}
  /\ DeleteLocal(current)
  /\ TaskEnds
  /\ UNCHANGED <<drive, proc, left>>

\* Mutant of MarkCancelled: the file of the active upload is left behind.
MarkCancelledUntidy ==
  /\ pc = "claimed" \/ ThreadDone
  /\ CancelRequested(current)
  /\ CancelUpload(current)
  /\ cancelledIds' = cancelledIds \cup {current}
  /\ NextJob({})
  /\ UNCHANGED <<local, drive, proc, left>>

\* _mark_upload_cancelled, before the thread or instead of its outcome.
MarkCancelled ==
  /\ pc = "claimed" \/ ThreadDone
  /\ CancelRequested(current)
  /\ CancelUpload(current)
  /\ cancelledIds' = cancelledIds \cup {current}
  /\ \/ DeleteLocal(current) /\ NextJob({}) /\ UNCHANGED left
     \/ Spend("oserror") /\ TaskEnds /\ UNCHANGED local
  /\ UNCHANGED <<drive, proc>>

\* _finalize_uploaded: the local file first, the last transition afterwards.
CleanUp ==
  /\ pc \in {"finalize", "finalize_new"}
  /\ DeleteLocal(current)
  /\ pc' = "cleaned"
  /\ UNCHANGED <<db, drive, proc, current, thread, deferred, cancelledIds, left>>

\* Mutant of CleanUpFails: the error is swallowed.
CleanUpFailsSilently ==
  /\ pc \in {"finalize", "finalize_new"}
  /\ Spend("oserror")
  /\ pc' = "cleaned"
  /\ UNCHANGED <<db, local, drive, proc, current, thread, deferred, cancelledIds>>

\* The row stays uploaded; only a job that was picked for cleanup is put off.
CleanUpFails ==
  /\ pc \in {"finalize", "finalize_new"}
  /\ Spend("oserror")
  /\ NextJob(IF pc = "finalize" THEN {current} ELSE {})
  /\ UNCHANGED <<db, local, drive, proc, cancelledIds>>

Complete ==
  /\ pc = "cleaned"
  /\ CanTransition(status[current], "completed")
  /\ SetStatus(current, "completed")
  /\ NextJob({})
  /\ UNCHANGED <<driveId, retryCount, retryAfter, local, drive, proc,
                 cancelledIds, left>>

-----------------------------------------------------------------------------
(* The process. *)

Dies ==
  /\ Spend("crash")
  /\ proc' = "down"
  /\ TaskEnds
  /\ cancelledIds' = {}

Crash ==
  /\ proc # "down"
  /\ Dies
  /\ UNCHANGED <<db, local, drive>>

\* /retry_failed commits record by record: a crash leaves some of them done.
CrashInAdminRetry(fs) ==
  /\ Yielded
  /\ fs # {}
  /\ Requeue(fs)
  /\ Dies
  /\ UNCHANGED <<local, drive>>

\* Startup: UploadWorker.recover_interrupted_jobs runs before the handlers.
Restart ==
  /\ proc = "down"
  /\ proc' = "recovering"
  /\ pc' = "loop"
  /\ UNCHANGED <<db, local, drive, current, thread, deferred, cancelledIds, left>>

RecoveryDone ==
  /\ proc = "recovering" /\ pc = "loop"
  /\ NextToFinalize = {}
  /\ proc' = "booting"
  /\ TaskEnds
  /\ UNCHANGED <<db, local, drive, cancelledIds, left>>

\* Mutant: the worker is not started at startup.
LifecycleStartForgetful ==
  /\ proc = "booting" /\ Yielded
  /\ proc' = "up"
  /\ UNCHANGED <<db, local, drive, task, cancelledIds, left>>

\* ApplicationLifecycle.run starts the worker after Telegram.
LifecycleStart ==
  /\ proc = "booting" /\ Yielded
  /\ proc' = "up"
  /\ StartWorker
  /\ UNCHANGED <<db, local, drive, cancelledIds, left>>

\* upload_retry_after passes.
RetryDue(f) ==
  /\ retryAfter[f] = "later"
  /\ retryAfter' = [retryAfter EXCEPT ![f] = "due"]
  /\ UNCHANGED <<status, driveId, retryCount, local, drive, proc, task,
                 cancelledIds, left>>

-----------------------------------------------------------------------------
Handlers == \/ \E f \in Files : Keep(f) \/ Skip(f) \/ SelectFolder(f) \/ AdminCancel(f)
            \/ AdminRetry

WorkerStep == \/ Begin \/ Drain \/ BeginTransfer \/ MissingLocalFile
              \/ \E f \in Files : PickFinalize(f) \/ Claim(f)
              \/ PersistUploaded \/ ScheduleRetry \/ FailPermanently
              \/ TransitionRejected \/ MarkCancelled
              \/ CleanUp \/ CleanUpFails \/ Complete

ThreadStep == \/ \E intact \in BOOLEAN : ThreadCreates(intact)
              \/ ThreadReads
              \/ \E kind \in {"transient", "permanent"} : ThreadRaises(kind)

Boot == Restart \/ RecoveryDone \/ LifecycleStart

Clock == \E f \in Files : RetryDue(f)

Failure == Crash \/ \E fs \in SUBSET RetryEligible : CrashInAdminRetry(fs)

Next == Handlers \/ WorkerStep \/ ThreadStep \/ Boot \/ Clock \/ Failure

Spec == Init /\ [][Next]_vars

\* The loop keeps running its tasks, Drive requests end, and the deployment
\* restarts the process (restart: unless-stopped in docker-compose.yml).
FairSpec == Spec /\ WF_vars(WorkerStep) /\ WF_vars(ThreadStep) /\ WF_vars(Boot)

-----------------------------------------------------------------------------
(* What is checked. *)

\* Every variable keeps to its domain.
TypeOK ==
  /\ status \in [Files -> JobStates]
  /\ driveId \in [Files -> Nat]
  /\ retryCount \in [Files -> Nat]
  /\ retryAfter \in [Files -> {"none", "later", "due"}]
  /\ local \in [Files -> BOOLEAN]
  /\ created \in [Files -> Nat]
  /\ truncated \in [Files -> SUBSET Nat]
  /\ proc \in {"down", "recovering", "booting", "up"}
  /\ pc \in {"idle", "starting", "loop", "claimed", "transfer", "finalize",
             "finalize_new", "cleaned"}
  /\ current \in Files \cup {NoFile}
  /\ thread \in {"none", "creating", "reading", "returned", "transient", "permanent"}
  /\ deferred \subseteq Files
  /\ cancelledIds \subseteq Files
  /\ left \in [Faults -> Nat]

\* Once a Drive id is recorded the file is never uploaded again and the id is
\* never replaced (ADR 0001, Idempotency Guarantees), whatever crashes, stale
\* taps and failed cleanups happen.
RecordedIdIsFinal ==
  [][\A f \in Files : driveId[f] # 0 =>
       created'[f] = created[f] /\ driveId'[f] = driveId[f]]_vars

\* The recorded object is one that was created and whose size is the one
\* Telegram announced, when it announced one (_verify_upload before the commit).
RecordedIsVerified ==
  \A f \in Files : driveId[f] # 0 =>
    /\ driveId[f] <= created[f]
    /\ f \in SizeKnown => driveId[f] \notin truncated[f]

\* A completed job has its Drive object recorded and nothing left on the disk.
CompletedIsDone ==
  \A f \in Files : status[f] = "completed" => driveId[f] # 0 /\ ~local[f]

\* The persisted retry count survives crashes, cancellations and /retry_failed
\* without ever passing the limit.
RetriesAreBounded == \A f \in Files : retryCount[f] <= RetryLimit

\* A local file is only deleted when its Drive id is recorded or somebody asked
\* for the upload to be cancelled.
DeletesAreJustified ==
  [][\A f \in Files : local[f] /\ ~local'[f] =>
       driveId[f] # 0 \/ f \in cancelledIds']_vars

\* None of these faults has struck yet.
Spared(faults) == \A fault \in faults : left[fault] = Budget[fault]

\* Until a stale tap, no crash or failure loses the only copy of a file.
CopyIsKept == Spared({"stale"}) =>
  \A f \in Files : local[f] \/ driveId[f] # 0 \/ status[f] = "cancelled"

\* Until a stale tap, a terminal state is final, even when the cancellation
\* races with the end of the transfer.
TerminalIsFinal ==
  [][Spared({"stale"})' =>
       \A f \in Files : status[f] \in TerminalStates => status'[f] = status[f]]_vars

\* Every job that is ready and not waiting for a retry has a worker that will
\* look at it: no wake-up is lost between start() and the end of the task, until a
\* stale tap or a failed deletion ends the task with an exception.
ReadyHasWorker ==
  Spared({"stale", "oserror"}) /\ proc = "up" /\ pc = "idle" =>
    \A f \in Files : ~(/\ status[f] = "ready_for_upload"
                       /\ retryAfter[f] = "none"
                       /\ driveId[f] = 0)

\* The task ends only when nothing is eligible ("drains eligible jobs but exits
\* when none are due", ADR 0001), unless an exception ends it.
DrainsBeforeExit ==
  [][(/\ Spared({"stale", "oserror"})'
      /\ pc # "idle" /\ pc' = "idle" /\ proc = "up" /\ proc' = "up")
       => Eligible' = {}]_vars

\* Until a crash strikes, an uploading row is the row the worker is uploading,
\* whatever taps, cancellations and failed deletions come in.
UploadingIsCurrent == Spared({"crash"}) =>
  \A f \in Files : status[f] = "uploading" => current = f

\* The policy of job_state.recovery_state holds when startup recovery ends.
RecoveryFollowsPolicy ==
  [][proc = "recovering" /\ proc' = "booting" =>
       \A f \in Files : status'[f] = RecoveryState(status'[f], driveId'[f] # 0)]_vars

\* Without stale taps the worker implements the abstract promise.
Phase(s) ==
  CASE s \in {"failed", "cancelled", "skipped"} -> s
    [] s = "uploaded"                           -> "stored"
    [] s = "completed"                          -> "done"
    [] OTHER                                    -> "waiting"

Promise == INSTANCE UploadPromise
             WITH phase <- [f \in Files |-> Phase(status[f])], copy <- local

PromiseKept == Promise!Spec

\* What reached Drive is finalized, across crashes.
StoredIsCompleted ==
  \A f \in Files : status[f] = "uploaded" ~> status[f] = "completed"

\* Without crashes a cancelled upload ends with its local file deleted, also when
\* the cancel arrived while the thread was sending it.
CancelledIsCleaned == []Spared({"crash"}) =>
  \A f \in Files : status[f] = "cancelled" ~> ~local[f]

\* A ready job is served: the single worker starves none, and a crash does not
\* leave it without a worker.
ReadyIsServed ==
  \A f \in Files :
    status[f] = "ready_for_upload" /\ retryAfter[f] = "none"
      ~> status[f] # "ready_for_upload"
=============================================================================
