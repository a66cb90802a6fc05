------------------------- MODULE UploadWorkerProofs -------------------------
(***************************************************************************)
(* Theorems about UploadWorker, for every set of files, retry limit and    *)
(* budget of crashes, stale taps, failed deletions and administrator       *)
(* retries.                                                                *)
(***************************************************************************)
EXTENDS UploadWorker, TLAPS

(* The control state: which process states allow which worker states, and *)
(* when there is a current record and a thread.                           *)
Busy == {"claimed", "transfer", "finalize", "finalize_new", "cleaned"}

ControlOK ==
  /\ proc = "down" => pc = "idle"
  /\ proc = "recovering" => pc \in {"loop", "finalize", "finalize_new", "cleaned"}
  /\ pc \in Busy <=> current \in Files
  /\ thread # "none" <=> pc = "transfer"

(* The row the worker holds: nothing is recorded before the transfer ends, *)
(* it is uploaded from then on, and its file is gone before it completes.  *)
CurrentOK ==
  /\ pc \in {"claimed", "transfer"} => driveId[current] = 0
  /\ pc = "claimed" => status[current] = "uploading"
  /\ thread \in {"reading", "returned"} => created[current] > 0
  /\ pc \in {"finalize", "finalize_new", "cleaned"} => status[current] = "uploaded"
  /\ pc = "cleaned" => ~local[current]

UploadedIsRecorded == \A f \in Files : status[f] = "uploaded" => driveId[f] # 0

IInv == /\ TypeOK
        /\ ControlOK
        /\ CurrentOK
        /\ UploadedIsRecorded
        /\ RecordedIsVerified
        /\ CompletedIsDone
        /\ RetriesAreBounded

LEMMA InitIInv == Init => IInv
BY FilesAssumption, LimitAssumption, BudgetAssumption
   DEF Init, IInv, TypeOK, ControlOK, CurrentOK, UploadedIsRecorded, Busy,
       RecordedIsVerified, CompletedIsDone, RetriesAreBounded, JobStates, Faults

(* What the repository helpers that write several columns do to a row. *)
LEMMA CancelUploadRow ==
  ASSUME TypeOK, NEW f \in Files, CancelUpload(f)
  PROVE  /\ status' \in [Files -> JobStates]
         /\ retryAfter' \in [Files -> {"none", "later", "due"}]
         /\ driveId' = driveId /\ retryCount' = retryCount
         /\ \A g \in Files : \/ status'[g] = status[g]
                             \/ g = f /\ status'[g] = "cancelled" /\ status[g] # "uploaded"
BY DEF CancelUpload, TypeOK, JobStates

LEMMA RequeueRow ==
  ASSUME TypeOK, NEW fs \in SUBSET RetryEligible, Requeue(fs)
  PROVE  /\ status' \in [Files -> JobStates]
         /\ retryAfter' \in [Files -> {"none", "later", "due"}]
         /\ driveId' = driveId /\ retryCount' = retryCount
         /\ \A g \in Files : \/ status'[g] = status[g]
                             \/ status'[g] = "ready_for_upload" /\ status[g] = "failed"
BY DEF Requeue, RetryEligible, TypeOK, JobStates

LEMMA DeleteLocalRow ==
  ASSUME TypeOK, NEW f \in Files, DeleteLocal(f)
  PROVE  /\ local' \in [Files -> BOOLEAN]
         /\ ~local'[f]
         /\ \A g \in Files : local'[g] => local[g]
BY DEF DeleteLocal, TypeOK

LEMMA SpendTyped ==
  ASSUME TypeOK, NEW fault \in Faults, Spend(fault)
  PROVE  left' \in [Faults -> Nat]
BY DEF Spend, TypeOK

LEMMA HandlersIInv == IInv /\ Handlers => IInv'
<1> SUFFICES ASSUME IInv, Handlers PROVE IInv' OBVIOUS
<1> USE FilesAssumption
    DEF IInv, TypeOK, ControlOK, CurrentOK, UploadedIsRecorded, Busy,
        RecordedIsVerified, CompletedIsDone, RetriesAreBounded,
        JobStates, TerminalStates, Yielded, Tap, Spend, SetStatus, StartWorker,
        db, drive, task
<1>1. ASSUME NEW f \in Files, Keep(f) PROVE IInv'
  BY <1>1 DEF Keep
<1>2. ASSUME NEW f \in Files, Skip(f) PROVE IInv'
  BY <1>2 DEF Skip
<1>3. ASSUME NEW f \in Files, SelectFolder(f) PROVE IInv'
  BY <1>3 DEF SelectFolder
<1>4. ASSUME NEW f \in Files, AdminCancel(f) PROVE IInv'
  <2>1. left' \in [Faults -> Nat]
    BY <1>4, SpendTyped DEF AdminCancel, Faults
  <2>2. local' \in [Files -> BOOLEAN] /\ \A g \in Files : local'[g] => local[g]
    BY <1>4, DeleteLocalRow DEF AdminCancel
  <2>3. status[f] \in {"ready_for_upload", "uploading"} /\ CancelUpload(f)
    BY <1>4 DEF AdminCancel
  <2>4. /\ status' \in [Files -> JobStates]
        /\ retryAfter' \in [Files -> {"none", "later", "due"}]
        /\ driveId' = driveId /\ retryCount' = retryCount
        /\ \A g \in Files : status'[g] \in {status[g], "cancelled"}
    BY <2>3, CancelUploadRow
  <2>5. UNCHANGED <<drive, proc, task>> /\ cancelledIds' \subseteq Files /\ Yielded
    BY <1>4 DEF AdminCancel
  <2>6. TypeOK'
    BY <2>1, <2>2, <2>4, <2>5
  <2>7. ControlOK' /\ CurrentOK'
    BY <2>2, <2>4, <2>5
  <2>8. UploadedIsRecorded' /\ RecordedIsVerified' /\ CompletedIsDone' /\ RetriesAreBounded'
    BY <2>2, <2>4, <2>5
  <2> QED
    BY <2>6, <2>7, <2>8
<1>5. CASE AdminRetry
  <2>1. left' \in [Faults -> Nat]
    BY <1>5, SpendTyped DEF AdminRetry, Faults
  <2>2. /\ status' \in [Files -> JobStates]
        /\ retryAfter' \in [Files -> {"none", "later", "due"}]
        /\ driveId' = driveId /\ retryCount' = retryCount
        /\ \A g \in Files : status'[g] \in {status[g], "ready_for_upload"}
    <3>1. Requeue(RetryEligible)
      BY <1>5 DEF AdminRetry
    <3> QED
      BY <3>1, RequeueRow
  <2>3. UNCHANGED <<local, drive, proc, cancelledIds>> /\ StartWorker /\ Yielded
    BY <1>5 DEF AdminRetry
  <2> QED
    BY <2>1, <2>2, <2>3
<1> QED BY <1>1, <1>2, <1>3, <1>4, <1>5 DEF Handlers

LEMMA ThreadIInv == IInv /\ ThreadStep => IInv'
<1> SUFFICES ASSUME IInv, ThreadStep PROVE IInv' OBVIOUS
<1> USE FilesAssumption
    DEF IInv, TypeOK, ControlOK, CurrentOK, UploadedIsRecorded, Busy,
        RecordedIsVerified, CompletedIsDone, RetriesAreBounded, db, drive
<1>1. ASSUME NEW intact \in BOOLEAN, ThreadCreates(intact) PROVE IInv'
  BY <1>1 DEF ThreadCreates
<1>2. CASE ThreadReads
  BY <1>2 DEF ThreadReads
<1>3. ASSUME NEW kind \in {"transient", "permanent"}, ThreadRaises(kind) PROVE IInv'
  BY <1>3 DEF ThreadRaises
<1> QED BY <1>1, <1>2, <1>3 DEF ThreadStep

LEMMA WorkerIInv == IInv /\ WorkerStep => IInv'
<1> SUFFICES ASSUME IInv, WorkerStep PROVE IInv' OBVIOUS
<1> USE FilesAssumption, LimitAssumption
    DEF IInv, TypeOK, ControlOK, CurrentOK, UploadedIsRecorded, Busy,
        RecordedIsVerified, CompletedIsDone, RetriesAreBounded,
        JobStates, SetStatus, TaskEnds, NextJob, db, drive, task
<1>1. CASE Begin
  BY <1>1 DEF Begin
<1>2. CASE Drain
  BY <1>2 DEF Drain
<1>3. CASE BeginTransfer
  BY <1>3 DEF BeginTransfer
<1>4. CASE MissingLocalFile
  BY <1>4 DEF MissingLocalFile
<1>5. ASSUME NEW f \in Files, PickFinalize(f) PROVE IInv'
  BY <1>5 DEF PickFinalize, NextToFinalize
<1>6. ASSUME NEW f \in Files, Claim(f) PROVE IInv'
  BY <1>6 DEF Claim, ShouldStartUpload
<1>7. CASE PersistUploaded
  BY <1>7 DEF PersistUploaded, Settling, ThreadDone, Target, Verified
<1>8. CASE ScheduleRetry
  BY <1>8 DEF ScheduleRetry, Settling, ThreadDone, Target, NextRetry
<1>9. CASE FailPermanently
  BY <1>9 DEF FailPermanently, Settling, ThreadDone
<1>10. CASE TransitionRejected
  BY <1>10 DEF TransitionRejected, ThreadDone
<1>11. CASE MarkCancelled
  <2>1. /\ current \in Files /\ CancelUpload(current)
        /\ pc \in {"claimed", "transfer"}
    BY <1>11 DEF MarkCancelled, ThreadDone
  <2>2. /\ status' \in [Files -> JobStates]
        /\ retryAfter' \in [Files -> {"none", "later", "due"}]
        /\ driveId' = driveId /\ retryCount' = retryCount
        /\ \A g \in Files : status'[g] \in {status[g], "cancelled"}
    BY <2>1, CancelUploadRow
  <2>3. left' \in [Faults -> Nat]
    BY <1>11, SpendTyped DEF MarkCancelled, Faults
  <2>4. local' \in [Files -> BOOLEAN] /\ \A g \in Files : local'[g] => local[g]
    BY <1>11, <2>1, DeleteLocalRow DEF MarkCancelled
  <2>5. /\ pc' \in {"loop", "idle"} /\ thread' = "none" /\ current' = NoFile
        /\ deferred' \subseteq Files /\ cancelledIds' \subseteq Files
        /\ UNCHANGED <<drive, proc>>
    BY <1>11, <2>1 DEF MarkCancelled
  <2>6. proc \notin {"down", "recovering"}
    BY <2>1
  <2> QED
    BY <2>2, <2>3, <2>4, <2>5, <2>6
<1>12. CASE CleanUp
  BY <1>12 DEF CleanUp, DeleteLocal
<1>13. CASE CleanUpFails
  <2>1. left' \in [Faults -> Nat]
    BY <1>13, SpendTyped DEF CleanUpFails, Faults
  <2> QED
    BY <1>13, <2>1 DEF CleanUpFails
<1>14. CASE Complete
  BY <1>14 DEF Complete
<1> QED
  BY <1>1, <1>2, <1>3, <1>4, <1>5, <1>6, <1>7, <1>8, <1>9, <1>10, <1>11, <1>12,
     <1>13, <1>14 DEF WorkerStep

LEMMA BootIInv == IInv /\ Boot => IInv'
BY FilesAssumption
   DEF IInv, TypeOK, ControlOK, CurrentOK, UploadedIsRecorded, Busy,
       RecordedIsVerified, CompletedIsDone, RetriesAreBounded, TaskEnds, StartWorker,
       Boot, Restart, RecoveryDone, LifecycleStart, Yielded, db, drive

LEMMA ClockIInv == IInv /\ Clock => IInv'
BY DEF IInv, TypeOK, ControlOK, CurrentOK, UploadedIsRecorded, RecordedIsVerified,
       CompletedIsDone, RetriesAreBounded, Clock, RetryDue, drive, task

LEMMA FailureIInv == IInv /\ Failure => IInv'
<1> SUFFICES ASSUME IInv, Failure PROVE IInv' OBVIOUS
<1> USE FilesAssumption
    DEF IInv, TypeOK, ControlOK, CurrentOK, UploadedIsRecorded, Busy,
        RecordedIsVerified, CompletedIsDone, RetriesAreBounded, TaskEnds, Dies,
        db, drive, Faults
<1>1. CASE Crash
  BY <1>1, SpendTyped DEF Crash
<1>2. ASSUME NEW fs \in SUBSET RetryEligible, CrashInAdminRetry(fs) PROVE IInv'
  BY <1>2, SpendTyped, RequeueRow DEF CrashInAdminRetry
<1> QED BY <1>1, <1>2 DEF Failure

LEMMA StutterIInv == IInv /\ UNCHANGED vars => IInv'
BY DEF IInv, TypeOK, ControlOK, CurrentOK, UploadedIsRecorded, RecordedIsVerified,
       CompletedIsDone, RetriesAreBounded, vars, db, drive, task

(* The strengthened invariant: it relates the row, the thread and the disk *)
(* at every place of the worker where a crash or a handler may strike.     *)
THEOREM Invariance == Spec => []IInv
<1>1. IInv /\ [Next]_vars => IInv'
  BY HandlersIInv, WorkerIInv, ThreadIInv, BootIInv, ClockIInv, FailureIInv,
     StutterIInv DEF Next
<1> QED
  BY InitIInv, <1>1, PTL DEF Spec

(* Every variable keeps to its domain. *)
THEOREM TypeCorrect == Spec => []TypeOK
BY Invariance, PTL DEF IInv

(* A recorded object exists and has the announced size, however the upload *)
(* was interrupted before it was recorded.                                 *)
THEOREM RecordedObjectsAreVerified == Spec => []RecordedIsVerified
BY Invariance, PTL DEF IInv

(* A completed job is on Drive and no longer on the disk. *)
THEOREM CompletedJobsAreDone == Spec => []CompletedIsDone
BY Invariance, PTL DEF IInv

(* No sequence of failures, restarts and /retry_failed exceeds the limit. *)
THEOREM RetryCountIsBounded == Spec => []RetriesAreBounded
BY Invariance, PTL DEF IInv

-----------------------------------------------------------------------------
(* Action properties. *)

(* Which actions touch the disk, Drive and the recorded ids at all. *)
LEMMA QuietSteps ==
  ASSUME \/ Boot \/ Clock \/ Failure \/ UNCHANGED vars
  PROVE  UNCHANGED <<driveId, local, drive>>
BY DEF Boot, Restart, RecoveryDone, LifecycleStart, Clock, RetryDue, Failure, Crash,
       CrashInAdminRetry, Requeue, vars, db, drive

LEMMA HandlersKeepIds == Handlers => UNCHANGED <<driveId, drive>>
BY DEF Handlers, Keep, Skip, SelectFolder, AdminCancel, AdminRetry, CancelUpload,
       Requeue, db, drive

LEMMA WorkerKeepsIds ==
  WorkerStep /\ ~PersistUploaded => UNCHANGED <<driveId, drive>>
BY DEF WorkerStep, Begin, Drain, BeginTransfer, MissingLocalFile, PickFinalize, Claim,
       ScheduleRetry, FailPermanently, TransitionRejected, MarkCancelled, CancelUpload,
       CleanUp, CleanUpFails, Complete, db, drive

(* Once its Drive id is recorded a file is never uploaded again and keeps *)
(* that id, for every number of crashes, stale taps and failed cleanups.  *)
THEOREM RecordedIdsAreFinal == Spec => RecordedIdIsFinal
<1> DEFINE Final == \A f \in Files : driveId[f] # 0 =>
                      created'[f] = created[f] /\ driveId'[f] = driveId[f]
<1>1. IInv /\ [Next]_vars => Final
  <2> SUFFICES ASSUME IInv, [Next]_vars PROVE Final OBVIOUS
  <2>1. CASE ThreadStep
    <3>1. driveId' = driveId
      BY <2>1 DEF ThreadStep, ThreadCreates, ThreadReads, ThreadRaises, db
    <3>2. CASE thread = "creating"
      BY <2>1, <3>1, <3>2 DEF IInv, ControlOK, CurrentOK, TypeOK, ThreadStep,
         ThreadCreates, ThreadReads, ThreadRaises, drive
    <3>3. CASE thread # "creating"
      BY <2>1, <3>1, <3>3 DEF ThreadStep, ThreadCreates, ThreadReads, ThreadRaises, drive
    <3> QED BY <3>2, <3>3
  <2>2. CASE PersistUploaded
    BY <2>2 DEF IInv, ControlOK, CurrentOK, TypeOK, PersistUploaded, Settling,
       ThreadDone, drive
  <2>3. CASE ~ThreadStep /\ ~PersistUploaded
    <3>1. UNCHANGED <<driveId, drive>>
      BY <2>3, QuietSteps, HandlersKeepIds, WorkerKeepsIds DEF Next
    <3> QED BY <3>1 DEF drive
  <2> QED BY <2>1, <2>2, <2>3
<1> QED BY <1>1, Invariance, PTL DEF Spec, RecordedIdIsFinal

(* No step deletes a local file that is neither on Drive nor given up. *)
THEOREM DeletionsAreJustified == Spec => DeletesAreJustified
<1> DEFINE Justified == \A f \in Files : local[f] /\ ~local'[f] =>
                          driveId[f] # 0 \/ f \in cancelledIds'
<1>1. IInv /\ [Next]_vars => Justified
  <2> SUFFICES ASSUME IInv, [Next]_vars PROVE Justified OBVIOUS
  <2>1. CASE Handlers
    <3>1. ASSUME NEW f \in Files, AdminCancel(f) PROVE Justified
      BY <3>1 DEF AdminCancel, DeleteLocal, IInv, TypeOK
    <3>2. CASE AdminRetry \/ \E f \in Files : Keep(f) \/ Skip(f) \/ SelectFolder(f)
      BY <3>2 DEF Keep, Skip, SelectFolder, AdminRetry
    <3> QED BY <2>1, <3>1, <3>2 DEF Handlers
  <2>2. CASE WorkerStep
    <3>1. CASE CleanUp
      BY <3>1 DEF IInv, CurrentOK, UploadedIsRecorded, ControlOK, Busy, CleanUp, DeleteLocal
    <3>2. CASE MarkCancelled
      BY <3>2 DEF MarkCancelled, DeleteLocal, IInv, TypeOK
    <3>3. CASE ~CleanUp /\ ~MarkCancelled
      BY <2>2, <3>3 DEF WorkerStep, Begin, Drain, BeginTransfer, MissingLocalFile,
         PickFinalize, Claim, PersistUploaded, ScheduleRetry, FailPermanently,
         TransitionRejected, CleanUpFails, Complete
    <3> QED BY <3>1, <3>2, <3>3
  <2>3. CASE ThreadStep
    BY <2>3 DEF ThreadStep, ThreadCreates, ThreadReads, ThreadRaises
  <2>4. CASE Boot \/ Clock \/ Failure \/ UNCHANGED vars
    BY <2>4, QuietSteps
  <2> QED BY <2>1, <2>2, <2>3, <2>4 DEF Next
<1> QED BY <1>1, Invariance, PTL DEF Spec, DeletesAreJustified
=============================================================================
