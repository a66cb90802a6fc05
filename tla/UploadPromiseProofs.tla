------------------------ MODULE UploadPromiseProofs ------------------------
(***************************************************************************)
(* UploadWorker implements UploadPromise as long as no tap comes too late: *)
(* the worker may then trust the row it read before its await.  With it,   *)
(* the properties of UploadWorker that are conditional on the faults that  *)
(* have struck, for every budget.                                          *)
(***************************************************************************)
EXTENDS UploadWorkerProofs

(* What is left of the budget only shrinks, so a fault not yet felt has    *)
(* never struck.                                                           *)
BudgetKept == \A fault \in Faults : left[fault] <= Budget[fault]

(* Until a stale tap nobody but a cancellation touches the row the worker  *)
(* sends, a cancelled id is a cancelled row, and a recorded one is kept.   *)
OnTime == Spared({"stale"}) =>
  /\ pc \in {"claimed", "transfer"} => status[current] \in {"uploading", "cancelled"}
  /\ \A f \in cancelledIds : status[f] = "cancelled"
  /\ \A f \in Files : driveId[f] # 0 => status[f] \in {"uploaded", "completed"}

(* Only a failed deletion puts a job off until the next run of the worker. *)
NoneDeferred == Spared({"oserror"}) => deferred = {}

PInv == /\ IInv
        /\ BudgetKept
        /\ OnTime
        /\ NoneDeferred
        /\ CopyIsKept
        /\ UploadingIsCurrent
        /\ ReadyHasWorker

-----------------------------------------------------------------------------
(* The budget. *)

LEMMA SpendOnce ==
  ASSUME IInv, BudgetKept, NEW fault \in Faults, Spend(fault)
  PROVE  /\ BudgetKept'
         /\ left'[fault] # Budget[fault]
         /\ \A g \in Faults : left'[g] = Budget[g] => left[g] = Budget[g]
<1>1. left \in [Faults -> Nat] /\ Budget \in [Faults -> Nat]
  BY BudgetAssumption DEF IInv, TypeOK
<1>2. left[fault] \in Nat /\ Budget[fault] \in Nat /\ left[fault] <= Budget[fault]
  BY <1>1 DEF BudgetKept
<1>3. left'[fault] = left[fault] - 1 /\ \A g \in Faults \ {fault} : left'[g] = left[g]
  BY <1>1 DEF Spend
<1> QED
  BY <1>1, <1>2, <1>3 DEF BudgetKept

LEMMA BudgetStep ==
  ASSUME IInv, BudgetKept, [Next]_vars
  PROVE  /\ BudgetKept'
         /\ \A fault \in Faults : left'[fault] = Budget[fault] => left[fault] = Budget[fault]
<1>1. CASE \E fault \in Faults : Spend(fault)
  BY <1>1, SpendOnce
<1>2. CASE UNCHANGED left
  BY <1>2 DEF BudgetKept
<1>3. (\E fault \in Faults : Spend(fault)) \/ UNCHANGED left
  <2>1. CASE Handlers
    BY <2>1 DEF Handlers, Keep, Skip, SelectFolder, AdminCancel, AdminRetry, Tap, Faults
  <2>2. CASE WorkerStep
    BY <2>2 DEF WorkerStep, Begin, Drain, BeginTransfer, MissingLocalFile, PickFinalize,
       Claim, PersistUploaded, ScheduleRetry, FailPermanently, TransitionRejected,
       MarkCancelled, CleanUp, CleanUpFails, Complete, Faults
  <2>3. CASE ThreadStep
    BY <2>3 DEF ThreadStep, ThreadCreates, ThreadReads, ThreadRaises
  <2>4. CASE Boot \/ Clock
    BY <2>4 DEF Boot, Restart, RecoveryDone, LifecycleStart, Clock, RetryDue
  <2>5. CASE Failure
    BY <2>5 DEF Failure, Crash, CrashInAdminRetry, Dies, Faults
  <2> QED
    BY <2>1, <2>2, <2>3, <2>4, <2>5 DEF Next, vars
<1> QED
  BY <1>1, <1>2, <1>3

(* A step of a run that is spared some faults was preceded by such a run. *)
LEMMA SparedBefore ==
  ASSUME IInv, BudgetKept, [Next]_vars, NEW faults \in SUBSET Faults, Spared(faults)'
  PROVE  Spared(faults)
BY BudgetStep DEF Spared

LEMMA Unspared ==
  ASSUME IInv, BudgetKept, NEW fault \in Faults, Spend(fault),
         NEW faults \in SUBSET Faults, fault \in faults
  PROVE  ~Spared(faults)'
BY SpendOnce DEF Spared

(* Until a stale tap, every tap is on the prompt the job is at. *)
LEMMA TapOnTime ==
  ASSUME IInv, BudgetKept, NEW f \in Files, NEW prompt, Tap(f, prompt), Spared({"stale"})'
  PROVE  status[f] = prompt
BY Unspared DEF Tap, Faults

-----------------------------------------------------------------------------
(* The invariant. *)

LEMMA InitPInv == Init => PInv
BY InitIInv, FilesAssumption, BudgetAssumption
   DEF Init, PInv, BudgetKept, OnTime, NoneDeferred, CopyIsKept, UploadingIsCurrent,
       ReadyHasWorker, IInv, TypeOK

(* Every conjunct of OnTime is about the row the worker holds. *)
LEMMA OnTimeStep ==
  ASSUME PInv, [Next]_vars PROVE OnTime'
<1> SUFFICES ASSUME Spared({"stale"})' PROVE OnTime' BY DEF OnTime
<1>0. Spared({"stale"})
  BY SparedBefore DEF PInv, Faults
<1> DEFINE Claimed == pc \in {"claimed", "transfer"} => status[current] \in {"uploading", "cancelled"}
           Given == \A f \in cancelledIds : status[f] = "cancelled"
           Recorded == \A f \in Files : driveId[f] # 0 => status[f] \in {"uploaded", "completed"}
<1>1. Claimed /\ Given /\ Recorded
  BY <1>0 DEF PInv, OnTime
<1> USE FilesAssumption, <1>1
    DEF PInv, IInv, TypeOK, ControlOK, CurrentOK, Busy, OnTime, db, drive, task, SetStatus
<1>2. ASSUME NEW f \in Files, Keep(f) \/ Skip(f) \/ SelectFolder(f)
      PROVE  Claimed' /\ Given' /\ Recorded'
  <2>1. status[f] \in {"awaiting_rename", "awaiting_folder"}
    BY <1>2, TapOnTime DEF Keep, Skip, SelectFolder
  <2> QED
    BY <1>2, <2>1 DEF Keep, Skip, SelectFolder, StartWorker
<1>3. ASSUME NEW f \in Files, AdminCancel(f) PROVE Claimed' /\ Given' /\ Recorded'
  BY <1>3 DEF AdminCancel, CancelUpload, TerminalStates
<1>4. CASE AdminRetry
  BY <1>4 DEF AdminRetry, Requeue, RetryEligible, StartWorker
<1>5. CASE Failure
  BY <1>5 DEF Failure, Crash, CrashInAdminRetry, Requeue, RetryEligible, Dies, TaskEnds
<1>6. CASE ThreadStep
  BY <1>6 DEF ThreadStep, ThreadCreates, ThreadReads, ThreadRaises
<1>7. CASE Boot \/ Clock \/ UNCHANGED vars
  BY <1>7 DEF Boot, Restart, RecoveryDone, LifecycleStart, StartWorker, TaskEnds,
     Clock, RetryDue, vars
<1>8. CASE WorkerStep
  <2>1. CASE Begin \/ Drain \/ BeginTransfer \/ TransitionRejected \/ CleanUp \/ CleanUpFails
    BY <2>1 DEF Begin, Drain, BeginTransfer, TransitionRejected, CleanUp, CleanUpFails,
       TaskEnds, NextJob
  <2>2. ASSUME NEW f \in Files, PickFinalize(f) \/ Claim(f)
        PROVE  Claimed' /\ Given' /\ Recorded'
    BY <2>2 DEF PickFinalize, Claim, NextToFinalize, ShouldStartUpload
  <2>3. CASE MissingLocalFile \/ ScheduleRetry \/ FailPermanently
    BY <2>3 DEF MissingLocalFile, ScheduleRetry, FailPermanently, Settling, ThreadDone,
       CancelRequested, NextJob
  <2>4. CASE PersistUploaded
    BY <2>4 DEF PersistUploaded, Settling, ThreadDone, CancelRequested
  <2>5. CASE MarkCancelled
    BY <2>5 DEF MarkCancelled, CancelUpload, CancelRequested, TerminalStates, ThreadDone,
       NextJob, TaskEnds
  <2>6. CASE Complete
    BY <2>6 DEF Complete, NextJob
  <2> QED
    BY <1>8, <2>1, <2>2, <2>3, <2>4, <2>5, <2>6 DEF WorkerStep
<1> QED
  BY <1>2, <1>3, <1>4, <1>5, <1>6, <1>7, <1>8 DEF Next, Handlers, OnTime

LEMMA NoneDeferredStep ==
  ASSUME PInv, [Next]_vars PROVE NoneDeferred'
<1> SUFFICES ASSUME Spared({"oserror"})' PROVE deferred' = {} BY DEF NoneDeferred
<1>1. deferred = {}
  BY SparedBefore DEF PInv, NoneDeferred, Faults
<1>2. ~CleanUpFails
  BY Unspared DEF CleanUpFails, PInv, Faults
<1>3. CASE WorkerStep
  BY <1>1, <1>2, <1>3 DEF WorkerStep, Begin, Drain, BeginTransfer, MissingLocalFile,
     PickFinalize, Claim, PersistUploaded, ScheduleRetry, FailPermanently,
     TransitionRejected, MarkCancelled, CleanUp, Complete, NextJob, TaskEnds
<1>4. CASE Handlers
  BY <1>1, <1>4 DEF Handlers, Keep, Skip, SelectFolder, AdminCancel, AdminRetry,
     StartWorker, task
<1>5. CASE ThreadStep
  BY <1>1, <1>5 DEF ThreadStep, ThreadCreates, ThreadReads, ThreadRaises
<1>6. CASE Boot \/ Clock \/ Failure \/ UNCHANGED vars
  BY <1>1, <1>6 DEF Boot, Restart, RecoveryDone, LifecycleStart, StartWorker, TaskEnds,
     Clock, RetryDue, Failure, Crash, CrashInAdminRetry, Dies, vars, task
<1> QED
  BY <1>3, <1>4, <1>5, <1>6 DEF Next

LEMMA CopyIsKeptStep ==
  ASSUME PInv, [Next]_vars PROVE CopyIsKept'
<1> SUFFICES ASSUME Spared({"stale"})' PROVE CopyIsKept' BY DEF CopyIsKept
<1>0. Spared({"stale"})
  BY SparedBefore DEF PInv, Faults
<1>1. \A f \in Files : local[f] \/ driveId[f] # 0 \/ status[f] = "cancelled"
  BY <1>0 DEF PInv, CopyIsKept
<1> USE FilesAssumption, <1>1
    DEF PInv, IInv, TypeOK, ControlOK, CurrentOK, Busy, CopyIsKept, db, drive, SetStatus
<1>3. ASSUME NEW f \in Files, Keep(f) \/ Skip(f) \/ SelectFolder(f)
      PROVE  CopyIsKept'
  <2>1. status[f] \in {"awaiting_rename", "awaiting_folder"}
    BY <1>3, TapOnTime DEF Keep, Skip, SelectFolder
  <2> QED
    BY <1>3, <2>1 DEF Keep, Skip, SelectFolder
<1>4. ASSUME NEW f \in Files, AdminCancel(f) PROVE CopyIsKept'
  BY <1>4 DEF AdminCancel, CancelUpload, DeleteLocal, TerminalStates
<1>5. CASE AdminRetry
  BY <1>5 DEF AdminRetry, Requeue, RetryEligible
<1>6. CASE Failure
  BY <1>6 DEF Failure, Crash, CrashInAdminRetry, Requeue, RetryEligible
<1>7. CASE ThreadStep \/ Boot \/ Clock \/ UNCHANGED vars
  BY <1>7 DEF ThreadStep, ThreadCreates, ThreadReads, ThreadRaises, Boot, Restart,
     RecoveryDone, LifecycleStart, Clock, RetryDue, vars
<1>8. CASE WorkerStep
  <2>1. CASE Begin \/ Drain \/ BeginTransfer \/ TransitionRejected \/ CleanUpFails
    BY <2>1 DEF Begin, Drain, BeginTransfer, TransitionRejected, CleanUpFails
  <2>2. ASSUME NEW f \in Files, PickFinalize(f) \/ Claim(f) PROVE CopyIsKept'
    BY <2>2 DEF PickFinalize, Claim, NextToFinalize, NextReady, Eligible
  <2>3. CASE MissingLocalFile \/ ScheduleRetry \/ FailPermanently
    BY <2>3 DEF MissingLocalFile, ScheduleRetry, FailPermanently, Settling, ThreadDone,
       CancelRequested
  <2>4. CASE PersistUploaded
    <3>1. pc = "transfer" /\ current \in Files /\ thread = "returned"
      BY <2>4 DEF PersistUploaded, Settling, ThreadDone, Target
    <3>2. created[current] \in Nat /\ created[current] > 0
      BY <3>1
    <3> QED
      BY <2>4, <3>1, <3>2 DEF PersistUploaded
  <2>5. CASE MarkCancelled
    <3>1. current \in Files /\ driveId[current] = 0
      BY <2>5 DEF MarkCancelled, ThreadDone
    <3>2. status[current] \in {"uploading", "cancelled"}
      BY <2>5, <1>0 DEF MarkCancelled, ThreadDone, OnTime
    <3> QED
      BY <2>5, <3>1, <3>2 DEF MarkCancelled, CancelUpload, DeleteLocal, TerminalStates
  <2>6. CASE CleanUp
    BY <2>6 DEF CleanUp, DeleteLocal, UploadedIsRecorded
  <2>7. CASE Complete
    BY <2>7 DEF Complete
  <2> QED
    BY <1>8, <2>1, <2>2, <2>3, <2>4, <2>5, <2>6, <2>7 DEF WorkerStep
<1> QED
  BY <1>3, <1>4, <1>5, <1>6, <1>7, <1>8 DEF Next, Handlers

(* Only Claim makes a row uploading, and it does so to the current one; the *)
(* worker lets go of it only by a transition, which an uploading row allows. *)
LEMMA UploadingIsCurrentStep ==
  ASSUME PInv, [Next]_vars PROVE UploadingIsCurrent'
<1> SUFFICES ASSUME Spared({"crash"})' PROVE UploadingIsCurrent' BY DEF UploadingIsCurrent
<1>1. \A f \in Files : status[f] = "uploading" => current = f
  BY SparedBefore DEF PInv, UploadingIsCurrent, Faults
<1>2. ~Failure
  BY Unspared DEF Failure, Crash, CrashInAdminRetry, Dies, PInv, Faults
<1> USE FilesAssumption, <1>1
    DEF PInv, IInv, TypeOK, ControlOK, CurrentOK, Busy, UploadingIsCurrent, db, SetStatus
<1>3. ASSUME NEW f \in Files, Keep(f) \/ Skip(f) \/ SelectFolder(f) \/ AdminCancel(f)
      PROVE  UploadingIsCurrent'
  BY <1>3 DEF Keep, Skip, SelectFolder, AdminCancel, CancelUpload, StartWorker, task
<1>4. CASE AdminRetry
  BY <1>4 DEF AdminRetry, Requeue, StartWorker
<1>5. CASE ThreadStep \/ Clock \/ UNCHANGED vars
  BY <1>5 DEF ThreadStep, ThreadCreates, ThreadReads, ThreadRaises, Clock, RetryDue,
     vars, task
<1>6. CASE Boot
  BY <1>6 DEF Boot, Restart, RecoveryDone, LifecycleStart, TaskEnds, StartWorker
<1>7. CASE WorkerStep
  <2>1. CASE Begin \/ Drain \/ BeginTransfer \/ CleanUp \/ CleanUpFails \/ Complete
    BY <2>1 DEF Begin, Drain, BeginTransfer, CleanUp, CleanUpFails, Complete, TaskEnds,
       NextJob
  <2>2. ASSUME NEW f \in Files, PickFinalize(f) \/ Claim(f) PROVE UploadingIsCurrent'
    BY <2>2 DEF PickFinalize, Claim
  <2>3. CASE MissingLocalFile \/ ScheduleRetry \/ FailPermanently \/ PersistUploaded
    BY <2>3 DEF MissingLocalFile, ScheduleRetry, FailPermanently, PersistUploaded,
       Settling, ThreadDone, NextJob
  <2>4. CASE TransitionRejected
    <3>1. ~CanTransition(status[current], Target) /\ current \in Files
      BY <2>4 DEF TransitionRejected, ThreadDone
    <3>2. Target \in {"uploaded", "ready_for_upload", "failed"}
      BY DEF Target
    <3>3. status[current] # "uploading"
      BY <3>1, <3>2 DEF CanTransition, ValidTransitions, JobStates, Stop, TerminalStates
    <3> QED
      BY <2>4, <3>1, <3>3 DEF TransitionRejected, TaskEnds
  <2>5. CASE MarkCancelled
    BY <2>5 DEF MarkCancelled, CancelUpload, ThreadDone, TaskEnds, NextJob, TerminalStates
  <2> QED
    BY <1>7, <2>1, <2>2, <2>3, <2>4, <2>5 DEF WorkerStep
<1> QED
  BY <1>2, <1>3, <1>4, <1>5, <1>6, <1>7 DEF Next, Handlers

(* How the worker task ends: it drained, startup recovery is over, or one of *)
(* the exceptions that a stale tap or a failed deletion causes escaped it.   *)
LEMMA TaskEndsDrained ==
  ASSUME PInv, [Next]_vars, Spared({"stale", "oserror"})',
         pc # "idle", pc' = "idle", proc' = "up"
  PROVE  /\ UNCHANGED <<status, driveId, retryAfter>>
         /\ Eligible = {} /\ deferred = {} /\ deferred' = {}
<1>1. Spared({"stale"}) /\ Spared({"oserror"})
  BY SparedBefore DEF PInv, Faults, Spared
<1>2. deferred = {}
  BY <1>1 DEF PInv, NoneDeferred
<1>3. CASE WorkerStep
  <2>1. CASE Drain
    BY <1>2, <2>1 DEF Drain, TaskEnds, db
  <2>2. ~TransitionRejected
    <3>1. SUFFICES ASSUME TransitionRejected PROVE FALSE OBVIOUS
    <3>2. pc = "transfer" /\ current \in Files
      BY <3>1 DEF TransitionRejected, ThreadDone, PInv, IInv, ControlOK, Busy
    <3>3. status[current] \in {"uploading", "cancelled"}
      BY <1>1, <3>2 DEF PInv, OnTime
    <3>4. Target \in {"uploaded", "ready_for_upload", "failed"}
      BY DEF Target
    <3>5. CanTransition("uploading", Target)
      BY <3>4 DEF CanTransition, ValidTransitions, JobStates, Stop, TerminalStates
    <3> QED
      BY <3>1, <3>3, <3>5 DEF TransitionRejected, CancelRequested
  <2>3. ~Spend("oserror")
    BY SpendOnce DEF PInv, Faults, Spared
  <2>4. CASE ~Drain
    BY <1>3, <2>2, <2>3, <2>4 DEF WorkerStep, Begin, BeginTransfer, MissingLocalFile,
       PickFinalize, Claim, PersistUploaded, ScheduleRetry, FailPermanently,
       MarkCancelled, CleanUp, CleanUpFails, Complete, NextJob
  <2> QED
    BY <2>1, <2>4
<1>4. vars' # vars
  BY DEF vars, task
<1>5. ~Handlers /\ ~ThreadStep /\ ~Clock /\ ~Boot /\ ~Failure
  BY DEF Handlers, Keep, Skip, SelectFolder, AdminCancel, AdminRetry, StartWorker, task,
     ThreadStep, ThreadCreates, ThreadReads, ThreadRaises, Clock, RetryDue, Boot, Restart,
     RecoveryDone, LifecycleStart, Failure, Crash, CrashInAdminRetry, Dies
<1> QED
  BY <1>3, <1>4, <1>5 DEF Next

(* No wake-up is lost: a row becomes ready together with a call of start(), *)
(* or while the task that will find it is alive.                            *)
LEMMA ReadyHasWorkerStep ==
  ASSUME PInv, [Next]_vars PROVE ReadyHasWorker'
<1> DEFINE Waits(f) == status[f] = "ready_for_upload" /\ retryAfter[f] = "none" /\ driveId[f] = 0
<1> SUFFICES ASSUME Spared({"stale", "oserror"})', proc' = "up", pc' = "idle"
             PROVE  \A f \in Files : ~Waits(f)'
  BY DEF ReadyHasWorker
<1>1. CASE pc # "idle"
  <2>1. UNCHANGED <<status, driveId, retryAfter>> /\ Eligible = {} /\ deferred = {}
    BY <1>1, TaskEndsDrained
  <2> QED
    BY <2>1 DEF Eligible
<1>2. CASE pc = "idle"
  <2>1. ~WorkerStep /\ ~ThreadStep /\ ~Boot /\ ~Failure
    BY <1>2 DEF WorkerStep, Begin, Drain, BeginTransfer, MissingLocalFile, PickFinalize,
       Claim, PersistUploaded, ScheduleRetry, FailPermanently, TransitionRejected,
       MarkCancelled, CleanUp, CleanUpFails, Complete, ThreadDone, Settling, NextJob,
       TaskEnds, ThreadStep, ThreadCreates, ThreadReads, ThreadRaises, Boot, Restart,
       RecoveryDone, LifecycleStart, StartWorker, Failure, Crash, CrashInAdminRetry, Dies,
       PInv, IInv, ControlOK
  <2>2. CASE proc = "up"
    <3>1. \A f \in Files : ~Waits(f)
      <4>1. Spared({"stale", "oserror"})
        BY SparedBefore DEF PInv, Faults
      <4> QED
        BY <1>2, <2>2, <4>1 DEF PInv, ReadyHasWorker
    <3>2. CASE Clock \/ UNCHANGED vars
      BY <3>1, <3>2 DEF Clock, RetryDue, vars, db, PInv, IInv, TypeOK
    <3>3. CASE Handlers
      <4>1. ASSUME NEW f \in Files, Keep(f) \/ Skip(f) PROVE \A g \in Files : ~Waits(g)'
        BY <3>1, <4>1 DEF Keep, Skip, SetStatus, PInv, IInv, TypeOK
      <4>2. ASSUME NEW f \in Files, AdminCancel(f) PROVE \A g \in Files : ~Waits(g)'
        BY <3>1, <4>2 DEF AdminCancel, CancelUpload, PInv, IInv, TypeOK
      <4>3. ~AdminRetry /\ \A f \in Files : ~SelectFolder(f)
        BY <1>2 DEF AdminRetry, SelectFolder, StartWorker
      <4> QED
        BY <3>3, <4>1, <4>2, <4>3 DEF Handlers
    <3> QED
      BY <2>1, <3>2, <3>3 DEF Next
  <2>3. CASE proc # "up"
    BY <2>1, <2>3 DEF Next, Handlers, Keep, Skip, SelectFolder, AdminCancel, AdminRetry,
       Clock, RetryDue, vars
  <2> QED
    BY <2>2, <2>3
<1> QED
  BY <1>1, <1>2

(* Ready, uploading, cancelled and recorded rows against the worker, at    *)
(* every point where a handler or a crash may come.                        *)
THEOREM PromiseInvariance == Spec => []PInv
<1>1. PInv /\ IInv' /\ [Next]_vars => PInv'
  BY BudgetStep, OnTimeStep, NoneDeferredStep, CopyIsKeptStep, UploadingIsCurrentStep,
     ReadyHasWorkerStep DEF PInv
<1> QED
  BY InitPInv, <1>1, Invariance, PTL DEF Spec

(* Until a stale tap no file is lost: it is on the disk, on Drive, or was  *)
(* given up, whatever crashes and failures interrupt its upload.           *)
THEOREM CopiesAreKept == Spec => []CopyIsKept
BY PromiseInvariance, PTL DEF PInv

(* Until a crash the worker is the only one to keep a row uploading. *)
THEOREM UploadingRowsAreCurrent == Spec => []UploadingIsCurrent
BY PromiseInvariance, PTL DEF PInv

(* A row that is ready has a worker that will look at it. *)
THEOREM ReadyRowsHaveWorker == Spec => []ReadyHasWorker
BY PromiseInvariance, PTL DEF PInv

-----------------------------------------------------------------------------
(* Action properties. *)

(* A task that ends by itself leaves nothing that it could have uploaded. *)
THEOREM TaskDrains == Spec => DrainsBeforeExit
<1> DEFINE Ends == /\ Spared({"stale", "oserror"})'
                   /\ pc # "idle" /\ pc' = "idle" /\ proc = "up" /\ proc' = "up"
<1>1. PInv /\ [Next]_vars => (Ends => Eligible' = {})
  BY TaskEndsDrained DEF Eligible
<1> QED
  BY <1>1, PromiseInvariance, PTL DEF Spec, DrainsBeforeExit

(* What a step does to the status of a row, until a stale tap. *)
LEMMA TerminalStep ==
  ASSUME PInv, [Next]_vars, Spared({"stale"})',
         NEW f \in Files, status[f] \in TerminalStates
  PROVE  status'[f] = status[f]
<1> USE DEF PInv, IInv, TypeOK, ControlOK, CurrentOK, Busy, SetStatus, TerminalStates, db
<1>1. ASSUME NEW g \in Files, Keep(g) \/ Skip(g) \/ SelectFolder(g)
      PROVE  status'[f] = status[f]
  <2>1. status[g] \in {"awaiting_rename", "awaiting_folder"}
    BY <1>1, TapOnTime DEF Keep, Skip, SelectFolder
  <2> QED
    BY <1>1, <2>1 DEF Keep, Skip, SelectFolder
<1>2. CASE AdminRetry \/ \E g \in Files : AdminCancel(g)
  BY <1>2 DEF AdminCancel, CancelUpload, AdminRetry, Requeue, RetryEligible
<1>3. CASE WorkerStep
  <2>1. CASE PersistUploaded \/ ScheduleRetry \/ FailPermanently
    <3>1. PICK s \in JobStates : Settling(s) /\ SetStatus(current, s)
      BY <2>1 DEF PersistUploaded, ScheduleRetry, FailPermanently, JobStates
    <3>2. CanTransition(status[current], s) /\ current \in Files
      BY <3>1 DEF Settling, ThreadDone
    <3>3. status[current] \notin TerminalStates
      BY <3>2 DEF CanTransition, ValidTransitions, JobStates, TerminalStates
    <3> QED
      BY <3>1, <3>2, <3>3
  <2>2. CASE MarkCancelled
    BY <2>2 DEF MarkCancelled, CancelUpload
  <2>3. CASE MissingLocalFile \/ Complete
    BY <2>3 DEF MissingLocalFile, Complete
  <2>4. ASSUME NEW g \in Files, PickFinalize(g) \/ Claim(g) PROVE status'[f] = status[f]
    BY <2>4 DEF PickFinalize, Claim, NextToFinalize, ShouldStartUpload
  <2>5. CASE Begin \/ Drain \/ BeginTransfer \/ TransitionRejected \/ CleanUp \/ CleanUpFails
    BY <2>5 DEF Begin, Drain, BeginTransfer, TransitionRejected, CleanUp, CleanUpFails
  <2> QED
    BY <1>3, <2>1, <2>2, <2>3, <2>4, <2>5 DEF WorkerStep
<1>4. CASE Failure
  BY <1>4 DEF Failure, Crash, CrashInAdminRetry, Requeue, RetryEligible
<1>5. CASE ThreadStep \/ Boot \/ Clock \/ UNCHANGED vars
  BY <1>5 DEF ThreadStep, ThreadCreates, ThreadReads, ThreadRaises, Boot, Restart,
     RecoveryDone, LifecycleStart, Clock, RetryDue, vars
<1> QED
  BY <1>1, <1>2, <1>3, <1>4, <1>5 DEF Next, Handlers

(* Until a stale tap a completed, cancelled or skipped job stays so. *)
THEOREM TerminalJobsStay == Spec => TerminalIsFinal
<1> DEFINE Stays == \A f \in Files : status[f] \in TerminalStates => status'[f] = status[f]
<1>1. PInv /\ [Next]_vars => (Spared({"stale"})' => Stays)
  BY TerminalStep
<1> QED
  BY <1>1, PromiseInvariance, PTL DEF Spec, TerminalIsFinal

-----------------------------------------------------------------------------
(* The refinement. *)

LEMMA PhaseOf ==
  ASSUME NEW s \in JobStates
  PROVE  /\ s \in {"failed", "cancelled", "skipped"} => Phase(s) = s
         /\ s = "uploaded" => Phase(s) = "stored"
         /\ s = "completed" => Phase(s) = "done"
         /\ s \notin {"failed", "cancelled", "skipped", "uploaded", "completed"}
              => Phase(s) = "waiting"
         /\ Phase(s) \in Promise!Phases
BY DEF Phase, Promise!Phases

(* What one file may undergo in a step, in the terms of the worker. *)
Moves(f) ==
  /\ local'[f] => local[f]
  /\ \/ status'[f] = status[f] /\ (status[f] \in {"uploaded", "cancelled"} \/ local'[f] = local[f])
     \/ status'[f] = "cancelled" /\ status[f] \in {"ready_for_upload", "uploading"}
     \/ /\ local'[f] = local[f]
        /\ \/ status[f] = "uploading" /\ status'[f] = "uploaded" /\ local[f]
           \/ status[f] = "uploaded" /\ status'[f] = "completed" /\ ~local[f]
           \/ status[f] = "uploading" /\ status'[f] = "failed"
           \/ status[f] = "failed" /\ status'[f] = "ready_for_upload" /\ local[f]
           \/ status[f] = "awaiting_rename" /\ status'[f] = "skipped"
           \/ /\ status[f] \in {"awaiting_rename", "awaiting_folder", "ready_for_upload", "uploading"}
              /\ status'[f] \in {"awaiting_folder", "ready_for_upload", "uploading"}

LEMMA MovesKeepPromise ==
  ASSUME TypeOK, TypeOK', \A f \in Files : Moves(f)
  PROVE  Promise!Next
<1> DEFINE phase == [f \in Files |-> Phase(status[f])]
<1>1. \A f \in Files : status[f] \in JobStates /\ status'[f] \in JobStates
  BY DEF TypeOK
<1>2. phase' \in [Files -> Promise!Phases]
  BY <1>1, PhaseOf
<1>3. local' \in [Files -> BOOLEAN]
  BY DEF TypeOK
<1>4. ASSUME NEW f \in Files
      PROVE  /\ local'[f] => local[f]
             /\ \/ Promise!Store(f) \/ Promise!Finish(f) \/ Promise!Fail(f)
                \/ Promise!Resume(f) \/ Promise!Skip(f) \/ Promise!Cancel(f)
                \/ Promise!Discard(f) \/ Promise!Rests(f)
  <2>1. phase[f] = Phase(status[f]) /\ phase'[f] = Phase(status'[f])
    OBVIOUS
  <2> DEFINE s == status[f]
             t == status'[f]
  <2>2. /\ s \in {"failed", "cancelled", "skipped"} => phase[f] = s
        /\ s = "uploaded" => phase[f] = "stored"
        /\ s = "completed" => phase[f] = "done"
        /\ s \notin {"failed", "cancelled", "skipped", "uploaded", "completed"}
             => phase[f] = "waiting"
    BY <1>1, <2>1, PhaseOf
  <2>3. /\ t \in {"failed", "cancelled", "skipped"} => phase'[f] = t
        /\ t = "uploaded" => phase'[f] = "stored"
        /\ t = "completed" => phase'[f] = "done"
        /\ t \notin {"failed", "cancelled", "skipped", "uploaded", "completed"}
             => phase'[f] = "waiting"
    BY <1>1, <2>1, PhaseOf
  <2>4. s = t => phase'[f] = phase[f]
    BY <2>1
  <2>5. Moves(f)
    OBVIOUS
  <2> HIDE DEF phase
  <2>6. /\ local'[f] => local[f]
        /\ \/ phase'[f] = phase[f] /\ (phase[f] \in {"stored", "cancelled"} \/ local'[f] = local[f])
           \/ phase'[f] = "cancelled" /\ phase[f] = "waiting"
           \/ /\ local'[f] = local[f]
              /\ \/ phase[f] = "waiting" /\ phase'[f] = "stored" /\ local[f]
                 \/ phase[f] = "stored" /\ phase'[f] = "done" /\ ~local[f]
                 \/ phase[f] = "waiting" /\ phase'[f] = "failed"
                 \/ phase[f] = "failed" /\ phase'[f] = "waiting" /\ local[f]
                 \/ phase[f] = "waiting" /\ phase'[f] = "skipped"
    BY <2>2, <2>3, <2>4, <2>5 DEF Moves
  <2> QED
    BY <2>6 DEF phase, Promise!Store, Promise!Finish, Promise!Fail, Promise!Resume,
       Promise!Skip, Promise!Cancel, Promise!Discard, Promise!Rests, Promise!Goes,
       Promise!Keeps
<1> QED
  BY <1>2, <1>3, <1>4 DEF Promise!Next

(* Every step of the worker, the handlers and the crashes is such a move. *)
LEMMA StepsAreMoves ==
  ASSUME PInv, [Next]_vars, Spared({"stale"})'
  PROVE  \A f \in Files : Moves(f)
<1>1. Spared({"stale"})
  BY SparedBefore DEF PInv, Faults
<1>2. /\ pc \in {"claimed", "transfer"} => status[current] \in {"uploading", "cancelled"}
      /\ \A f \in cancelledIds : status[f] = "cancelled"
      /\ \A f \in Files : driveId[f] # 0 => status[f] \in {"uploaded", "completed"}
  BY <1>1 DEF PInv, OnTime
<1>3. \A f \in Files : local[f] \/ driveId[f] # 0 \/ status[f] = "cancelled"
  BY <1>1 DEF PInv, CopyIsKept
<1> USE <1>2, <1>3
    DEF PInv, IInv, TypeOK, ControlOK, CurrentOK, Busy, SetStatus, db, Moves
<1>4. ASSUME NEW g \in Files, Keep(g) \/ Skip(g) \/ SelectFolder(g)
      PROVE  \A f \in Files : Moves(f)
  <2>1. status[g] \in {"awaiting_rename", "awaiting_folder"} /\ (Skip(g) => status[g] = "awaiting_rename")
    BY <1>4, TapOnTime DEF Keep, Skip, SelectFolder
  <2> QED
    BY <1>4, <2>1 DEF Keep, Skip, SelectFolder
<1>5. ASSUME NEW g \in Files, AdminCancel(g) PROVE \A f \in Files : Moves(f)
  BY <1>5 DEF AdminCancel, CancelUpload, DeleteLocal, TerminalStates
<1>6. CASE AdminRetry
  BY <1>6 DEF AdminRetry, Requeue, RetryEligible
<1>7. CASE Failure
  BY <1>7 DEF Failure, Crash, CrashInAdminRetry, Requeue, RetryEligible
<1>8. CASE ThreadStep \/ Boot \/ Clock \/ UNCHANGED vars
  BY <1>8 DEF ThreadStep, ThreadCreates, ThreadReads, ThreadRaises, Boot, Restart,
     RecoveryDone, LifecycleStart, Clock, RetryDue, vars
<1>9. CASE WorkerStep
  <2>1. CASE Begin \/ Drain \/ BeginTransfer \/ TransitionRejected \/ CleanUpFails
    BY <2>1 DEF Begin, Drain, BeginTransfer, TransitionRejected, CleanUpFails
  <2>2. ASSUME NEW g \in Files, PickFinalize(g) \/ Claim(g) PROVE \A f \in Files : Moves(f)
    BY <2>2 DEF PickFinalize, Claim, NextToFinalize, NextReady, Eligible
  <2>3. CASE MissingLocalFile \/ ScheduleRetry \/ FailPermanently
    BY <2>3 DEF MissingLocalFile, ScheduleRetry, FailPermanently, Settling, ThreadDone,
       CancelRequested
  <2>4. CASE PersistUploaded
    BY <2>4 DEF PersistUploaded, Settling, ThreadDone, CancelRequested
  <2>5. CASE MarkCancelled
    BY <2>5 DEF MarkCancelled, CancelUpload, DeleteLocal, TerminalStates, ThreadDone
  <2>6. CASE CleanUp \/ Complete
    BY <2>6 DEF CleanUp, DeleteLocal, Complete
  <2> QED
    BY <1>9, <2>1, <2>2, <2>3, <2>4, <2>5, <2>6 DEF WorkerStep
<1> QED
  BY <1>4, <1>5, <1>6, <1>7, <1>8, <1>9 DEF Next, Handlers

LEMMA InitPromise == Init => Promise!Init
BY DEF Init, Promise!Init, Phase

(* The worker, with its thread, retries, crashes and recoveries, does to   *)
(* every file what UploadPromise says, as long as no tap comes too late.   *)
THEOREM WorkerKeepsPromise == Spec /\ []Spared({"stale"}) => PromiseKept
<1>1. PInv /\ PInv' /\ Spared({"stale"})' /\ [Next]_vars
        => [Promise!Next]_<<[f \in Files |-> Phase(status[f])], local>>
  BY StepsAreMoves, MovesKeepPromise DEF PInv, IInv
<1> QED
  BY InitPromise, <1>1, PromiseInvariance, PTL DEF Spec, PromiseKept, Promise!Spec

(* With no stale tap in the budget, as in UploadRetries, the implementation *)
(* is unconditional.                                                        *)
THEOREM WorkerImplementsPromise ==
  ASSUME Budget["stale"] = 0
  PROVE  Spec => PromiseKept
<1>1. PInv => Spared({"stale"})
  BY BudgetAssumption DEF PInv, IInv, TypeOK, BudgetKept, Spared, Faults
<1> QED
  BY <1>1, PromiseInvariance, WorkerKeepsPromise, PTL

-----------------------------------------------------------------------------
(* What the counterexample of UploadRecoveryGap comes down to. *)

(* Rows come to this worker downloaded, and only uploaded ones are put off. *)
RowsOK ==
  /\ \A f \in Files : status[f] # "downloading"
  /\ \A f \in deferred : status[f] # "uploading"

LEMMA RowsOKStep ==
  ASSUME IInv, RowsOK, [Next]_vars PROVE RowsOK'
<1> USE FilesAssumption DEF IInv, TypeOK, ControlOK, CurrentOK, Busy, RowsOK, db, task, SetStatus
<1>1. ASSUME NEW f \in Files, Keep(f) \/ Skip(f) \/ SelectFolder(f) \/ AdminCancel(f)
      PROVE  RowsOK'
  BY <1>1 DEF Keep, Skip, SelectFolder, AdminCancel, CancelUpload, StartWorker
<1>2. CASE AdminRetry
  BY <1>2 DEF AdminRetry, Requeue, StartWorker
<1>3. CASE Failure
  BY <1>3 DEF Failure, Crash, CrashInAdminRetry, Requeue, Dies, TaskEnds
<1>4. CASE ThreadStep \/ Clock \/ UNCHANGED vars
  BY <1>4 DEF ThreadStep, ThreadCreates, ThreadReads, ThreadRaises, Clock, RetryDue, vars
<1>5. CASE Boot
  BY <1>5 DEF Boot, Restart, RecoveryDone, LifecycleStart, TaskEnds, StartWorker
<1>6. CASE WorkerStep
  <2>1. ASSUME NEW f \in Files, PickFinalize(f) \/ Claim(f) PROVE RowsOK'
    BY <2>1 DEF PickFinalize, Claim, NextReady, Eligible
  <2>2. CASE Begin \/ Drain \/ BeginTransfer \/ TransitionRejected \/ CleanUp \/ CleanUpFails
    BY <2>2 DEF Begin, Drain, BeginTransfer, TransitionRejected, CleanUp, CleanUpFails,
       TaskEnds, NextJob
  <2>3. CASE MissingLocalFile \/ PersistUploaded \/ ScheduleRetry \/ FailPermanently \/ Complete
    BY <2>3 DEF MissingLocalFile, PersistUploaded, ScheduleRetry, FailPermanently, Complete,
       NextJob
  <2>4. CASE MarkCancelled
    BY <2>4 DEF MarkCancelled, CancelUpload, NextJob, TaskEnds
  <2> QED
    BY <1>6, <2>1, <2>2, <2>3, <2>4 DEF WorkerStep
<1> QED
  BY <1>1, <1>2, <1>3, <1>4, <1>5, <1>6 DEF Next, Handlers

(* When startup recovery ends, the policy of recovery_state is missed by   *)
(* the rows that were being sent without a recorded id, and by no others.  *)
THEOREM RecoveryMissesOnlyUnrecorded ==
  Spec => [][proc = "recovering" /\ proc' = "booting" =>
               \A f \in Files :
                 \/ status'[f] = RecoveryState(status'[f], driveId'[f] # 0)
                 \/ status'[f] = "uploading" /\ driveId'[f] = 0]_vars
<1> DEFINE Kept(f) == \/ status'[f] = RecoveryState(status'[f], driveId'[f] # 0)
                      \/ status'[f] = "uploading" /\ driveId'[f] = 0
           Recovered == proc = "recovering" /\ proc' = "booting" => \A f \in Files : Kept(f)
<1>1. Init => RowsOK
  BY DEF Init, RowsOK
<1>2. IInv /\ RowsOK /\ [Next]_vars => RowsOK'
  BY RowsOKStep
<1>3. IInv /\ RowsOK /\ [Next]_vars => Recovered
  <2> SUFFICES ASSUME IInv, RowsOK, [Next]_vars, proc = "recovering", proc' = "booting",
                      NEW f \in Files
               PROVE  Kept(f)
    OBVIOUS
  <2>1. RecoveryDone
    BY DEF Next, Handlers, Keep, Skip, SelectFolder, AdminCancel, AdminRetry, WorkerStep,
       Begin, Drain, BeginTransfer, MissingLocalFile, PickFinalize, Claim, PersistUploaded,
       ScheduleRetry, FailPermanently, TransitionRejected, MarkCancelled, CleanUp,
       CleanUpFails, Complete, ThreadStep, ThreadCreates, ThreadReads, ThreadRaises, Boot,
       Restart, LifecycleStart, Clock, RetryDue, Failure, Crash, CrashInAdminRetry, Dies, vars
  <2>2. status' = status /\ driveId' = driveId /\ NextToFinalize = {}
    BY <2>1 DEF RecoveryDone, db
  <2>3. ~(status[f] = "uploading" /\ driveId[f] # 0)
    BY <2>2 DEF NextToFinalize, RowsOK
  <2>4. status[f] # "downloading" /\ (status[f] = "uploaded" => driveId[f] # 0)
    BY DEF RowsOK, IInv, UploadedIsRecorded
  <2> QED
    BY <2>2, <2>3, <2>4 DEF RecoveryState
<1> QED
  BY <1>1, <1>2, <1>3, Invariance, PTL DEF Spec
=============================================================================
