------------------------- MODULE DownloadRowsProofs -------------------------
(***************************************************************************)
(* What DownloadQueue keeps consistent across its two tables, its memory   *)
(* and its queue: the rows of a file agree until a crash tears them, and   *)
(* the queue holds what it reports as queued until an administrator's      *)
(* retry.                                                                  *)
(***************************************************************************)
EXTENDS DownloadQueueProofs, FiniteSetTheorems

(* What is left of the budget only shrinks.                                *)
BudgetKept == \A fault \in Faults : left[fault] <= Budget[fault]

(* A job in memory has its row in files, and nothing but the record of the *)
(* acknowledged message exists before its job does.                        *)
RowsBeforeJobs ==
  /\ \A f \in Files : fileStatus[f] = "absent" =>
       dlStatus[f] = "absent" /\ dlRetries[f] = 0 /\ job[f] = "absent"
  /\ \A i \in 1 .. Len(commits) :
       commits[i].row = "downloads" => job[commits[i].file] # "absent"
  /\ \A i \in 1 .. Len(queue) : job[queue[i]] # "absent"
  /\ current \in Files => job[current] # "absent"
  /\ ack \in Files =>
       /\ job[ack] = "absent" /\ dlStatus[ack] = "absent" /\ dlRetries[ack] = 0
       /\ fileStatus[ack] = "absent" => commits = <<FileTo(ack, "received")>>

(* Where the worker is when it holds nothing, and when no attempt is left. *)
WorkerOK ==
  /\ pc \in {"unstarted", "wait", "dead"} => current = NoFile
  /\ proc # "up" => pc = "unstarted" /\ ack = NoFile
  /\ pc = "backoff" => attempts[current] <= RetryLimit

(* The worker is in the attempt loop of the file. *)
Attempting(f) == current = f /\ pc \in {"announce", "transfer", "stopping", "backoff"}

(* The row a file has once the commits of the running step are made; a     *)
(* step queues at most three.                                              *)
Writes(i, f, row) == i <= Len(commits) /\ commits[i].file = f /\ commits[i].row = row

Upto(i, f, row, s) == IF Writes(i, f, row) THEN commits[i].to ELSE s

FileEnd(f) == Upto(3, f, "files", Upto(2, f, "files", Upto(1, f, "files", fileStatus[f])))

DownloadEnd(f) ==
  Upto(3, f, "downloads", Upto(2, f, "downloads", Upto(1, f, "downloads", dlStatus[f])))

Agree(d, s) ==
  /\ d = "completed" <=> s = "awaiting_rename"
  /\ d = "failed" <=> s = "failed"
  /\ d = "cancelled" <=> s = "cancelled"
  /\ d = "queued" <=> s = "queued"

(* Without a crash every file that is not being attempted will have two    *)
(* rows that agree once the running step has made its commits.             *)
RowsWillAgree ==
  /\ Len(commits) <= 3
  /\ Spared({"crash"}) =>
       /\ proc = "up"
       /\ \A f \in Files : Attempting(f) \/ Agree(DownloadEnd(f), FileEnd(f))

InQueue(f) == \E i \in 1 .. Len(queue) : queue[i] = f

Distinct(q) == \A i, j \in 1 .. Len(q) : q[i] = q[j] => i = j

Live(f) == Attempting(f) \/ InQueue(f)

(* Without /retry_failed a job enters the queue once, unattempted, and a   *)
(* row that recovery may queue again has no attempt on its count.          *)
EnteredOnce ==
  /\ Distinct(queue)
  /\ \A f \in Files :
       /\ InQueue(f) => attempts[f] = 0 /\ f # current
       /\ job[f] = "queued" => InQueue(f)
       /\ dlStatus[f] \in Active \/ Live(f) => dlRetries[f] = 0
  /\ \A i \in 1 .. Len(commits) :
       (/\ commits[i].row = "downloads"
        /\ commits[i].to \in Active \/ Live(commits[i].file)) => commits[i].retries = 0

QueueOK == Spared({"retry"}) => EnteredOnce

RInv == /\ IInv
        /\ BudgetKept
        /\ RowsBeforeJobs
        /\ WorkerOK
        /\ RowsWillAgree
        /\ QueueOK

-----------------------------------------------------------------------------
(* The budget. *)

LEMMA SpendOnce ==
  ASSUME IInv, BudgetKept, NEW fault \in Faults, Spend(fault)
  PROVE  /\ BudgetKept'
         /\ left'[fault] # Budget[fault]
         /\ \A g \in Faults : left'[g] = Budget[g] => left[g] = Budget[g]
<1>1. left \in [Faults -> Nat] /\ Budget \in [Faults -> Nat]
  BY BudgetAssumption DEF IInv, TypeOK
<1>2. left[fault] \in Nat /\ Budget[fault] \in Nat /\ left[fault] <= Budget[fault]
  BY <1>1 DEF BudgetKept
<1>3. left'[fault] = left[fault] - 1 /\ \A g \in Faults \ {fault} : left'[g] = left[g]
  BY <1>1 DEF Spend
<1> QED
  BY <1>1, <1>2, <1>3 DEF BudgetKept

LEMMA BudgetStep ==
  ASSUME IInv, BudgetKept, [Next]_vars
  PROVE  /\ BudgetKept'
         /\ \A fault \in Faults : left'[fault] = Budget[fault] => left[fault] = Budget[fault]
<1>1. CASE \E fault \in Faults : Spend(fault)
  BY <1>1, SpendOnce
<1>2. CASE UNCHANGED left
  BY <1>2 DEF BudgetKept
<1>3. (\E fault \in Faults : Spend(fault)) \/ UNCHANGED left
  BY DEF Next, Commit, Handlers, Enqueue, AckFails, Receive, Cancel, AdminRetry, WorkerStep,
     StartQueue, Take, Resume, Announce, StopProgress, Complete, SettleCancelled, Fail,
     BackOff, Edited, CompleteEdited, Prompt, PromptFails, Progress, Flush, Transfer,
     TransferEnds, Crash, Boot, Restart, RecoveryDone, Recover, Faults, vars
<1> QED
  BY <1>1, <1>2, <1>3

LEMMA SparedBefore ==
  ASSUME IInv, BudgetKept, [Next]_vars, NEW faults \in SUBSET Faults, Spared(faults)'
  PROVE  Spared(faults)
BY BudgetStep DEF Spared

LEMMA Unspared ==
  ASSUME IInv, BudgetKept, NEW fault \in Faults, Spend(fault),
         NEW faults \in SUBSET Faults, fault \in faults
  PROVE  ~Spared(faults)'
BY SpendOnce DEF Spared

-----------------------------------------------------------------------------
(* The sequences: what a commit takes from the pending writes, and a job   *)
(* adds to the queue or takes from it.                                     *)

LEMMA CommitShifts ==
  ASSUME IInv, Commit
  PROVE  /\ Len(commits) > 0 /\ Len(commits') = Len(commits) - 1
         /\ Head(commits) = commits[1]
         /\ commits[1] \in RowWrites
         /\ \A i \in 1 .. Len(commits') : i + 1 \in 1 .. Len(commits) /\ commits'[i] = commits[i + 1]
<1>1. commits \in Seq(RowWrites) /\ commits # <<>> /\ commits' = Tail(commits)
  BY DEF IInv, TypeOK, Commit, RowWrites
<1>2. /\ Head(commits) = commits[1] /\ commits[1] \in RowWrites
      /\ Len(commits) > 0 /\ Len(Tail(commits)) = Len(commits) - 1
      /\ \A i \in 1 .. Len(Tail(commits)) : Tail(commits)[i] = commits[i + 1]
  BY <1>1
<1> QED
  BY <1>1, <1>2

LEMMA NewJobAppends ==
  ASSUME IInv, NEW f \in Files, NEW n, NewJob(f, n)
  PROVE  /\ Len(queue') = Len(queue) + 1 /\ queue'[Len(queue) + 1] = f
         /\ \A i \in 1 .. Len(queue) : queue'[i] = queue[i]
         /\ job'[f] = "queued" /\ attempts'[f] = n
         /\ \A g \in Files \ {f} : job'[g] = job[g] /\ attempts'[g] = attempts[g]
BY DEF IInv, TypeOK, NewJob

LEMMA TakeShifts ==
  ASSUME IInv, Take
  PROVE  /\ Len(queue) > 0 /\ Len(queue') = Len(queue) - 1
         /\ Head(queue) = queue[1] /\ queue[1] \in Files
         /\ \A i \in 1 .. Len(queue') : i + 1 \in 1 .. Len(queue) /\ queue'[i] = queue[i + 1]
<1>1. queue \in Seq(Files) /\ queue # <<>> /\ queue' = Tail(queue)
  BY DEF IInv, TypeOK, Take
<1> QED
  BY <1>1

LEMMA QueueOfFiles == IInv => \A i \in 1 .. Len(queue) : queue[i] \in Files
BY DEF IInv, TypeOK

(* The writes of the repository's two-table helpers. *)
LEMMA PairOfWrites ==
  ASSUME NEW f, NEW n
  PROVE  /\ Len(CancelWrites(f, n)) = 2
         /\ CancelWrites(f, n)[1] = DownloadTo(f, "cancelled", n)
         /\ CancelWrites(f, n)[2] = FileTo(f, "cancelled")
         /\ Len(RequeueWrites(f)) = 2
         /\ RequeueWrites(f)[1] = DownloadTo(f, "queued", dlRetries[f])
         /\ RequeueWrites(f)[2] = FileTo(f, "queued")
BY DEF CancelWrites, RequeueWrites

LEMMA CancelWritesOneFile ==
  ASSUME NEW f, NEW n
  PROVE  \A i \in 1 .. Len(CancelWrites(f, n)) :
           LET w == CancelWrites(f, n)[i]
           IN  w.file = f /\ (w.row = "downloads" => w.to = "cancelled" /\ w.retries = n)
BY DEF CancelWrites, FileTo, DownloadTo

LEMMA RequeueWritesOneFile ==
  ASSUME NEW f
  PROVE  \A i \in 1 .. Len(RequeueWrites(f)) :
           LET w == RequeueWrites(f)[i]
           IN  w.file = f /\ (w.row = "downloads" => w.to = "queued" /\ w.retries = dlRetries[f])
BY DEF RequeueWrites, FileTo, DownloadTo

(* The head of the attempt loop drops the job, cancels it or attempts it.  *)
LEMMA LoopHeadCases ==
  ASSUME IInv, NEW f \in Files, LoopHead(f)
  PROVE  \/ /\ attempts[f] > RetryLimit
            /\ pc' = "wait" /\ current' = NoFile
            /\ UNCHANGED <<job, attempts, commits>>
         \/ /\ job' = [job EXCEPT ![f] = "cancelled"]
            /\ commits' = CancelWrites(f, attempts[f])
            /\ pc' = "edit" /\ current' = f
            /\ UNCHANGED attempts
         \/ /\ attempts[f] <= RetryLimit
            /\ job' = [job EXCEPT ![f] = "running"]
            /\ attempts' = [attempts EXCEPT ![f] = @ + 1]
            /\ commits' = <<FileTo(f, "downloading")>>
            /\ pc' = "announce" /\ current' = f
BY DEF LoopHead, Rest

-----------------------------------------------------------------------------
(* Rows and jobs. *)

RowsOK == IInv /\ RowsBeforeJobs /\ WorkerOK

LEMMA CommitRowsOK ==
  ASSUME RowsOK, Commit PROVE RowsBeforeJobs' /\ WorkerOK'
<1>1. UNCHANGED <<chat, proc, jobs, worker, left>>
  BY DEF Commit
<1>2. WorkerOK'
  BY <1>1 DEF WorkerOK, RowsOK, chat, jobs, worker
<1>3. PICK w : w = commits[1] /\ w \in RowWrites /\ w = Head(commits)
  BY CommitShifts DEF RowsOK
<1>4. \A i \in 1 .. Len(commits') :
        commits'[i].row = "downloads" => job'[commits'[i].file] # "absent"
  BY <1>1, CommitShifts DEF RowsOK, RowsBeforeJobs, jobs
<1>5. CASE w.row = "files"
  <2>1. w.file \in Files /\ w.to \in JobStates /\ w.to # "absent"
    BY <1>3, <1>5 DEF RowWrites, FileWrites, DownloadWrites, JobStates
  <2>2. /\ fileStatus' = [fileStatus EXCEPT ![w.file] = w.to]
        /\ UNCHANGED <<dlStatus, dlRetries>>
    BY <1>3, <1>5 DEF Commit
  <2>3. \A f \in Files : fileStatus'[f] = "absent" => fileStatus[f] = "absent"
    BY <2>1, <2>2 DEF RowsOK, IInv, TypeOK
  <2>4. ack \in Files => fileStatus'[ack] # "absent"
    <3>1. CASE ack \in Files /\ fileStatus[ack] = "absent"
      <4>1. commits = <<FileTo(ack, "received")>>
        BY <3>1 DEF RowsOK, RowsBeforeJobs
      <4>2. w.file = ack
        BY <1>3, <4>1 DEF FileTo
      <4> QED
        BY <2>1, <2>2, <4>2 DEF RowsOK, IInv, TypeOK
    <3> QED
      BY <2>3, <3>1
  <2> QED
    BY <1>1, <1>2, <1>4, <2>2, <2>3, <2>4 DEF RowsOK, RowsBeforeJobs, chat, jobs, worker
<1>6. CASE w.row # "files"
  <2>1. w.file \in Files /\ w.row = "downloads"
    BY <1>3, <1>6 DEF RowWrites, FileWrites, DownloadWrites
  <2>2. /\ dlStatus' = [dlStatus EXCEPT ![w.file] = w.to]
        /\ dlRetries' = [dlRetries EXCEPT ![w.file] = w.retries]
        /\ UNCHANGED fileStatus
    BY <1>3, <1>6 DEF Commit
  <2>3. job[w.file] # "absent"
    BY <1>3, <2>1, CommitShifts DEF RowsOK, RowsBeforeJobs
  <2>4. \A f \in Files : f # w.file => dlStatus'[f] = dlStatus[f] /\ dlRetries'[f] = dlRetries[f]
    BY <2>2 DEF RowsOK, IInv, TypeOK
  <2>5. ack \in Files => fileStatus[ack] # "absent"
    BY <1>3, <2>1 DEF RowsOK, RowsBeforeJobs, FileTo
  <2> QED
    BY <1>1, <1>2, <1>4, <2>2, <2>3, <2>4, <2>5 DEF RowsOK, RowsBeforeJobs, chat, jobs, worker
<1> QED
  BY <1>5, <1>6

(* A new job: enqueued, retried or recovered.                              *)
LEMMA NewJobRowsOK ==
  ASSUME RowsOK, NEW f \in Files, NEW n \in 0 .. RetryLimit + 1, NewJob(f, n),
         UNCHANGED <<db, proc, worker>>, ack' \in {ack, NoFile},
         ack' # f, proc # "up" => ack' = NoFile, pc = "backoff" => n <= RetryLimit,
         ack' # NoFile => fileStatus[ack'] # "absent",
         fileStatus[f] # "absent",
         \A i \in 1 .. Len(commits') : commits'[i].file = f
  PROVE  RowsBeforeJobs' /\ WorkerOK'
<1> USE FilesAssumption, LimitAssumption
    DEF RowsOK, RowsBeforeJobs, WorkerOK, db, worker
<1>1. \A g \in Files : job'[g] = "absent" <=> g # f /\ job[g] = "absent"
  BY NewJobAppends
<1>2. \A i \in 1 .. Len(queue') : job'[queue'[i]] # "absent"
  <2>1. \A i \in 1 .. Len(queue) : queue'[i] = queue[i] /\ queue[i] \in Files
    BY NewJobAppends, QueueOfFiles
  <2>2. Len(queue') = Len(queue) + 1 /\ queue'[Len(queue) + 1] = f /\ Len(queue) \in Nat
    BY NewJobAppends DEF IInv, TypeOK
  <2> QED
    BY <1>1, <2>1, <2>2
<1>3. pc = "backoff" => attempts'[current] <= RetryLimit
  <2>1. SUFFICES ASSUME pc = "backoff", current \in Files PROVE attempts'[current] <= RetryLimit
    BY DEF IInv, HoldsJob
  <2>2. CASE current = f
    BY <2>1, <2>2, NewJobAppends
  <2> QED
    BY <2>1, <2>2, NewJobAppends
<1> QED
  BY <1>1, <1>2, <1>3 DEF IInv, TypeOK

LEMMA HandlersRowsOK ==
  ASSUME RowsOK, Handlers PROVE RowsBeforeJobs' /\ WorkerOK'
<1> USE FilesAssumption, LimitAssumption DEF RowsOK
<1>1. CASE Enqueue
  <2>1. ack \in Files /\ fileStatus[ack] # "absent"
    <3>1. ack \in Files
      BY <1>1 DEF Enqueue, IInv, TypeOK
    <3> QED
      BY <1>1, <3>1 DEF Enqueue, LoopFree, RowsBeforeJobs
  <2>2. \A i \in 1 .. Len(commits') : commits'[i].file = ack
    BY <1>1 DEF Enqueue, FileTo, DownloadTo
  <2> QED
    BY <1>1, <2>1, <2>2, NewJobRowsOK DEF Enqueue, db
<1>2. CASE AckFails
  BY <1>2 DEF AckFails, RowsBeforeJobs, WorkerOK, db, jobs, worker
<1>3. ASSUME NEW f \in Files, Receive(f) PROVE RowsBeforeJobs' /\ WorkerOK'
  <2>1. fileStatus[f] = "absent" /\ commits' = <<FileTo(f, "received")>> /\ ack' = f
    BY <1>3 DEF Receive
  <2>2. Len(commits') = 1 /\ commits'[1].row = "files"
    BY <2>1 DEF FileTo
  <2> QED
    BY <1>3, <2>1, <2>2 DEF Receive, HandlerFree, RowsBeforeJobs, WorkerOK, db, jobs, worker
<1>4. ASSUME NEW f \in Files, Cancel(f) PROVE RowsBeforeJobs' /\ WorkerOK'
  <2>1. \A g \in Files : job'[g] = "absent" <=> job[g] = "absent"
    BY <1>4 DEF Cancel, IInv, TypeOK
  <2>2. \A i \in 1 .. Len(commits') : commits'[i].file = f
    BY <1>4, CancelWritesOneFile DEF Cancel
  <2>3. job'[f] # "absent" /\ \A i \in 1 .. Len(queue) : queue[i] \in Files
    BY <1>4, <2>1, QueueOfFiles DEF Cancel
  <2> QED
    BY <1>4, <2>1, <2>2, <2>3 DEF Cancel, HandlerFree, RowsBeforeJobs, WorkerOK, db, chat,
       worker
<1>5. ASSUME NEW f \in Files, AdminRetry(f) PROVE RowsBeforeJobs' /\ WorkerOK'
  <2>1. \A i \in 1 .. Len(commits') : commits'[i].file = f
    BY <1>5, RequeueWritesOneFile DEF AdminRetry
  <2>2. fileStatus[f] # "absent" /\ ack = NoFile /\ ack' = ack /\ proc = "up"
    BY <1>5 DEF AdminRetry, HandlerFree, chat
  <2> QED
    BY <1>5, <2>1, <2>2, NewJobRowsOK DEF AdminRetry, db
<1> QED
  BY <1>1, <1>2, <1>3, <1>4, <1>5 DEF Handlers

LEMMA LoopHeadRowsOK ==
  ASSUME RowsOK, NEW f \in Files, job[f] # "absent", LoopHead(f), commits = <<>>,
         proc = "up", UNCHANGED <<db, chat, proc>>, Take \/ (Resume /\ f = current)
  PROVE  RowsBeforeJobs' /\ WorkerOK'
<1> USE FilesAssumption DEF RowsOK
<1>1. \A g \in Files : job'[g] = "absent" <=> job[g] = "absent"
  BY LoopHeadCases DEF IInv, TypeOK
<1>2. \A i \in 1 .. Len(commits') : commits'[i].file = f
  BY LoopHeadCases, CancelWritesOneFile DEF FileTo
<1>3. \A i \in 1 .. Len(queue') : job'[queue'[i]] # "absent"
  <2>1. CASE Take
    BY <1>1, <2>1, TakeShifts, QueueOfFiles DEF RowsBeforeJobs
  <2>2. CASE Resume
    BY <1>1, <2>2, QueueOfFiles DEF Resume, RowsBeforeJobs
  <2> QED
    BY <2>1, <2>2
<1>4. /\ current' \in {f, NoFile} /\ pc' \in {"wait", "edit", "announce"}
      /\ pc' = "wait" => current' = NoFile
  BY LoopHeadCases
<1> QED
  BY <1>1, <1>2, <1>3, <1>4 DEF RowsBeforeJobs, WorkerOK, db, chat

(* The worker queues writes of the file it holds only.                     *)
LEMMA HeldRowsOK ==
  ASSUME RowsOK, Complete \/ SettleCancelled \/ Fail \/ Flush
  PROVE  RowsBeforeJobs' /\ WorkerOK'
<1> USE FilesAssumption DEF RowsOK
<1>1. current \in Files /\ job[current] # "absent"
  BY DEF Complete, SettleCancelled, Fail, Flush, IInv, HoldsJob, RowsBeforeJobs
<1>2. \A g \in Files : job'[g] = "absent" <=> job[g] = "absent"
  BY <1>1 DEF Complete, SettleCancelled, Fail, Flush, IInv, TypeOK, jobs
<1>3. \A i \in 1 .. Len(commits') : commits'[i].file = current
  <2>1. CASE SettleCancelled
    BY <2>1, CancelWritesOneFile DEF SettleCancelled
  <2>2. CASE Complete \/ Fail \/ Flush
    BY <2>2 DEF Complete, Fail, Flush, FileTo, DownloadTo
  <2> QED
    BY <2>1, <2>2
<1>4. \A i \in 1 .. Len(queue) : queue[i] \in Files
  BY QueueOfFiles
<1>5. /\ UNCHANGED <<db, chat, proc, attempts, queue, current>>
      /\ proc = "up" /\ (ack \in Files => fileStatus[ack] # "absent")
      /\ pc' \notin {"unstarted", "wait", "dead", "backoff"}
  BY DEF Complete, SettleCancelled, Fail, Flush, jobs, LoopFree, RowsBeforeJobs, WorkerOK
<1> QED
  BY <1>1, <1>2, <1>3, <1>4, <1>5 DEF RowsBeforeJobs, WorkerOK, db, chat

LEMMA QuietRowsOK ==
  ASSUME RowsOK,
         \/ StartQueue \/ Announce \/ StopProgress \/ BackOff \/ Edited \/ CompleteEdited
         \/ Prompt \/ PromptFails \/ Progress \/ Transfer \/ Restart \/ RecoveryDone
         \/ UNCHANGED vars
  PROVE  RowsBeforeJobs' /\ WorkerOK'
<1>1. /\ UNCHANGED <<db, ack, jobs, commits>>
      /\ current' \in {current, NoFile}
  BY DEF StartQueue, Announce, StopProgress, BackOff, Edited, CompleteEdited, Prompt,
     PromptFails, Progress, Transfer, TransferEnds, Restart, RecoveryDone, Rest, chat, jobs,
     worker, vars
<1>2. RowsBeforeJobs'
  BY <1>1, FilesAssumption DEF RowsOK, RowsBeforeJobs, db, jobs
<1>3. WorkerOK'
  BY DEF RowsOK, WorkerOK, StartQueue, Announce, StopProgress, BackOff, Edited,
     CompleteEdited, Prompt, PromptFails, Progress, Transfer, TransferEnds, Restart,
     RecoveryDone, Rest, chat, jobs, worker, vars
<1> QED
  BY <1>2, <1>3

LEMMA RowsStep ==
  ASSUME RowsOK, [Next]_vars PROVE RowsBeforeJobs' /\ WorkerOK'
<1>1. CASE Take
  <2>1. queue[1] \in Files /\ job[queue[1]] # "absent" /\ LoopHead(queue[1])
    BY <1>1, TakeShifts DEF RowsOK, RowsBeforeJobs, Take
  <2>2. commits = <<>> /\ proc = "up" /\ UNCHANGED <<db, chat, proc>>
    BY <1>1 DEF Take, LoopFree, RowsOK, WorkerOK
  <2> QED
    BY <1>1, <2>1, <2>2, LoopHeadRowsOK
<1>2. CASE Resume
  <2>1. current \in Files /\ job[current] # "absent" /\ LoopHead(current)
    BY <1>2 DEF RowsOK, IInv, HoldsJob, RowsBeforeJobs, Resume
  <2>2. commits = <<>> /\ proc = "up" /\ UNCHANGED <<db, chat, proc>>
    BY <1>2 DEF Resume, LoopFree, RowsOK, WorkerOK
  <2> QED
    BY <1>2, <2>1, <2>2, LoopHeadRowsOK
<1>3. CASE Crash
  BY <1>3, FilesAssumption DEF Crash, RowsOK, RowsBeforeJobs, WorkerOK, db
<1>4. ASSUME NEW f \in Files, Recover(f) PROVE RowsBeforeJobs' /\ WorkerOK'
  <2>1. /\ f \in Interrupted /\ NewJob(f, dlRetries[f]) /\ commits' = RequeueWrites(f)
        /\ UNCHANGED <<db, chat, proc, worker>> /\ proc = "recovering"
    BY <1>4 DEF Recover
  <2>2. dlRetries[f] \in 0 .. RetryLimit + 1 /\ \A i \in 1 .. Len(commits') : commits'[i].file = f
    BY <2>1, CountsInRange, RequeueWritesOneFile DEF RowsOK
  <2>3. fileStatus[f] # "absent"
    BY <2>1 DEF Interrupted, Active, RowsOK, RowsBeforeJobs
  <2>4. ack = NoFile /\ pc = "unstarted"
    BY <2>1 DEF RowsOK, WorkerOK
  <2> QED
    BY <2>1, <2>2, <2>3, <2>4, NewJobRowsOK, FilesAssumption DEF chat
<1> QED
  BY <1>1, <1>2, <1>3, <1>4, CommitRowsOK, HandlersRowsOK, HeldRowsOK, QuietRowsOK
     DEF Next, WorkerStep, Boot

-----------------------------------------------------------------------------
(* The two tables.  A commit changes neither end, and where a step ends a  *)
(* file is read off the writes it queues.                                  *)

LEMMA EndsNow ==
  ASSUME commits = <<>>
  PROVE  \A g : FileEnd(g) = fileStatus[g] /\ DownloadEnd(g) = dlStatus[g]
BY DEF FileEnd, DownloadEnd, Upto, Writes

LEMMA EndsKept ==
  ASSUME commits = <<>>, commits' = <<>>, UNCHANGED <<fileStatus, dlStatus>>
  PROVE  \A g : FileEnd(g)' = FileEnd(g) /\ DownloadEnd(g)' = DownloadEnd(g)
BY DEF FileEnd, DownloadEnd, Upto, Writes

LEMMA EndsOfOne ==
  ASSUME commits = <<>>, NEW w, commits' = <<w>>, UNCHANGED <<fileStatus, dlStatus>>
  PROVE  \A g : /\ w.file # g => FileEnd(g)' = FileEnd(g) /\ DownloadEnd(g)' = DownloadEnd(g)
                /\ w.file = g /\ w.row = "files" => FileEnd(g)' = w.to /\ DownloadEnd(g)' = DownloadEnd(g)
<1>1. Len(commits') = 1 /\ commits'[1] = w
  OBVIOUS
<1> QED
  BY <1>1, EndsNow DEF FileEnd, DownloadEnd, Upto, Writes

LEMMA EndsOfPair ==
  ASSUME commits = <<>>, UNCHANGED <<fileStatus, dlStatus>>, NEW f, NEW s, NEW d, NEW n,
         \/ commits' = <<FileTo(f, s), DownloadTo(f, d, n)>>
         \/ commits' = <<DownloadTo(f, d, n), FileTo(f, s)>>
  PROVE  /\ Len(commits') = 2
         /\ FileEnd(f)' = s /\ DownloadEnd(f)' = d
         /\ \A g : g # f => FileEnd(g)' = FileEnd(g) /\ DownloadEnd(g)' = DownloadEnd(g)
<1>1. /\ FileTo(f, s).file = f /\ FileTo(f, s).row = "files" /\ FileTo(f, s).to = s
      /\ DownloadTo(f, d, n).file = f /\ DownloadTo(f, d, n).row = "downloads"
      /\ DownloadTo(f, d, n).to = d
  BY DEF FileTo, DownloadTo
<1>2. /\ Len(commits') = 2
      /\ \/ commits'[1] = FileTo(f, s) /\ commits'[2] = DownloadTo(f, d, n)
         \/ commits'[1] = DownloadTo(f, d, n) /\ commits'[2] = FileTo(f, s)
  OBVIOUS
<1> QED
  BY <1>1, <1>2, EndsNow DEF FileEnd, DownloadEnd, Upto, Writes

LEMMA EndsOfComplete ==
  ASSUME commits = <<>>, UNCHANGED <<fileStatus, dlStatus>>, NEW f, NEW n,
         commits' = <<DownloadTo(f, "completed", n), FileTo(f, "downloaded"),
                      FileTo(f, "awaiting_rename")>>
  PROVE  /\ Len(commits') = 3
         /\ FileEnd(f)' = "awaiting_rename" /\ DownloadEnd(f)' = "completed"
         /\ \A g : g # f => FileEnd(g)' = FileEnd(g) /\ DownloadEnd(g)' = DownloadEnd(g)
<1>1. /\ FileTo(f, "downloaded").file = f /\ FileTo(f, "downloaded").row = "files"
      /\ FileTo(f, "awaiting_rename").file = f /\ FileTo(f, "awaiting_rename").row = "files"
      /\ FileTo(f, "awaiting_rename").to = "awaiting_rename"
      /\ DownloadTo(f, "completed", n).file = f /\ DownloadTo(f, "completed", n).row = "downloads"
      /\ DownloadTo(f, "completed", n).to = "completed"
  BY DEF FileTo, DownloadTo
<1>2. /\ Len(commits') = 3
      /\ commits'[1] = DownloadTo(f, "completed", n)
      /\ commits'[2] = FileTo(f, "downloaded")
      /\ commits'[3] = FileTo(f, "awaiting_rename")
  OBVIOUS
<1> QED
  BY <1>1, <1>2, EndsNow DEF FileEnd, DownloadEnd, Upto, Writes

LEMMA EndsOfCommit ==
  ASSUME IInv, Len(commits) <= 3, Commit, NEW g \in Files
  PROVE  FileEnd(g)' = FileEnd(g) /\ DownloadEnd(g)' = DownloadEnd(g)
<1> DEFINE w == commits[1]
<1>1. /\ Len(commits) \in 1 .. 3 /\ Len(commits') = Len(commits) - 1
      /\ \A i \in 1 .. Len(commits') : commits'[i] = commits[i + 1]
  <2>1. Len(commits) \in Nat
    BY DEF IInv, TypeOK
  <2> QED
    BY <2>1, CommitShifts
<1>2. /\ \A row : Writes(1, g, row)' <=> Writes(2, g, row)
      /\ \A row : Writes(2, g, row)' <=> Writes(3, g, row)
      /\ \A row : ~Writes(3, g, row)'
      /\ \A row : Writes(2, g, row) => commits'[1] = commits[2]
      /\ \A row : Writes(3, g, row) => commits'[2] = commits[3]
  BY <1>1 DEF Writes
<1>3. /\ w \in RowWrites /\ w = Head(commits)
      /\ w.file \in Files /\ (w.row = "files" \/ w.row = "downloads")
  BY CommitShifts DEF RowWrites, FileWrites, DownloadWrites
<1>4. fileStatus'[g] = Upto(1, g, "files", fileStatus[g])
  BY <1>1, <1>3 DEF Commit, Upto, Writes, IInv, TypeOK
<1>5. dlStatus'[g] = Upto(1, g, "downloads", dlStatus[g])
  BY <1>1, <1>3 DEF Commit, Upto, Writes, IInv, TypeOK
<1> HIDE DEF w
<1> QED
  BY <1>2, <1>4, <1>5 DEF FileEnd, DownloadEnd, Upto

LEMMA FewWrites ==
  ASSUME IInv, Len(commits) <= 3, [Next]_vars PROVE Len(commits') <= 3
<1>0. ASSUME NEW f, NEW n, commits' = CancelWrites(f, n) \/ commits' = RequeueWrites(f)
      PROVE  Len(commits') <= 3
  <2>1. Len(commits') = 2
    BY <1>0, PairOfWrites
  <2> QED
    BY <2>1
<1>1. CASE Commit
  <2>1. Len(commits) \in Nat
    BY DEF IInv, TypeOK
  <2> QED
    BY <1>1, <2>1, CommitShifts
<1>2. CASE Take \/ Resume
  <2>1. PICK f \in Files : LoopHead(f)
    <3>1. CASE Take
      BY <3>1, TakeShifts DEF Take
    <3>2. CASE Resume
      BY <3>2 DEF Resume, IInv, HoldsJob
    <3> QED
      BY <1>2, <3>1, <3>2
  <2>2. CASE UNCHANGED commits
    BY <2>2
  <2>3. CASE commits' = CancelWrites(f, attempts[f])
    BY <1>0, <2>3
  <2>4. CASE commits' = <<FileTo(f, "downloading")>>
    BY <2>4
  <2> QED
    BY <2>1, <2>2, <2>3, <2>4, LoopHeadCases
<1>4. CASE WorkerStep /\ ~Take /\ ~Resume
  <2>1. CASE Complete
    BY <2>1 DEF Complete
  <2>2. CASE SettleCancelled
    BY <1>0, <2>2 DEF SettleCancelled
  <2>3. CASE Fail
    BY <2>3 DEF Fail
  <2>4. CASE UNCHANGED commits
    BY <2>4
  <2> QED
    BY <1>4, <2>1, <2>2, <2>3, <2>4 DEF WorkerStep, StartQueue, Announce, StopProgress,
       BackOff, Edited, CompleteEdited, Prompt, PromptFails
<1>5. CASE Enqueue
  BY <1>5 DEF Enqueue
<1>6. ASSUME NEW f \in Files, Receive(f) PROVE Len(commits') <= 3
  BY <1>6 DEF Receive
<1>7. ASSUME NEW f \in Files, Cancel(f) PROVE Len(commits') <= 3
  <2>1. commits' = <<>> \/ commits' = CancelWrites(f, dlRetries[f])
    BY <1>7 DEF Cancel
  <2> QED
    BY <1>0, <2>1
<1>8. ASSUME NEW f \in Files, AdminRetry(f) \/ Recover(f) PROVE Len(commits') <= 3
  BY <1>0, <1>8 DEF AdminRetry, Recover
<1>9. CASE Flush
  BY <1>9 DEF Flush
<1>10. CASE Crash
  BY <1>10 DEF Crash
<1>11. CASE AckFails \/ Progress \/ Transfer \/ Restart \/ RecoveryDone \/ UNCHANGED vars
  BY <1>11 DEF AckFails, Progress, Transfer, TransferEnds, Restart, RecoveryDone, vars
<1> QED
  BY <1>1, <1>2, <1>4, <1>5, <1>6, <1>7, <1>8, <1>9, <1>10, <1>11
     DEF Next, Handlers, Boot

LEMMA RowsAgreeStep ==
  ASSUME RInv, [Next]_vars PROVE RowsWillAgree'
<1> DEFINE Good(f) == Attempting(f) \/ Agree(DownloadEnd(f), FileEnd(f))
<1>1. Len(commits') <= 3
  BY FewWrites DEF RInv, RowsWillAgree
<1> SUFFICES ASSUME Spared({"crash"})' PROVE proc' = "up" /\ \A f \in Files : Good(f)'
  BY <1>1 DEF RowsWillAgree
<1>2. proc = "up" /\ \A f \in Files : Good(f)
  BY SparedBefore DEF RInv, RowsWillAgree, Faults
<1>3. proc' = "up" /\ ~Crash /\ ~Boot
  <2>1. ~Crash
    BY Unspared DEF Crash, RInv, Faults
  <2>2. ~Boot
    BY <1>2 DEF Boot, Restart, RecoveryDone, Recover
  <2> QED
    BY <1>2, <2>1, <2>2 DEF Next, Commit, Handlers, Enqueue, AckFails, Receive, Cancel,
       AdminRetry, WorkerStep, StartQueue, Take, Resume, Announce, StopProgress, Complete,
       SettleCancelled, Fail, BackOff, Edited, CompleteEdited, Prompt, PromptFails, Progress,
       Flush, Transfer, TransferEnds, vars
<1> SUFFICES \A f \in Files : Good(f)'
  BY <1>3
(* A step that queues no write and leaves the place of the worker's file. *)
<1>4. ASSUME commits = <<>>, commits' = <<>>, UNCHANGED db,
             \A f \in Files : Attempting(f) => Attempting(f)'
      PROVE  \A f \in Files : Good(f)'
  BY <1>2, <1>4, EndsKept DEF db
(* A step that queues a pair of writes that agree, of a file the worker   *)
(* is done with if it held it.                                            *)
<1>5. ASSUME NEW g \in Files, NEW s, NEW n, s \in {"queued", "cancelled", "failed"},
             commits = <<>>, UNCHANGED db,
             \/ commits' = <<FileTo(g, s), DownloadTo(g, s, n)>>
             \/ commits' = <<DownloadTo(g, s, n), FileTo(g, s)>>,
             \A f \in Files \ {g} : Attempting(f) => Attempting(f)'
      PROVE  \A f \in Files : Good(f)'
  <2>1. UNCHANGED <<fileStatus, dlStatus>>
    BY <1>5 DEF db
  <2>2. /\ FileEnd(g)' = s /\ DownloadEnd(g)' = s
        /\ \A f : f # g => FileEnd(f)' = FileEnd(f) /\ DownloadEnd(f)' = DownloadEnd(f)
    BY <1>5, <2>1, EndsOfPair
  <2>3. Agree(DownloadEnd(g), FileEnd(g))'
    BY <1>5, <2>2 DEF Agree
  <2> QED
    BY <1>2, <1>5, <2>2, <2>3
<1>6. CASE Commit
  <2>1. \A f \in Files : FileEnd(f)' = FileEnd(f) /\ DownloadEnd(f)' = DownloadEnd(f)
    BY <1>6, EndsOfCommit DEF RInv, RowsWillAgree
  <2>2. \A f \in Files : Attempting(f)' <=> Attempting(f)
    BY <1>6 DEF Commit, Attempting, worker
  <2> QED
    BY <1>2, <2>1, <2>2
<1>7. CASE Enqueue
  BY <1>5, <1>7 DEF Enqueue, LoopFree, RInv, IInv, TypeOK, Attempting, worker
<1>8. ASSUME NEW g \in Files, Receive(g) PROVE \A f \in Files : Good(f)'
  <2>1. /\ commits = <<>> /\ commits' = <<FileTo(g, "received")>> /\ UNCHANGED <<fileStatus, dlStatus>>
        /\ dlStatus[g] = "absent"
    BY <1>8 DEF Receive, HandlerFree, LoopFree, db, RInv, RowsBeforeJobs
  <2>2. /\ FileEnd(g)' = "received" /\ DownloadEnd(g)' = "absent"
        /\ \A f : f # g => FileEnd(f)' = FileEnd(f) /\ DownloadEnd(f)' = DownloadEnd(f)
    BY <2>1, EndsOfOne, EndsNow DEF FileTo
  <2>3. \A f \in Files : Attempting(f)' <=> Attempting(f)
    BY <1>8 DEF Receive, Attempting, worker
  <2>4. Agree(DownloadEnd(g), FileEnd(g))'
    BY <2>2 DEF Agree
  <2> QED
    BY <1>2, <2>2, <2>3, <2>4
<1>9. ASSUME NEW g \in Files, Cancel(g) PROVE \A f \in Files : Good(f)'
  <2>1. commits = <<>> /\ UNCHANGED db /\ \A f \in Files : Attempting(f) => Attempting(f)'
    BY <1>9 DEF Cancel, HandlerFree, LoopFree, Attempting, worker
  <2>2. commits' = <<>> \/ commits' = CancelWrites(g, dlRetries[g])
    BY <1>9 DEF Cancel
  <2> QED
    BY <1>4, <1>5, <2>1, <2>2 DEF CancelWrites
<1>10. ASSUME NEW g \in Files, AdminRetry(g) PROVE \A f \in Files : Good(f)'
  BY <1>5, <1>10 DEF AdminRetry, HandlerFree, LoopFree, RequeueWrites, Attempting, worker
<1>11. ASSUME NEW g \in Files, LoopHead(g), commits = <<>>, UNCHANGED db,
              \A f \in Files : Attempting(f) => f = g,
              Attempting(g) => attempts[g] <= RetryLimit
       PROVE  \A f \in Files : Good(f)'
  <2>1. CASE attempts[g] > RetryLimit /\ commits' = commits
    <3>1. \A f \in Files : ~Attempting(f)
      BY <1>11, <2>1, CountsInRange, LimitAssumption DEF RInv
    <3> QED
      BY <1>4, <1>11, <2>1, <3>1
  <2>2. CASE commits' = CancelWrites(g, attempts[g])
    BY <1>5, <1>11, <2>2 DEF CancelWrites
  <2>3. CASE /\ commits' = <<FileTo(g, "downloading")>>
             /\ pc' = "announce" /\ current' = g
    <3>1. \A f : f # g => FileEnd(f)' = FileEnd(f) /\ DownloadEnd(f)' = DownloadEnd(f)
      BY <1>11, <2>3, EndsOfOne DEF FileTo, db
    <3>2. Attempting(g)'
      BY <2>3 DEF Attempting
    <3> QED
      BY <1>2, <1>11, <3>1, <3>2
  <2> QED
    BY <1>11, <2>1, <2>2, <2>3, LoopHeadCases DEF RInv
<1>12. CASE Take
  <2>1. PICK g \in Files : LoopHead(g)
    BY <1>12, TakeShifts DEF Take, RInv
  <2>2. \A f \in Files : ~Attempting(f)
    BY <1>12 DEF Take, Attempting
  <2> QED
    BY <1>11, <1>12, <2>1, <2>2 DEF Take, LoopFree
<1>13. CASE Resume
  <2>1. PICK g \in Files : g = current /\ LoopHead(g) /\ attempts[g] <= RetryLimit
    BY <1>13 DEF Resume, RInv, IInv, HoldsJob, WorkerOK
  <2> QED
    BY <1>11, <1>13, <2>1 DEF Resume, LoopFree, Attempting
<1>14. PICK h : h = current
  OBVIOUS
<1>15. \A f \in Files : Attempting(f) => f = h
  BY <1>14 DEF Attempting
<1>16. CASE Complete
  <2>1. /\ FileEnd(h)' = "awaiting_rename" /\ DownloadEnd(h)' = "completed"
        /\ \A f : f # h => FileEnd(f)' = FileEnd(f) /\ DownloadEnd(f)' = DownloadEnd(f)
    BY <1>14, <1>16, EndsOfComplete DEF Complete, LoopFree, db
  <2>2. Agree(DownloadEnd(h), FileEnd(h))'
    BY <2>1 DEF Agree
  <2> QED
    BY <1>2, <1>15, <2>1, <2>2
<1>17. CASE SettleCancelled \/ Fail
  <2>1. /\ h \in Files /\ commits = <<>> /\ UNCHANGED db
        /\ \A f \in Files \ {h} : Attempting(f) => Attempting(f)'
    BY <1>14, <1>15, <1>17 DEF SettleCancelled, Fail, LoopFree, RInv, IInv, HoldsJob
  <2>2. \/ commits' = CancelWrites(h, attempts[h])
        \/ commits' = <<DownloadTo(h, "failed", attempts[h]), FileTo(h, "failed")>>
    BY <1>14, <1>17 DEF SettleCancelled, Fail
  <2> QED
    BY <1>5, <2>1, <2>2 DEF CancelWrites
<1>18. CASE Flush
  <2>1. \A f : f # h => FileEnd(f)' = FileEnd(f) /\ DownloadEnd(f)' = DownloadEnd(f)
    BY <1>14, <1>18, EndsOfOne DEF Flush, LoopFree, DownloadTo, db
  <2>2. Attempting(h)'
    BY <1>14, <1>18 DEF Flush, Attempting
  <2> QED
    BY <1>2, <1>15, <2>1, <2>2
<1>19. CASE \/ StartQueue \/ Announce \/ StopProgress \/ BackOff \/ Edited \/ CompleteEdited
            \/ Prompt \/ PromptFails \/ Progress \/ AckFails
  BY <1>4, <1>19 DEF StartQueue, Announce, StopProgress, BackOff, Edited, CompleteEdited,
     Prompt, PromptFails, Progress, AckFails, LoopFree, Attempting, worker
<1>20. CASE Transfer \/ UNCHANGED vars
  <2>1. UNCHANGED <<fileStatus, dlStatus, commits, pc, current>>
    BY <1>20 DEF Transfer, TransferEnds, vars, db, worker
  <2>2. \A f \in Files : FileEnd(f)' = FileEnd(f) /\ DownloadEnd(f)' = DownloadEnd(f)
    BY <2>1 DEF FileEnd, DownloadEnd, Upto, Writes
  <2>3. \A f \in Files : Attempting(f)' <=> Attempting(f)
    BY <2>1 DEF Attempting
  <2> QED
    BY <1>2, <2>2, <2>3
<1> QED
  BY <1>3, <1>6, <1>7, <1>8, <1>9, <1>10, <1>12, <1>13, <1>16, <1>17, <1>18,
     <1>19, <1>20
     DEF Next, Handlers, WorkerStep

-----------------------------------------------------------------------------
(* The queue. *)

LEMMA NewJobQueue ==
  ASSUME IInv, NEW f \in Files, NEW n, NewJob(f, n)
  PROVE  /\ \A g : InQueue(g)' <=> InQueue(g) \/ g = f
         /\ Distinct(queue) /\ ~InQueue(f) => Distinct(queue')
<1>1. /\ Len(queue) \in Nat /\ Len(queue') = Len(queue) + 1
      /\ queue'[Len(queue) + 1] = f
      /\ \A i \in 1 .. Len(queue) : queue'[i] = queue[i]
  BY NewJobAppends DEF IInv, TypeOK
<1>2. \A i \in 1 .. Len(queue') : i \in 1 .. Len(queue) \/ i = Len(queue) + 1
  BY <1>1
<1>3. \A g : InQueue(g)' <=> InQueue(g) \/ g = f
  BY <1>1, <1>2 DEF InQueue
<1>4. ASSUME Distinct(queue), ~InQueue(f) PROVE Distinct(queue')
  BY <1>1, <1>2, <1>4 DEF InQueue, Distinct
<1> QED
  BY <1>3, <1>4

LEMMA TakeQueue ==
  ASSUME IInv, Take, Distinct(queue)
  PROVE  /\ \A g : InQueue(g)' <=> InQueue(g) /\ g # queue[1]
         /\ InQueue(queue[1])
         /\ Distinct(queue')
<1>1. /\ Len(queue) \in Nat /\ Len(queue) > 0 /\ Len(queue') = Len(queue) - 1
      /\ \A i \in 1 .. Len(queue') : i + 1 \in 1 .. Len(queue) /\ queue'[i] = queue[i + 1]
  BY TakeShifts DEF IInv, TypeOK
<1>2. \A i \in 1 .. Len(queue) : i = 1 \/ (i - 1 \in 1 .. Len(queue') /\ queue'[i - 1] = queue[i])
  <2> SUFFICES ASSUME NEW i \in 1 .. Len(queue), i # 1
               PROVE  i - 1 \in 1 .. Len(queue') /\ queue'[i - 1] = queue[i]
    OBVIOUS
  <2>1. i - 1 \in 1 .. Len(queue') /\ (i - 1) + 1 = i
    BY <1>1
  <2> QED
    BY <1>1, <2>1
<1>3. \A g : InQueue(g)' => InQueue(g) /\ g # queue[1]
  <2> SUFFICES ASSUME NEW g, NEW i \in 1 .. Len(queue'), queue'[i] = g
               PROVE  InQueue(g) /\ g # queue[1]
    BY DEF InQueue
  <2>1. i + 1 \in 1 .. Len(queue) /\ queue[i + 1] = g /\ i + 1 # 1 /\ 1 \in 1 .. Len(queue)
    BY <1>1
  <2> QED
    BY <2>1 DEF InQueue, Distinct
<1>4. \A g : InQueue(g) /\ g # queue[1] => InQueue(g)'
  BY <1>2 DEF InQueue
<1>5. InQueue(queue[1])
  BY <1>1 DEF InQueue
<1>6. Distinct(queue')
  <2> SUFFICES ASSUME NEW i \in 1 .. Len(queue'), NEW j \in 1 .. Len(queue'), queue'[i] = queue'[j]
               PROVE  i = j
    BY DEF Distinct
  <2>1. i + 1 \in 1 .. Len(queue) /\ j + 1 \in 1 .. Len(queue) /\ queue[i + 1] = queue[j + 1]
    BY <1>1
  <2>2. i + 1 = j + 1
    BY <2>1 DEF Distinct
  <2> QED
    BY <2>2
<1> QED
  BY <1>3, <1>4, <1>5, <1>6

(* A step that leaves the queue alone and starts no attempt.               *)
LEMMA QuietQueue ==
  ASSUME EnteredOnce, UNCHANGED <<job, attempts, queue, dlStatus, dlRetries>>,
         commits' \in {commits, <<>>}, current' \in {current, NoFile}, NoFile \notin Files,
         \A f : Attempting(f)' => Attempting(f)
  PROVE  EnteredOnce'
<1>1. \A f : (InQueue(f)' <=> InQueue(f)) /\ (Live(f)' => Live(f))
  BY DEF InQueue, Live
<1>2. \A i \in 1 .. Len(commits') : commits' = commits
  BY DEF InQueue
<1>3. Distinct(queue')
  BY DEF EnteredOnce
<1> QED
  BY <1>1, <1>2, <1>3 DEF EnteredOnce

(* A job that enters the queue: of no earlier attempt, for whose rows only *)
(* writes of no retry are queued.                                          *)
LEMMA NewJobEntersOnce ==
  ASSUME IInv, EnteredOnce, NEW f \in Files, NewJob(f, 0), ~InQueue(f), f # current,
         dlRetries[f] = 0, UNCHANGED <<dlStatus, dlRetries, pc, current>>,
         \A i \in 1 .. Len(commits') : commits'[i].row = "downloads" => commits'[i].retries = 0
  PROVE  EnteredOnce'
<1>1. \A g : InQueue(g)' <=> InQueue(g) \/ g = f
  BY NewJobQueue
<1>2. Distinct(queue')
  BY NewJobQueue DEF EnteredOnce
<1>3. \A g : Attempting(g)' <=> Attempting(g)
  BY DEF Attempting
<1>4. /\ job'[f] = "queued" /\ attempts'[f] = 0
      /\ \A g \in Files \ {f} : job'[g] = job[g] /\ attempts'[g] = attempts[g]
  BY NewJobAppends
<1> QED
  BY <1>1, <1>2, <1>3, <1>4 DEF EnteredOnce, Live

LEMMA CommitEntersOnce ==
  ASSUME IInv, EnteredOnce, Commit PROVE EnteredOnce'
<1>1. UNCHANGED <<job, attempts, queue, pc, current>>
  BY DEF Commit, jobs, worker
<1>2. \A f : (InQueue(f)' <=> InQueue(f)) /\ (Live(f)' <=> Live(f))
  BY <1>1 DEF InQueue, Live, Attempting
<1>3. PICK w : w = commits[1] /\ w = Head(commits) /\ w \in RowWrites
  BY CommitShifts
<1>4. 1 \in 1 .. Len(commits) /\ w.file \in Files
  <2>1. Len(commits) \in Nat /\ Len(commits) > 0
    BY CommitShifts DEF IInv, TypeOK
  <2> QED
    BY <1>3, <2>1 DEF RowWrites, FileWrites, DownloadWrites
<1>5. \A i \in 1 .. Len(commits') :
        (/\ commits'[i].row = "downloads"
         /\ commits'[i].to \in Active \/ Live(commits[i].file)') => commits'[i].retries = 0
  <2> SUFFICES ASSUME NEW i \in 1 .. Len(commits'), commits'[i].row = "downloads",
                      commits'[i].to \in Active \/ Live(commits[i].file)'
               PROVE  commits'[i].retries = 0
    OBVIOUS
  <2>1. i + 1 \in 1 .. Len(commits) /\ commits'[i] = commits[i + 1]
    BY CommitShifts
  <2>2. Live(commits[i].file)' <=> Live(commits[i + 1].file)
    <3>1. PICK g : g = commits'[i].file /\ g = commits[i + 1].file
      BY <2>1
    <3> QED
      BY <1>1, <3>1 DEF Live, InQueue, Attempting
  <2> QED
    BY <2>1, <2>2 DEF EnteredOnce
<1>6. \A f \in Files : dlStatus'[f] \in Active \/ Live(f) => dlRetries'[f] = 0
  <2>1. CASE w.row = "downloads"
    <3>1. /\ dlStatus' = [dlStatus EXCEPT ![w.file] = w.to]
          /\ dlRetries' = [dlRetries EXCEPT ![w.file] = w.retries]
      BY <1>3, <2>1 DEF Commit
    <3>2. w.to \in Active \/ Live(w.file) => w.retries = 0
      BY <1>3, <1>4, <2>1 DEF EnteredOnce
    <3> QED
      BY <1>4, <3>1, <3>2 DEF EnteredOnce, IInv, TypeOK
  <2>2. CASE w.row # "downloads"
    <3>1. UNCHANGED <<dlStatus, dlRetries>>
      BY <1>3, <2>2 DEF Commit, RowWrites, FileWrites, DownloadWrites
    <3> QED
      BY <3>1 DEF EnteredOnce
  <2> QED
    BY <2>1, <2>2
<1> QED
  BY <1>1, <1>2, <1>5, <1>6 DEF EnteredOnce

(* Takes a job out of the queue or has the next attempt of the one at hand. *)
LEMMA LoopHeadEntersOnce ==
  ASSUME IInv, EnteredOnce, NEW g \in Files, LoopHead(g), dlRetries[g] = 0,
         UNCHANGED <<dlStatus, dlRetries>>, attempts[g] <= RetryLimit,
         \A f : InQueue(f)' => InQueue(f) /\ f # g,
         \A f : InQueue(f) /\ f # g => InQueue(f)',
         Distinct(queue')
  PROVE  EnteredOnce'
<1>1. CASE /\ job' = [job EXCEPT ![g] = "cancelled"]
           /\ commits' = CancelWrites(g, attempts[g])
           /\ pc' = "edit" /\ current' = g
           /\ UNCHANGED attempts
  <2>1. /\ \A f : ~Attempting(f)'
        /\ ~Live(g)'
    BY <1>1 DEF Attempting, Live
  <2>2. \A f \in Files : job'[f] = "queued" => job[f] = "queued" /\ f # g
    BY <1>1 DEF IInv, TypeOK
  <2>3. \A i \in 1 .. Len(commits') :
          commits'[i].row = "downloads" => commits'[i].to = "cancelled" /\ commits'[i].file = g
    BY <1>1, CancelWritesOneFile
  <2> QED
    BY <1>1, <2>1, <2>2, <2>3 DEF EnteredOnce, Live, Active
<1>2. CASE /\ job' = [job EXCEPT ![g] = "running"]
           /\ attempts' = [attempts EXCEPT ![g] = @ + 1]
           /\ commits' = <<FileTo(g, "downloading")>>
           /\ pc' = "announce" /\ current' = g
  <2>1. \A f : Attempting(f)' => f = g
    BY <1>2 DEF Attempting
  <2>2. \A f \in Files : job'[f] = "queued" => job[f] = "queued" /\ f # g
    BY <1>2 DEF IInv, TypeOK
  <2>3. \A i \in 1 .. Len(commits') : commits'[i].row = "files"
    BY <1>2 DEF FileTo
  <2>4. \A f \in Files \ {g} : attempts'[f] = attempts[f]
    BY <1>2 DEF IInv, TypeOK
  <2> QED
    BY <1>2, <2>1, <2>2, <2>3, <2>4 DEF EnteredOnce, Live
<1> QED
  <2>1. attempts[g] \in Nat /\ ~(attempts[g] > RetryLimit)
    BY LimitAssumption DEF IInv, TypeOK
  <2> QED
    BY <1>1, <1>2, <2>1, LoopHeadCases

LEMMA QueueStep ==
  ASSUME RInv, [Next]_vars PROVE QueueOK'
<1> SUFFICES ASSUME Spared({"retry"})' PROVE EnteredOnce'
  BY DEF QueueOK
<1>1. IInv /\ BudgetKept /\ RowsBeforeJobs /\ WorkerOK
  BY DEF RInv
<1>2. EnteredOnce
  BY <1>1, SparedBefore DEF RInv, QueueOK, Faults
<1>3. \A f \in Files : ~AdminRetry(f)
  BY <1>1, Unspared DEF AdminRetry, Faults
<1>4. \A f : InQueue(f) => job[f] # "absent"
  BY <1>1 DEF InQueue, RowsBeforeJobs
<1>5. CASE Commit
  BY <1>1, <1>2, <1>5, CommitEntersOnce
<1>6. CASE Enqueue
  <2>1. PICK f \in Files : f = ack
    BY <1>1, <1>6 DEF Enqueue, IInv, TypeOK
  <2>2. job[f] = "absent" /\ dlRetries[f] = 0
    BY <1>1, <2>1 DEF RowsBeforeJobs
  <2>3. ~InQueue(f) /\ f # current
    BY <1>1, <1>4, <2>2 DEF RowsBeforeJobs
  <2>4. \A i \in 1 .. Len(commits') : commits'[i].row = "downloads" => commits'[i].retries = 0
    BY <1>6, <2>1, <2>2 DEF Enqueue, FileTo, DownloadTo
  <2> QED
    BY <1>1, <1>2, <1>6, <2>1, <2>2, <2>3, <2>4, NewJobEntersOnce DEF Enqueue, db, worker
<1>7. ASSUME NEW f \in Files, Receive(f) PROVE EnteredOnce'
  <2>1. \A i \in 1 .. Len(commits') : commits'[i].row = "files"
    BY <1>7 DEF Receive, FileTo
  <2>2. UNCHANGED <<dlStatus, dlRetries, job, attempts, queue, pc, current>>
    BY <1>7 DEF Receive, db, jobs, worker
  <2> QED
    BY <1>2, <2>1, <2>2 DEF EnteredOnce, Live, Attempting, InQueue
<1>8. ASSUME NEW f \in Files, Cancel(f) PROVE EnteredOnce'
  <2>1. UNCHANGED <<dlStatus, dlRetries, attempts, queue, pc, current>>
    BY <1>8 DEF Cancel, db, worker
  <2>2. \A g \in Files : job'[g] = "queued" => job[g] = "queued"
    BY <1>1, <1>8 DEF Cancel, IInv, TypeOK
  <2>3. \A i \in 1 .. Len(commits') : commits'[i].row = "downloads" =>
          commits'[i].retries = dlRetries[f] /\ dlRetries[f] = 0
    <3>1. CASE dlStatus[f] \in Active
      <4>1. commits' = CancelWrites(f, dlRetries[f]) /\ dlRetries[f] = 0
        BY <1>2, <1>8, <3>1 DEF Cancel, EnteredOnce
      <4> QED
        BY <4>1, CancelWritesOneFile
    <3>2. CASE commits' = <<>>
      BY <3>2
    <3> QED
      BY <1>8, <3>1, <3>2 DEF Cancel
  <2> QED
    BY <1>2, <2>1, <2>2, <2>3 DEF EnteredOnce, Live, Attempting, InQueue
<1>9. CASE Take
  <2>1. PICK g \in Files : g = queue[1] /\ LoopHead(g)
    BY <1>1, <1>9, TakeShifts DEF Take
  <2>2. (\A f : InQueue(f)' <=> InQueue(f) /\ f # g) /\ InQueue(g) /\ Distinct(queue')
    BY <1>1, <1>2, <1>9, <2>1, TakeQueue DEF EnteredOnce
  <2>3. dlRetries[g] = 0 /\ attempts[g] <= RetryLimit
    BY <1>2, <2>2, LimitAssumption DEF EnteredOnce, Live
  <2> QED
    BY <1>1, <1>2, <1>9, <2>1, <2>2, <2>3, LoopHeadEntersOnce DEF Take, db
<1>10. CASE Resume
  <2>1. PICK g \in Files : g = current /\ LoopHead(g) /\ pc = "backoff"
    BY <1>1, <1>10 DEF Resume, IInv, HoldsJob
  <2>2. dlRetries[g] = 0 /\ ~InQueue(g) /\ attempts[g] <= RetryLimit /\ Distinct(queue)
    BY <1>1, <1>2, <2>1 DEF EnteredOnce, Live, Attempting, WorkerOK
  <2>3. UNCHANGED <<queue, dlStatus, dlRetries>>
    BY <1>10 DEF Resume, db
  <2>4. \A f : InQueue(f)' <=> InQueue(f)
    BY <2>3 DEF InQueue
  <2> QED
    BY <1>1, <1>2, <2>1, <2>2, <2>3, <2>4, LoopHeadEntersOnce
<1>11. CASE Complete \/ SettleCancelled \/ Fail
  <2>1. PICK h \in Files : h = current
    BY <1>1, <1>11 DEF Complete, SettleCancelled, Fail, IInv, HoldsJob
  <2>2. /\ UNCHANGED <<dlStatus, dlRetries, attempts, queue, current>>
        /\ pc' \in {"edit", "done_edit"}
        /\ \E s \in {"completed", "cancelled", "failed"} : job' = [job EXCEPT ![h] = s]
    BY <1>11, <2>1 DEF Complete, SettleCancelled, Fail, db
  <2>3. \A f \in Files : job'[f] = "queued" => job[f] = "queued"
    BY <1>1, <2>2 DEF IInv, TypeOK
  <2>4. \A i \in 1 .. Len(commits') : commits'[i].row = "downloads" =>
          commits'[i].to \notin Active /\ commits'[i].file = h
    <3>1. CASE Complete
      BY <2>1, <3>1 DEF Complete, DownloadTo, FileTo, Active
    <3>2. CASE SettleCancelled
      <4>1. commits' = CancelWrites(h, attempts[h])
        BY <2>1, <3>2 DEF SettleCancelled
      <4> QED
        BY <4>1, CancelWritesOneFile DEF Active
    <3>3. CASE Fail
      BY <2>1, <3>3 DEF Fail, DownloadTo, FileTo, Active
    <3> QED
      BY <1>11, <3>1, <3>2, <3>3
  <2>5. (\A f : InQueue(f)' <=> InQueue(f)) /\ (\A f : ~Attempting(f)') /\ ~InQueue(h)
    BY <1>2, <2>1, <2>2 DEF InQueue, Attempting, EnteredOnce
  <2> QED
    BY <1>2, <2>2, <2>3, <2>4, <2>5 DEF EnteredOnce, Live
<1>12. CASE Flush
  <2>1. PICK h \in Files : h = current /\ pc = "transfer"
    BY <1>1, <1>12 DEF Flush, IInv, HoldsJob
  <2>2. UNCHANGED <<dlStatus, dlRetries, job, attempts, queue, pc, current>>
    BY <1>12 DEF Flush, db, jobs
  <2>3. dlRetries[h] = 0
    BY <1>2, <2>1 DEF EnteredOnce, Live, Attempting
  <2>4. \A i \in 1 .. Len(commits') : commits'[i].retries = 0
    BY <1>12, <2>1, <2>3 DEF Flush, DownloadTo
  <2> QED
    BY <1>2, <2>2, <2>4 DEF EnteredOnce, Live, Attempting, InQueue
<1>13. CASE Crash
  <2>1. /\ queue' = <<>> /\ commits' = <<>> /\ pc' = "unstarted"
        /\ \A f \in Files : job'[f] = "absent"
        /\ UNCHANGED <<dlStatus, dlRetries>>
    BY <1>13 DEF Crash, db
  <2> QED
    BY <1>2, <2>1 DEF EnteredOnce, Live, Attempting, InQueue, Distinct
<1>14. ASSUME NEW f \in Files, Recover(f) PROVE EnteredOnce'
  <2>1. dlRetries[f] = 0 /\ job[f] = "absent"
    BY <1>2, <1>14 DEF Recover, Interrupted, EnteredOnce
  <2>2. ~InQueue(f) /\ f # current
    BY <1>1, <1>4, <2>1 DEF RowsBeforeJobs
  <2>3. \A i \in 1 .. Len(commits') : commits'[i].row = "downloads" => commits'[i].retries = 0
    BY <1>14, <2>1, RequeueWritesOneFile DEF Recover
  <2> QED
    BY <1>1, <1>2, <1>14, <2>1, <2>2, <2>3, NewJobEntersOnce DEF Recover, db, worker
<1>15. CASE \/ StartQueue \/ Announce \/ StopProgress \/ BackOff \/ Edited \/ CompleteEdited
            \/ Prompt \/ PromptFails
  <2>1. /\ UNCHANGED <<job, attempts, queue, dlStatus, dlRetries, commits>>
        /\ current' \in {current, NoFile}
    BY <1>15 DEF StartQueue, Announce, StopProgress, BackOff, Edited, CompleteEdited,
       Prompt, PromptFails, Rest, db, jobs
  <2>2. \A f : Attempting(f)' => Attempting(f)
    BY <1>15 DEF StartQueue, Announce, StopProgress, BackOff, Edited, CompleteEdited,
       Prompt, PromptFails, Rest, Attempting
  <2> QED
    BY <1>2, <2>1, <2>2, QuietQueue, FilesAssumption
<1>16. CASE Progress \/ AckFails \/ Transfer \/ Restart \/ RecoveryDone \/ UNCHANGED vars
  <2>1. UNCHANGED <<job, attempts, queue, dlStatus, dlRetries, commits, pc, current>>
    BY <1>16 DEF Progress, AckFails, Transfer, TransferEnds, Restart, RecoveryDone, vars,
       db, jobs, worker
  <2>2. \A f : Attempting(f)' => Attempting(f)
    BY <2>1 DEF Attempting
  <2> QED
    BY <1>2, <2>1, <2>2, QuietQueue, FilesAssumption
<1> QED
  BY <1>3, <1>5, <1>6, <1>7, <1>8, <1>9, <1>10, <1>11, <1>12, <1>13, <1>14, <1>15, <1>16
     DEF Next, Handlers, WorkerStep, Boot

-----------------------------------------------------------------------------
(* The invariant and what follows from it. *)

LEMMA InitRInv == Init => RInv
<1> SUFFICES ASSUME Init PROVE RInv
  OBVIOUS
<1>1. IInv
  BY InitIInv
<1>2. BudgetKept
  BY BudgetAssumption DEF Init, BudgetKept
<1>3. RowsBeforeJobs /\ WorkerOK
  BY FilesAssumption DEF Init, RowsBeforeJobs, WorkerOK
<1>4. Len(commits) = 0 /\ Len(queue) = 0
  BY DEF Init
<1>5. RowsWillAgree
  BY <1>4 DEF Init, RowsWillAgree, Agree, FileEnd, DownloadEnd, Upto, Writes
<1>6. QueueOK
  BY <1>4 DEF Init, QueueOK, EnteredOnce, Distinct, InQueue, Live
<1> QED
  BY <1>1, <1>2, <1>3, <1>5, <1>6 DEF RInv

(* The rows, the jobs in memory and the queue stay consistent.             *)
THEOREM RowsInvariance == Spec => []RInv
<1>1. RInv /\ IInv' /\ [Next]_vars => RInv'
  <2> SUFFICES ASSUME RInv, IInv', [Next]_vars PROVE RInv'
    OBVIOUS
  <2>1. BudgetKept'
    BY BudgetStep DEF RInv
  <2>2. RowsBeforeJobs' /\ WorkerOK'
    BY RowsStep DEF RInv, RowsOK
  <2> QED
    BY <2>1, <2>2, RowsAgreeStep, QueueStep DEF RInv
<1> QED
  BY <1>1, InitRInv, Invariance, PTL DEF Spec

(* Until a crash strikes, the row of the file and the row of its download  *)
(* tell the same story whenever no commit is outstanding: mark_* and       *)
(* requeue_* of the repository write them one after the other.             *)
THEOREM RowsOfFileAgree == Spec => []RowsAgree
<1>1. RInv => RowsAgree
  <2> SUFFICES ASSUME RInv, Spared({"crash"}), commits = <<>>, NEW f \in Files \ {current}
               PROVE  Agree(dlStatus[f], fileStatus[f])
    BY DEF RowsAgree, Agree
  <2>1. Agree(DownloadEnd(f), FileEnd(f))
    BY DEF RInv, RowsWillAgree, Attempting
  <2>2. Len(commits) = 0
    OBVIOUS
  <2> QED
    BY <2>1, <2>2 DEF FileEnd, DownloadEnd, Upto, Writes
<1> QED
  BY <1>1, RowsInvariance, PTL

(* Without /retry_failed, a job the queue reports as queued waits in it,   *)
(* once, whether enqueue or recover_interrupted_jobs put it there.         *)
THEOREM QueuedJobsAreQueued == Spec => []QueuedJobsAreInQueue
<1>1. RInv => QueuedJobsAreInQueue
  <2> SUFFICES ASSUME RInv, Spared({"retry"}), NEW f \in Files, job[f] = "queued"
               PROVE  Cardinality({i \in DOMAIN queue : queue[i] = f}) = 1
    BY DEF QueuedJobsAreInQueue
  <2>1. InQueue(f) /\ Distinct(queue)
    BY DEF RInv, QueueOK, EnteredOnce
  <2>2. DOMAIN queue = 1 .. Len(queue)
    BY DEF RInv, IInv, TypeOK
  <2>3. PICK i \in 1 .. Len(queue) : queue[i] = f
    BY <2>1 DEF InQueue
  <2>4. {j \in DOMAIN queue : queue[j] = f} = {i}
    BY <2>1, <2>2, <2>3 DEF Distinct
  <2> QED
    BY <2>4, FS_Singleton
<1> QED
  BY <1>1, RowsInvariance, PTL
=============================================================================
