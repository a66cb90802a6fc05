------------------------ MODULE DownloadQueueProofs ------------------------
(***************************************************************************)
(* Theorems about DownloadQueue, for every set of files, retry limit and   *)
(* budget of crashes, failing Telegram calls and administrator retries.    *)
(***************************************************************************)
EXTENDS DownloadQueue, TLAPS

\* A worker that is past _queue.get holds a job.
HoldsJob == pc \notin {"unstarted", "wait", "dead"} => current \in Files

IInv == TypeOK /\ HoldsJob /\ AttemptsAreBounded

RowWrites == FileWrites \cup DownloadWrites

(* The writes the actions queue up are writes of known rows, states and    *)
(* counts.                                                                 *)
LEMMA FileToTyped ==
  ASSUME NEW f \in Files, NEW s \in JobStates
  PROVE  FileTo(f, s) \in RowWrites
BY DEF FileTo, RowWrites, FileWrites

LEMMA DownloadToTyped ==
  ASSUME NEW f \in Files, NEW s \in DownloadStates, NEW n \in 0 .. RetryLimit + 1
  PROVE  DownloadTo(f, s, n) \in RowWrites
BY DEF DownloadTo, RowWrites, DownloadWrites

LEMMA RequeueTyped ==
  ASSUME IInv, NEW f \in Files
  PROVE  RequeueWrites(f) \in Seq(RowWrites)
<1>1. dlRetries[f] \in 0 .. RetryLimit + 1
  BY LimitAssumption DEF IInv, TypeOK, AttemptsAreBounded
<1>2. /\ DownloadTo(f, "queued", dlRetries[f]) \in RowWrites
      /\ FileTo(f, "queued") \in RowWrites
  BY <1>1, FileToTyped, DownloadToTyped DEF JobStates, DownloadStates
<1> QED
  BY <1>2 DEF RequeueWrites

LEMMA CancelTyped ==
  ASSUME NEW f \in Files, NEW n \in 0 .. RetryLimit + 1
  PROVE  CancelWrites(f, n) \in Seq(RowWrites)
<1>1. /\ DownloadTo(f, "cancelled", n) \in RowWrites
      /\ FileTo(f, "cancelled") \in RowWrites
  BY FileToTyped, DownloadToTyped DEF JobStates, DownloadStates
<1> QED
  BY <1>1 DEF CancelWrites

LEMMA CountsInRange ==
  ASSUME IInv, NEW f \in Files
  PROVE  attempts[f] \in 0 .. RetryLimit + 1 /\ dlRetries[f] \in 0 .. RetryLimit + 1
BY LimitAssumption DEF IInv, TypeOK, AttemptsAreBounded

LEMMA NewJobTyped ==
  ASSUME IInv, NEW f \in Files, NEW n \in 0 .. RetryLimit + 1, NewJob(f, n)
  PROVE  /\ job' \in [Files -> DownloadStates]
         /\ attempts' \in [Files -> Nat]
         /\ \A g \in Files : attempts'[g] <= RetryLimit + 1
         /\ cancelEvent' \subseteq Files
         /\ queue' \in Seq(Files)
BY LimitAssumption DEF IInv, TypeOK, AttemptsAreBounded, NewJob, DownloadStates

LEMMA SpendTyped ==
  ASSUME TypeOK, NEW fault \in Faults, Spend(fault)
  PROVE  left' \in [Faults -> Nat]
BY DEF Spend, TypeOK

LEMMA InitIInv == Init => IInv
<1> SUFFICES ASSUME Init PROVE IInv OBVIOUS
<1>1. queue \in Seq(Files) /\ commits \in Seq(FileWrites \cup DownloadWrites)
  BY DEF Init
<1>2. /\ fileStatus \in [Files -> JobStates \cup {"absent"}]
      /\ dlStatus \in [Files -> DownloadStates] /\ job \in [Files -> DownloadStates]
      /\ dlRetries \in [Files -> Nat] /\ attempts \in [Files -> Nat]
  BY DEF Init, DownloadStates
<1>3. TypeOK
  BY <1>1, <1>2, BudgetAssumption DEF Init, TypeOK
<1>4. HoldsJob /\ AttemptsAreBounded
  BY LimitAssumption DEF Init, HoldsJob, AttemptsAreBounded
<1> QED
  BY <1>3, <1>4 DEF IInv

LEMMA CommitIInv == IInv /\ Commit => IInv'
<1> SUFFICES ASSUME IInv, Commit PROVE IInv' OBVIOUS
<1> USE DEF IInv, TypeOK, HoldsJob, AttemptsAreBounded
<1>1. /\ Head(commits) \in RowWrites
      /\ commits' \in Seq(RowWrites)
  BY DEF Commit, RowWrites
<1>2. UNCHANGED <<chat, proc, jobs, worker, left>>
  BY DEF Commit
<1>3. CASE Head(commits).row = "files"
  <2>1. Head(commits) \in FileWrites
    BY <1>1, <1>3 DEF RowWrites, DownloadWrites
  <2>2. fileStatus' \in [Files -> JobStates \cup {"absent"}] /\ UNCHANGED <<dlStatus, dlRetries>>
    BY <1>3, <2>1 DEF Commit, FileWrites
  <2> QED
    BY <1>1, <1>2, <2>2 DEF RowWrites, chat, jobs, worker
<1>4. CASE Head(commits).row # "files"
  <2>1. Head(commits) \in DownloadWrites
    BY <1>1, <1>4 DEF RowWrites, FileWrites
  <2>2. /\ Head(commits).file \in Files
        /\ Head(commits).to \in DownloadStates
        /\ Head(commits).retries \in 0 .. RetryLimit + 1
    BY <2>1 DEF DownloadWrites
  <2>3. /\ dlStatus' = [dlStatus EXCEPT ![Head(commits).file] = Head(commits).to]
        /\ dlRetries' = [dlRetries EXCEPT ![Head(commits).file] = Head(commits).retries]
        /\ UNCHANGED fileStatus
    BY <1>4 DEF Commit
  <2>4. dlStatus' \in [Files -> DownloadStates]
    BY <2>2, <2>3
  <2>5. dlRetries' \in [Files -> Nat] /\ \A f \in Files : dlRetries'[f] <= RetryLimit + 1
    BY <2>2, <2>3, LimitAssumption
  <2> QED
    BY <1>1, <1>2, <2>3, <2>4, <2>5 DEF RowWrites, chat, jobs, worker
<1> QED
  BY <1>3, <1>4

LEMMA HandlersIInv == IInv /\ Handlers => IInv'
<1> SUFFICES ASSUME IInv, Handlers PROVE IInv' OBVIOUS
<1> USE DEF IInv, TypeOK, HoldsJob, AttemptsAreBounded, RowWrites,
            db, chat, jobs, worker
<1>1. CASE Enqueue
  <2>1. ack \in Files /\ NewJob(ack, 0)
    BY <1>1 DEF Enqueue
  <2>2. <<FileTo(ack, "queued"), DownloadTo(ack, "queued", dlRetries[ack])>> \in Seq(RowWrites)
    <3>1. /\ FileTo(ack, "queued") \in RowWrites
          /\ DownloadTo(ack, "queued", dlRetries[ack]) \in RowWrites
      BY <2>1, CountsInRange, FileToTyped, DownloadToTyped DEF JobStates, DownloadStates
    <3> QED
      BY <3>1
  <2> QED
    BY <1>1, <2>1, <2>2, NewJobTyped, LimitAssumption DEF Enqueue
<1>2. CASE AckFails
  BY <1>2, SpendTyped DEF AckFails, Faults
<1>3. ASSUME NEW f \in Files, Receive(f) PROVE IInv'
  <2>1. <<FileTo(f, "received")>> \in Seq(RowWrites)
    <3>1. FileTo(f, "received") \in RowWrites
      BY FileToTyped DEF JobStates
    <3> QED
      BY <3>1
  <2> QED
    BY <1>3, <2>1 DEF Receive
<1>4. ASSUME NEW f \in Files, Cancel(f) PROVE IInv'
  <2>1. CancelWrites(f, dlRetries[f]) \in Seq(RowWrites) /\ <<>> \in Seq(RowWrites)
    BY CountsInRange, CancelTyped
  <2>2. commits' \in Seq(RowWrites)
    <3>1. commits' \in {CancelWrites(f, dlRetries[f]), <<>>}
      BY <1>4 DEF Cancel
    <3> QED
      BY <2>1, <3>1
  <2>3. job' \in [Files -> DownloadStates] /\ cancelEvent' \subseteq Files
    BY <1>4 DEF Cancel, DownloadStates
  <2> QED
    BY <1>4, <2>2, <2>3 DEF Cancel
<1>5. ASSUME NEW f \in Files, AdminRetry(f) PROVE IInv'
  <2>1. RequeueWrites(f) \in Seq(RowWrites)
    BY RequeueTyped
  <2>2. left' \in [Faults -> Nat]
    BY <1>5, SpendTyped DEF AdminRetry, Faults
  <2>3. /\ commits' = RequeueWrites(f)
        /\ UNCHANGED <<db, chat, proc, worker>>
        /\ NewJob(f, 0) /\ 0 \in 0 .. RetryLimit + 1
    BY <1>5, LimitAssumption DEF AdminRetry
  <2>4. /\ job' \in [Files -> DownloadStates]
        /\ attempts' \in [Files -> Nat]
        /\ \A g \in Files : attempts'[g] <= RetryLimit + 1
        /\ cancelEvent' \subseteq Files
        /\ queue' \in Seq(Files)
    BY <2>3, NewJobTyped
  <2> QED
    BY <2>1, <2>2, <2>3, <2>4
<1> QED
  BY <1>1, <1>2, <1>3, <1>4, <1>5 DEF Handlers

(* Every way through the head of the attempt loop. *)
LEMMA LoopHeadTyped ==
  ASSUME IInv, NEW f \in Files, LoopHead(f)
  PROVE  /\ job' \in [Files -> DownloadStates]
         /\ attempts' \in [Files -> Nat]
         /\ \A g \in Files : attempts'[g] <= RetryLimit + 1
         /\ commits' \in Seq(RowWrites)
         /\ pc' \in {"wait", "edit", "announce"}
         /\ current' \in Files \cup {NoFile}
         /\ pc' # "wait" => current' \in Files
         /\ transfer' \in {"none", "running", "ok", "error", "cancelled"}
         /\ unflushed' \in BOOLEAN
<1> USE LimitAssumption DEF IInv, TypeOK, AttemptsAreBounded, RowWrites
<1>1. CancelWrites(f, attempts[f]) \in Seq(RowWrites)
  BY CountsInRange, CancelTyped
<1>2. <<FileTo(f, "downloading")>> \in Seq(RowWrites)
  <2>1. FileTo(f, "downloading") \in RowWrites
    BY FileToTyped DEF JobStates
  <2> QED
    BY <2>1
<1>3. CASE attempts[f] > RetryLimit
  BY <1>3 DEF LoopHead, Rest
<1>4. CASE attempts[f] <= RetryLimit /\ f \in cancelEvent
  <2>1. ~(attempts[f] > RetryLimit)
    BY <1>4
  <2>2. /\ job' = [job EXCEPT ![f] = "cancelled"]
        /\ commits' = CancelWrites(f, attempts[f])
        /\ pc' = "edit" /\ current' = f
        /\ UNCHANGED <<attempts, transfer, unflushed>>
    BY <1>4, <2>1 DEF LoopHead
  <2>3. job' \in [Files -> DownloadStates]
    BY <2>2 DEF DownloadStates
  <2> QED
    BY <1>1, <2>2, <2>3
<1>5. CASE attempts[f] <= RetryLimit /\ f \notin cancelEvent
  <2>1. /\ job' = [job EXCEPT ![f] = "running"]
        /\ attempts' = [attempts EXCEPT ![f] = @ + 1]
        /\ commits' = <<FileTo(f, "downloading")>>
        /\ pc' = "announce" /\ current' = f
        /\ transfer' = "none" /\ unflushed' = FALSE
    <3>1. ~(attempts[f] > RetryLimit)
      BY <1>5
    <3> QED
      BY <1>5, <3>1 DEF LoopHead
  <2>2. job' \in [Files -> DownloadStates]
    BY <2>1 DEF DownloadStates
  <2>3. /\ attempts' \in [Files -> Nat]
        /\ \A g \in Files : attempts'[g] <= RetryLimit + 1
    BY <1>5, <2>1
  <2> QED
    BY <1>2, <2>1, <2>2, <2>3
<1> QED
  BY <1>3, <1>4, <1>5

LEMMA WorkerIInv == IInv /\ WorkerStep => IInv'
<1> SUFFICES ASSUME IInv, WorkerStep PROVE IInv' OBVIOUS
<1> USE DEF IInv, TypeOK, HoldsJob, AttemptsAreBounded, RowWrites,
            db, chat, jobs, worker
<1>1. CASE StartQueue
  BY <1>1 DEF StartQueue
<1>2. CASE Take
  <2>1. Head(queue) \in Files /\ queue' \in Seq(Files) /\ LoopHead(Head(queue))
    BY <1>2 DEF Take
  <2> QED
    BY <1>2, <2>1, LoopHeadTyped DEF Take
<1>3. CASE Resume
  <2>1. current \in Files /\ LoopHead(current)
    BY <1>3 DEF Resume
  <2> QED
    BY <1>3, <2>1, LoopHeadTyped DEF Resume
<1>4. CASE Announce
  BY <1>4 DEF Announce
<1>5. CASE StopProgress
  BY <1>5 DEF StopProgress
<1>6. CASE Complete
  <2>1. current \in Files
    BY <1>6 DEF Complete
  <2>2. /\ DownloadTo(current, "completed", dlRetries[current]) \in RowWrites
        /\ FileTo(current, "downloaded") \in RowWrites
        /\ FileTo(current, "awaiting_rename") \in RowWrites
    BY <2>1, CountsInRange, FileToTyped, DownloadToTyped DEF JobStates, DownloadStates
  <2>3. commits' \in Seq(RowWrites)
    BY <1>6, <2>2 DEF Complete
  <2>4. job' \in [Files -> DownloadStates]
    BY <1>6 DEF Complete, DownloadStates
  <2> QED
    BY <1>6, <2>1, <2>3, <2>4 DEF Complete
<1>7. CASE SettleCancelled
  <2>1. current \in Files
    BY <1>7 DEF SettleCancelled
  <2>2. commits' \in Seq(RowWrites)
    BY <1>7, <2>1, CountsInRange, CancelTyped DEF SettleCancelled
  <2>3. job' \in [Files -> DownloadStates]
    BY <1>7 DEF SettleCancelled, DownloadStates
  <2> QED
    BY <1>7, <2>1, <2>2, <2>3 DEF SettleCancelled
<1>8. CASE Fail
  <2>1. current \in Files
    BY <1>8 DEF Fail
  <2>2. /\ DownloadTo(current, "failed", attempts[current]) \in RowWrites
        /\ FileTo(current, "failed") \in RowWrites
    BY <2>1, CountsInRange, FileToTyped, DownloadToTyped DEF JobStates, DownloadStates
  <2>3. commits' \in Seq(RowWrites)
    BY <1>8, <2>2 DEF Fail
  <2>4. job' \in [Files -> DownloadStates]
    BY <1>8 DEF Fail, DownloadStates
  <2> QED
    BY <1>8, <2>1, <2>3, <2>4 DEF Fail
<1>9. CASE BackOff
  BY <1>9 DEF BackOff
<1>10. CASE Edited
  BY <1>10 DEF Edited, Rest
<1>11. CASE CompleteEdited
  BY <1>11 DEF CompleteEdited
<1>12. CASE Prompt
  BY <1>12 DEF Prompt, Rest
<1>13. CASE PromptFails
  BY <1>13, SpendTyped DEF PromptFails, Faults
<1> QED
  BY <1>1, <1>2, <1>3, <1>4, <1>5, <1>6, <1>7, <1>8, <1>9, <1>10, <1>11, <1>12,
     <1>13 DEF WorkerStep

LEMMA TransferIInv == IInv /\ (Progress \/ Flush \/ Transfer) => IInv'
<1> SUFFICES ASSUME IInv, Progress \/ Flush \/ Transfer PROVE IInv' OBVIOUS
<1> USE DEF IInv, TypeOK, HoldsJob, AttemptsAreBounded, RowWrites,
            db, chat, jobs, worker
<1>1. CASE Progress
  BY <1>1 DEF Progress
<1>2. CASE Flush
  <2>1. DownloadTo(current, "running", dlRetries[current]) \in RowWrites
    BY <1>2, CountsInRange, DownloadToTyped DEF Flush, DownloadStates
  <2>2. commits' \in Seq(RowWrites)
    BY <1>2, <2>1 DEF Flush
  <2> QED
    BY <1>2, <2>2 DEF Flush
<1>3. CASE Transfer
  BY <1>3 DEF Transfer, TransferEnds
<1> QED
  BY <1>1, <1>2, <1>3

LEMMA ProcessIInv == IInv /\ (Crash \/ Boot) => IInv'
<1> SUFFICES ASSUME IInv, Crash \/ Boot PROVE IInv' OBVIOUS
<1> USE DEF IInv, TypeOK, HoldsJob, AttemptsAreBounded, RowWrites,
            db, chat, jobs, worker
<1>1. CASE Crash
  <2>1. left' \in [Faults -> Nat]
    BY <1>1, SpendTyped DEF Crash, Faults
  <2>2. /\ job' \in [Files -> DownloadStates]
        /\ attempts' \in [Files -> Nat]
        /\ \A f \in Files : attempts'[f] <= RetryLimit + 1
    BY <1>1, LimitAssumption DEF Crash, DownloadStates
  <2>3. /\ UNCHANGED <<fileStatus, dlStatus, dlRetries, prompted>>
        /\ proc' = "down" /\ ack' = NoFile /\ pc' = "unstarted" /\ current' = NoFile
        /\ transfer' = "none" /\ unflushed' = FALSE
        /\ cancelEvent' = {}
        /\ queue' \in Seq(Files) /\ commits' \in Seq(RowWrites)
    BY <1>1 DEF Crash
  <2> QED
    BY <2>1, <2>2, <2>3
<1>2. CASE Restart
  BY <1>2 DEF Restart
<1>3. CASE RecoveryDone
  BY <1>3 DEF RecoveryDone
<1>4. ASSUME NEW f \in Files, Recover(f) PROVE IInv'
  <2>1. NewJob(f, dlRetries[f]) /\ commits' = RequeueWrites(f)
    BY <1>4 DEF Recover
  <2>2. RequeueWrites(f) \in Seq(RowWrites) /\ dlRetries[f] \in 0 .. RetryLimit + 1
    BY RequeueTyped, CountsInRange
  <2> QED
    BY <1>4, <2>1, <2>2, NewJobTyped DEF Recover
<1> QED
  BY <1>1, <1>2, <1>3, <1>4 DEF Boot

\* The strengthened invariant is inductive.
THEOREM Invariance == Spec => []IInv
<1>1. IInv /\ [Next]_vars => IInv'
  <2> SUFFICES ASSUME IInv, [Next]_vars PROVE IInv' OBVIOUS
  <2>1. CASE Next
    BY <2>1, CommitIInv, HandlersIInv, WorkerIInv, TransferIInv, ProcessIInv DEF Next
  <2>2. CASE UNCHANGED vars
    BY <2>2 DEF IInv, TypeOK, HoldsJob, AttemptsAreBounded, vars, db, chat, jobs, worker
  <2> QED
    BY <2>1, <2>2
<1> QED
  BY InitIInv, <1>1, PTL DEF Spec

\* Every variable keeps to its domain, the pending commits included.
THEOREM TypeCorrect == Spec => []TypeOK
<1>1. IInv => TypeOK
  BY DEF IInv
<1> QED
  BY <1>1, Invariance, PTL

\* Neither the attempts of a process nor the count it leaves in the database
\* ever exceed the retry limit by more than the first attempt, whatever crashes
\* and /retry_failed commands come in between.
THEOREM AttemptsBounded == Spec => []AttemptsAreBounded
<1>1. IInv => AttemptsAreBounded
  BY DEF IInv
<1> QED
  BY <1>1, Invariance, PTL

\* Once the cancel event of a job is set no attempt of it starts: the count
\* stays as it is until a retry or a restart makes a new job.
THEOREM CancellationEndsRetries == Spec => CancelStopsRetries
<1> DEFINE Kept == \A f \in cancelEvent \cap cancelEvent' : attempts'[f] = attempts[f]
<1>1. TypeOK /\ [Next]_vars => [Kept]_vars
  <2> SUFFICES ASSUME TypeOK, Next PROVE Kept
    BY DEF vars
  <2> USE DEF TypeOK
  <2>1. ASSUME NEW g \in Files, NEW n, NewJob(g, n) PROVE Kept
    BY <2>1 DEF NewJob
  <2>2. ASSUME NEW g, LoopHead(g), cancelEvent' = cancelEvent PROVE Kept
    <3>1. CASE attempts' = attempts
      BY <3>1
    <3>2. CASE g \notin cancelEvent /\ attempts' = [attempts EXCEPT ![g] = @ + 1]
      BY <3>2
    <3> QED
      BY <2>2, <3>1, <3>2 DEF LoopHead
  <2>3. CASE UNCHANGED attempts
    BY <2>3
  <2>4. CASE Take \/ Resume
    BY <2>2, <2>4 DEF Take, Resume
  <2>5. CASE Enqueue
    BY <2>1, <2>5 DEF Enqueue
  <2>6. CASE Crash
    BY <2>6 DEF Crash
  <2>7. ASSUME NEW f \in Files, AdminRetry(f) \/ Recover(f) PROVE Kept
    BY <2>1, <2>7 DEF AdminRetry, Recover
  <2> USE DEF jobs
  <2>8. CASE Commit \/ Progress \/ Flush \/ Transfer
    BY <2>3, <2>8 DEF Commit, Progress, Flush, Transfer, TransferEnds
  <2>9. ASSUME NEW f \in Files, Receive(f) \/ Cancel(f) PROVE Kept
    BY <2>3, <2>9 DEF Receive, Cancel
  <2>10. CASE AckFails \/ Restart \/ RecoveryDone
    BY <2>3, <2>10 DEF AckFails, Restart, RecoveryDone
  <2>11. CASE StartQueue \/ Announce \/ StopProgress \/ Complete \/ SettleCancelled \/ Fail
    BY <2>3, <2>11 DEF StartQueue, Announce, StopProgress, Complete, SettleCancelled, Fail
  <2>12. CASE BackOff \/ Edited \/ CompleteEdited \/ Prompt \/ PromptFails
    BY <2>3, <2>12 DEF BackOff, Edited, CompleteEdited, Prompt, PromptFails
  <2> QED
    BY <2>4, <2>5, <2>6, <2>7, <2>8, <2>9, <2>10, <2>11, <2>12
       DEF Next, Handlers, WorkerStep, Boot
<1> QED
  BY <1>1, TypeCorrect, PTL DEF Spec, CancelStopsRetries
=============================================================================
