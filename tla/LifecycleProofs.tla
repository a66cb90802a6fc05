--------------------------- MODULE LifecycleProofs ---------------------------
(* Proofs about Lifecycle, for any number of updates, rows and faults. *)
EXTENDS Lifecycle, TLAPS

USE BoundsAssumption, FaultsAssumption

Checking == {"create", "environment", "database", "directories",
             "telegram_bot_api", "pyrogram_session", "google_drive"}
StartupPoints == {"open_database", "abort", "recover"} \cup Checking

\* Up to the recovery there is no container, and nothing but the database and
\* the session was touched; a startup that ends there leaves it so.  Telegram
\* polls only when it was started.
StartupOK ==
  /\ pc = "start_telegram" => telegram # "polling"
  /\ pc \in StartupPoints => ~container
  /\ pc \notin StartupPoints \cup {"ended"} => container
  /\ ~container => /\ telegram = "off" /\ updates = 0
                   /\ downloader = "none" /\ uploader = "none" /\ ~unrecorded

\* The database is closed before the startup and at the end only.
DatabaseOK ==
  /\ database = "closed" => pc \in {"open_database", "ended"}
  /\ pc = "open_database" => session = "off"

\* How far the shutdown has come says who has stopped.
UsersOK ==
  /\ downloader = "dead" => "download" \in struck
  /\ pc \in {"stop_uploads", "await_uploads", "stop_polling", "stop_application",
             "stop_session", "close"} => downloader \in {"none", "stopped"}
  /\ pc \in {"stop_session", "close"} => telegram = "off" /\ updates = 0
  /\ pc = "close" => session = "off"

\* Once the uploads were waited for no upload runs, unless an update started
\* one or an exception had cut the shutdown short.
UploadsOK ==
  Spared({"late", "download", "stop"}) /\ pc \in {"stop_polling", "stop_application",
    "stop_session", "close", "ended"} => ~UploaderBusy

IInv ==
  /\ TypeOK /\ StartupOK /\ DatabaseOK /\ UsersOK /\ UploadsOK
  /\ DatabaseOutlivesItsUsers /\ FailedStartupLeavesNothing /\ ShutdownWaitsForUploads

-----------------------------------------------------------------------------
(* Facts about the points of run() and the faults. *)

LEMMA ValidationSteps ==
  /\ Len(Validation) = 7
  /\ DOMAIN Validation = 1 .. 7
  /\ \A i \in 1 .. 7 : Validation[i] \in Checking
  /\ Validation[1] = "create"
  /\ Checking = {Validation[i] : i \in DOMAIN Validation}
BY DEF Validation, Checking

LEMMA AllPoints ==
  Points = StartupPoints \cup Stopping
             \cup {"start_telegram", "start_workers", "wait", "ended"}
BY ValidationSteps DEF Points, StartupPoints

LEMMA Struck ==
  ASSUME NEW fault \in Faults, Strike(fault), struck \subseteq Strikes
  PROVE  struck' \subseteq Strikes /\ struck' = struck \cup {fault}
BY DEF Strike

-----------------------------------------------------------------------------
(* Every step keeps the invariant. *)

LEMMA InitIInv == Init => IInv
<1> SUFFICES ASSUME Init PROVE IInv OBVIOUS
<1>1. TypeOK
  <2>1. "open_database" \in Points
    BY AllPoints DEF StartupPoints
  <2>2. ready \in 0 .. MaxReady /\ sent \in 0 .. MaxUpdates /\ updates \in 0 .. sent
    BY DEF Init
  <2>3. container \in BOOLEAN /\ requested \in BOOLEAN /\ event \in BOOLEAN
        /\ (event => requested) /\ unrecorded \in BOOLEAN
    BY DEF Init
  <2> QED
    BY <2>1, <2>2, <2>3 DEF Init, TypeOK
<1>2. StartupOK /\ DatabaseOK /\ UsersOK /\ UploadsOK
  BY DEF Init, StartupOK, DatabaseOK, UsersOK, UploadsOK, StartupPoints, Checking
<1>3. DatabaseOutlivesItsUsers /\ FailedStartupLeavesNothing /\ ShutdownWaitsForUploads
  BY DEF Init, DatabaseOutlivesItsUsers, FailedStartupLeavesNothing, ShutdownWaitsForUploads
<1> QED
  BY <1>1, <1>2, <1>3 DEF IInv

LEMMA StartupKeeps ==
  ASSUME IInv, Startup
  PROVE  IInv'
<1> USE AllPoints
    DEF IInv, TypeOK, StartupOK, DatabaseOK, UsersOK, UploadsOK, StartupPoints,
        Checking, Stopping, DatabaseOutlivesItsUsers, FailedStartupLeavesNothing,
        ShutdownWaitsForUploads, Spared, UploaderBusy, Goto, clients, inbox, uploads, control
<1>1. CASE OpenDatabase
  BY <1>1, ValidationSteps DEF OpenDatabase
<1>2. ASSUME NEW i \in DOMAIN Validation, Validate(i)
      PROVE  IInv'
  BY <1>2, ValidationSteps DEF Validate
<1>3. CASE Recover
  BY <1>3 DEF Recover
<1>4. CASE StartTelegram
  <2>1. telegram \in {"off", "initialized", "started"}
    BY <1>4 DEF StartTelegram
  <2>2. NextTelegram[telegram] \in {"initialized", "started", "polling"}
    BY <2>1 DEF NextTelegram
  <2> QED
    BY <1>4, <2>2 DEF StartTelegram
<1>5. CASE StartWorkers
  BY <1>5 DEF StartWorkers, UploaderAfterStart
<1>6. CASE StartupAborted
  BY <1>6 DEF StartupAborted, SessionAfterStop, SessionRuns
<1> QED
  BY <1>1, <1>2, <1>3, <1>4, <1>5, <1>6 DEF Startup

LEMMA ShutdownKeeps ==
  ASSUME IInv, Shutdown
  PROVE  IInv'
<1> USE AllPoints
    DEF IInv, TypeOK, StartupOK, DatabaseOK, UsersOK, UploadsOK, StartupPoints,
        Checking, Stopping, DatabaseOutlivesItsUsers, FailedStartupLeavesNothing,
        ShutdownWaitsForUploads, Spared, UploaderBusy, Goto, Raise,
        clients, inbox, uploads, control
<1>1. CASE Woken
  BY <1>1 DEF Woken
<1>2. CASE StopDownloads
  <2>1. CASE downloader = "none"
    BY <1>2, <2>1 DEF StopDownloads
  <2>2. CASE downloader = "dead"
    BY <1>2, <2>2 DEF StopDownloads
  <2>3. CASE downloader \notin {"none", "dead"}
    BY <1>2, <2>3 DEF StopDownloads, Cancelled
  <2> QED
    BY <2>1, <2>2, <2>3
<1>3. CASE DownloadsStopped
  BY <1>3 DEF DownloadsStopped
<1>4. CASE StopUploads
  BY <1>4 DEF StopUploads, UploadWait
<1>5. CASE UploadsStopped
  <2>1. CASE uploader = "dead"
    BY <1>5, <2>1 DEF UploadsStopped
  <2>2. CASE uploader # "dead"
    BY <1>5, <2>2 DEF UploadsStopped
  <2> QED
    BY <2>1, <2>2
<1>6. CASE StopPolling
  BY <1>6 DEF StopPolling
<1>7. CASE StopApplication
  BY <1>7 DEF StopApplication, Handled
<1>8. CASE StopSession
  BY <1>8 DEF StopSession, SessionAfterStop, SessionRuns
<1>9. CASE Close
  BY <1>9 DEF Close
<1> QED
  BY <1>1, <1>2, <1>3, <1>4, <1>5, <1>6, <1>7, <1>8, <1>9 DEF Shutdown

LEMMA HandleKeeps ==
  ASSUME IInv, Handle
  PROVE  IInv'
<1> USE AllPoints
    DEF IInv, TypeOK, StartupOK, DatabaseOK, UsersOK, UploadsOK, StartupPoints,
        Checking, Stopping, DatabaseOutlivesItsUsers, FailedStartupLeavesNothing,
        ShutdownWaitsForUploads, Spared, UploaderBusy, Take, Running,
        main, clients, uploads, control
<1>1. CASE HandleOther
  BY <1>1 DEF HandleOther
<1>2. CASE HandleShutdown
  BY <1>2 DEF HandleShutdown, Request
<1>3. CASE HandleSelect
  <2>1. struck' \subseteq Strikes /\ struck \subseteq struck'
    BY <1>3, Struck DEF HandleSelect, Faults
  <2>2. UploadsWereStopped => "late" \in struck'
    BY <1>3, Struck DEF HandleSelect, Faults
  <2> QED
    BY <1>3, <2>1, <2>2 DEF HandleSelect, UploadsWereStopped, UploaderAfterStart
<1> QED
  BY <1>1, <1>2, <1>3 DEF Handle

LEMMA WorkersKeep ==
  ASSUME IInv, UploadTask \/ DownloadStep \/ DownloadEnds
  PROVE  IInv'
<1> USE AllPoints
    DEF IInv, TypeOK, StartupOK, DatabaseOK, UsersOK, UploadsOK, StartupPoints,
        Checking, Stopping, DatabaseOutlivesItsUsers, FailedStartupLeavesNothing,
        ShutdownWaitsForUploads, Spared, UploaderBusy, main, clients, inbox, uploads, control
<1>1. CASE Claim
  BY <1>1 DEF Claim
<1>2. CASE ThreadEnds
  <2>1. CASE database = "open" /\ pc # "ended"
    BY <1>2, <2>1 DEF ThreadEnds
  <2>2. CASE ~(database = "open" /\ pc # "ended")
    <3>1. pc \in {"open_database", "ended"}
      BY <2>2
    <3>2. container /\ pc = "ended"
      BY <1>2, <3>1 DEF ThreadEnds
    <3>3. ~Spared({"late", "download", "stop"})
      BY <1>2, <3>2 DEF ThreadEnds
    <3> QED
      BY <1>2, <2>2, <3>2, <3>3 DEF ThreadEnds
  <2> QED
    BY <2>1, <2>2
<1>3. CASE DownloadStep
  BY <1>3 DEF DownloadStep
<1>4. CASE DownloadEnds
  BY <1>4 DEF DownloadEnds
<1> QED
  BY <1>1, <1>2, <1>3, <1>4 DEF UploadTask

LEMMA EnvironmentKeeps ==
  ASSUME IInv, Environment \/ DelayPasses
  PROVE  IInv'
<1> USE AllPoints
    DEF IInv, TypeOK, StartupOK, DatabaseOK, UsersOK, UploadsOK, StartupPoints,
        Checking, Stopping, DatabaseOutlivesItsUsers, FailedStartupLeavesNothing,
        ShutdownWaitsForUploads, Spared, UploaderBusy, Goto, Raise, Faults,
        main, clients, inbox, uploads, control
<1>1. CASE OpenDatabaseFails
  BY <1>1, Struck DEF OpenDatabaseFails
<1>2. ASSUME NEW i \in DOMAIN Validation, ValidationFails(i)
      PROVE  IInv'
  <2>1. struck' \subseteq Strikes /\ struck' = struck \cup {"validation"}
    BY <1>2, Struck DEF ValidationFails
  <2>2. pc \in Checking
    BY <1>2, ValidationSteps DEF ValidationFails
  <2>3. session' \in {"off", "connected", "running"}
    BY <1>2 DEF ValidationFails, LeftBy
  <2> QED
    BY <1>2, <2>1, <2>2, <2>3 DEF ValidationFails
<1>3. CASE RecoverFails
  BY <1>3, Struck DEF RecoverFails
<1>4. CASE StartTelegramFails
  <2>1. struck' \subseteq Strikes /\ struck' = struck \cup {"polling"}
    BY <1>4, Struck DEF StartTelegramFails
  <2> QED
    BY <1>4, <2>1 DEF StartTelegramFails
<1>5. CASE StopRaises
  <2>1. struck' \subseteq Strikes /\ struck' = struck \cup {"stop"}
    BY <1>5, Struck DEF StopRaises
  <2> QED
    BY <1>5, <2>1 DEF StopRaises
<1>6. CASE UploadDies
  <2>1. struck' \subseteq Strikes /\ struck' = struck \cup {"upload"}
    BY <1>6, Struck DEF UploadDies
  <2> QED
    BY <1>6, <2>1 DEF UploadDies
<1>7. CASE DownloadDies
  <2>1. struck' \subseteq Strikes /\ struck' = struck \cup {"download"}
    BY <1>7, Struck DEF DownloadDies
  <2> QED
    BY <1>7, <2>1 DEF DownloadDies
<1>8. CASE Signal
  BY <1>8 DEF Signal, Request
<1>9. CASE Fetch
  BY <1>9 DEF Fetch
<1>10. CASE DelayPasses
  BY <1>10 DEF DelayPasses
<1>11. CASE AbortRaises
  <2>1. struck' \subseteq Strikes /\ struck' = struck \cup {"stop"}
    BY <1>11, Struck DEF AbortRaises
  <2> QED
    BY <1>11, <2>1 DEF AbortRaises
<1> QED
  BY <1>1, <1>2, <1>3, <1>4, <1>5, <1>6, <1>7, <1>8, <1>9, <1>10, <1>11 DEF Environment

\* The invariant is inductive.
THEOREM Invariance == Spec => []IInv
<1>1. IInv /\ [Next]_vars => IInv'
  <2> SUFFICES ASSUME IInv, [Next]_vars PROVE IInv' OBVIOUS
  <2>1. CASE UNCHANGED vars
    BY <2>1 DEF vars, main, clients, inbox, uploads, control, IInv, TypeOK, StartupOK,
       DatabaseOK, UsersOK, UploadsOK, DatabaseOutlivesItsUsers,
       FailedStartupLeavesNothing, ShutdownWaitsForUploads, Spared, UploaderBusy
  <2>2. CASE Next
    BY <2>2, StartupKeeps, ShutdownKeeps, HandleKeeps, WorkersKeep, EnvironmentKeeps
       DEF Next
  <2> QED
    BY <2>1, <2>2
<1> QED
  BY <1>1, InitIInv, PTL DEF Spec

-----------------------------------------------------------------------------

\* Every variable of the process keeps to its values.
THEOREM TypeCorrect == Spec => []TypeOK
BY Invariance, PTL DEF IInv

\* The order of the shutdown closes the database after its users, whichever
\* faults strike and whenever the shutdown is requested.
THEOREM DatabaseOutlives == Spec => []DatabaseOutlivesItsUsers
BY Invariance, PTL DEF IInv

\* A validation that fails at any step leaves neither session nor connection,
\* unless stopping the session it left raises.
THEOREM FailedStartupIsClean == Spec => []FailedStartupLeavesNothing
BY Invariance, PTL DEF IInv

\* Whatever is uploaded when the shutdown begins is recorded before it ends,
\* unless an update comes late or an exception cuts the shutdown short.
THEOREM UploadsAreAwaited == Spec => []ShutdownWaitsForUploads
BY Invariance, PTL DEF IInv
=============================================================================
