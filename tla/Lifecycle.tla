------------------------------ MODULE Lifecycle ------------------------------
(***************************************************************************)
(* One run of the process: app/lifecycle.py with the startup validation,   *)
(* the database connection, the Pyrogram session, the shutdown controller  *)
(* and the starting and stopping of the two workers.                       *)
(*                                                                         *)
(* The coroutine of run() is "pc".  Beside it run the Telegram handlers,   *)
(* the upload worker's task and its thread, and the download worker.       *)
(***************************************************************************)
EXTENDS Naturals, Sequences, FiniteSets

CONSTANTS
  MaxUpdates, \* bound on the updates Telegram delivers
  MaxReady,   \* bound on the rows ready for upload
  Strikes,    \* the faults that may strike
  MaxStruck   \* how many of them in one run

Faults == {"validation", \* a validation step fails
           "early",      \* the database or recovery fails during startup
           "polling",    \* start_telegram fails
           "download",   \* the download worker's task ends with an exception
           "upload",     \* the upload worker's task does
           "stop",       \* stopping Telegram or Pyrogram raises, also in a failed startup
           "late"}       \* an update starts uploads after they were stopped

ASSUME BoundsAssumption == MaxUpdates \in Nat /\ MaxReady \in Nat \ {0}
ASSUME FaultsAssumption == Strikes \subseteq Faults /\ MaxStruck \in Nat

VARIABLES
  pc,         \* where run() is
  container,  \* startup returned its container
  database,   \* the SQLite connection: "open", "closed"
  session,    \* the Pyrogram client: "off", "connected", "running"
  telegram,   \* "off", "initialized", "started", "polling"
  updates,    \* updates not yet handled
  sent,       \* updates delivered so far
  downloader, \* _worker of DownloadQueue
  uploader,   \* _task of UploadWorker and, while "uploading", its thread
  ready,      \* rows ready for upload
  requested,  \* ShutdownController._requested
  event,      \* ShutdownController._event is set
  unrecorded, \* a Drive object was created and its id not recorded
  struck      \* the faults that have struck

main     == <<pc, container>>
clients  == <<session, telegram>>
inbox    == <<updates, sent>>
uploads  == <<uploader, ready, unrecorded>>
control  == <<requested, event>>
vars == <<main, database, clients, inbox, downloader, uploads, control, struck>>

\* _STEPS of the startup validation, after the clients were created.
Validation == <<"create", "environment", "database", "directories",
                "telegram_bot_api", "pyrogram_session", "google_drive">>
Stopping == {"stop_downloads", "await_downloads", "stop_uploads", "await_uploads",
             "stop_polling", "stop_application", "stop_session", "close"}
Points == {"open_database", "abort", "recover", "start_telegram", "start_workers", "wait", "ended"}
            \cup {Validation[i] : i \in DOMAIN Validation} \cup Stopping

Init ==
  /\ pc = "open_database"
  /\ container = FALSE
  /\ database = "closed"
  /\ session = "off"
  /\ telegram = "off"
  /\ updates = 0
  /\ sent = 0
  /\ downloader = "none"
  /\ uploader = "none"
  /\ ready \in 0 .. 1
  /\ requested = FALSE
  /\ event = FALSE
  /\ unrecorded = FALSE
  /\ struck = {}

-----------------------------------------------------------------------------
(* Building blocks. *)

Strike(fault) ==
  /\ fault \in Strikes
  /\ Cardinality(struck) < MaxStruck \/ fault \in struck
  /\ struck' = struck \cup {fault}

Goto(point) == pc' = point /\ UNCHANGED container

\* Mutant: only a session that passed its validation counts.
SessionValidated(s) == s = "running"

\* is_running: also a client that connected and then failed its validation.
SessionRuns(s) == s # "off"

\* _stop_pyrogram
SessionAfterStop(s) == IF SessionRuns(s) THEN "off" ELSE s

UploaderBusy == uploader \in {"draining", "uploading"}

\* UploadWorker.start: no second task beside a running one.
UploaderAfterStart == IF UploaderBusy THEN uploader ELSE "draining"

-----------------------------------------------------------------------------
(* startup *)

OpenDatabase ==
  /\ pc = "open_database"
  /\ database' = "open"
  /\ Goto(Validation[1])
  /\ UNCHANGED <<clients, inbox, downloader, uploads, control, struck>>

\* The connection or the migration fails, outside startup's try.
OpenDatabaseFails ==
  /\ pc = "open_database"
  /\ Strike("early")
  /\ \E d \in {"open", "closed"} : database' = d
  /\ Goto("ended")
  /\ UNCHANGED <<clients, inbox, downloader, uploads, control>>

\* Creating the clients and the six steps, in order; the fifth starts the
\* session.
Validate(i) ==
  /\ pc = Validation[i]
  /\ Goto(IF i = Len(Validation) THEN "recover" ELSE Validation[i + 1])
  /\ session' = IF pc = "pyrogram_session" THEN "running" ELSE session
  /\ UNCHANGED <<database, telegram, inbox, downloader, uploads, control, struck>>

\* In which states a failing step may leave the session.  Starting it may fail
\* before it is connected; after that, if it cannot tell who it is and was not
\* initialized, or if it belongs to a bot; or, when it runs, if its dialogs
\* cannot be read.
LeftBy(step) ==
  IF step = "pyrogram_session" THEN {"off", "connected", "running"} ELSE {session}

ValidationFails(i) ==
  /\ pc = Validation[i]
  /\ Strike("validation")
  /\ session' \in LeftBy(pc)
  /\ Goto("abort")
  /\ UNCHANGED <<database, telegram, inbox, downloader, uploads, control>>

\* startup stops the session, closes the database and raises.
StartupAborted ==
  /\ pc = "abort"
  /\ session' = SessionAfterStop(session)
  /\ database' = "closed"
  /\ Goto("ended")
  /\ UNCHANGED <<telegram, inbox, downloader, uploads, control, struck>>

\* Stopping the session raises, as it does when the client is connected and not
\* initialized: nothing catches it, and the database is not closed.
AbortRaises ==
  /\ pc = "abort"
  /\ SessionRuns(session)
  /\ Strike("stop")
  /\ Goto("ended")
  /\ UNCHANGED <<database, clients, inbox, downloader, uploads, control>>

\* run_startup_recovery, and the container.
Recover ==
  /\ pc = "recover"
  /\ pc' = "start_telegram"
  /\ container' = TRUE
  /\ UNCHANGED <<database, clients, inbox, downloader, uploads, control, struck>>

\* Recovery raises: there is no container, and shutdown does nothing.
RecoverFails ==
  /\ pc = "recover"
  /\ Strike("early")
  /\ Goto("ended")
  /\ UNCHANGED <<database, clients, inbox, downloader, uploads, control>>

NextTelegram == [off |-> "initialized", initialized |-> "started", started |-> "polling"]

\* start_telegram: initialize, start, start_polling.
StartTelegram ==
  /\ pc = "start_telegram"
  /\ telegram' = NextTelegram[telegram]
  /\ Goto(IF telegram' = "polling" THEN "start_workers" ELSE pc)
  /\ UNCHANGED <<database, session, inbox, downloader, uploads, control, struck>>

StartTelegramFails ==
  /\ pc = "start_telegram"
  /\ Strike("polling")
  /\ Goto("stop_downloads")
  /\ UNCHANGED <<database, clients, inbox, downloader, uploads, control>>

\* Both workers and the signal handlers.
StartWorkers ==
  /\ pc = "start_workers"
  /\ downloader' = "idle"
  /\ uploader' = UploaderAfterStart
  /\ Goto("wait")
  /\ UNCHANGED <<database, clients, inbox, ready, unrecorded, control, struck>>

-----------------------------------------------------------------------------
(* ShutdownController *)

\* Mutant: the event is set and the request not remembered.
RequestForgotten == event' = TRUE /\ UNCHANGED requested

\* The first request counts; its event is set a moment later.
Request == requested' = TRUE /\ UNCHANGED event

\* SIGINT or SIGTERM once the handlers are installed.
Signal ==
  /\ pc \in Stopping \cup {"wait"} /\ downloader # "none"
  /\ ~requested
  /\ Request
  /\ UNCHANGED <<main, database, clients, inbox, downloader, uploads, struck>>

DelayPasses ==
  /\ requested /\ ~event
  /\ event' = TRUE
  /\ UNCHANGED <<main, database, clients, inbox, downloader, uploads, requested, struck>>

Woken ==
  /\ pc = "wait"
  /\ event
  /\ Goto("stop_downloads")
  /\ UNCHANGED <<database, clients, inbox, downloader, uploads, control, struck>>

-----------------------------------------------------------------------------
(* shutdown *)

\* An exception of one step skips the rest.
Raise == Goto("ended")

\* Mutant: the worker is awaited and not cancelled.
NotCancelled == downloader

Cancelled == "cancelled"

\* DownloadQueue.stop cancels the worker and awaits it; awaiting a task that
\* died raises what it died of.
StopDownloads ==
  /\ pc = "stop_downloads"
  /\ CASE downloader = "none" -> Goto("stop_uploads") /\ UNCHANGED downloader
       [] downloader = "dead" -> Raise /\ UNCHANGED downloader
       [] OTHER -> downloader' = Cancelled /\ Goto("await_downloads")
  /\ UNCHANGED <<database, clients, inbox, uploads, control, struck>>

\* Mutant: the cancelled worker is not awaited.
DownloadsNotAwaited ==
  /\ pc = "await_downloads"
  /\ Goto("stop_uploads")
  /\ UNCHANGED <<database, clients, inbox, downloader, uploads, control, struck>>

DownloadsStopped ==
  /\ pc = "await_downloads"
  /\ downloader = "stopped"
  /\ Goto("stop_uploads")
  /\ UNCHANGED <<database, clients, inbox, downloader, uploads, control, struck>>

\* Mutant: the worker is not waited for.
NoUploadWait == FALSE

\* UploadWorker.stop waits, shielded, for a task that still runs.
UploadWait == UploaderBusy

StopUploads ==
  /\ pc = "stop_uploads"
  /\ Goto(IF UploadWait THEN "await_uploads" ELSE "stop_polling")
  /\ UNCHANGED <<database, clients, inbox, downloader, uploads, control, struck>>

UploadsStopped ==
  /\ pc = "await_uploads"
  /\ ~UploaderBusy
  /\ IF uploader = "dead" THEN Raise ELSE Goto("stop_polling")
  /\ UNCHANGED <<database, clients, inbox, downloader, uploads, control, struck>>

\* updater.stop: no more updates are fetched.
StopPolling ==
  /\ pc = "stop_polling"
  /\ telegram' = IF telegram = "polling" THEN "started" ELSE telegram
  /\ Goto("stop_application")
  /\ UNCHANGED <<database, session, inbox, downloader, uploads, control, struck>>

\* application.stop handles the updates already fetched.
Handled == updates = 0

\* application.stop and application.shutdown.
StopApplication ==
  /\ pc = "stop_application"
  /\ Handled
  /\ telegram' = "off"
  /\ Goto("stop_session")
  /\ UNCHANGED <<database, session, inbox, downloader, uploads, control, struck>>

StopSession ==
  /\ pc = "stop_session"
  /\ session' = SessionAfterStop(session)
  /\ Goto("close")
  /\ UNCHANGED <<database, telegram, inbox, downloader, uploads, control, struck>>

StopRaises ==
  /\ pc \in {"stop_polling", "stop_application", "stop_session"}
  /\ Strike("stop")
  /\ Raise
  /\ UNCHANGED <<database, clients, inbox, downloader, uploads, control>>

\* The task manager has no tasks; the database is closed.
Close ==
  /\ pc = "close"
  /\ database' = "closed"
  /\ Goto("ended")
  /\ UNCHANGED <<clients, inbox, downloader, uploads, control, struck>>

-----------------------------------------------------------------------------
(* Telegram's updates and their handlers. *)

Running == telegram \in {"started", "polling"} /\ pc # "ended"

Fetch ==
  /\ telegram = "polling" /\ pc # "ended"
  /\ sent < MaxUpdates
  /\ sent' = sent + 1
  /\ updates' = updates + 1
  /\ UNCHANGED <<main, database, clients, downloader, uploads, control, struck>>

Take == Running /\ updates > 0 /\ updates' = updates - 1 /\ UNCHANGED sent

\* A handler that touches neither worker, but the database.
HandleOther ==
  /\ Take
  /\ UNCHANGED <<main, database, clients, downloader, uploads, control, struck>>

\* request_shutdown of /shutdown.
HandleShutdown ==
  /\ Take
  /\ ~requested
  /\ Request
  /\ UNCHANGED <<main, database, clients, downloader, uploads, struck>>

UploadsWereStopped == pc \in {"stop_polling", "stop_application", "stop_session", "close"}

\* A folder is selected, or /retry_failed queues an upload: start().
HandleSelect ==
  /\ Take
  /\ ready < MaxReady
  /\ ready' = ready + 1
  /\ uploader' = UploaderAfterStart
  /\ IF UploadsWereStopped THEN Strike("late") ELSE UNCHANGED struck
  /\ UNCHANGED <<main, database, clients, downloader, unrecorded, control>>

-----------------------------------------------------------------------------
(* The workers. *)

\* run_until_idle takes the next row; its first query fails on a closed
\* database.
Claim ==
  /\ pc # "ended"
  /\ uploader = "draining"
  /\ IF database = "closed"
     THEN uploader' = "dead" /\ UNCHANGED ready
     ELSE IF ready > 0
     THEN uploader' = "uploading" /\ ready' = ready - 1
     ELSE uploader' = "done" /\ UNCHANGED ready
  /\ UNCHANGED <<main, database, clients, inbox, downloader, unrecorded, control, struck>>

\* The thread creates the Drive object.  Its id is recorded by the task, which
\* asyncio.run has cancelled once run() ended and which needs the database.
ThreadEnds ==
  /\ uploader = "uploading"
  /\ IF database = "open" /\ pc # "ended"
     THEN uploader' = "draining" /\ UNCHANGED unrecorded
     ELSE uploader' = "dead" /\ unrecorded' = TRUE
  /\ UNCHANGED <<main, database, clients, inbox, downloader, ready, control, struck>>

UploadDies ==
  /\ pc # "ended"
  /\ uploader = "draining"
  /\ Strike("upload")
  /\ uploader' = "dead"
  /\ UNCHANGED <<main, database, clients, inbox, downloader, ready, unrecorded, control>>

\* The download worker between jobs, in a job, and cancelled.
DownloadStep ==
  /\ pc # "ended"
  /\ \/ downloader = "idle" /\ downloader' = "busy"
     \/ downloader = "busy" /\ downloader' = "idle"
  /\ UNCHANGED <<main, database, clients, inbox, uploads, control, struck>>

DownloadDies ==
  /\ pc # "ended"
  /\ downloader = "busy"
  /\ Strike("download")
  /\ downloader' = "dead"
  /\ UNCHANGED <<main, database, clients, inbox, uploads, control>>

DownloadEnds ==
  /\ pc # "ended"
  /\ downloader = "cancelled"
  /\ downloader' = "stopped"
  /\ UNCHANGED <<main, database, clients, inbox, uploads, control, struck>>

-----------------------------------------------------------------------------

Startup ==
  \/ OpenDatabase
  \/ \E i \in DOMAIN Validation : Validate(i)
  \/ StartupAborted
  \/ Recover \/ StartTelegram \/ StartWorkers

Shutdown ==
  \/ Woken \/ StopDownloads \/ DownloadsStopped \/ StopUploads \/ UploadsStopped
  \/ StopPolling \/ StopApplication \/ StopSession \/ Close

Handle == HandleOther \/ HandleShutdown \/ HandleSelect

UploadTask == Claim \/ ThreadEnds

Environment ==
  \/ OpenDatabaseFails
  \/ \E i \in DOMAIN Validation : ValidationFails(i)
  \/ AbortRaises \/ RecoverFails \/ StartTelegramFails \/ StopRaises
  \/ UploadDies \/ DownloadDies
  \/ Signal \/ Fetch

Next ==
  \/ Startup \/ Shutdown \/ Handle \/ UploadTask \/ DelayPasses
  \/ DownloadStep \/ DownloadEnds \/ Environment

Spec == Init /\ [][Next]_vars

\* The event loop runs every task that can run; threads and timers end.
FairSpec ==
  /\ Spec
  /\ WF_vars(Startup) /\ WF_vars(Shutdown) /\ WF_vars(DelayPasses)
  /\ WF_vars(Handle) /\ WF_vars(UploadTask) /\ WF_vars(DownloadEnds)

-----------------------------------------------------------------------------
(* What is checked. *)

Spared(faults) == faults \cap struck = {}

\* Every variable keeps to its values.
TypeOK ==
  /\ pc \in Points
  /\ container \in BOOLEAN
  /\ database \in {"open", "closed"}
  /\ session \in {"off", "connected", "running"}
  /\ telegram \in {"off", "initialized", "started", "polling"}
  /\ sent \in 0 .. MaxUpdates
  /\ updates \in 0 .. sent
  /\ downloader \in {"none", "idle", "busy", "cancelled", "stopped", "dead"}
  /\ uploader \in {"none", "draining", "uploading", "done", "dead"}
  /\ ready \in 0 .. MaxReady
  /\ requested \in BOOLEAN /\ event \in BOOLEAN
  /\ event => requested
  /\ unrecorded \in BOOLEAN
  /\ struck \subseteq Strikes

\* Whoever uses the database has stopped before it is closed: no update waits
\* for a handler, the download worker and the session are gone.
DatabaseOutlivesItsUsers ==
  database = "closed" /\ container =>
    /\ updates = 0 /\ telegram = "off"
    /\ downloader \in {"none", "stopped"}
    /\ session = "off"

\* A startup that fails in its validation leaves neither a session nor a
\* connection, whichever step failed and in whatever state it left the session,
\* as long as stopping that session does not raise.
FailedStartupLeavesNothing ==
  pc = "ended" /\ ~container /\ Spared({"early", "stop"}) =>
    database = "closed" /\ session = "off"

\* The id of every Drive object is recorded although a shutdown may begin at
\* any moment, unless an update starts uploads after the worker was stopped
\* or an exception cuts the shutdown short.
ShutdownWaitsForUploads == Spared({"late", "download", "stop"}) => ~unrecorded

\* A requested shutdown ends the process with the database closed, unless a
\* worker died or a stopping service raised.
ShutdownCompletes ==
  (requested /\ Spared({"download", "upload", "stop"})) ~>
    \/ pc = "ended" /\ database = "closed"
    \/ ~Spared({"download", "upload", "stop"})

\* ADR 0001: a graceful shutdown waits for an active upload instead of leaving
\* a remote file without its record.
EveryUploadIsRecorded == ~unrecorded
=============================================================================
