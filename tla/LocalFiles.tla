----------------------------- MODULE LocalFiles -----------------------------
(***************************************************************************)
(* What the jobs do to the disk: the transfers of app/download_manager.py  *)
(* into tmp/ and their move into downloads/, the rename and skip handlers, *)
(* the uploader's reading and deleting, /cleanup_temp and the cleanup at   *)
(* startup.  The rows are kept by DownloadQueue and UploadWorker; here a   *)
(* job is only as far as its local file is concerned.                      *)
(*                                                                         *)
(* A final path is a name and the number unique_path appends to it.  Only  *)
(* awaits and the uploader's thread let another actor in between.          *)
(***************************************************************************)
EXTENDS Naturals, FiniteSets

CONSTANTS
  Files,     \* the media messages
  NoFile,    \* no file
  Cut,       \* the bytes of a transfer that ended early
  Names,     \* file names before unique_path
  OrigName,  \* the name each file was sent with
  TempOf,    \* for a name ending in .part or .temp the name without that
  MaxSuffix, \* bound on the number appended to a name
  NoPath,    \* local_path IS NULL
  BotApi,    \* files fetched by file id, not from their forward origin
  Sized,     \* files whose size Telegram states
  Strikes,   \* the faults that may strike
  MaxStruck  \* how many of them in one behaviour

Faults == {"crash",   \* the process dies
           "torn",    \* it dies between a rename on disk and its record
           "clash",   \* a file is renamed to the target of the running transfer
           "stale",   \* a rename reaches a job that has moved on
           "sibling", \* a job's clean-up deletes a file named like its temporary file
           "cleanup"} \* an administrator runs /cleanup_temp --confirm

ASSUME FilesAssumption == NoFile \notin Files /\ Cut \notin Files /\ Cut # NoFile
ASSUME NamesAssumption ==
  /\ OrigName \in [Files -> Names]
  /\ DOMAIN TempOf \subseteq Names /\ \A n \in DOMAIN TempOf : TempOf[n] \in Names
ASSUME SuffixAssumption == MaxSuffix \in Nat
ASSUME KindsAssumption == BotApi \subseteq Files /\ Sized \subseteq Files
ASSUME FaultsAssumption == Strikes \subseteq Faults /\ MaxStruck \in Nat

Paths == Names \X (0 .. MaxSuffix)

ASSUME PathAssumption == NoPath \notin Paths

VARIABLES
  disk,      \* downloads/: whose bytes are at a path
  part,      \* tmp/: what is in the file's .part or .part.temp
  localPath, \* downloads.local_path
  stage,     \* how far the job is
  current,   \* the file of the download worker's job
  target,    \* final_path of its running transfer
  cancelled, \* files whose cancel_event is set
  upload,    \* _UploadInput of the uploader's thread and the bytes it opened
  proc,      \* "down", "up"
  struck     \* the faults that have struck

vars == <<disk, part, localPath, stage, current, target, cancelled, upload, proc, struck>>

Stages == {"queued", "downloading", "moved", "awaiting", "ready", "uploading",
           "done", "failed", "cancelled", "skipped"}
Waiting == {"awaiting", "ready", "uploading"}
Idle == [file |-> NoFile, path |-> NoPath, bytes |-> NoFile]

Init ==
  /\ disk = [p \in Paths |-> NoFile]
  /\ part = [f \in Files |-> "none"]
  /\ localPath = [f \in Files |-> NoPath]
  /\ stage = [f \in Files |-> "queued"]
  /\ current = NoFile
  /\ target = NoPath
  /\ cancelled = {}
  /\ upload = Idle
  /\ proc = "up"
  /\ struck = {}

-----------------------------------------------------------------------------
(* Building blocks. *)

Strike(fault) ==
  /\ fault \in Strikes
  /\ Cardinality(struck) < MaxStruck \/ fault \in struck
  /\ struck' = struck \cup {fault}

Taken(p) == disk[p] # NoFile

\* Mutant: the name is used as it is, whether or not it is taken.
NameAsIs(name) == {p \in Paths : p[1] = name /\ p[2] = 0}

\* unique_path: the first free path of a name.  Empty only at the bound.
UniquePaths(name) ==
  {p \in Paths :
     /\ p[1] = name
     /\ ~Taken(p)
     /\ \A q \in Paths : q[1] = name /\ q[2] < p[2] => Taken(q)}

Without(p) == [disk EXCEPT ![p] = NoFile]

\* path.part, path.part.temp and path.temp, as far as they are final paths.
Siblings(p) ==
  {q \in Paths : q[1] \in DOMAIN TempOf /\ <<TempOf[q[1]], q[2]>> = p}

\* The paths a record stands for.
RecordPaths(f) == IF localPath[f] = NoPath THEN {} ELSE {localPath[f]} \cup Siblings(localPath[f])

\* Mutant: the finished job keeps its local file.
NoCleanup(f) == disk

\* _cleanup_uploaded_files deletes what the record names now.
AfterCleanup(f) == [p \in Paths |-> IF p \in RecordPaths(f) THEN NoFile ELSE disk[p]]

CleanUp(f) ==
  /\ disk' = AfterCleanup(f)
  /\ IF \E p \in RecordPaths(f) \ {localPath[f]} : Taken(p)
     THEN Strike("sibling") ELSE UNCHANGED struck

\* Mutant: the temporary file of a failed transfer is left behind.
PartsKept(f) == part

\* DownloadManager removes .part and .part.temp of a transfer that ends badly.
PartsAfter(f) == [part EXCEPT ![f] = "none"]

Up == proc = "up"

-----------------------------------------------------------------------------
(* The transfer. *)

\* DownloadManager.download as far as its first bytes: the final path is
\* chosen before the transfer, by the names on disk at this moment.
Start(f) ==
  /\ Up
  /\ stage[f] = "queued"
  /\ f \notin cancelled
  /\ current \in {NoFile, f}
  /\ \E p \in UniquePaths(OrigName[f]) : target' = p
  /\ current' = f
  /\ stage' = [stage EXCEPT ![f] = "downloading"]
  /\ part' = [part EXCEPT ![f] = "partial"]
  /\ UNCHANGED <<disk, localPath, cancelled, upload, proc, struck>>

\* The worker finds the job cancelled before the transfer.
DropCancelled(f) ==
  /\ Up
  /\ stage[f] = "queued"
  /\ f \in cancelled
  /\ current \in {NoFile, f}
  /\ current' = NoFile
  /\ target' = NoPath
  /\ stage' = [stage EXCEPT ![f] = "cancelled"]
  /\ UNCHANGED <<disk, part, localPath, cancelled, upload, proc, struck>>

Transferring(f) == Up /\ current = f /\ stage[f] = "downloading"

\* The last bytes arrive.
Fill(f) ==
  /\ Transferring(f)
  /\ part[f] = "partial"
  /\ part' = [part EXCEPT ![f] = "whole"]
  /\ UNCHANGED <<disk, localPath, stage, current, target, cancelled, upload, proc, struck>>

\* Telegram, the connection or the disk fails: DownloadError.  The worker
\* tries again, gives up, or finds the job cancelled.
Fail(f) ==
  /\ Transferring(f)
  /\ part' = PartsAfter(f)
  /\ \E s \in IF f \in cancelled THEN {"cancelled"} ELSE {"queued", "failed"} :
       /\ stage' = [stage EXCEPT ![f] = s]
       /\ current' = IF s = "queued" THEN f ELSE NoFile
  /\ target' = NoPath
  /\ UNCHANGED <<disk, localPath, cancelled, upload, proc, struck>>

\* The progress callback of a forward-origin transfer raises CancelledError.
Abort(f) ==
  /\ Transferring(f)
  /\ f \in cancelled \ BotApi
  /\ part[f] = "partial"
  /\ part' = PartsAfter(f)
  /\ stage' = [stage EXCEPT ![f] = "cancelled"]
  /\ current' = NoFile
  /\ target' = NoPath
  /\ UNCHANGED <<disk, localPath, cancelled, upload, proc, struck>>

\* Mutant: the size is not compared.
NotVerified(f) == part[f] \in {"partial", "whole"}

\* _verify_download_size: a stated size must match.
Verified(f) == part[f] = "whole" \/ (part[f] = "partial" /\ f \notin Sized)

\* _finalize_download moves the file over whatever the final path holds by
\* now.  Only then does the Bot API transfer report progress, once, and a
\* cancellation raised there leaves the moved file.
Move(f) ==
  /\ Transferring(f)
  /\ Verified(f)
  /\ disk' = [disk EXCEPT ![target] = IF part[f] = "whole" THEN f ELSE Cut]
  /\ part' = [part EXCEPT ![f] = "none"]
  /\ IF f \in cancelled \cap BotApi
     THEN /\ stage' = [stage EXCEPT ![f] = "cancelled"]
          /\ current' = NoFile
          /\ target' = NoPath
     ELSE /\ stage' = [stage EXCEPT ![f] = "moved"]
          /\ UNCHANGED <<current, target>>
  /\ UNCHANGED <<localPath, cancelled, upload, proc, struck>>

\* Mutant: the path is put together again from the name.
NameRecorded(f) == <<OrigName[f], 0>>

\* Mutant: the name is recorded instead of the path.
NameOnly(f) == OrigName[f]

\* The path the worker records.
Recorded(f) == target

\* mark_download_complete, after the progress task was awaited.
Record(f) ==
  /\ Up
  /\ stage[f] = "moved"
  /\ localPath' = [localPath EXCEPT ![f] = Recorded(f)]
  /\ stage' = [stage EXCEPT ![f] = "awaiting"]
  /\ current' = NoFile
  /\ target' = NoPath
  /\ UNCHANGED <<disk, part, cancelled, upload, proc, struck>>

\* DownloadQueue.cancel
Cancel(f) ==
  /\ Up
  /\ stage[f] \in {"queued", "downloading", "moved"}
  /\ f \notin cancelled
  /\ cancelled' = cancelled \cup {f}
  /\ UNCHANGED <<disk, part, localPath, stage, current, target, upload, proc, struck>>

-----------------------------------------------------------------------------
(* The handlers of the user's answers. *)

\* _rename_downloaded_file moves whatever lies at the recorded path; the rest
\* of _handle_rename_text makes the job await its folder.
RenameTo(f, p) ==
  /\ localPath[f] # NoPath
  /\ Taken(localPath[f])
  /\ disk' = [Without(localPath[f]) EXCEPT ![p] = disk[localPath[f]]]

Rename(f, name) ==
  /\ Up
  /\ \E p \in UniquePaths(name) :
       /\ RenameTo(f, p)
       /\ IF stage[f] # "awaiting" THEN Strike("stale")
          ELSE IF p = target THEN Strike("clash")
          ELSE UNCHANGED struck
       /\ localPath' = [localPath EXCEPT ![f] = p]
  /\ stage' = [stage EXCEPT ![f] = "awaiting"]
  /\ UNCHANGED <<part, current, target, cancelled, upload, proc>>

Stopped ==
  /\ proc' = "down"
  /\ current' = NoFile
  /\ target' = NoPath
  /\ upload' = Idle

\* The process dies after os.replace and before update_download_path.
TornRename(f, name) ==
  /\ Up
  /\ stage[f] = "awaiting"
  /\ \E p \in UniquePaths(name) : p # target /\ RenameTo(f, p)
  /\ Strike("torn")
  /\ Stopped
  /\ UNCHANGED <<part, localPath, stage, cancelled>>

\* Skip: the file stays on disk.
Skip(f) ==
  /\ Up
  /\ stage[f] = "awaiting"
  /\ stage' = [stage EXCEPT ![f] = "skipped"]
  /\ UNCHANGED <<disk, part, localPath, current, target, cancelled, upload, proc, struck>>

\* A folder is selected.
Choose(f) ==
  /\ Up
  /\ stage[f] = "awaiting"
  /\ stage' = [stage EXCEPT ![f] = "ready"]
  /\ UNCHANGED <<disk, part, localPath, current, target, cancelled, upload, proc, struck>>

-----------------------------------------------------------------------------
(* The upload worker. *)

\* _claim_and_upload with _resolve_upload_input: the path is read here and
\* used by the thread.  A missing file is an upload failure.
Claim(f) ==
  /\ Up
  /\ upload = Idle
  /\ stage[f] = "ready"
  /\ IF localPath[f] # NoPath /\ Taken(localPath[f])
     THEN /\ stage' = [stage EXCEPT ![f] = "uploading"]
          /\ upload' = [Idle EXCEPT !.file = f, !.path = localPath[f]]
     ELSE /\ stage' = [stage EXCEPT ![f] = "failed"]
          /\ UNCHANGED upload
  /\ UNCHANGED <<disk, part, localPath, current, target, cancelled, proc, struck>>

\* The thread opens the file.
Open ==
  /\ Up
  /\ upload.file # NoFile /\ upload.bytes = NoFile
  /\ Taken(upload.path)
  /\ upload' = [upload EXCEPT !.bytes = disk[upload.path]]
  /\ UNCHANGED <<disk, part, localPath, stage, current, target, cancelled, proc, struck>>

\* The upload is verified and finalized, or found cancelled: either way the
\* recorded file is deleted.  A job that left "uploading" otherwise ends the
\* worker's task with InvalidJobStateTransition.
Uploaded ==
  LET f == upload.file
  IN  /\ Up
      /\ upload.bytes # NoFile
      /\ CASE stage[f] = "uploading" ->
                stage' = [stage EXCEPT ![f] = "done"] /\ CleanUp(f)
           [] stage[f] = "cancelled" -> CleanUp(f) /\ UNCHANGED stage
           [] OTHER -> UNCHANGED <<disk, stage, struck>>
      /\ upload' = Idle
      /\ UNCHANGED <<part, localPath, current, target, cancelled, proc>>

\* Drive or the thread fails: the file is kept for a retry.
UploadFails ==
  LET f == upload.file
  IN  /\ Up
      /\ f # NoFile
      /\ CASE stage[f] = "uploading" ->
                /\ \E s \in {"ready", "failed"} : stage' = [stage EXCEPT ![f] = s]
                /\ UNCHANGED <<disk, struck>>
           [] stage[f] = "cancelled" -> CleanUp(f) /\ UNCHANGED stage
           [] OTHER -> UNCHANGED <<disk, stage, struck>>
      /\ upload' = Idle
      /\ UNCHANGED <<part, localPath, current, target, cancelled, proc>>

\* UploadWorker.cancel: the file of the active upload is left to the worker.
CancelUpload(f) ==
  /\ Up
  /\ stage[f] \in {"ready", "uploading"}
  /\ stage' = [stage EXCEPT ![f] = "cancelled"]
  /\ IF upload.file = f THEN UNCHANGED <<disk, struck>> ELSE CleanUp(f)
  /\ UNCHANGED <<part, localPath, current, target, cancelled, upload, proc>>

\* /retry_failed: an upload if the file was downloaded, else a download.
RetryFailed(f) ==
  /\ Up
  /\ stage[f] = "failed"
  /\ stage' = [stage EXCEPT ![f] = IF localPath[f] = NoPath THEN "queued" ELSE "ready"]
  /\ UNCHANGED <<disk, part, localPath, current, target, cancelled, upload, proc, struck>>

-----------------------------------------------------------------------------
(* The cleaners and the process. *)

\* Paths _repository_protected_paths keeps: those some record names.  The
\* path of a running transfer is in no record.
Protected(p) == \E f \in Files : p \in RecordPaths(f)

\* cleanup_orphaned_temp_files: every .part of tmp/, and in downloads/ the
\* files whose own name looks temporary.
CleanupTemp ==
  /\ Up
  /\ Strike("cleanup")
  /\ part' = [f \in Files |-> "none"]
  /\ disk' = [p \in Paths |->
                IF p[1] \in DOMAIN TempOf /\ ~Protected(p) THEN NoFile ELSE disk[p]]
  /\ UNCHANGED <<localPath, stage, current, target, cancelled, upload, proc>>

Crash ==
  /\ Up
  /\ Strike("crash")
  /\ Stopped
  /\ UNCHANGED <<disk, part, localPath, stage, cancelled>>

\* What recovery makes of a job.  A cancelled row is not recovered, unless a
\* late progress report had rewritten it (DownloadQueue).  A row that was being
\* sent stays "uploading"; one whose id was recorded counts as uploaded before.
Recovered(f) ==
  IF stage[f] \in {"queued", "downloading", "moved"}
  THEN IF f \in cancelled THEN {"cancelled", "queued"} ELSE {"queued"}
  ELSE {stage[f]}

\* cleanup_runtime_directory, then recovery.
Restart ==
  /\ proc = "down"
  /\ proc' = "up"
  /\ part' = [f \in Files |-> "none"]
  /\ stage' \in {s \in [Files -> Stages] : \A f \in Files : s[f] \in Recovered(f)}
  /\ cancelled' = {}
  /\ UNCHANGED <<disk, localPath, current, target, upload, struck>>

-----------------------------------------------------------------------------

Transfer(f) ==
  \/ Start(f) \/ DropCancelled(f) \/ Fill(f) \/ Fail(f) \/ Abort(f)
  \/ Move(f) \/ Record(f) \/ Cancel(f)

Answer(f) ==
  \/ \E n \in Names : Rename(f, n) \/ TornRename(f, n)
  \/ Skip(f) \/ Choose(f)

Upload(f) == Claim(f) \/ CancelUpload(f) \/ RetryFailed(f)

Next ==
  \/ \E f \in Files : Transfer(f) \/ Answer(f) \/ Upload(f)
  \/ Open \/ Uploaded \/ UploadFails
  \/ CleanupTemp \/ Crash \/ Restart

Spec == Init /\ [][Next]_vars

-----------------------------------------------------------------------------
(* What is checked. *)

Spared(faults) == faults \cap struck = {}

\* Every variable keeps to its values.
TypeOK ==
  /\ disk \in [Paths -> Files \cup {NoFile, Cut}]
  /\ part \in [Files -> {"none", "partial", "whole"}]
  /\ localPath \in [Files -> Paths \cup {NoPath}]
  /\ stage \in [Files -> Stages]
  /\ current \in Files \cup {NoFile}
  /\ target \in Paths \cup {NoPath}
  /\ cancelled \subseteq Files
  /\ upload \in [file : Files \cup {NoFile}, path : Paths \cup {NoPath},
                 bytes : Files \cup {NoFile, Cut}]
  /\ proc \in {"down", "up"}
  /\ struck \subseteq Strikes

\* The bytes that count as the file: a transfer whose size nobody stated may
\* end early unnoticed.
Own(f) == IF f \in Sized THEN {f} ELSE {f, Cut}

\* A job that awaits an answer or its upload finds its own bytes at the path
\* its record names, whatever the other job renames, moves, uploads or
\* deletes and wherever the process dies, unless a rename took the running
\* transfer's name, was cut in two or came late, /cleanup_temp ran, or the
\* file is named like the temporary file of a job that was cleaned up.
WaitingJobHasItsFile ==
  Spared({"clash", "torn", "stale", "cleanup", "sibling"}) =>
    \A f \in Files : stage[f] \in Waiting =>
      localPath[f] # NoPath /\ disk[localPath[f]] \in Own(f)

\* The uploader's thread never opens the bytes of another job, although the
\* path was read before the thread ran, unless a name was given away: by the
\* same renames and deletions.
UploadSendsOwnBytes ==
  Spared({"clash", "torn", "stale", "cleanup", "sibling"}) =>
    (upload.bytes # NoFile => upload.bytes \in Own(upload.file))

\* While the process runs tmp/ holds nothing but the running transfer's file:
\* failures, cancellations and crashes leave none behind.
PartsBelongToTransfer ==
  proc = "up" =>
    \A f \in Files : part[f] # "none" => current = f /\ stage[f] = "downloading"

\* An uploaded or cancelled job leaves no copy in downloads/, unless the
\* process died with it, its name was given away, or the cancellation met the
\* Bot API transfer's only progress report, which comes after the move.
SettledLeavesNothing ==
  Spared({"crash", "torn", "clash", "stale", "cleanup", "sibling"}) =>
    \A f \in Files :
      /\ upload.file # f
      /\ \/ stage[f] = "done"
         \/ stage[f] = "cancelled" /\ f \notin BotApi
      => \A p \in Paths : disk[p] # f

\* ADR 0001: a completed download is moved into downloads/ under a unique
\* final filename, so the move replaces no file.
MoveNeverOverwrites ==
  [][\A f \in Files :
       stage[f] = "downloading" /\ stage'[f] = "moved" => ~Taken(target)]_vars
=============================================================================
