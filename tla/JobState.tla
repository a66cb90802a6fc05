------------------------------ MODULE JobState ------------------------------
(***************************************************************************)
(* The lifecycle of a job (app/job_state.py): its states, the transitions  *)
(* the repository's guarded helpers accept, the terminal states and the    *)
(* restart and idempotency policies.  No state of its own.                 *)
(***************************************************************************)

JobStates == {"pending", "received", "queued", "downloading", "downloaded",
              "awaiting_rename", "awaiting_folder", "ready_for_upload",
              "uploading", "uploaded", "completed", "failed", "cancelled",
              "skipped"}

TerminalStates == {"completed", "cancelled", "skipped"}

\* Where a live job may always be sent: it fails or it is cancelled.
Stop == {"failed", "cancelled"}

ValidTransitions ==
  [s \in JobStates |->
     CASE s = "pending"          -> {"received"} \cup Stop
       [] s = "received"         -> {"queued", "ready_for_upload"} \cup Stop
       [] s = "queued"           -> {"downloading"} \cup Stop
       [] s = "downloading"      -> {"queued", "downloaded"} \cup Stop
       [] s = "downloaded"       -> {"awaiting_rename", "awaiting_folder",
                                     "ready_for_upload"} \cup Stop
       [] s = "awaiting_rename"  -> {"awaiting_folder", "ready_for_upload",
                                     "skipped"} \cup Stop
       [] s = "awaiting_folder"  -> {"ready_for_upload"} \cup Stop
       [] s = "ready_for_upload" -> {"uploading"} \cup Stop
       [] s = "uploading"        -> {"ready_for_upload", "uploaded"} \cup Stop
       [] s = "uploaded"         -> {"completed", "failed"}
       [] s = "failed"           -> {"queued", "ready_for_upload", "cancelled"}
       [] s \in TerminalStates   -> {}]

CanTransition(s, t) == t \in ValidTransitions[s]

\* Upload policy: a job whose Drive object is recorded is never uploaded.
ShouldStartUpload(s, hasDriveId) ==
  ~hasDriveId /\ s \in {"ready_for_upload", "uploading"}

\* What job_state.py says a row becomes after a restart.  No module of the
\* application calls it: recovery is written separately in the workers.
RecoveryState(s, hasDriveId) ==
  CASE s = "downloading"                -> "queued"
    [] s = "uploading" /\ hasDriveId    -> "uploaded"
    [] s = "uploading" /\ ~hasDriveId   -> "ready_for_upload"
    [] s = "uploaded" /\ ~hasDriveId    -> "ready_for_upload"
    [] OTHER                            -> s
=============================================================================
