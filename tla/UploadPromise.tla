---------------------------- MODULE UploadPromise ----------------------------
(***************************************************************************)
(* What the upload side promises for a file, without the worker, the       *)
(* thread, the retries or the restarts that keep the promise: the local    *)
(* copy is given up only once Google Drive holds the file or the owner     *)
(* gave it up, a stored file is never sent again, and an end is an end.    *)
(***************************************************************************)
CONSTANT Files

VARIABLES phase,  \* what became of the file
          copy    \* its local copy exists

Phases == {"waiting", "stored", "done", "failed", "cancelled", "skipped"}

Init == /\ phase = [f \in Files |-> "waiting"]
        /\ copy = [f \in Files |-> TRUE]

Goes(f, from, to) == phase[f] = from /\ phase'[f] = to
Keeps(f) == copy'[f] = copy[f]

Store(f)   == Goes(f, "waiting", "stored") /\ copy[f] /\ Keeps(f)
Finish(f)  == Goes(f, "stored", "done") /\ ~copy[f] /\ Keeps(f)
Fail(f)    == Goes(f, "waiting", "failed") /\ Keeps(f)
Resume(f)  == Goes(f, "failed", "waiting") /\ copy[f] /\ Keeps(f)
Skip(f)    == Goes(f, "waiting", "skipped") /\ Keeps(f)
Cancel(f)  == Goes(f, "waiting", "cancelled")
Discard(f) == phase[f] \in {"stored", "cancelled"} /\ phase'[f] = phase[f]
Rests(f)   == phase'[f] = phase[f] /\ Keeps(f)

\* Several files may move in one step: /retry_failed resumes all it can.
Next ==
  /\ phase' \in [Files -> Phases]
  /\ copy' \in [Files -> BOOLEAN]
  /\ \A f \in Files : /\ copy'[f] => copy[f]
                      /\ \/ Store(f) \/ Finish(f) \/ Fail(f) \/ Resume(f)
                         \/ Skip(f) \/ Cancel(f) \/ Discard(f) \/ Rests(f)

Spec == Init /\ [][Next]_<<phase, copy>>
=============================================================================
