--------------------------- MODULE MCUploadWorker ---------------------------
(* Instances of UploadWorker for TLC: two files, one of unknown size. *)
EXTENDS UploadWorker

CONSTANTS f1, f2

MCFiles == {f1, f2}
MCSizeKnown == {f1}

Faulty == [crash |-> 1, stale |-> 1, oserror |-> 1, retry |-> 0]
NoStaleTap == [crash |-> 1, stale |-> 0, oserror |-> 0, retry |-> 1]
OneCrash == [crash |-> 1, stale |-> 0, oserror |-> 0, retry |-> 0]
=============================================================================
