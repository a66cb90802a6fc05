-------------------------- MODULE LocalFilesProofs --------------------------
(* Proofs about LocalFiles, for every set of files and names and any faults. *)
EXTENDS LocalFiles, TLAPS

USE FilesAssumption, NamesAssumption, SuffixAssumption, KindsAssumption,
    FaultsAssumption, PathAssumption

\* The faults after which a name may have been given away.
Given == Spared({"clash", "torn", "stale", "cleanup", "sibling"})

Early == {"queued", "downloading", "moved"}

\* A job has a recorded path exactly from the end of its transfer.
StageOK ==
  /\ \A f \in Files : stage[f] \in Early => localPath[f] = NoPath
  /\ \A f \in Files : stage[f] \in Waiting => localPath[f] # NoPath

\* There is one transfer at a time, and it has a target.
TransferOK ==
  /\ proc = "down" => current = NoFile /\ upload = Idle
  /\ current = NoFile => target = NoPath
  /\ current # NoFile => stage[current] \in Early
  /\ current # NoFile => (stage[current] \in {"downloading", "moved"} => target # NoPath)
  /\ proc = "up" => \A f \in Files : stage[f] \in {"downloading", "moved"} => current = f

\* The jobs whose file is still needed: they wait, were given up for now, or
\* the uploader's thread has their path.
Holds(f) ==
  localPath[f] # NoPath /\ (stage[f] \in Waiting \cup {"failed"} \/ upload.file = f)

\* Each of them has its own bytes at a path of its own.
HoldersOK ==
  Given =>
    /\ \A f \in Files : Holds(f) => disk[localPath[f]] \in Own(f)
    /\ \A f, g \in Files : f # g /\ Holds(f) /\ Holds(g) => localPath[f] # localPath[g]

\* The target of a transfer is free until the move, and then the job's.
TargetOK ==
  Given /\ current # NoFile =>
    /\ stage[current] = "downloading" => ~Taken(target)
    /\ stage[current] = "moved" =>
         /\ disk[target] \in Own(current)
         /\ \A g \in Files : Holds(g) => localPath[g] # target

\* The path the thread was given is still the recorded one.
UploadOK ==
  /\ upload.file = NoFile => upload = Idle
  /\ upload.file # NoFile => upload.path \in Paths /\ localPath[upload.file] # NoPath
  /\ Given /\ upload.file # NoFile =>
       /\ stage[upload.file] \in {"uploading", "cancelled"}
       /\ upload.path = localPath[upload.file]
       /\ upload.bytes # NoFile => upload.bytes \in Own(upload.file)

IInv ==
  /\ TypeOK /\ StageOK /\ TransferOK /\ HoldersOK /\ TargetOK /\ UploadOK
  /\ PartsBelongToTransfer

-----------------------------------------------------------------------------
(* What the operators on paths and bytes return. *)

LEMMA OwnBytes ==
  ASSUME NEW f \in Files
  PROVE  f \in Own(f) /\ NoFile \notin Own(f) /\ Own(f) \subseteq Files \cup {Cut}
BY DEF Own

LEMMA Free ==
  ASSUME NEW name, NEW p \in UniquePaths(name)
  PROVE  p \in Paths /\ disk[p] = NoFile /\ p # NoPath
BY DEF UniquePaths, Taken

LEMMA StrikeKeeps ==
  ASSUME NEW fault, Strike(fault)
  PROVE  struck' = struck \cup {fault} /\ fault \in Strikes /\ (Given' => Given)
BY DEF Strike, Given, Spared

\* Without a sibling struck only the recorded path of a job is cleaned.
LEMMA CleanedPath ==
  ASSUME TypeOK, NEW f \in Files, localPath[f] # NoPath, CleanUp(f)
  PROVE  /\ disk' \in [Paths -> Files \cup {NoFile, Cut}]
         /\ struck' \subseteq Strikes
         /\ Given' => Given
         /\ Given' => \A p \in Paths :
              disk'[p] = IF p = localPath[f] THEN NoFile ELSE disk[p]
<1>1. disk' \in [Paths -> Files \cup {NoFile, Cut}]
  BY DEF CleanUp, AfterCleanup, TypeOK
<1>2. CASE \E p \in RecordPaths(f) \ {localPath[f]} : Taken(p)
  <2>1. Strike("sibling")
    BY <1>2 DEF CleanUp
  <2>2. struck' = struck \cup {"sibling"} /\ "sibling" \in Strikes
    BY <2>1 DEF Strike
  <2> QED
    BY <1>1, <2>2 DEF Given, Spared, TypeOK
<1>3. CASE ~\E p \in RecordPaths(f) \ {localPath[f]} : Taken(p)
  <2>1. struck' = struck
    BY <1>3 DEF CleanUp
  <2>2. localPath[f] \in RecordPaths(f)
    BY DEF RecordPaths
  <2>3. ASSUME NEW p \in Paths
        PROVE  disk'[p] = IF p = localPath[f] THEN NoFile ELSE disk[p]
    <3>1. disk'[p] = IF p \in RecordPaths(f) THEN NoFile ELSE disk[p]
      BY DEF CleanUp, AfterCleanup
    <3> QED
      BY <1>3, <2>2, <3>1 DEF Taken
  <2> QED
    BY <1>1, <2>1, <2>3 DEF Given, Spared, TypeOK
<1> QED
  BY <1>2, <1>3

-----------------------------------------------------------------------------
(* Every step keeps the invariant. *)

LEMMA InitIInv == Init => IInv
<1> SUFFICES ASSUME Init PROVE IInv OBVIOUS
<1>1. TypeOK
  BY DEF Init, TypeOK, Stages, Idle
<1>2. StageOK /\ TransferOK /\ PartsBelongToTransfer
  BY DEF Init, StageOK, TransferOK, PartsBelongToTransfer, Waiting, Early
<1>3. HoldersOK /\ TargetOK /\ UploadOK
  BY DEF Init, HoldersOK, TargetOK, UploadOK, Holds, Idle
<1> QED
  BY <1>1, <1>2, <1>3 DEF IInv

\* What a step of a transfer keeps that leaves the records and the thread alone.
LEMMA Frame ==
  ASSUME IInv, TypeOK', UNCHANGED <<localPath, upload, struck>>,
         \A g \in Files : stage'[g] # stage[g] =>
           /\ stage[g] \in Early
           /\ stage'[g] \in Early \cup {"failed", "cancelled"}
  PROVE  /\ StageOK' /\ UploadOK' /\ Given' = Given
         /\ \A g \in Files : Holds(g)' = Holds(g)
         /\ disk' = disk => HoldersOK'
<1>1. StageOK'
  BY DEF IInv, TypeOK, StageOK, Early, Waiting
<1>2. Given' = Given
  BY DEF Given, Spared
<1>3. \A g \in Files : Holds(g)' = Holds(g)
  BY DEF IInv, StageOK, Holds, Early, Waiting
<1>4. disk' = disk => HoldersOK'
  BY <1>2, <1>3 DEF IInv, HoldersOK, Own
<1>5. upload.file \in Files \cup {NoFile} /\ (upload.file # NoFile => localPath[upload.file] # NoPath)
  BY DEF IInv, TypeOK, UploadOK
<1>6. upload.file # NoFile => stage'[upload.file] = stage[upload.file]
  BY <1>5 DEF IInv, StageOK
<1>7. UploadOK'
  BY <1>2, <1>5, <1>6 DEF IInv, UploadOK
<1> QED
  BY <1>1, <1>2, <1>3, <1>4, <1>7

\* The steps of a transfer that change neither downloads/ nor a record.
LEMMA StartKeeps ==
  ASSUME IInv, NEW f \in Files, Start(f)
  PROVE  IInv'
<1>1. /\ stage[f] = "queued" /\ current \in {NoFile, f} /\ proc = "up" /\ proc' = "up"
      /\ target' \in UniquePaths(OrigName[f])
      /\ current' = f
      /\ stage' = [stage EXCEPT ![f] = "downloading"]
      /\ part' = [part EXCEPT ![f] = "partial"]
      /\ UNCHANGED <<disk, localPath, cancelled, upload, struck>>
  BY DEF Start, Up
<1>2. target' \in Paths /\ disk[target'] = NoFile /\ target' # NoPath
  BY <1>1, Free
<1>3. stage'[f] = "downloading" /\ \A g \in Files : g # f => stage'[g] = stage[g]
  BY <1>1 DEF IInv, TypeOK
<1>4. TypeOK'
  BY <1>1, <1>2 DEF IInv, TypeOK, Stages
<1>5. StageOK' /\ HoldersOK' /\ UploadOK'
  BY <1>1, <1>3, <1>4, Frame DEF Early
<1>6. TransferOK'
  BY <1>1, <1>2, <1>3 DEF IInv, TransferOK, Early
<1>7. TargetOK'
  BY <1>1, <1>2, <1>3 DEF TargetOK, Taken
<1>8. PartsBelongToTransfer'
  BY <1>1, <1>3 DEF IInv, TypeOK, PartsBelongToTransfer
<1> QED
  BY <1>4, <1>5, <1>6, <1>7, <1>8 DEF IInv

LEMMA EndKeeps ==
  ASSUME IInv, NEW f \in Files, DropCancelled(f) \/ Fail(f) \/ Abort(f)
  PROVE  IInv'
<1>1. /\ stage[f] \in {"queued", "downloading"} /\ current \in {NoFile, f}
      /\ proc = "up" /\ proc' = "up"
      /\ target' = NoPath
      /\ current' \in {NoFile, f}
      /\ UNCHANGED <<disk, localPath, cancelled, upload, struck>>
  BY DEF DropCancelled, Fail, Abort, Transferring, Up
<1>2. part' \in {part, [part EXCEPT ![f] = "none"]} /\ (stage[f] = "downloading" => part'[f] = "none")
  BY DEF DropCancelled, Fail, Abort, Transferring, PartsAfter, IInv, TypeOK
<1>3. PICK s \in {"queued", "failed", "cancelled"} :
        /\ stage' = [stage EXCEPT ![f] = s]
        /\ s # "queued" => current' = NoFile
  BY DEF DropCancelled, Fail, Abort
<1>4. stage'[f] = s /\ \A g \in Files : g # f => stage'[g] = stage[g]
  BY <1>3 DEF IInv, TypeOK
<1>5. TypeOK'
  BY <1>1, <1>2, <1>3 DEF IInv, TypeOK, Stages
<1>6. StageOK' /\ HoldersOK' /\ UploadOK'
  BY <1>1, <1>4, <1>5, Frame DEF Early
<1>7. TransferOK'
  BY <1>1, <1>3, <1>4 DEF IInv, TransferOK, Early
<1>8. TargetOK'
  BY <1>1, <1>3, <1>4 DEF TargetOK
<1>9. PartsBelongToTransfer'
  BY <1>1, <1>2, <1>4 DEF IInv, TypeOK, TransferOK, PartsBelongToTransfer
<1> QED
  BY <1>5, <1>6, <1>7, <1>8, <1>9 DEF IInv

LEMMA FillKeeps ==
  ASSUME IInv, NEW f \in Files, Fill(f) \/ Cancel(f)
  PROVE  IInv'
<1>1. /\ UNCHANGED <<disk, localPath, stage, current, target, upload, proc, struck>>
      /\ part' \in {part, [part EXCEPT ![f] = "whole"]}
      /\ part'[f] # "none" /\ part' # part => current = f /\ stage[f] = "downloading"
      /\ cancelled' \in {cancelled, cancelled \cup {f}}
  BY DEF Fill, Cancel, Transferring
<1>2. TypeOK'
  BY <1>1 DEF IInv, TypeOK
<1>3. StageOK' /\ HoldersOK' /\ UploadOK' /\ Given' = Given /\ \A g \in Files : Holds(g)' = Holds(g)
  BY <1>1, <1>2, Frame
<1>4. TransferOK'
  BY <1>1 DEF IInv, TransferOK
<1>5. TargetOK'
  BY <1>1, <1>3 DEF IInv, TargetOK, Taken
<1>6. PartsBelongToTransfer'
  BY <1>1 DEF IInv, TypeOK, PartsBelongToTransfer
<1> QED
  BY <1>2, <1>3, <1>4, <1>5, <1>6 DEF IInv

\* Where no job begins to hold a file and none that holds one is touched, the
\* holders keep their bytes.
LEMMA HoldersFrame ==
  ASSUME IInv, Given' => Given, localPath' = localPath,
         \A g \in Files : Holds(g)' => Holds(g),
         Given' => \A g \in Files : Holds(g)' => disk'[localPath[g]] = disk[localPath[g]]
  PROVE  HoldersOK'
BY DEF IInv, HoldersOK, Own

LEMMA TargetFrame ==
  ASSUME IInv, Given' => Given, UNCHANGED <<localPath, current, target>>,
         current # NoFile => stage'[current] = stage[current],
         \A g \in Files : Holds(g)' => Holds(g),
         Given' /\ current # NoFile /\ stage[current] \in {"downloading", "moved"} =>
           disk'[target] = disk[target]
  PROVE  TargetOK'
BY DEF IInv, TargetOK, Taken, Own

\* A clean-up takes no other job's file and no target.
LEMMA CleanUpFrame ==
  ASSUME IInv, NEW f \in Files, Holds(f), CleanUp(f),
         UNCHANGED <<localPath, current, target>>,
         current # NoFile => stage'[current] = stage[current],
         \A g \in Files : Holds(g)' => Holds(g) /\ g # f
  PROVE  HoldersOK' /\ TargetOK'
<1>1. /\ Given' => Given
      /\ Given' => \A p \in Paths : disk'[p] = IF p = localPath[f] THEN NoFile ELSE disk[p]
      /\ localPath[f] # NoPath /\ \A g \in Files : localPath[g] \in Paths \cup {NoPath}
  BY CleanedPath DEF IInv, Holds, TypeOK
<1>2. ASSUME Given', NEW g \in Files, Holds(g)'
      PROVE  disk'[localPath[g]] = disk[localPath[g]]
  <2>1. localPath[g] # localPath[f] /\ localPath[g] \in Paths
    BY <1>1, <1>2 DEF IInv, HoldersOK, Holds
  <2> QED
    BY <1>1, <1>2, <2>1
<1>3. HoldersOK'
  BY <1>1, <1>2, HoldersFrame
<1>4. ASSUME Given', current # NoFile, stage[current] \in {"downloading", "moved"}
      PROVE  disk'[target] = disk[target]
  <2>1. target \in Paths
    BY <1>4 DEF IInv, TypeOK, TransferOK
  <2>2. stage[current] = "downloading" => disk[target] = NoFile
    BY <1>1, <1>4 DEF IInv, TargetOK, Taken
  <2>3. stage[current] = "moved" => target # localPath[f]
    BY <1>1, <1>4 DEF IInv, TargetOK
  <2> QED
    BY <1>1, <1>4, <2>1, <2>2, <2>3
<1>5. TargetOK'
  BY <1>1, <1>4, TargetFrame
<1> QED
  BY <1>3, <1>5

\* A step outside the transfers.
LEMMA TransferFrame ==
  ASSUME IInv, UNCHANGED <<localPath, current, target, part, proc>>, upload' = upload \/ proc = "up",
         NEW f \in Files, stage[f] \notin Early,
         \A g \in Files : g # f => stage'[g] = stage[g],
         stage'[f] \notin {"downloading", "moved"}
  PROVE  /\ TransferOK' /\ PartsBelongToTransfer'
         /\ current # NoFile => stage'[current] = stage[current]
<1>1. current # f /\ current \in Files \cup {NoFile}
  BY DEF IInv, TransferOK, TypeOK
<1>2. current # NoFile => stage'[current] = stage[current]
  BY <1>1
<1>3. TransferOK'
  BY <1>1, <1>2 DEF IInv, TransferOK
<1>4. PartsBelongToTransfer'
  BY <1>1 DEF IInv, PartsBelongToTransfer, Early
<1> QED
  BY <1>2, <1>3, <1>4

-----------------------------------------------------------------------------

LEMMA MoveKeeps ==
  ASSUME IInv, NEW f \in Files, Move(f)
  PROVE  IInv'
<1>1. /\ proc = "up" /\ current = f /\ stage[f] = "downloading"
      /\ UNCHANGED <<localPath, cancelled, upload, proc, struck>>
      /\ part' = [part EXCEPT ![f] = "none"]
      /\ target \in Paths /\ f # NoFile
  BY DEF Move, Transferring, Up, IInv, TypeOK, TransferOK
<1>2. PICK b \in Own(f) : disk' = [disk EXCEPT ![target] = b]
  BY <1>1 DEF Move, Verified, Own
<1>3. PICK s \in {"moved", "cancelled"} :
        /\ stage' = [stage EXCEPT ![f] = s]
        /\ s = "moved" => UNCHANGED <<current, target>>
        /\ s = "cancelled" => current' = NoFile /\ target' = NoPath
  BY DEF Move
<1>4. stage'[f] = s /\ \A g \in Files : g # f => stage'[g] = stage[g]
  BY <1>3 DEF IInv, TypeOK
<1>5. TypeOK'
  <2>1. disk' \in [Paths -> Files \cup {NoFile, Cut}]
    BY <1>1, <1>2, OwnBytes DEF IInv, TypeOK
  <2> QED
    BY <1>1, <1>3, <2>1 DEF IInv, TypeOK, Stages
<1>6. StageOK' /\ UploadOK' /\ Given' = Given /\ \A g \in Files : Holds(g)' = Holds(g)
  BY <1>1, <1>4, <1>5, Frame DEF Early
<1>7. ASSUME Given, NEW g \in Files, Holds(g)
      PROVE  localPath[g] # target
  BY <1>1, <1>7, OwnBytes DEF IInv, TargetOK, HoldersOK, Taken
<1>8. HoldersOK'
  <2>1. ASSUME Given', NEW g \in Files, Holds(g)'
        PROVE  disk'[localPath[g]] = disk[localPath[g]]
    <3>1. localPath[g] # target
      BY <1>6, <1>7, <2>1
    <3>2. localPath[g] \in Paths
      BY <1>6, <2>1 DEF Holds, IInv, TypeOK
    <3> QED
      BY <1>2, <3>1, <3>2 DEF IInv, TypeOK
  <2> QED
    BY <1>1, <1>6, <2>1, HoldersFrame
<1>9. TransferOK'
  BY <1>1, <1>3, <1>4 DEF IInv, TransferOK, Early
<1>10. TargetOK'
  <2>1. CASE s = "cancelled"
    BY <1>3, <2>1 DEF TargetOK
  <2>2. CASE s = "moved"
    <3>1. disk'[target] = b
      BY <1>1, <1>2 DEF IInv, TypeOK
    <3> QED
      BY <1>1, <1>3, <1>4, <1>6, <1>7, <2>2, <3>1 DEF TargetOK, Own
  <2> QED
    BY <2>1, <2>2
<1>11. PartsBelongToTransfer'
  BY <1>1, <1>4 DEF IInv, TypeOK, PartsBelongToTransfer
<1> QED
  BY <1>5, <1>6, <1>8, <1>9, <1>10, <1>11 DEF IInv

LEMMA RecordKeeps ==
  ASSUME IInv, NEW f \in Files, Record(f)
  PROVE  IInv'
<1>1. /\ proc = "up" /\ stage[f] = "moved" /\ current = f /\ f # NoFile
      /\ target \in Paths /\ localPath[f] = NoPath
      /\ localPath' = [localPath EXCEPT ![f] = target]
      /\ stage' = [stage EXCEPT ![f] = "awaiting"]
      /\ current' = NoFile /\ target' = NoPath
      /\ UNCHANGED <<disk, part, cancelled, upload, proc, struck>>
  BY DEF Record, Recorded, Up, IInv, TypeOK, TransferOK, StageOK, Early
<1>2. /\ stage'[f] = "awaiting" /\ localPath'[f] = target
      /\ \A g \in Files : g # f => stage'[g] = stage[g] /\ localPath'[g] = localPath[g]
  BY <1>1 DEF IInv, TypeOK
<1>3. Given' = Given
  BY <1>1 DEF Given, Spared
<1>4. TypeOK'
  BY <1>1 DEF IInv, TypeOK, Stages
<1>5. StageOK'
  BY <1>1, <1>2 DEF IInv, StageOK, Early, Waiting
<1>6. TransferOK'
  BY <1>1, <1>2 DEF IInv, TransferOK
<1>7. TargetOK'
  BY <1>1 DEF TargetOK
<1>8. PartsBelongToTransfer'
  BY <1>1, <1>2 DEF IInv, PartsBelongToTransfer
<1>9. upload.file # f /\ upload.file \in Files \cup {NoFile}
  BY <1>1 DEF IInv, UploadOK, TypeOK
<1>10. UploadOK'
  BY <1>1, <1>2, <1>3, <1>9 DEF IInv, UploadOK, Own
<1>11. \A g \in Files : g # f => Holds(g)' = Holds(g)
  BY <1>1, <1>2 DEF Holds
<1>12. Given => disk[target] \in Own(f) /\ \A g \in Files : Holds(g) => localPath[g] # target
  BY <1>1 DEF IInv, TargetOK
<1>13. HoldersOK'
  BY <1>1, <1>2, <1>3, <1>11, <1>12 DEF IInv, HoldersOK, Own
<1> QED
  BY <1>4, <1>5, <1>6, <1>7, <1>8, <1>10, <1>13 DEF IInv

LEMMA RenameKeeps ==
  ASSUME IInv, NEW f \in Files, NEW name \in Names, Rename(f, name)
  PROVE  IInv'
<1>1. PICK p \in UniquePaths(name) :
        /\ RenameTo(f, p)
        /\ IF stage[f] # "awaiting" THEN Strike("stale")
           ELSE IF p = target THEN Strike("clash")
           ELSE UNCHANGED struck
        /\ localPath' = [localPath EXCEPT ![f] = p]
  BY DEF Rename
<1>2. p \in Paths /\ disk[p] = NoFile /\ p # NoPath
  BY <1>1, Free
<1>3. /\ proc = "up"
      /\ stage' = [stage EXCEPT ![f] = "awaiting"]
      /\ UNCHANGED <<part, current, target, cancelled, upload, proc>>
      /\ localPath[f] \in Paths /\ localPath[f] # NoPath
      /\ disk[localPath[f]] # NoFile
      /\ disk' = [Without(localPath[f]) EXCEPT ![p] = disk[localPath[f]]]
  BY <1>1 DEF Rename, RenameTo, Taken, Up, IInv, TypeOK
<1>4. /\ struck' \subseteq Strikes
      /\ Given' => Given /\ stage[f] = "awaiting" /\ p # target
  <2>1. CASE stage[f] # "awaiting"
    BY <1>1, <2>1, StrikeKeeps DEF Given, Spared, IInv, TypeOK
  <2>2. CASE stage[f] = "awaiting" /\ p = target
    BY <1>1, <2>2, StrikeKeeps DEF Given, Spared, IInv, TypeOK
  <2>3. CASE stage[f] = "awaiting" /\ p # target
    BY <1>1, <2>3 DEF Given, Spared, IInv, TypeOK
  <2> QED
    BY <2>1, <2>2, <2>3
<1>5. /\ stage'[f] = "awaiting" /\ localPath'[f] = p
      /\ \A g \in Files : g # f => stage'[g] = stage[g] /\ localPath'[g] = localPath[g]
  BY <1>1, <1>3 DEF IInv, TypeOK
<1>6. p # localPath[f]
  BY <1>2, <1>3
<1>7. /\ disk' \in [Paths -> Files \cup {NoFile, Cut}]
      /\ disk'[p] = disk[localPath[f]]
      /\ disk'[localPath[f]] = NoFile
      /\ \A q \in Paths : q # p /\ q # localPath[f] => disk'[q] = disk[q]
  BY <1>2, <1>3, <1>6 DEF Without, IInv, TypeOK
<1>8. TypeOK'
  BY <1>1, <1>2, <1>3, <1>4, <1>7 DEF IInv, TypeOK, Stages
<1>9. StageOK'
  BY <1>2, <1>5 DEF IInv, StageOK, Early, Waiting
<1>10. current # f
  BY <1>3 DEF IInv, TransferOK, StageOK
<1>11. stage[f] \notin Early
  BY <1>3 DEF IInv, StageOK
<1>12. TransferOK'
  <2>1. current \in Files \cup {NoFile}
    BY DEF IInv, TypeOK
  <2> QED
    BY <1>3, <1>5, <1>10, <2>1 DEF IInv, TransferOK
<1>13. PartsBelongToTransfer'
  BY <1>3, <1>5, <1>11 DEF IInv, PartsBelongToTransfer, Early
<1>14. \A g \in Files : g # f => Holds(g)' = Holds(g)
  BY <1>3, <1>5 DEF Holds
<1>15. Given' => Holds(f)
  BY <1>3, <1>4 DEF Holds, Waiting
<1>16. ASSUME Given', NEW g \in Files, g # f, Holds(g)
       PROVE  /\ localPath[g] \in Paths /\ localPath[g] # localPath[f] /\ localPath[g] # p
              /\ disk'[localPath[g]] = disk[localPath[g]]
  <2>1. localPath[g] \in Paths
    BY <1>16 DEF Holds, IInv, TypeOK
  <2>2. localPath[g] # localPath[f] /\ disk[localPath[g]] # NoFile
    BY <1>4, <1>15, <1>16, OwnBytes DEF IInv, HoldersOK
  <2> QED
    BY <1>2, <1>7, <2>1, <2>2
<1>17. HoldersOK'
  <2> SUFFICES ASSUME Given' PROVE HoldersOK'
    BY DEF HoldersOK
  <2>1. disk'[localPath'[f]] \in Own(f)
    BY <1>4, <1>5, <1>7, <1>15 DEF IInv, HoldersOK
  <2>2. ASSUME NEW g \in Files, Holds(g)'
        PROVE  disk'[localPath'[g]] \in Own(g)
    BY <1>4, <1>5, <1>14, <1>16, <2>1, <2>2 DEF IInv, HoldersOK
  <2>3. ASSUME NEW g \in Files, NEW h \in Files, g # h, Holds(g)', Holds(h)'
        PROVE  localPath'[g] # localPath'[h]
    BY <1>4, <1>5, <1>14, <1>16, <2>3 DEF IInv, HoldersOK
  <2> QED
    BY <2>2, <2>3 DEF HoldersOK, Own
<1>18. TargetOK'
  <2> SUFFICES ASSUME Given', current # NoFile PROVE TargetOK'
    BY <1>3 DEF TargetOK
  <2>1. stage'[current] = stage[current] /\ current' = current /\ target' = target
    BY <1>3, <1>5, <1>10 DEF IInv, TypeOK
  <2>2. stage[current] \in {"downloading", "moved"} => target \in Paths
    BY DEF IInv, TypeOK, TransferOK
  <2>3. stage[current] = "downloading" => disk'[target] = NoFile
    BY <1>4, <1>7, <2>2 DEF IInv, TargetOK, Taken
  <2>4. stage[current] = "moved" =>
          /\ disk'[target] \in Own(current)
          /\ \A g \in Files : Holds(g)' => localPath'[g] # target
    <3> SUFFICES ASSUME stage[current] = "moved"
                 PROVE  /\ disk'[target] \in Own(current)
                        /\ \A g \in Files : Holds(g)' => localPath'[g] # target
      OBVIOUS
    <3>1. disk[target] \in Own(current) /\ \A g \in Files : Holds(g) => localPath[g] # target
      BY <1>4 DEF IInv, TargetOK
    <3>2. target # p /\ target # localPath[f]
      BY <1>4, <1>15, <3>1
    <3>3. disk'[target] = disk[target]
      BY <1>7, <2>2, <3>2
    <3> QED
      BY <1>5, <1>14, <3>1, <3>2, <3>3
  <2> QED
    BY <2>1, <2>3, <2>4 DEF TargetOK, Taken, Own
<1>19. UploadOK'
  <2>1. upload.file \in Files \cup {NoFile}
    BY DEF IInv, TypeOK
  <2>2. Given' => upload.file # f
    BY <1>4 DEF IInv, UploadOK
  <2> QED
    BY <1>2, <1>3, <1>4, <1>5, <2>1, <2>2 DEF IInv, UploadOK, Own
<1> QED
  BY <1>8, <1>9, <1>12, <1>13, <1>17, <1>18, <1>19 DEF IInv

\* A step that strikes one of the faults owes nothing about the bytes.
LEMMA NotGiven ==
  ASSUME NEW fault \in {"clash", "torn", "stale", "cleanup", "sibling"}, Strike(fault), TypeOK
  PROVE  ~Given' /\ struck' \subseteq Strikes
BY DEF Strike, Given, Spared, TypeOK

LEMMA ProcessKeeps ==
  ASSUME IInv, \/ CleanupTemp \/ Crash
               \/ \E f \in Files, name \in Names : TornRename(f, name)
  PROVE  IInv'
<1>1. CASE CleanupTemp
  <2>1. ~Given' /\ struck' \subseteq Strikes
    BY <1>1, NotGiven DEF CleanupTemp, IInv
  <2>2. TypeOK'
    BY <1>1, <2>1 DEF CleanupTemp, IInv, TypeOK
  <2>3. StageOK' /\ TransferOK' /\ PartsBelongToTransfer'
    BY <1>1 DEF CleanupTemp, IInv, StageOK, TransferOK, PartsBelongToTransfer
  <2>4. HoldersOK' /\ TargetOK' /\ UploadOK'
    BY <1>1, <2>1 DEF CleanupTemp, IInv, HoldersOK, TargetOK, UploadOK
  <2> QED
    BY <2>2, <2>3, <2>4 DEF IInv
<1>2. CASE Crash
  <2>1. /\ proc' = "down" /\ current' = NoFile /\ target' = NoPath /\ upload' = Idle
        /\ UNCHANGED <<disk, part, localPath, stage, cancelled>>
        /\ Given' => Given
        /\ struck' \subseteq Strikes
    BY <1>2, StrikeKeeps DEF Crash, Stopped, IInv, TypeOK
  <2>2. TypeOK'
    BY <2>1 DEF IInv, TypeOK, Idle
  <2>3. StageOK' /\ TransferOK' /\ PartsBelongToTransfer' /\ TargetOK' /\ UploadOK'
    BY <2>1 DEF IInv, StageOK, TransferOK, PartsBelongToTransfer, TargetOK, UploadOK, Idle
  <2>4. \A g \in Files : Holds(g)' => Holds(g)
    BY <2>1 DEF Holds, Idle
  <2>5. HoldersOK'
    BY <2>1, <2>4, HoldersFrame
  <2> QED
    BY <2>2, <2>3, <2>5 DEF IInv
<1>3. ASSUME NEW f \in Files, NEW name \in Names, TornRename(f, name)
      PROVE  IInv'
  <2>1. /\ proc' = "down" /\ current' = NoFile /\ target' = NoPath /\ upload' = Idle
        /\ UNCHANGED <<part, localPath, stage, cancelled>>
        /\ ~Given'
        /\ struck' \subseteq Strikes
    BY <1>3, NotGiven DEF TornRename, Stopped, IInv
  <2>2. PICK p \in UniquePaths(name) : RenameTo(f, p)
    BY <1>3 DEF TornRename
  <2>3. disk' \in [Paths -> Files \cup {NoFile, Cut}]
    BY <2>2, Free DEF RenameTo, Without, IInv, TypeOK
  <2>4. TypeOK'
    BY <2>1, <2>3 DEF IInv, TypeOK, Idle
  <2>5. StageOK' /\ TransferOK' /\ PartsBelongToTransfer' /\ TargetOK' /\ UploadOK' /\ HoldersOK'
    BY <2>1 DEF IInv, StageOK, TransferOK, PartsBelongToTransfer, TargetOK, UploadOK,
                HoldersOK, Idle
  <2> QED
    BY <2>4, <2>5 DEF IInv
<1> QED
  BY <1>1, <1>2, <1>3

LEMMA RestartKeeps ==
  ASSUME IInv, Restart
  PROVE  IInv'
<1>1. /\ proc = "down" /\ proc' = "up" /\ cancelled' = {}
      /\ part' = [f \in Files |-> "none"]
      /\ UNCHANGED <<disk, localPath, current, target, upload, struck>>
      /\ current = NoFile /\ target = NoPath /\ upload = Idle
  BY DEF Restart, IInv, TransferOK
<1>2. stage' \in [Files -> Stages] /\ \A f \in Files : stage'[f] \in Recovered(f)
  BY DEF Restart
<1>3. ASSUME NEW f \in Files
      PROVE  \/ stage[f] \in Early /\ stage'[f] \in {"queued", "cancelled"}
             \/ stage[f] \notin Early /\ stage'[f] = stage[f]
  BY <1>2 DEF Recovered, Early, IInv, TypeOK, Stages
<1>4. Given' = Given
  BY <1>1 DEF Given, Spared
<1>5. TypeOK'
  BY <1>1, <1>2 DEF IInv, TypeOK
<1>6. StageOK'
  BY <1>1, <1>3 DEF IInv, StageOK, Early, Waiting
<1>7. TransferOK'
  BY <1>1, <1>3 DEF IInv, TransferOK, Early
<1>8. TargetOK' /\ UploadOK' /\ PartsBelongToTransfer'
  BY <1>1 DEF TargetOK, UploadOK, PartsBelongToTransfer, Idle
<1>9. \A g \in Files : Holds(g)' => Holds(g)
  BY <1>1, <1>3 DEF Holds, Early, Waiting
<1>10. HoldersOK'
  BY <1>1, <1>4, <1>9, HoldersFrame
<1> QED
  BY <1>5, <1>6, <1>7, <1>8, <1>10 DEF IInv

-----------------------------------------------------------------------------
(* The upload worker, and the answers that change a stage only. *)

\* A step that changes the stage of one job, which ended its transfer.
LEMMA StageStep ==
  ASSUME IInv, NEW f \in Files, NEW s \in Stages,
         stage' = [stage EXCEPT ![f] = s],
         UNCHANGED <<disk, part, localPath, current, target, cancelled, upload, proc, struck>>,
         stage[f] \notin Early,
         s \in Waiting => localPath[f] # NoPath,
         s \in Early => s = "queued" /\ localPath[f] = NoPath,
         Holds(f)' => Holds(f),
         Given /\ upload.file = f => s \in {"uploading", "cancelled"}
  PROVE  IInv'
<1>1. stage'[f] = s /\ \A g \in Files : g # f => stage'[g] = stage[g]
  BY DEF IInv, TypeOK
<1>2. TypeOK'
  BY DEF IInv, TypeOK
<1>3. StageOK'
  BY <1>1 DEF IInv, StageOK
<1>4. TransferOK' /\ PartsBelongToTransfer' /\ (current # NoFile => stage'[current] = stage[current])
  BY <1>1, TransferFrame DEF Early
<1>5. Given' = Given
  BY DEF Given, Spared
<1>6. \A g \in Files : Holds(g)' => Holds(g)
  BY <1>1 DEF Holds
<1>7. HoldersOK'
  BY <1>5, <1>6, HoldersFrame
<1>8. TargetOK'
  BY <1>4, <1>5, <1>6, TargetFrame
<1>9. UploadOK'
  <2>1. upload.file \in Files \cup {NoFile}
    BY DEF IInv, TypeOK
  <2> QED
    BY <1>1, <1>5, <2>1 DEF IInv, UploadOK, Own
<1> QED
  BY <1>2, <1>3, <1>4, <1>7, <1>8, <1>9 DEF IInv

LEMMA AnswerKeeps ==
  ASSUME IInv, NEW f \in Files, Skip(f) \/ Choose(f) \/ RetryFailed(f)
  PROVE  IInv'
<1>1. Given /\ upload.file = f => stage[f] \in {"uploading", "cancelled"}
  BY DEF IInv, UploadOK
<1>2. ASSUME Skip(f) PROVE IInv'
  <2>1. stage[f] = "awaiting" /\ stage' = [stage EXCEPT ![f] = "skipped"]
        /\ UNCHANGED <<disk, part, localPath, current, target, cancelled, upload, proc, struck>>
    BY <1>2 DEF Skip
  <2>2. Holds(f)' => Holds(f)
    BY <2>1 DEF Holds, Waiting
  <2> QED
    BY <1>1, <2>1, <2>2, StageStep DEF Stages, Early, Waiting
<1>3. ASSUME Choose(f) PROVE IInv'
  <2>1. stage[f] = "awaiting" /\ stage' = [stage EXCEPT ![f] = "ready"]
        /\ UNCHANGED <<disk, part, localPath, current, target, cancelled, upload, proc, struck>>
    BY <1>3 DEF Choose
  <2>2. localPath[f] # NoPath
    BY <2>1 DEF IInv, StageOK, Waiting
  <2>3. Holds(f)' => Holds(f)
    BY <2>1, <2>2 DEF Holds, Waiting
  <2> QED
    BY <1>1, <2>1, <2>2, <2>3, StageStep DEF Stages, Early, Waiting
<1>4. ASSUME RetryFailed(f) PROVE IInv'
  <2>1. stage[f] = "failed"
        /\ UNCHANGED <<disk, part, localPath, current, target, cancelled, upload, proc, struck>>
    BY <1>4 DEF RetryFailed
  <2>2. PICK s \in {"queued", "ready"} :
          /\ stage' = [stage EXCEPT ![f] = s]
          /\ s = "queued" <=> localPath[f] = NoPath
    BY <1>4 DEF RetryFailed
  <2>3. Holds(f)' => Holds(f)
    BY <2>1 DEF Holds
  <2> QED
    BY <1>1, <2>1, <2>2, <2>3, StageStep DEF Stages, Early, Waiting
<1> QED
  BY <1>2, <1>3, <1>4

LEMMA ClaimKeeps ==
  ASSUME IInv, NEW f \in Files, Claim(f)
  PROVE  IInv'
<1>1. /\ proc = "up" /\ upload = Idle /\ stage[f] = "ready" /\ localPath[f] # NoPath /\ f # NoFile
      /\ UNCHANGED <<disk, part, localPath, current, target, cancelled, proc, struck>>
  BY DEF Claim, Up, IInv, StageOK, Waiting
<1>2. CASE ~Taken(localPath[f])
  <2>1. stage' = [stage EXCEPT ![f] = "failed"] /\ upload' = upload
    BY <1>1, <1>2 DEF Claim
  <2>2. Holds(f)' => Holds(f)
    BY <1>1 DEF Holds, Waiting
  <2> QED
    BY <1>1, <2>1, <2>2, StageStep DEF Stages, Early, Waiting, Idle
<1>3. CASE Taken(localPath[f])
  <2>1. /\ stage' = [stage EXCEPT ![f] = "uploading"]
        /\ upload' = [Idle EXCEPT !.file = f, !.path = localPath[f]]
    BY <1>1, <1>3 DEF Claim
  <2>2. stage'[f] = "uploading" /\ \A g \in Files : g # f => stage'[g] = stage[g]
    BY <2>1 DEF IInv, TypeOK
  <2>3. upload'.file = f /\ upload'.path = localPath[f] /\ upload'.bytes = NoFile
        /\ localPath[f] \in Paths /\ upload.file = NoFile
        /\ upload' = [file |-> f, path |-> localPath[f], bytes |-> NoFile]
    BY <1>1, <2>1 DEF Idle, IInv, TypeOK
  <2>4. TypeOK'
    BY <1>1, <2>1, <2>3 DEF IInv, TypeOK, Stages
  <2>5. StageOK'
    BY <1>1, <2>2 DEF IInv, StageOK, Early, Waiting
  <2>6. TransferOK' /\ PartsBelongToTransfer' /\ (current # NoFile => stage'[current] = stage[current])
    BY <1>1, <2>2, TransferFrame DEF Early
  <2>7. Given' = Given
    BY <1>1 DEF Given, Spared
  <2>8. \A g \in Files : Holds(g)' => Holds(g)
    BY <1>1, <2>2, <2>3 DEF Holds, Waiting
  <2>9. HoldersOK'
    BY <1>1, <2>7, <2>8, HoldersFrame
  <2>10. TargetOK'
    BY <1>1, <2>6, <2>7, <2>8, TargetFrame
  <2>11. UploadOK'
    BY <1>1, <2>2, <2>3 DEF UploadOK
  <2> QED
    BY <2>4, <2>5, <2>6, <2>9, <2>10, <2>11 DEF IInv
<1> QED
  BY <1>2, <1>3

LEMMA OpenKeeps ==
  ASSUME IInv, Open
  PROVE  IInv'
<1>1. /\ upload.file \in Files /\ upload.path \in Paths
      /\ upload' = [upload EXCEPT !.bytes = disk[upload.path]]
      /\ UNCHANGED <<disk, part, localPath, stage, current, target, cancelled, proc, struck>>
      /\ proc = "up"
      /\ disk[upload.path] # NoFile
  <2>1. upload.path \in Paths
    BY DEF Open, Taken, IInv, TypeOK, UploadOK
  <2> QED
    BY <2>1 DEF Open, Up, Taken, IInv, TypeOK
<1>2. upload'.file = upload.file /\ upload'.path = upload.path /\ upload'.bytes = disk[upload.path]
  BY <1>1 DEF IInv, TypeOK
<1>3. TypeOK'
  BY <1>1 DEF IInv, TypeOK
<1>4. StageOK' /\ TransferOK' /\ PartsBelongToTransfer'
  BY <1>1 DEF IInv, StageOK, TransferOK, PartsBelongToTransfer
<1>5. Given' = Given
  BY <1>1 DEF Given, Spared
<1>6. \A g \in Files : Holds(g)' = Holds(g)
  BY <1>1, <1>2 DEF Holds
<1>7. HoldersOK' /\ TargetOK'
  BY <1>1, <1>5, <1>6, HoldersFrame, TargetFrame
<1>8. UploadOK'
  <2>1. Given => disk[upload.path] \in Own(upload.file)
    BY <1>1 DEF IInv, UploadOK, HoldersOK, Holds
  <2> QED
    BY <1>1, <1>2, <1>5, <2>1 DEF IInv, UploadOK, Own
<1> QED
  BY <1>3, <1>4, <1>7, <1>8 DEF IInv

\* A clean-up of a job whose file was still needed and no longer is.
LEMMA CleanUpStep ==
  ASSUME IInv, NEW f \in Files, NEW s \in {"done", "cancelled"},
         CleanUp(f), Holds(f),
         stage' = [stage EXCEPT ![f] = s],
         UNCHANGED <<part, localPath, current, target, cancelled, proc>>,
         proc = "up", stage[f] \notin Early,
         upload' \in {upload, Idle}, upload'.file # f
  PROVE  IInv'
<1>1. stage'[f] = s /\ \A g \in Files : g # f => stage'[g] = stage[g]
  BY DEF IInv, TypeOK
<1>2. disk' \in [Paths -> Files \cup {NoFile, Cut}] /\ struck' \subseteq Strikes /\ (Given' => Given)
  BY CleanedPath DEF IInv, Holds
<1>3. Idle \in [file : Files \cup {NoFile}, path : Paths \cup {NoPath},
                bytes : Files \cup {NoFile, Cut}]
  BY DEF Idle
<1>4. TypeOK'
  BY <1>2, <1>3 DEF IInv, TypeOK, Stages
<1>5. StageOK'
  BY <1>1 DEF IInv, StageOK, Early, Waiting
<1>6. TransferOK' /\ PartsBelongToTransfer' /\ (current # NoFile => stage'[current] = stage[current])
  BY <1>1, TransferFrame DEF Early
<1>7. \A g \in Files : Holds(g)' => Holds(g) /\ g # f
  BY <1>1 DEF Holds, Waiting, Idle
<1>8. HoldersOK' /\ TargetOK'
  BY <1>6, <1>7, CleanUpFrame
<1>9. UploadOK'
  <2>1. CASE upload' = Idle
    BY <2>1 DEF UploadOK, Idle
  <2>2. CASE upload' = upload
    <3>1. upload.file \in Files \cup {NoFile}
      BY DEF IInv, TypeOK
    <3> QED
      BY <1>1, <1>2, <2>2, <3>1 DEF IInv, UploadOK, Own
  <2> QED
    BY <2>1, <2>2
<1> QED
  BY <1>4, <1>5, <1>6, <1>8, <1>9 DEF IInv

\* The end of an upload whose file is kept.
LEMMA KeepStep ==
  ASSUME IInv, NEW f \in Files, upload.file = f,
         stage' \in [Files -> Stages],
         \A g \in Files : g # f => stage'[g] = stage[g],
         stage'[f] = stage[f] \/ (stage[f] = "uploading" /\ stage'[f] \in {"ready", "failed"}),
         UNCHANGED <<disk, part, localPath, current, target, cancelled, proc, struck>>,
         proc = "up", upload' = Idle
  PROVE  IInv'
<1>1. localPath[f] # NoPath /\ stage[f] \notin Early
  BY DEF IInv, UploadOK, StageOK
<1>2. TypeOK'
  BY DEF IInv, TypeOK, Idle
<1>3. StageOK'
  BY <1>1 DEF IInv, StageOK, Early, Waiting
<1>4. TransferOK' /\ PartsBelongToTransfer' /\ (current # NoFile => stage'[current] = stage[current])
  <2>1. stage'[f] \notin {"downloading", "moved"}
    BY <1>1 DEF Early
  <2> QED
    BY <1>1, <2>1, TransferFrame
<1>5. Given' = Given
  BY DEF Given, Spared
<1>6. \A g \in Files : Holds(g)' => Holds(g)
  BY DEF Holds, Idle, Waiting
<1>7. HoldersOK' /\ TargetOK'
  BY <1>4, <1>5, <1>6, HoldersFrame, TargetFrame
<1>8. UploadOK'
  BY DEF UploadOK, Idle
<1> QED
  BY <1>2, <1>3, <1>4, <1>7, <1>8 DEF IInv

LEMMA UploadEndKeeps ==
  ASSUME IInv, Uploaded \/ UploadFails
  PROVE  IInv'
<1>0. PICK f \in Files : f = upload.file
  BY DEF Uploaded, UploadFails, IInv, TypeOK, UploadOK, Idle
<1>1. /\ f # NoFile /\ proc = "up" /\ upload' = Idle
      /\ UNCHANGED <<part, localPath, current, target, cancelled, proc>>
      /\ localPath[f] # NoPath
  BY <1>0 DEF Uploaded, UploadFails, Up, IInv, UploadOK
<1>2. stage[f] \notin Early /\ Holds(f) /\ upload'.file # f
  BY <1>0, <1>1 DEF IInv, StageOK, Holds, Idle
<1>3. CASE CleanUp(f) /\ stage[f] \in {"uploading", "cancelled"}
           /\ \E s \in {"done", "cancelled"} : stage' = [stage EXCEPT ![f] = s]
  BY <1>1, <1>2, <1>3, CleanUpStep
<1>4. stage \in [Files -> Stages]
  BY DEF IInv, TypeOK
<1>5. CASE stage[f] = "uploading"
  <2>1. CASE Uploaded
    BY <1>0, <1>3, <1>5, <2>1 DEF Uploaded
  <2>2. CASE UploadFails
    <3>1. UNCHANGED <<disk, struck>>
      BY <1>0, <1>5, <2>2 DEF UploadFails
    <3>2. PICK s \in {"ready", "failed"} : stage' = [stage EXCEPT ![f] = s]
      BY <1>0, <1>5, <2>2 DEF UploadFails
    <3>3. /\ stage' \in [Files -> Stages] /\ stage'[f] = s
          /\ \A g \in Files : g # f => stage'[g] = stage[g]
      BY <1>4, <3>2 DEF Stages
    <3> QED
      BY <1>0, <1>1, <1>5, <3>1, <3>3, KeepStep
  <2> QED
    BY <2>1, <2>2
<1>6. CASE stage[f] = "cancelled"
  <2>1. CleanUp(f) /\ stage' = stage
    BY <1>0, <1>6 DEF Uploaded, UploadFails
  <2>2. stage' = [stage EXCEPT ![f] = "cancelled"]
    BY <1>4, <1>6, <2>1
  <2> QED
    BY <1>3, <1>6, <2>1, <2>2
<1>7. CASE stage[f] \notin {"uploading", "cancelled"}
  <2>1. UNCHANGED <<disk, stage, struck>>
    BY <1>0, <1>7 DEF Uploaded, UploadFails
  <2>2. /\ stage' \in [Files -> Stages] /\ stage'[f] = stage[f]
        /\ \A g \in Files : g # f => stage'[g] = stage[g]
    BY <1>4, <2>1
  <2>3. UNCHANGED <<disk, part, localPath, current, target, cancelled, proc, struck>>
    BY <1>1, <2>1
  <2> QED
    BY <1>0, <1>1, <2>2, <2>3, KeepStep
<1> QED
  BY <1>5, <1>6, <1>7

LEMMA CancelUploadKeeps ==
  ASSUME IInv, NEW f \in Files, CancelUpload(f)
  PROVE  IInv'
<1>1. /\ proc = "up" /\ stage[f] \in {"ready", "uploading"}
      /\ stage' = [stage EXCEPT ![f] = "cancelled"]
      /\ UNCHANGED <<part, localPath, current, target, cancelled, upload, proc>>
  BY DEF CancelUpload, Up
<1>2. localPath[f] # NoPath /\ Holds(f) /\ stage[f] \notin Early
  BY <1>1 DEF IInv, StageOK, Holds, Waiting, Early
<1>3. CASE upload.file = f
  <2>1. UNCHANGED <<disk, struck>>
    BY <1>3 DEF CancelUpload
  <2> QED
    BY <1>1, <1>2, <2>1, StageStep DEF Stages, Early, Waiting
<1>4. CASE upload.file # f
  <2>1. CleanUp(f)
    BY <1>4 DEF CancelUpload
  <2> QED
    BY <1>1, <1>2, <1>4, <2>1, CleanUpStep
<1> QED
  BY <1>3, <1>4

\* The invariant is inductive.
THEOREM Invariance == Spec => []IInv
<1>1. IInv /\ [Next]_vars => IInv'
  <2> SUFFICES ASSUME IInv, [Next]_vars PROVE IInv' OBVIOUS
  <2>1. CASE UNCHANGED vars
    BY <2>1 DEF vars, IInv, TypeOK, StageOK, TransferOK, HoldersOK, TargetOK, UploadOK,
                PartsBelongToTransfer, Holds, Given, Spared, Taken, Own
  <2>2. ASSUME NEW f \in Files, Transfer(f) PROVE IInv'
    BY <2>2, StartKeeps, EndKeeps, FillKeeps, MoveKeeps, RecordKeeps DEF Transfer
  <2>3. ASSUME NEW f \in Files, Answer(f) PROVE IInv'
    BY <2>3, RenameKeeps, ProcessKeeps, AnswerKeeps DEF Answer
  <2>4. ASSUME NEW f \in Files, Upload(f) PROVE IInv'
    BY <2>4, ClaimKeeps, CancelUploadKeeps, AnswerKeeps DEF Upload
  <2>5. CASE Next
    BY <2>2, <2>3, <2>4, <2>5, OpenKeeps, UploadEndKeeps, ProcessKeeps, RestartKeeps DEF Next
  <2> QED
    BY <2>1, <2>5
<1> QED
  BY <1>1, InitIInv, PTL DEF Spec

-----------------------------------------------------------------------------

\* Every variable of the disk and the jobs keeps to its values.
THEOREM TypeCorrect == Spec => []TypeOK
BY Invariance, PTL DEF IInv

\* However many jobs share names, each that waits finds its own bytes.
THEOREM WaitingJobsHaveTheirFiles == Spec => []WaitingJobHasItsFile
<1>1. IInv => WaitingJobHasItsFile
  BY DEF IInv, StageOK, HoldersOK, Holds, Given, WaitingJobHasItsFile
<1> QED
  BY <1>1, Invariance, PTL

\* The uploader's thread opens the bytes of the job it was claimed for.
THEOREM UploadsSendOwnBytes == Spec => []UploadSendsOwnBytes
<1>1. IInv => UploadSendsOwnBytes
  BY DEF IInv, UploadOK, Idle, Given, UploadSendsOwnBytes
<1> QED
  BY <1>1, Invariance, PTL

\* Only the running transfer has a temporary file, whatever fails.
THEOREM PartsBelong == Spec => []PartsBelongToTransfer
BY Invariance, PTL DEF IInv

-----------------------------------------------------------------------------
(* Where the bytes of a job lie while nothing went wrong: at the target of *)
(* its transfer between the move and the record, then at the path its      *)
(* record names, until the uploader or a cancellation has deleted them.    *)

Clean == Spared({"crash", "torn", "clash", "stale", "cleanup", "sibling"})

LiesAt(f, p) ==
  \/ stage[f] = "moved" /\ p = target
  \/ /\ p = localPath[f] /\ stage[f] # "done"
     /\ stage[f] = "cancelled" => upload.file = f
  \/ f \in BotApi /\ stage[f] = "cancelled" /\ localPath[f] = NoPath

CopiesOK ==
  Clean => proc = "up" /\ \A f \in Files, p \in Paths : disk[p] = f => LiesAt(f, p)

LEMMA CleanIsGiven == Clean => Given
BY DEF Clean, Given, Spared

\* A job of an early stage has no record, and one transfer runs at a time.
LEMMA EarlyCopies ==
  ASSUME IInv, CopiesOK, Clean, NEW f \in Files, stage[f] \in {"queued", "downloading"}
  PROVE  \A p \in Paths : disk[p] # f
BY DEF CopiesOK, LiesAt, IInv, StageOK, Early

\* A step that adds no copy and leaves the account of the copies alone.
LEMMA CopiesFrame ==
  ASSUME CopiesOK, Clean' => Clean, proc' = "up",
         Clean' => \A g \in Files, p \in Paths : disk'[p] = g =>
           disk[p] = g /\ (LiesAt(g, p) => LiesAt(g, p)')
  PROVE  CopiesOK'
BY DEF CopiesOK

LEMMA TransferCopies ==
  ASSUME IInv, CopiesOK, NEW f \in Files,
         \/ Start(f) \/ DropCancelled(f) \/ Fill(f) \/ Fail(f) \/ Abort(f) \/ Cancel(f)
  PROVE  CopiesOK'
<1>1. /\ proc' = "up" /\ UNCHANGED <<disk, localPath, upload, struck>>
      /\ \A g \in Files : g # f => stage'[g] = stage[g]
  BY DEF Start, DropCancelled, Fill, Fail, Abort, Cancel, Transferring, Up, IInv, TypeOK
<1>2. Clean' = Clean
  BY <1>1 DEF Clean, Spared
<1>3. CASE UNCHANGED <<stage, target>>
  BY <1>1, <1>2, <1>3, CopiesFrame DEF LiesAt
<1>4. CASE Start(f) \/ DropCancelled(f) \/ Fail(f) \/ Abort(f)
  <2>1. /\ proc = "up" /\ current \in {NoFile, f} /\ stage[f] \in {"queued", "downloading"}
    BY <1>4 DEF Start, DropCancelled, Fail, Abort, Transferring, Up
  <2>2. \A g \in Files : g # f => stage[g] # "moved"
    BY <2>1 DEF IInv, TransferOK
  <2>3. Clean => \A p \in Paths : disk[p] # f
    BY <2>1, EarlyCopies
  <2>4. ASSUME Clean', NEW g \in Files, NEW p \in Paths, disk'[p] = g
        PROVE  disk[p] = g /\ (LiesAt(g, p) => LiesAt(g, p)')
    <3>1. disk[p] = g /\ g # f
      BY <1>1, <1>2, <2>3, <2>4
    <3> QED
      BY <1>1, <2>2, <3>1 DEF LiesAt
  <2> QED
    BY <1>1, <1>2, <2>4, CopiesFrame
<1> QED
  BY <1>3, <1>4 DEF Fill, Cancel

LEMMA MoveCopies ==
  ASSUME IInv, CopiesOK, NEW f \in Files, Move(f)
  PROVE  CopiesOK'
<1>1. /\ proc = "up" /\ proc' = "up" /\ current = f /\ stage[f] = "downloading"
      /\ UNCHANGED <<localPath, upload, struck>>
      /\ target \in Paths
  BY DEF Move, Transferring, Up, IInv, TypeOK, TransferOK
<1>2. PICK b \in {f, Cut} : disk' = [disk EXCEPT ![target] = b]
  BY DEF Move
<1>3. \/ stage' = [stage EXCEPT ![f] = "moved"] /\ target' = target
      \/ stage' = [stage EXCEPT ![f] = "cancelled"] /\ f \in BotApi
  BY DEF Move
<1>4. /\ \A g \in Files : g # f => stage'[g] = stage[g] /\ stage[g] # "moved"
      /\ \/ stage'[f] = "moved" /\ target' = target
         \/ stage'[f] = "cancelled" /\ f \in BotApi
      /\ localPath[f] = NoPath
  BY <1>1, <1>3 DEF IInv, TypeOK, TransferOK, StageOK, Early
<1>5. ASSUME Clean', NEW g \in Files, NEW p \in Paths, disk'[p] = g
      PROVE  LiesAt(g, p)'
  <2>1. Clean
    BY <1>1, <1>5 DEF Clean, Spared
  <2>2. p # target => disk[p] = g
    BY <1>1, <1>2, <1>5 DEF IInv, TypeOK
  <2>3. p = target => g = f
    BY <1>1, <1>2, <1>5 DEF IInv, TypeOK
  <2>4. CASE g = f
    <3>1. p = target
      BY <1>1, <2>1, <2>2, <2>4, EarlyCopies
    <3> QED
      BY <1>1, <1>4, <2>4, <3>1 DEF LiesAt
  <2>5. CASE g # f
    <3>1. LiesAt(g, p)
      BY <2>1, <2>2, <2>3, <2>5 DEF CopiesOK
    <3> QED
      BY <1>1, <1>4, <2>5, <3>1 DEF LiesAt
  <2> QED
    BY <2>4, <2>5
<1> QED
  BY <1>1, <1>5 DEF CopiesOK

LEMMA RecordCopies ==
  ASSUME IInv, CopiesOK, NEW f \in Files, Record(f)
  PROVE  CopiesOK'
<1>1. /\ proc = "up" /\ proc' = "up" /\ stage[f] = "moved" /\ current = f
      /\ localPath[f] = NoPath
      /\ localPath' = [localPath EXCEPT ![f] = target]
      /\ stage' = [stage EXCEPT ![f] = "awaiting"]
      /\ UNCHANGED <<disk, upload, struck>>
  BY DEF Record, Recorded, Up, IInv, TransferOK, StageOK, Early
<1>2. /\ stage'[f] = "awaiting" /\ localPath'[f] = target
      /\ \A g \in Files : g # f =>
           stage'[g] = stage[g] /\ localPath'[g] = localPath[g] /\ stage[g] # "moved"
  BY <1>1 DEF IInv, TypeOK, TransferOK
<1>3. Clean' = Clean
  BY <1>1 DEF Clean, Spared
<1>4. ASSUME NEW g \in Files, NEW p \in Paths, LiesAt(g, p)
      PROVE  LiesAt(g, p)'
  BY <1>1, <1>2, <1>4 DEF LiesAt
<1> QED
  BY <1>1, <1>3, <1>4, CopiesFrame

LEMMA RenameCopies ==
  ASSUME IInv, CopiesOK, NEW f \in Files, NEW name \in Names, Rename(f, name)
  PROVE  CopiesOK'
<1>1. PICK p \in UniquePaths(name) :
        /\ RenameTo(f, p)
        /\ IF stage[f] # "awaiting" THEN Strike("stale")
           ELSE IF p = target THEN Strike("clash")
           ELSE UNCHANGED struck
        /\ localPath' = [localPath EXCEPT ![f] = p]
  BY DEF Rename
<1>2. /\ p \in Paths /\ disk[p] = NoFile
      /\ proc = "up" /\ proc' = "up"
      /\ stage' = [stage EXCEPT ![f] = "awaiting"]
      /\ UNCHANGED <<target, upload>>
      /\ localPath[f] \in Paths /\ localPath[f] # p
      /\ disk' = [Without(localPath[f]) EXCEPT ![p] = disk[localPath[f]]]
  BY <1>1, Free DEF Rename, RenameTo, Taken, Up, IInv, TypeOK
<1>3. Clean' => Clean /\ stage[f] = "awaiting"
  BY <1>1 DEF Strike, Clean, Spared
<1>4. /\ stage'[f] = "awaiting" /\ localPath'[f] = p
      /\ \A g \in Files : g # f => stage'[g] = stage[g] /\ localPath'[g] = localPath[g]
      /\ disk'[p] = disk[localPath[f]] /\ disk'[localPath[f]] = NoFile
      /\ \A q \in Paths : q # p /\ q # localPath[f] => disk'[q] = disk[q]
  BY <1>1, <1>2 DEF Without, IInv, TypeOK
<1>5. ASSUME Clean', NEW g \in Files, NEW q \in Paths, disk'[q] = g
      PROVE  LiesAt(g, q)'
  <2>1. Given /\ Holds(f)
    BY <1>2, <1>3, <1>5, CleanIsGiven DEF Holds, Waiting
  <2>2. disk[localPath[f]] \in {f, Cut}
    BY <2>1 DEF IInv, HoldersOK, Own
  <2>3. CASE q = p
    BY <1>4, <1>5, <2>2, <2>3 DEF LiesAt
  <2>4. CASE q # p
    <3>1. q # localPath[f] /\ disk[q] = g
      BY <1>4, <1>5, <2>4
    <3>2. LiesAt(g, q)
      BY <1>3, <1>5, <3>1 DEF CopiesOK
    <3> QED
      BY <1>2, <1>3, <1>4, <1>5, <3>1, <3>2 DEF LiesAt
  <2> QED
    BY <2>3, <2>4
<1> QED
  BY <1>2, <1>5 DEF CopiesOK

\* A crash, a cut rename and /cleanup_temp strike; there is no restart without.
LEMMA ProcessCopies ==
  ASSUME IInv, CopiesOK,
         \/ CleanupTemp \/ Crash \/ Restart
         \/ \E f \in Files, name \in Names : TornRename(f, name)
  PROVE  CopiesOK'
<1>1. CASE Restart
  <2>1. ~Clean /\ struck' = struck
    BY <1>1 DEF Restart, CopiesOK
  <2> QED
    BY <2>1 DEF CopiesOK, Clean, Spared
<1>2. CASE ~Restart
  <2>1. \E fault \in {"crash", "torn", "cleanup"} : Strike(fault)
    BY <1>2 DEF CleanupTemp, Crash, TornRename
  <2> QED
    BY <2>1 DEF CopiesOK, Clean, Spared, Strike
<1> QED
  BY <1>1, <1>2

\* The stage of one job changes, and nothing is deleted.
LEMMA StageCopies ==
  ASSUME IInv, CopiesOK, proc' = "up", UNCHANGED <<disk, localPath, target, struck>>,
         NEW f \in Files, stage[f] \notin Early \cup {"cancelled"},
         \A g \in Files : g # f => stage'[g] = stage[g],
         \/ localPath[f] = NoPath
         \/ stage'[f] \notin {"done", "cancelled"}
         \/ stage'[f] = "cancelled" /\ upload'.file = f,
         \A g \in Files : stage[g] = "cancelled" /\ upload.file = g => upload'.file = g
  PROVE  CopiesOK'
<1>1. Clean' = Clean
  BY DEF Clean, Spared
<1>2. ASSUME NEW g \in Files, NEW p \in Paths, LiesAt(g, p)
      PROVE  LiesAt(g, p)'
  <2>1. CASE g # f
    BY <1>2, <2>1 DEF LiesAt
  <2>2. CASE g = f
    <3>1. p = localPath[f] /\ localPath[f] # NoPath
      BY <1>2, <2>2 DEF LiesAt, Early
    <3> QED
      BY <2>2, <3>1 DEF LiesAt
  <2> QED
    BY <2>1, <2>2
<1> QED
  BY <1>1, <1>2, CopiesFrame

\* A clean-up leaves no copy of its job.
LEMMA CleanUpCopies ==
  ASSUME IInv, CopiesOK, proc' = "up", UNCHANGED <<localPath, target>>,
         NEW f \in Files, localPath[f] # NoPath, stage[f] \notin Early, CleanUp(f),
         \A g \in Files : g # f => stage'[g] = stage[g],
         upload' = upload \/ upload.file = f
  PROVE  CopiesOK'
<1>1. Clean' => Clean /\ Given'
  BY DEF CleanUp, Strike, Clean, Given, Spared
<1>2. Clean' => \A p \in Paths : disk'[p] = IF p = localPath[f] THEN NoFile ELSE disk[p]
  BY <1>1, CleanedPath DEF IInv
<1>3. ASSUME Clean', NEW g \in Files, NEW p \in Paths, disk'[p] = g
      PROVE  disk[p] = g /\ (LiesAt(g, p) => LiesAt(g, p)')
  <2>1. p # localPath[f] /\ disk[p] = g
    BY <1>2, <1>3
  <2>2. LiesAt(g, p) => g # f
    BY <2>1 DEF LiesAt, Early
  <2> QED
    BY <2>1, <2>2 DEF LiesAt
<1> QED
  BY <1>1, <1>3, CopiesFrame

LEMMA AnswerCopies ==
  ASSUME IInv, CopiesOK, NEW f \in Files, Skip(f) \/ Choose(f) \/ RetryFailed(f) \/ Claim(f)
  PROVE  CopiesOK'
<1>1. /\ proc' = "up" /\ UNCHANGED <<disk, localPath, target, struck>>
      /\ stage[f] \in {"awaiting", "failed", "ready"}
      /\ upload' = upload \/ upload = Idle
  BY DEF Skip, Choose, RetryFailed, Claim, Up
<1>2. PICK s \in {"skipped", "ready", "queued", "uploading", "failed"} : stage' = [stage EXCEPT ![f] = s]
  BY DEF Skip, Choose, RetryFailed, Claim
<1>3. stage'[f] = s /\ \A g \in Files : g # f => stage'[g] = stage[g]
  BY <1>2 DEF IInv, TypeOK
<1>4. \A g \in Files : upload.file = g => upload'.file = g
  BY <1>1 DEF Idle
<1> QED
  BY <1>1, <1>3, <1>4, StageCopies DEF Early

LEMMA UploadCopies ==
  ASSUME IInv, CopiesOK, Open \/ Uploaded \/ UploadFails
  PROVE  CopiesOK'
<1>0. PICK f \in Files : f = upload.file
  BY DEF Open, Uploaded, UploadFails, IInv, TypeOK, UploadOK, Idle
<1>1. proc' = "up" /\ UNCHANGED <<localPath, target>> /\ localPath[f] # NoPath /\ stage[f] \notin Early
  BY <1>0 DEF Open, Uploaded, UploadFails, Up, IInv, UploadOK, StageOK
<1>2. CASE Open
  <2>1. UNCHANGED <<disk, localPath, stage, target, struck>> /\ upload'.file = upload.file
    BY <1>2 DEF Open, IInv, TypeOK
  <2>2. Clean' = Clean /\ \A g \in Files, p \in Paths : LiesAt(g, p) => LiesAt(g, p)'
    BY <2>1 DEF Clean, Spared, LiesAt
  <2> QED
    BY <1>1, <2>1, <2>2, CopiesFrame
<1>3. CASE CleanUp(f) /\ \A g \in Files : g # f => stage'[g] = stage[g]
  BY <1>0, <1>1, <1>3, CleanUpCopies
<1>4. CASE /\ UNCHANGED <<disk, struck>> /\ stage[f] = "uploading" /\ upload' = Idle
           /\ \E s \in {"ready", "failed"} : stage' = [stage EXCEPT ![f] = s]
  <2>1. /\ stage'[f] \in {"ready", "failed"}
        /\ \A g \in Files : g # f => stage'[g] = stage[g]
    BY <1>4 DEF IInv, TypeOK
  <2> QED
    BY <1>0, <1>1, <1>4, <2>1, StageCopies
<1>5. CASE UNCHANGED <<disk, stage, struck>> /\ stage[f] # "cancelled" /\ upload' = Idle
  <2>1. Clean' = Clean /\ \A g \in Files, p \in Paths : LiesAt(g, p) => LiesAt(g, p)'
    BY <1>0, <1>1, <1>5 DEF Clean, Spared, LiesAt
  <2> QED
    BY <1>1, <1>5, <2>1, CopiesFrame
<1>6. ASSUME Uploaded \/ UploadFails
      PROVE  \/ CleanUp(f) /\ \A g \in Files : g # f => stage'[g] = stage[g]
             \/ /\ UNCHANGED <<disk, struck>> /\ stage[f] = "uploading" /\ upload' = Idle
                /\ \E s \in {"ready", "failed"} : stage' = [stage EXCEPT ![f] = s]
             \/ UNCHANGED <<disk, stage, struck>> /\ stage[f] # "cancelled" /\ upload' = Idle
  <2>1. stage \in [Files -> Stages] /\ upload' = Idle
    BY <1>6 DEF IInv, TypeOK, Uploaded, UploadFails
  <2>2. CASE stage[f] = "uploading"
    <3>1. CASE Uploaded
      <4>1. stage' = [stage EXCEPT ![f] = "done"] /\ CleanUp(f)
        BY <1>0, <2>2, <3>1 DEF Uploaded
      <4> QED
        BY <2>1, <4>1
    <3>2. CASE UploadFails
      BY <1>0, <2>1, <2>2, <3>2 DEF UploadFails
    <3> QED
      BY <1>6, <3>1, <3>2
  <2>3. CASE stage[f] = "cancelled"
    <3>1. CleanUp(f) /\ stage' = stage
      BY <1>0, <1>6, <2>3 DEF Uploaded, UploadFails
    <3> QED
      BY <3>1
  <2>4. CASE stage[f] \notin {"uploading", "cancelled"}
    <3>1. UNCHANGED <<disk, stage, struck>>
      BY <1>0, <1>6, <2>4 DEF Uploaded, UploadFails
    <3> QED
      BY <2>1, <2>4, <3>1
  <2> QED
    BY <2>2, <2>3, <2>4
<1> QED
  BY <1>2, <1>3, <1>4, <1>5, <1>6

LEMMA CancelUploadCopies ==
  ASSUME IInv, CopiesOK, NEW f \in Files, CancelUpload(f)
  PROVE  CopiesOK'
<1>1. /\ proc' = "up" /\ stage[f] \in {"ready", "uploading"}
      /\ stage' = [stage EXCEPT ![f] = "cancelled"]
      /\ UNCHANGED <<localPath, target, upload>>
  BY DEF CancelUpload, Up
<1>2. /\ stage'[f] = "cancelled" /\ \A g \in Files : g # f => stage'[g] = stage[g]
      /\ localPath[f] # NoPath /\ stage[f] \notin Early
  BY <1>1 DEF IInv, TypeOK, StageOK, Waiting, Early
<1>3. CASE upload.file = f
  <2>1. UNCHANGED <<disk, struck>>
    BY <1>3 DEF CancelUpload
  <2> QED
    BY <1>1, <1>2, <1>3, <2>1, StageCopies DEF Early
<1>4. CASE upload.file # f
  <2>1. CleanUp(f)
    BY <1>4 DEF CancelUpload
  <2> QED
    BY <1>1, <1>2, <2>1, CleanUpCopies
<1> QED
  BY <1>3, <1>4

LEMMA CopiesStep == IInv /\ CopiesOK /\ [Next]_vars => CopiesOK'
<1> SUFFICES ASSUME IInv, CopiesOK, [Next]_vars PROVE CopiesOK' OBVIOUS
<1>1. CASE UNCHANGED vars
  BY <1>1 DEF vars, CopiesOK, Clean, Spared, LiesAt
<1>2. ASSUME NEW f \in Files, Transfer(f) PROVE CopiesOK'
  BY <1>2, TransferCopies, MoveCopies, RecordCopies DEF Transfer
<1>3. ASSUME NEW f \in Files, Answer(f) PROVE CopiesOK'
  BY <1>3, RenameCopies, ProcessCopies, AnswerCopies DEF Answer
<1>4. ASSUME NEW f \in Files, Upload(f) PROVE CopiesOK'
  BY <1>4, AnswerCopies, CancelUploadCopies DEF Upload
<1> QED
  BY <1>1, <1>2, <1>3, <1>4, UploadCopies, ProcessCopies DEF Next

\* While nothing went wrong downloads/ holds no copy of a job's bytes but the
\* one its transfer moved or its record names.
THEOREM CopiesInvariance == Spec => []CopiesOK
<1>1. Init => CopiesOK
  BY DEF Init, CopiesOK
<1>2. IInv /\ CopiesOK /\ [Next]_vars => CopiesOK'
  BY CopiesStep
<1> QED
  BY <1>1, <1>2, Invariance, PTL DEF Spec

\* An uploaded or cancelled job leaves nothing behind, however many jobs
\* share its name.
THEOREM SettledJobsLeaveNothing == Spec => []SettledLeavesNothing
<1>1. CopiesOK => SettledLeavesNothing
  BY DEF CopiesOK, LiesAt, Clean, SettledLeavesNothing
<1> QED
  BY <1>1, CopiesInvariance, PTL

-----------------------------------------------------------------------------
(* Why LocalOverwrite finds a counterexample to ADR 0001: the name chosen   *)
(* for a transfer is lost to a rename, and to nothing else.                 *)

TargetFree ==
  Spared({"clash", "stale"}) /\ current # NoFile /\ stage[current] = "downloading" =>
    ~Taken(target)

\* Only a rename to the target fills a path other than by the move.
LEMMA FillsNoTarget ==
  ASSUME IInv, [Next]_vars, Spared({"clash", "stale"})', ~Taken(target),
         current # NoFile, stage[current] = "downloading",
         current' = current, stage'[current] = "downloading"
  PROVE  ~Taken(target)' /\ target' = target
<1>1. CASE UNCHANGED <<disk, target>>
  BY <1>1 DEF Taken
<1>2. current \in Files /\ target \in Paths /\ stage \in [Files -> Stages]
  BY DEF IInv, TypeOK, TransferOK
<1>3. ASSUME NEW f \in Files, Transfer(f) PROVE UNCHANGED <<disk, target>>
  <2>1. \A g \in Files : stage[g] \in {"downloading", "moved"} => g = current
    BY <1>2, <1>3 DEF IInv, TransferOK, Transfer, Start, DropCancelled, Fill, Fail, Abort,
                      Move, Record, Cancel, Transferring, Up
  <2> QED
    BY <1>2, <1>3, <2>1 DEF Transfer, Start, DropCancelled, Fill, Fail, Abort, Move, Record,
                            Cancel, Transferring
<1>4. ASSUME NEW f \in Files, NEW n \in Names, Rename(f, n)
      PROVE  ~Taken(target)' /\ target' = target
  <2>1. PICK p \in UniquePaths(n) :
          /\ RenameTo(f, p)
          /\ IF stage[f] # "awaiting" THEN Strike("stale")
             ELSE IF p = target THEN Strike("clash")
             ELSE UNCHANGED struck
    BY <1>4 DEF Rename
  <2>2. p # target
    BY <2>1, StrikeKeeps DEF Spared, Strike
  <2>3. disk'[target] = IF localPath[f] = target THEN NoFile ELSE disk[target]
    BY <1>2, <2>1, <2>2 DEF RenameTo, Without, IInv, TypeOK
  <2> QED
    BY <1>4, <2>3 DEF Rename, Taken
<1>5. ASSUME NEW f \in Files, CleanUp(f), target' = target
      PROVE  ~Taken(target)' /\ target' = target
  BY <1>2, <1>5 DEF CleanUp, AfterCleanup, Taken
<1>6. ASSUME NEW f \in Files, Answer(f) PROVE ~Taken(target)' /\ target' = target
  BY <1>1, <1>4, <1>6 DEF Answer, Skip, Choose, TornRename, Stopped, Strike
<1>7. ASSUME NEW f \in Files, Upload(f) PROVE ~Taken(target)' /\ target' = target
  BY <1>1, <1>5, <1>7 DEF Upload, Claim, CancelUpload, RetryFailed
<1>8. CASE Uploaded \/ UploadFails
  <2>1. target' = target /\ (UNCHANGED disk \/ CleanUp(upload.file))
    BY <1>8 DEF Uploaded, UploadFails
  <2> QED
    BY <1>2, <2>1 DEF CleanUp, AfterCleanup, Taken
<1>9. CASE CleanupTemp
  BY <1>2, <1>9 DEF CleanupTemp, Taken
<1> QED
  BY <1>1, <1>3, <1>6, <1>7, <1>8, <1>9 DEF vars, Next, Open, Crash, Stopped, Restart

\* The target is free when it is chosen, and until the move.
LEMMA TargetFreeStep == IInv /\ IInv' /\ TargetFree /\ [Next]_vars => TargetFree'
<1> SUFFICES ASSUME IInv, IInv', TargetFree, [Next]_vars, Spared({"clash", "stale"})',
                    current' # NoFile, stage'[current'] = "downloading"
             PROVE  ~Taken(target)'
  BY DEF TargetFree
<1>1. current' \in Files /\ stage \in [Files -> Stages]
  BY DEF IInv, TypeOK
<1>2. struck \subseteq struck'
  BY DEF Next, Transfer, Answer, Upload, vars, Start, DropCancelled, Fill, Fail, Abort, Move,
         Record, Cancel, Rename, TornRename, Skip, Choose, Claim, Open, Uploaded, UploadFails,
         CancelUpload, RetryFailed, CleanupTemp, Crash, Restart, CleanUp, Strike
<1>3. CASE stage[current'] = "downloading" /\ current' = current
  BY <1>1, <1>2, <1>3, FillsNoTarget DEF TargetFree, Spared
<1>4. CASE Start(current')
  BY <1>4, Free DEF Start, Taken
<1>5. CASE stage[current'] # "downloading"
  <2>1. Start(current')
    BY <1>1, <1>5 DEF Next, Transfer, Answer, Upload, vars, Start, DropCancelled, Fill, Fail,
           Abort, Move, Record, Cancel, Rename, TornRename, Skip, Choose, Claim, Open,
           Uploaded, UploadFails, CancelUpload, RetryFailed, CleanupTemp, Crash, Restart, Recovered
  <2> QED
    BY <1>4, <2>1
<1>6. CASE current' # current
  <2>1. Start(current')
    BY <1>1, <1>6 DEF Next, Transfer, Answer, Upload, vars, Start, DropCancelled, Fill, Fail,
           Abort, Move, Record, Cancel, Rename, TornRename, Skip, Choose, Claim, Open, Stopped,
           Uploaded, UploadFails, CancelUpload, RetryFailed, CleanupTemp, Crash, Restart
  <2> QED
    BY <1>4, <2>1
<1> QED
  BY <1>3, <1>5, <1>6

\* ADR 0001's unique final filename holds except for renames: a move replaces
\* no file, unless the user renamed a file to the running transfer's name, or
\* renamed one that awaited no name any more.  Crashes, torn renames and
\* deletions do not matter.
THEOREM MovesReplaceNothing ==
  Spec => [][Spared({"clash", "stale"}) => \A f \in Files : Move(f) => ~Taken(target)]_vars
<1>1. Init => TargetFree
  BY DEF Init, TargetFree
<1>2. IInv /\ TargetFree /\ [Next]_vars =>
        (Spared({"clash", "stale"}) => \A f \in Files : Move(f) => ~Taken(target))
  BY DEF TargetFree, Move, Transferring
<1> QED
  BY <1>1, <1>2, TargetFreeStep, Invariance, PTL DEF Spec
=============================================================================
