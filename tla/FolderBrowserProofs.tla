------------------------- MODULE FolderBrowserProofs -------------------------
(* Proofs about FolderBrowser, for every set of pages, TTL and bound on the  *)
(* changes and failures of Drive.                                            *)
EXTENDS FolderBrowser, TLAPS

USE KeysAssumption, PrefixAssumption, BoundsAssumption

\* An entry that is not what Drive has was read before the last change, or
\* stands for a failure: its place has not been quiet for longer than its age.
StaleIsOld ==
  \A k \in Keys : cache[k].version # Now(k) => quiet[Place[k]] <= cache[k].age

\* Drive's content only grows, so a refresh has seen at most the present one;
\* the shared drives are never refreshed.
FloorIsPast ==
  /\ \A k \in Keys : floor[k] <= Now(k)
  /\ floor[Drives] = Empty

IInv == TypeOK /\ StaleIsOld /\ FloorIsPast /\ RefreshIsNotUndone

-----------------------------------------------------------------------------
(* What the state holds, and what the operators on entries return. *)

LEMMA Typed ==
  ASSUME TypeOK
  PROVE  /\ Empty \in Nat /\ Versions \subseteq Nat
         /\ \A p \in Places : content[p] \in Versions /\ quiet[p] \in 0 .. TTL
         /\ \A k \in Keys : /\ Place[k] \in Places
                            /\ Now(k) \in Versions
                            /\ quiet[Place[k]] \in 0 .. TTL
                            /\ cache[k].version \in Versions \cup {Empty}
                            /\ cache[k].age \in 0 .. TTL
                            /\ floor[k] \in Nat
BY DEF TypeOK, Entries, Versions, Empty, Now

LEMMA OlderEntry ==
  ASSUME NEW entry \in Entries
  PROVE  /\ Older(entry) \in Entries
         /\ Older(entry).version = entry.version
         /\ Older(entry).age = IF entry.age < TTL THEN entry.age + 1 ELSE entry.age
BY DEF Older, Entries

LEMMA NothingIsExpired == Nothing \in Entries /\ Nothing.age = TTL
BY DEF Nothing, Entries

LEMMA FilledEntries ==
  ASSUME NEW c \in [Keys -> Entries], NEW k \in Keys, NEW v \in Versions \cup {Empty}
  PROVE  /\ Filled(c, k, v) \in [Keys -> Entries]
         /\ Filled(c, k, v)[k].version = v /\ Filled(c, k, v)[k].age = 0
         /\ \A j \in Keys : j # k => Filled(c, k, v)[j] = c[j]
BY DEF Filled, Entries

LEMMA InvalidatedEntries ==
  ASSUME TypeOK, NEW k \in Keys
  PROVE  /\ Invalidated(k) \in [Keys -> Entries]
         /\ Invalidated(k)[k] = Nothing
         /\ \A j \in Keys : Invalidated(k)[j] \in {cache[j], Nothing}
BY NothingIsExpired DEF Invalidated, TypeOK

-----------------------------------------------------------------------------
(* Every step keeps the invariant. *)

LEMMA InitIInv == Init => IInv
<1> SUFFICES ASSUME Init PROVE IInv OBVIOUS
<1>1. TypeOK
  BY NothingIsExpired DEF Init, TypeOK, Versions, Empty
<1>2. StaleIsOld /\ FloorIsPast /\ RefreshIsNotUndone
  BY <1>1, Typed, NothingIsExpired
     DEF Init, StaleIsOld, FloorIsPast, RefreshIsNotUndone, Now, Live, Empty, Keys
<1> QED
  BY <1>1, <1>2 DEF IInv

LEMMA ChangeKeeps ==
  ASSUME IInv, NEW p \in Places, Change(p)
  PROVE  IInv'
<1> USE DEF IInv
<1>1. TypeOK'
  BY DEF Change, TypeOK, Versions
<1>2. /\ \A k \in Keys : Place[k] # p => Now(k)' = Now(k) /\ quiet'[Place[k]] = quiet[Place[k]]
      /\ \A k \in Keys : Place[k] = p => quiet'[Place[k]] = 0
      /\ \A k \in Keys : Now(k) <= Now(k)'
  BY Typed DEF Change, Now, TypeOK
<1>3. UNCHANGED <<cache, floor>>
  BY DEF Change
<1>4. StaleIsOld'
  BY <1>2, <1>3, Typed DEF StaleIsOld
<1>5. FloorIsPast'
  <2>1. \A k \in Keys : floor'[k] <= Now(k)'
    <3> SUFFICES ASSUME NEW k \in Keys PROVE floor[k] <= Now(k)'
      BY <1>3
    <3>1. Now(k)' \in Nat /\ Now(k) \in Nat /\ floor[k] \in Nat
      BY <1>1, Typed DEF Now, TypeOK, Versions
    <3> QED
      BY <3>1, <1>2 DEF FloorIsPast
  <2> QED
    BY <2>1, <1>3 DEF FloorIsPast
<1>6. RefreshIsNotUndone'
  BY <1>3 DEF RefreshIsNotUndone, Live
<1> QED
  BY <1>1, <1>4, <1>5, <1>6

LEMMA TickKeeps ==
  ASSUME IInv, Tick
  PROVE  IInv'
<1> USE DEF IInv
<1>1. TypeOK'
  BY OlderEntry DEF Tick, TypeOK
<1>2. UNCHANGED <<content, floor>>
  BY DEF Tick
<1>3. ASSUME NEW k \in Keys
      PROVE  /\ cache'[k].version = cache[k].version
             /\ cache'[k].age = IF cache[k].age < TTL THEN cache[k].age + 1 ELSE cache[k].age
             /\ quiet'[Place[k]] = IF quiet[Place[k]] < TTL THEN quiet[Place[k]] + 1 ELSE TTL
  <2>1. cache[k] \in Entries /\ Place[k] \in Places
    BY DEF TypeOK
  <2> QED
    BY <2>1, OlderEntry DEF Tick
<1>4. StaleIsOld'
  BY <1>2, <1>3, Typed DEF StaleIsOld, Now
<1>5. FloorIsPast'
  BY <1>2 DEF FloorIsPast, Now
<1>6. RefreshIsNotUndone'
  BY <1>2, <1>3, Typed DEF RefreshIsNotUndone, Live
<1> QED
  BY <1>1, <1>4, <1>5, <1>6

LEMMA ViewKeeps ==
  ASSUME IInv, NEW k \in Keys, View(k)
  PROVE  IInv'
<1> USE DEF IInv
<1>1. CASE Hit(k)
  BY <1>1, Typed
     DEF Hit, AfterHit, TypeOK, StaleIsOld, FloorIsPast, RefreshIsNotUndone, Now, Live
<1>2. CASE Miss(k)
  <2>1. cache \in [Keys -> Entries] /\ Now(k) \in Versions
    BY Typed DEF TypeOK
  <2>2. /\ cache' \in [Keys -> Entries]
        /\ cache'[k].version = Now(k)
        /\ \A j \in Keys : j # k => cache'[j] = cache[j]
    BY <1>2, <2>1, FilledEntries DEF Miss
  <2>3. UNCHANGED <<content, quiet, floor, errors>> /\ shown' = [shown EXCEPT ![k] = Now(k)]
    BY <1>2 DEF Miss
  <2>4. TypeOK'
    BY <2>1, <2>2, <2>3 DEF TypeOK
  <2>5. StaleIsOld' /\ FloorIsPast'
    BY <2>2, <2>3 DEF StaleIsOld, FloorIsPast, Now
  <2>6. RefreshIsNotUndone'
    BY <2>2, <2>3, Typed DEF RefreshIsNotUndone, FloorIsPast, Now, Live, Versions
  <2> QED
    BY <2>4, <2>5, <2>6
<1> QED
  BY <1>1, <1>2 DEF View

LEMMA MissFailsKeeps ==
  ASSUME IInv, NEW k \in Keys, MissFails(k)
  PROVE  IInv'
<1> USE DEF IInv
<1>1. TypeOK'
  BY Typed DEF MissFails, Fails, TypeOK
<1>2. UNCHANGED <<content, cache, floor>>
  BY DEF MissFails
<1>3. \A j \in Keys : quiet'[Place[j]] <= quiet[Place[j]] /\ quiet'[Place[j]] \in 0 .. TTL
  BY Typed DEF MissFails, TypeOK
<1>4. StaleIsOld'
  BY <1>2, <1>3, Typed DEF StaleIsOld, Now
<1>5. FloorIsPast' /\ RefreshIsNotUndone'
  BY <1>2 DEF FloorIsPast, RefreshIsNotUndone, Now, Live
<1> QED
  BY <1>1, <1>4, <1>5

LEMMA DrivesFailKeeps ==
  ASSUME IInv, DrivesFail
  PROVE  IInv'
<1> USE DEF IInv
<1>1. Drives \in Keys /\ Place[Drives] \in Places /\ cache \in [Keys -> Entries]
  BY DEF Keys, TypeOK
<1>2. /\ cache' \in [Keys -> Entries]
      /\ cache'[Drives].version = Empty
      /\ cache'[Drives].age = 0
      /\ \A j \in Keys : j # Drives => cache'[j] = cache[j]
  BY <1>1, FilledEntries DEF DrivesFail
<1>3. UNCHANGED <<content, floor>>
  BY DEF DrivesFail
<1>4. TypeOK'
  <2>1. errors' \in 0 .. MaxErrors
    BY DEF DrivesFail, Fails, TypeOK
  <2>2. quiet' \in [Places -> 0 .. TTL] /\ shown' \in [Keys -> Versions \cup {Empty}]
    BY <1>1 DEF DrivesFail, TypeOK
  <2> QED
    BY <1>2, <1>3, <2>1, <2>2 DEF TypeOK
<1>5. /\ quiet'[Place[Drives]] = 0
      /\ \A j \in Keys : quiet'[Place[j]] <= quiet[Place[j]] /\ quiet'[Place[j]] \in 0 .. TTL
  BY <1>1, Typed DEF DrivesFail, TypeOK
<1>6. StaleIsOld'
  BY <1>1, <1>2, <1>3, <1>5, Typed DEF StaleIsOld, Now
<1>7. FloorIsPast'
  BY <1>3 DEF FloorIsPast, Now
<1>8. RefreshIsNotUndone'
  BY <1>1, <1>2, <1>3 DEF FloorIsPast, RefreshIsNotUndone, Live, Empty
<1> QED
  BY <1>4, <1>6, <1>7, <1>8

LEMMA RefreshKeeps ==
  ASSUME IInv, NEW k \in Keys, Refresh(k)
  PROVE  IInv'
<1> USE DEF IInv
<1>1. Now(k) \in Versions /\ Now(k) \in Nat /\ k # Drives /\ Drives \in Keys
  BY Typed DEF Refresh, Keys
<1>2. /\ cache' \in [Keys -> Entries]
      /\ cache'[k].version = Now(k)
      /\ \A j \in Keys : j # k => cache'[j] \in {cache[j], Nothing}
  <2>1. /\ Invalidated(k) \in [Keys -> Entries]
        /\ \A j \in Keys : Invalidated(k)[j] \in {cache[j], Nothing}
    BY InvalidatedEntries
  <2>2. cache' = Filled(Invalidated(k), k, Now(k))
    BY DEF Refresh
  <2> QED
    BY <1>1, <2>1, <2>2, FilledEntries
<1>3. /\ UNCHANGED <<content, quiet, errors>>
      /\ shown' = [shown EXCEPT ![k] = Now(k)]
      /\ floor' = [floor EXCEPT ![k] = Now(k)]
  BY DEF Refresh
<1>4. TypeOK'
  BY <1>1, <1>2, <1>3 DEF TypeOK
<1>5. /\ floor'[k] = Now(k)
      /\ \A j \in Keys : j # k => floor'[j] = floor[j]
  BY <1>3 DEF TypeOK
<1>6. StaleIsOld'
  BY <1>2, <1>3, Typed, NothingIsExpired DEF StaleIsOld, Now
<1>7. FloorIsPast'
  BY <1>1, <1>3, <1>5 DEF FloorIsPast, Now
<1>8. RefreshIsNotUndone'
  BY <1>1, <1>2, <1>3, <1>5, NothingIsExpired DEF RefreshIsNotUndone, Live
<1> QED
  BY <1>4, <1>6, <1>7, <1>8

LEMMA RefreshFailsKeeps ==
  ASSUME IInv, NEW k \in Keys, RefreshFails(k)
  PROVE  IInv'
<1> USE DEF IInv
<1>1. Now(k) \in Versions /\ Now(k) \in Nat /\ k # Drives /\ Drives \in Keys
  BY Typed DEF RefreshFails, Keys
<1>2. /\ cache' \in [Keys -> Entries]
      /\ cache'[k] = Nothing
      /\ \A j \in Keys : cache'[j] \in {cache[j], Nothing}
  BY InvalidatedEntries DEF RefreshFails
<1>3. UNCHANGED <<content, shown>> /\ floor' = [floor EXCEPT ![k] = Now(k)]
  BY DEF RefreshFails
<1>4. TypeOK'
  <2>1. errors' \in 0 .. MaxErrors
    BY DEF RefreshFails, Fails, TypeOK
  <2>2. quiet' \in [Places -> 0 .. TTL]
    BY Typed DEF RefreshFails, TypeOK
  <2> QED
    BY <1>1, <1>2, <1>3, <2>1, <2>2 DEF TypeOK
<1>5. /\ floor'[k] = Now(k)
      /\ \A j \in Keys : j # k => floor'[j] = floor[j]
      /\ \A j \in Keys : quiet'[Place[j]] <= quiet[Place[j]] /\ quiet'[Place[j]] \in 0 .. TTL
  BY <1>3, Typed DEF RefreshFails, TypeOK
<1>6. StaleIsOld'
  BY <1>2, <1>3, <1>5, Typed, NothingIsExpired DEF StaleIsOld, Now
<1>7. FloorIsPast'
  BY <1>1, <1>3, <1>5 DEF FloorIsPast, Now
<1>8. RefreshIsNotUndone'
  BY <1>2, <1>3, <1>5, NothingIsExpired DEF RefreshIsNotUndone, Live
<1> QED
  BY <1>4, <1>6, <1>7, <1>8

\* The invariant is inductive.
THEOREM Invariance == Spec => []IInv
<1>1. IInv /\ [Next]_vars => IInv'
  <2> SUFFICES ASSUME IInv, [Next]_vars PROVE IInv' OBVIOUS
  <2>1. CASE UNCHANGED vars
    BY <2>1 DEF vars, IInv, TypeOK, StaleIsOld, FloorIsPast, RefreshIsNotUndone, Now, Live
  <2>2. CASE Next
    BY <2>2, ChangeKeeps, TickKeeps, ViewKeeps, MissFailsKeeps, DrivesFailKeeps,
       RefreshKeeps, RefreshFailsKeeps DEF Next
  <2> QED
    BY <2>1, <2>2
<1> QED
  BY <1>1, InitIInv, PTL DEF Spec

-----------------------------------------------------------------------------

\* Every variable of the browser and of Drive keeps to its values.
THEOREM TypeCorrect == Spec => []TypeOK
BY Invariance, PTL DEF IInv

\* A page the caches hold is what Drive has once its place has neither
\* changed nor failed for the TTL, whatever keys share prefixes and places.
THEOREM QuietDriveShown == Spec => []QuietDriveIsShown
<1>1. IInv => QuietDriveIsShown
  BY Typed DEF IInv, StaleIsOld, QuietDriveIsShown, Live
<1> QED
  BY <1>1, Invariance, PTL

\* What was cached before a refresh is not shown after it, also when the
\* refresh failed.
THEOREM RefreshNotUndone == Spec => []RefreshIsNotUndone
BY Invariance, PTL DEF IInv
=============================================================================
