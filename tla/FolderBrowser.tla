---------------------------- MODULE FolderBrowser ----------------------------
(***************************************************************************)
(* The caches of app/drive/browser.py before a Google Drive that changes   *)
(* on its own and sometimes fails: what the folder keyboards show.         *)
(*                                                                         *)
(* A page is known by its cache key, a place of Drive by how often it has  *)
(* changed.  Time passes in ticks, and entries grow older with them.       *)
(***************************************************************************)
EXTENDS Naturals

CONSTANTS
  Lists,      \* cache keys of list_folders
  Searches,   \* cache keys of search_folders
  Drives,     \* the cache key of list_shared_drives
  Places,     \* parts of Drive
  Place,      \* the place a key's page is read from
  Prefix,     \* pairs of keys, the first a prefix of the second
  TTL,        \* folder_browser_cache_ttl_seconds, in ticks
  MaxChanges, \* bound on the changes of a place
  MaxErrors   \* bound on the requests that fail

Keys == Lists \cup Searches \cup {Drives}

ASSUME KeysAssumption == Drives \notin Lists \cup Searches /\ Place \in [Keys -> Places]
ASSUME PrefixAssumption == Prefix \subseteq Keys \X Keys /\ \A k \in Keys : <<k, k>> \in Prefix
ASSUME BoundsAssumption == TTL \in Nat \ {0} /\ MaxChanges \in Nat /\ MaxErrors \in Nat

VARIABLES
  content, \* how often a place has changed
  quiet,   \* ticks since a place changed or failed, at most TTL
  cache,   \* the entry of a key: what was read and its age
  shown,   \* what was last shown for a key
  floor,   \* the content of a key's place when it was last refreshed
  errors   \* requests that have failed

vars == <<content, quiet, cache, shown, floor, errors>>

Empty == 0  \* an empty list of drives instead of an error
Nothing == [version |-> Empty, age |-> TTL]
Versions == 1 .. MaxChanges + 1
Entries == [version : Versions \cup {Empty}, age : 0 .. TTL]

Init ==
  /\ content = [p \in Places |-> 1]
  /\ quiet = [p \in Places |-> 0]
  /\ cache = [k \in Keys |-> Nothing]
  /\ shown = [k \in Keys |-> Empty]
  /\ floor = [k \in Keys |-> Empty]
  /\ errors = 0

-----------------------------------------------------------------------------
(* Building blocks. *)

Now(k) == content[Place[k]]

\* Mutant: an entry expires one tick late.
LiveTooLong(k) == cache[k].age <= TTL

\* TTLCache.get: an entry whose time has come is none.
Live(k) == cache[k].age < TTL

\* Mutant: a refresh reads past the cache and leaves it.
Kept(k) == cache

\* TTLCache.invalidate(prefix)
Invalidated(k) == [j \in Keys |-> IF <<k, j>> \in Prefix THEN Nothing ELSE cache[j]]

\* Mutant: a hit prolongs the entry.
Prolonged(k) == [cache EXCEPT ![k].age = 0]

\* A hit leaves the entry as it is.
AfterHit(k) == cache

\* Mutant: an entry grows older for ever.
OlderForever(entry) == [entry EXCEPT !.age = @ + 1]

Older(entry) == IF entry.age < TTL THEN [entry EXCEPT !.age = @ + 1] ELSE entry

Filled(c, k, v) == [c EXCEPT ![k] = [version |-> v, age |-> 0]]

Fails == errors < MaxErrors /\ errors' = errors + 1

-----------------------------------------------------------------------------
(* Drive and the clock. *)

Change(p) ==
  /\ content[p] <= MaxChanges
  /\ content' = [content EXCEPT ![p] = @ + 1]
  /\ quiet' = [quiet EXCEPT ![p] = 0]
  /\ UNCHANGED <<cache, shown, floor, errors>>

Tick ==
  /\ quiet' = [p \in Places |-> IF quiet[p] < TTL THEN quiet[p] + 1 ELSE TTL]
  /\ cache' = [k \in Keys |-> Older(cache[k])]
  /\ UNCHANGED <<content, shown, floor, errors>>

-----------------------------------------------------------------------------
(* DriveFolderBrowser *)

\* Every listing first looks into its cache.
Hit(k) ==
  /\ Live(k)
  /\ shown' = [shown EXCEPT ![k] = cache[k].version]
  /\ cache' = AfterHit(k)
  /\ UNCHANGED <<content, quiet, floor, errors>>

\* On a miss Drive is asked and its answer cached.
Miss(k) ==
  /\ ~Live(k)
  /\ shown' = [shown EXCEPT ![k] = Now(k)]
  /\ cache' = Filled(cache, k, Now(k))
  /\ UNCHANGED <<content, quiet, floor, errors>>

\* list_folders and search_folders let every error of the request through,
\* list_shared_drives those of the connection.
MissFails(k) ==
  /\ ~Live(k)
  /\ Fails
  /\ quiet' = [quiet EXCEPT ![Place[k]] = 0]
  /\ UNCHANGED <<content, cache, shown, floor>>

\* list_shared_drives answers an HttpError with an empty list, and caches it.
DrivesFail ==
  /\ ~Live(Drives)
  /\ Fails
  /\ shown' = [shown EXCEPT ![Drives] = Empty]
  /\ cache' = Filled(cache, Drives, Empty)
  /\ quiet' = [quiet EXCEPT ![Place[Drives]] = 0]
  /\ UNCHANGED <<content, floor>>

\* Refresh invalidates before it asks.  The shared drives have no refresh.
Refresh(k) ==
  /\ k # Drives
  /\ shown' = [shown EXCEPT ![k] = Now(k)]
  /\ cache' = Filled(Invalidated(k), k, Now(k))
  /\ floor' = [floor EXCEPT ![k] = Now(k)]
  /\ UNCHANGED <<content, quiet, errors>>

RefreshFails(k) ==
  /\ k # Drives
  /\ Fails
  /\ cache' = Invalidated(k)
  /\ floor' = [floor EXCEPT ![k] = Now(k)]
  /\ quiet' = [quiet EXCEPT ![Place[k]] = 0]
  /\ UNCHANGED <<content, shown>>

-----------------------------------------------------------------------------

View(k) == Hit(k) \/ Miss(k)

Next ==
  \/ Tick
  \/ \E p \in Places : Change(p)
  \/ \E k \in Keys : View(k) \/ MissFails(k) \/ Refresh(k) \/ RefreshFails(k)
  \/ DrivesFail

Spec == Init /\ [][Next]_vars

\* Time passes and the user keeps looking; nobody has to tap Refresh.
FairSpec == Spec /\ WF_vars(Tick) /\ \A k \in Keys : WF_vars(View(k))

-----------------------------------------------------------------------------
(* What is checked. *)

\* Every variable keeps to its values.
TypeOK ==
  /\ content \in [Places -> Versions]
  /\ quiet \in [Places -> 0 .. TTL]
  /\ cache \in [Keys -> Entries]
  /\ shown \in [Keys -> Versions \cup {Empty}]
  /\ floor \in [Keys -> Versions \cup {Empty}]
  /\ errors \in 0 .. MaxErrors

\* Once a place of Drive has neither changed nor failed for the TTL, every
\* page of it that the caches still hold is what Drive has: however often it
\* is looked at, no stale page and no empty list of drives outlives the TTL.
QuietDriveIsShown ==
  \A k \in Keys : quiet[Place[k]] = TTL /\ Live(k) => cache[k].version = Now(k)

\* What was cached before a refresh is never shown after it, not even when
\* the refresh itself failed.
RefreshIsNotUndone ==
  \A k \in Keys : Live(k) => cache[k].version >= floor[k]

\* When Drive has come to rest a user who keeps looking sees what it has,
\* without ever tapping Refresh.
StaleViewsEnd == \A k \in Keys : <>[](shown[k] = Now(k))
=============================================================================
