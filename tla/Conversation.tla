---------------------------- MODULE Conversation ----------------------------
(***************************************************************************)
(* One user's conversation after the downloads: the rename and folder      *)
(* handlers of app/telegram_bot.py, the user_data they keep in memory, the *)
(* rows they write, and the keyboards that stay in the chat.               *)
(*                                                                         *)
(* Updates are handled one after the other, and a handler changes nothing  *)
(* after an await, so a handler is a step.  It shows its result last, and  *)
(* that may fail.                                                          *)
(***************************************************************************)
EXTENDS Naturals, Sequences, FiniteSets

CONSTANTS
  Files,       \* files whose rename prompt was sent
  NoFile,      \* no file
  Folders,     \* folders of Google Drive
  NoFolder,    \* no folder
  Root,        \* My Drive
  SharedDrive, \* the root folder of the one shared drive
  Search,      \* the place the search results are listed in
  Contents,    \* the pages of folders listed in each place
  RecentLimit, \* folder_recent_limit
  MaxDepth,    \* bound on the back stack
  Strikes,     \* the faults that may strike
  MaxStruck,   \* how many of them in one behaviour
  Once         \* a bound: those that strike only once in a behaviour

Faults == {"crash",    \* the process dies, user_data is lost
           "cancel",   \* Cancel is tapped or /cancel sent
           "overlap",  \* a file is answered while another is being answered
           "late",     \* a file is answered that no longer waits
           "drive",    \* Google Drive fails or refuses the folder
           "telegram"} \* showing the result fails

Places == Folders \cup {Search}

ASSUME FilesAssumption == NoFile \notin Files
ASSUME FoldersAssumption ==
  /\ NoFolder \notin Folders /\ Search \notin Folders
  /\ Root \in Folders /\ SharedDrive \in Folders
ASSUME ContentsAssumption ==
  Contents \in [Places -> Seq(Seq(Folders))] /\ \A p \in Places : Contents[p] # <<>>
ASSUME BoundsAssumption == RecentLimit \in Nat \ {0} /\ MaxDepth \in Nat /\ MaxStruck \in Nat
ASSUME FaultsAssumption == Strikes \subseteq Faults /\ Once \subseteq Faults

VARIABLES
  \* the database
  status,    \* files.status
  dest,      \* files.destination_folder_id
  chosen,    \* the folder named on the button tapped or in the text sent
  last,      \* user_folder_preferences.last_folder_id
  recent,    \* recent_folders, the latest first
  favorites, \* folder_favorites
  \* the process and the chat
  data,      \* user_data
  chat,      \* the keyboards of a file: of the prompt and of a later reply
  struck     \* the faults that have struck

rows    == <<status, dest, chosen>>
folders == <<last, recent, favorites>>
vars    == <<rows, folders, data, chat, struck>>

Views == {v \in [place : Places, page : Nat \ {0}] : v.page <= Len(Contents[v.place])}
NoView == <<>>

\* PENDING_RENAME_KEY, PENDING_FOLDER_ID_KEY, .._SEARCH_KEY, FOLDER_VIEW_KEY,
\* .._BACK_STACK_KEY, .._TOKEN_KEY (its counter is the length) and
\* .._SHARED_DRIVES_KEY.  PENDING_FOLDER_FILE_KEY and FOLDER_SEARCH_QUERY_KEY
\* are never acted on.
NoData == [rename |-> NoFile, id |-> NoFile, search |-> NoFile,
           view |-> NoView, back |-> <<>>, tokens |-> <<>>, drives |-> FALSE]

\* A keyboard: its kind, the folder its Last Folder button names, the tokens
\* of its Select buttons with the folders they name, the token of the current
\* folder, whether its favorite button removes that, whether it has Next.
Keyboard(kind) == [kind |-> kind, last |-> NoFolder, labels |-> {},
                   current |-> 0, remove |-> FALSE, next |-> FALSE]
Gone == Keyboard("gone")
Kinds == {"gone", "rename", "entry", "home", "roots", "page", "list", "cancel"}
Keyboards == [kind : Kinds, last : Folders \cup {NoFolder}, labels : SUBSET (Nat \X Folders),
              current : Nat, remove : BOOLEAN, next : BOOLEAN]

Init ==
  /\ status = [f \in Files |-> "awaiting_rename"]
  /\ dest = [f \in Files |-> NoFolder]
  /\ chosen = [f \in Files |-> NoFolder]
  /\ last \in {NoFolder, Root}
  /\ recent = IF last = NoFolder THEN <<>> ELSE <<last>>
  /\ favorites = {}
  /\ data = NoData
  /\ chat = [f \in Files |-> [i \in {1, 2} |-> IF i = 1 THEN Keyboard("rename") ELSE Gone]]
  /\ struck = {}

-----------------------------------------------------------------------------
(* Building blocks. *)

\* A late answer needs a keyboard that another fault left; it is not counted.
StrikeAll(faults) ==
  /\ faults \subseteq Strikes \ (struck \cap Once)
  /\ Cardinality((struck \cup faults) \ {"late"}) <= MaxStruck
  /\ struck' = struck \cup faults

Answering == {"awaiting_rename", "awaiting_folder"}

\* Another file is between its first answer and its folder.
Overlap(f) == \E g \in Files \ {f} : status[g] = "awaiting_folder" \/ data.rename = g

\* What answering f now means for the conversation.
Tapped(f) ==
  (IF Overlap(f) THEN {"overlap"} ELSE {}) \cup (IF status[f] \in Answering THEN {} ELSE {"late"})

\* _reply_or_edit: after a tap the keyboard tapped is replaced; after a text
\* the reply is the second keyboard, or none.
Edit(f, i, keyboard, faults) ==
  \/ /\ chat' = [chat EXCEPT ![f] = [k \in {1, 2} |-> IF k = i THEN keyboard ELSE @[k]]]
     /\ StrikeAll(faults)
  \/ UNCHANGED chat /\ StrikeAll(faults \cup {"telegram"})

NoKeyboard == 0

\* A bound: one reply at a time; an older question's Cancel is forgotten.
Replies(f) == chat[f][2].kind \in {"gone", "cancel"}

\* Mutant: the questions survive the end of a selection.
QuestionsKept(d) == [NoData EXCEPT !.rename = d.rename, !.id = d.id, !.search = d.search]

\* _clear_folder_state
Cleared(d) == [NoData EXCEPT !.rename = d.rename]

\* _clear_folder_navigation
Unnavigated(d) == [d EXCEPT !.view = NoView, !.back = <<>>]

Holds(seq, d) == \E i \in DOMAIN seq : seq[i] = d

\* _remember_folder_token
RememberOne(tokens, d) == IF Holds(tokens, d) THEN tokens ELSE Append(tokens, d)

\* One after the other for the folders of a keyboard.
RememberedUpTo(tokens, seq) ==
  LET after[i \in 0 .. Len(seq)] ==
        IF i = 0 THEN tokens ELSE RememberOne(after[i - 1], seq[i])
  IN  after

Remembered(tokens, seq) == RememberedUpTo(tokens, seq)[Len(seq)]

Token(tokens, d) == CHOOSE i \in DOMAIN tokens : tokens[i] = d

Labels(tokens, seq) == {<<Token(tokens, seq[i]), seq[i]>> : i \in DOMAIN seq}

\* Mutant: the counter is read before it is raised, the newest token is lost.
KnownButNewest(t) == t \in 1 .. Len(data.tokens) - 1

\* _folder_from_token
Known(t) == t \in DOMAIN data.tokens

\* The folder "Select this folder" means: My Drive for search results.
CurrentFolder(place) == IF place = Search THEN Root ELSE place

HasNext(v) == v.page < Len(Contents[v.place])

FolderSeq(s) == CHOOSE q \in [1 .. Cardinality(s) -> s] : \A d \in s : \E i \in DOMAIN q : q[i] = d

-----------------------------------------------------------------------------
(* What the handlers show. *)

\* _show_folder_page and _show_search_results with _send_folder_page: the view
\* and the tokens are remembered, then the keyboard is shown.
PageFolders(v) == Contents[v.place][v.page]

PageTokens(d, v) == Remembered(Remembered(d.tokens, PageFolders(v)), <<CurrentFolder(v.place)>>)

PageKeyboard(d, v, favs) ==
  LET tokens == PageTokens(d, v)
  IN  [Keyboard("page") EXCEPT
         !.labels = Labels(tokens, PageFolders(v) \o <<CurrentFolder(v.place)>>),
         !.current = Token(tokens, CurrentFolder(v.place)),
         !.remove = CurrentFolder(v.place) \in favs,
         !.next = HasNext(v)]

\* Google Drive may fail instead; then what the handler did so far stays.
ShowPage(f, i, d, v, favs, faults) ==
  \/ /\ data' = [d EXCEPT !.view = v, !.tokens = PageTokens(d, v)]
     /\ Edit(f, i, PageKeyboard(d, v, favs), faults)
  \/ /\ data' = d
     /\ UNCHANGED chat
     /\ StrikeAll(faults \cup {"drive"})

\* _send_folder_home
ShowHome(f, i, d, faults) ==
  /\ data' = Unnavigated(d)
  /\ Edit(f, i, Keyboard("home"), faults)

\* _send_destination_entry_prompt
ShowEntry(f, i, d, faults) ==
  IF last = NoFolder
  THEN ShowHome(f, i, d, faults)
  ELSE /\ data' = d
       /\ Edit(f, i, [Keyboard("entry") EXCEPT !.last = last], faults)

-----------------------------------------------------------------------------
(* handle_rename_callback and _handle_rename_text *)

Tap(f, i, kinds) == chat[f][i].kind \in kinds

Keep(f, i) ==
  /\ Tap(f, i, {"rename"})
  /\ status' = [status EXCEPT ![f] = "awaiting_folder"]
  /\ ShowEntry(f, i, data, Tapped(f))
  /\ UNCHANGED <<dest, chosen, folders>>

SkipFile(f, i) ==
  /\ Tap(f, i, {"rename"})
  /\ status' = [status EXCEPT ![f] = "skipped"]
  /\ Edit(f, i, Gone, Tapped(f))
  /\ UNCHANGED <<dest, chosen, folders, data>>

AskName(f, i) ==
  /\ Tap(f, i, {"rename"})
  /\ data' = [data EXCEPT !.rename = f]
  /\ Edit(f, i, Gone, Tapped(f))
  /\ UNCHANGED <<rows, folders>>

\* A name that is refused changes nothing.  The new name is confirmed before
\* the keyboard is shown, and that may fail as well.
NameText(f) ==
  /\ data.rename = f
  /\ status' = [status EXCEPT ![f] = "awaiting_folder"]
  /\ Replies(f)
  /\ LET answered == [data EXCEPT !.rename = NoFile]
         faults == Tapped(f) \ {"overlap"}
     IN  \/ ShowEntry(f, 2, answered, faults)
         \/ data' = answered /\ UNCHANGED chat /\ StrikeAll(faults \cup {"telegram"})
  /\ UNCHANGED <<dest, chosen, folders>>

-----------------------------------------------------------------------------
(* _select_destination_folder *)

\* Mutant: the oldest stays.
RecentUntrimmed(d) == {<<d>> \o SelectSeq(recent, LAMBDA x : x # d)}

\* record_recent_folder: a new folder comes first and the oldest goes; one
\* used again comes first unless it is the same second.
RecentAfter(d) ==
  IF Holds(recent, d)
  THEN LET k == CHOOSE i \in DOMAIN recent : recent[i] = d
       IN  {recent, <<d>> \o SubSeq(recent, 1, k - 1) \o SubSeq(recent, k + 1, Len(recent))}
  ELSE {SubSeq(<<d>> \o recent, 1,
               IF Len(recent) < RecentLimit THEN Len(recent) + 1 ELSE RecentLimit)}

\* Mutant: the job is made ready first.
ReadyFirst(n) == <<n >= 2, n >= 1, n >= 3, n >= 4>>

\* The four commits in order: destination, status, last folder, recent folder.
\* After n of them these are done.
Done(n) == <<n >= 1, n >= 2, n >= 3, n >= 4>>

Commits(f, d, label, n) ==
  /\ chosen' = [chosen EXCEPT ![f] = label]
  /\ dest' = IF Done(n)[1] THEN [dest EXCEPT ![f] = d] ELSE dest
  /\ status' = IF Done(n)[2] THEN [status EXCEPT ![f] = "ready_for_upload"] ELSE status
  /\ last' = IF Done(n)[3] THEN d ELSE last
  /\ IF Done(n)[4] THEN recent' \in RecentAfter(d) ELSE UNCHANGED recent
  /\ UNCHANGED favorites

\* The folder is validated afresh; a refused one takes the keyboard away.
\* Before and between the commits the process may die.
Select(f, i, before, d, label, faults) ==
  \/ /\ Commits(f, d, label, 4)
     /\ data' = Cleared(before)
     /\ Edit(f, i, Gone, faults)
  \/ /\ UNCHANGED <<rows, folders>>
     /\ data' = before
     /\ Edit(f, i, Gone, faults \cup {"drive"})
  \/ /\ \E n \in 1 .. 3 : Commits(f, d, label, n)
     /\ data' = NoData
     /\ UNCHANGED chat
     /\ StrikeAll(faults \cup {"crash"})

-----------------------------------------------------------------------------
(* handle_folder_callback *)

CancelTap(f, i) ==
  /\ Tap(f, i, {"entry", "home", "roots", "page", "list", "cancel"})
  /\ data' = Cleared(data)
  /\ Edit(f, i, Gone, Tapped(f) \cup {"cancel"})
  /\ UNCHANGED <<rows, folders>>

\* The button names the folder that was last when it was shown.
LastTap(f, i) ==
  /\ Tap(f, i, {"entry"})
  /\ Select(f, i, data, last, chat[f][i].last, Tapped(f))

AnotherTap(f, i) ==
  /\ Tap(f, i, {"entry"})
  /\ ShowHome(f, i, data, Tapped(f))
  /\ UNCHANGED <<rows, folders>>

\* _send_browse_roots
BrowseTap(f, i) ==
  /\ Tap(f, i, {"home"})
  /\ data' = [data EXCEPT !.drives = TRUE]
  /\ Edit(f, i, Keyboard("roots"), Tapped(f))
  /\ UNCHANGED <<rows, folders>>

RootTap(f, i) ==
  /\ Tap(f, i, {"roots"})
  /\ ShowPage(f, i, data, [place |-> Root, page |-> 1], favorites, Tapped(f))
  /\ UNCHANGED <<rows, folders>>

\* _shared_drive_from_payload
DriveTap(f, i) ==
  /\ Tap(f, i, {"roots"})
  /\ IF data.drives
     THEN ShowPage(f, i, data, [place |-> SharedDrive, page |-> 1], favorites, Tapped(f))
     ELSE UNCHANGED data /\ Edit(f, i, Gone, Tapped(f))
  /\ UNCHANGED <<rows, folders>>

SearchTap(f, i) ==
  /\ Tap(f, i, {"home"})
  /\ data' = [data EXCEPT !.search = f]
  /\ Edit(f, i, Keyboard("cancel"), Tapped(f))
  /\ UNCHANGED <<rows, folders>>

IdTap(f, i) ==
  /\ Tap(f, i, {"home"})
  /\ data' = [data EXCEPT !.id = f]
  /\ Edit(f, i, Keyboard("cancel"), Tapped(f))
  /\ UNCHANGED <<rows, folders>>

\* _send_folder_list of the favorites or of the recent folders.
ListTap(f, i) ==
  /\ Tap(f, i, {"home"})
  /\ \E seq \in {FolderSeq(favorites), recent} :
       LET tokens == Remembered(data.tokens, seq)
       IN  /\ data' = [data EXCEPT !.tokens = tokens]
           /\ Edit(f, i, [Keyboard("list") EXCEPT !.labels = Labels(tokens, seq)], Tapped(f))
  /\ UNCHANGED <<rows, folders>>

\* A token that is no longer known takes the keyboard away.
Expired(f, i) ==
  /\ UNCHANGED data
  /\ Edit(f, i, Gone, Tapped(f))
  /\ UNCHANGED <<rows, folders>>

SelectTap(f, i) ==
  /\ Tap(f, i, {"page", "list"})
  /\ \E label \in chat[f][i].labels :
       IF Known(label[1])
       THEN Select(f, i, data, data.tokens[label[1]], label[2], Tapped(f))
       ELSE Expired(f, i)

OpenTap(f, i) ==
  /\ Tap(f, i, {"page"})
  /\ \E label \in chat[f][i].labels :
       /\ label[1] # chat[f][i].current
       /\ IF Known(label[1])
          THEN /\ Len(data.back) < MaxDepth
               /\ ShowPage(f, i,
                    IF data.view = NoView THEN data
                    ELSE [data EXCEPT !.back = Append(@, data.view)],
                    [place |-> data.tokens[label[1]], page |-> 1], favorites, Tapped(f))
               /\ UNCHANGED <<rows, folders>>
          ELSE Expired(f, i)

BackTap(f, i) ==
  /\ Tap(f, i, {"roots", "page", "list"})
  /\ LET n == Len(data.back)
     IN  IF n = 0
         THEN ShowHome(f, i, data, Tapped(f))
         ELSE ShowPage(f, i, [data EXCEPT !.back = SubSeq(@, 1, n - 1)],
                       data.back[n], favorites, Tapped(f))
  /\ UNCHANGED <<rows, folders>>

\* Refresh and Next go by the user's current view, whichever the keyboard;
\* past the last page Next starts again.
TurnPage(f, i, page) ==
  /\ Tap(f, i, {"page"})
  /\ IF data.view = NoView
     THEN ShowHome(f, i, data, Tapped(f))
     ELSE ShowPage(f, i, data, [data.view EXCEPT !.page = page], favorites, Tapped(f))
  /\ UNCHANGED <<rows, folders>>

RefreshTap(f, i) == TurnPage(f, i, data.view.page)
NextTap(f, i) ==
  /\ chat[f][i].next
  /\ TurnPage(f, i, IF HasNext(data.view) THEN data.view.page + 1 ELSE 1)

\* add_favorite_folder or remove_favorite_folder, then the current view.
FavoriteTap(f, i) ==
  /\ Tap(f, i, {"page"})
  /\ LET t == chat[f][i].current
     IN  favorites' = IF ~Known(t) THEN favorites
                      ELSE IF chat[f][i].remove THEN favorites \ {data.tokens[t]}
                      ELSE favorites \cup {data.tokens[t]}
  /\ IF data.view = NoView
     THEN ShowHome(f, i, data, Tapped(f))
     ELSE ShowPage(f, i, data, data.view, favorites', Tapped(f))
  /\ UNCHANGED <<rows, last, recent>>

-----------------------------------------------------------------------------
(* handle_text_message: a pending name comes before a pending folder ID, and *)
(* that before a pending search.                                            *)

\* _handle_folder_id_text; an ID that is refused changes nothing.
IdText(f) ==
  /\ data.rename = NoFile /\ data.id = f
  /\ \E d \in Folders :
       Select(f, NoKeyboard, [data EXCEPT !.id = NoFile], d, d, Tapped(f) \ {"overlap"})

\* _handle_folder_search_text: the question is withdrawn before Drive is asked.
SearchText(f) ==
  /\ data.rename = NoFile /\ data.id = NoFile /\ data.search = f
  /\ Replies(f)
  /\ ShowPage(f, 2, [data EXCEPT !.search = NoFile], [place |-> Search, page |-> 1],
              favorites, Tapped(f) \ {"overlap"})
  /\ UNCHANGED <<rows, folders>>

\* cancel_command
CancelCommand ==
  /\ data # NoData
  /\ data' = NoData
  /\ StrikeAll({"cancel"})
  /\ UNCHANGED <<rows, folders, chat>>

\* user_data is kept in memory only.
Crash ==
  /\ data # NoData
  /\ data' = NoData
  /\ StrikeAll({"crash"})
  /\ UNCHANGED <<rows, folders, chat>>

-----------------------------------------------------------------------------

Rename(f, i) == Keep(f, i) \/ SkipFile(f, i) \/ AskName(f, i)

Folder(f, i) ==
  \/ CancelTap(f, i) \/ LastTap(f, i) \/ AnotherTap(f, i)
  \/ BrowseTap(f, i) \/ RootTap(f, i) \/ DriveTap(f, i)
  \/ SearchTap(f, i) \/ IdTap(f, i) \/ ListTap(f, i)
  \/ SelectTap(f, i) \/ OpenTap(f, i) \/ BackTap(f, i)
  \/ RefreshTap(f, i) \/ NextTap(f, i) \/ FavoriteTap(f, i)

Text(f) == NameText(f) \/ IdText(f) \/ SearchText(f)

Next ==
  \/ \E f \in Files, i \in {1, 2} : Rename(f, i) \/ Folder(f, i)
  \/ \E f \in Files : Text(f)
  \/ CancelCommand \/ Crash

Spec == Init /\ [][Next]_vars

-----------------------------------------------------------------------------
(* What is checked. *)

Spared(faults) == faults \cap struck = {}

\* Every variable keeps to its values.
TypeOK ==
  /\ status \in [Files -> Answering \cup {"ready_for_upload", "skipped"}]
  /\ dest \in [Files -> Folders \cup {NoFolder}]
  /\ chosen \in [Files -> Folders \cup {NoFolder}]
  /\ last \in Folders \cup {NoFolder}
  /\ recent \in Seq(Folders) /\ Len(recent) <= RecentLimit
  /\ favorites \subseteq Folders
  /\ data \in [rename : Files \cup {NoFile}, id : Files \cup {NoFile},
               search : Files \cup {NoFile}, view : Views \cup {NoView},
               back : Seq(Views), tokens : Seq(Folders), drives : BOOLEAN]
  /\ Len(data.back) <= MaxDepth
  /\ chat \in [Files -> [{1, 2} -> Keyboards]]
  /\ struck \subseteq Strikes

\* A file is uploaded to the folder named on the button the user tapped,
\* although the button carries only a token that restarts from one and the
\* process may die among the commits, unless two files were answered at once,
\* or a message that failed left a second keyboard before the tokens restarted.
SelectionMatchesButton ==
  Spared({"overlap", "late"}) /\ (Spared({"telegram"}) \/ Spared({"cancel", "crash"})) =>
    \A f \in Files : status[f] = "ready_for_upload" =>
      dest[f] # NoFolder /\ dest[f] = chosen[f]

\* There is a way to go on: a keyboard that leads to a folder, or a question
\* whose answer the bot waits for.
Answerable(f) ==
  \/ \E i \in {1, 2} : chat[f][i].kind \in {"rename", "entry", "home", "roots", "page", "list"}
  \/ f \in {data.rename, data.id, data.search}

\* A file that waits for an answer can be answered, unless the user cancelled
\* or answered two files at once, the process died, or Drive or Telegram
\* failed: no sequence of taps and texts alone ends in a dead end.
AwaitingIsAnswerable ==
  Spared({"overlap", "late", "cancel", "crash", "drive", "telegram"}) =>
    \A f \in Files : status[f] \in Answering => Answerable(f)

\* The bot waits for one text at a time, for a file that still waits for it
\* and whose question was neither answered nor cancelled, so the next text is
\* not taken for the answer to another question.
TextReachesItsQuestion ==
  Spared({"overlap", "late", "telegram"}) =>
    /\ \A f \in Files :
         /\ data.rename = f => status[f] = "awaiting_rename"
         /\ f \in {data.id, data.search} =>
              status[f] = "awaiting_folder" /\ \E i \in {1, 2} : chat[f][i].kind = "cancel"
    /\ Cardinality({q \in {"rename", "id", "search"} : data[q] # NoFile}) <= 1
=============================================================================
