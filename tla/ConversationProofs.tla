------------------------- MODULE ConversationProofs -------------------------
(***************************************************************************)
(* What Conversation promises the user, for any folders and files and for  *)
(* faults in any number: a text goes to the question it answers, a button  *)
(* selects the folder on its label, and taps and texts lead somewhere.     *)
(***************************************************************************)
EXTENDS Conversation, FiniteSetTheorems, SequenceTheorems, WellFoundedInduction, TLAPS

FolderKinds  == {"entry", "home", "roots", "page", "list", "cancel"}
LeadingKinds == {"rename", "entry", "home", "roots", "page", "list"}

(* What holds whatever fails: files are past their name once a folder is   *)
(* asked for, and only lists and pages carry tokens.                       *)
TInv ==
  /\ TypeOK
  /\ IsFiniteSet(favorites)
  /\ \A f \in Files, i \in {1, 2} :
       /\ chat[f][i].kind = "entry" => last \in Folders
       /\ chat[f][i].kind \notin {"page", "list"} => chat[f][i].labels = {}
       /\ chat[f][i].kind \in FolderKinds => status[f] # "awaiting_rename"
  /\ \A f \in Files : f \in {data.id, data.search} => status[f] # "awaiting_rename"

(* The user has begun to answer for the file.                              *)
Begun(f) == status[f] = "awaiting_folder" \/ data.rename = f

OneAtATime == Spared({"overlap"}) => \A f, g \in Files : Begun(f) /\ Begun(g) => f = g

(* Each button of a keyboard carries the token of the folder on its label. *)
Match(labels, tokens) ==
  \A l \in labels : l[1] \in DOMAIN tokens /\ tokens[l[1]] = l[2]

(* The tokens of a keyboard are those in memory; where they were lost, all *)
(* are, until the keyboard is replaced, if its messages arrive.            *)
LabelsOK == Spared({"overlap", "late"}) =>
  \A f \in Files, i \in {1, 2} : status[f] = "awaiting_folder" =>
    /\ chat[f][i].kind = "entry" => chat[f][i].last = last
    /\ Spared({"cancel", "crash"}) =>
         Match(chat[f][i].labels, data.tokens) /\ (chat[f][i].kind = "roots" => data.drives)
    /\ Spared({"telegram"}) =>
         \/ Match(chat[f][i].labels, data.tokens)
         \/ data.tokens = <<>> /\ data.view = NoView

(* While its messages arrive a file has one keyboard to go on with, or the *)
(* question that took its place.                                           *)
Questions == {data.rename, data.id, data.search}

OneWayFor(f) ==
  /\ \A i \in {1, 2} : chat[f][i].kind \in LeadingKinds =>
       /\ f \notin Questions
       /\ \A j \in {1, 2} \ {i} : chat[f][j].kind \notin LeadingKinds
       /\ chat[f][i].kind = "rename" => status[f] = "awaiting_rename"
  /\ data.rename = f => status[f] = "awaiting_rename"
  /\ f \in {data.id, data.search} =>
       status[f] = "awaiting_folder" /\ \E i \in {1, 2} : chat[f][i].kind = "cancel"

OneQuestion ==
  /\ data.rename = NoFile \/ (data.id = NoFile /\ data.search = NoFile)
  /\ data.id = NoFile \/ data.search = NoFile

OneWayOn == Spared({"overlap", "late", "telegram"}) =>
  /\ \A f \in Files : OneWayFor(f)
  /\ OneQuestion

CInv == TInv /\ OneAtATime /\ LabelsOK /\ OneWayOn /\ SelectionMatchesButton /\ AwaitingIsAnswerable

-----------------------------------------------------------------------------
(* Induction over the natural numbers, for sets: the naturals are well     *)
(* founded, so what a set leaves out has a least element.                  *)

LEMMA LeastNatural ==
  ASSUME NEW T \in SUBSET Nat, T # {}
  PROVE  \E n \in T : \A m \in T : n <= m
<1>1. PICK R : R = OpToRel(<, Nat)
  OBVIOUS
<1>2. \A m, n \in Nat : m < n => <<m, n>> \in R
  BY <1>1 DEF OpToRel
<1>3. IsWellFoundedOn(R, Nat)
  BY <1>1, NatLessThanWellFounded
<1> HIDE <1>1
<1>4. PICK n \in T : \A m \in T : <<m, n>> \notin R
  BY <1>3, WFMin
<1>5. ASSUME NEW m \in T PROVE n <= m
  <2>1. m \in Nat /\ n \in Nat /\ <<m, n>> \notin R
    BY <1>4
  <2>2. ~(m < n)
    BY <1>2, <2>1
  <2> QED
    BY <2>1, <2>2
<1> QED
  BY <1>5

LEMMA Induction ==
  ASSUME NEW T \in SUBSET Nat, 0 \in T, \A n \in T : n + 1 \in T
  PROVE  T = Nat
<1> SUFFICES ASSUME Nat \ T # {} PROVE FALSE
  OBVIOUS
<1>1. PICK n \in Nat \ T : \A m \in Nat \ T : n <= m
  BY LeastNatural
<1>2. n - 1 \in Nat /\ n - 1 \in T
  BY <1>1
<1> QED
  BY <1>1, <1>2

-----------------------------------------------------------------------------
(* The tokens: _remember_folder_token for each folder of a keyboard keeps  *)
(* the tokens given before and gives one to every folder.                  *)

Extends(new, old) == Len(old) <= Len(new) /\ \A i \in DOMAIN old : new[i] = old[i]

Remembering(tokens, seq, n, f) ==
  f = [i \in 0 .. n |-> IF i = 0 THEN tokens ELSE RememberOne(f[i - 1], seq[i])]

LEMMA RememberingExists ==
  ASSUME NEW tokens, NEW seq, NEW n \in Nat
  PROVE  \E f : Remembering(tokens, seq, n, f)
<1> DEFINE T == {k \in Nat : \E f : Remembering(tokens, seq, k, f)}
<1>1. 0 \in T
  <2> DEFINE g == [i \in 0 .. 0 |-> tokens]
  <2>1. Remembering(tokens, seq, 0, g)
    BY DEF Remembering
  <2> QED
    BY <2>1
<1>2. ASSUME NEW k \in T PROVE k + 1 \in T
  <2>1. PICK f : Remembering(tokens, seq, k, f)
    OBVIOUS
  <2> DEFINE g == [i \in 0 .. k + 1 |->
                     IF i = k + 1 THEN RememberOne(f[k], seq[k + 1]) ELSE f[i]]
  <2>2. g = [i \in 0 .. k + 1 |-> IF i = 0 THEN tokens ELSE RememberOne(g[i - 1], seq[i])]
    BY <2>1 DEF Remembering
  <2>3. k + 1 \in Nat
    OBVIOUS
  <2> HIDE DEF g
  <2> QED
    BY <2>2, <2>3 DEF Remembering
<1> HIDE DEF T
<1> QED
  BY <1>1, <1>2, Induction DEF T

LEMMA RememberedUnfolds ==
  ASSUME NEW tokens, NEW seq, Len(seq) \in Nat
  PROVE  Remembering(tokens, seq, Len(seq), RememberedUpTo(tokens, seq))
<1>1. \E f : Remembering(tokens, seq, Len(seq), f)
  BY RememberingExists
<1>2. Remembering(tokens, seq, Len(seq), CHOOSE f : Remembering(tokens, seq, Len(seq), f))
  BY <1>1
<1> QED
  BY <1>2 DEF Remembering, RememberedUpTo

LEMMA RememberOneKeeps ==
  ASSUME NEW tokens \in Seq(Folders), NEW d \in Folders
  PROVE  /\ RememberOne(tokens, d) \in Seq(Folders)
         /\ Extends(RememberOne(tokens, d), tokens)
         /\ Holds(RememberOne(tokens, d), d)
<1>1. CASE Holds(tokens, d)
  BY <1>1 DEF RememberOne, Extends
<1>2. CASE ~Holds(tokens, d)
  <2> DEFINE new == Append(tokens, d)
  <2>1. /\ new \in Seq(Folders) /\ Len(new) = Len(tokens) + 1 /\ Len(tokens) \in Nat
        /\ new[Len(tokens) + 1] = d
        /\ \A i \in 1 .. Len(tokens) : new[i] = tokens[i]
    OBVIOUS
  <2>2. DOMAIN new = 1 .. Len(new) /\ DOMAIN tokens = 1 .. Len(tokens)
    BY <2>1
  <2>3. RememberOne(tokens, d) = new
    BY <1>2 DEF RememberOne
  <2> HIDE DEF new
  <2> QED
    BY <2>1, <2>2, <2>3 DEF Extends, Holds
<1> QED
  BY <1>1, <1>2

LEMMA RememberedKeeps ==
  ASSUME NEW tokens \in Seq(Folders), NEW seq \in Seq(Folders)
  PROVE  /\ Remembered(tokens, seq) \in Seq(Folders)
         /\ Extends(Remembered(tokens, seq), tokens)
         /\ \A i \in DOMAIN seq : Holds(Remembered(tokens, seq), seq[i])
<1> DEFINE f == RememberedUpTo(tokens, seq)
           Good(n) == /\ f[n] \in Seq(Folders)
                      /\ Extends(f[n], tokens)
                      /\ \A i \in 1 .. n : Holds(f[n], seq[i])
           T == {n \in Nat : n <= Len(seq) => Good(n)}
<1>1. Len(seq) \in Nat /\ DOMAIN seq = 1 .. Len(seq)
  OBVIOUS
<1>2. f[0] = tokens /\ \A i \in 1 .. Len(seq) : f[i] = RememberOne(f[i - 1], seq[i])
  BY <1>1, RememberedUnfolds DEF Remembering
<1> HIDE DEF f
<1>3. 0 \in T
  BY <1>2 DEF Extends
<1>4. ASSUME NEW n \in T PROVE n + 1 \in T
  <2> SUFFICES ASSUME n + 1 <= Len(seq) PROVE Good(n + 1)
    OBVIOUS
  <2>1. n \in Nat /\ n + 1 \in 1 .. Len(seq) /\ (n + 1) - 1 = n /\ Good(n)
    BY <1>1
  <2>2. f[n + 1] = RememberOne(f[n], seq[n + 1]) /\ seq[n + 1] \in Folders
    BY <1>2, <2>1
  <2>3. /\ f[n + 1] \in Seq(Folders)
        /\ Extends(f[n + 1], f[n])
        /\ Holds(f[n + 1], seq[n + 1])
    BY <2>1, <2>2, RememberOneKeeps
  <2>4. Extends(f[n + 1], tokens)
    BY <2>1, <2>3 DEF Extends
  <2>5. \A i \in 1 .. n : Holds(f[n + 1], seq[i])
    BY <2>1, <2>3 DEF Extends, Holds
  <2>6. \A i \in 1 .. n + 1 : i \in 1 .. n \/ i = n + 1
    BY <2>1
  <2> QED
    BY <2>3, <2>4, <2>5, <2>6
<1> HIDE DEF T
<1>5. Len(seq) \in T
  BY <1>1, <1>3, <1>4, Induction DEF T
<1> QED
  BY <1>1, <1>5 DEF T, f, Remembered

LEMMA TokenNames ==
  ASSUME NEW tokens \in Seq(Folders), NEW d, Holds(tokens, d)
  PROVE  Token(tokens, d) \in DOMAIN tokens /\ tokens[Token(tokens, d)] = d
BY DEF Holds, Token

LEMMA LabelsMatch ==
  ASSUME NEW tokens \in Seq(Folders), NEW seq \in Seq(Folders),
         \A i \in DOMAIN seq : Holds(tokens, seq[i])
  PROVE  /\ Labels(tokens, seq) \in SUBSET (Nat \X Folders)
         /\ Match(Labels(tokens, seq), tokens)
<1> SUFFICES ASSUME NEW i \in DOMAIN seq
             PROVE  /\ Token(tokens, seq[i]) \in Nat /\ seq[i] \in Folders
                    /\ Token(tokens, seq[i]) \in DOMAIN tokens
                    /\ tokens[Token(tokens, seq[i])] = seq[i]
  BY DEF Labels, Match
<1> QED
  BY TokenNames

LEMMA MatchExtends ==
  ASSUME NEW labels, NEW old \in Seq(Folders), NEW new \in Seq(Folders),
         Extends(new, old), Match(labels, old)
  PROVE  Match(labels, new)
BY DEF Match, Extends

LEMMA FolderSeqType ==
  ASSUME NEW s \in SUBSET Folders, IsFiniteSet(s)
  PROVE  FolderSeq(s) \in Seq(Folders)
<1>1. /\ Cardinality(s) \in Nat
      /\ \E q : q \in Bijection(1 .. Cardinality(s), s)
  BY FS_CardinalityType DEF ExistsBijection
<1>2. \E q \in [1 .. Cardinality(s) -> s] : \A d \in s : \E i \in DOMAIN q : q[i] = d
  BY <1>1 DEF Bijection, Injection, Surjection
<1>3. FolderSeq(s) \in [1 .. Cardinality(s) -> s]
  BY <1>2 DEF FolderSeq
<1> QED
  BY <1>1, <1>3

-----------------------------------------------------------------------------
(* What the handlers show. *)

Data == [rename : Files \cup {NoFile}, id : Files \cup {NoFile},
         search : Files \cup {NoFile}, view : Views \cup {NoView},
         back : Seq(Views), tokens : Seq(Folders), drives : BOOLEAN]

Chats == [Files -> [{1, 2} -> Keyboards]]

(* The keyboard i of the file becomes k.                                   *)
Shows(f, i, k) ==
  \A g \in Files, j \in {1, 2} : chat'[g][j] = IF g = f /\ j = i THEN k ELSE chat[g][j]

(* A keyboard made of what is in memory and in the database.               *)
Fresh(k) ==
  /\ k.kind = "entry" => k.last = last /\ last \in Folders
  /\ k.kind \notin {"page", "list"} => k.labels = {}
  /\ k.kind = "roots" => data'.drives
  /\ Match(k.labels, data'.tokens)

(* A handler of the file that only adds to the memory has ended: it showed *)
(* such a keyboard, or a fault of Telegram or Drive prevented it.          *)
Handled(f, i, kinds, faults) ==
  /\ data' \in Data /\ Len(data'.back) <= MaxDepth
  /\ chat' \in Chats
  /\ struck' \subseteq Strikes /\ struck \cup faults \subseteq struck'
  /\ Extends(data'.tokens, data.tokens)
  /\ data.drives => data'.drives
  /\ \/ \E k \in Keyboards : k.kind \in kinds /\ Fresh(k) /\ Shows(f, i, k)
     \/ UNCHANGED chat /\ "telegram" \in struck'
     \/ /\ "page" \in kinds /\ UNCHANGED chat /\ "drive" \in struck'
        /\ data'.tokens = data.tokens /\ data'.view = data.view

LEMMA StrikesAdd ==
  ASSUME struck \subseteq Strikes, NEW faults, StrikeAll(faults)
  PROVE  struck' \subseteq Strikes /\ struck \cup faults \subseteq struck'
BY DEF StrikeAll

LEMMA EditShows ==
  ASSUME TypeOK, NEW f \in Files, NEW i, NEW k \in Keyboards, NEW faults, Edit(f, i, k, faults)
  PROVE  /\ chat' \in Chats
         /\ struck' \subseteq Strikes /\ struck \cup faults \subseteq struck'
         /\ Shows(f, i, k) \/ (UNCHANGED chat /\ "telegram" \in struck')
<1>1. chat \in Chats /\ struck \subseteq Strikes
  BY DEF TypeOK, Chats
<1>2. CASE /\ chat' = [chat EXCEPT ![f] = [j \in {1, 2} |-> IF j = i THEN k ELSE @[j]]]
           /\ StrikeAll(faults)
  <2>1. chat' \in Chats /\ Shows(f, i, k)
    BY <1>1, <1>2 DEF Chats, Shows
  <2> QED
    BY <1>1, <1>2, <2>1, StrikesAdd
<1>3. CASE UNCHANGED chat /\ StrikeAll(faults \cup {"telegram"})
  BY <1>1, <1>3, StrikesAdd
<1> QED
  BY <1>2, <1>3 DEF Edit

LEMMA PlainKeyboard ==
  ASSUME NEW kind \in Kinds \ {"page", "list"}
  PROVE  /\ Keyboard(kind) \in Keyboards /\ Keyboard(kind).kind = kind
         /\ Keyboard(kind).labels = {}
BY DEF Keyboard, Keyboards

(* _send_folder_page *)
LEMMA PageShown ==
  ASSUME NEW tokens \in Seq(Folders), NEW d, d.tokens = tokens, NEW v \in Views, NEW favs
  PROVE  /\ PageTokens(d, v) \in Seq(Folders)
         /\ Extends(PageTokens(d, v), tokens)
         /\ PageKeyboard(d, v, favs) \in Keyboards
         /\ PageKeyboard(d, v, favs).kind = "page"
         /\ Match(PageKeyboard(d, v, favs).labels, PageTokens(d, v))
<1> DEFINE page == PageFolders(v)
           here == CurrentFolder(v.place)
           first == Remembered(tokens, page)
           new == Remembered(first, <<here>>)
<1>1. v.place \in Places /\ v.page \in Nat \ {0} /\ v.page <= Len(Contents[v.place])
  BY DEF Views
<1>2. page \in Seq(Folders)
  BY <1>1, ContentsAssumption DEF PageFolders
<1>3. here \in Folders /\ <<here>> \in Seq(Folders)
  BY <1>1, FoldersAssumption DEF CurrentFolder, Places
<1>4. /\ first \in Seq(Folders) /\ Extends(first, tokens)
      /\ \A i \in DOMAIN page : Holds(first, page[i])
  BY <1>2, RememberedKeeps
<1>5. /\ new \in Seq(Folders) /\ Extends(new, first)
      /\ \A i \in DOMAIN <<here>> : Holds(new, <<here>>[i])
  BY <1>3, <1>4, RememberedKeeps
<1>6. PageTokens(d, v) = new
  BY DEF PageTokens
<1> DEFINE shown == page \o <<here>>
<1>7. Holds(new, here)
  BY <1>5
<1> HIDE DEF here, page, first, new
<1>8. Extends(new, tokens)
  BY <1>4, <1>5 DEF Extends
<1>9. shown \in Seq(Folders) /\ \A i \in DOMAIN shown : Holds(new, shown[i])
  <2>1. shown \in Seq(Folders) /\ Len(shown) = Len(page) + 1
    BY <1>2, <1>3
  <2>2. \A i \in DOMAIN page : Holds(new, page[i])
    BY <1>4, <1>5 DEF Holds, Extends
  <2>3. ASSUME NEW i \in DOMAIN shown PROVE Holds(new, shown[i])
    <3>1. CASE i \in DOMAIN page
      BY <1>2, <1>3, <2>2, <3>1
    <3>2. CASE i = Len(page) + 1
      BY <1>2, <1>3, <1>7, <3>2
    <3> QED
      BY <1>2, <2>1, <3>1, <3>2
  <2> QED
    BY <2>1, <2>3
<1> HIDE DEF shown
<1>10. Labels(new, shown) \in SUBSET (Nat \X Folders) /\ Match(Labels(new, shown), new)
  BY <1>5, <1>9, LabelsMatch
<1>11. Token(new, here) \in Nat
  BY <1>5, <1>7, TokenNames
<1>12. PageKeyboard(d, v, favs) =
         [Keyboard("page") EXCEPT !.labels = Labels(new, shown), !.current = Token(new, here),
                                  !.remove = here \in favs, !.next = HasNext(v)]
  BY <1>6 DEF PageKeyboard, shown, here, page
<1>13. HasNext(v) \in BOOLEAN
  BY DEF HasNext
<1>14. PageKeyboard(d, v, favs) = [kind |-> "page", last |-> NoFolder, labels |-> Labels(new, shown),
          current |-> Token(new, here), remove |-> here \in favs, next |-> HasNext(v)]
  BY <1>12 DEF Keyboard
<1>15. (here \in favs) \in BOOLEAN
  OBVIOUS
<1>16. PageKeyboard(d, v, favs) \in Keyboards
  BY <1>10, <1>11, <1>13, <1>14, <1>15 DEF Keyboards, Kinds
<1>17. PageKeyboard(d, v, favs).kind = "page" /\ PageKeyboard(d, v, favs).labels = Labels(new, shown)
  BY <1>14
<1> QED
  BY <1>5, <1>6, <1>8, <1>10, <1>16, <1>17

(* What a handler may have put into the memory before it shows something.  *)
Kept(d) ==
  /\ d \in Data /\ Len(d.back) <= MaxDepth
  /\ d.tokens = data.tokens
  /\ data.drives => d.drives

SameQuestions(d) == data'.rename = d.rename /\ data'.id = d.id /\ data'.search = d.search

LEMMA DataKept == TypeOK => Kept(data)
BY DEF TypeOK, Kept, Data

LEMMA ExtendsItself == \A tokens : tokens \in Seq(Folders) => Extends(tokens, tokens)
BY DEF Extends

(* A keyboard without tokens. *)
LEMMA PlainHandled ==
  ASSUME TypeOK, NEW f \in Files, NEW i, NEW faults, NEW k \in Keyboards,
         Kept(data'), k.kind \notin {"page", "list"}, k.labels = {},
         k.kind = "entry" => k.last = last /\ last \in Folders,
         k.kind = "roots" => data'.drives,
         Edit(f, i, k, faults)
  PROVE  Handled(f, i, {k.kind}, faults)
<1>1. Fresh(k)
  BY DEF Fresh, Match
<1>2. Extends(data'.tokens, data.tokens)
  BY ExtendsItself DEF Kept, Data
<1> QED
  BY <1>1, <1>2, EditShows DEF Handled, Kept

LEMMA HomeHandled ==
  ASSUME TypeOK, NEW f \in Files, NEW i, NEW faults, NEW d, Kept(d), ShowHome(f, i, d, faults)
  PROVE  Handled(f, i, {"home"}, faults) /\ SameQuestions(d)
<1>1. Kept(data') /\ SameQuestions(d)
  <2>1. PICK none \in Seq(Views) : none = <<>> /\ Len(none) = 0
    <3>1. <<>> \in Seq(Views) /\ Len(<<>>) = 0
      OBVIOUS
    <3> QED
      BY <3>1, Zenon
  <2>2. data' = [d EXCEPT !.view = NoView, !.back = none]
    BY <2>1 DEF ShowHome, Unnavigated
  <2>3. data' \in Data /\ data'.back = none /\ data'.tokens = d.tokens /\ data'.drives = d.drives
    BY <2>2 DEF Kept, Data
  <2> QED
    BY <2>1, <2>2, <2>3, BoundsAssumption DEF Kept, Data, SameQuestions
<1>2. Edit(f, i, Keyboard("home"), faults) /\ "home" \in Kinds
  BY DEF ShowHome, Kinds
<1> QED
  BY <1>1, <1>2, PlainKeyboard, PlainHandled

LEMMA EntryHandled ==
  ASSUME TypeOK, NEW f \in Files, NEW i, NEW faults, NEW d, Kept(d), ShowEntry(f, i, d, faults)
  PROVE  Handled(f, i, {"entry", "home"}, faults) /\ SameQuestions(d)
<1>1. CASE last = NoFolder
  BY <1>1, HomeHandled DEF ShowEntry, Handled
<1>2. CASE last # NoFolder
  <2>1. data' = d /\ Edit(f, i, [Keyboard("entry") EXCEPT !.last = last], faults) /\ last \in Folders
    BY <1>2 DEF ShowEntry, TypeOK
  <2>2. PICK k : k = [Keyboard("entry") EXCEPT !.last = last]
    OBVIOUS
  <2>3. k \in Keyboards /\ k.kind = "entry" /\ k.last = last /\ k.labels = {}
    BY <2>1, <2>2 DEF Keyboard, Keyboards, Kinds
  <2>4. Handled(f, i, {"entry"}, faults)
    BY <2>1, <2>2, <2>3, PlainHandled
  <2> QED
    BY <2>1, <2>4 DEF Handled, SameQuestions
<1> QED
  BY <1>1, <1>2

LEMMA PageHandled ==
  ASSUME TypeOK, NEW f \in Files, NEW i, NEW faults, NEW d, NEW v \in Views, NEW favs,
         Kept(d), d.view = data.view, ShowPage(f, i, d, v, favs, faults)
  PROVE  Handled(f, i, {"page"}, faults) /\ SameQuestions(d)
<1>1. d.tokens \in Seq(Folders) /\ d \in Data
  BY DEF Kept, Data
<1>2. PICK k : k = PageKeyboard(d, v, favs)
  OBVIOUS
<1>3. PICK new : new = PageTokens(d, v)
  OBVIOUS
<1>4. /\ new \in Seq(Folders) /\ Extends(new, d.tokens)
      /\ k \in Keyboards /\ k.kind = "page" /\ Match(k.labels, new)
  BY <1>1, <1>2, <1>3, PageShown
<1>5. CASE /\ data' = [d EXCEPT !.view = v, !.tokens = new]
           /\ Edit(f, i, k, faults)
  <2>1. data' \in Data /\ data'.tokens = new /\ data'.drives = d.drives /\ data'.back = d.back
    BY <1>1, <1>4, <1>5 DEF Data
  <2>2. SameQuestions(d)
    BY <1>1, <1>5 DEF SameQuestions, Data
  <2>3. Fresh(k)
    BY <1>4, <2>1 DEF Fresh
  <2>4. Extends(data'.tokens, data.tokens) /\ (data.drives => data'.drives) /\ Len(data'.back) <= MaxDepth
    BY <1>4, <2>1 DEF Kept
  <2> QED
    BY <1>4, <1>5, <2>1, <2>2, <2>3, <2>4, EditShows DEF Handled
<1>6. CASE data' = d /\ UNCHANGED chat /\ StrikeAll(faults \cup {"drive"})
  <2>1. struck \subseteq Strikes /\ chat \in Chats
    BY DEF TypeOK, Chats
  <2>2. struck' \subseteq Strikes /\ struck \cup faults \cup {"drive"} \subseteq struck'
    BY <1>6, <2>1, StrikesAdd
  <2>3. Extends(data'.tokens, data.tokens)
    BY <1>1, <1>6, ExtendsItself DEF Kept
  <2> QED
    BY <1>6, <2>1, <2>2, <2>3 DEF Handled, Kept, SameQuestions
<1> QED
  BY <1>2, <1>3, <1>5, <1>6 DEF ShowPage

-----------------------------------------------------------------------------
(* The steps, by what they do to the conversation. *)

(* A tap that leads on to another keyboard.                                *)
Browses(f, i) ==
  /\ chat[f][i].kind \in FolderKinds \ {"cancel"}
  /\ Handled(f, i, {"home", "roots", "page", "list"}, Tapped(f)) /\ SameQuestions(data)
  /\ favorites' \in SUBSET Folders /\ IsFiniteSet(favorites')
  /\ UNCHANGED <<rows, last, recent>>

(* A tap whose button means nothing any more.                              *)
Withdraws(f, i) ==
  /\ \/ ~Match(chat[f][i].labels, data.tokens)
     \/ chat[f][i].kind = "roots" /\ ~data.drives
  /\ Handled(f, i, {"gone"}, Tapped(f))
  /\ UNCHANGED <<data, rows, folders>>

(* A tap after which the bot waits for a text.                             *)
Asks(f, i) ==
  /\ chat[f][i].kind = "home"
  /\ data' \in {[data EXCEPT !.id = f], [data EXCEPT !.search = f]}
  /\ Handled(f, i, {"cancel"}, Tapped(f))
  /\ UNCHANGED <<rows, folders>>

LEMMA FirstPage ==
  ASSUME NEW p \in Places PROVE [place |-> p, page |-> 1] \in Views
<1>1. Contents[p] \in Seq(Seq(Folders)) /\ Contents[p] # <<>>
  BY ContentsAssumption
<1>2. Len(Contents[p]) \in Nat /\ Len(Contents[p]) >= 1
  BY <1>1
<1> QED
  BY <1>2 DEF Views

LEMMA PageBrowses ==
  ASSUME TInv, NEW f \in Files, NEW i, NEW d, NEW v \in Views, NEW favs,
         chat[f][i].kind \in FolderKinds \ {"cancel"},
         Kept(d), d.view = data.view, SameQuestions(d) => SameQuestions(data),
         ShowPage(f, i, d, v, favs, Tapped(f)),
         favorites' \in SUBSET Folders, IsFiniteSet(favorites'),
         UNCHANGED <<rows, last, recent>>
  PROVE  Browses(f, i)
<1>1. Handled(f, i, {"page"}, Tapped(f)) /\ SameQuestions(data)
  BY PageHandled DEF TInv
<1> QED
  BY <1>1 DEF Browses, Handled

LEMMA HomeBrowses ==
  ASSUME TInv, NEW f \in Files, NEW i,
         chat[f][i].kind \in FolderKinds \ {"cancel"},
         ShowHome(f, i, data, Tapped(f)),
         favorites' \in SUBSET Folders, IsFiniteSet(favorites'),
         UNCHANGED <<rows, last, recent>>
  PROVE  Browses(f, i)
<1>1. Handled(f, i, {"home"}, Tapped(f)) /\ SameQuestions(data)
  BY DataKept, HomeHandled DEF TInv
<1> QED
  BY <1>1 DEF Browses, Handled

LEMMA OpenTapSteps ==
  ASSUME TInv, NEW f \in Files, NEW i \in {1, 2}, OpenTap(f, i)
  PROVE  Browses(f, i) \/ Withdraws(f, i)
<1>1. PICK label \in chat[f][i].labels :
        IF Known(label[1])
        THEN /\ Len(data.back) < MaxDepth
             /\ ShowPage(f, i,
                  IF data.view = NoView THEN data
                  ELSE [data EXCEPT !.back = Append(@, data.view)],
                  [place |-> data.tokens[label[1]], page |-> 1], favorites, Tapped(f))
             /\ UNCHANGED <<rows, folders>>
        ELSE Expired(f, i)
  BY DEF OpenTap
<1>2. chat[f][i].kind = "page"
  BY DEF OpenTap, Tap
<1>3. TypeOK /\ favorites \in SUBSET Folders /\ IsFiniteSet(favorites) /\ data \in Data
  BY DEF TInv, TypeOK, Data
<1>4. CASE ~Known(label[1])
  <2>1. data' = data /\ Edit(f, i, Gone, Tapped(f)) /\ UNCHANGED <<rows, folders>>
    BY <1>1, <1>4 DEF Expired
  <2>2. Handled(f, i, {"gone"}, Tapped(f))
    BY <1>3, <2>1, DataKept, PlainKeyboard, PlainHandled DEF Gone, Kinds
  <2>3. ~Match(chat[f][i].labels, data.tokens)
    BY <1>4 DEF Match, Known
  <2> QED
    BY <2>1, <2>2, <2>3 DEF Withdraws
<1>5. CASE Known(label[1])
  <2>1. data.tokens[label[1]] \in Folders
    BY <1>3, <1>5 DEF Known, Data
  <2>2. PICK v \in Views : v = [place |-> data.tokens[label[1]], page |-> 1]
    BY <2>1, FirstPage DEF Places
  <2>3. PICK d : d = IF data.view = NoView THEN data ELSE [data EXCEPT !.back = Append(@, data.view)]
    OBVIOUS
  <2>4. Kept(d) /\ d.view = data.view /\ d.rename = data.rename /\ d.id = data.id /\ d.search = data.search
    <3>1. CASE data.view = NoView
      BY <1>3, <2>3, <3>1, DataKept
    <3>2. CASE data.view # NoView
      <4>1. PICK b : b = Append(data.back, data.view)
        OBVIOUS
      <4>2. b \in Seq(Views) /\ Len(b) = Len(data.back) + 1
        BY <1>3, <3>2, <4>1, AppendProperties DEF Data
      <4>3. d = [data EXCEPT !.back = b]
        BY <2>3, <3>2, <4>1
      <4>4. Len(b) <= MaxDepth
        BY <1>1, <1>3, <1>5, <4>2, BoundsAssumption DEF Data
      <4> QED
        BY <1>3, <4>2, <4>3, <4>4 DEF Data, Kept
    <3> QED
      BY <3>1, <3>2
  <2>5. ShowPage(f, i, d, v, favorites, Tapped(f)) /\ UNCHANGED <<rows, folders>>
    BY <1>1, <1>5, <2>2, <2>3
  <2> QED
    BY <1>2, <1>3, <2>4, <2>5, PageBrowses DEF FolderKinds, SameQuestions, folders
<1> QED
  BY <1>4, <1>5

LEMMA BackTapSteps ==
  ASSUME TInv, NEW f \in Files, NEW i \in {1, 2}, BackTap(f, i)
  PROVE  Browses(f, i)
<1>1. chat[f][i].kind \in {"roots", "page", "list"} /\ UNCHANGED <<rows, folders>>
  BY DEF BackTap, Tap
<1>2. TypeOK /\ favorites \in SUBSET Folders /\ IsFiniteSet(favorites) /\ data \in Data
  BY DEF TInv, TypeOK, Data
<1>3. PICK n \in Nat : n = Len(data.back) /\ n <= MaxDepth
  BY <1>2 DEF Data, TypeOK
<1>4. CASE n = 0
  <2>1. ShowHome(f, i, data, Tapped(f))
    BY <1>3, <1>4 DEF BackTap
  <2> QED
    BY <1>1, <1>2, <2>1, HomeBrowses DEF FolderKinds, folders
<1>5. CASE n # 0
  <2>1. PICK b : b = SubSeq(data.back, 1, n - 1)
    OBVIOUS
  <2>2. b \in Seq(Views) /\ Len(b) = n - 1 /\ data.back[n] \in Views
    <3>1. data.back \in Seq(Views) /\ n - 1 \in 0 .. Len(data.back) /\ n \in 1 .. Len(data.back)
      BY <1>2, <1>3, <1>5 DEF Data
    <3> QED
      BY <2>1, <3>1, SubSeqProperties
  <2>3. ShowPage(f, i, [data EXCEPT !.back = b], data.back[n], favorites, Tapped(f))
    BY <1>3, <1>5, <2>1 DEF BackTap
  <2>4. PICK d : d = [data EXCEPT !.back = b]
    OBVIOUS
  <2>5. Len(b) <= MaxDepth
    BY <1>3, <1>5, <2>2, BoundsAssumption
  <2>6. Kept(d) /\ d.view = data.view /\ d.rename = data.rename /\ d.id = data.id /\ d.search = data.search
    BY <1>2, <2>2, <2>4, <2>5 DEF Data, Kept
  <2> QED
    BY <1>1, <1>2, <2>2, <2>3, <2>4, <2>6, PageBrowses DEF FolderKinds, SameQuestions, folders
<1> QED
  BY <1>4, <1>5

LEMMA TurnPageSteps ==
  ASSUME TInv, NEW f \in Files, NEW i \in {1, 2}, RefreshTap(f, i) \/ NextTap(f, i)
  PROVE  Browses(f, i)
<1>1. PICK page : /\ TurnPage(f, i, page)
                  /\ \/ page = data.view.page
                     \/ page = IF HasNext(data.view) THEN data.view.page + 1 ELSE 1
  BY DEF RefreshTap, NextTap
<1>2. chat[f][i].kind = "page" /\ UNCHANGED <<rows, folders>>
  BY <1>1 DEF TurnPage, Tap
<1>3. TypeOK /\ favorites \in SUBSET Folders /\ IsFiniteSet(favorites) /\ data \in Data
  BY DEF TInv, TypeOK, Data
<1>4. CASE data.view = NoView
  <2>1. ShowHome(f, i, data, Tapped(f))
    BY <1>1, <1>4 DEF TurnPage
  <2> QED
    BY <1>2, <1>3, <2>1, HomeBrowses DEF FolderKinds, folders
<1>5. CASE data.view # NoView
  <2>1. data.view \in Views
    BY <1>3, <1>5 DEF Data
  <2>2. /\ data.view.place \in Places /\ data.view.page \in Nat \ {0}
        /\ data.view.page <= Len(Contents[data.view.place])
        /\ Contents[data.view.place] \in Seq(Seq(Folders)) /\ Contents[data.view.place] # <<>>
    BY <2>1, ContentsAssumption DEF Views
  <2>3. Len(Contents[data.view.place]) \in Nat
    BY <2>2
  <2>4. page \in Nat \ {0} /\ page <= Len(Contents[data.view.place])
    BY <1>1, <2>2, <2>3 DEF HasNext
  <2>5. PICK v : v = [data.view EXCEPT !.page = page]
    OBVIOUS
  <2>6. v \in Views
    BY <2>1, <2>2, <2>4, <2>5 DEF Views
  <2>7. ShowPage(f, i, data, v, favorites, Tapped(f))
    BY <1>1, <1>5, <2>5 DEF TurnPage
  <2> QED
    BY <1>2, <1>3, <2>6, <2>7, DataKept, PageBrowses DEF FolderKinds, folders
<1> QED
  BY <1>4, <1>5

LEMMA FavoriteTapSteps ==
  ASSUME TInv, NEW f \in Files, NEW i \in {1, 2}, FavoriteTap(f, i)
  PROVE  Browses(f, i)
<1>1. chat[f][i].kind = "page" /\ UNCHANGED <<rows, last, recent>>
  BY DEF FavoriteTap, Tap
<1>2. TypeOK /\ favorites \in SUBSET Folders /\ IsFiniteSet(favorites) /\ data \in Data
  BY DEF TInv, TypeOK, Data
<1>3. favorites' \in SUBSET Folders /\ IsFiniteSet(favorites')
  <2>1. PICK t : /\ t = chat[f][i].current
                 /\ favorites' = IF ~Known(t) THEN favorites
                                 ELSE IF chat[f][i].remove THEN favorites \ {data.tokens[t]}
                                 ELSE favorites \cup {data.tokens[t]}
    BY DEF FavoriteTap
  <2>2. CASE ~Known(t)
    BY <1>2, <2>1, <2>2
  <2>3. CASE Known(t)
    <3>1. data.tokens[t] \in Folders
      BY <1>2, <2>3 DEF Known, Data
    <3>2. IsFiniteSet(favorites \ {data.tokens[t]}) /\ IsFiniteSet(favorites \cup {data.tokens[t]})
      BY <1>2, FS_AddElement, FS_RemoveElement
    <3> QED
      BY <1>2, <2>1, <2>3, <3>1, <3>2
  <2> QED
    BY <2>2, <2>3
<1>4. CASE data.view = NoView
  <2>1. ShowHome(f, i, data, Tapped(f))
    BY <1>4 DEF FavoriteTap
  <2> QED
    BY <1>1, <1>3, <2>1, HomeBrowses DEF FolderKinds
<1>5. CASE data.view # NoView
  <2>1. PICK favs : ShowPage(f, i, data, data.view, favs, Tapped(f))
    BY <1>5 DEF FavoriteTap
  <2>2. data.view \in Views
    BY <1>2, <1>5 DEF Data
  <2> QED
    BY <1>1, <1>2, <1>3, <2>1, <2>2, DataKept, PageBrowses DEF FolderKinds
<1> QED
  BY <1>4, <1>5

LEMMA RootsTapSteps ==
  ASSUME TInv, NEW f \in Files, NEW i \in {1, 2}, RootTap(f, i) \/ DriveTap(f, i)
  PROVE  Browses(f, i) \/ Withdraws(f, i)
<1>1. chat[f][i].kind = "roots" /\ UNCHANGED <<rows, folders>>
  BY DEF RootTap, DriveTap, Tap
<1>2. TypeOK /\ favorites \in SUBSET Folders /\ IsFiniteSet(favorites)
  BY DEF TInv, TypeOK
<1>3. CASE DriveTap(f, i) /\ ~data.drives
  <2>1. data' = data /\ Edit(f, i, Gone, Tapped(f))
    BY <1>3 DEF DriveTap
  <2>2. Handled(f, i, {"gone"}, Tapped(f))
    BY <1>2, <2>1, DataKept, PlainKeyboard, PlainHandled DEF Gone, Kinds
  <2> QED
    BY <1>1, <1>3, <2>1, <2>2 DEF Withdraws
<1>4. CASE RootTap(f, i) \/ data.drives
  <2>1. PICK p \in {Root, SharedDrive} :
          ShowPage(f, i, data, [place |-> p, page |-> 1], favorites, Tapped(f))
    BY <1>4 DEF RootTap, DriveTap
  <2>2. PICK v \in Views : v = [place |-> p, page |-> 1]
    BY FirstPage, FoldersAssumption DEF Places
  <2> QED
    BY <1>1, <1>2, <2>1, <2>2, DataKept, PageBrowses DEF FolderKinds, folders
<1> QED
  BY <1>3, <1>4

LEMMA AnotherTapSteps ==
  ASSUME TInv, NEW f \in Files, NEW i \in {1, 2}, AnotherTap(f, i)
  PROVE  Browses(f, i)
BY HomeBrowses DEF AnotherTap, Tap, FolderKinds, folders, TInv, TypeOK

LEMMA BrowseTapSteps ==
  ASSUME TInv, NEW f \in Files, NEW i \in {1, 2}, BrowseTap(f, i)
  PROVE  Browses(f, i)
<1>1. /\ chat[f][i].kind = "home" /\ UNCHANGED <<rows, folders>>
      /\ data' = [data EXCEPT !.drives = TRUE]
      /\ Edit(f, i, Keyboard("roots"), Tapped(f))
  BY DEF BrowseTap, Tap
<1>2. TypeOK /\ favorites \in SUBSET Folders /\ IsFiniteSet(favorites) /\ Kept(data) /\ data \in Data
  BY DataKept DEF TInv, TypeOK, Kept
<1>3. Kept(data') /\ data'.drives /\ SameQuestions(data)
  BY <1>1, <1>2 DEF Kept, Data, SameQuestions
<1>4. Handled(f, i, {"roots"}, Tapped(f))
  BY <1>1, <1>2, <1>3, PlainKeyboard, PlainHandled DEF Kinds
<1> QED
  BY <1>1, <1>2, <1>3, <1>4 DEF Browses, Handled, FolderKinds, folders

LEMMA ListTapSteps ==
  ASSUME TInv, NEW f \in Files, NEW i \in {1, 2}, ListTap(f, i)
  PROVE  Browses(f, i)
<1>1. chat[f][i].kind = "home" /\ UNCHANGED <<rows, folders>>
  BY DEF ListTap, Tap
<1>2. /\ TypeOK /\ favorites \in SUBSET Folders /\ IsFiniteSet(favorites) /\ recent \in Seq(Folders)
      /\ data \in Data /\ Len(data.back) <= MaxDepth /\ data.tokens \in Seq(Folders)
  BY DEF TInv, TypeOK, Data
<1>3. PICK seq \in {FolderSeq(favorites), recent} :
        /\ data' = [data EXCEPT !.tokens = Remembered(data.tokens, seq)]
        /\ Edit(f, i, [Keyboard("list") EXCEPT !.labels = Labels(Remembered(data.tokens, seq), seq)],
                Tapped(f))
  BY DEF ListTap
<1>4. seq \in Seq(Folders)
  BY <1>2, FolderSeqType
<1>5. PICK new : new = Remembered(data.tokens, seq)
  OBVIOUS
<1>6. /\ new \in Seq(Folders) /\ Extends(new, data.tokens)
      /\ Labels(new, seq) \in SUBSET (Nat \X Folders) /\ Match(Labels(new, seq), new)
  BY <1>2, <1>4, <1>5, RememberedKeeps, LabelsMatch
<1>7. PICK k : k = [Keyboard("list") EXCEPT !.labels = Labels(new, seq)]
  OBVIOUS
<1>8. k \in Keyboards /\ k.kind = "list" /\ k.labels = Labels(new, seq)
  BY <1>6, <1>7 DEF Keyboard, Keyboards, Kinds
<1>9. /\ data' \in Data /\ data'.tokens = new /\ data'.drives = data.drives
      /\ data'.back = data.back /\ SameQuestions(data)
  BY <1>2, <1>3, <1>5, <1>6 DEF Data, SameQuestions
<1>10. Fresh(k)
  BY <1>6, <1>8, <1>9 DEF Fresh
<1>11. Edit(f, i, k, Tapped(f))
  BY <1>3, <1>5, <1>7
<1>12. Handled(f, i, {"list"}, Tapped(f))
  BY <1>2, <1>6, <1>8, <1>9, <1>10, <1>11, EditShows DEF Handled
<1> QED
  BY <1>1, <1>2, <1>9, <1>12 DEF Browses, Handled, FolderKinds, folders

LEMMA AskTapSteps ==
  ASSUME TInv, NEW f \in Files, NEW i \in {1, 2}, SearchTap(f, i) \/ IdTap(f, i)
  PROVE  Asks(f, i)
<1>1. /\ chat[f][i].kind = "home" /\ UNCHANGED <<rows, folders>>
      /\ data' \in {[data EXCEPT !.id = f], [data EXCEPT !.search = f]}
      /\ Edit(f, i, Keyboard("cancel"), Tapped(f))
  BY DEF SearchTap, IdTap, Tap
<1>2. TypeOK /\ Kept(data) /\ data \in Data
  BY DataKept DEF TInv, Kept
<1>3. Kept(data')
  BY <1>1, <1>2 DEF Kept, Data
<1> QED
  BY <1>1, <1>2, <1>3, PlainKeyboard, PlainHandled DEF Kinds, Asks

-----------------------------------------------------------------------------
(* What every step of a file has in common. *)

Alone(f) == \A g \in Files \ {f} : ~Begun(g)

(* The fault that a step out of turn counts as has struck.                 *)
Turn(f) ==
  /\ Spared({"overlap"})' /\ Begun(f)' => Alone(f)
  /\ Spared({"overlap", "late"})' => status[f] \in Answering /\ Alone(f)

(* The other files keep their rows and keyboards, and are not asked about. *)
Touches(f) ==
  /\ \A g \in Files \ {f} : status'[g] = status[g] /\ \A j \in {1, 2} : chat'[g][j] = chat[g][j]
  /\ data'.rename \in {data.rename, f, NoFile}
  /\ data'.id \in {data.id, f, NoFile}
  /\ data'.search \in {data.search, f, NoFile}
  /\ struck \subseteq struck'
  /\ Turn(f)

LEMMA SparedBefore ==
  ASSUME struck \subseteq struck'
  PROVE  \A faults : Spared(faults)' => Spared(faults)
BY DEF Spared

(* A button out of turn, or a text: its file was asked and has begun.      *)
LEMMA TapInTurn ==
  ASSUME NEW f \in Files, struck \cup Tapped(f) \subseteq struck'
  PROVE  Turn(f)
<1>1. (\E g \in Files \ {f} : Begun(g)) => "overlap" \in struck'
  BY DEF Tapped, Overlap, Begun
<1>2. status[f] \notin Answering => "late" \in struck'
  BY DEF Tapped
<1> QED
  BY <1>1, <1>2 DEF Turn, Alone, Spared

LEMMA TextInTurn ==
  ASSUME OneAtATime, NEW f \in Files,
         struck \cup (Tapped(f) \ {"overlap"}) \subseteq struck',
         status[f] # "awaiting_rename" \/ Begun(f),
         Begun(f)' => Begun(f)
  PROVE  Turn(f)
<1>1. status[f] \notin Answering => "late" \in struck'
  BY DEF Tapped
<1>2. Spared({"overlap"})' /\ Begun(f) => Alone(f)
  BY SparedBefore DEF OneAtATime, Alone
<1>3. Spared({"overlap", "late"})' => Spared({"overlap"})'
  BY DEF Spared
<1>4. Spared({"overlap", "late"})' => status[f] \in Answering
  BY <1>1 DEF Spared
<1> QED
  BY <1>2, <1>3, <1>4 DEF Turn, Answering, Begun

LEMMA OneStaysAlone ==
  ASSUME OneAtATime, NEW f \in Files, Touches(f)
  PROVE  OneAtATime'
<1> SUFFICES ASSUME Spared({"overlap"})', NEW g \in Files, NEW h \in Files, Begun(g)', Begun(h)', g # h
             PROVE  FALSE
  BY DEF OneAtATime
<1>1. \A e \in Files \ {f} : Begun(e)' => Begun(e)
  BY FilesAssumption DEF Touches, Begun
<1>2. g # f /\ h # f => Begun(g) /\ Begun(h)
  BY <1>1
<1>3. Spared({"overlap"})
  BY SparedBefore DEF Touches
<1>4. CASE g # f /\ h # f
  BY <1>2, <1>3, <1>4 DEF OneAtATime
<1>5. CASE g = f \/ h = f
  <2>1. Alone(f)
    BY <1>5 DEF Touches, Turn
  <2> QED
    BY <1>1, <1>5, <2>1 DEF Alone
<1> QED
  BY <1>4, <1>5

(* The other files go on as before.                                        *)
LEMMA OthersGoOn ==
  ASSUME OneWayOn, AwaitingIsAnswerable, NEW f \in Files, Touches(f), NEW g \in Files \ {f}
  PROVE  /\ Spared({"overlap", "late", "telegram"})' => OneWayFor(g)'
         /\ /\ Spared({"overlap", "late", "cancel", "crash", "drive", "telegram"})'
            /\ status'[g] \in Answering
            => Answerable(g)'
<1>1. status'[g] = status[g] /\ \A j \in {1, 2} : chat'[g][j] = chat[g][j]
  BY DEF Touches
<1>2. /\ data'.rename = g => data.rename = g
      /\ data'.id = g => data.id = g
      /\ data'.search = g => data.search = g
  BY FilesAssumption DEF Touches
<1>3. Spared({"overlap", "late", "telegram"})' => OneWayFor(g)
  BY SparedBefore DEF Touches, OneWayOn
<1>4. Spared({"overlap", "late", "telegram"})' => OneWayFor(g)'
  BY <1>1, <1>2, <1>3 DEF OneWayFor, Questions
<1>5. ASSUME Spared({"overlap", "late", "cancel", "crash", "drive", "telegram"})', status'[g] \in Answering
      PROVE  Answerable(g)'
  <2>1. Spared({"overlap", "late", "telegram"})' /\ Spared({"overlap", "late"})'
    BY <1>5 DEF Spared
  <2>2. ~Begun(g) /\ OneWayFor(g)
    BY <1>3, <2>1 DEF Touches, Turn, Alone
  <2>3. g \notin {data.rename, data.id, data.search}
    BY <2>2 DEF Begun, OneWayFor
  <2>4. Answerable(g)
    BY <1>1, <1>5, SparedBefore DEF Touches, AwaitingIsAnswerable
  <2> QED
    BY <1>1, <2>3, <2>4 DEF Answerable
<1> QED
  BY <1>4, <1>5

-----------------------------------------------------------------------------
(* A step that selects no folder and forgets nothing. *)

Answers(f, i, kinds) ==
  /\ Handled(f, i, kinds, {}) /\ "rename" \notin kinds
  /\ Touches(f)
  /\ status' \in [Files -> Answering \cup {"ready_for_upload", "skipped"}]
  /\ status'[f] \in {status[f], "awaiting_folder", "skipped"}
  /\ kinds \cap FolderKinds # {} \/ f \in {data'.id, data'.search} => status'[f] # "awaiting_rename"
  /\ favorites' \in SUBSET Folders /\ IsFiniteSet(favorites')
  /\ UNCHANGED <<dest, chosen, last, recent>>
  /\ Spared({"overlap", "late", "telegram"})' =>
       \A j \in {1, 2} \ {i} : chat[f][j].kind \notin LeadingKinds

(* The keyboards after such a step: one of before or a fresh one.          *)
LEMMA KeyboardsAfter ==
  ASSUME NEW f \in Files, NEW i, NEW kinds, NEW faults, Handled(f, i, kinds, faults),
         NEW g \in Files, NEW j \in {1, 2}
  PROVE  \/ chat'[g][j] = chat[g][j]
         \/ g = f /\ j = i /\ chat'[g][j].kind \in kinds /\ Fresh(chat'[g][j])
<1>1. CASE UNCHANGED chat
  BY <1>1
<1>2. CASE \E k \in Keyboards : k.kind \in kinds /\ Fresh(k) /\ Shows(f, i, k)
  BY <1>2 DEF Shows
<1> QED
  BY <1>1, <1>2 DEF Handled

LEMMA AnswersTyped ==
  ASSUME TInv, NEW f \in Files, NEW i, NEW kinds, Answers(f, i, kinds)
  PROVE  TInv'
<1>1. TypeOK'
  BY DEF Answers, Handled, Data, Chats, TInv, TypeOK
<1>2. ASSUME NEW g \in Files, NEW j \in {1, 2}
      PROVE  /\ chat'[g][j].kind = "entry" => last' \in Folders
             /\ chat'[g][j].kind \notin {"page", "list"} => chat'[g][j].labels = {}
             /\ chat'[g][j].kind \in FolderKinds => status'[g] # "awaiting_rename"
  <2>1. last' = last
    BY DEF Answers
  <2>2. status'[g] = status[g] \/ status'[g] # "awaiting_rename"
    BY DEF Answers, Touches
  <2>3. CASE chat'[g][j] = chat[g][j]
    BY <2>1, <2>2, <2>3 DEF TInv
  <2>4. CASE g = f /\ j = i /\ chat'[g][j].kind \in kinds /\ Fresh(chat'[g][j])
    BY <2>1, <2>4 DEF Answers, Fresh
  <2> QED
    BY <2>3, <2>4, KeyboardsAfter DEF Answers
<1>3. ASSUME NEW g \in Files, g \in {data'.id, data'.search} PROVE status'[g] # "awaiting_rename"
  <2>1. CASE g = f
    BY <1>3, <2>1 DEF Answers
  <2>2. CASE g # f
    <3>1. g \in {data.id, data.search} /\ status'[g] = status[g]
      BY <1>3, <2>2, FilesAssumption DEF Answers, Touches
    <3> QED
      BY <3>1 DEF TInv
  <2> QED
    BY <2>1, <2>2
<1>4. IsFiniteSet(favorites')
  BY DEF Answers
<1> QED
  BY <1>1, <1>2, <1>3, <1>4 DEF TInv

LEMMA AnswersKeepLabels ==
  ASSUME TInv, LabelsOK, NEW f \in Files, NEW i, NEW kinds, Answers(f, i, kinds)
  PROVE  LabelsOK'
<1> SUFFICES ASSUME Spared({"overlap", "late"})', NEW g \in Files, NEW j \in {1, 2},
                    status'[g] = "awaiting_folder"
             PROVE  /\ chat'[g][j].kind = "entry" => chat'[g][j].last = last'
                    /\ Spared({"cancel", "crash"})' =>
                         /\ Match(chat'[g][j].labels, data'.tokens)
                         /\ (chat'[g][j].kind = "roots" => data'.drives)
                    /\ Spared({"telegram"})' =>
                         \/ Match(chat'[g][j].labels, data'.tokens)
                         \/ data'.tokens = <<>> /\ data'.view = NoView
  BY DEF LabelsOK
<1>1. status[f] \in Answering /\ Alone(f)
  BY DEF Answers, Touches, Turn
<1>2. g = f
  BY <1>1 DEF Answers, Touches, Alone, Begun
<1>3. \A faults : Spared(faults)' => Spared(faults)
  BY SparedBefore DEF Answers, Touches
<1>4. last' = last
  BY DEF Answers
<1>5. CASE j = i /\ chat'[f][j].kind \in kinds /\ Fresh(chat'[f][j])
  BY <1>2, <1>4, <1>5 DEF Fresh
<1>6. CASE chat'[f][j] = chat[f][j]
  <2>1. CASE status[f] = "awaiting_rename"
    <3>1. chat[f][j].kind \notin FolderKinds /\ chat[f][j].labels = {}
      BY <2>1 DEF TInv, FolderKinds
    <3> QED
      BY <1>2, <1>6, <3>1 DEF FolderKinds, Match
  <2>2. CASE status[f] = "awaiting_folder"
    <3>1. /\ chat[f][j].kind = "entry" => chat[f][j].last = last
          /\ Spared({"cancel", "crash"})' =>
               Match(chat[f][j].labels, data.tokens) /\ (chat[f][j].kind = "roots" => data.drives)
          /\ Spared({"telegram"})' =>
               \/ Match(chat[f][j].labels, data.tokens)
               \/ data.tokens = <<>> /\ data.view = NoView
      BY <1>3, <2>2 DEF LabelsOK
    <3>2. Match(chat[f][j].labels, data.tokens) => Match(chat[f][j].labels, data'.tokens)
      <4>1. /\ data.tokens \in Seq(Folders) /\ data'.tokens \in Seq(Folders)
            /\ Extends(data'.tokens, data.tokens)
        BY DEF TInv, TypeOK, Answers, Handled, Data
      <4> QED
        BY <4>1, MatchExtends
    <3>3. data.drives => data'.drives
      BY DEF Answers, Handled
    <3>4. ASSUME Spared({"telegram"})'
          PROVE  \/ Match(chat'[f][j].labels, data'.tokens)
                 \/ data'.tokens = <<>> /\ data'.view = NoView
      <4>1. "telegram" \notin struck' /\ Spared({"overlap", "late", "telegram"})'
        BY <3>4 DEF Spared
      <4>2. CASE \E k \in Keyboards : k.kind \in kinds /\ Fresh(k) /\ Shows(f, i, k)
        <5>1. CASE j = i
          BY <4>2, <5>1 DEF Shows, Fresh
        <5>2. CASE j # i
          <6>1. chat[f][j].labels = {}
            BY <4>1, <5>2 DEF Answers, TInv, LeadingKinds
          <6> QED
            BY <1>6, <6>1 DEF Match
        <5> QED
          BY <5>1, <5>2
      <4>3. CASE data'.tokens = data.tokens /\ data'.view = data.view
        BY <1>6, <3>1, <3>4, <4>3
      <4> QED
        BY <4>1, <4>2, <4>3 DEF Answers, Handled
    <3> QED
      BY <1>2, <1>4, <1>6, <3>1, <3>2, <3>3, <3>4
  <2> QED
    BY <1>1, <2>1, <2>2 DEF Answering
<1> QED
  BY <1>2, <1>5, <1>6, KeyboardsAfter DEF Answers

LEMMA AnswersKeepSelection ==
  ASSUME SelectionMatchesButton, NEW f \in Files, NEW i, NEW kinds, Answers(f, i, kinds)
  PROVE  SelectionMatchesButton'
<1>1. \A faults : Spared(faults)' => Spared(faults)
  BY SparedBefore DEF Answers, Touches
<1>2. \A g \in Files : status'[g] = "ready_for_upload" => status[g] = "ready_for_upload"
  BY DEF Answers, Touches
<1> QED
  BY <1>1, <1>2 DEF SelectionMatchesButton, Answers

(* The file itself goes on.                                                *)
GoesOn(f) ==
  /\ Spared({"overlap", "late", "telegram"})' => OneWayFor(f)' /\ OneQuestion'
  /\ /\ Spared({"overlap", "late", "cancel", "crash", "drive", "telegram"})'
     /\ status'[f] \in Answering
     => Answerable(f)'

LEMMA AllGoOn ==
  ASSUME OneWayOn, AwaitingIsAnswerable, NEW f \in Files, Touches(f), GoesOn(f)
  PROVE  OneWayOn' /\ AwaitingIsAnswerable'
<1>1. \A g \in Files : Spared({"overlap", "late", "telegram"})' => OneWayFor(g)'
  BY OthersGoOn DEF GoesOn
<1>2. ASSUME Spared({"overlap", "late", "cancel", "crash", "drive", "telegram"})',
             NEW g \in Files, status'[g] \in Answering
      PROVE  Answerable(g)'
  BY <1>2, OthersGoOn DEF GoesOn
<1>3. Spared({"overlap", "late", "telegram"})' => OneQuestion'
  BY DEF GoesOn
<1>4. OneWayOn'
  BY <1>1, <1>3 DEF OneWayOn
<1>5. AwaitingIsAnswerable'
  BY <1>2 DEF AwaitingIsAnswerable
<1> QED
  BY <1>4, <1>5

LEMMA AnswersKeep ==
  ASSUME CInv, NEW f \in Files, NEW i, NEW kinds, Answers(f, i, kinds), GoesOn(f)
  PROVE  CInv'
<1>1. Touches(f)
  BY DEF Answers
<1>2. TInv' /\ LabelsOK' /\ SelectionMatchesButton'
  BY AnswersTyped, AnswersKeepLabels, AnswersKeepSelection DEF CInv
<1>3. OneAtATime' /\ OneWayOn' /\ AwaitingIsAnswerable'
  BY <1>1, OneStaysAlone, AllGoOn DEF CInv
<1> QED
  BY <1>2, <1>3 DEF CInv

LEMMA KindsAfter ==
  ASSUME NEW f \in Files, NEW i \in {1, 2}, NEW kinds, NEW faults, Handled(f, i, kinds, faults),
         "telegram" \notin struck'
  PROVE  /\ \/ chat'[f][i].kind \in kinds
            \/ "page" \in kinds /\ "drive" \in struck' /\ chat'[f][i] = chat[f][i]
         /\ \A j \in {1, 2} \ {i} : chat'[f][j] = chat[f][j]
<1>1. CASE UNCHANGED chat
  BY <1>1 DEF Handled, Shows
<1>2. CASE \E k \in Keyboards : k.kind \in kinds /\ Fresh(k) /\ Shows(f, i, k)
  BY <1>2 DEF Shows
<1> QED
  BY <1>1, <1>2 DEF Handled

(* Before a tap on a keyboard that leads on, if the messages arrived.      *)
LEMMA BeforeTap ==
  ASSUME CInv, NEW f \in Files, NEW i \in {1, 2}, chat[f][i].kind \in LeadingKinds,
         struck \cup Tapped(f) \subseteq struck',
         Spared({"overlap", "late", "telegram"})'
  PROVE  /\ f \notin Questions /\ OneWayFor(f) /\ OneQuestion
         /\ status[f] \in Answering /\ Alone(f)
         /\ \A j \in {1, 2} \ {i} : chat[f][j].kind \notin LeadingKinds
         /\ chat[f][i].kind = "rename" => status[f] = "awaiting_rename"
         /\ data.rename = NoFile /\ data.id = NoFile /\ data.search = NoFile
<1>1. OneWayFor(f) /\ OneQuestion /\ \A g \in Files : OneWayFor(g)
  BY SparedBefore DEF CInv, OneWayOn
<1>2. Spared({"overlap", "late"})'
  BY DEF Spared
<1>3. status[f] \in Answering /\ Alone(f)
  BY <1>2, TapInTurn DEF Turn
<1>4. f \notin Questions
  BY <1>1 DEF OneWayFor
<1>5. ASSUME NEW g \in Files, g \in Questions PROVE FALSE
  <2>1. Begun(g)
    BY <1>1, <1>5 DEF Questions, OneWayFor, Begun
  <2> QED
    BY <1>3, <1>4, <1>5, <2>1 DEF Alone
<1>6. data.rename = NoFile /\ data.id = NoFile /\ data.search = NoFile
  BY <1>5 DEF Questions, CInv, TInv, TypeOK
<1> QED
  BY <1>1, <1>3, <1>4, <1>6 DEF OneWayFor

(* A tap that changes no row of another file.                              *)
LEMMA TapTouches ==
  ASSUME NEW f \in Files, NEW i \in {1, 2}, NEW kinds, Handled(f, i, kinds, Tapped(f)),
         \A g \in Files \ {f} : status'[g] = status[g],
         data'.rename \in {data.rename, f, NoFile},
         data'.id \in {data.id, f, NoFile},
         data'.search \in {data.search, f, NoFile}
  PROVE  Touches(f)
<1>1. struck \cup Tapped(f) \subseteq struck'
  BY DEF Handled
<1>2. \A g \in Files \ {f}, j \in {1, 2} : chat'[g][j] = chat[g][j]
  BY KeyboardsAfter
<1> QED
  BY <1>1, <1>2, TapInTurn DEF Touches

LEMMA BrowsesOn ==
  ASSUME CInv, NEW f \in Files, NEW i \in {1, 2}, Browses(f, i)
  PROVE  CInv'
<1> DEFINE kinds == {"home", "roots", "page", "list"}
<1>1. /\ chat[f][i].kind \in FolderKinds /\ chat[f][i].kind # "cancel"
      /\ chat[f][i].kind \in LeadingKinds /\ chat[f][i].kind # "rename"
      /\ Handled(f, i, kinds, Tapped(f)) /\ SameQuestions(data)
      /\ favorites' \in SUBSET Folders /\ IsFiniteSet(favorites')
      /\ UNCHANGED <<status, dest, chosen, last, recent>>
  BY DEF Browses, FolderKinds, LeadingKinds, rows
<1>2. struck \cup Tapped(f) \subseteq struck'
  BY <1>1 DEF Handled
<1>3. Touches(f)
  BY <1>1, TapTouches DEF SameQuestions
<1>4. Answers(f, i, kinds)
  <2>1. Handled(f, i, kinds, {})
    BY <1>1 DEF Handled
  <2>2. status[f] # "awaiting_rename" /\ status' \in [Files -> Answering \cup {"ready_for_upload", "skipped"}]
    BY <1>1 DEF CInv, TInv, TypeOK
  <2>3. Spared({"overlap", "late", "telegram"})' =>
          \A j \in {1, 2} \ {i} : chat[f][j].kind \notin LeadingKinds
    BY <1>1, <1>2, BeforeTap
  <2> HIDE DEF kinds
  <2>4. "rename" \notin kinds
    BY DEF kinds
  <2> QED
    BY <1>1, <1>3, <2>1, <2>2, <2>3, <2>4 DEF Answers
<1>5. GoesOn(f)
  <2>1. ASSUME Spared({"overlap", "late", "telegram"})'
        PROVE  /\ OneWayFor(f)' /\ OneQuestion'
               /\ chat'[f][i].kind \in LeadingKinds
    <3>1. /\ f \notin Questions /\ OneQuestion
          /\ \A j \in {1, 2} \ {i} : chat[f][j].kind \notin LeadingKinds
      BY <1>1, <1>2, <2>1, BeforeTap
    <3>2. "telegram" \notin struck'
      BY <2>1 DEF Spared
    <3>3. /\ chat'[f][i].kind \in kinds \cup {chat[f][i].kind}
          /\ \A j \in {1, 2} \ {i} : chat'[f][j] = chat[f][j]
      BY <1>1, <3>2, KindsAfter
    <3>4. chat'[f][i].kind \in LeadingKinds /\ chat'[f][i].kind # "rename"
      BY <1>1, <3>3 DEF LeadingKinds
    <3>5. f \notin Questions' /\ OneQuestion'
      BY <1>1, <3>1 DEF SameQuestions, Questions, OneQuestion
    <3> HIDE DEF kinds
    <3>6. \A j \in {1, 2} : chat'[f][j].kind \in LeadingKinds => j = i
      BY <3>1, <3>3
    <3>7. OneWayFor(f)'
      BY <3>4, <3>5, <3>6 DEF OneWayFor, Questions
    <3> QED
      BY <3>4, <3>5, <3>7
  <2>2. ASSUME Spared({"overlap", "late", "cancel", "crash", "drive", "telegram"})'
        PROVE  Answerable(f)'
    <3>1. "telegram" \notin struck' /\ "drive" \notin struck'
      BY <2>2 DEF Spared
    <3>2. chat'[f][i].kind \in kinds
      BY <1>1, <3>1, KindsAfter
    <3> QED
      BY <3>2 DEF Answerable
  <2> QED
    BY <2>1, <2>2 DEF GoesOn
<1> QED
  BY <1>4, <1>5, AnswersKeep

(* After a tap that takes the keyboard away nothing leads on.              *)
LEMMA AfterTapAside ==
  ASSUME CInv, NEW f \in Files, NEW i \in {1, 2}, chat[f][i].kind \in LeadingKinds,
         NEW kind \in {"gone", "cancel"}, Handled(f, i, {kind}, Tapped(f)),
         Spared({"overlap", "late", "telegram"})'
  PROVE  /\ chat'[f][i].kind = kind
         /\ \A j \in {1, 2} : chat'[f][j].kind \notin LeadingKinds
<1>1. struck \cup Tapped(f) \subseteq struck' /\ "telegram" \notin struck'
  BY DEF Handled, Spared
<1>2. \A j \in {1, 2} \ {i} : chat'[f][j] = chat[f][j] /\ chat[f][j].kind \notin LeadingKinds
  BY <1>1, KindsAfter, BeforeTap
<1>3. chat'[f][i].kind = kind
  BY <1>1, KindsAfter
<1> QED
  BY <1>2, <1>3 DEF LeadingKinds

LEMMA WithdrawsOn ==
  ASSUME CInv, NEW f \in Files, NEW i \in {1, 2}, Withdraws(f, i)
  PROVE  CInv'
<1>1. /\ Handled(f, i, {"gone"}, Tapped(f))
      /\ UNCHANGED <<data, status, dest, chosen, last, recent, favorites>>
  BY DEF Withdraws, rows, folders
<1>2. chat[f][i].kind \in LeadingKinds /\ chat[f][i].kind \in FolderKinds
  <2>1. chat[f][i].kind \notin {"page", "list"} => Match(chat[f][i].labels, data.tokens)
    BY DEF CInv, TInv, Match
  <2> QED
    BY <2>1 DEF Withdraws, LeadingKinds, FolderKinds
<1>3. struck \cup Tapped(f) \subseteq struck'
  BY <1>1 DEF Handled
<1>4. Touches(f)
  BY <1>1, TapTouches
<1>5. status[f] # "awaiting_rename"
  BY <1>2 DEF CInv, TInv
<1>6. Answers(f, i, {"gone"})
  <2>1. Handled(f, i, {"gone"}, {})
    BY <1>1 DEF Handled
  <2>2. Spared({"overlap", "late", "telegram"})' =>
          \A j \in {1, 2} \ {i} : chat[f][j].kind \notin LeadingKinds
    BY <1>2, <1>3, BeforeTap
  <2>3. favorites' \in SUBSET Folders /\ IsFiniteSet(favorites')
    BY <1>1 DEF CInv, TInv, TypeOK
  <2>4. status' \in [Files -> Answering \cup {"ready_for_upload", "skipped"}]
    BY <1>1 DEF CInv, TInv, TypeOK
  <2> QED
    BY <1>1, <1>4, <1>5, <2>1, <2>2, <2>3, <2>4 DEF Answers
<1>7. GoesOn(f)
  <2>1. ASSUME Spared({"overlap", "late", "telegram"})'
        PROVE  OneWayFor(f)' /\ OneQuestion'
    <3>1. \A j \in {1, 2} : chat'[f][j].kind \notin LeadingKinds
      BY <1>1, <1>2, <2>1, AfterTapAside
    <3>2. data'.rename = NoFile /\ data'.id = NoFile /\ data'.search = NoFile
      BY <1>1, <1>2, <1>3, <2>1, BeforeTap
    <3> QED
      BY <3>1, <3>2, FilesAssumption DEF OneWayFor, OneQuestion
  <2>2. ASSUME Spared({"overlap", "late", "cancel", "crash", "drive", "telegram"})',
               status'[f] \in Answering
        PROVE  FALSE
    <3>1. status[f] = "awaiting_folder"
      BY <1>1, <1>5, <2>2 DEF Answering
    <3>2. Spared({"overlap", "late"}) /\ Spared({"cancel", "crash"})
      BY <1>3, <2>2 DEF Spared
    <3> QED
      BY <3>1, <3>2 DEF Withdraws, CInv, LabelsOK
  <2> QED
    BY <2>1, <2>2 DEF GoesOn
<1> QED
  BY <1>6, <1>7, AnswersKeep

LEMMA AsksOn ==
  ASSUME CInv, NEW f \in Files, NEW i \in {1, 2}, Asks(f, i)
  PROVE  CInv'
<1>1. /\ Handled(f, i, {"cancel"}, Tapped(f))
      /\ UNCHANGED <<status, dest, chosen, last, recent, favorites>>
  BY DEF Asks, rows, folders
<1>2. chat[f][i].kind \in LeadingKinds /\ chat[f][i].kind \in FolderKinds
  BY DEF Asks, LeadingKinds, FolderKinds
<1>3. struck \cup Tapped(f) \subseteq struck'
  BY <1>1 DEF Handled
<1>4. data \in Data /\ data' \in {[data EXCEPT !.id = f], [data EXCEPT !.search = f]}
  BY DEF Asks, CInv, TInv, TypeOK, Data
<1>5. /\ data'.rename = data.rename /\ f \in {data'.id, data'.search}
      /\ data'.id \in {data.id, f} /\ data'.search \in {data.search, f}
      /\ data'.id = data.id \/ data'.search = data.search
  BY <1>4 DEF Data
<1>6. Touches(f)
  BY <1>1, <1>5, TapTouches
<1>7. status[f] # "awaiting_rename"
  BY <1>2 DEF CInv, TInv
<1>8. Answers(f, i, {"cancel"})
  <2>1. Handled(f, i, {"cancel"}, {})
    BY <1>1 DEF Handled
  <2>2. Spared({"overlap", "late", "telegram"})' =>
          \A j \in {1, 2} \ {i} : chat[f][j].kind \notin LeadingKinds
    BY <1>2, <1>3, BeforeTap
  <2>3. favorites' \in SUBSET Folders /\ IsFiniteSet(favorites')
    BY <1>1 DEF CInv, TInv, TypeOK
  <2>4. status' \in [Files -> Answering \cup {"ready_for_upload", "skipped"}]
    BY <1>1 DEF CInv, TInv, TypeOK
  <2> QED
    BY <1>1, <1>6, <1>7, <2>1, <2>2, <2>3, <2>4 DEF Answers
<1>9. GoesOn(f)
  <2>1. ASSUME Spared({"overlap", "late", "telegram"})'
        PROVE  OneWayFor(f)' /\ OneQuestion'
    <3>1. chat'[f][i].kind = "cancel" /\ \A j \in {1, 2} : chat'[f][j].kind \notin LeadingKinds
      BY <1>1, <1>2, <2>1, AfterTapAside
    <3>2. /\ data.rename = NoFile /\ data.id = NoFile /\ data.search = NoFile
          /\ status'[f] = "awaiting_folder"
      BY <1>1, <1>2, <1>3, <1>7, <2>1, BeforeTap DEF Answering
    <3>3. data'.rename = NoFile /\ (data'.id = NoFile \/ data'.search = NoFile)
      BY <1>5, <3>2
    <3> QED
      BY <3>1, <3>2, <3>3, FilesAssumption DEF OneWayFor, OneQuestion
  <2>2. Answerable(f)'
    BY <1>5 DEF Answerable
  <2> QED
    BY <2>1, <2>2 DEF GoesOn
<1> QED
  BY <1>8, <1>9, AnswersKeep

-----------------------------------------------------------------------------
(* handle_rename_callback *)

LEMMA KeepOn ==
  ASSUME CInv, NEW f \in Files, NEW i \in {1, 2}, Keep(f, i)
  PROVE  CInv'
<1> DEFINE kinds == {"entry", "home"}
<1>1. /\ chat[f][i].kind = "rename" /\ chat[f][i].kind \in LeadingKinds
      /\ status' = [status EXCEPT ![f] = "awaiting_folder"]
      /\ UNCHANGED <<dest, chosen, last, recent, favorites>>
  BY DEF Keep, Tap, LeadingKinds, folders
<1>2. TInv /\ TypeOK /\ Kept(data)
  BY DataKept DEF CInv, TInv
<1>3. Handled(f, i, kinds, Tapped(f)) /\ SameQuestions(data)
  BY <1>2, EntryHandled DEF Keep
<1>4. struck \cup Tapped(f) \subseteq struck'
  BY <1>3 DEF Handled
<1>5. /\ status' \in [Files -> Answering \cup {"ready_for_upload", "skipped"}]
      /\ status'[f] = "awaiting_folder" /\ \A g \in Files \ {f} : status'[g] = status[g]
  BY <1>1, <1>2 DEF TypeOK, Answering
<1> HIDE DEF kinds
<1>6. Touches(f)
  BY <1>3, <1>5, TapTouches DEF SameQuestions
<1>7. Answers(f, i, kinds)
  <2>1. Handled(f, i, kinds, {})
    BY <1>3 DEF Handled
  <2>2. Spared({"overlap", "late", "telegram"})' =>
          \A j \in {1, 2} \ {i} : chat[f][j].kind \notin LeadingKinds
    BY <1>1, <1>4, BeforeTap
  <2>3. favorites' \in SUBSET Folders /\ IsFiniteSet(favorites')
    BY <1>1, <1>2 DEF TInv, TypeOK
  <2> QED
    BY <1>1, <1>5, <1>6, <2>1, <2>2, <2>3 DEF Answers, kinds
<1>8. GoesOn(f)
  <2>1. ASSUME "telegram" \notin struck'
        PROVE  /\ chat'[f][i].kind \in {"entry", "home"}
               /\ \A j \in {1, 2} \ {i} : chat'[f][j] = chat[f][j]
    BY <1>3, <2>1, KindsAfter DEF kinds
  <2>2. ASSUME Spared({"overlap", "late", "telegram"})'
        PROVE  OneWayFor(f)' /\ OneQuestion'
    <3>1. /\ data'.rename = NoFile /\ data'.id = NoFile /\ data'.search = NoFile
          /\ \A j \in {1, 2} \ {i} : chat[f][j].kind \notin LeadingKinds
      BY <1>1, <1>3, <1>4, <2>2, BeforeTap DEF SameQuestions
    <3>2. \A j \in {1, 2} : chat'[f][j].kind \in LeadingKinds => j = i /\ chat'[f][j].kind # "rename"
      BY <2>1, <2>2, <3>1 DEF Spared
    <3>3. f \notin Questions' /\ f # NoFile
      BY <3>1, FilesAssumption DEF Questions
    <3> QED
      BY <3>1, <3>2, <3>3 DEF OneWayFor, OneQuestion
  <2>3. Spared({"overlap", "late", "cancel", "crash", "drive", "telegram"})' => Answerable(f)'
    BY <2>1 DEF Spared, Answerable
  <2> QED
    BY <2>2, <2>3 DEF GoesOn
<1> QED
  BY <1>7, <1>8, AnswersKeep

LEMMA AsideOn ==
  ASSUME CInv, NEW f \in Files, NEW i \in {1, 2}, SkipFile(f, i) \/ AskName(f, i)
  PROVE  CInv'
<1>1. /\ chat[f][i].kind = "rename" /\ chat[f][i].kind \in LeadingKinds
      /\ \/ status' = [status EXCEPT ![f] = "skipped"] /\ data' = data
         \/ status' = status /\ data' = [data EXCEPT !.rename = f]
      /\ Edit(f, i, Gone, Tapped(f))
      /\ UNCHANGED <<dest, chosen, last, recent, favorites>>
  BY DEF SkipFile, AskName, Tap, LeadingKinds, folders, rows
<1>2. TInv /\ TypeOK /\ Kept(data) /\ data \in Data
  BY DataKept DEF CInv, TInv, Kept
<1>3. /\ Kept(data') /\ data'.id = data.id /\ data'.search = data.search
      /\ \/ data'.rename = data.rename /\ status'[f] = "skipped"
         \/ data'.rename = f /\ status'[f] = status[f]
  BY <1>1, <1>2 DEF Kept, Data, TypeOK
<1>4. Handled(f, i, {"gone"}, Tapped(f))
  BY <1>1, <1>2, <1>3, PlainKeyboard, PlainHandled DEF Kinds, Gone
<1>5. struck \cup Tapped(f) \subseteq struck'
  BY <1>4 DEF Handled
<1>6. /\ status' \in [Files -> Answering \cup {"ready_for_upload", "skipped"}]
      /\ \A g \in Files \ {f} : status'[g] = status[g]
  BY <1>1, <1>2 DEF TypeOK, Answering
<1>7. Touches(f)
  BY <1>3, <1>4, <1>6, TapTouches
<1>8. Answers(f, i, {"gone"})
  <2>1. Handled(f, i, {"gone"}, {})
    BY <1>4 DEF Handled
  <2>2. Spared({"overlap", "late", "telegram"})' =>
          \A j \in {1, 2} \ {i} : chat[f][j].kind \notin LeadingKinds
    BY <1>1, <1>5, BeforeTap
  <2>3. favorites' \in SUBSET Folders /\ IsFiniteSet(favorites')
    BY <1>1, <1>2 DEF TInv, TypeOK
  <2>4. f \in {data'.id, data'.search} => status'[f] # "awaiting_rename"
    BY <1>2, <1>3 DEF TInv
  <2> QED
    BY <1>1, <1>3, <1>6, <1>7, <2>1, <2>2, <2>3, <2>4 DEF Answers, FolderKinds
<1>9. GoesOn(f)
  <2>1. ASSUME Spared({"overlap", "late", "telegram"})'
        PROVE  OneWayFor(f)' /\ OneQuestion'
    <3>1. /\ status[f] = "awaiting_rename" /\ data.rename = NoFile
          /\ data'.id = NoFile /\ data'.search = NoFile
      BY <1>1, <1>3, <1>5, <2>1, BeforeTap
    <3>2. \A j \in {1, 2} : chat'[f][j].kind \notin LeadingKinds
      BY <1>1, <1>4, <2>1, AfterTapAside
    <3>3. data'.rename = f => status'[f] = "awaiting_rename"
      BY <1>3, <3>1, FilesAssumption
    <3> QED
      BY <3>1, <3>2, <3>3, FilesAssumption DEF OneWayFor, OneQuestion
  <2>2. status'[f] \in Answering => Answerable(f)'
    BY <1>3 DEF Answering, Answerable
  <2> QED
    BY <2>1, <2>2 DEF GoesOn
<1> QED
  BY <1>8, <1>9, AnswersKeep

-----------------------------------------------------------------------------
(* handle_text_message *)

(* Before a text that is awaited, if the messages arrived.                 *)
LEMMA BeforeText ==
  ASSUME CInv, NEW f \in Files, f \in Questions, struck \subseteq struck',
         Spared({"overlap", "late", "telegram"})'
  PROVE  /\ OneQuestion /\ \A j \in {1, 2} : chat[f][j].kind \notin LeadingKinds
         /\ data.rename = f => data.id = NoFile /\ data.search = NoFile
<1>1. OneWayFor(f) /\ OneQuestion
  BY SparedBefore DEF CInv, OneWayOn
<1> QED
  BY <1>1, FilesAssumption DEF OneWayFor, OneQuestion

LEMMA NameTextOn ==
  ASSUME CInv, NEW f \in Files, NameText(f)
  PROVE  CInv'
<1> DEFINE kinds == {"entry", "home"}
           faults == Tapped(f) \ {"overlap"}
<1>1. /\ data.rename = f /\ status' = [status EXCEPT ![f] = "awaiting_folder"]
      /\ UNCHANGED <<dest, chosen, last, recent, favorites>>
  BY DEF NameText, folders
<1>2. TInv /\ TypeOK /\ Kept(data) /\ data \in Data
  BY DataKept DEF CInv, TInv, Kept
<1>3. PICK answered : answered = [data EXCEPT !.rename = NoFile]
  OBVIOUS
<1>4. /\ Kept(answered) /\ answered.rename = NoFile /\ answered.id = data.id
      /\ answered.search = data.search
  BY <1>2, <1>3 DEF Kept, Data
<1>5. Handled(f, 2, kinds, faults) /\ SameQuestions(answered)
  <2>1. CASE ShowEntry(f, 2, answered, faults)
    BY <1>2, <1>4, <2>1, EntryHandled
  <2>2. CASE data' = answered /\ UNCHANGED chat /\ StrikeAll(faults \cup {"telegram"})
    <3>1. struck \subseteq Strikes /\ chat \in Chats
      BY <1>2 DEF TypeOK, Chats
    <3>2. struck' \subseteq Strikes /\ struck \cup faults \cup {"telegram"} \subseteq struck'
      BY <2>2, <3>1, StrikesAdd
    <3>3. Extends(data'.tokens, data.tokens)
      BY <1>2, <1>4, <2>2, ExtendsItself DEF Kept, Data
    <3> HIDE DEF faults, kinds
    <3> QED
      BY <1>4, <2>2, <3>1, <3>2, <3>3 DEF Handled, Kept, SameQuestions
  <2> QED
    BY <1>3, <2>1, <2>2 DEF NameText
<1>6. struck \cup faults \subseteq struck'
  BY <1>5 DEF Handled
<1>7. /\ status' \in [Files -> Answering \cup {"ready_for_upload", "skipped"}]
      /\ status'[f] = "awaiting_folder" /\ \A g \in Files \ {f} : status'[g] = status[g]
  BY <1>1, <1>2 DEF TypeOK, Answering
<1>8. data'.rename = NoFile /\ data'.id = data.id /\ data'.search = data.search
  BY <1>4, <1>5 DEF SameQuestions
<1>9. Touches(f)
  <2>1. Begun(f)
    BY <1>1 DEF Begun
  <2>2. Turn(f)
    BY <1>6, <2>1, TextInTurn DEF CInv
  <2>3. \A g \in Files \ {f}, j \in {1, 2} : chat'[g][j] = chat[g][j]
    BY <1>5, KeyboardsAfter
  <2> QED
    BY <1>6, <1>7, <1>8, <2>2, <2>3 DEF Touches
<1>10. Answers(f, 2, kinds)
  <2>1. Handled(f, 2, kinds, {})
    BY <1>5 DEF Handled
  <2>2. Spared({"overlap", "late", "telegram"})' =>
          \A j \in {1, 2} \ {2} : chat[f][j].kind \notin LeadingKinds
    BY <1>1, <1>6, BeforeText DEF Questions
  <2>3. favorites' \in SUBSET Folders /\ IsFiniteSet(favorites')
    BY <1>1, <1>2 DEF TInv, TypeOK
  <2> HIDE DEF kinds
  <2>4. "rename" \notin kinds
    BY DEF kinds
  <2> QED
    BY <1>1, <1>7, <1>9, <2>1, <2>2, <2>3, <2>4 DEF Answers
<1>11. GoesOn(f)
  <2>1. ASSUME "telegram" \notin struck'
        PROVE  chat'[f][2].kind \in {"entry", "home"} /\ chat'[f][1] = chat[f][1]
    BY <1>5, <2>1, KindsAfter
  <2>2. ASSUME Spared({"overlap", "late", "telegram"})'
        PROVE  OneWayFor(f)' /\ OneQuestion'
    <3>1. data.id = NoFile /\ data.search = NoFile /\ chat[f][1].kind \notin LeadingKinds
      BY <1>1, <1>6, <2>2, BeforeText DEF Questions
    <3>2. /\ chat'[f][1].kind \notin LeadingKinds /\ chat'[f][2].kind # "rename"
      BY <2>1, <2>2, <3>1 DEF Spared
    <3>3. data'.rename = NoFile /\ data'.id = NoFile /\ data'.search = NoFile /\ f # NoFile
      BY <1>8, <3>1, FilesAssumption
    <3> QED
      BY <3>2, <3>3 DEF OneWayFor, OneQuestion, Questions, LeadingKinds
  <2>3. Spared({"overlap", "late", "cancel", "crash", "drive", "telegram"})' => Answerable(f)'
    BY <2>1 DEF Spared, Answerable
  <2> QED
    BY <2>2, <2>3 DEF GoesOn
<1> QED
  BY <1>10, <1>11, AnswersKeep

LEMMA SearchTextOn ==
  ASSUME CInv, NEW f \in Files, SearchText(f)
  PROVE  CInv'
<1> DEFINE faults == Tapped(f) \ {"overlap"}
<1>1. /\ data.rename = NoFile /\ data.id = NoFile /\ data.search = f
      /\ UNCHANGED <<status, dest, chosen, last, recent, favorites>>
  BY DEF SearchText, rows, folders
<1>2. TInv /\ TypeOK /\ Kept(data) /\ data \in Data
  BY DataKept DEF CInv, TInv, Kept
<1>3. PICK asked : asked = [data EXCEPT !.search = NoFile]
  OBVIOUS
<1>4. /\ Kept(asked) /\ asked.search = NoFile /\ asked.id = data.id
      /\ asked.rename = data.rename /\ asked.view = data.view
  BY <1>2, <1>3 DEF Kept, Data
<1>5. Handled(f, 2, {"page"}, faults) /\ SameQuestions(asked)
  <2>1. PICK v \in Views : v = [place |-> Search, page |-> 1]
    BY FirstPage DEF Places
  <2>2. ShowPage(f, 2, asked, v, favorites, faults)
    BY <1>3, <2>1 DEF SearchText
  <2> HIDE DEF faults
  <2> QED
    BY <1>2, <1>4, <2>2, PageHandled
<1>6. struck \cup faults \subseteq struck'
  BY <1>5 DEF Handled
<1>7. data'.rename = NoFile /\ data'.id = NoFile /\ data'.search = NoFile
  BY <1>1, <1>4, <1>5 DEF SameQuestions
<1>8. status[f] # "awaiting_rename"
  BY <1>1, <1>2 DEF TInv
<1>9. Touches(f)
  <2>1. Begun(f)' => Begun(f)
    BY <1>1, <1>7, FilesAssumption DEF Begun
  <2>2. Turn(f)
    BY <1>6, <1>8, <2>1, TextInTurn DEF CInv
  <2>3. \A g \in Files \ {f}, j \in {1, 2} : chat'[g][j] = chat[g][j]
    BY <1>5, KeyboardsAfter
  <2> QED
    BY <1>1, <1>6, <1>7, <2>2, <2>3 DEF Touches
<1>10. Answers(f, 2, {"page"})
  <2>1. Handled(f, 2, {"page"}, {})
    BY <1>5 DEF Handled
  <2>2. Spared({"overlap", "late", "telegram"})' =>
          \A j \in {1, 2} \ {2} : chat[f][j].kind \notin LeadingKinds
    BY <1>1, <1>6, BeforeText DEF Questions
  <2>3. favorites' \in SUBSET Folders /\ IsFiniteSet(favorites')
    BY <1>1, <1>2 DEF TInv, TypeOK
  <2>4. status' \in [Files -> Answering \cup {"ready_for_upload", "skipped"}]
    BY <1>1, <1>2 DEF TypeOK
  <2> QED
    BY <1>1, <1>8, <1>9, <2>1, <2>2, <2>3, <2>4 DEF Answers
<1>11. GoesOn(f)
  <2>1. ASSUME "telegram" \notin struck'
        PROVE  /\ \/ chat'[f][2].kind = "page"
                  \/ "drive" \in struck' /\ chat'[f][2] = chat[f][2]
               /\ chat'[f][1] = chat[f][1]
    BY <1>5, <2>1, KindsAfter
  <2>2. ASSUME Spared({"overlap", "late", "telegram"})'
        PROVE  OneWayFor(f)' /\ OneQuestion'
    <3>1. chat[f][1].kind \notin LeadingKinds /\ chat[f][2].kind \notin LeadingKinds
      BY <1>1, <1>6, <2>2, BeforeText DEF Questions
    <3>2. /\ chat'[f][1].kind \notin LeadingKinds /\ chat'[f][2].kind # "rename"
      BY <2>1, <2>2, <3>1 DEF Spared, LeadingKinds
    <3> QED
      BY <1>7, <3>2, FilesAssumption DEF OneWayFor, OneQuestion, Questions, LeadingKinds
  <2>3. Spared({"overlap", "late", "cancel", "crash", "drive", "telegram"})' => Answerable(f)'
    BY <2>1 DEF Spared, Answerable
  <2> QED
    BY <2>2, <2>3 DEF GoesOn
<1> QED
  BY <1>10, <1>11, AnswersKeep

-----------------------------------------------------------------------------
(* Cancel, /cancel and a crash. *)

(* The memory is lost, but for a pending name, which Cancel leaves.        *)
Forgotten ==
  /\ data' \in Data /\ Len(data'.back) <= MaxDepth
  /\ data'.rename \in {data.rename, NoFile} /\ data'.id = NoFile /\ data'.search = NoFile
  /\ data'.tokens = <<>> /\ data'.view = NoView

LEMMA ForgottenType ==
  ASSUME TypeOK, NEW d \in Data, d.rename = data.rename, data' \in {NoData, Cleared(d)}
  PROVE  Forgotten
<1>1. PICK noTokens \in Seq(Folders) : noTokens = <<>>
  <2>1. <<>> \in Seq(Folders)
    OBVIOUS
  <2> QED
    BY <2>1, Zenon
<1>2. PICK noBack \in Seq(Views) : noBack = <<>> /\ Len(noBack) = 0
  <2>1. <<>> \in Seq(Views) /\ Len(<<>>) = 0
    OBVIOUS
  <2> QED
    BY <2>1, Zenon
<1>3. PICK r : r \in {data.rename, NoFile} /\
        data' = [rename |-> r, id |-> NoFile, search |-> NoFile, view |-> NoView,
                 back |-> noBack, tokens |-> noTokens, drives |-> FALSE]
  BY <1>1, <1>2 DEF Cleared, NoData
<1>4. r \in Files \cup {NoFile}
  BY <1>3 DEF Data
<1> QED
  BY <1>1, <1>2, <1>3, <1>4, BoundsAssumption DEF Forgotten, Data

LEMMA GoneKeyboard ==
  Gone \in Keyboards /\ Gone.kind = "gone" /\ Gone.labels = {}
BY PlainKeyboard DEF Gone, Kinds

Cancels ==
  /\ Forgotten
  /\ chat' \in Chats
  /\ \A g \in Files, j \in {1, 2} : chat'[g][j] = chat[g][j] \/ chat'[g][j] = Gone
  /\ struck \subseteq struck' /\ struck' \subseteq Strikes
  /\ struck' \cap {"cancel", "crash"} # {}
  /\ UNCHANGED <<rows, folders>>

LEMMA CancelTapSteps ==
  ASSUME CInv, NEW f \in Files, NEW i \in {1, 2}, CancelTap(f, i)
  PROVE  Cancels
<1>1. /\ data' = Cleared(data) /\ Edit(f, i, Gone, Tapped(f) \cup {"cancel"})
      /\ UNCHANGED <<rows, folders>>
  BY DEF CancelTap
<1>2. TypeOK /\ data \in Data
  BY DEF CInv, TInv, TypeOK, Data
<1>3. Forgotten
  BY <1>1, <1>2, ForgottenType
<1>4. /\ chat' \in Chats
      /\ struck' \subseteq Strikes /\ struck \cup (Tapped(f) \cup {"cancel"}) \subseteq struck'
      /\ Shows(f, i, Gone) \/ UNCHANGED chat
  BY <1>1, <1>2, GoneKeyboard, EditShows
<1>5. \A g \in Files, j \in {1, 2} : chat'[g][j] = chat[g][j] \/ chat'[g][j] = Gone
  BY <1>4 DEF Shows
<1> QED
  BY <1>1, <1>3, <1>4, <1>5 DEF Cancels

LEMMA LossSteps ==
  ASSUME CInv, CancelCommand \/ Crash
  PROVE  Cancels
<1>1. /\ data' = NoData
      /\ StrikeAll({"cancel"}) \/ StrikeAll({"crash"})
      /\ UNCHANGED <<rows, folders, chat>>
  BY DEF CancelCommand, Crash
<1>2. TypeOK /\ data \in Data /\ chat \in Chats /\ struck \subseteq Strikes
  BY DEF CInv, TInv, TypeOK, Data, Chats
<1>3. Forgotten
  BY <1>1, <1>2, ForgottenType
<1>4. /\ struck' \subseteq Strikes /\ struck \subseteq struck'
      /\ struck' \cap {"cancel", "crash"} # {}
  BY <1>1, <1>2, StrikesAdd
<1> QED
  BY <1>1, <1>2, <1>3, <1>4 DEF Cancels

LEMMA CancelsOn ==
  ASSUME CInv, Cancels
  PROVE  CInv'
<1>1. /\ UNCHANGED <<status, dest, chosen, last, recent, favorites>>
      /\ \A faults : Spared(faults)' => Spared(faults)
      /\ ~Spared({"cancel", "crash"})'
  BY SparedBefore DEF Cancels, rows, folders, Spared
<1>2. \A g \in Files, j \in {1, 2} :
        chat'[g][j] = chat[g][j] \/ (chat'[g][j].kind = "gone" /\ chat'[g][j].labels = {})
  BY GoneKeyboard DEF Cancels
<1>3. TInv'
  <2>1. TypeOK'
    BY <1>1 DEF CInv, TInv, TypeOK, Cancels, Forgotten, Data, Chats
  <2>2. \A g \in Files : g \notin {data'.id, data'.search}
    BY FilesAssumption DEF Cancels, Forgotten
  <2>3. IsFiniteSet(favorites')
    BY <1>1 DEF CInv, TInv
  <2>4. ASSUME NEW g \in Files, NEW j \in {1, 2}
        PROVE  /\ chat'[g][j].kind = "entry" => last' \in Folders
               /\ chat'[g][j].kind \notin {"page", "list"} => chat'[g][j].labels = {}
               /\ chat'[g][j].kind \in FolderKinds => status'[g] # "awaiting_rename"
    BY <1>1, <1>2 DEF CInv, TInv, FolderKinds
  <2> QED
    BY <2>1, <2>2, <2>3, <2>4 DEF TInv
<1>4. OneAtATime'
  <2>1. \A g \in Files : Begun(g)' => Begun(g)
    BY <1>1, FilesAssumption DEF Begun, Cancels, Forgotten
  <2> QED
    BY <1>1, <2>1 DEF CInv, OneAtATime
<1>5. LabelsOK'
  <2>1. data'.tokens = <<>> /\ data'.view = NoView
    BY DEF Cancels, Forgotten
  <2>2. ASSUME Spared({"overlap", "late"})', NEW g \in Files, NEW j \in {1, 2},
               status'[g] = "awaiting_folder", chat'[g][j].kind = "entry"
        PROVE  chat'[g][j].last = last'
    BY <1>1, <1>2, <2>2 DEF CInv, LabelsOK
  <2> QED
    BY <1>1, <2>1, <2>2 DEF LabelsOK
<1>6. OneWayOn'
  <2> SUFFICES ASSUME Spared({"overlap", "late", "telegram"})' PROVE (\A g \in Files : OneWayFor(g)') /\ OneQuestion'
    BY DEF OneWayOn
  <2>1. \A g \in Files : OneWayFor(g)
    BY <1>1 DEF CInv, OneWayOn
  <2>2. /\ data'.rename \in {data.rename, NoFile} /\ data'.id = NoFile /\ data'.search = NoFile
    BY DEF Cancels, Forgotten
  <2>3. ASSUME NEW g \in Files PROVE OneWayFor(g)'
    BY <1>1, <1>2, <2>1, <2>2, FilesAssumption DEF OneWayFor, Questions, LeadingKinds
  <2> QED
    BY <2>2, <2>3 DEF OneQuestion
<1>7. SelectionMatchesButton'
  BY <1>1 DEF CInv, SelectionMatchesButton
<1>8. AwaitingIsAnswerable'
  BY <1>1 DEF AwaitingIsAnswerable, Spared
<1> QED
  BY <1>3, <1>4, <1>5, <1>6, <1>7, <1>8 DEF CInv

-----------------------------------------------------------------------------
(* _select_destination_folder *)

(* record_recent_folder keeps the list within its limit.                   *)
LEMMA RecentAfterType ==
  ASSUME recent \in Seq(Folders), Len(recent) <= RecentLimit, NEW d \in Folders,
         NEW r \in RecentAfter(d)
  PROVE  r \in Seq(Folders) /\ Len(r) <= RecentLimit
<1>1. PICK one \in Seq(Folders) : one = <<d>> /\ Len(one) = 1
  <2>1. <<d>> \in Seq(Folders) /\ Len(<<d>>) = 1
    OBVIOUS
  <2> QED
    BY <2>1, Zenon
<1>2. PICK n \in Nat : n = Len(recent) /\ DOMAIN recent = 1 .. n
  <2>1. Len(recent) \in Nat /\ DOMAIN recent = 1 .. Len(recent)
    OBVIOUS
  <2> QED
    BY <2>1
<1>3. CASE Holds(recent, d)
  <2>1. PICK k : k = CHOOSE i \in DOMAIN recent : recent[i] = d
    OBVIOUS
  <2>2. k \in 1 .. n
    BY <1>2, <1>3, <2>1 DEF Holds
  <2>3. r = recent \/ r = one \o SubSeq(recent, 1, k - 1) \o SubSeq(recent, k + 1, Len(recent))
    BY <1>1, <1>3, <2>1 DEF RecentAfter
  <2>4. PICK a, b : a = SubSeq(recent, 1, k - 1) /\ b = SubSeq(recent, k + 1, n)
    OBVIOUS
  <2>5. a \in Seq(Folders) /\ Len(a) = k - 1
    BY <1>2, <2>2, <2>4, SubSeqProperties
  <2>6. b \in Seq(Folders) /\ Len(b) = n - k
    BY <1>2, <2>2, <2>4, SubSeqProperties
  <2>7. PICK c : c = one \o a
    OBVIOUS
  <2>8. c \in Seq(Folders) /\ Len(c) = k
    BY <1>1, <2>2, <2>5, <2>7, ConcatProperties
  <2>9. c \o b \in Seq(Folders) /\ Len(c \o b) = Len(c) + Len(b)
    BY <2>6, <2>8, ConcatProperties
  <2> QED
    <3>1. r = recent \/ r = c \o b
      BY <1>2, <2>3, <2>4, <2>7
    <3>2. k + (n - k) = n
      BY <1>2, <2>2
    <3> QED
      BY <1>2, <2>6, <2>8, <2>9, <3>1, <3>2
<1>4. CASE ~Holds(recent, d)
  <2>1. PICK m : m = IF n < RecentLimit THEN n + 1 ELSE RecentLimit
    OBVIOUS
  <2>2. r = SubSeq(one \o recent, 1, m)
    BY <1>1, <1>2, <1>4, <2>1 DEF RecentAfter
  <2>3. PICK s : s = one \o recent
    OBVIOUS
  <2>4. s \in Seq(Folders) /\ Len(s) = n + 1
    BY <1>1, <1>2, <2>3, ConcatProperties
  <2>5. m \in 1 .. n + 1 /\ m <= RecentLimit
    BY <1>2, <2>1, BoundsAssumption
  <2>6. r \in Seq(Folders) /\ Len(r) = m
    BY <2>2, <2>3, <2>4, <2>5, SubSeqProperties
  <2> QED
    BY <2>5, <2>6
<1> QED
  BY <1>3, <1>4

Statuses == Answering \cup {"ready_for_upload", "skipped"}

(* What n of the four commits leave in the database.                       *)
Committed(f, d, label, n) ==
  /\ status' \in [Files -> Statuses] /\ \A g \in Files \ {f} : status'[g] = status[g]
  /\ dest' \in [Files -> Folders \cup {NoFolder}] /\ \A g \in Files \ {f} : dest'[g] = dest[g]
  /\ chosen' \in [Files -> Folders \cup {NoFolder}] /\ \A g \in Files \ {f} : chosen'[g] = chosen[g]
  /\ chosen'[f] = label
  /\ \/ n = 1 /\ status'[f] = status[f] /\ last' = last
     \/ n # 1 /\ status'[f] = "ready_for_upload" /\ dest'[f] = d
  /\ last' \in {last, d}
  /\ recent' \in Seq(Folders) /\ Len(recent') <= RecentLimit
  /\ favorites' = favorites

LEMMA CommitsType ==
  ASSUME TypeOK, NEW f \in Files, NEW d \in Folders, NEW label \in Folders \cup {NoFolder},
         NEW n \in 1 .. 4, Commits(f, d, label, n)
  PROVE  Committed(f, d, label, n)
<1>1. /\ Done(n)[1] = (n >= 1) /\ Done(n)[2] = (n >= 2)
      /\ Done(n)[3] = (n >= 3) /\ Done(n)[4] = (n >= 4)
  BY DEF Done
<1>2. /\ chosen' = [chosen EXCEPT ![f] = label] /\ dest' = [dest EXCEPT ![f] = d]
      /\ status' = IF n >= 2 THEN [status EXCEPT ![f] = "ready_for_upload"] ELSE status
      /\ last' = IF n >= 3 THEN d ELSE last
      /\ recent' = recent \/ recent' \in RecentAfter(d)
      /\ favorites' = favorites
  <2>1. chosen' = [chosen EXCEPT ![f] = label] /\ favorites' = favorites
    BY DEF Commits
  <2>2. dest' = [dest EXCEPT ![f] = d]
    <3>1. n >= 1
      OBVIOUS
    <3>2. Done(n)[1]
      BY <3>1 DEF Done
    <3> QED
      BY <3>2 DEF Commits
  <2>3. status' = IF n >= 2 THEN [status EXCEPT ![f] = "ready_for_upload"] ELSE status
    BY <1>1 DEF Commits
  <2>4. last' = IF n >= 3 THEN d ELSE last
    BY <1>1 DEF Commits
  <2>5. recent' = recent \/ recent' \in RecentAfter(d)
    BY DEF Commits
  <2> QED
    BY <2>1, <2>2, <2>3, <2>4, <2>5
<1>3. recent' \in Seq(Folders) /\ Len(recent') <= RecentLimit
  BY <1>2, RecentAfterType DEF TypeOK
<1>4. /\ chosen' \in [Files -> Folders \cup {NoFolder}] /\ dest' \in [Files -> Folders \cup {NoFolder}]
      /\ chosen'[f] = label /\ dest'[f] = d
      /\ \A g \in Files \ {f} : chosen'[g] = chosen[g] /\ dest'[g] = dest[g]
  BY <1>2 DEF TypeOK
<1>5. /\ status' \in [Files -> Statuses] /\ \A g \in Files \ {f} : status'[g] = status[g]
      /\ status'[f] = IF n = 1 THEN status[f] ELSE "ready_for_upload"
  BY <1>2 DEF TypeOK, Statuses
<1>6. last' \in {last, d} /\ (n = 1 => last' = last)
  BY <1>2
<1> QED
  BY <1>2, <1>3, <1>4, <1>5, <1>6 DEF Committed

(* The folder is taken, whole or up to a crash after n commits.            *)
Selected(f, d, label, n) ==
  /\ Committed(f, d, label, n)
  /\ Forgotten
  /\ chat' \in Chats
  /\ \A g \in Files, j \in {1, 2} :
       chat'[g][j] = chat[g][j] \/ (g = f /\ chat'[g][j].kind = "gone" /\ chat'[g][j].labels = {})
  /\ struck' \subseteq Strikes /\ struck \subseteq struck'
  /\ n = 4 \/ "crash" \in struck'

(* The folder is refused.                                                  *)
Refused(f, i) ==
  /\ Handled(f, i, {"gone"}, {"drive"})
  /\ UNCHANGED <<rows, folders>>

LEMMA SelectSteps ==
  ASSUME CInv, NEW f \in Files, NEW i, NEW before, Kept(before), before.rename = data.rename,
         NEW d \in Folders, NEW label \in Folders \cup {NoFolder}, NEW faults,
         Select(f, i, before, d, label, faults)
  PROVE  /\ struck \cup faults \subseteq struck'
         /\ \/ \E n \in 1 .. 4 : Selected(f, d, label, n)
            \/ Refused(f, i) /\ data' = before
<1>1. TypeOK /\ struck \subseteq Strikes /\ chat \in Chats /\ before \in Data
  BY DEF CInv, TInv, TypeOK, Chats, Kept
<1>2. CASE /\ Commits(f, d, label, 4)
           /\ data' = Cleared(before)
           /\ Edit(f, i, Gone, faults)
  <2>1. Committed(f, d, label, 4) /\ Forgotten
    BY <1>1, <1>2, CommitsType, ForgottenType
  <2>2. /\ chat' \in Chats
        /\ struck' \subseteq Strikes /\ struck \cup faults \subseteq struck'
        /\ Shows(f, i, Gone) \/ UNCHANGED chat
    BY <1>1, <1>2, GoneKeyboard, EditShows
  <2>3. \A g \in Files, j \in {1, 2} :
          chat'[g][j] = chat[g][j] \/ (g = f /\ chat'[g][j].kind = "gone" /\ chat'[g][j].labels = {})
    BY <2>2, GoneKeyboard DEF Shows
  <2>4. Selected(f, d, label, 4)
    BY <2>1, <2>2, <2>3 DEF Selected
  <2> QED
    BY <2>2, <2>4
<1>3. CASE /\ UNCHANGED <<rows, folders>>
           /\ data' = before
           /\ Edit(f, i, Gone, faults \cup {"drive"})
  <2>1. Handled(f, i, {"gone"}, faults \cup {"drive"})
    BY <1>1, <1>3, GoneKeyboard, PlainHandled
  <2>2. Refused(f, i) /\ struck \cup faults \subseteq struck'
    BY <1>3, <2>1 DEF Refused, Handled
  <2> QED
    BY <1>3, <2>2
<1>4. CASE /\ \E n \in 1 .. 3 : Commits(f, d, label, n)
           /\ data' = NoData
           /\ UNCHANGED chat
           /\ StrikeAll(faults \cup {"crash"})
  <2>1. PICK n \in 1 .. 3 : Commits(f, d, label, n)
    BY <1>4
  <2>2. Committed(f, d, label, n) /\ Forgotten
    BY <1>1, <1>4, <2>1, CommitsType, ForgottenType
  <2>3. struck' \subseteq Strikes /\ struck \cup (faults \cup {"crash"}) \subseteq struck'
    BY <1>1, <1>4, StrikesAdd
  <2>4. Selected(f, d, label, n)
    BY <1>1, <1>4, <2>2, <2>3 DEF Selected
  <2> QED
    BY <2>3, <2>4
<1> QED
  BY <1>2, <1>3, <1>4 DEF Select

LEMMA SelectedOn ==
  ASSUME CInv, NEW f \in Files, NEW d \in Folders, NEW label \in Folders \cup {NoFolder},
         NEW n \in 1 .. 4, Selected(f, d, label, n),
         Turn(f), status[f] # "awaiting_rename",
         Spared({"overlap", "late"})' /\ (Spared({"telegram"})' \/ Spared({"cancel", "crash"})')
           => d = label
  PROVE  CInv'
<1>1. /\ Committed(f, d, label, n) /\ Forgotten
      /\ \A g \in Files, j \in {1, 2} :
           chat'[g][j] = chat[g][j] \/ (g = f /\ chat'[g][j].kind = "gone" /\ chat'[g][j].labels = {})
      /\ \A faults : Spared(faults)' => Spared(faults)
      /\ n = 4 \/ "crash" \in struck'
  BY SparedBefore DEF Selected
<1>2. Touches(f)
  BY <1>1 DEF Selected, Committed, Forgotten, Touches
<1>3. TInv'
  <2>1. TypeOK'
    BY DEF Selected, Committed, Forgotten, CInv, TInv, TypeOK, Statuses, Data, Chats
  <2>2. \A g \in Files : g \notin {data'.id, data'.search}
    BY <1>1, FilesAssumption DEF Forgotten
  <2>3. IsFiniteSet(favorites')
    BY <1>1 DEF Committed, CInv, TInv
  <2>4. ASSUME NEW g \in Files, NEW j \in {1, 2}
        PROVE  /\ chat'[g][j].kind = "entry" => last' \in Folders
               /\ chat'[g][j].kind \notin {"page", "list"} => chat'[g][j].labels = {}
               /\ chat'[g][j].kind \in FolderKinds => status'[g] # "awaiting_rename"
    <3>1. last \in Folders => last' \in Folders
      BY <1>1 DEF Committed
    <3>2. status[g] # "awaiting_rename" => status'[g] # "awaiting_rename"
      BY <1>1 DEF Committed
    <3> QED
      BY <1>1, <3>1, <3>2 DEF CInv, TInv, FolderKinds
  <2> QED
    BY <2>1, <2>2, <2>3, <2>4 DEF TInv
<1>4. OneAtATime'
  BY <1>2, OneStaysAlone DEF CInv
<1>5. LabelsOK'
  <2>1. data'.tokens = <<>> /\ data'.view = NoView
    BY <1>1 DEF Forgotten
  <2>2. ASSUME Spared({"overlap", "late"})', NEW g \in Files, NEW j \in {1, 2},
               status'[g] = "awaiting_folder"
        PROVE  /\ "crash" \in struck'
               /\ chat'[g][j].kind = "entry" => chat'[g][j].last = last'
    <3>1. Alone(f)
      BY <2>2 DEF Turn
    <3>2. g = f
      BY <1>2, <2>2, <3>1 DEF Touches, Alone, Begun
    <3>3. n = 1 /\ status[f] = "awaiting_folder" /\ last' = last
      BY <1>1, <2>2, <3>2 DEF Committed
    <3>4. chat[f][j].kind = "entry" => chat[f][j].last = last
      BY <1>1, <2>2, <3>3 DEF CInv, LabelsOK
    <3> QED
      BY <1>1, <3>2, <3>3, <3>4
  <2> QED
    BY <2>1, <2>2 DEF LabelsOK, Spared
<1>6. GoesOn(f)
  <2>1. ASSUME Spared({"overlap", "late", "telegram"})'
        PROVE  OneWayFor(f)' /\ OneQuestion'
    <3>1. OneWayFor(f)
      BY <1>1, <2>1 DEF CInv, OneWayOn
    <3>2. data.rename # f
      BY <3>1 DEF OneWayFor
    <3>3. /\ data'.rename # f /\ data'.id = NoFile /\ data'.search = NoFile /\ f # NoFile
      BY <1>1, <3>2, FilesAssumption DEF Forgotten
    <3>4. \A j \in {1, 2} : chat'[f][j].kind \in LeadingKinds =>
            chat[f][j].kind = chat'[f][j].kind /\ chat[f][j].kind \in LeadingKinds
      BY <1>1 DEF LeadingKinds
    <3> QED
      BY <3>1, <3>3, <3>4 DEF OneWayFor, OneQuestion, Questions
  <2>2. ASSUME Spared({"overlap", "late", "cancel", "crash", "drive", "telegram"})',
               status'[f] \in Answering
        PROVE  FALSE
    <3>1. n = 4
      BY <1>1, <2>2 DEF Spared
    <3> QED
      BY <1>1, <2>2, <3>1 DEF Committed, Answering
  <2> QED
    BY <2>1, <2>2 DEF GoesOn
<1>7. OneWayOn' /\ AwaitingIsAnswerable'
  BY <1>2, <1>6, AllGoOn DEF CInv
<1>8. SelectionMatchesButton'
  <2> SUFFICES ASSUME Spared({"overlap", "late"})',
                      Spared({"telegram"})' \/ Spared({"cancel", "crash"})',
                      NEW g \in Files, status'[g] = "ready_for_upload"
               PROVE  dest'[g] # NoFolder /\ dest'[g] = chosen'[g]
    BY DEF SelectionMatchesButton
  <2>1. CASE g = f
    <3>1. status[f] \in Answering
      BY DEF Turn
    <3>2. n # 1
      BY <1>1, <2>1, <3>1 DEF Committed, Answering
    <3> QED
      BY <1>1, <2>1, <3>2, FoldersAssumption DEF Committed
  <2>2. CASE g # f
    <3>1. status[g] = "ready_for_upload" /\ dest'[g] = dest[g] /\ chosen'[g] = chosen[g]
      BY <1>1, <2>2 DEF Committed
    <3>2. dest[g] # NoFolder /\ dest[g] = chosen[g]
      BY <1>1, <3>1 DEF CInv, SelectionMatchesButton
    <3> QED
      BY <3>1, <3>2
  <2> QED
    BY <2>1, <2>2
<1> QED
  BY <1>3, <1>4, <1>5, <1>7, <1>8 DEF CInv

LEMMA RefusedOn ==
  ASSUME CInv, NEW f \in Files, NEW i, Refused(f, i), Turn(f), status[f] # "awaiting_rename",
         data'.rename = data.rename,
         data'.id \in {data.id, NoFile}, data'.search = data.search,
         Spared({"overlap", "late", "telegram"})' =>
           /\ f \notin {data'.id, data'.search}
           /\ \A j \in {1, 2} \ {i} : chat[f][j].kind \notin LeadingKinds
  PROVE  CInv'
<1>1. /\ UNCHANGED <<status, dest, chosen, last, recent, favorites>>
      /\ Handled(f, i, {"gone"}, {"drive"})
  BY DEF Refused, rows, folders
<1>2. struck \cup {"drive"} \subseteq struck'
  BY <1>1 DEF Handled
<1>3. \A g \in Files, j \in {1, 2} :
        chat'[g][j] = chat[g][j] \/ (g = f /\ chat'[g][j].kind = "gone")
  BY <1>1, KeyboardsAfter
<1>4. Touches(f)
  BY <1>1, <1>2, <1>3 DEF Touches
<1>5. Answers(f, i, {"gone"})
  <2>1. Handled(f, i, {"gone"}, {})
    BY <1>1 DEF Handled
  <2>2. favorites' \in SUBSET Folders /\ IsFiniteSet(favorites')
    BY <1>1 DEF CInv, TInv, TypeOK
  <2>3. status' \in [Files -> Answering \cup {"ready_for_upload", "skipped"}]
    BY <1>1 DEF CInv, TInv, TypeOK
  <2> QED
    BY <1>1, <1>4, <2>1, <2>2, <2>3 DEF Answers
<1>6. GoesOn(f)
  <2>1. ASSUME Spared({"overlap", "late", "telegram"})'
        PROVE  OneWayFor(f)' /\ OneQuestion'
    <3>1. OneWayFor(f) /\ OneQuestion
      BY <1>2, <2>1, SparedBefore DEF CInv, OneWayOn
    <3>2. f \notin {data'.rename, data'.id, data'.search}
      BY <2>1, <3>1 DEF OneWayFor
    <3>3. \A j \in {1, 2} : chat'[f][j].kind \in LeadingKinds =>
            chat[f][j].kind = chat'[f][j].kind /\ chat[f][j].kind \in LeadingKinds
      BY <1>3 DEF LeadingKinds
    <3>4. OneWayFor(f)'
      BY <1>1, <3>1, <3>2, <3>3 DEF OneWayFor, Questions
    <3> QED
      BY <3>1, <3>4 DEF OneQuestion
  <2>2. ~Spared({"overlap", "late", "cancel", "crash", "drive", "telegram"})'
    BY <1>2 DEF Spared
  <2> QED
    BY <2>1, <2>2 DEF GoesOn
<1> QED
  BY <1>5, <1>6, AnswersKeep

(* A selection by a button: it names the folder that is selected.          *)
LEMMA ButtonOn ==
  ASSUME CInv, NEW f \in Files, NEW i \in {1, 2}, chat[f][i].kind \in FolderKinds \ {"cancel"},
         NEW d \in Folders, NEW label \in Folders \cup {NoFolder},
         Select(f, i, data, d, label, Tapped(f)),
         /\ status[f] = "awaiting_folder" /\ Spared({"overlap", "late"})
         /\ Spared({"telegram"}) \/ Spared({"cancel", "crash"})
         => d = label
  PROVE  CInv'
<1>1. Kept(data) /\ chat[f][i].kind \in LeadingKinds /\ status[f] # "awaiting_rename"
  BY DataKept DEF CInv, TInv, FolderKinds, LeadingKinds
<1>2. /\ struck \cup Tapped(f) \subseteq struck'
      /\ \/ \E n \in 1 .. 4 : Selected(f, d, label, n)
         \/ Refused(f, i) /\ data' = data
  BY <1>1, SelectSteps
<1>3. Turn(f)
  BY <1>2, TapInTurn
<1>4. CASE \E n \in 1 .. 4 : Selected(f, d, label, n)
  <2>1. ASSUME Spared({"overlap", "late"})', Spared({"telegram"})' \/ Spared({"cancel", "crash"})'
        PROVE  d = label
    <3>1. status[f] = "awaiting_folder"
      BY <1>1, <1>3, <2>1 DEF Turn, Answering
    <3> QED
      BY <1>2, <2>1, <3>1, SparedBefore
  <2> QED
    BY <1>1, <1>3, <1>4, <2>1, SelectedOn
<1>5. CASE Refused(f, i) /\ data' = data
  <2>1. Spared({"overlap", "late", "telegram"})' =>
          /\ f \notin {data'.id, data'.search}
          /\ \A j \in {1, 2} \ {i} : chat[f][j].kind \notin LeadingKinds
    BY <1>1, <1>2, <1>5, BeforeTap DEF Questions
  <2> QED
    BY <1>1, <1>3, <1>5, <2>1, RefusedOn
<1> QED
  BY <1>2, <1>4, <1>5

LEMMA LastTapOn ==
  ASSUME CInv, NEW f \in Files, NEW i \in {1, 2}, LastTap(f, i)
  PROVE  CInv'
<1>1. chat[f][i].kind = "entry" /\ Select(f, i, data, last, chat[f][i].last, Tapped(f))
  BY DEF LastTap, Tap
<1>2. last \in Folders /\ chat[f][i].last \in Folders \cup {NoFolder}
  BY <1>1 DEF CInv, TInv, TypeOK, Keyboards
<1>3. status[f] = "awaiting_folder" /\ Spared({"overlap", "late"}) => last = chat[f][i].last
  BY <1>1 DEF CInv, LabelsOK
<1> QED
  BY <1>1, <1>2, <1>3, ButtonOn DEF FolderKinds

LEMMA SelectTapOn ==
  ASSUME CInv, NEW f \in Files, NEW i \in {1, 2}, SelectTap(f, i)
  PROVE  CInv'
<1>1. PICK label \in chat[f][i].labels :
        IF Known(label[1])
        THEN Select(f, i, data, data.tokens[label[1]], label[2], Tapped(f))
        ELSE Expired(f, i)
  BY DEF SelectTap
<1>2. chat[f][i].kind \in {"page", "list"}
  BY DEF SelectTap, Tap
<1>3. TypeOK /\ data.tokens \in Seq(Folders) /\ label \in Nat \X Folders
  <2>1. chat[f][i] \in Keyboards
    BY DEF CInv, TInv, TypeOK
  <2> QED
    BY <2>1 DEF CInv, TInv, TypeOK, Keyboards
<1>4. CASE Known(label[1])
  <2>1. data.tokens[label[1]] \in Folders /\ label[2] \in Folders
    BY <1>3, <1>4 DEF Known
  <2>2. data.tokens # <<>>
    BY <1>3, <1>4 DEF Known
  <2>3. ASSUME status[f] = "awaiting_folder", Spared({"overlap", "late"}),
               Spared({"telegram"}) \/ Spared({"cancel", "crash"})
        PROVE  data.tokens[label[1]] = label[2]
    <3>1. Match(chat[f][i].labels, data.tokens)
      BY <2>2, <2>3 DEF CInv, LabelsOK
    <3> QED
      BY <3>1 DEF Match
  <2> QED
    BY <1>1, <1>2, <1>4, <2>1, <2>3, ButtonOn DEF FolderKinds
<1>5. CASE ~Known(label[1])
  <2>1. data' = data /\ Edit(f, i, Gone, Tapped(f)) /\ UNCHANGED <<rows, folders>>
    BY <1>1, <1>5 DEF Expired
  <2>2. Handled(f, i, {"gone"}, Tapped(f))
    BY <1>3, <2>1, DataKept, GoneKeyboard, PlainHandled
  <2>3. ~Match(chat[f][i].labels, data.tokens)
    BY <1>5 DEF Match, Known
  <2>4. Withdraws(f, i)
    BY <2>1, <2>2, <2>3 DEF Withdraws
  <2> QED
    BY <2>4, WithdrawsOn
<1> QED
  BY <1>4, <1>5

LEMMA IdTextOn ==
  ASSUME CInv, NEW f \in Files, IdText(f)
  PROVE  CInv'
<1> DEFINE faults == Tapped(f) \ {"overlap"}
<1>1. data.rename = NoFile /\ data.id = f /\ f # NoFile
  BY FilesAssumption DEF IdText
<1>2. TypeOK /\ Kept(data) /\ data \in Data /\ status[f] # "awaiting_rename"
  BY <1>1, DataKept DEF CInv, TInv, Kept
<1>3. PICK before : before = [data EXCEPT !.id = NoFile]
  OBVIOUS
<1>4. /\ Kept(before) /\ before.rename = data.rename
      /\ before.id = NoFile /\ before.search = data.search
  BY <1>2, <1>3 DEF Kept, Data
<1>5. PICK d \in Folders : Select(f, NoKeyboard, before, d, d, faults)
  BY <1>3 DEF IdText
<1> HIDE DEF faults
<1>6. /\ struck \cup faults \subseteq struck'
      /\ \/ \E n \in 1 .. 4 : Selected(f, d, d, n)
         \/ Refused(f, NoKeyboard) /\ data' = before
  BY <1>4, <1>5, SelectSteps
<1>7. ASSUME data'.rename = NoFile, status'[f] \in {status[f], "ready_for_upload"}
      PROVE  Turn(f)
  <2>1. Begun(f)' => Begun(f)
    BY <1>1, <1>7 DEF Begun
  <2> QED
    BY <1>2, <1>6, <2>1, TextInTurn DEF CInv, faults
<1>8. CASE \E n \in 1 .. 4 : Selected(f, d, d, n)
  <2>1. PICK n \in 1 .. 4 : Selected(f, d, d, n)
    BY <1>8
  <2>2. data'.rename = NoFile /\ status'[f] \in {status[f], "ready_for_upload"}
    BY <1>1, <2>1 DEF Selected, Forgotten, Committed
  <2> QED
    BY <1>2, <1>7, <2>1, <2>2, SelectedOn
<1>9. CASE Refused(f, NoKeyboard) /\ data' = before
  <2>1. data'.rename = NoFile /\ status'[f] = status[f]
    BY <1>1, <1>4, <1>9 DEF Refused, rows
  <2>2. ASSUME Spared({"overlap", "late", "telegram"})'
        PROVE  /\ f \notin {data'.id, data'.search}
               /\ \A j \in {1, 2} \ {NoKeyboard} : chat[f][j].kind \notin LeadingKinds
    <3>1. OneQuestion /\ \A j \in {1, 2} : chat[f][j].kind \notin LeadingKinds
      BY <1>1, <1>6, <2>2, BeforeText DEF Questions
    <3> QED
      BY <1>1, <1>4, <1>9, <3>1 DEF OneQuestion
  <2> QED
    BY <1>1, <1>2, <1>4, <1>7, <1>9, <2>1, <2>2, RefusedOn
<1> QED
  BY <1>6, <1>8, <1>9

-----------------------------------------------------------------------------
(* The invariant. *)

LEMMA CInvInit == Init => CInv
<1> SUFFICES ASSUME Init PROVE CInv
  OBVIOUS
<1>1. /\ status = [f \in Files |-> "awaiting_rename"]
      /\ dest = [f \in Files |-> NoFolder] /\ chosen = [f \in Files |-> NoFolder]
      /\ last \in {NoFolder, Root} /\ favorites = {} /\ struck = {}
      /\ chat = [f \in Files |-> [i \in {1, 2} |-> IF i = 1 THEN Keyboard("rename") ELSE Gone]]
  BY DEF Init
<1>2. /\ data \in Data /\ Len(data.back) <= MaxDepth /\ data.tokens = <<>> /\ data.view = NoView
      /\ data.rename = NoFile /\ data.id = NoFile /\ data.search = NoFile
  <2>1. PICK noTokens \in Seq(Folders) : noTokens = <<>>
    <3>1. <<>> \in Seq(Folders)
      OBVIOUS
    <3> QED
      BY <3>1, Zenon
  <2>2. PICK noBack \in Seq(Views) : noBack = <<>> /\ Len(noBack) = 0
    <3>1. <<>> \in Seq(Views) /\ Len(<<>>) = 0
      OBVIOUS
    <3> QED
      BY <3>1, Zenon
  <2>3. data = [rename |-> NoFile, id |-> NoFile, search |-> NoFile, view |-> NoView,
                back |-> noBack, tokens |-> noTokens, drives |-> FALSE]
    BY <2>1, <2>2 DEF Init, NoData
  <2> QED
    BY <2>1, <2>2, <2>3, BoundsAssumption DEF Data
<1>3. recent \in Seq(Folders) /\ Len(recent) <= RecentLimit
  <2>1. CASE last = NoFolder
    <3>1. recent = <<>>
      BY <2>1 DEF Init
    <3> QED
      BY <3>1, BoundsAssumption
  <2>2. CASE last # NoFolder
    <3>1. recent = <<Root>>
      BY <1>1, <2>2 DEF Init
    <3> QED
      BY <3>1, FoldersAssumption, BoundsAssumption
  <2> QED
    BY <2>1, <2>2
<1>4. \A f \in Files : /\ chat[f][1] = Keyboard("rename")
                       /\ chat[f][2] = Gone /\ status[f] = "awaiting_rename"
  BY <1>1
<1>5. /\ Keyboard("rename") \in Keyboards /\ Keyboard("rename").kind = "rename"
      /\ Keyboard("rename").labels = {}
  BY PlainKeyboard DEF Kinds
<1>6. chat \in Chats
  BY <1>1, <1>5, GoneKeyboard DEF Chats
<1>7. \A f \in Files, i \in {1, 2} :
        chat[f][i].labels = {} /\ chat[f][i].kind \in {"rename", "gone"}
  BY <1>4, <1>5, GoneKeyboard
<1>8. TypeOK
  <2>1. status \in [Files -> Answering \cup {"ready_for_upload", "skipped"}]
    BY <1>1 DEF Answering
  <2> QED
    BY <1>1, <1>2, <1>3, <1>6, <2>1, FoldersAssumption DEF TypeOK, Data, Chats
<1>9. TInv
  <2>1. IsFiniteSet(favorites)
    BY <1>1, FS_EmptySet
  <2> QED
    BY <1>2, <1>7, <1>8, <2>1, FilesAssumption DEF TInv, FolderKinds
<1>10. \A f \in Files : ~Begun(f)
  BY <1>2, <1>4, FilesAssumption DEF Begun
<1>11. OneAtATime /\ LabelsOK /\ SelectionMatchesButton
  BY <1>4, <1>10 DEF OneAtATime, LabelsOK, SelectionMatchesButton
<1>12. OneWayOn
  BY <1>2, <1>4, <1>5, GoneKeyboard, FilesAssumption
    DEF OneWayOn, OneWayFor, OneQuestion, Questions, LeadingKinds
<1>13. AwaitingIsAnswerable
  BY <1>4, <1>5 DEF AwaitingIsAnswerable, Answerable
<1> QED
  BY <1>9, <1>11, <1>12, <1>13 DEF CInv

LEMMA CInvStep == CInv /\ [Next]_vars => CInv'
<1> SUFFICES ASSUME CInv, [Next]_vars PROVE CInv'
  OBVIOUS
<1>1. CASE UNCHANGED vars
  <2>1. UNCHANGED <<status, dest, chosen, last, recent, favorites, data, chat, struck>>
    BY <1>1 DEF vars, rows, folders
  <2> QED
    BY <2>1 DEF CInv, TInv, TypeOK, OneAtATime, Begun, LabelsOK, OneWayOn, OneWayFor, OneQuestion,
      Questions, SelectionMatchesButton, AwaitingIsAnswerable, Answerable, Spared
<1>2. ASSUME NEW f \in Files, NEW i \in {1, 2}, Rename(f, i) PROVE CInv'
  BY <1>2, KeepOn, AsideOn DEF Rename
<1>3. ASSUME NEW f \in Files, NEW i \in {1, 2}, Folder(f, i) PROVE CInv'
  <2>1. TInv
    BY DEF CInv
  <2>2. CASE CancelTap(f, i)
    BY <2>2, CancelTapSteps, CancelsOn
  <2>3. CASE LastTap(f, i)
    BY <2>3, LastTapOn
  <2>4. CASE SelectTap(f, i)
    BY <2>4, SelectTapOn
  <2>5. CASE SearchTap(f, i) \/ IdTap(f, i)
    BY <2>1, <2>5, AskTapSteps, AsksOn
  <2>6. CASE \/ AnotherTap(f, i) \/ BrowseTap(f, i) \/ ListTap(f, i) \/ BackTap(f, i)
             \/ RefreshTap(f, i) \/ NextTap(f, i) \/ FavoriteTap(f, i)
    <3>1. Browses(f, i)
      BY <2>1, <2>6, AnotherTapSteps, BrowseTapSteps, ListTapSteps, BackTapSteps,
         TurnPageSteps, FavoriteTapSteps
    <3> QED
      BY <3>1, BrowsesOn
  <2>7. CASE RootTap(f, i) \/ DriveTap(f, i) \/ OpenTap(f, i)
    <3>1. Browses(f, i) \/ Withdraws(f, i)
      BY <2>1, <2>7, RootsTapSteps, OpenTapSteps
    <3> QED
      BY <3>1, BrowsesOn, WithdrawsOn
  <2> QED
    BY <1>3, <2>2, <2>3, <2>4, <2>5, <2>6, <2>7 DEF Folder
<1>4. ASSUME NEW f \in Files, Text(f) PROVE CInv'
  BY <1>4, NameTextOn, IdTextOn, SearchTextOn DEF Text
<1>5. CASE CancelCommand \/ Crash
  BY <1>5, LossSteps, CancelsOn
<1> QED
  BY <1>1, <1>2, <1>3, <1>4, <1>5 DEF Next

(* The parts of the invariant hold in every state: besides what is checked *)
(* they say that one file is answered at a time, that the keyboards agree  *)
(* with the tokens in memory, and that a file has one way to go on.        *)
THEOREM ConversationInvariance == Spec => []CInv
<1>1. Init => CInv
  BY CInvInit
<1>2. CInv /\ [Next]_vars => CInv'
  BY CInvStep
<1> QED
  BY <1>1, <1>2, PTL DEF Spec

(* Every variable keeps to its values, the recent folders to their limit.  *)
THEOREM TypeCorrect == Spec => []TypeOK
<1>1. CInv => TypeOK
  BY DEF CInv, TInv
<1> QED
  BY <1>1, ConversationInvariance, PTL

(* A file is uploaded to the folder named on the button, whatever Drive    *)
(* does, wherever the process dies among the commits and however often.    *)
THEOREM ButtonsSelectTheirFolder == Spec => []SelectionMatchesButton
<1>1. CInv => SelectionMatchesButton
  BY DEF CInv
<1> QED
  BY <1>1, ConversationInvariance, PTL

(* No sequence of taps and texts leaves a file without a way to go on.     *)
THEOREM NoDeadEnds == Spec => []AwaitingIsAnswerable
<1>1. CInv => AwaitingIsAnswerable
  BY DEF CInv
<1> QED
  BY <1>1, ConversationInvariance, PTL

(* The next text is taken for the answer to the question that was asked.   *)
THEOREM TextsReachTheirQuestions == Spec => []TextReachesItsQuestion
<1>1. ASSUME CInv PROVE TextReachesItsQuestion
  <2> SUFFICES ASSUME Spared({"overlap", "late", "telegram"})
               PROVE  /\ \A f \in Files :
                           /\ data.rename = f => status[f] = "awaiting_rename"
                           /\ f \in {data.id, data.search} =>
                                status[f] = "awaiting_folder" /\ \E i \in {1, 2} : chat[f][i].kind = "cancel"
                      /\ Cardinality({q \in {"rename", "id", "search"} : data[q] # NoFile}) <= 1
    BY DEF TextReachesItsQuestion
  <2>1. (\A f \in Files : OneWayFor(f)) /\ OneQuestion
    BY <1>1 DEF CInv, OneWayOn
  <2> DEFINE asked == {q \in {"rename", "id", "search"} : data[q] # NoFile}
  <2>2. PICK q : asked \subseteq {q}
    <3>1. /\ "rename" \in asked => data.rename # NoFile
          /\ "id" \in asked => data.id # NoFile
          /\ "search" \in asked => data.search # NoFile
      OBVIOUS
    <3>2. asked \subseteq {"rename"} \/ asked \subseteq {"id"} \/ asked \subseteq {"search"}
      BY <2>1, <3>1 DEF OneQuestion
    <3> QED
      BY <3>2
  <2> HIDE DEF asked
  <2>3. Cardinality(asked) <= 1
    <3>1. IsFiniteSet({q}) /\ Cardinality({q}) = 1
      BY FS_Singleton
    <3> QED
      BY <2>2, <3>1, FS_Subset, FS_CardinalityType
  <2> QED
    BY <2>1, <2>3 DEF asked, OneWayFor
<1> QED
  BY <1>1, ConversationInvariance, PTL
=============================================================================
