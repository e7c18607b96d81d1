---------------------------- MODULE CompanyProofs ---------------------------
(***************************************************************************)
(* A company on its device: the open books and how they are stored         *)
(* (BooksProvider), and what they say of the people hired and offered to   *)
(* (Hiring).                                                               *)
(***************************************************************************)
EXTENDS BooksProvider, Hiring, TLAPS

-----------------------------------------------------------------------------
(***************************************************************************)
(* What holds in calm use of any number of tabs, accounts and edits: what  *)
(* an update was answered stays true of the stored record, no record holds *)
(* another account's edits, a backup has everything saved by then, and     *)
(* only an update still being stored brings books back after a log-out.    *)
(*                                                                         *)
(* The argument is about who may write a record.  In calm use an account   *)
(* is claimed by one tab at a time - by its session, by a login that read  *)
(* its record, or by an update of it still being stored - so that what a   *)
(* tab read is what is stored until the tab itself stores more.  An open   *)
(* tab's books are then the stored ones, and an update stores them with    *)
(* one edit added.                                                         *)
(***************************************************************************)

\* The tab has the account's record, or is about to write it.
Claims(t, a) ==
  \/ session[t] = a
  \/ found[t][a] # Nothing
  \/ running[t] # Nothing /\ running[t].acct = a

Stored(a) == IF store[a] = Nothing THEN {} ELSE store[a]

\* An account is claimed by one tab.
Apart ==
  \A t, u \in Tab, a \in Account : Claims(t, a) /\ Claims(u, a) => t = u

\* A login is under way only where nothing is open and nothing is stored.
LoginsAreClosed ==
  \A t \in Tab :
    /\ login[t] # "none" => session[t] = Nothing /\ waiting[t] = <<>> /\ running[t] = Nothing
    /\ login[t] = "none" => found[t] = NoneFound

\* The copy a login read is the record; a new account has none yet.
FoundIsStored ==
  \A t \in Tab, a \in Account : found[t][a] # Nothing =>
    /\ found[t][a] = Stored(a)
    /\ store[a] = Nothing <=> login[t] = "creating"

\* Open books are the stored ones until an update has stored more; the session's own
\* record has all of them, and may be ahead.
OpenIsStored ==
  \A t \in Tab : IsOpen(t) =>
    /\ store[session[t]] # Nothing /\ sealed[t] # Nothing
    /\ store[session[t]] \subseteq sealed[t]
    /\ (running[t] = Nothing \/ ~running[t].saved) => company[t] = store[session[t]]

\* An update adds its edit to the record, and is the record when it is saved.
Adds(t) ==
  LET a == running[t].acct
      e == running[t].edit
  IN  /\ store[a] # Nothing /\ madeIn[e] = a /\ told[e] = "none"
      /\ IsOpen(t) => session[t] = a /\ sealed[t] = running[t].next
      /\ IF running[t].saved THEN e \in store[a] /\ store[a] = running[t].next
         ELSE e \notin store[a] /\ running[t].next = store[a] \cup {e}

RunningAdds == \A t \in Tab : running[t] # Nothing => Adds(t)

\* No record and no update has it.
Unwritten(e) ==
  /\ \A a \in Account : /\ store[a] # Nothing => e \notin store[a]
                        /\ backup[a] # Nothing => e \notin backup[a]
  /\ \A t \in Tab : /\ sealed[t] # Nothing => e \notin sealed[t]
                    /\ running[t] # Nothing => e # running[t].edit

\* It waits for books that are its own when they are open, unanswered.
Waits(t, e) ==
  /\ Unwritten(e) /\ told[e] = "none"
  /\ madeIn[e] \in Account /\ (IsOpen(t) => madeIn[e] = session[t])

\* A waiting edit waits in one place.
WaitingIsNew ==
  \A t \in Tab : \A i \in DOMAIN waiting[t] :
    /\ Waits(t, waiting[t][i])
    /\ \A u \in Tab : \A j \in DOMAIN waiting[u] :
         waiting[u][j] = waiting[t][i] => u = t /\ j = i

AskedIsAnswered == \A e \in Edit : told[e] # "none" => madeIn[e] \in Account

\* OwnBooksOnly, of backups and of the session's own record, too.
OwnRecords ==
  /\ OwnBooksOnly
  /\ \A a \in Account : backup[a] # Nothing => \A e \in backup[a] : madeIn[e] = a
  /\ \A t \in Tab : IsOpen(t) => \A e \in sealed[t] : madeIn[e] = session[t]

SealedIsOpen == \A t \in Tab : sealed[t] # Nothing => IsOpen(t)

CalmInv ==
  /\ TypeOK /\ Apart /\ LoginsAreClosed /\ FoundIsStored /\ OpenIsStored
  /\ RunningAdds /\ WaitingIsNew /\ AskedIsAnswered /\ OwnRecords /\ SealedIsOpen /\ AnswersHold

-----------------------------------------------------------------------------
LEMMA NoneFoundType ==
  NoneFound \in [Account -> Maybe(Contents)] /\ \A a \in Account : NoneFound[a] = Nothing
BY DEF NoneFound, Maybe

LEMMA OnlyType ==
  ASSUME NEW a \in Account, NEW c \in Contents
  PROVE  /\ Only(a, c) \in [Account -> Maybe(Contents)]
         /\ \A b \in Account : Only(a, c)[b] = IF b = a THEN c ELSE Nothing
BY DEF Only, NoneFound, Maybe

\* What the two operators the queue is built from return.
LEMMA AppendAt ==
  ASSUME NEW S, NEW s \in Seq(S), NEW x \in S
  PROVE  \A j \in DOMAIN Append(s, x) : \/ j \in DOMAIN s /\ Append(s, x)[j] = s[j]
                                        \/ j = Len(s) + 1 /\ Append(s, x)[j] = x
OBVIOUS

LEMMA TailAt ==
  ASSUME NEW S, NEW s \in Seq(S), s # <<>>
  PROVE  /\ Tail(s) \in Seq(S) /\ 1 \in DOMAIN s /\ Head(s) = s[1] /\ Head(s) \in S
         /\ \A i \in DOMAIN Tail(s) : /\ i \in Nat \ {0} /\ i + 1 \in DOMAIN s
                                      /\ Tail(s)[i] = s[i + 1]
OBVIOUS

LEMMA ContentsAreNotNothing == \A c \in Contents : c # Nothing
BY NothingAssumption

LEMMA InitCalm == Init => CalmInv
<1>. SUFFICES ASSUME Init PROVE CalmInv
  OBVIOUS
<1>. USE DEF Init
<1>1. TypeOK
  BY NoneFoundType DEF TypeOK, Maybe, LoginSteps, Answers
<1>2. Apart
  BY NoneFoundType, NothingAssumption DEF Apart, Claims
<1>3. LoginsAreClosed
  BY DEF LoginsAreClosed
<1>4. FoundIsStored
  BY NoneFoundType DEF FoundIsStored
<1>5. OpenIsStored /\ SealedIsOpen
  BY DEF OpenIsStored, IsOpen, SealedIsOpen
<1>6. RunningAdds
  BY DEF RunningAdds
<1>7. WaitingIsNew
  BY DEF WaitingIsNew, Waits
<1>8. AskedIsAnswered /\ AnswersHold
  BY DEF AskedIsAnswered, AnswersHold
<1>9. OwnRecords
  BY NoneFoundType DEF OwnRecords, OwnBooksOnly, IsOpen
<1>. QED  BY <1>1, <1>2, <1>3, <1>4, <1>5, <1>6, <1>7, <1>8, <1>9 DEF CalmInv

\* The invariant, part by part, for the lemmas below.
LEMMA CalmParts ==
  CalmInv => /\ TypeOK /\ Apart /\ LoginsAreClosed /\ FoundIsStored /\ OpenIsStored
             /\ RunningAdds /\ WaitingIsNew /\ AskedIsAnswered /\ OwnRecords /\ SealedIsOpen
             /\ AnswersHold
BY DEF CalmInv

\* A tab that may claim an account is the only one to.
LEMMA FreeIsUnclaimed ==
  ASSUME NEW t \in Tab, NEW accounts, FreeFor(t, accounts)
  PROVE  \A u \in Tab \ {t}, a \in accounts \cap Account : ~Claims(u, a)
BY DEF FreeFor, Uses, Found, Claims

\* Steps of the front page: nothing but logins and dialogs changes.
LEMMA FrontKeeps ==
  ASSUME CalmInv, UNCHANGED <<deviceVars, openVars, queueVars, editVars>>,
         TypeOK', Apart', LoginsAreClosed', FoundIsStored'
  PROVE  CalmInv'
<1>. USE DEF deviceVars, openVars, queueVars, editVars
<1>1. OpenIsStored' /\ SealedIsOpen' /\ RunningAdds'
  BY CalmParts DEF OpenIsStored, IsOpen, SealedIsOpen, RunningAdds, Adds
<1>2. WaitingIsNew'
  BY CalmParts DEF WaitingIsNew, Waits, Unwritten, IsOpen
<1>3. AskedIsAnswered' /\ AnswersHold' /\ OwnRecords'
  BY CalmParts DEF AskedIsAnswered, AnswersHold, OwnRecords, OwnBooksOnly, IsOpen
<1>. QED  BY <1>1, <1>2, <1>3 DEF CalmInv

LEMMA DialogKeeps ==
  ASSUME CalmInv, NEW t \in Tab,
         OpenDialog(t) \/ (login[t] # "finding" /\ CloseDialog(t)) \/ NoMatch(t) \/ Offer(t)
  PROVE  CalmInv'
<1>. USE DEF deviceVars, openVars, queueVars, editVars
<1>. USE DEF OpenDialog, CloseDialog, NoMatch, Offer
<1>1. UNCHANGED <<deviceVars, openVars, queueVars, editVars>>
  OBVIOUS
<1>2. TypeOK'
  <2>1. /\ login' \in [Tab -> LoginSteps] /\ dialog' \in [Tab -> BOOLEAN]
        /\ found' \in [Tab -> [Account -> Maybe(Contents)]]
    <3>1. CASE OpenDialog(t)
      BY <3>1, CalmParts DEF TypeOK
    <3>2. CASE CloseDialog(t)
      BY <3>2, CalmParts, NoneFoundType DEF TypeOK, LoginSteps
    <3>3. CASE NoMatch(t)
      BY <3>3, CalmParts DEF TypeOK, LoginSteps
    <3>4. CASE Offer(t)
      BY <3>4, CalmParts DEF TypeOK, LoginSteps
    <3>. QED  BY <3>1, <3>2, <3>3, <3>4
  <2>. QED  BY <2>1, CalmParts DEF TypeOK
<1>3. \A u \in Tab, a \in Account : found'[u][a] # Nothing => found'[u] = found[u]
  BY CalmParts, NoneFoundType DEF TypeOK
<1>4. Apart'
  BY <1>1, <1>3, CalmParts DEF Apart, Claims
<1>5. LoginsAreClosed'
  <2>1. NoMatch(t) => found[t] = NoneFound
    BY CalmParts DEF NoMatch, Found, TypeOK, NoneFound
  <2>. QED  BY <2>1, CalmParts DEF LoginsAreClosed, TypeOK, AtFrontPage, IsOpen
<1>6. FoundIsStored'
  BY <1>3, CalmParts, NoneFoundType DEF FoundIsStored, Stored, TypeOK, Found, AtFrontPage
<1>. QED  BY <1>1, <1>2, <1>4, <1>5, <1>6, FrontKeeps

\* A login starts: the tab claims accounts no other tab does.
LEMMA StartKeeps ==
  ASSUME CalmInv, NEW t \in Tab, AtFrontPage(t), running[t] = Nothing,
         NEW step \in LoginSteps \ {"none"}, NEW copies \in [Account -> Maybe(Contents)],
         login' = [login EXCEPT ![t] = step], found' = [found EXCEPT ![t] = copies],
         UNCHANGED <<deviceVars, openVars, dialog, queueVars, editVars>>,
         \A a \in Account : copies[a] # Nothing =>
           /\ copies[a] = Stored(a) /\ (store[a] = Nothing <=> step = "creating")
           /\ \A u \in Tab \ {t} : ~Claims(u, a)
  PROVE  CalmInv'
<1>. USE DEF deviceVars, openVars, queueVars, editVars
<1>1. TypeOK'
  BY CalmParts DEF TypeOK
<1>3. Apart'
  BY CalmParts DEF Apart, Claims, TypeOK, AtFrontPage, IsOpen
<1>4. LoginsAreClosed'
  BY CalmParts DEF LoginsAreClosed, TypeOK, AtFrontPage, IsOpen, NoJobReady
<1>5. FoundIsStored'
  BY CalmParts DEF FoundIsStored, Stored, TypeOK
<1>. QED  BY <1>1, <1>3, <1>4, <1>5, FrontKeeps

LEMMA CreateChecksKeeps ==
  ASSUME CalmInv, NEW t \in Tab, NEW a \in Account, FreeFor(t, {a}), running[t] = Nothing,
         CreateChecks(t, a)
  PROVE  CalmInv'
<1>. DEFINE copies == Only(a, {})
<1>1. /\ copies \in [Account -> Maybe(Contents)]
      /\ \A b \in Account : copies[b] = IF b = a THEN {} ELSE Nothing
  <2>. {} \in Contents
    BY DEF Contents
  <2>. QED  BY OnlyType
<1>2. \A b \in Account : copies[b] # Nothing =>
        /\ copies[b] = Stored(b) /\ store[b] = Nothing
        /\ \A u \in Tab \ {t} : ~Claims(u, b)
  BY <1>1, FreeIsUnclaimed DEF CreateChecks, Stored
<1>. HIDE DEF copies
<1>3. /\ login' = [login EXCEPT ![t] = "creating"] /\ found' = [found EXCEPT ![t] = copies]
      /\ UNCHANGED <<deviceVars, openVars, dialog, queueVars, editVars>> /\ AtFrontPage(t)
  BY DEF CreateChecks, copies
<1>. QED  BY <1>1, <1>2, <1>3, StartKeeps DEF LoginSteps

LEMMA UnlockKeeps ==
  ASSUME CalmInv, NEW t \in Tab, NEW accounts, accounts \subseteq Account, FreeFor(t, accounts),
         running[t] = Nothing, Unlock(t, accounts)
  PROVE  CalmInv'
<1>. DEFINE copies == [a \in Account |-> IF a \in accounts THEN store[a] ELSE Nothing]
<1>1. copies \in [Account -> Maybe(Contents)]
  BY CalmParts DEF TypeOK, Maybe
<1>2. PICK step \in LoginSteps \ {"none"} : step = "finding"
  BY DEF LoginSteps
<1>3. \A b \in Account : copies[b] # Nothing =>
        /\ copies[b] = Stored(b) /\ (store[b] = Nothing <=> step = "creating")
        /\ \A u \in Tab \ {t} : ~Claims(u, b)
  BY <1>2, FreeIsUnclaimed DEF Unlock, Stored
<1>. HIDE DEF copies
<1>4. /\ login' = [login EXCEPT ![t] = step] /\ found' = [found EXCEPT ![t] = copies]
      /\ UNCHANGED <<deviceVars, openVars, dialog, queueVars, editVars>> /\ AtFrontPage(t)
  BY <1>2 DEF Unlock, copies
<1>. QED  BY <1>1, <1>3, <1>4, StartKeeps

\* A login ends: the copy it read is opened, stored first if the account is new.
LEMMA OpeningKeeps ==
  ASSUME CalmInv, NEW t \in Tab, NEW a \in Account, found[t][a] # Nothing, login[t] # "none",
         Show(t, a, found[t][a]), kept' \in Maybe(Account),
         store' \in [Account -> Maybe(Contents)],
         store'[a] = Stored(a), \A b \in Account \ {a} : store'[b] = store[b],
         UNCHANGED <<backup, queueVars, editVars>>
  PROVE  CalmInv'
<1>. USE DEF queueVars, editVars, Show
<1>1. /\ session[t] = Nothing /\ waiting[t] = <<>> /\ running[t] = Nothing
      /\ found[t][a] = store'[a] /\ store'[a] # Nothing /\ a # Nothing
      /\ store[a] # Nothing => store'[a] = store[a]
      /\ store[a] = Nothing => store'[a] = {}
  BY CalmParts, NothingAssumption DEF LoginsAreClosed, FoundIsStored, Stored
<1>2. /\ session'[t] = a /\ sealed'[t] = store'[a] /\ company'[t] = store'[a]
      /\ login'[t] = "none" /\ found'[t] = NoneFound
      /\ \A u \in Tab \ {t} : /\ session'[u] = session[u] /\ sealed'[u] = sealed[u]
                              /\ company'[u] = company[u] /\ login'[u] = login[u]
                              /\ found'[u] = found[u]
  BY <1>1, CalmParts DEF TypeOK
<1>3. \A u \in Tab \ {t} : ~Claims(u, a)
  BY CalmParts DEF Apart, Claims
<1>a. \A u \in Tab \ {t} : /\ session[u] # Nothing => session[u] \in Account \ {a}
                           /\ running[u] # Nothing => running[u].acct \in Account \ {a}
  BY <1>3, CalmParts DEF Claims, TypeOK, Job, Maybe
<1>4. TypeOK'
  BY <1>1, CalmParts, NoneFoundType DEF TypeOK, Maybe, LoginSteps
<1>. HIDE DEF Show
<1>5. Apart'
  BY <1>1, <1>2, <1>3, CalmParts, NoneFoundType DEF Apart, Claims
<1>6. LoginsAreClosed'
  BY <1>1, <1>2, CalmParts DEF LoginsAreClosed
<1>7. FoundIsStored'
  BY <1>1, <1>2, <1>3, CalmParts, NoneFoundType DEF FoundIsStored, Stored, Claims
<1>8. OpenIsStored' /\ SealedIsOpen'
  BY <1>1, <1>2, <1>a, CalmParts DEF OpenIsStored, IsOpen, SealedIsOpen
<1>9. RunningAdds'
  BY <1>1, <1>2, <1>a, CalmParts DEF RunningAdds, Adds, IsOpen
<1>10. WaitingIsNew'
  BY <1>1, <1>2, <1>3, CalmParts DEF WaitingIsNew, Waits, Unwritten, IsOpen
<1>11. AskedIsAnswered' /\ AnswersHold'
  BY <1>1, <1>2, CalmParts DEF AskedIsAnswered, AnswersHold
<1>12. OwnRecords'
  BY <1>1, <1>2, CalmParts DEF OwnRecords, OwnBooksOnly, IsOpen
<1>. QED  BY <1>4, <1>5, <1>6, <1>7, <1>8, <1>9, <1>10, <1>11, <1>12 DEF CalmInv

LEMMA OpeningsKeep ==
  ASSUME CalmInv, NEW t \in Tab, NEW a \in Account,
         CreateSaves(t, a) \/ OpenFound(t, a) \/ Resume(t, a)
  PROVE  CalmInv'
<1>1. CASE CreateSaves(t, a)
  <2>1. store[a] = Nothing /\ found[t][a] = {} /\ found[t][a] # Nothing
    BY <1>1, CalmParts DEF CreateSaves, FoundIsStored, Stored
  <2>2. store' \in [Account -> Maybe(Contents)] /\ store'[a] = Stored(a)
        /\ \A b \in Account \ {a} : store'[b] = store[b]
    <3>1. {} \in Maybe(Contents)
      BY DEF Maybe, Contents
    <3>2. store' = [store EXCEPT ![a] = {}] /\ store \in [Account -> Maybe(Contents)]
      BY <1>1, CalmParts DEF CreateSaves, TypeOK
    <3>. QED  BY <2>1, <3>1, <3>2 DEF Stored
  <2>3. kept' \in Maybe(Account)
    BY <1>1, CalmParts DEF CreateSaves, Open, TypeOK, Maybe
  <2>. QED  BY <1>1, <2>1, <2>2, <2>3, OpeningKeeps DEF CreateSaves, Open
<1>2. CASE OpenFound(t, a) \/ Resume(t, a)
  <2>1. found[t][a] # Nothing /\ login[t] \notin {"none", "creating"}
    BY <1>2 DEF OpenFound, Resume, Found
  <2>2. store' = store /\ store[a] = Stored(a)
    BY <1>2, <2>1, CalmParts DEF OpenFound, Resume, FoundIsStored, Stored, deviceVars
  <2>3. kept' \in Maybe(Account)
    BY <1>2, CalmParts DEF OpenFound, Open, Resume, deviceVars, TypeOK, Maybe
  <2>. QED  BY <1>2, <2>1, <2>2, <2>3, CalmParts, OpeningKeeps
            DEF OpenFound, Open, Resume, deviceVars, TypeOK
<1>. QED  BY <1>1, <1>2

LEMMA SaveKeeps ==
  ASSUME CalmInv, NEW t \in Tab, Save(t)
  PROVE  CalmInv'
<1>. USE DEF Save, Saving, deviceVars, openVars, frontVars, queueVars, editVars
<1>. DEFINE a == running[t].acct
<1>a. a \in Account /\ running[t] \in Job /\ running[t] # Nothing /\ running[t].next \in Contents
  BY CalmParts DEF TypeOK, Job, Maybe
<1>b. /\ running'[t] \in Job /\ running'[t] # Nothing /\ running'[t].saved
      /\ running'[t].acct = running[t].acct /\ running'[t].edit = running[t].edit
      /\ running'[t].next = running[t].next
      /\ \A u \in Tab \ {t} : running'[u] = running[u]
  BY CalmParts, <1>a, NothingAssumption DEF TypeOK, Job
<1>c. /\ store'[a] = running[t].next /\ \A b \in Account \ {a} : store'[b] = store[b]
      /\ store'[a] # Nothing /\ store[a] # Nothing
      /\ running[t].next = store[a] \cup {running[t].edit}
  BY CalmParts, <1>a, ContentsAreNotNothing DEF TypeOK, RunningAdds, Adds
<1>d. \A u \in Tab : \/ session[u] = a \/ found[u][a] # Nothing
                     \/ running[u] # Nothing /\ running[u].acct = a
                     => u = t
  BY CalmParts, <1>a DEF Apart, Claims
<1>1. TypeOK'
  BY CalmParts, <1>a, <1>b, <1>c DEF TypeOK, Maybe
<1>2. Apart'
  BY CalmParts, <1>a, <1>b DEF Apart, Claims, Job
<1>3. LoginsAreClosed'
  BY CalmParts, <1>a, <1>b DEF LoginsAreClosed
<1>4. FoundIsStored'
  BY CalmParts, <1>a, <1>b, <1>c, <1>d, NoneFoundType DEF FoundIsStored, Stored, LoginsAreClosed
<1>5. OpenIsStored' /\ SealedIsOpen'
  BY CalmParts, <1>a, <1>b, <1>c, <1>d
  DEF OpenIsStored, IsOpen, SealedIsOpen, RunningAdds, Adds, TypeOK, Maybe
<1>6. RunningAdds'
  <2>. SUFFICES ASSUME NEW u \in Tab, running'[u] # Nothing
                PROVE  Adds(u)'
    BY DEF RunningAdds
  <2>1. CASE u = t
    <3>1. Adds(t) /\ ~running[t].saved
      BY CalmParts, <1>a DEF RunningAdds
    <3>2. /\ running[t].edit \in store'[a] /\ store'[a] = running[t].next /\ store'[a] # Nothing
          /\ madeIn[running[t].edit] = a /\ told[running[t].edit] = "none"
          /\ session[t] # Nothing => session[t] = a /\ sealed[t] = running[t].next
      BY <3>1, <1>c DEF Adds, IsOpen
    <3>3. UNCHANGED <<session, sealed, madeIn, told>>
      OBVIOUS
    <3>. HIDE DEF Save
    <3>. QED  BY <1>b, <2>1, <3>2, <3>3 DEF Adds, IsOpen
  <2>2. CASE u # t
    <3>1. running'[u] = running[u] /\ running[u] # Nothing /\ running[u].acct \in Account \ {a}
      BY CalmParts, <1>b, <1>d, <2>2 DEF TypeOK, Job, Maybe
    <3>. QED  BY CalmParts, <1>c, <3>1 DEF RunningAdds, Adds, IsOpen
  <2>. QED  BY <2>1, <2>2
<1>7. WaitingIsNew'
  BY CalmParts, <1>a, <1>b, <1>c, <1>d DEF WaitingIsNew, Waits, Unwritten, IsOpen, Job
<1>8. AskedIsAnswered' /\ AnswersHold'
  BY CalmParts, <1>a, <1>c, <1>b DEF AskedIsAnswered, AnswersHold, RunningAdds, Adds
<1>9. OwnRecords'
  BY CalmParts, <1>a, <1>b, <1>c DEF OwnRecords, OwnBooksOnly, IsOpen, RunningAdds, Adds
<1>. QED  BY <1>1, <1>2, <1>3, <1>4, <1>5, <1>6, <1>7, <1>8, <1>9 DEF CalmInv

LEMMA SaveFailsKeeps ==
  ASSUME CalmInv, NEW t \in Tab, SaveFails(t)
  PROVE  CalmInv'
<1>. USE DEF deviceVars, openVars, frontVars
<1>. DEFINE e == running[t].edit
            a == running[t].acct
<1>1. /\ running[t] # Nothing /\ ~running[t].saved /\ running[t] \in Job
      /\ a \in Account /\ e \in Edit /\ Adds(t)
  BY CalmParts DEF SaveFails, Saving, TypeOK, Job, Maybe, RunningAdds
<1>2. /\ running'[t] = Nothing /\ \A u \in Tab \ {t} : running'[u] = running[u]
      /\ told'[e] = "failed" /\ \A d \in Edit \ {e} : told'[d] = told[d]
      /\ UNCHANGED <<store, kept, backup, session, sealed, company, login, dialog, found,
                     waiting, madeIn>>
  BY <1>1, CalmParts DEF SaveFails, TypeOK
<1>3. TypeOK'
  BY <1>1, CalmParts DEF SaveFails, TypeOK, Maybe, Answers
<1>. HIDE DEF e, a
<1>4. Apart' /\ LoginsAreClosed' /\ FoundIsStored' /\ SealedIsOpen'
  BY <1>2, CalmParts
  DEF Apart, Claims, LoginsAreClosed, FoundIsStored, Stored, SealedIsOpen, IsOpen
<1>5. OpenIsStored'
  BY <1>1, <1>2, CalmParts DEF OpenIsStored, IsOpen
<1>6. RunningAdds'
  <2>. SUFFICES ASSUME NEW u \in Tab \ {t}, running[u] # Nothing
                PROVE  Adds(u)'
    BY <1>2 DEF RunningAdds
  <2>1. /\ Adds(u) /\ running[u].edit \in Edit /\ running[u].acct \in Account
    BY CalmParts DEF RunningAdds, TypeOK, Job, Maybe
  <2>2. running[u].edit # e
    BY <1>1, <2>1, CalmParts DEF Adds, Apart, Claims, e, a
  <2>. QED  BY <1>2, <2>1, <2>2 DEF Adds, IsOpen
<1>7. WaitingIsNew'
  <2>1. \A u \in Tab : \A i \in DOMAIN waiting[u] : waiting[u][i] \in Edit \ {e}
    BY <1>1, CalmParts DEF WaitingIsNew, Waits, Unwritten, TypeOK, e
  <2>. QED  BY <1>2, <2>1, CalmParts DEF WaitingIsNew, Waits, Unwritten, IsOpen
<1>8. AskedIsAnswered' /\ AnswersHold'
  BY <1>1, <1>2, CalmParts DEF AskedIsAnswered, AnswersHold, Adds, e, a
<1>9. OwnRecords'
  BY <1>2, CalmParts DEF OwnRecords, OwnBooksOnly, IsOpen
<1>. QED  BY <1>3, <1>4, <1>5, <1>6, <1>7, <1>8, <1>9 DEF CalmInv

LEMMA FinishKeeps ==
  ASSUME CalmInv, NEW t \in Tab, Finish(t)
  PROVE  CalmInv'
<1>. USE DEF deviceVars, frontVars
<1>. DEFINE e == running[t].edit
            a == running[t].acct
<1>1. /\ running[t] # Nothing /\ running[t].saved /\ running[t] \in Job
      /\ a \in Account /\ e \in Edit /\ Adds(t)
  BY CalmParts DEF Finish, TypeOK, Job, Maybe, RunningAdds
<1>2. /\ running'[t] = Nothing /\ \A u \in Tab \ {t} : running'[u] = running[u]
      /\ told'[e] = "saved" /\ \A d \in Edit \ {e} : told'[d] = told[d]
      /\ company'[t] = running[t].next /\ \A u \in Tab \ {t} : company'[u] = company[u]
      /\ UNCHANGED <<store, kept, backup, session, sealed, login, dialog, found, waiting, madeIn>>
  BY <1>1, CalmParts DEF Finish, TypeOK
<1>3. TypeOK'
  BY <1>1, CalmParts DEF Finish, TypeOK, Maybe, Answers, Job
<1>4. Apart' /\ LoginsAreClosed' /\ FoundIsStored' /\ SealedIsOpen'
  BY <1>2, CalmParts
  DEF Apart, Claims, LoginsAreClosed, FoundIsStored, Stored, SealedIsOpen, IsOpen
<1>5. OpenIsStored'
  BY <1>1, <1>2, CalmParts DEF OpenIsStored, IsOpen, Adds
<1>. HIDE DEF e, a
<1>6. RunningAdds'
  <2>. SUFFICES ASSUME NEW u \in Tab \ {t}, running[u] # Nothing
                PROVE  Adds(u)'
    BY <1>2 DEF RunningAdds
  <2>1. /\ Adds(u) /\ running[u].edit \in Edit /\ running[u].acct \in Account
    BY CalmParts DEF RunningAdds, TypeOK, Job, Maybe
  <2>2. running[u].edit # e
    BY <1>1, <2>1, CalmParts DEF Adds, Apart, Claims, e, a
  <2>. QED  BY <1>2, <2>1, <2>2 DEF Adds, IsOpen
<1>7. WaitingIsNew'
  <2>1. \A u \in Tab : \A i \in DOMAIN waiting[u] : waiting[u][i] \in Edit \ {e}
    BY <1>1, CalmParts DEF WaitingIsNew, Waits, Unwritten, TypeOK, e
  <2>. QED  BY <1>2, <2>1, CalmParts DEF WaitingIsNew, Waits, Unwritten, IsOpen
<1>8. AskedIsAnswered' /\ AnswersHold'
  BY <1>1, <1>2, CalmParts DEF AskedIsAnswered, AnswersHold, Adds, e, a
<1>9. OwnRecords'
  BY <1>2, CalmParts DEF OwnRecords, OwnBooksOnly, IsOpen
<1>. QED  BY <1>3, <1>4, <1>5, <1>6, <1>7, <1>8, <1>9 DEF CalmInv

LEMMA LockKeeps ==
  ASSUME CalmInv, NEW t \in Tab, Lock(t)
  PROVE  CalmInv'
<1>. USE DEF frontVars, queueVars, editVars
<1>1. /\ session'[t] = Nothing /\ sealed'[t] = Nothing
      /\ \A u \in Tab \ {t} : /\ session'[u] = session[u] /\ sealed'[u] = sealed[u]
                              /\ company'[u] = company[u]
      /\ UNCHANGED <<store, backup, login, dialog, found, waiting, running, madeIn, told>>
  BY CalmParts DEF Lock, TypeOK
<1>2. TypeOK'
  BY CalmParts DEF Lock, TypeOK, Maybe
<1>3. Apart' /\ LoginsAreClosed' /\ FoundIsStored' /\ SealedIsOpen'
  BY <1>1, CalmParts, NothingAssumption
  DEF Apart, Claims, LoginsAreClosed, FoundIsStored, Stored, SealedIsOpen, IsOpen
<1>4. OpenIsStored' /\ RunningAdds'
  BY <1>1, CalmParts DEF OpenIsStored, IsOpen, RunningAdds, Adds
<1>5. WaitingIsNew'
  BY <1>1, CalmParts DEF WaitingIsNew, Waits, Unwritten, IsOpen
<1>6. AskedIsAnswered' /\ AnswersHold' /\ OwnRecords'
  BY <1>1, CalmParts DEF AskedIsAnswered, AnswersHold, OwnRecords, OwnBooksOnly, IsOpen
<1>. QED  BY <1>2, <1>3, <1>4, <1>5, <1>6 DEF CalmInv

LEMMA DownloadKeeps ==
  ASSUME CalmInv, NEW t \in Tab, Download(t)
  PROVE  CalmInv'
<1>. USE DEF openVars, frontVars, queueVars, editVars
<1>1. /\ session[t] \in Account /\ sealed[t] # Nothing /\ IsOpen(t)
      /\ backup'[session[t]] = sealed[t]
      /\ \A a \in Account \ {session[t]} : backup'[a] = backup[a]
      /\ UNCHANGED <<store, kept, session, sealed, company, login, dialog, found,
                     waiting, running, madeIn, told>>
  BY CalmParts DEF Download, TypeOK, Maybe, IsOpen, OpenIsStored
<1>2. TypeOK'
  BY <1>1, CalmParts DEF Download, TypeOK, Maybe
<1>3. Apart' /\ LoginsAreClosed' /\ FoundIsStored' /\ SealedIsOpen'
  BY <1>1, CalmParts
  DEF Apart, Claims, LoginsAreClosed, FoundIsStored, Stored, SealedIsOpen, IsOpen
<1>4. OpenIsStored' /\ RunningAdds'
  BY <1>1, CalmParts DEF OpenIsStored, IsOpen, RunningAdds, Adds
<1>5. WaitingIsNew'
  BY <1>1, CalmParts DEF WaitingIsNew, Waits, Unwritten, IsOpen
<1>6. AskedIsAnswered' /\ AnswersHold' /\ OwnRecords'
  BY <1>1, CalmParts DEF AskedIsAnswered, AnswersHold, OwnRecords, OwnBooksOnly, IsOpen
<1>. QED  BY <1>2, <1>3, <1>4, <1>5, <1>6 DEF CalmInv

LEMMA RestoreKeeps ==
  ASSUME CalmInv, NEW t \in Tab, NEW a \in Account, FreeFor(t, {a}), running[t] = Nothing,
         Restore(t, a)
  PROVE  CalmInv'
<1>. DEFINE copy == backup[a]
<1>1. /\ copy \in Contents /\ copy # Nothing
      /\ session[t] = Nothing /\ login[t] = "none" /\ waiting[t] = <<>>
      /\ \A u \in Tab \ {t} : ~Claims(u, a)
  BY CalmParts, FreeIsUnclaimed DEF Restore, TypeOK, Maybe, AtFrontPage, IsOpen, NoJobReady
<1>2. /\ store'[a] = copy /\ \A b \in Account \ {a} : store'[b] = store[b]
      /\ login'[t] = "restoring" /\ \A u \in Tab \ {t} : login'[u] = login[u]
      /\ found'[t] = Only(a, copy) /\ \A u \in Tab \ {t} : found'[u] = found[u]
      /\ \A e \in Edit : told'[e] = IF Overrules(copy, a, e) THEN "overruled" ELSE told[e]
      /\ UNCHANGED <<backup, session, sealed, company, waiting, running, madeIn>>
  BY CalmParts DEF Restore, TypeOK, openVars, queueVars
<1>3. TypeOK'
  BY <1>1, CalmParts, OnlyType DEF Restore, TypeOK, Maybe, LoginSteps, Answers, openVars, queueVars
<1>4. \A b \in Account : Only(a, copy)[b] = IF b = a THEN copy ELSE Nothing
  BY <1>1, OnlyType
<1>a. \A u \in Tab \ {t} : /\ session[u] # Nothing => session[u] \in Account \ {a}
                           /\ running[u] # Nothing => running[u].acct \in Account \ {a}
  BY <1>1, CalmParts DEF Claims, TypeOK, Job, Maybe
<1>b. \A e \in Edit : /\ told[e] = "none" => told'[e] = "none"
                      /\ told'[e] = "none" => told[e] = "none"
  BY <1>2 DEF Overrules
<1>. HIDE DEF copy
<1>5. Apart'
  BY <1>1, <1>2, <1>4, CalmParts, NothingAssumption DEF Apart, Claims
<1>6. LoginsAreClosed'
  BY <1>1, <1>2, CalmParts DEF LoginsAreClosed
<1>7. FoundIsStored'
  BY <1>1, <1>2, <1>4, CalmParts DEF FoundIsStored, Stored, Claims
<1>8. OpenIsStored' /\ SealedIsOpen'
  BY <1>1, <1>2, <1>a, CalmParts DEF OpenIsStored, IsOpen, SealedIsOpen
<1>9. RunningAdds'
  <2>. SUFFICES ASSUME NEW u \in Tab \ {t}, running[u] # Nothing
                PROVE  Adds(u)'
    BY <1>2 DEF RunningAdds
  <2>1. /\ Adds(u) /\ running[u].edit \in Edit /\ running[u].acct \in Account \ {a}
    BY <1>a, CalmParts DEF RunningAdds, TypeOK, Job, Maybe
  <2>. QED  BY <1>2, <1>b, <2>1 DEF Adds, IsOpen
<1>10. WaitingIsNew'
  <2>1. \A u \in Tab : \A i \in DOMAIN waiting[u] : waiting[u][i] \in Edit
    BY CalmParts DEF TypeOK
  <2>. QED  BY <1>1, <1>2, <1>b, <2>1, CalmParts DEF WaitingIsNew, Waits, Unwritten, IsOpen, copy
<1>11. AskedIsAnswered' /\ AnswersHold'
  BY <1>1, <1>2, <1>b, CalmParts DEF AskedIsAnswered, AnswersHold, Overrules
<1>12. OwnRecords'
  BY <1>1, <1>2, CalmParts DEF OwnRecords, OwnBooksOnly, IsOpen, copy
<1>. QED  BY <1>3, <1>5, <1>6, <1>7, <1>8, <1>9, <1>10, <1>11, <1>12 DEF CalmInv

LEMMA ReloadKeeps ==
  ASSUME CalmInv, NEW t \in Tab, NEW expired \in BOOLEAN,
         expired \/ FreeFor(t, {kept} \ {Nothing}), Reload(t, expired)
  PROVE  CalmInv'
<1>. USE DEF editVars
<1>1. /\ session'[t] = Nothing /\ sealed'[t] = Nothing
      /\ running'[t] = Nothing /\ waiting'[t] = <<>>
      /\ \A u \in Tab \ {t} : /\ session'[u] = session[u] /\ sealed'[u] = sealed[u]
                              /\ company'[u] = company[u] /\ running'[u] = running[u]
                              /\ waiting'[u] = waiting[u] /\ login'[u] = login[u]
                              /\ found'[u] = found[u]
      /\ UNCHANGED <<store, backup, madeIn, told>>
  BY CalmParts DEF Reload, TypeOK
<1>2. kept' # Nothing => /\ kept' = kept /\ kept \in Account /\ store[kept] # Nothing
                         /\ \A u \in Tab \ {t} : ~Claims(u, kept)
  BY CalmParts, FreeIsUnclaimed DEF Reload, TypeOK, Maybe
<1>3. \/ /\ kept' = Nothing /\ login'[t] = "none" /\ found'[t] = NoneFound
      \/ /\ kept' # Nothing /\ login'[t] = "resuming" /\ found'[t] = Only(kept, store[kept])
  BY <1>2, CalmParts DEF Reload, TypeOK
<1>4. kept' # Nothing =>
        /\ Only(kept, store[kept]) \in [Account -> Maybe(Contents)]
        /\ \A b \in Account : Only(kept, store[kept])[b] = IF b = kept THEN store[kept] ELSE Nothing
  <2>1. kept' # Nothing => store[kept] \in Contents
    BY <1>2, CalmParts DEF TypeOK, Maybe
  <2>. QED  BY <1>2, <2>1, OnlyType
<1>5. TypeOK'
  BY <1>3, <1>4, CalmParts, NoneFoundType DEF Reload, TypeOK, Maybe, LoginSteps
<1>6. Apart'
  BY <1>1, <1>2, <1>3, <1>4, CalmParts, NoneFoundType, NothingAssumption DEF Apart, Claims
<1>7. LoginsAreClosed'
  BY <1>1, <1>3, CalmParts DEF LoginsAreClosed
<1>8. FoundIsStored'
  BY <1>1, <1>2, <1>3, <1>4, CalmParts, NoneFoundType DEF FoundIsStored, Stored
<1>9. OpenIsStored' /\ SealedIsOpen' /\ RunningAdds'
  BY <1>1, CalmParts DEF OpenIsStored, IsOpen, SealedIsOpen, RunningAdds, Adds
<1>10. WaitingIsNew'
  BY <1>1, CalmParts DEF WaitingIsNew, Waits, Unwritten, IsOpen
<1>11. AskedIsAnswered' /\ AnswersHold' /\ OwnRecords'
  BY <1>1, CalmParts DEF AskedIsAnswered, AnswersHold, OwnRecords, OwnBooksOnly, IsOpen
<1>. QED  BY <1>5, <1>6, <1>7, <1>8, <1>9, <1>10, <1>11 DEF CalmInv

LEMMA AskKeeps ==
  ASSUME CalmInv, NEW t \in Tab, NEW e \in Edit, Ask(t, e)
  PROVE  CalmInv'
<1>. USE DEF deviceVars, openVars, frontVars
<1>1. /\ session[t] \in Account /\ session[t] # Nothing /\ madeIn[e] = Nothing
      /\ madeIn'[e] = session[t] /\ \A d \in Edit \ {e} : madeIn'[d] = madeIn[d]
      /\ UNCHANGED <<store, kept, backup, session, sealed, company, login, dialog, found,
                     running, told>>
  BY CalmParts DEF Ask, IsOpen, TypeOK, Maybe
<1>2. /\ waiting'[t] = Append(waiting[t], e) /\ waiting[t] \in Seq(Edit)
      /\ \A u \in Tab \ {t} : waiting'[u] = waiting[u]
  BY CalmParts DEF Ask, TypeOK
<1>3. TypeOK'
  BY <1>1, CalmParts DEF Ask, TypeOK, Maybe
<1>4. Unwritten(e) /\ told[e] = "none"
  BY <1>1, CalmParts, NothingAssumption
  DEF Unwritten, OwnRecords, OwnBooksOnly, SealedIsOpen, RunningAdds, Adds, TypeOK, Job, Maybe,
      AskedIsAnswered, IsOpen
<1>5. \A u \in Tab : \A i \in DOMAIN waiting[u] : waiting[u][i] \in Edit \ {e}
  BY <1>1, CalmParts, NothingAssumption DEF WaitingIsNew, Waits, TypeOK
<1>6. Apart' /\ FoundIsStored' /\ OpenIsStored' /\ SealedIsOpen'
  BY <1>1, CalmParts DEF Apart, Claims, FoundIsStored, Stored, OpenIsStored, SealedIsOpen, IsOpen
<1>7. LoginsAreClosed'
  BY <1>1, <1>2, CalmParts DEF LoginsAreClosed
<1>8. RunningAdds'
  <2>. SUFFICES ASSUME NEW u \in Tab, running[u] # Nothing
                PROVE  Adds(u)'
    BY <1>1 DEF RunningAdds
  <2>1. Adds(u) /\ running[u].edit \in Edit \ {e}
    BY <1>4, CalmParts DEF RunningAdds, Unwritten, TypeOK, Job, Maybe
  <2>. QED  BY <1>1, <2>1 DEF Adds, IsOpen
<1>9. WaitingIsNew'
  <2>1. \A u \in Tab, d \in Edit : (u = t /\ d = e) \/ (d # e /\ Waits(u, d)) => Waits(u, d)'
    BY <1>1, <1>4 DEF Waits, Unwritten, IsOpen
  <2>2. \A w \in Tab : \A j \in DOMAIN waiting'[w] :
          \/ w = t /\ j = Len(waiting[t]) + 1 /\ waiting'[w][j] = e
          \/ j \in DOMAIN waiting[w] /\ waiting'[w][j] = waiting[w][j]
    BY SMTT(20), <1>2, AppendAt
  <2>3. \A w \in Tab : \A j \in DOMAIN waiting'[w] : Waits(w, waiting[w][j])'
    BY <1>5, <2>1, <2>2, CalmParts DEF WaitingIsNew
  <2>4. \A u, w \in Tab : \A i \in DOMAIN waiting'[u], j \in DOMAIN waiting'[w] :
          waiting'[w][j] = waiting'[u][i] => w = u /\ j = i
    BY <1>5, <2>2, CalmParts DEF WaitingIsNew
  <2>. QED  BY <2>3, <2>4 DEF WaitingIsNew
<1>10. AskedIsAnswered' /\ AnswersHold'
  BY <1>1, <1>4, CalmParts DEF AskedIsAnswered, AnswersHold
<1>11. OwnRecords'
  <2>1. \A a \in Account : /\ store[a] # Nothing => \A d \in store[a] : madeIn'[d] = madeIn[d]
                           /\ backup[a] # Nothing => \A d \in backup[a] : madeIn'[d] = madeIn[d]
    BY <1>1, <1>4, CalmParts DEF Unwritten, TypeOK, Maybe, Contents
  <2>2. \A u \in Tab : sealed[u] # Nothing => \A d \in sealed[u] : madeIn'[d] = madeIn[d]
    BY <1>1, <1>4, CalmParts DEF Unwritten, TypeOK, Maybe, Contents
  <2>. QED  BY <1>1, <2>1, <2>2, CalmParts DEF OwnRecords, OwnBooksOnly, IsOpen, OpenIsStored
<1>. QED  BY <1>3, <1>6, <1>7, <1>8, <1>9, <1>10, <1>11 DEF CalmInv

\* An update leaves the head of the queue: the others wait on.
LEMMA HeadLeaves ==
  ASSUME CalmInv, NEW t \in Tab, waiting[t] # <<>>, waiting' = [waiting EXCEPT ![t] = Tail(@)],
         UNCHANGED <<store, backup, session, madeIn>>,
         \A d \in Edit \ {Head(waiting[t])} : told'[d] = told[d] /\ (Unwritten(d) => Unwritten(d)')
  PROVE  WaitingIsNew' /\ waiting' \in [Tab -> Seq(Edit)]
<1>. DEFINE e == Head(waiting[t])
<1>1. /\ waiting[t] \in Seq(Edit) /\ Len(waiting[t]) > 0 /\ e = waiting[t][1]
      /\ waiting'[t] = Tail(waiting[t]) /\ waiting'[t] \in Seq(Edit)
      /\ \A u \in Tab \ {t} : waiting'[u] = waiting[u] /\ waiting[u] \in Seq(Edit)
  BY CalmParts DEF TypeOK
<1>2. \A i \in DOMAIN waiting'[t] : /\ i \in Nat \ {0} /\ i + 1 \in DOMAIN waiting[t]
                                    /\ waiting'[t][i] = waiting[t][i + 1]
  <2>1. \A i \in DOMAIN Tail(waiting[t]) :
          /\ i \in Nat \ {0} /\ i + 1 \in DOMAIN waiting[t]
          /\ Tail(waiting[t])[i] = waiting[t][i + 1]
    BY <1>1, TailAt
  <2>. QED  BY <1>1, <2>1
<1>3. \A u \in Tab : \A i \in DOMAIN waiting'[u] : waiting'[u][i] \in Edit \ {e}
  <2>. SUFFICES ASSUME NEW u \in Tab, NEW i \in DOMAIN waiting'[u]
                PROVE  waiting'[u][i] \in Edit \ {e}
    OBVIOUS
  <2>1. 1 \in DOMAIN waiting[t] /\ e = waiting[t][1]
    BY <1>1, TailAt
  <2>2. CASE u = t
    <3>1. i + 1 \in DOMAIN waiting[t] /\ waiting'[u][i] = waiting[t][i + 1] /\ i + 1 # 1
      BY <1>2, <2>2
    <3>2. waiting[t][i + 1] \in Edit
      BY <1>1, <3>1
    <3>. QED  BY <2>1, <3>1, <3>2, CalmParts DEF WaitingIsNew
  <2>3. CASE u # t
    <3>1. waiting'[u] = waiting[u] /\ waiting[u][i] \in Edit
      BY <1>1, <2>3
    <3>. QED  BY <2>1, <2>3, <3>1, CalmParts DEF WaitingIsNew
  <2>. QED  BY <2>2, <2>3
<1>. HIDE DEF e
<1>4. WaitingIsNew'
  <2>1. \A u \in Tab, d \in Edit : d # e /\ Waits(u, d) => Waits(u, d)'
    BY DEF Waits, IsOpen, e
  <2>2. \A w \in Tab : \A j \in DOMAIN waiting'[w] :
          \E m \in DOMAIN waiting[w] : /\ waiting'[w][j] = waiting[w][m]
                                       /\ m = IF w = t THEN j + 1 ELSE j
    BY <1>1, <1>2
  <2>3. \A w \in Tab : \A j \in DOMAIN waiting'[w] : Waits(w, waiting[w][j])'
    BY <1>3, <2>1, <2>2, CalmParts DEF WaitingIsNew
  <2>4. ASSUME NEW u \in Tab, NEW w \in Tab, NEW i \in DOMAIN waiting'[u],
               NEW j \in DOMAIN waiting'[w], waiting'[w][j] = waiting'[u][i]
        PROVE  w = u /\ j = i
    <3>1. PICK k \in DOMAIN waiting[u] : /\ waiting'[u][i] = waiting[u][k]
                                         /\ k = IF u = t THEN i + 1 ELSE i
      BY <2>2
    <3>2. PICK m \in DOMAIN waiting[w] : /\ waiting'[w][j] = waiting[w][m]
                                         /\ m = IF w = t THEN j + 1 ELSE j
      BY <2>2
    <3>3. w = u /\ m = k
      BY <2>4, <3>1, <3>2, CalmParts DEF WaitingIsNew
    <3>4. u = t => i \in Nat /\ j \in Nat
      BY <1>2, <3>3
    <3>. QED  BY <3>1, <3>2, <3>3, <3>4
  <2>. QED  BY <2>3, <2>4 DEF WaitingIsNew
<1>5. waiting' \in [Tab -> Seq(Edit)]
  BY <1>1, CalmParts DEF TypeOK
<1>. QED  BY <1>4, <1>5

LEMMA RefuseKeeps ==
  ASSUME CalmInv, NEW t \in Tab, Refuse(t)
  PROVE  CalmInv'
<1>. USE DEF deviceVars, openVars, frontVars
<1>. DEFINE e == Head(waiting[t])
<1>1. /\ e \in Edit /\ Waits(t, e) /\ waiting[t] # <<>>
  <2>1. 1 \in DOMAIN waiting[t] /\ e = waiting[t][1] /\ e \in Edit /\ waiting[t] # <<>>
    BY CalmParts, TailAt DEF Refuse, TypeOK
  <2>. QED  BY <2>1, CalmParts DEF WaitingIsNew
<1>2. /\ told'[e] = "failed" /\ \A d \in Edit \ {e} : told'[d] = told[d]
      /\ UNCHANGED <<store, kept, backup, session, sealed, company, login, dialog, found,
                     running, madeIn>>
  BY <1>1, CalmParts DEF Refuse, TypeOK
<1>3. \A d : Unwritten(d) => Unwritten(d)'
  BY <1>2 DEF Unwritten
<1>4. WaitingIsNew' /\ waiting' \in [Tab -> Seq(Edit)]
  BY <1>1, <1>2, <1>3, HeadLeaves DEF Refuse
<1>5. TypeOK'
  <2>1. told' \in [Edit -> Answers]
    BY CalmParts DEF Refuse, TypeOK, Answers
  <2>. QED  BY <1>2, <1>4, <2>1, CalmParts DEF TypeOK
<1>. HIDE DEF e
<1>6. Apart' /\ FoundIsStored' /\ OpenIsStored' /\ SealedIsOpen'
  BY <1>2, CalmParts DEF Apart, Claims, FoundIsStored, Stored, OpenIsStored, SealedIsOpen, IsOpen
<1>7. LoginsAreClosed'
  <2>1. \A u \in Tab \ {t} : waiting'[u] = waiting[u]
    BY CalmParts DEF Refuse, TypeOK
  <2>. QED  BY <1>1, <1>2, <2>1, CalmParts DEF LoginsAreClosed
<1>8. RunningAdds'
  <2>. SUFFICES ASSUME NEW u \in Tab, running[u] # Nothing
                PROVE  Adds(u)'
    BY <1>2 DEF RunningAdds
  <2>1. Adds(u) /\ running[u].edit \in Edit \ {e}
    BY <1>1, CalmParts DEF RunningAdds, Waits, Unwritten, TypeOK, Job, Maybe
  <2>. QED  BY <1>2, <2>1 DEF Adds, IsOpen
<1>9. AskedIsAnswered' /\ AnswersHold'
  BY <1>1, <1>2, CalmParts DEF AskedIsAnswered, AnswersHold, Waits, Unwritten
<1>10. OwnRecords'
  BY <1>2, CalmParts DEF OwnRecords, OwnBooksOnly, IsOpen
<1>. QED  BY <1>4, <1>5, <1>6, <1>7, <1>8, <1>9, <1>10 DEF CalmInv

LEMMA BeginKeeps ==
  ASSUME CalmInv, NEW t \in Tab, Begin(t)
  PROVE  CalmInv'
<1>. USE DEF deviceVars, frontVars, editVars
<1>. DEFINE e == Head(waiting[t])
            a == session[t]
            next == company[t] \cup {e}
            job == [acct |-> a, edit |-> e, next |-> next, saved |-> FALSE]
<1>1. /\ e \in Edit /\ Waits(t, e) /\ waiting[t] # <<>>
  <2>1. 1 \in DOMAIN waiting[t] /\ e = waiting[t][1] /\ e \in Edit /\ waiting[t] # <<>>
    BY CalmParts, TailAt DEF Begin, TypeOK
  <2>. QED  BY <2>1, CalmParts DEF WaitingIsNew
<1>2. /\ IsOpen(t) /\ a \in Account /\ running[t] = Nothing /\ store[a] # Nothing
      /\ company[t] = store[a] /\ store[a] \in Contents
  BY CalmParts DEF Begin, IsOpen, TypeOK, Maybe, OpenIsStored
<1>3. next \in Contents /\ next # Nothing /\ next = store[a] \cup {e}
  <2>1. next \in Contents
    BY <1>1, <1>2 DEF Contents
  <2>. QED  BY <1>2, <2>1, ContentsAreNotNothing
<1>4. job \in Job /\ job # Nothing
  <2>1. job \in Job
    BY <1>1, <1>2, <1>3 DEF Job
  <2>. QED  BY <2>1, NothingAssumption
<1>. HIDE DEF next
<1>5. /\ job.acct = a /\ job.edit = e /\ job.next = next /\ ~job.saved
  OBVIOUS
<1>. HIDE DEF job
<1>6. /\ running' = [running EXCEPT ![t] = job] /\ sealed' = [sealed EXCEPT ![t] = next]
      /\ waiting' = [waiting EXCEPT ![t] = Tail(@)]
      /\ UNCHANGED <<store, kept, backup, session, company, login, dialog, found, madeIn, told>>
  BY DEF Begin, job, next
<1>7. /\ running'[t] = job /\ \A u \in Tab \ {t} : running'[u] = running[u]
      /\ sealed'[t] = next /\ \A u \in Tab \ {t} : sealed'[u] = sealed[u]
  BY <1>6, CalmParts DEF TypeOK
<1>. HIDE DEF e, a
<1>8. \A d \in Edit \ {e} : Unwritten(d) => Unwritten(d)'
  BY <1>2, <1>3, <1>5, <1>6, <1>7 DEF Unwritten
<1>9. WaitingIsNew' /\ waiting' \in [Tab -> Seq(Edit)]
  BY <1>1, <1>6, <1>8, HeadLeaves DEF e
<1>10. TypeOK'
  BY <1>3, <1>4, <1>6, <1>9, CalmParts DEF TypeOK, Maybe
<1>11. Apart' /\ FoundIsStored' /\ SealedIsOpen'
  BY <1>2, <1>5, <1>6, <1>7, CalmParts
  DEF Apart, Claims, FoundIsStored, Stored, SealedIsOpen, IsOpen, a
<1>12. OpenIsStored'
  BY <1>2, <1>3, <1>5, <1>6, <1>7, CalmParts DEF OpenIsStored, IsOpen, a
<1>13. LoginsAreClosed'
  <2>1. \A u \in Tab \ {t} : waiting'[u] = waiting[u]
    BY <1>6, CalmParts DEF TypeOK
  <2>. QED  BY <1>2, <1>6, <1>7, <2>1, CalmParts DEF LoginsAreClosed, IsOpen
<1>14. RunningAdds'
  <2>1. Adds(t)'
    <3>1. madeIn[e] = a /\ told[e] = "none" /\ e \notin store[a]
      BY <1>1, <1>2 DEF Waits, Unwritten, a
    <3>2. /\ running'[t].acct = a /\ running'[t].edit = e /\ running'[t].next = next
          /\ ~running'[t].saved /\ sealed'[t] = next /\ session'[t] = a
          /\ UNCHANGED <<store, madeIn, told>>
      BY <1>5, <1>6, <1>7 DEF a
    <3>. QED  BY <1>2, <1>3, <3>1, <3>2 DEF Adds
  <2>2. \A u \in Tab \ {t} : running[u] # Nothing => Adds(u)'
    BY <1>6, <1>7, CalmParts DEF RunningAdds, Adds, IsOpen
  <2>. QED  BY <1>7, <2>1, <2>2 DEF RunningAdds
<1>15. AskedIsAnswered' /\ AnswersHold'
  BY <1>6, CalmParts DEF AskedIsAnswered, AnswersHold
<1>16. OwnRecords'
  BY <1>1, <1>2, <1>3, <1>6, <1>7, CalmParts DEF OwnRecords, OwnBooksOnly, IsOpen, Waits, a
<1>. QED  BY <1>9, <1>10, <1>11, <1>12, <1>13, <1>14, <1>15, <1>16 DEF CalmInv

-----------------------------------------------------------------------------
(* Every step of calm use.                                                 *)

LEMMA CalmStep == CalmInv /\ [CalmNext]_vars => CalmInv'
<1>. SUFFICES ASSUME CalmInv, [CalmNext]_vars PROVE CalmInv'
  OBVIOUS
<1>1. CASE UNCHANGED vars
  <2>1. /\ UNCHANGED <<deviceVars, openVars, queueVars, editVars>>
        /\ UNCHANGED <<store, session, running, waiting, login, found, dialog>>
    BY <1>1 DEF vars, deviceVars, openVars, frontVars, queueVars
  <2>2. TypeOK'
    BY <1>1, CalmParts DEF TypeOK, vars, deviceVars, openVars, frontVars, queueVars, editVars
  <2>3. Apart' /\ LoginsAreClosed' /\ FoundIsStored'
    BY <2>1, CalmParts DEF Apart, Claims, LoginsAreClosed, FoundIsStored, Stored
  <2>. QED  BY <2>1, <2>2, <2>3, FrontKeeps
<1>2. CASE CalmNext
  <2>1. PICK t \in Tab :
    \/ \E a \in Account : /\ FreeFor(t, {a}) /\ running[t] = Nothing
                          /\ CreateChecks(t, a) \/ CreateSaves(t, a) \/ OpenFound(t, a)
                             \/ Restore(t, a) \/ Resume(t, a)
    \/ \E accounts \in SUBSET Account :
         FreeFor(t, accounts) /\ running[t] = Nothing /\ Unlock(t, accounts)
    \/ \E expired \in BOOLEAN : (expired \/ FreeFor(t, {kept} \ {Nothing})) /\ Reload(t, expired)
    \/ \E e \in Edit : Ask(t, e)
    \/ login[t] # "finding" /\ CloseDialog(t)
    \/ OpenDialog(t) \/ NoMatch(t) \/ Offer(t) \/ Lock(t)
    \/ Begin(t) \/ Refuse(t) \/ Save(t) \/ SaveFails(t) \/ Finish(t) \/ Download(t)
    BY <1>2 DEF CalmNext
  <2>2. CASE \E a \in Account : /\ FreeFor(t, {a}) /\ running[t] = Nothing
                                /\ CreateChecks(t, a) \/ CreateSaves(t, a) \/ OpenFound(t, a)
                                   \/ Restore(t, a) \/ Resume(t, a)
    BY <2>2, CreateChecksKeeps, OpeningsKeep, RestoreKeeps
  <2>3. CASE \E accounts \in SUBSET Account :
               FreeFor(t, accounts) /\ running[t] = Nothing /\ Unlock(t, accounts)
    BY <2>3, UnlockKeeps
  <2>4. CASE \E expired \in BOOLEAN :
               (expired \/ FreeFor(t, {kept} \ {Nothing})) /\ Reload(t, expired)
    BY <2>4, ReloadKeeps
  <2>5. CASE \E e \in Edit : Ask(t, e)
    BY <2>5, AskKeeps
  <2>6. CASE \/ login[t] # "finding" /\ CloseDialog(t)
             \/ OpenDialog(t) \/ NoMatch(t) \/ Offer(t)
    BY <2>6, DialogKeeps
  <2>7. CASE Lock(t) \/ Begin(t) \/ Refuse(t) \/ Download(t)
    BY <2>7, LockKeeps, BeginKeeps, RefuseKeeps, DownloadKeeps
  <2>8. CASE Save(t) \/ SaveFails(t) \/ Finish(t)
    BY <2>8, SaveKeeps, SaveFailsKeeps, FinishKeeps
  <2>. QED  BY <2>1, <2>2, <2>3, <2>4, <2>5, <2>6, <2>7, <2>8
<1>. QED  BY <1>1, <1>2

LEMMA CalmAlways == CalmSpec => []CalmInv
<1>. QED  BY InitCalm, CalmStep, PTL DEF CalmSpec

\* Type correctness in calm use (packages/vault/src/session.ts, BooksProvider.tsx).
THEOREM CalmTyped == CalmSpec => []TypeOK
<1>1. CalmInv => TypeOK
  BY DEF CalmInv
<1>. QED  BY CalmAlways, <1>1, PTL

\* What updateCompany answered holds of the stored record ever after, but where a
\* restore overruled it, however many tabs, accounts and edits there are
\* (BooksProvider.tsx updateCompany).
THEOREM CalmAnswers == CalmSpec => []AnswersHold
<1>1. CalmInv => AnswersHold
  BY DEF CalmInv
<1>. QED  BY CalmAlways, <1>1, PTL

\* No record holds an edit made on the screens of another account (BooksProvider.tsx
\* updateCompany and lock, session.ts).
THEOREM CalmOwnBooks == CalmSpec => []OwnBooksOnly
<1>1. CalmInv => OwnBooksOnly
  BY DEF CalmInv, OwnRecords
<1>. QED  BY CalmAlways, <1>1, PTL

\* A backup has everything its account had saved when it was downloaded, although it
\* is written from the session's record and not from the store (downloadBackup).
THEOREM CalmBackups == CalmSpec => BackupIsCurrent
<1>1. ASSUME CalmInv, [CalmNext]_vars, NEW a \in Account, backup'[a] # backup[a]
      PROVE  store[a] \subseteq backup'[a]
  <2>1. PICK t \in Tab : Download(t)
    <3>1. \A t \in Tab, b \in Account :
            CreateChecks(t, b) \/ CreateSaves(t, b) \/ OpenFound(t, b) \/ Restore(t, b) \/ Resume(t, b)
            => UNCHANGED backup
      BY DEF CreateChecks, CreateSaves, OpenFound, Restore, Resume, deviceVars
    <3>2. \A t \in Tab :
            /\ \A accounts \in SUBSET Account : Unlock(t, accounts) => UNCHANGED backup
            /\ \A expired \in BOOLEAN : Reload(t, expired) => UNCHANGED backup
            /\ \A e \in Edit : Ask(t, e) => UNCHANGED backup
      BY DEF Unlock, Reload, Ask, deviceVars
    <3>3. \A t \in Tab :
            CloseDialog(t) \/ OpenDialog(t) \/ NoMatch(t) \/ Offer(t) \/ Lock(t) => UNCHANGED backup
      BY DEF CloseDialog, OpenDialog, NoMatch, Offer, Lock, deviceVars
    <3>4. \A t \in Tab :
            Begin(t) \/ Refuse(t) \/ Save(t) \/ SaveFails(t) \/ Finish(t) => UNCHANGED backup
      BY DEF Begin, Refuse, Save, SaveFails, Finish, deviceVars
    <3>5. CalmNext
      BY <1>1 DEF vars, deviceVars
    <3>. QED  BY <1>1, <3>1, <3>2, <3>3, <3>4, <3>5 DEF CalmNext
  <2>2. session[t] = a /\ backup'[a] = sealed[t]
    BY <1>1, <2>1, CalmParts DEF Download, TypeOK, IsOpen, Maybe
  <2>. QED  BY <2>1, <2>2, CalmParts, <1>1 DEF Download, OpenIsStored
<1>2. CalmInv /\ [CalmNext]_vars =>
        [\A a \in Account : backup'[a] # backup[a] => store[a] \subseteq backup'[a]]_vars
  BY <1>1
<1>. QED  BY CalmAlways, <1>2, PTL DEF CalmSpec, BackupIsCurrent

\* A tab that is logged out gets books in the clear only from an update that was still
\* being stored at the log-out (BooksProvider.tsx updateCompany after its awaits).
THEOREM CalmRefills == CalmSpec => OnlyLateSavesRefill
<1>1. ASSUME CalmInv, [CalmNext]_vars, NEW t \in Tab, InTheClear(t)', ~InTheClear(t)
      PROVE  running[t] # Nothing /\ running[t].saved /\ company'[t] = running[t].next
  <2>1. ~(UNCHANGED session /\ UNCHANGED company)
    BY <1>1 DEF InTheClear
  <2>2. PICK u \in Tab : \/ \E a \in Account :
                              CreateSaves(u, a) \/ OpenFound(u, a) \/ Resume(u, a)
                         \/ \E expired \in BOOLEAN : Reload(u, expired)
                         \/ Lock(u) \/ Finish(u)
    BY ZenonT(40), <1>1, <2>1 DEF CalmNext, vars, openVars, CreateChecks, Restore, Unlock, Ask,
      CloseDialog, OpenDialog, NoMatch, Offer, Begin, Refuse, Save, SaveFails, Download
  <2>3. CASE \E a \in Account : CreateSaves(u, a) \/ OpenFound(u, a) \/ Resume(u, a)
    <3>1. PICK a \in Account : Show(u, a, found[u][a]) \/ Show(u, a, {})
      BY <2>3 DEF CreateSaves, OpenFound, Resume, Open
    <3>2. session'[u] = a /\ a # Nothing
          /\ \A w \in Tab \ {u} : session'[w] = session[w] /\ company'[w] = company[w]
      BY <3>1, CalmParts, <1>1, NothingAssumption DEF Show, TypeOK
    <3>. QED  BY <1>1, <3>2 DEF InTheClear
  <2>4. CASE Lock(u) \/ \E expired \in BOOLEAN : Reload(u, expired)
    <3>1. company'[u] = Nothing
          /\ \A w \in Tab \ {u} : session'[w] = session[w] /\ company'[w] = company[w]
      BY <1>1, <2>4, CalmParts DEF Lock, Reload, TypeOK
    <3>. QED  BY <1>1, <3>1 DEF InTheClear
  <2>5. CASE Finish(u)
    BY <1>1, <2>5, CalmParts DEF Finish, InTheClear, TypeOK
  <2>. QED  BY <2>2, <2>3, <2>4, <2>5
<1>2. CalmInv /\ [CalmNext]_vars =>
        [\A t \in Tab : InTheClear(t)' /\ ~InTheClear(t) =>
           running[t] # Nothing /\ running[t].saved /\ company'[t] = running[t].next]_vars
  BY <1>1
<1>. QED  BY CalmAlways, <1>2, PTL DEF CalmSpec, OnlyLateSavesRefill

-----------------------------------------------------------------------------
(***************************************************************************)
(* What the books say of offers, whatever flows were left running, broken  *)
(* off or answered late: a link belongs to a member, nobody joins the team *)
(* on an offer that was not accepted, and an offer leaves the books with   *)
(* its agreement, unless a second one was made to the same member.         *)
(*                                                                         *)
(* Every update that writes a link looks for the member in the same step,  *)
(* every one that removes a member removes the link, and no member's id is *)
(* ever given out again.  What Import read is final for good.              *)
(***************************************************************************)

BooksOK ==
  /\ nextMember \in 1..(MaxMembers + 1)
  /\ DOMAIN team \subseteq 1..(nextMember - 1)
  /\ \A w \in DOMAIN team : team[w] \in Member
  /\ links \in [MemberId -> Link \cup {Nobody}]

FlowsOK ==
  /\ nextFlow \in 1..(MaxFlows + 1)
  /\ flows \subseteq Running
  /\ \A f, g \in flows : f.id < nextFlow /\ (f.id = g.id => f = g)

ScanOK == scan \in Scan \cup {Nobody}

ChainOK ==
  /\ createTx \in [Flow -> Tx]
  /\ closeTx \in [Flow -> [of : 0..MaxFlows, state : Tx]]
  /\ agreement \in [Flow -> Agreement]
  /\ final \subseteq Flow

\* What Import read a while ago still holds.
FinalsStay == scan # Nobody => scan.finals \subseteq final

\* Whatever was sent, made or accepted is somebody's, and so is whatever Import read.
MadeForSomeone ==
  \A n \in Flow :
    createTx[n] # "none" \/ agreement[n].status # "none" \/ n \in final
    => agreement[n].person \in Person
RowsHavePeople ==
  scan # Nobody => \A a \in scan.rows : agreement[a].person \in Person

BooksInv  == BooksOK /\ LinksHaveWorkers
ChainInv  == ChainOK /\ MadeForSomeone
ScanInv   == ScanOK /\ FinalsStay /\ RowsHavePeople
HiringInv == BooksInv /\ FlowsOK /\ ScanInv /\ ChainInv

USE NobodyAssumption, BoundsAssumption

-----------------------------------------------------------------------------
(* What the books' own operations leave of them.                           *)

\* The type invariant is its parts.
LEMMA Parts == HiringTypeOK <=> BooksOK /\ FlowsOK /\ ScanOK /\ ChainOK
BY DEF HiringTypeOK, BooksOK, FlowsOK, ScanOK, ChainOK

\* A member's id lies within the bound.
LEMMA MemberIds == ASSUME BooksOK PROVE DOMAIN team \subseteq MemberId
BY DEF BooksOK, MemberId

\* The new member is a new id, and the others stay as they were.
LEMMA Adding ==
  ASSUME BooksOK, NEW person \in Person, NEW active \in BOOLEAN, AddMember(person, active)
  PROVE  /\ nextMember \in MemberId /\ nextMember \notin DOMAIN team
         /\ DOMAIN team' = DOMAIN team \cup {nextMember}
         /\ \A w \in DOMAIN team : team'[w] = team[w]
         /\ \A w \in DOMAIN team' : team'[w] \in Member
         /\ nextMember' \in 1..(MaxMembers + 1)
         /\ DOMAIN team' \subseteq 1..(nextMember' - 1)
<1>1. nextMember \in MemberId /\ nextMember \notin DOMAIN team
  BY DEF BooksOK, AddMember, MemberId
<1>2. /\ DOMAIN team' = DOMAIN team \cup {nextMember}
      /\ \A w \in DOMAIN team : team'[w] = team[w]
      /\ team'[nextMember] = [person |-> person, active |-> active, paid |-> FALSE]
  BY <1>1 DEF AddMember
<1>3. [person |-> person, active |-> active, paid |-> FALSE] \in Member
  BY DEF Member
<1>4. nextMember' \in 1..(MaxMembers + 1) /\ DOMAIN team' \subseteq 1..(nextMember' - 1)
  BY <1>2 DEF BooksOK, AddMember
<1>. QED  BY <1>1, <1>2, <1>3, <1>4 DEF BooksOK

\* A link is written for a member only.
LEMMA Linking ==
  ASSUME BooksOK, NEW w \in MemberId, NEW a \in Flow, NEW status \in {"offered", "linked"},
         NEW joins \in BOOLEAN, SetLink(w, a, status, joins)
  PROVE  /\ links' \in [MemberId -> Link \cup {Nobody}]
         /\ \A v \in MemberId : v # w => links'[v] = links[v]
<1>1. [agreement |-> a, status |-> status, joins |-> joins] \in Link
  BY DEF Link
<1>. QED  BY <1>1 DEF BooksOK, SetLink

\* A member leaves with the link.
LEMMA Removing ==
  ASSUME BooksInv, NEW w, RemoveFromTeam(w)
  PROVE  BooksInv'
<1>1. /\ DOMAIN team' = DOMAIN team \ {w}
      /\ \A v \in DOMAIN team' : team'[v] = team[v]
  BY DEF RemoveFromTeam, RemoveMember
<1>2. links' = [links EXCEPT ![w] = Nobody] /\ UNCHANGED nextMember
  BY DEF RemoveFromTeam, RemoveLink
<1>3. BooksOK'
  BY <1>1, <1>2 DEF BooksInv, BooksOK
<1>4. LinksHaveWorkers'
  BY <1>1, <1>2 DEF BooksInv, BooksOK, LinksHaveWorkers, HasLink, IsMember
<1>. QED  BY <1>3, <1>4 DEF BooksInv

\* So does an offer, with or without the member.
LEMMA Dropping ==
  ASSUME BooksInv, NEW w,
         \/ DropOffer(w)
         \/ RemoveLink(w) /\ UNCHANGED <<team, nextMember>>
  PROVE  BooksInv'
<1>1. \/ DOMAIN team' = DOMAIN team \ {w}
      \/ DOMAIN team' = DOMAIN team
  BY DEF DropOffer, RemoveMember
<1>2. \A v \in DOMAIN team' : team'[v] = team[v]
  BY DEF DropOffer, RemoveMember
<1>3. links' = [links EXCEPT ![w] = Nobody] /\ UNCHANGED nextMember
  BY DEF DropOffer, RemoveLink
<1>4. BooksOK'
  BY <1>1, <1>2, <1>3 DEF BooksInv, BooksOK
<1>5. LinksHaveWorkers'
  BY <1>1, <1>3 DEF BooksInv, BooksOK, LinksHaveWorkers, HasLink, IsMember
<1>. QED  BY <1>4, <1>5 DEF BooksInv

\* A member changed in place.
LEMMA Changing ==
  ASSUME BooksInv, DOMAIN team' = DOMAIN team, \A w \in DOMAIN team : team'[w] \in Member,
         UNCHANGED <<links, nextMember>>
  PROVE  BooksInv'
BY DEF BooksInv, BooksOK, LinksHaveWorkers, HasLink, IsMember

\* A new member and his link.
LEMMA Joining ==
  ASSUME BooksInv, NEW person \in Person, NEW active \in BOOLEAN, NEW a \in Flow,
         NEW status \in {"offered", "linked"}, NEW joins \in BOOLEAN,
         AddMember(person, active), SetLink(nextMember, a, status, joins)
  PROVE  BooksInv'
<1>1. BooksOK /\ nextMember \in MemberId
  BY Adding DEF BooksInv
<1>2. BooksOK'
  BY <1>1, Adding, Linking DEF BooksOK
<1>3. LinksHaveWorkers'
  BY <1>1, Adding, Linking DEF BooksInv, LinksHaveWorkers, HasLink, IsMember
<1>. QED  BY <1>2, <1>3 DEF BooksInv

\* An offer accepted, and who joins on it.
LEMMA Accepting ==
  ASSUME BooksInv, NEW finals, AcceptOffers(finals)
  PROVE  /\ BooksInv'
         /\ DOMAIN team' = DOMAIN team
         /\ \A w \in DOMAIN team :
              ~team[w].active /\ team'[w].active => links[w].agreement \in finals
<1>. DEFINE accepted == {w \in MemberId : Offered(w) /\ Accepted(w, finals)}
<1>1. /\ team' = [w \in DOMAIN team |->
           IF w \in accepted /\ links[w].joins THEN [team[w] EXCEPT !.active = TRUE]
           ELSE team[w]]
      /\ links' = [w \in MemberId |->
           IF w \in accepted THEN [links[w] EXCEPT !.status = "linked", !.joins = FALSE]
           ELSE links[w]]
      /\ UNCHANGED nextMember
  BY DEF AcceptOffers
<1>2. \A w \in DOMAIN team : [team[w] EXCEPT !.active = TRUE] \in Member
  BY DEF BooksInv, BooksOK, Member
<1>3. \A w \in accepted :
        links[w] # Nobody /\ [links[w] EXCEPT !.status = "linked", !.joins = FALSE] \in Link
  BY DEF BooksInv, BooksOK, Offered, HasLink, Link
<1>4. DOMAIN team' = DOMAIN team /\ \A w \in DOMAIN team : team'[w] \in Member
  BY <1>1, <1>2 DEF BooksInv, BooksOK
<1>5. links' \in [MemberId -> Link \cup {Nobody}]
  BY <1>1, <1>3 DEF BooksInv, BooksOK
<1>6. \A w \in MemberId : links'[w] # Nobody => links[w] # Nobody
  BY <1>1, <1>3
<1>7. BooksInv'
  BY <1>1, <1>4, <1>5, <1>6 DEF BooksInv, BooksOK, LinksHaveWorkers, HasLink, IsMember
<1>8. \A w \in DOMAIN team :
        ~team[w].active /\ team'[w].active => links[w].agreement \in finals
  BY <1>1 DEF Accepted
<1>. QED  BY <1>4, <1>7, <1>8

-----------------------------------------------------------------------------
(* The steps, one after the other.                                         *)

LEMMA BooksStep ==
  ASSUME BooksInv, FlowsOK, ScanInv, ChainInv, [HiringNext]_hiringVars
  PROVE  BooksInv'
<1>. USE DEF BooksInv
<1>1. ASSUME NEW person \in Person, AddTyped(person)
      PROVE  BooksInv'
  BY <1>1, Adding DEF AddTyped, BooksOK, LinksHaveWorkers, HasLink, IsMember
<1>2. ASSUME NEW w \in DOMAIN team, ToggleActive(w)
      PROVE  BooksInv'
  <2>1. \A m \in Member : [m EXCEPT !.active = ~@] \in Member
    BY DEF Member
  <2>2. team' = [team EXCEPT ![w] = [team[w] EXCEPT !.active = ~@]]
    BY <1>2 DEF ToggleActive
  <2>3. UNCHANGED <<links, nextMember>>
    BY <1>2 DEF ToggleActive
  <2>4. DOMAIN team' = DOMAIN team /\ \A v \in DOMAIN team : team'[v] \in Member
    BY <2>1, <2>2 DEF BooksOK
  <2>. QED  BY <2>3, <2>4, Changing
<1>3. ASSUME NEW w \in DOMAIN team, Remove(w)
      PROVE  BooksInv'
  BY <1>3, Removing DEF Remove
<1>4. ASSUME NEW w \in DOMAIN team, Pay(w)
      PROVE  BooksInv'
  <2>1. \A m \in Member : [m EXCEPT !.paid = TRUE] \in Member
    BY DEF Member
  <2>2. team' = [team EXCEPT ![w] = [team[w] EXCEPT !.paid = TRUE]]
    BY <1>4 DEF Pay
  <2>3. UNCHANGED <<links, nextMember>>
    BY <1>4 DEF Pay
  <2>4. DOMAIN team' = DOMAIN team /\ \A v \in DOMAIN team : team'[v] \in Member
    BY <2>1, <2>2 DEF BooksOK
  <2>. QED  BY <2>3, <2>4, Changing
<1>5. ASSUME NEW f \in flows, SeeWithdrawn(f)
      PROVE  BooksInv'
  BY <1>5, Dropping DEF SeeWithdrawn
<1>6. ASSUME NEW f \in flows, SeeSent(f)
      PROVE  BooksInv'
  <2>1. f \in Running
    BY DEF FlowsOK
  <2>2. f.id \in Flow /\ f.person \in Person /\ f.joins \in BOOLEAN
    BY <2>1 DEF Running
  <2>3. CASE HireByOffer(f)
    BY <2>2, <2>3, Joining DEF HireByOffer
  <2>4. CASE RecordOffer(f) /\ IsMember(f.member)
    <3>1. SetLink(f.member, f.id, "offered", f.joins) /\ UNCHANGED <<team, nextMember>>
      BY <2>4 DEF RecordOffer
    <3>2. f.member \in MemberId
      BY <2>4, MemberIds DEF IsMember
    <3>3. /\ links' \in [MemberId -> Link \cup {Nobody}]
          /\ \A v \in MemberId : v # f.member => links'[v] = links[v]
      BY <2>2, <3>1, <3>2, Linking
    <3>. QED  BY <2>4, <3>1, <3>3 DEF BooksOK, LinksHaveWorkers, HasLink, IsMember
  <2>5. CASE UNCHANGED books
    BY <2>5 DEF books, BooksOK, LinksHaveWorkers, HasLink, IsMember
  <2>. QED  BY <1>6, <2>3, <2>4, <2>5 DEF SeeSent, RecordOffer
<1>7. ASSUME NEW f \in flows, FailSend(f)
      PROVE  BooksInv'
  <2>1. CASE RemoveFromTeam(f.member)
    BY <2>1, Removing
  <2>2. CASE UNCHANGED books
    BY <2>2 DEF books, BooksOK, LinksHaveWorkers, HasLink, IsMember
  <2>. QED  BY <1>7, <2>1, <2>2 DEF FailSend
<1>8. CASE ApplyFinals
  BY <1>8, Accepting DEF ApplyFinals
<1>9. ASSUME NEW a \in Flow, AddFromRow(a)
      PROVE  BooksInv'
  <2>1. a \in scan.rows /\ agreement[a].person \in Person
    BY <1>9 DEF AddFromRow, Importable, ScanInv, RowsHavePeople
  <2>. QED  BY <1>9, <2>1, Joining DEF AddFromRow
<1>10. ASSUME NEW a \in Flow, NEW w \in DOMAIN team, MatchRow(a, w)
       PROVE  BooksInv'
  <2>1. w \in MemberId
    BY MemberIds
  <2>2. SetLink(w, a, "linked", FALSE) /\ UNCHANGED <<team, nextMember>>
    BY <1>10 DEF MatchRow
  <2>3. /\ links' \in [MemberId -> Link \cup {Nobody}]
        /\ \A v \in MemberId : v # w => links'[v] = links[v]
    BY <2>1, <2>2, Linking
  <2>. QED  BY <2>2, <2>3 DEF BooksOK, LinksHaveWorkers, HasLink, IsMember
<1>11. CASE UNCHANGED books
  BY <1>11 DEF books, BooksOK, LinksHaveWorkers, HasLink, IsMember
<1>12. ASSUME ChainNext \/ CloseTab \/ ReadRecords \/ ReadRest \/ FailImport
       PROVE  UNCHANGED books
  BY <1>12 DEF ChainNext, LandCreate, LandClose, AcceptOffer, CloseTab, ReadRecords,
     ReadRest, FailImport
<1>13. ASSUME NEW f \in flows, FailWithdrawal(f) \/ Submit(f)
       PROVE  UNCHANGED books
  BY <1>13 DEF FailWithdrawal, Submit
<1>14. ASSUME NEW person \in Person, StartHire(person)
       PROVE  UNCHANGED books
  BY <1>14 DEF StartHire, Start
<1>15. ASSUME NEW w \in DOMAIN team, StartOffer(w) \/ StartWithdraw(w) \/ StartRevise(w)
       PROVE  UNCHANGED books
  BY <1>15 DEF StartOffer, StartWithdraw, StartRevise, StartClosing, Start
<1>16. CASE UNCHANGED hiringVars
  BY <1>11, <1>16 DEF hiringVars
<1>. QED
  BY <1>1, <1>2, <1>3, <1>4, <1>5, <1>6, <1>7, <1>8, <1>9, <1>10, <1>11, <1>12, <1>13,
     <1>14, <1>15, <1>16 DEF HiringNext, TeamNext, FlowNext, ImportNext

LEMMA FlowsStep ==
  ASSUME BooksInv, FlowsOK, [HiringNext]_hiringVars
  PROVE  FlowsOK'
<1>1. ASSUME NEW kind \in {"hire", "offer", "withdraw", "revise"}, NEW person \in Person,
             NEW w \in 0..MaxMembers, NEW joins \in BOOLEAN,
             NEW step \in {"withdrawing", "sending", "waiting"},
             Start(kind, person, w, joins, step)
      PROVE  FlowsOK'
  <2>. DEFINE new == [id |-> nextFlow, kind |-> kind, person |-> person, member |-> w,
                      joins |-> joins, step |-> step]
  <2>1. nextFlow \in Flow
    BY <1>1 DEF Start, FlowsOK, Flow
  <2>2. new \in Running /\ new.id = nextFlow
    BY <2>1 DEF Running
  <2>3. flows' = flows \cup {new} /\ nextFlow' = nextFlow + 1
    BY <1>1 DEF Start
  <2>. HIDE DEF new
  <2>4. \A f \in flows : f.id \in Flow /\ f.id < nextFlow
    BY DEF FlowsOK, Running
  <2>. QED  BY <2>1, <2>2, <2>3, <2>4 DEF FlowsOK, Flow
<1>2. ASSUME NEW f \in flows, NEW step \in {"withdrawing", "sending", "waiting"},
             GoesOn(f, step), UNCHANGED nextFlow
      PROVE  FlowsOK'
  <2>. DEFINE new == [f EXCEPT !.step = step]
  <2>1. new \in Running /\ new.id = f.id
    BY DEF FlowsOK, Running
  <2>2. flows' = (flows \ {f}) \cup {new}
    BY <1>2 DEF GoesOn
  <2>. HIDE DEF new
  <2>. QED  BY <1>2, <2>1, <2>2 DEF FlowsOK
<1>3. ASSUME flows' \subseteq flows, UNCHANGED nextFlow
      PROVE  FlowsOK'
  BY <1>3 DEF FlowsOK
<1>4. ASSUME NEW person \in Person, StartHire(person)
      PROVE  FlowsOK'
  <2>1. 0 \in 0..MaxMembers
    OBVIOUS
  <2>2. Start("hire", person, 0, TRUE, "sending")
    BY <1>4 DEF StartHire
  <2>. QED  BY ONLY <1>1, <2>1, <2>2, Zenon
<1>5. ASSUME NEW w \in DOMAIN team, StartOffer(w) \/ StartWithdraw(w) \/ StartRevise(w)
      PROVE  FlowsOK'
  <2>1. w \in MemberId /\ w \in 0..MaxMembers /\ team[w].person \in Person
    BY MemberIds DEF MemberId, BooksInv, BooksOK, Member
  <2>2. HasLink(w) => links[w].joins \in BOOLEAN
    BY <2>1 DEF HasLink, BooksInv, BooksOK, Link
  <2>3. CASE StartOffer(w)
    <3>1. Start("offer", team[w].person, w, FALSE, "sending")
      BY <2>3 DEF StartOffer
    <3>. QED  BY ONLY <1>1, <2>1, <3>1, Zenon
  <2>4. CASE StartWithdraw(w) \/ StartRevise(w)
    <3>1. PICK kind \in {"withdraw", "revise"} :
            Start(kind, team[w].person, w, links[w].joins, "withdrawing") /\ HasLink(w)
      BY <2>4 DEF StartWithdraw, StartRevise, StartClosing, Offered
    <3>. QED  BY ONLY <1>1, <2>1, <2>2, <3>1, Zenon
  <2>. QED  BY <1>5, <2>3, <2>4
<1>6. ASSUME NEW f \in flows, SeeWithdrawn(f) \/ Submit(f)
      PROVE  FlowsOK'
  BY <1>2, <1>3, <1>6 DEF SeeWithdrawn, Submit, Ends
<1>7. ASSUME NEW f \in flows, FailWithdrawal(f) \/ SeeSent(f) \/ FailSend(f)
      PROVE  FlowsOK'
  BY <1>3, <1>7 DEF FailWithdrawal, SeeSent, FailSend, Ends
<1>8. CASE TeamNext \/ ImportNext \/ ChainNext \/ CloseTab
  BY <1>3, <1>8 DEF TeamNext, AddTyped, ToggleActive, Remove, Pay, NotTheTeam, tab,
     ImportNext, ReadRecords, ReadRest, ApplyFinals, FailImport, AddFromRow, MatchRow,
     ChainNext, LandCreate, LandClose, AcceptOffer, CloseTab
<1>9. CASE UNCHANGED hiringVars
  BY <1>3, <1>9 DEF hiringVars, tab
<1>. QED
  BY <1>4, <1>5, <1>6, <1>7, <1>8, <1>9 DEF HiringNext, FlowNext

\* What is on the chain stays somebody's.
LEMMA ChainStep ==
  ASSUME BooksInv, FlowsOK, ChainInv, [HiringNext]_hiringVars
  PROVE  /\ ChainInv'
         /\ final \subseteq final'
         /\ \A n \in Flow : agreement[n].person \in Person => agreement'[n].person \in Person
<1>. USE DEF ChainInv
<1>1. ASSUME UNCHANGED <<createTx, agreement, final>>, closeTx' \in [Flow -> [of : 0..MaxFlows, state : Tx]]
      PROVE  ChainInv'
  BY <1>1 DEF ChainOK, MadeForSomeone
<1>2. ASSUME NEW w \in DOMAIN team, StartWithdraw(w) \/ StartRevise(w)
      PROVE  ChainInv' /\ UNCHANGED <<agreement, final>>
  <2>1. UNCHANGED <<createTx, agreement, final>>
    BY <1>2 DEF StartWithdraw, StartRevise, StartClosing, Start
  <2>2. closeTx' = [closeTx EXCEPT ![nextFlow] = [of |-> links[w].agreement, state |-> "out"]]
        /\ HasLink(w)
    BY <1>2 DEF StartWithdraw, StartRevise, StartClosing, Offered
  <2>3. w \in MemberId
    BY MemberIds DEF BooksInv
  <2>4. links[w].agreement \in 0..MaxFlows
    BY <2>2, <2>3 DEF HasLink, BooksInv, BooksOK, Link, Flow
  <2>5. [of |-> links[w].agreement, state |-> "out"] \in [of : 0..MaxFlows, state : Tx]
    BY <2>4 DEF Tx
  <2>6. closeTx' \in [Flow -> [of : 0..MaxFlows, state : Tx]]
    BY <2>2, <2>5 DEF ChainOK
  <2>. QED  BY <1>1, <2>1, <2>6
<1>3. ASSUME NEW f \in flows, Submit(f)
      PROVE  /\ ChainInv'
             /\ final \subseteq final'
             /\ \A n \in Flow : agreement[n].person \in Person => agreement'[n].person \in Person
  <2>1. f.id \in Flow /\ f.person \in Person
    BY DEF FlowsOK, Running
  <2>2. /\ createTx' = [createTx EXCEPT ![f.id] = "out"]
        /\ agreement' = [agreement EXCEPT ![f.id].person = f.person]
        /\ UNCHANGED <<closeTx, final>>
    BY <1>3 DEF Submit
  <2>. QED  BY <2>1, <2>2 DEF ChainOK, MadeForSomeone, Agreement, Tx
<1>4. ASSUME NEW n \in Flow, LandCreate(n)
      PROVE  /\ ChainInv'
             /\ final \subseteq final'
             /\ \A m \in Flow : agreement[m].person \in Person => agreement'[m].person \in Person
  <2>1. agreement[n] \in Agreement /\ agreement[n].person \in Person
    BY <1>4 DEF LandCreate, ChainOK, MadeForSomeone
  <2>2. [agreement[n] EXCEPT !.status = "pending"] \in Agreement
        /\ [agreement[n] EXCEPT !.status = "pending"].person = agreement[n].person
    BY <2>1 DEF Agreement
  <2>3. \/ agreement' = [agreement EXCEPT ![n] = [agreement[n] EXCEPT !.status = "pending"]]
        \/ UNCHANGED agreement
    BY <1>4 DEF LandCreate
  <2>4. agreement' \in [Flow -> Agreement]
        /\ \A m \in Flow : /\ agreement'[m].person = agreement[m].person
                           /\ m # n => agreement'[m] = agreement[m]
    BY <2>2, <2>3 DEF ChainOK
  <2>5. /\ createTx' \in [Flow -> Tx]
        /\ \A m \in Flow : m # n => createTx'[m] = createTx[m]
        /\ UNCHANGED <<closeTx, final>>
    BY <1>4 DEF LandCreate, ChainOK, Tx
  <2>6. MadeForSomeone'
    BY <2>1, <2>4, <2>5 DEF MadeForSomeone
  <2>. QED  BY <2>4, <2>5, <2>6 DEF ChainOK
<1>5. ASSUME NEW n \in Flow, LandClose(n)
      PROVE  /\ ChainInv'
             /\ final \subseteq final'
             /\ \A m \in Flow : agreement[m].person \in Person => agreement'[m].person \in Person
  <2>. DEFINE a == closeTx[n].of
  <2>1. CASE UNCHANGED agreement
    <3>1. closeTx' = [closeTx EXCEPT ![n].state = "rejected"]
          \/ closeTx' = [closeTx EXCEPT ![n].state = "accepted"]
      BY <1>5 DEF LandClose
    <3>2. closeTx' \in [Flow -> [of : 0..MaxFlows, state : Tx]]
      BY <3>1 DEF ChainOK, Tx
    <3>. QED  BY <1>1, <1>5, <2>1, <3>2 DEF LandClose
  <2>2. CASE /\ agreement[a].status \in {"pending", "active"}
             /\ closeTx' = [closeTx EXCEPT ![n].state = "accepted"]
             /\ agreement' = [agreement EXCEPT ![a].status = "terminated"]
    <3>1. closeTx' \in [Flow -> [of : 0..MaxFlows, state : Tx]]
      BY <2>2 DEF ChainOK, Tx
    <3>2. UNCHANGED <<createTx, final>>
      BY <1>5 DEF LandClose
    <3>3. agreement' \in [Flow -> Agreement]
      BY ZenonT(40), <2>2 DEF ChainOK, Agreement
    <3>4. \A m \in Flow : /\ agreement'[m].person = agreement[m].person
                          /\ m # a => agreement'[m] = agreement[m]
      BY <2>2 DEF ChainOK, Agreement
    <3>5. MadeForSomeone'
      BY <2>2, <3>2, <3>4 DEF MadeForSomeone
    <3>. QED  BY <3>1, <3>2, <3>3, <3>4, <3>5 DEF ChainOK
  <2>. QED  BY <1>5, <2>1, <2>2 DEF LandClose
<1>6. ASSUME NEW n \in Flow, AcceptOffer(n)
      PROVE  /\ ChainInv'
             /\ final \subseteq final'
             /\ \A m \in Flow : agreement[m].person \in Person => agreement'[m].person \in Person
  BY <1>6 DEF AcceptOffer, ChainOK, MadeForSomeone, Agreement
<1>7. ASSUME UNCHANGED chain
      PROVE  /\ ChainInv'
             /\ UNCHANGED <<agreement, final>>
  BY <1>7 DEF chain, ChainOK, MadeForSomeone
<1>8. ASSUME TeamNext \/ ImportNext \/ CloseTab
      PROVE  UNCHANGED chain
  BY <1>8 DEF TeamNext, AddTyped, ToggleActive, Remove, Pay, NotTheTeam, chain,
     ImportNext, ReadRecords, ReadRest, ApplyFinals, FailImport, AddFromRow, MatchRow, CloseTab
<1>9. ASSUME NEW f \in flows, SeeWithdrawn(f) \/ FailWithdrawal(f) \/ SeeSent(f) \/ FailSend(f)
      PROVE  UNCHANGED chain
  BY <1>9 DEF SeeWithdrawn, FailWithdrawal, SeeSent, FailSend, chain
<1>10. ASSUME NEW person \in Person, StartHire(person)
       PROVE  UNCHANGED chain
  BY <1>10 DEF StartHire, Start, chain
<1>11. ASSUME NEW w \in DOMAIN team, StartOffer(w)
       PROVE  UNCHANGED chain
  BY <1>11 DEF StartOffer, Start, chain
<1>12. CASE UNCHANGED hiringVars
  BY <1>7, <1>12 DEF hiringVars
<1>. QED
  BY <1>2, <1>3, <1>4, <1>5, <1>6, <1>7, <1>8, <1>9, <1>10, <1>11, <1>12
     DEF HiringNext, FlowNext, ChainNext

LEMMA ScanStep ==
  ASSUME HiringInv, [HiringNext]_hiringVars
  PROVE  ScanInv'
<1>. USE DEF ScanInv, HiringInv
<1>1. /\ final \subseteq final'
      /\ \A n \in Flow : agreement[n].person \in Person => agreement'[n].person \in Person
  BY ChainStep
<1>2. ASSUME UNCHANGED scan
      PROVE  ScanInv'
  BY <1>1, <1>2 DEF ScanOK, FinalsStay, RowsHavePeople, Scan
<1>3. ASSUME NEW rows \in SUBSET Flow, NEW finals \in SUBSET final,
             NEW step \in {"rows", "finals", "read", "applied"},
             \A a \in rows : agreement[a].person \in Person,
             UNCHANGED chain,
             scan' = [rows |-> rows, finals |-> finals, step |-> step]
      PROVE  ScanInv'
  BY <1>3 DEF chain, ScanOK, FinalsStay, RowsHavePeople, Scan, ChainInv, ChainOK
<1>4. CASE ReadRecords \/ ReadRest
  <2>1. UNCHANGED chain /\ final \subseteq Flow
    BY <1>4 DEF ReadRecords, ReadRest, ChainInv, ChainOK
  <2>2. \A rows \in SUBSET Flow : MayRead(rows) =>
          \A a \in rows : agreement[a].person \in Person
    BY DEF MayRead, ChainInv, ChainOK, MadeForSomeone
  <2>3. CASE ReadRecords
    <3>1. CASE scan' = [rows |-> {}, finals |-> final, step |-> "rows"]
      <4>1. {} \in SUBSET Flow /\ final \in SUBSET final
        OBVIOUS
      <4>2. \A a \in {} : agreement[a].person \in Person
        OBVIOUS
      <4>. QED  BY <1>3, <2>1, <3>1, <4>1, <4>2
    <3>2. ASSUME NEW rows \in SUBSET Flow, MayRead(rows),
                 scan' = [rows |-> rows, finals |-> {}, step |-> "finals"]
          PROVE  ScanInv'
      BY <1>3, <2>1, <2>2, <3>2
    <3>. QED  BY <2>3, <3>1, <3>2 DEF ReadRecords
  <2>4. CASE ReadRest
    <3>0. /\ scan \in Scan /\ scan.finals \subseteq final /\ scan.rows \in SUBSET Flow
          /\ \A a \in scan.rows : agreement[a].person \in Person
      BY <2>4 DEF ReadRest, ScanOK, FinalsStay, RowsHavePeople, Scan
    <3>1. ASSUME NEW rows \in SUBSET Flow, MayRead(rows),
                 scan' = [scan EXCEPT !.rows = rows, !.step = "read"]
          PROVE  ScanInv'
      <4>1. scan' = [rows |-> rows, finals |-> scan.finals, step |-> "read"]
        BY <3>0, <3>1 DEF Scan
      <4>. QED  BY <1>3, <2>1, <2>2, <3>0, <3>1, <4>1
    <3>2. CASE scan' = [scan EXCEPT !.finals = final, !.step = "read"]
      <4>1. scan' = [rows |-> scan.rows, finals |-> final, step |-> "read"]
        BY <3>0, <3>2 DEF Scan
      <4>. QED  BY <1>3, <2>1, <3>0, <4>1
    <3>. QED  BY <2>4, <3>1, <3>2 DEF ReadRest
  <2>. QED  BY <1>4, <2>3, <2>4
<1>11. CASE ApplyFinals
  <2>1. /\ scan \in Scan /\ scan' = [scan EXCEPT !.finals = {}, !.step = "applied"]
        /\ scan # Nobody /\ UNCHANGED chain
    BY <1>11 DEF ApplyFinals, ScanOK
  <2>2. scan' = [rows |-> scan.rows, finals |-> {}, step |-> "applied"]
        /\ scan.rows \in SUBSET Flow
    BY <2>1 DEF Scan
  <2>3. \A a \in scan.rows : agreement[a].person \in Person
    BY <2>1 DEF RowsHavePeople
  <2>. QED  BY <1>3, <2>1, <2>2, <2>3
<1>12. CASE FailImport
  BY <1>12 DEF FailImport, ScanOK, FinalsStay, RowsHavePeople
<1>5. CASE CloseTab
  BY <1>5 DEF CloseTab, ScanOK, FinalsStay, RowsHavePeople
<1>6. ASSUME TeamNext \/ ChainNext \/ UNCHANGED hiringVars
      PROVE  UNCHANGED scan
  BY <1>6 DEF TeamNext, AddTyped, ToggleActive, Remove, Pay, NotTheTeam, tab, hiringVars,
     ChainNext, LandCreate, LandClose, AcceptOffer
<1>7. ASSUME NEW a \in Flow, AddFromRow(a) \/ \E w \in DOMAIN team : MatchRow(a, w)
      PROVE  UNCHANGED scan
  BY <1>7 DEF AddFromRow, MatchRow, tab
<1>8. ASSUME NEW f \in flows,
             SeeWithdrawn(f) \/ FailWithdrawal(f) \/ Submit(f) \/ SeeSent(f) \/ FailSend(f)
      PROVE  UNCHANGED scan
  BY <1>8 DEF SeeWithdrawn, FailWithdrawal, Submit, SeeSent, FailSend
<1>9. ASSUME NEW person \in Person, StartHire(person)
      PROVE  UNCHANGED scan
  BY <1>9 DEF StartHire, Start
<1>10. ASSUME NEW w \in DOMAIN team, StartOffer(w) \/ StartWithdraw(w) \/ StartRevise(w)
       PROVE  UNCHANGED scan
  BY <1>10 DEF StartOffer, StartWithdraw, StartRevise, StartClosing, Start
<1>. QED
  BY <1>2, <1>4, <1>5, <1>6, <1>7, <1>8, <1>9, <1>10, <1>11, <1>12
     DEF HiringNext, FlowNext, ImportNext

\* Nobody an offer is hiring becomes active before it is accepted.
LEMMA JoiningStep ==
  ASSUME HiringInv, HiringNext, NEW w \in DOMAIN team, IsOfferOut(w), ~team[w].active,
         w \in DOMAIN team', team'[w].active
  PROVE  links[w].agreement \in final
<1>. USE DEF HiringInv, BooksInv
<1>1. \A v \in DOMAIN team : team[v] \in Member
  BY DEF BooksOK
<1>2. ASSUME UNCHANGED team
      PROVE  FALSE
  BY <1>2
<1>3. ASSUME NEW person \in Person, NEW active \in BOOLEAN, AddMember(person, active)
      PROVE  FALSE
  BY <1>3, Adding
<1>4. ASSUME NEW v, RemoveMember(v) \/ RemoveFromTeam(v) \/ DropOffer(v)
      PROVE  FALSE
  BY <1>4 DEF RemoveMember, RemoveFromTeam, DropOffer
<1>5. ASSUME NEW v \in DOMAIN team, ToggleActive(v)
      PROVE  FALSE
  BY <1>5, <1>1 DEF ToggleActive
<1>6. ASSUME NEW v \in DOMAIN team, Pay(v)
      PROVE  FALSE
  BY <1>6, <1>1 DEF Pay, Member
<1>7. CASE TeamNext
  BY <1>3, <1>4, <1>5, <1>6, <1>7 DEF TeamNext, AddTyped, Remove
<1>8. ASSUME NEW f \in flows,
             SeeWithdrawn(f) \/ FailWithdrawal(f) \/ Submit(f) \/ FailSend(f)
      PROVE  FALSE
  BY <1>2, <1>4, <1>8 DEF SeeWithdrawn, FailWithdrawal, Submit, FailSend, books
<1>9. ASSUME NEW f \in flows, SeeSent(f)
      PROVE  FALSE
  <2>1. f.person \in Person
    BY DEF FlowsOK, Running
  <2>. QED  BY <1>2, <1>3, <1>9, <2>1 DEF SeeSent, HireByOffer, RecordOffer, books
<1>10. CASE FlowNext
  <2>1. \A person \in Person : StartHire(person) => UNCHANGED team
    BY DEF StartHire, Start, books
  <2>2. \A v \in DOMAIN team :
          StartOffer(v) \/ StartWithdraw(v) \/ StartRevise(v) => UNCHANGED team
    BY DEF StartOffer, StartWithdraw, StartRevise, StartClosing, Start, books
  <2>3. CloseTab => UNCHANGED team
    BY DEF CloseTab, books
  <2>. QED  BY <1>2, <1>8, <1>9, <1>10, <2>1, <2>2, <2>3 DEF FlowNext
<1>11. CASE ImportNext
  <2>1. CASE ApplyFinals
    <3>1. links[w].agreement \in scan.finals /\ scan # Nobody
      BY <2>1, Accepting DEF ApplyFinals
    <3>. QED  BY <3>1 DEF ScanInv, FinalsStay
  <2>2. ASSUME NEW a \in Flow, AddFromRow(a)
        PROVE  FALSE
    <3>1. agreement[a].person \in Person
      BY <2>2 DEF AddFromRow, Importable, ScanInv, RowsHavePeople
    <3>. QED  BY <1>3, <2>2, <3>1 DEF AddFromRow
  <2>3. ReadRecords \/ ReadRest \/ FailImport => UNCHANGED team
    BY DEF ReadRecords, ReadRest, FailImport, books
  <2>4. \A a \in Flow, v \in DOMAIN team : MatchRow(a, v) => UNCHANGED team
    BY DEF MatchRow
  <2>. QED  BY <1>2, <1>11, <2>1, <2>2, <2>3, <2>4 DEF ImportNext
<1>12. CASE ChainNext
  BY <1>2, <1>12 DEF ChainNext, LandCreate, LandClose, AcceptOffer, books
<1>. QED  BY <1>7, <1>10, <1>11, <1>12 DEF HiringNext

-----------------------------------------------------------------------------
(* The life of the transactions, for what leaves the books.                *)

FreshUntilSubmitted ==
  /\ \A n \in Flow : n >= nextFlow => createTx[n] = "none"
  /\ \A f \in flows : f.step # "waiting" => createTx[f.id] = "none"
MadeByItsCreate == \A n \in Flow : agreement[n].status # "none" => createTx[n] = "accepted"
ClosedIsEnded ==
  \A n \in Flow :
    /\ closeTx[n].state # "none" => closeTx[n].of \in Flow
    /\ closeTx[n].state = "accepted" => agreement[closeTx[n].of].status = "terminated"

\* An agreement is made once, by its own transaction, and one that was ended stays so.
TxInv == FreshUntilSubmitted /\ MadeByItsCreate /\ ClosedIsEnded

LEMMA FreshStep ==
  ASSUME HiringInv, HiringInv', FreshUntilSubmitted, MadeByItsCreate, [HiringNext]_hiringVars
  PROVE  FreshUntilSubmitted'
<1>. USE DEF FreshUntilSubmitted
<1>0. /\ nextFlow \in 1..(MaxFlows + 1) /\ createTx \in [Flow -> Tx]
      /\ \A f \in flows : f \in Running /\ f.id \in Flow /\ f.id < nextFlow
      /\ \A f, g \in flows : f.id = g.id => f = g
  BY DEF HiringInv, FlowsOK, ChainInv, ChainOK, Running
<1>1. ASSUME NEW kind, NEW person, NEW w, NEW joins, NEW step, Start(kind, person, w, joins, step)
      PROVE  FreshUntilSubmitted'
  <2>. DEFINE new == [id |-> nextFlow, kind |-> kind, person |-> person, member |-> w,
                      joins |-> joins, step |-> step]
  <2>1. /\ nextFlow \in Flow /\ new.id = nextFlow
        /\ flows' = flows \cup {new} /\ nextFlow' = nextFlow + 1 /\ UNCHANGED createTx
    BY <1>0, <1>1 DEF Start, Flow
  <2>. HIDE DEF new
  <2>. QED  BY <1>0, <2>1 DEF Flow
<1>2. ASSUME NEW f \in flows, f.step = "withdrawing", GoesOn(f, "sending"), UNCHANGED <<createTx, nextFlow>>
      PROVE  FreshUntilSubmitted'
  <2>. DEFINE new == [f EXCEPT !.step = "sending"]
  <2>1. new.id = f.id /\ flows' = (flows \ {f}) \cup {new}
    BY <1>0, <1>2 DEF GoesOn, Running
  <2>. HIDE DEF new
  <2>. QED  BY <1>2, <2>1
<1>3. ASSUME NEW f \in flows, Submit(f)
      PROVE  FreshUntilSubmitted'
  <2>. DEFINE new == [f EXCEPT !.step = "waiting"]
  <2>1. /\ new.step = "waiting" /\ flows' = (flows \ {f}) \cup {new}
        /\ createTx' = [createTx EXCEPT ![f.id] = "out"] /\ UNCHANGED nextFlow
    BY <1>0, <1>3 DEF Submit, GoesOn, Running
  <2>. HIDE DEF new
  <2>2. \A g \in flows' : g.step # "waiting" => g \in flows /\ g.id # f.id
    BY <1>0, <2>1
  <2>3. \A n \in Flow : n >= nextFlow => n # f.id
    BY <1>0 DEF Flow
  <2>. QED  BY <1>0, <2>1, <2>2, <2>3
<1>4. ASSUME NEW n \in Flow, LandCreate(n)
      PROVE  FreshUntilSubmitted'
  <2>1. /\ createTx[n] = "out" /\ UNCHANGED <<flows, nextFlow>>
        /\ \A m \in Flow : m # n => createTx'[m] = createTx[m]
    BY <1>0, <1>4 DEF LandCreate, tab
  <2>. QED  BY <1>0, <2>1
<1>5. ASSUME flows' \subseteq flows, UNCHANGED <<createTx, nextFlow>>
      PROVE  FreshUntilSubmitted'
  BY <1>5
<1>6. ASSUME NEW f \in flows, SeeWithdrawn(f) \/ FailWithdrawal(f) \/ SeeSent(f) \/ FailSend(f)
      PROVE  FreshUntilSubmitted'
  BY <1>2, <1>5, <1>6 DEF SeeWithdrawn, MaySeeWithdrawn, FailWithdrawal, SeeSent, FailSend, Ends, chain
<1>7. ASSUME \/ \E person \in Person : StartHire(person)
             \/ \E w \in DOMAIN team : StartOffer(w) \/ StartWithdraw(w) \/ StartRevise(w)
      PROVE  FreshUntilSubmitted'
  BY <1>1, <1>7 DEF StartHire, StartOffer, StartWithdraw, StartRevise, StartClosing
<1>8. ASSUME NEW n \in Flow, LandClose(n) \/ AcceptOffer(n)
      PROVE  FreshUntilSubmitted'
  BY <1>5, <1>8 DEF LandClose, AcceptOffer, tab
<1>9. CASE TeamNext \/ ImportNext \/ CloseTab \/ UNCHANGED hiringVars
  BY <1>5, <1>9 DEF TeamNext, AddTyped, ToggleActive, Remove, Pay, NotTheTeam, tab, chain, hiringVars,
     ImportNext, ReadRecords, ReadRest, ApplyFinals, FailImport, AddFromRow, MatchRow, CloseTab
<1>. QED
  BY <1>3, <1>4, <1>6, <1>7, <1>8, <1>9 DEF HiringNext, FlowNext, ChainNext

LEMMA ClosingStep ==
  ASSUME HiringInv, HiringInv', TxInv, [HiringNext]_hiringVars
  PROVE  MadeByItsCreate' /\ ClosedIsEnded'
<1>. USE DEF MadeByItsCreate, ClosedIsEnded
<1>. DEFINE Goal == MadeByItsCreate' /\ ClosedIsEnded'
<1>0. /\ createTx \in [Flow -> Tx] /\ agreement \in [Flow -> Agreement]
      /\ closeTx \in [Flow -> [of : 0..MaxFlows, state : Tx]]
      /\ nextFlow \in 1..(MaxFlows + 1)
      /\ MadeByItsCreate /\ ClosedIsEnded
  BY DEF HiringInv, FlowsOK, ChainInv, ChainOK, TxInv
<1>1. ASSUME NEW w \in DOMAIN team, StartWithdraw(w) \/ StartRevise(w)
      PROVE  Goal
  <2>1. /\ HasLink(w) /\ nextFlow \in Flow /\ UNCHANGED <<createTx, agreement>>
        /\ closeTx' = [closeTx EXCEPT ![nextFlow] = [of |-> links[w].agreement, state |-> "out"]]
    BY <1>0, <1>1 DEF StartWithdraw, StartRevise, StartClosing, Start, Offered, Flow
  <2>2. links[w].agreement \in Flow
    BY <2>1, MemberIds DEF HasLink, HiringInv, BooksInv, BooksOK, Link
  <2>. QED  BY <1>0, <2>1, <2>2
<1>2. ASSUME NEW f \in flows, Submit(f)
      PROVE  Goal
  <2>1. /\ f.id \in Flow /\ createTx[f.id] = "none"
        /\ createTx' = [createTx EXCEPT ![f.id] = "out"] /\ UNCHANGED closeTx
        /\ agreement' = [agreement EXCEPT ![f.id].person = f.person]
    BY <1>2 DEF Submit, HiringInv, FlowsOK, Running, TxInv, FreshUntilSubmitted
  <2>2. \A n \in Flow : agreement'[n].status = agreement[n].status
    BY <1>0, <2>1 DEF Agreement
  <2>3. agreement[f.id].status = "none"
    BY <1>0, <2>1
  <2>. QED  BY <1>0, <2>1, <2>2, <2>3
<1>3. ASSUME NEW n \in Flow, LandCreate(n)
      PROVE  Goal
  <2>1. /\ createTx[n] = "out" /\ UNCHANGED closeTx
        /\ \/ createTx' = [createTx EXCEPT ![n] = "accepted"]
           \/ createTx' = [createTx EXCEPT ![n] = "rejected"] /\ UNCHANGED agreement
        /\ \A m \in Flow : m # n => agreement'[m] = agreement[m]
    BY <1>0, <1>3 DEF LandCreate
  <2>2. agreement[n].status = "none"
    BY <1>0, <2>1
  <2>3. MadeByItsCreate'
    BY <1>0, <2>1, <2>2
  <2>4. \A m \in Flow : closeTx[m].state = "accepted" => closeTx[m].of # n
    BY <1>0, <2>2
  <2>. QED  BY <1>0, <2>1, <2>3, <2>4
<1>4. ASSUME NEW n \in Flow, LandClose(n)
      PROVE  Goal
  <2>. DEFINE a == closeTx[n].of
  <2>1. a \in Flow /\ closeTx[n].state = "out" /\ UNCHANGED createTx
    BY <1>0, <1>4 DEF LandClose
  <2>2. CASE /\ agreement[a].status \in {"pending", "active"}
             /\ closeTx' = [closeTx EXCEPT ![n].state = "accepted"]
             /\ agreement' = [agreement EXCEPT ![a].status = "terminated"]
    <3>1. /\ agreement'[a].status = "terminated"
          /\ \A m \in Flow : m # a => agreement'[m] = agreement[m]
      BY <1>0, <2>1, <2>2 DEF Agreement
    <3>2. /\ closeTx'[n].of = a
          /\ \A m \in Flow : m # n => closeTx'[m] = closeTx[m]
      BY <1>0, <2>1, <2>2
    <3>3. \A m \in Flow : agreement'[m].status # "none" => agreement[m].status # "none"
      BY <2>2, <3>1
    <3>. QED  BY <1>0, <2>1, <3>1, <3>2, <3>3
  <2>3. CASE closeTx' = [closeTx EXCEPT ![n].state = "rejected"] /\ UNCHANGED agreement
    <3>1. /\ closeTx'[n].of = a /\ closeTx'[n].state = "rejected"
          /\ \A m \in Flow : m # n => closeTx'[m] = closeTx[m]
      BY <1>0, <2>3
    <3>. QED  BY <1>0, <2>1, <2>3, <3>1
  <2>. QED  BY <1>4, <2>2, <2>3 DEF LandClose
<1>5. ASSUME NEW n \in Flow, AcceptOffer(n)
      PROVE  Goal
  <2>1. /\ agreement[n].status = "pending" /\ UNCHANGED <<createTx, closeTx>>
        /\ \A m \in Flow : m # n => agreement'[m] = agreement[m]
    BY <1>0, <1>5 DEF AcceptOffer
  <2>. QED  BY <1>0, <2>1
<1>6. ASSUME UNCHANGED <<createTx, closeTx, agreement>>
      PROVE  Goal
  BY <1>0, <1>6
<1>7. ASSUME NEW f \in flows, SeeWithdrawn(f) \/ FailWithdrawal(f) \/ SeeSent(f) \/ FailSend(f)
      PROVE  Goal
  BY <1>6, <1>7 DEF SeeWithdrawn, FailWithdrawal, SeeSent, FailSend, chain
<1>8. ASSUME (\E person \in Person : StartHire(person)) \/ \E w \in DOMAIN team : StartOffer(w)
      PROVE  Goal
  BY <1>6, <1>8 DEF StartHire, StartOffer, Start
<1>9. CASE TeamNext \/ ImportNext \/ CloseTab \/ UNCHANGED hiringVars
  BY <1>6, <1>9 DEF TeamNext, AddTyped, ToggleActive, Remove, Pay, NotTheTeam, tab, chain, hiringVars,
     ImportNext, ReadRecords, ReadRest, ApplyFinals, FailImport, AddFromRow, MatchRow, CloseTab
<1>. QED
  BY <1>1, <1>2, <1>3, <1>4, <1>5, <1>7, <1>8, <1>9 DEF HiringNext, FlowNext, ChainNext

\* An offer leaves the books with its agreement, or in one of the two ways DropsOnlyEnded names.
LEMMA DroppingStep ==
  ASSUME HiringInv, TxInv, [HiringNext]_hiringVars, NEW w \in MemberId, Offered(w),
         links'[w] = Nobody \/ links'[w].agreement # links[w].agreement
  PROVE  \/ agreement[links[w].agreement].status = "terminated"
         \/ links'[w] # Nobody /\ \E f \in flows : f.id = links'[w].agreement /\ f.step = "waiting"
         \/ \E f \in flows : /\ f.member = w /\ MaySeeWithdrawn(f)
                             /\ closeTx[f.id].of # links[w].agreement
<1>. DEFINE old == links[w].agreement
<1>0. /\ links \in [MemberId -> Link \cup {Nobody}]
      /\ links[w] # Nobody /\ IsMember(w) /\ BooksOK
      /\ \A f \in flows : f.id \in Flow
  BY DEF Offered, HasLink, HiringInv, BooksInv, BooksOK, LinksHaveWorkers, FlowsOK, Running
<1>1. ASSUME links'[w] = links[w]
      PROVE  FALSE
  BY <1>0, <1>1
<1>2. ASSUME NEW v, MayRemove(v), RemoveFromTeam(v)
      PROVE  FALSE
  BY <1>0, <1>1, <1>2 DEF MayRemove, RemoveFromTeam, RemoveLink
<1>3. ASSUME NEW a, NEW status, NEW joins, NEW person \in Person, NEW active \in BOOLEAN,
             AddMember(person, active), SetLink(nextMember, a, status, joins)
      PROVE  FALSE
  <2>1. w # nextMember
    BY <1>0, <1>3, Adding DEF IsMember
  <2>. QED  BY <1>0, <1>1, <1>3, <2>1 DEF SetLink
<1>4. ASSUME NEW f \in flows, SeeWithdrawn(f)
      PROVE  \/ agreement[old].status = "terminated"
             \/ f.member = w /\ MaySeeWithdrawn(f) /\ closeTx[f.id].of # old
  <2>1. MaySeeWithdrawn(f) /\ links' = [links EXCEPT ![f.member] = Nobody]
    BY <1>4 DEF SeeWithdrawn, DropOffer, RemoveLink
  <2>2. f.member = w
    BY <1>0, <1>1, <2>1
  <2>3. agreement[closeTx[f.id].of].status = "terminated"
    BY <1>0, <2>1 DEF MaySeeWithdrawn, TxInv, ClosedIsEnded
  <2>. QED  BY <2>1, <2>2, <2>3
<1>5. ASSUME NEW f \in flows, SeeSent(f)
      PROVE  links'[w] # Nobody /\ f.id = links'[w].agreement /\ f.step = "waiting"
  <2>1. ~HireByOffer(f)
    <3>1. f.person \in Person
      BY DEF HiringInv, FlowsOK, Running
    <3>. QED  BY <1>3, <3>1 DEF HireByOffer
  <2>2. f.step = "waiting" /\ RecordOffer(f) /\ links' # links
    BY <1>1, <1>5, <2>1 DEF SeeSent
  <2>3. links' = [links EXCEPT ![f.member] =
                    [agreement |-> f.id, status |-> "offered", joins |-> f.joins]]
    BY <2>2 DEF RecordOffer, SetLink, books
  <2>4. f.member = w
    BY <1>0, <1>1, <2>3
  <2>5. links'[w] = [agreement |-> f.id, status |-> "offered", joins |-> f.joins]
    BY <1>0, <2>3, <2>4
  <2>6. [agreement |-> f.id, status |-> "offered", joins |-> f.joins] \in Link
    BY <1>0 DEF Link, HiringInv, FlowsOK, Running
  <2>. QED  BY <2>2, <2>5, <2>6
<1>6. ASSUME NEW f \in flows, FailSend(f)
      PROVE  FALSE
  BY <1>1, <1>2, <1>6 DEF FailSend, books
<1>7. CASE TeamNext
  BY <1>1, <1>2, <1>7 DEF TeamNext, AddTyped, ToggleActive, Remove, Pay
<1>8. CASE ImportNext
  <2>1. ApplyFinals => FALSE
    <3>1. links[w] \in Link
      BY <1>0
    <3>2. LET l == [links[w] EXCEPT !.status = "linked", !.joins = FALSE]
          IN  l \in Link /\ l.agreement = old
      BY <3>1 DEF Link
    <3>3. ApplyFinals => \/ links'[w] = links[w]
                         \/ links'[w] = [links[w] EXCEPT !.status = "linked", !.joins = FALSE]
      BY DEF ApplyFinals, AcceptOffers
    <3>. QED  BY <1>1, <3>2, <3>3
  <2>2. ASSUME NEW a \in Flow, AddFromRow(a)
        PROVE  FALSE
    <3>1. agreement[a].person \in Person
      BY <2>2 DEF AddFromRow, Importable, HiringInv, ScanInv, RowsHavePeople
    <3>. QED  BY <1>3, <2>2, <3>1 DEF AddFromRow
  <2>3. ASSUME NEW a \in Flow, NEW v \in DOMAIN team, MatchRow(a, v)
        PROVE  FALSE
    BY <1>0, <1>1, <2>3 DEF MatchRow, SetLink, HasLink
  <2>4. ReadRecords \/ ReadRest \/ FailImport => UNCHANGED links
    BY DEF ReadRecords, ReadRest, FailImport, books
  <2>. QED  BY <1>1, <1>8, <2>1, <2>2, <2>3, <2>4 DEF ImportNext
<1>9. ASSUME \/ \E f \in flows : FailWithdrawal(f) \/ Submit(f)
             \/ \E person \in Person : StartHire(person)
             \/ \E v \in DOMAIN team : StartOffer(v) \/ StartWithdraw(v) \/ StartRevise(v)
             \/ CloseTab \/ ChainNext \/ UNCHANGED hiringVars
      PROVE  FALSE
  BY <1>1, <1>9 DEF FailWithdrawal, Submit, StartHire, StartOffer, StartWithdraw, StartRevise,
     StartClosing, Start, CloseTab, ChainNext, LandCreate, LandClose, AcceptOffer, books, hiringVars
<1>. QED
  BY <1>4, <1>5, <1>6, <1>7, <1>8, <1>9 DEF HiringNext, FlowNext

-----------------------------------------------------------------------------
\* The invariant of the books, the tab and the chain together.
THEOREM HiringCorrect == HiringSpec => []HiringInv
<1>1. HiringInit => HiringInv
  <2>. SUFFICES ASSUME HiringInit PROVE HiringInv
    OBVIOUS
  <2>1. BooksInv
    BY DEF HiringInit, BooksInv, BooksOK, LinksHaveWorkers, HasLink
  <2>2. FlowsOK
    BY DEF HiringInit, FlowsOK
  <2>3. ScanInv
    BY DEF HiringInit, ScanInv, ScanOK, FinalsStay, RowsHavePeople
  <2>4. ChainOK
    BY DEF HiringInit, ChainOK, Flow, Tx, Agreement
  <2>5. MadeForSomeone
    BY DEF HiringInit, MadeForSomeone
  <2>. QED  BY <2>1, <2>2, <2>3, <2>4, <2>5 DEF HiringInv, ChainInv
<1>2. HiringInv /\ [HiringNext]_hiringVars => HiringInv'
  BY BooksStep, FlowsStep, ChainStep, ScanStep DEF HiringInv
<1>. QED  BY <1>1, <1>2, PTL DEF HiringSpec

\* Every variable keeps its type (payroll.workers, rail.links and the flows of the tab).
THEOREM AlwaysTyped == HiringSpec => []HiringTypeOK
<1>1. HiringInv => HiringTypeOK
  BY Parts DEF HiringInv, BooksInv, ScanInv, ChainInv
<1>. QED  BY <1>1, HiringCorrect, PTL

\* No offer that arrives late leaves a link to a member removed meanwhile (OfferPanel, ReviseOffer).
THEOREM AlwaysLinksHaveWorkers == HiringSpec => []LinksHaveWorkers
<1>1. HiringInv => LinksHaveWorkers
  BY DEF HiringInv, BooksInv
<1>. QED  BY <1>1, HiringCorrect, PTL

\* An offer puts nobody on the team before that very offer was accepted (acceptOffers).
THEOREM AlwaysJoinsOnlyAccepted == HiringSpec => JoinsOnlyAccepted
<1>1. HiringInv /\ [HiringNext]_hiringVars =>
        [\A w \in DOMAIN team :
           IsOfferOut(w) /\ ~team[w].active /\ w \in DOMAIN team' /\ team'[w].active
           => links[w].agreement \in final]_hiringVars
  BY JoiningStep
<1>. QED  BY <1>1, HiringCorrect, PTL DEF HiringSpec, JoinsOnlyAccepted

\* A waiting offer leaves the books only once the network has ended its agreement, or in
\* one of the two ways a second offer to the same member opens (WithdrawOffer, ReviseOffer).
THEOREM AlwaysDropsOnlyEnded == HiringSpec => DropsOnlyEnded
<1>1. HiringInit => TxInv
  BY DEF HiringInit, TxInv, FreshUntilSubmitted, MadeByItsCreate, ClosedIsEnded
<1>2. HiringInv /\ HiringInv' /\ TxInv /\ [HiringNext]_hiringVars => TxInv'
  BY FreshStep, ClosingStep DEF TxInv
<1>3. HiringInv /\ TxInv /\ [HiringNext]_hiringVars =>
        [\A w \in MemberId :
           LET old      == links[w].agreement
               replaced == links'[w] # Nobody /\ \E f \in flows :
                             f.id = links'[w].agreement /\ f.step = "waiting"
               mistaken == \E f \in flows :
                             /\ f.member = w /\ MaySeeWithdrawn(f)
                             /\ closeTx[f.id].of # old
           IN  Offered(w) /\ (links'[w] = Nobody \/ links'[w].agreement # old)
               => agreement[old].status = "terminated" \/ replaced \/ mistaken]_hiringVars
  BY DroppingStep
<1>. QED  BY <1>1, <1>2, <1>3, HiringCorrect, PTL DEF HiringSpec, DropsOnlyEnded

=============================================================================
