--------------------------- MODULE BooksProvider ----------------------------
(***************************************************************************)
(* The books of the accounts on one device, as BooksProvider.tsx keeps     *)
(* them in each tab over the vault (packages/vault): logging in and out,   *)
(* "stay logged in", the queue of updates, backups and restores.           *)
(*                                                                         *)
(* The books of an account are the set of edits made to them: an update    *)
(* adds one edit to whatever it is computed from.  Sealing is what binds a *)
(* record to its account, so a sealed record is a pair of an account and a *)
(* set of edits.  A promise callback that is ready runs before any event   *)
(* of its tab (NoJobReady); tabs share the store and nothing else.         *)
(***************************************************************************)
EXTENDS Naturals, Sequences, FiniteSets

CONSTANTS Tab, Account, Edit,
          Nothing   \* null: no session, no books, no record, no update

Contents == SUBSET Edit

\* An update between its start and its end: the account whose key sealed it, the
\* edit, the contents to be saved, and whether they are saved yet.
Job == [acct : Account, edit : Edit, next : Contents, saved : BOOLEAN]

ASSUME NothingAssumption ==
  /\ Nothing \notin Account
  /\ \A contents \in Contents : contents # Nothing
  /\ \A job \in Job : job # Nothing

VARIABLES
  store,     \* account -> the contents of its record in IndexedDB
  kept,      \* the account kept open on this device ("stay logged in")
  backup,    \* account -> the contents of the backup file downloaded last
  session,   \* tab -> the account whose key session.current holds
  sealed,    \* tab -> the contents of that session's own record
  company,   \* tab -> companyRef.current
  login,     \* tab -> what the front page is doing
  dialog,    \* tab -> the Log in dialog is on the screen
  found,     \* tab -> account -> the copy its unlocked, not yet opened session read
  waiting,   \* tab -> the updates chained on the queue
  running,   \* tab -> the update in progress
  madeIn,    \* edit -> the account whose screen asked for it
  told       \* edit -> what its updateCompany promise told the screen that asked

deviceVars == <<store, kept, backup>>
openVars == <<session, sealed, company>>
frontVars == <<login, dialog, found>>
queueVars == <<waiting, running>>
editVars == <<madeIn, told>>
vars == <<deviceVars, openVars, frontVars, queueVars, editVars>>

Maybe(S) == {Nothing} \cup S

LoginSteps == {"none", "creating", "finding", "offered", "resuming", "restoring"}

\* nothing yet; resolved; rejected; or answered, then overruled by a restore.
Answers == {"none", "saved", "failed", "overruled"}

TypeOK ==
  /\ store \in [Account -> Maybe(Contents)]
  /\ kept \in Maybe(Account)
  /\ backup \in [Account -> Maybe(Contents)]
  /\ session \in [Tab -> Maybe(Account)]
  /\ sealed \in [Tab -> Maybe(Contents)]
  /\ company \in [Tab -> Maybe(Contents)]
  /\ login \in [Tab -> LoginSteps]
  /\ dialog \in [Tab -> BOOLEAN]
  /\ found \in [Tab -> [Account -> Maybe(Contents)]]
  /\ waiting \in [Tab -> Seq(Edit)]
  /\ running \in [Tab -> Maybe(Job)]
  /\ madeIn \in [Edit -> Maybe(Account)]
  /\ told \in [Edit -> Answers]

NoneFound == [a \in Account |-> Nothing]
Only(a, contents) == [NoneFound EXCEPT ![a] = contents]

Init ==
  /\ store = NoneFound
  /\ kept = Nothing
  /\ backup = NoneFound
  /\ session = [t \in Tab |-> Nothing]
  /\ sealed = [t \in Tab |-> Nothing]
  /\ company = [t \in Tab |-> Nothing]
  /\ login = [t \in Tab |-> "none"]
  /\ dialog = [t \in Tab |-> FALSE]
  /\ found = [t \in Tab |-> NoneFound]
  /\ waiting = [t \in Tab |-> <<>>]
  /\ running = [t \in Tab |-> Nothing]
  /\ madeIn = [e \in Edit |-> Nothing]
  /\ told = [e \in Edit |-> "none"]

IsOpen(t) == session[t] # Nothing
NoJobReady(t) == waiting[t] = <<>> \/ running[t] # Nothing

\* The front page: nothing open, nothing under way.
AtFrontPage(t) == ~IsOpen(t) /\ login[t] = "none" /\ NoJobReady(t)

-----------------------------------------------------------------------------
(* Opening the books.                                                      *)

\* show: the session and its books replace whatever the tab had.
Show(t, a, contents) ==
  /\ session' = [session EXCEPT ![t] = a]
  /\ sealed' = [sealed EXCEPT ![t] = contents]
  /\ company' = [company EXCEPT ![t] = contents]
  /\ login' = [login EXCEPT ![t] = "none"]
  /\ dialog' = [dialog EXCEPT ![t] = FALSE]
  /\ found' = [found EXCEPT ![t] = NoneFound]

\* open: show, then keep the account open on this device, or forget who was.  A write
\* that fails is swallowed: whoever was kept open before still is.
Open(t, a, contents) ==
  /\ Show(t, a, contents)
  /\ kept' \in {a, Nothing, kept}

\* create, up to the check that the account is new.
CreateChecks(t, a) ==
  /\ AtFrontPage(t) /\ ~dialog[t]
  /\ store[a] = Nothing
  /\ login' = [login EXCEPT ![t] = "creating"]
  /\ found' = [found EXCEPT ![t] = Only(a, {})]
  /\ UNCHANGED <<deviceVars, openVars, dialog, queueVars, editVars>>

\* create, from the new vault on.
CreateSaves(t, a) ==
  /\ login[t] = "creating" /\ found[t][a] # Nothing
  /\ store' = [store EXCEPT ![a] = {}]
  /\ Open(t, a, {})
  /\ UNCHANGED <<backup, queueVars, editVars>>

OpenDialog(t) ==
  /\ AtFrontPage(t) /\ ~dialog[t]
  /\ dialog' = [dialog EXCEPT ![t] = TRUE]
  /\ UNCHANGED <<deviceVars, openVars, login, found, queueVars, editVars>>

\* Esc, the X, a tap on the backdrop, or Back from an offered choice: cancelChoice
\* drops the choice; a login that is still deriving its key goes on.
CloseDialog(t) ==
  /\ dialog[t]
  /\ \/ dialog' = [dialog EXCEPT ![t] = FALSE]
     \/ login[t] = "offered" /\ UNCHANGED dialog   \* Back
  /\ login' = [login EXCEPT ![t] = IF @ = "offered" THEN "none" ELSE @]
  /\ found' = [found EXCEPT ![t] = IF login[t] = "offered" THEN NoneFound ELSE @]
  /\ UNCHANGED <<deviceVars, openVars, queueVars, editVars>>

\* unlock: the records are read, then the key is derived, which takes a while.
\* These are the accounts the email and the passphrase will turn out to open.
Unlock(t, accounts) ==
  /\ AtFrontPage(t) /\ dialog[t]
  /\ \A a \in accounts : store[a] # Nothing
  /\ login' = [login EXCEPT ![t] = "finding"]
  /\ found' = [found EXCEPT ![t] =
                 [a \in Account |-> IF a \in accounts THEN store[a] ELSE Nothing]]
  /\ UNCHANGED <<deviceVars, openVars, dialog, queueVars, editVars>>

Found(t) == {a \in Account : found[t][a] # Nothing}

NoMatch(t) ==
  /\ login[t] = "finding" /\ Found(t) = {}
  /\ login' = [login EXCEPT ![t] = "none"]
  /\ UNCHANGED <<deviceVars, openVars, dialog, found, queueVars, editVars>>

\* A business and a worker account both open: the dialog asks which.
Offer(t) ==
  /\ login[t] = "finding" /\ Cardinality(Found(t)) > 1
  /\ login' = [login EXCEPT ![t] = "offered"]
  /\ UNCHANGED <<deviceVars, openVars, dialog, found, queueVars, editVars>>

\* Mutant: whichever account is chosen, the first one found supplies the books.
OpenFirstFound(t, a) ==
  /\ \/ login[t] \in {"finding", "restoring"} /\ Found(t) = {a}
     \/ login[t] = "offered" /\ dialog[t] /\ a \in Found(t)
  /\ Open(t, a, found[t][CHOOSE b \in Found(t) : TRUE])
  /\ UNCHANGED <<store, backup, queueVars, editVars>>

\* The one account found, the restored one, or the one chosen is opened.
OpenFound(t, a) ==
  /\ \/ login[t] \in {"finding", "restoring"} /\ Found(t) = {a}
     \/ login[t] = "offered" /\ dialog[t] /\ a \in Found(t)   \* chooseAccount
  /\ Open(t, a, found[t][a])
  /\ UNCHANGED <<store, backup, queueVars, editVars>>

\* The file undoes what an edit of account a was answered.
Overrules(contents, a, e) ==
  /\ madeIn[e] = a
  /\ \/ told[e] = "saved" /\ e \notin contents
     \/ told[e] = "failed" /\ e \in contents

\* restore: the backup opens with its passphrase, then replaces the record.
Restore(t, a) ==
  /\ AtFrontPage(t) /\ ~dialog[t]
  /\ backup[a] # Nothing
  /\ store' = [store EXCEPT ![a] = backup[a]]
  /\ told' = [e \in Edit |-> IF Overrules(backup[a], a, e) THEN "overruled" ELSE told[e]]
  /\ login' = [login EXCEPT ![t] = "restoring"]
  /\ found' = [found EXCEPT ![t] = Only(a, backup[a])]
  /\ UNCHANGED <<kept, backup, openVars, dialog, queueVars, madeIn>>

\* The page is loaded anew (or the browser was): memory is gone; resumeSession reads
\* the record of the account kept open, unless its 24 hours are over (one that is over
\* never opens again, so that a failure to clear it makes no difference).
Reload(t, expired) ==
  /\ kept' = IF expired \/ (kept # Nothing /\ store[kept] = Nothing) THEN Nothing ELSE kept
  /\ session' = [session EXCEPT ![t] = Nothing]
  /\ sealed' = [sealed EXCEPT ![t] = Nothing]
  /\ company' = [company EXCEPT ![t] = Nothing]
  /\ dialog' = [dialog EXCEPT ![t] = FALSE]
  /\ waiting' = [waiting EXCEPT ![t] = <<>>]
  /\ running' = [running EXCEPT ![t] = Nothing]
  /\ login' = [login EXCEPT ![t] = IF kept' = Nothing THEN "none" ELSE "resuming"]
  /\ found' = [found EXCEPT ![t] =
                 IF kept' = Nothing THEN NoneFound ELSE Only(kept, store[kept])]
  /\ UNCHANGED <<store, backup, editVars>>

\* The end of the load effect: stayUntil is what it was.
Resume(t, a) ==
  /\ login[t] = "resuming" /\ Found(t) = {a}
  /\ Show(t, a, found[t][a])
  /\ UNCHANGED <<deviceVars, queueVars, editVars>>

-----------------------------------------------------------------------------
(* Closing them.                                                           *)

\* Mutant: companyRef is not cleared.
LockKeepingBooks(t) ==
  /\ IsOpen(t) /\ NoJobReady(t)
  /\ kept' \in {Nothing, kept}
  /\ session' = [session EXCEPT ![t] = Nothing]
  /\ sealed' = [sealed EXCEPT ![t] = Nothing]
  /\ UNCHANGED <<store, backup, company, frontVars, queueVars, editVars>>

\* lock: Log out, 15 idle minutes, or the end of the 24 hours.  The failure of
\* forgetSession is swallowed: a later load of the page may open the books again.
Lock(t) ==
  /\ IsOpen(t) /\ NoJobReady(t)
  /\ kept' \in {Nothing, kept}
  /\ session' = [session EXCEPT ![t] = Nothing]
  /\ sealed' = [sealed EXCEPT ![t] = Nothing]
  /\ company' = [company EXCEPT ![t] = Nothing]
  /\ UNCHANGED <<store, backup, frontVars, queueVars, editVars>>

-----------------------------------------------------------------------------
(* Updating them.                                                          *)

\* A screen of the open books calls updateCompany.
Ask(t, e) ==
  /\ IsOpen(t) /\ NoJobReady(t)
  /\ madeIn[e] = Nothing
  /\ madeIn' = [madeIn EXCEPT ![e] = session[t]]
  /\ waiting' = [waiting EXCEPT ![t] = Append(@, e)]
  /\ UNCHANGED <<deviceVars, openVars, frontVars, running, told>>

\* Mutant: the update is computed from the record of the session, not from the
\* books of the last update that was saved.
BeginFromRecord(t) ==
  /\ running[t] = Nothing /\ waiting[t] # <<>>
  /\ IsOpen(t) /\ company[t] # Nothing
  /\ LET next == sealed[t] \cup {Head(waiting[t])}
     IN  /\ running' = [running EXCEPT ![t] =
              [acct |-> session[t], edit |-> Head(waiting[t]), next |-> next,
               saved |-> FALSE]]
         /\ sealed' = [sealed EXCEPT ![t] = next]
  /\ waiting' = [waiting EXCEPT ![t] = Tail(@)]
  /\ UNCHANGED <<deviceVars, session, company, frontVars, editVars>>

\* Mutant: write returns the sealed record without keeping it in the session.
BeginUnremembered(t) ==
  /\ running[t] = Nothing /\ waiting[t] # <<>>
  /\ IsOpen(t) /\ company[t] # Nothing
  /\ running' = [running EXCEPT ![t] =
       [acct |-> session[t], edit |-> Head(waiting[t]),
        next |-> company[t] \cup {Head(waiting[t])}, saved |-> FALSE]]
  /\ waiting' = [waiting EXCEPT ![t] = Tail(@)]
  /\ UNCHANGED <<deviceVars, openVars, frontVars, editVars>>

\* The update's turn: the operation is applied and its result sealed; from here on
\* the session's own record is ahead of the store.
Begin(t) ==
  /\ running[t] = Nothing /\ waiting[t] # <<>>
  /\ IsOpen(t) /\ company[t] # Nothing
  /\ LET next == company[t] \cup {Head(waiting[t])}
     IN  /\ running' = [running EXCEPT ![t] =
              [acct |-> session[t], edit |-> Head(waiting[t]), next |-> next,
               saved |-> FALSE]]
         /\ sealed' = [sealed EXCEPT ![t] = next]
  /\ waiting' = [waiting EXCEPT ![t] = Tail(@)]
  /\ UNCHANGED <<deviceVars, session, company, frontVars, editVars>>

\* Mutant: an update that finds the books locked waits for them instead.
RefuseWhileOpen(t) ==
  /\ running[t] = Nothing /\ waiting[t] # <<>> /\ IsOpen(t)
  /\ waiting' = [waiting EXCEPT ![t] = Tail(@)]
  /\ told' = [told EXCEPT ![Head(waiting[t])] = "failed"]
  /\ UNCHANGED <<deviceVars, openVars, frontVars, running, madeIn>>

\* "Books are locked", or the operation broke a rule: its caller is told, the rest
\* of the queue goes on.
Refuse(t) ==
  /\ running[t] = Nothing /\ waiting[t] # <<>>
  /\ waiting' = [waiting EXCEPT ![t] = Tail(@)]
  /\ told' = [told EXCEPT ![Head(waiting[t])] = "failed"]
  /\ UNCHANGED <<deviceVars, openVars, frontVars, running, madeIn>>

Saving(t) == running[t] # Nothing /\ ~running[t].saved

\* store.save commits.
Save(t) ==
  /\ Saving(t)
  /\ store' = [store EXCEPT ![running[t].acct] = running[t].next]
  /\ running' = [running EXCEPT ![t].saved = TRUE]
  /\ UNCHANGED <<kept, backup, openVars, frontVars, waiting, editVars>>

\* store.save rejects (the quota is used up, the database is gone).
SaveFails(t) ==
  /\ Saving(t)
  /\ running' = [running EXCEPT ![t] = Nothing]
  /\ told' = [told EXCEPT ![running[t].edit] = "failed"]
  /\ UNCHANGED <<deviceVars, openVars, frontVars, waiting, madeIn>>

\* The new books become the open ones, whatever the tab shows by now.
Finish(t) ==
  /\ running[t] # Nothing /\ running[t].saved
  /\ company' = [company EXCEPT ![t] = running[t].next]
  /\ told' = [told EXCEPT ![running[t].edit] = "saved"]
  /\ running' = [running EXCEPT ![t] = Nothing]
  /\ UNCHANGED <<deviceVars, session, sealed, frontVars, waiting, madeIn>>

\* downloadBackup: the session's own record goes into the file.
Download(t) ==
  /\ IsOpen(t) /\ NoJobReady(t)
  /\ backup' = [backup EXCEPT ![session[t]] = sealed[t]]
  /\ UNCHANGED <<store, kept, openVars, frontVars, queueVars, editVars>>

-----------------------------------------------------------------------------
Next ==
  \E t \in Tab :
    \/ \E a \in Account : CreateChecks(t, a) \/ CreateSaves(t, a) \/ OpenFound(t, a)
                          \/ Restore(t, a) \/ Resume(t, a)
    \/ \E accounts \in SUBSET Account : Unlock(t, accounts)
    \/ \E expired \in BOOLEAN : Reload(t, expired)
    \/ \E e \in Edit : Ask(t, e)
    \/ OpenDialog(t) \/ CloseDialog(t) \/ NoMatch(t) \/ Offer(t) \/ Lock(t)
    \/ Begin(t) \/ Refuse(t) \/ Save(t) \/ SaveFails(t) \/ Finish(t) \/ Download(t)

Spec == Init /\ [][Next]_vars

\* Promise callbacks run, and IndexedDB answers: commits or aborts.
Fairness ==
  \A t \in Tab : /\ WF_vars(Begin(t) \/ Refuse(t))
                 /\ WF_vars(Save(t) \/ SaveFails(t))
                 /\ WF_vars(Finish(t))

-----------------------------------------------------------------------------
(* Calm use: an account is in use in one tab at a time, a tab that is      *)
(* still storing an update opens no account, and the dialog is not closed  *)
(* while it derives a key.                                                 *)

Uses(t) ==
  {session[t]} \cup Found(t)
    \cup (IF running[t] = Nothing THEN {} ELSE {running[t].acct})

FreeFor(t, accounts) == \A u \in Tab \ {t} : Uses(u) \cap accounts = {}

CalmNext ==
  \E t \in Tab :
    \/ \E a \in Account : /\ FreeFor(t, {a}) /\ running[t] = Nothing
                          /\ CreateChecks(t, a) \/ CreateSaves(t, a) \/ OpenFound(t, a)
                             \/ Restore(t, a) \/ Resume(t, a)
    \/ \E accounts \in SUBSET Account :
         FreeFor(t, accounts) /\ running[t] = Nothing /\ Unlock(t, accounts)
    \/ \E expired \in BOOLEAN : (expired \/ FreeFor(t, {kept} \ {Nothing})) /\ Reload(t, expired)
    \/ \E e \in Edit : Ask(t, e)
    \/ login[t] # "finding" /\ CloseDialog(t)
    \/ OpenDialog(t) \/ NoMatch(t) \/ Offer(t) \/ Lock(t)
    \/ Begin(t) \/ Refuse(t) \/ Save(t) \/ SaveFails(t) \/ Finish(t) \/ Download(t)

CalmSpec == Init /\ [][CalmNext]_vars /\ Fairness

-----------------------------------------------------------------------------
(* Properties.                                                             *)

\* What updateCompany answered holds ever after.  An edit that resolved is in the stored
\* record of its account: no later update, of any tab, drops it ("resolves once the
\* result is safely stored").  One that rejected stays out of it, so that doing it again
\* does not do it twice, although the session had sealed it already ("nothing is saved").
AnswersHold ==
  \A e \in Edit :
    LET stored == IF store[madeIn[e]] = Nothing THEN {} ELSE store[madeIn[e]]
    IN  /\ told[e] = "saved"  => e \in stored
        /\ told[e] = "failed" => e \notin stored

\* No record holds an edit made on the screens of another account.
OwnBooksOnly ==
  \A a \in Account : store[a] # Nothing => \A e \in store[a] : madeIn[e] = a

InTheClear(t) == session[t] = Nothing /\ company[t] # Nothing

\* Logged out, the tab holds no books in the clear (BooksProvider.tsx lock: "drops
\* the key and plaintext from memory").
LoggedOutForgets == \A t \in Tab : ~InTheClear(t)

\* ... but for those that an update still being stored at the log-out puts back at its
\* end (updateCompany sets companyRef after its awaits without looking at the session).
OnlyLateSavesRefill ==
  [][\A t \in Tab : InTheClear(t)' /\ ~InTheClear(t) =>
       running[t] # Nothing /\ running[t].saved /\ company'[t] = running[t].next]_vars

\* A backup holds everything its account had saved when it was downloaded
\* (BooksProvider.tsx downloadBackup writes the session's record, not the store's).
BackupIsCurrent ==
  [][\A a \in Account : backup'[a] # backup[a] => store[a] \subseteq backup'[a]]_vars

InQueue(t, e) ==
  (\E i \in 1..Len(waiting[t]) : waiting[t][i] = e)
    \/ (running[t] # Nothing /\ running[t].edit = e)

\* Every update asked for leaves the queue, whatever became of those before it and
\* whether or not the books were closed meanwhile (BooksProvider.tsx updateCompany:
\* queue.current swallows a failed run).
UpdatesEnd == \A t \in Tab, e \in Edit : InQueue(t, e) ~> ~InQueue(t, e)
=============================================================================
