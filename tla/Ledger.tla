------------------------------- MODULE Ledger -------------------------------
(***************************************************************************)
(* The books: the chart of accounts, the append-only journal and the two   *)
(* period marks (packages/ledger: books.ts, periods.ts).                   *)
(*                                                                         *)
(* A date is kept as the number of its month; 0 stands for every month     *)
(* before the first one that matters.  A posting moves an amount of cents  *)
(* from one account (credit) to another (debit): longer entries are        *)
(* checked line by line in the same way, and unbalanced ones are refused   *)
(* before anything is posted.  The hash that links an entry to the one     *)
(* before it is a function of the journal as it stands and is left out.    *)
(***************************************************************************)
EXTENDS Chart, Integers, Sequences, Functions

CONSTANTS
  LastPeriod,   \* months are 1..LastPeriod
  Amount,       \* amounts posted, in cents
  MaxEntries    \* bound on the length of the journal

ASSUME PeriodAssumption == LastPeriod \in Nat
ASSUME AmountAssumption == Amount \subseteq Nat \ {0}

VARIABLES
  entries,         \* the journal
  closedThrough,   \* marks.closedThrough, 0 for none
  lockedThrough    \* marks.lockedThrough, 0 for none

vars == <<accounts, entries, closedThrough, lockedThrough>>

Period == 1..LastPeriod
Mark   == 0..LastPeriod

\* reverses and replaces are the places of other entries in the journal, 0 for none.
Posting == [date : Period, debit : Account, credit : Account, amount : Amount,
            reverses : Nat, replaces : Nat]

TypeOK ==
  /\ ChartTypeOK
  /\ entries \in Seq(Posting)
  /\ closedThrough \in Mark
  /\ lockedThrough \in Mark

Init ==
  /\ ChartInit
  /\ entries = <<>>
  /\ closedThrough = 0
  /\ lockedThrough = 0

-----------------------------------------------------------------------------
(* What the journal says of an account.                                    *)

HasPostings(a) == \E i \in DOMAIN entries : a \in {entries[i].debit, entries[i].credit}

\* What one entry adds to the balance of a.
Effect(e, a) ==
  (IF e.debit = a THEN e.amount ELSE 0) - (IF e.credit = a THEN e.amount ELSE 0)

BalanceOf(a) == SumFunction([i \in DOMAIN entries |-> Effect(entries[i], a)])

-----------------------------------------------------------------------------
(* The journal.                                                            *)

\* assertOpen.
Open(date) == date > closedThrough /\ date > lockedThrough

Locked(date) == date <= lockedThrough

\* normalizeLines, and the date of a posting.
MayPost(date, debit, credit) == Open(date) /\ {debit, credit} \subseteq Active

Fits(n) == Len(entries) + n <= MaxEntries

Post(date, debit, credit, amount) ==
  /\ Fits(1)
  /\ MayPost(date, debit, credit)
  /\ entries' = Append(entries,
       [date |-> date, debit |-> debit, credit |-> credit, amount |-> amount,
        reverses |-> 0, replaces |-> 0])
  /\ UNCHANGED <<accounts, closedThrough, lockedThrough>>

\* reversalOf.
Reversed(i) == \E j \in DOMAIN entries : entries[j].reverses = i

Reversible(i) ==
  /\ entries[i].reverses = 0
  /\ ~Reversed(i)
  /\ ~Locked(entries[i].date)

\* The accounts of the original are taken as they are.
Reversal(i, date) ==
  [date |-> date, debit |-> entries[i].credit, credit |-> entries[i].debit,
   amount |-> entries[i].amount, reverses |-> i, replaces |-> 0]

\* reverseEntry, alone.
Reverse(i, date) ==
  /\ Fits(1)
  /\ Reversible(i)
  /\ Open(date)
  /\ entries' = Append(entries, Reversal(i, date))
  /\ UNCHANGED <<accounts, closedThrough, lockedThrough>>

\* Mutant: the corrected entry is posted although the reversal is refused.
EditHalf(i, reversalDate, date, debit, credit, amount) ==
  /\ Fits(2)
  /\ MayPost(date, debit, credit)
  /\ LET corrected == [date |-> date, debit |-> debit, credit |-> credit,
                       amount |-> amount, reverses |-> 0, replaces |-> i]
     IN  entries' = IF Reversible(i) /\ Open(reversalDate)
                    THEN entries \o <<Reversal(i, reversalDate), corrected>>
                    ELSE Append(entries, corrected)
  /\ UNCHANGED <<accounts, closedThrough, lockedThrough>>

\* editEntry: the reversal and the corrected entry, or neither.
Edit(i, reversalDate, date, debit, credit, amount) ==
  /\ Fits(2)
  /\ MayPost(date, debit, credit)
  /\ Reversible(i)
  /\ Open(reversalDate)
  /\ entries' = Append(Append(entries, Reversal(i, reversalDate)),
       [date |-> date, debit |-> debit, credit |-> credit, amount |-> amount,
        reverses |-> 0, replaces |-> i])
  /\ UNCHANGED <<accounts, closedThrough, lockedThrough>>

-----------------------------------------------------------------------------
(* Period marks.                                                           *)

CloseThrough(p) ==
  /\ p > closedThrough
  /\ closedThrough' = p
  /\ UNCHANGED <<accounts, entries, lockedThrough>>

\* previousPeriod(p) is closed still.
ReopenFrom(p) ==
  /\ p <= closedThrough
  /\ p > lockedThrough
  /\ closedThrough' = p - 1
  /\ UNCHANGED <<accounts, entries, lockedThrough>>

LockThrough(p) ==
  /\ p <= closedThrough
  /\ p > lockedThrough
  /\ lockedThrough' = p
  /\ UNCHANGED <<accounts, entries, closedThrough>>

-----------------------------------------------------------------------------
JournalKept == UNCHANGED <<entries, closedThrough, lockedThrough>>

ChangeChart ==
  \E a \in Account :
    \/ \E entry \in Entry : \/ AddAccount(a, entry)
                            \/ UpdateAccount(a, entry, HasPostings(a))
    \/ DeactivateAccount(a, BalanceOf(a))
    \/ ReactivateAccount(a)

ChangeJournal ==
  \E date \in Period, debit, credit \in Account, amount \in Amount :
    \/ Post(date, debit, credit, amount)
    \/ \E i \in DOMAIN entries, reversalDate \in Period :
         Edit(i, reversalDate, date, debit, credit, amount)

ReverseSome == \E i \in DOMAIN entries, date \in Period : Reverse(i, date)

MoveMarks == \E p \in Period : CloseThrough(p) \/ ReopenFrom(p) \/ LockThrough(p)

Next == (ChangeChart /\ JournalKept) \/ ChangeJournal \/ ReverseSome \/ MoveMarks

Spec == Init /\ [][Next]_vars

-----------------------------------------------------------------------------
(* Properties.                                                             *)

\* Nothing is locked that is not closed (periods.ts: "lockedThrough <= closedThrough
\* always"), though the closed mark moves both ways.
LockedIsClosed == lockedThrough <= closedThrough

\* An entry is cancelled once at most, by a later entry that mirrors it and cannot be
\* cancelled itself: what was posted and undone adds up to nothing (books.ts
\* reverseEntry).
ReversalsPair ==
  \A j \in DOMAIN entries : entries[j].reverses # 0 =>
    LET i == entries[j].reverses
    IN  /\ i \in 1..(j - 1)
        /\ entries[i].reverses = 0
        /\ entries[j] = Reversal(i, entries[j].date)
        /\ \A k \in DOMAIN entries : entries[k].reverses = i => k = j

\* An entry that replaces another comes with the reversal of it: no edit counts twice
\* or leaves half of itself (books.ts editEntry).
EditsAreWhole ==
  \A j \in DOMAIN entries : entries[j].replaces # 0 =>
    j > 1 /\ entries[j - 1].reverses = entries[j].replaces

\* The journal and its marks are sound: what the statements of any period rest on.
JournalSound == LockedIsClosed /\ ReversalsPair /\ EditsAreWhole

Dated(p) == {i \in DOMAIN entries : entries[i].date = p}
Cancelled(p) == {i \in Dated(p) : Reversed(i)}

\* A closed period gets no entries; a locked one loses none to a reversal elsewhere
\* either, and stays locked (books.ts rule 3: "Nothing is dated in a closed period;
\* nothing in a locked period is reversed").
ShutPeriodsKeep ==
  [][/\ \A p \in 1..closedThrough : Dated(p)' = Dated(p)
     /\ \A p \in 1..lockedThrough : Cancelled(p)' = Cancelled(p)
     /\ lockedThrough' >= lockedThrough]_vars

\* Inactive accounts are empty (books.ts: "they're made inactive, and only once
\* they're empty").
InactiveIsEmpty == \A a \in Chart \ Active : BalanceOf(a) = 0

\* The journal grows by a reversal of an entry on an account that is inactive by now.
ReversesOntoInactive ==
  \E j \in DOMAIN entries' \ DOMAIN entries :
    /\ entries'[j].reverses # 0
    /\ ~({entries'[j].debit, entries'[j].credit} \subseteq Active)

\* Nothing else gives an inactive account a balance, in whatever order accounts are
\* emptied, closed, taken up again and posted to (books.ts deactivateAccount,
\* normalizeLines).
OnlyReversalsFillInactive ==
  [][InactiveIsEmpty /\ ~ReversesOntoInactive => InactiveIsEmpty']_vars
=============================================================================
