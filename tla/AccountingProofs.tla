-------------------------- MODULE AccountingProofs --------------------------
(***************************************************************************)
(* The accounts of a company: the ledger with the statements made of it    *)
(* (Ledger, Statements), and the Shield account that the books follow      *)
(* (Shield).                                                               *)
(***************************************************************************)
EXTENDS Statements, Shield, FiniteSums

-----------------------------------------------------------------------------
(***************************************************************************)
(* What the books keep for every chart, every set of amounts and any       *)
(* number of months.                                                       *)
(*                                                                         *)
(* The journal only grows, by one entry or by an edit's two; each proof    *)
(* about it looks at what the new entries are.                             *)
(*                                                                         *)
(* ChartInv: an account is placed under one that is not below it, so what  *)
(* leads up from that one, with what leads up to the account as it was,    *)
(* makes a set that climbs and leaves out the account placed.              *)
(*                                                                         *)
(* BooksInv, on top of it: entries are on the chart, and system accounts   *)
(* stay in their sections.  The statements follow, as each member of a     *)
(* section is in the branch of exactly one row at the top, and each entry  *)
(* adds nothing to the whole chart.                                        *)
(***************************************************************************)

-----------------------------------------------------------------------------
(* How the journal grows.                                                  *)

Plain(date, debit, credit, amount, replaced) ==
  [date |-> date, debit |-> debit, credit |-> credit, amount |-> amount,
   reverses |-> 0, replaces |-> replaced]

Stays == UNCHANGED entries

GrowsByPosting ==
  /\ \E date \in Period, debit, credit \in Account, amount \in Amount :
       Open(date) /\ entries' = Append(entries, Plain(date, debit, credit, amount, 0))
  /\ UNCHANGED <<closedThrough, lockedThrough>>

GrowsByReversal ==
  /\ \E i \in DOMAIN entries, date \in Period :
       /\ Reversible(i) /\ Open(date)
       /\ entries' = Append(entries, Reversal(i, date))
  /\ UNCHANGED <<closedThrough, lockedThrough>>

GrowsByEdit ==
  /\ \E i \in DOMAIN entries, reversalDate, date \in Period, debit, credit \in Account,
        amount \in Amount :
       /\ Reversible(i) /\ Open(reversalDate) /\ Open(date)
       /\ entries' = Append(Append(entries, Reversal(i, reversalDate)),
                            Plain(date, debit, credit, amount, i))
  /\ UNCHANGED <<closedThrough, lockedThrough>>

\* Every step leaves the journal alone or appends to it in one of three ways.
LEMMA Growth ==
  ASSUME [Next]_vars
  PROVE  Stays \/ GrowsByPosting \/ GrowsByReversal \/ GrowsByEdit
<1>1. CASE UNCHANGED vars
  BY <1>1 DEF vars, Stays
<1>2. CASE ChangeChart /\ JournalKept
  BY <1>2 DEF JournalKept, Stays
<1>3. CASE ChangeJournal
  <2>1. PICK date \in Period, debit \in Account, credit \in Account, amount \in Amount :
           \/ Post(date, debit, credit, amount)
           \/ \E i \in DOMAIN entries, reversalDate \in Period :
                Edit(i, reversalDate, date, debit, credit, amount)
    BY <1>3 DEF ChangeJournal
  <2>2. CASE Post(date, debit, credit, amount)
    BY <2>2 DEF Post, MayPost, Plain, GrowsByPosting
  <2>3. ASSUME NEW i \in DOMAIN entries, NEW reversalDate \in Period,
               Edit(i, reversalDate, date, debit, credit, amount)
        PROVE  GrowsByEdit
    BY <2>3 DEF Edit, MayPost, Plain, GrowsByEdit
  <2>4. QED BY <2>1, <2>2, <2>3
<1>4. CASE ReverseSome
  BY <1>4 DEF ReverseSome, Reverse, GrowsByReversal
<1>5. CASE MoveMarks
  BY <1>5 DEF MoveMarks, CloseThrough, ReopenFrom, LockThrough, Stays
<1>6. QED BY <1>1, <1>2, <1>3, <1>4, <1>5 DEF Next

-----------------------------------------------------------------------------
(* Types.                                                                  *)

\* The operations on the chart leave a chart.
LEMMA ChartStaysTyped ==
  ASSUME ChartTypeOK, ChangeChart
  PROVE  ChartTypeOK'
<1>1. PICK a \in Account :
        \/ \E entry \in Entry : \/ AddAccount(a, entry)
                                \/ UpdateAccount(a, entry, HasPostings(a))
        \/ DeactivateAccount(a, BalanceOf(a))
        \/ ReactivateAccount(a)
  BY DEF ChangeChart
<1>2. ASSUME NEW entry \in Entry, Set(a, entry)
      PROVE  ChartTypeOK'
  BY <1>2 DEF ChartTypeOK, Set
<1>3. CASE \E entry \in Entry : AddAccount(a, entry) \/ UpdateAccount(a, entry, HasPostings(a))
  BY <1>2, <1>3 DEF AddAccount, UpdateAccount
<1>4. ASSUME Exists(a), NEW b \in BOOLEAN
      PROVE  [accounts[a] EXCEPT !.active = b] \in Entry
  BY <1>4 DEF Exists, ChartTypeOK, Entry
<1>5. CASE DeactivateAccount(a, BalanceOf(a))
  BY <1>2, <1>4, <1>5 DEF DeactivateAccount
<1>6. CASE ReactivateAccount(a)
  BY <1>2, <1>4, <1>6 DEF ReactivateAccount
<1>7. QED BY <1>1, <1>3, <1>5, <1>6

\* A new entry is a posting, whichever way it came about.
LEMMA NewEntriesTyped ==
  ASSUME entries \in Seq(Posting)
  PROVE  /\ \A i \in DOMAIN entries, date \in Period : Reversal(i, date) \in Posting
         /\ \A date \in Period, debit, credit \in Account, amount \in Amount, n \in Nat :
              Plain(date, debit, credit, amount, n) \in Posting
<1>1. ASSUME NEW i \in DOMAIN entries, NEW date \in Period
      PROVE  Reversal(i, date) \in Posting
  <2>1. entries[i] \in Posting /\ i \in Nat
    OBVIOUS
  <2>2. QED BY <2>1 DEF Reversal, Posting
<1>2. QED BY <1>1 DEF Plain, Posting

LEMMA JournalStaysTyped ==
  ASSUME entries \in Seq(Posting), [Next]_vars
  PROVE  entries' \in Seq(Posting)
<1>1. CASE Stays
  BY <1>1 DEF Stays
<1>2. CASE GrowsByPosting
  BY <1>2, NewEntriesTyped DEF GrowsByPosting
<1>3. CASE GrowsByReversal
  BY <1>3, NewEntriesTyped DEF GrowsByReversal
<1>4. CASE GrowsByEdit
  <2>1. PICK i \in DOMAIN entries, reversalDate \in Period, date \in Period,
             debit \in Account, credit \in Account, amount \in Amount :
          entries' = Append(Append(entries, Reversal(i, reversalDate)),
                            Plain(date, debit, credit, amount, i))
    BY <1>4 DEF GrowsByEdit
  <2>2. i \in Nat
    OBVIOUS
  <2>3. /\ Reversal(i, reversalDate) \in Posting
        /\ Plain(date, debit, credit, amount, i) \in Posting
    BY <2>2, NewEntriesTyped
  <2>4. QED BY <2>1, <2>3
<1>5. QED BY <1>1, <1>2, <1>3, <1>4, Growth

\* The marks are months, or none.
LEMMA MarksStayTyped ==
  ASSUME closedThrough \in Mark, lockedThrough \in Mark, [Next]_vars
  PROVE  closedThrough' \in Mark /\ lockedThrough' \in Mark
<1>1. CASE MoveMarks
  BY <1>1, PeriodAssumption DEF MoveMarks, CloseThrough, ReopenFrom, LockThrough, Mark, Period
<1>2. CASE ChangeJournal
  BY ZenonT(40), <1>2 DEF ChangeJournal, Post, Edit
<1>3. CASE ReverseSome
  BY <1>3 DEF ReverseSome, Reverse
<1>4. QED BY <1>1, <1>2, <1>3 DEF Next, JournalKept, vars

\* The state keeps its types (books.ts: every operation returns Books).
THEOREM AlwaysTypeOK == Spec => []TypeOK
<1>1. Init => TypeOK
  <2>1. ASSUME ChartInit PROVE ChartTypeOK
    <3>1. PICK name \in [System -> Name] :
            accounts = [a \in Account |->
              IF a \in System
              THEN [name |-> name[a], section |-> SystemSection[a], parent |-> Missing,
                    active |-> TRUE]
              ELSE Missing]
      BY <2>1 DEF ChartInit
    <3>2. ASSUME NEW a \in Account PROVE accounts[a] \in {Missing} \cup Entry
      BY <3>1, SystemAssumption DEF Entry
    <3>3. QED BY <3>1, <3>2 DEF ChartTypeOK
  <2>2. QED BY <2>1, PeriodAssumption DEF Init, TypeOK, Mark
<1>2. TypeOK /\ [Next]_vars => TypeOK'
  <2>1. SUFFICES ASSUME TypeOK, [Next]_vars PROVE TypeOK'
    OBVIOUS
  <2>2. ChartTypeOK'
    <3>1. CASE ChangeChart
      BY <2>1, <3>1, ChartStaysTyped DEF TypeOK
    <3>2. CASE UNCHANGED accounts
      BY <2>1, <3>2 DEF TypeOK, ChartTypeOK
    <3>3. QED
      BY ZenonT(40), <2>1, <3>1, <3>2 DEF Next, vars, ChangeJournal, Post, Edit, ReverseSome, Reverse,
         MoveMarks, CloseThrough, ReopenFrom, LockThrough
  <2>3. QED BY <2>1, <2>2, JournalStaysTyped, MarksStayTyped DEF TypeOK
<1>3. QED BY <1>1, <1>2, PTL DEF Spec

-----------------------------------------------------------------------------
(* Periods.                                                                *)

\* Nothing is locked that is not closed (periods.ts: "lockedThrough <= closedThrough
\* always").
THEOREM AlwaysLockedIsClosed == Spec => []LockedIsClosed
<1>1. Init => LockedIsClosed
  BY DEF Init, LockedIsClosed
<1>2. TypeOK /\ LockedIsClosed /\ [Next]_vars => LockedIsClosed'
  <2>1. SUFFICES ASSUME TypeOK, LockedIsClosed, [Next]_vars PROVE LockedIsClosed'
    OBVIOUS
  <2>2. CASE MoveMarks
    BY <2>1, <2>2 DEF TypeOK, MoveMarks, CloseThrough, ReopenFrom, LockThrough,
       LockedIsClosed, Mark, Period
  <2>3. CASE UNCHANGED <<closedThrough, lockedThrough>>
    BY <2>1, <2>3 DEF LockedIsClosed
  <2>4. QED BY <2>1, <2>2, <2>3 DEF Next, vars, JournalKept, ChangeJournal, Post, Edit,
               ReverseSome, Reverse
<1>3. QED BY <1>1, <1>2, AlwaysTypeOK, PTL DEF Spec

-----------------------------------------------------------------------------
(* What a step adds to the journal.                                        *)

LEMMA OneMore ==
  ASSUME entries \in Seq(Posting), NEW e \in Posting, entries' = Append(entries, e)
  PROVE  /\ Len(entries) \in Nat
         /\ DOMAIN entries = 1..Len(entries)
         /\ DOMAIN entries' = 1..(Len(entries) + 1)
         /\ \A i \in DOMAIN entries : entries'[i] = entries[i]
         /\ entries'[Len(entries) + 1] = e
  OBVIOUS

LEMMA TwoMore ==
  ASSUME entries \in Seq(Posting), NEW e \in Posting, NEW f \in Posting,
         entries' = Append(Append(entries, e), f)
  PROVE  /\ Len(entries) \in Nat
         /\ DOMAIN entries = 1..Len(entries)
         /\ DOMAIN entries' = 1..(Len(entries) + 2)
         /\ \A i \in DOMAIN entries : entries'[i] = entries[i]
         /\ entries'[Len(entries) + 1] = e
         /\ entries'[Len(entries) + 2] = f
<1> DEFINE mid == Append(entries, e)
<1>1. /\ mid \in Seq(Posting)
      /\ Len(mid) = Len(entries) + 1
      /\ \A i \in 1..Len(entries) : mid[i] = entries[i]
      /\ mid[Len(entries) + 1] = e
  OBVIOUS
<1> HIDE DEF mid
<1>2. /\ Len(Append(mid, f)) = Len(mid) + 1
      /\ Append(mid, f) \in Seq(Posting)
      /\ \A i \in 1..Len(mid) : Append(mid, f)[i] = mid[i]
      /\ Append(mid, f)[Len(mid) + 1] = f
  BY <1>1
<1>3. entries' = Append(mid, f)
  BY DEF mid
<1>4. QED BY <1>1, <1>2, <1>3

\* What may be new in the journal after a step.
MayJoin(e) ==
  /\ Open(e.date)
  /\ e.reverses = 0 \/ /\ e.reverses \in DOMAIN entries
                       /\ Reversible(e.reverses)
                       /\ e = Reversal(e.reverses, e.date)

Old == DOMAIN entries
New == DOMAIN entries' \ DOMAIN entries

\* A step keeps the entries there are; those it adds may join, at most one of them is
\* a reversal, and a replacement follows the reversal of what it replaces.
LEMMA Additions ==
  ASSUME entries \in Seq(Posting), [Next]_vars
  PROVE  /\ \A i \in Old : i \in DOMAIN entries' /\ entries'[i] = entries[i]
         /\ \A j \in New : MayJoin(entries'[j])
         /\ \A j \in New : \A i \in Old : i < j
         /\ \A j, k \in New :
              entries'[j].reverses # 0 /\ entries'[k].reverses # 0 => j = k
         /\ \A j \in New : entries'[j].replaces # 0 =>
              j > 1 /\ entries'[j - 1].reverses = entries'[j].replaces
<1>1. CASE Stays
  BY <1>1 DEF Stays, Old, New
<1>2. CASE GrowsByPosting
  <2>1. PICK date \in Period, debit \in Account, credit \in Account, amount \in Amount :
          /\ Open(date)
          /\ entries' = Append(entries, Plain(date, debit, credit, amount, 0))
    BY <1>2 DEF GrowsByPosting
  <2> DEFINE e == Plain(date, debit, credit, amount, 0)
  <2>2. e \in Posting
    BY NewEntriesTyped
  <2>3. MayJoin(e) /\ e.replaces = 0
    BY <2>1 DEF Plain, MayJoin
  <2> HIDE DEF e
  <2>4. entries' = Append(entries, e)
    BY <2>1 DEF e
  <2>5. QED BY <2>2, <2>3, <2>4, OneMore DEF Old, New
<1>3. CASE GrowsByReversal
  <2>1. PICK i \in DOMAIN entries, date \in Period :
          /\ Reversible(i) /\ Open(date)
          /\ entries' = Append(entries, Reversal(i, date))
    BY <1>3 DEF GrowsByReversal
  <2> DEFINE e == Reversal(i, date)
  <2>2. e \in Posting
    BY NewEntriesTyped
  <2>3. MayJoin(e) /\ e.replaces = 0
    BY <2>1 DEF Reversal, MayJoin
  <2> HIDE DEF e
  <2>4. entries' = Append(entries, e)
    BY <2>1 DEF e
  <2>5. QED BY <2>2, <2>3, <2>4, OneMore DEF Old, New
<1>4. CASE GrowsByEdit
  <2>1. PICK i \in DOMAIN entries, reversalDate \in Period, date \in Period,
             debit \in Account, credit \in Account, amount \in Amount :
          /\ Reversible(i) /\ Open(reversalDate) /\ Open(date)
          /\ entries' = Append(Append(entries, Reversal(i, reversalDate)),
                               Plain(date, debit, credit, amount, i))
    BY <1>4 DEF GrowsByEdit
  <2> DEFINE e == Reversal(i, reversalDate)
             f == Plain(date, debit, credit, amount, i)
  <2>2. i \in Nat /\ i # 0
    OBVIOUS
  <2>3. e \in Posting /\ f \in Posting
    BY <2>2, NewEntriesTyped
  <2>4. MayJoin(e) /\ e.replaces = 0 /\ e.reverses = i
    BY <2>1 DEF Reversal, MayJoin
  <2>5. MayJoin(f) /\ f.reverses = 0 /\ f.replaces = i
    BY <2>1 DEF Plain, MayJoin
  <2> HIDE DEF e, f
  <2>6. entries' = Append(Append(entries, e), f)
    BY <2>1 DEF e, f
  <2> DEFINE n == Len(entries)
  <2>7. /\ n \in Nat
        /\ Old = 1..n
        /\ New = {n + 1, n + 2}
        /\ \A k \in Old : k \in DOMAIN entries' /\ entries'[k] = entries[k]
        /\ entries'[n + 1] = e
        /\ entries'[n + 2] = f
    <3>1. /\ n \in Nat
          /\ DOMAIN entries = 1..n
          /\ DOMAIN entries' = 1..(n + 2)
          /\ \A k \in 1..n : entries'[k] = entries[k]
          /\ entries'[n + 1] = e
          /\ entries'[n + 2] = f
      BY <2>3, <2>6, TwoMore
    <3> HIDE DEF n
    <3>2. DOMAIN entries' \ DOMAIN entries = {n + 1, n + 2}
      BY <3>1
    <3>. QED  BY <3>1, <3>2 DEF Old, New
  <2> HIDE DEF n
  <2>8. \A j \in New : MayJoin(entries'[j])
    BY <2>4, <2>5, <2>7
  <2>9. \A j \in New : entries'[j].replaces # 0 => j = n + 2
    BY <2>4, <2>7
  <2>10. \A j \in New : entries'[j].reverses # 0 => j = n + 1
    BY <2>5, <2>7
  <2>11. \A j \in New : entries'[j].replaces # 0 =>
           j > 1 /\ entries'[j - 1].reverses = entries'[j].replaces
    <3>1. (n + 2) - 1 = n + 1 /\ n + 2 > 1
      BY <2>7
    <3>2. QED BY <2>4, <2>5, <2>7, <2>9, <3>1
  <2>12. \A j \in New : \A k \in Old : k < j
    BY <2>7
  <2>13. QED BY <2>7, <2>8, <2>10, <2>11, <2>12
<1>5. QED BY <1>1, <1>2, <1>3, <1>4, Growth

-----------------------------------------------------------------------------
(* The journal.                                                            *)

\* e is the reversal of the entry o, which is at place i.
Mirrors(e, o, i) ==
  e = [date |-> e.date, debit |-> o.credit, credit |-> o.debit, amount |-> o.amount,
       reverses |-> i, replaces |-> 0]

\* An entry is cancelled once at most, by a later mirror image of it that is never
\* cancelled itself (books.ts reverseEntry).
THEOREM AlwaysReversalsPair == Spec => []ReversalsPair
<1>1. Init => ReversalsPair
  BY DEF Init, ReversalsPair
<1>2. ASSUME TypeOK, ReversalsPair, [Next]_vars,
             NEW j \in DOMAIN entries', entries'[j].reverses # 0,
             NEW i, i = entries'[j].reverses
      PROVE  /\ i \in 1..(j - 1)
             /\ entries'[i].reverses = 0
             /\ Mirrors(entries'[j], entries'[i], i)
             /\ \A k \in DOMAIN entries' : entries'[k].reverses = i => k = j
  <2>1. TypeOK /\ [Next]_vars /\ j \in DOMAIN entries' /\ i = entries'[j].reverses /\ i # 0
    BY <1>2
  <2>2. entries \in Seq(Posting)
    BY <2>1 DEF TypeOK
  <2>4. CASE j \in Old
    <3>1. entries'[j] = entries[j]
      BY <2>1, <2>2, <2>4, Additions
    <3>2. /\ i \in 1..(j - 1)
          /\ entries[i].reverses = 0
          /\ Mirrors(entries[j], entries[i], i)
          /\ \A k \in Old : entries[k].reverses = i => k = j
      BY <1>2, <2>1, <2>4, <3>1 DEF ReversalsPair, Reversal, Mirrors, Old
    <3>3. i \in Old /\ i # 0
      BY <2>2, <2>4, <3>2 DEF Old
    <3>4. Reversed(i)
      BY <2>1, <2>4, <3>1 DEF Reversed, Old
    <3>5. \A k \in New : entries'[k].reverses # i
      BY <2>1, <2>2, <3>3, <3>4, Additions DEF MayJoin, Reversible
    <3>6. \A k \in DOMAIN entries' : entries'[k].reverses = i => k = j
      BY <2>1, <2>2, <3>2, <3>5, Additions DEF Old, New
    <3>7. entries'[i] = entries[i]
      BY <2>1, <2>2, <3>3, Additions
    <3>8. QED BY <3>1, <3>2, <3>6, <3>7
  <2>5. CASE j \in New
    <3>1. /\ i \in Old
          /\ Reversible(i)
          /\ Mirrors(entries'[j], entries[i], i)
      BY <2>1, <2>2, <2>5, Additions DEF MayJoin, Reversal, Mirrors, Old
    <3>2. entries'[i] = entries[i] /\ entries[i].reverses = 0
      BY <2>1, <2>2, <3>1, Additions DEF Reversible
    <3>3. i \in 1..(j - 1)
      <4>1. i < j
        BY <2>1, <2>2, <2>5, <3>1, Additions
      <4>2. i \in Nat /\ i >= 1
        BY <2>2, <3>1 DEF Old
      <4>3. j \in Nat
        BY <2>1, <2>2, JournalStaysTyped
      <4>4. QED BY <4>1, <4>2, <4>3
    <3>4. \A k \in Old : entries'[k].reverses # i
      BY <2>1, <2>2, <3>1, Additions DEF Reversible, Reversed, Old
    <3>5. \A k \in New : entries'[k].reverses = i => k = j
      <4>1. i # 0
        BY <2>1
      <4>2. QED BY <2>1, <2>2, <2>5, <4>1, Additions
    <3>6. \A k \in DOMAIN entries' : entries'[k].reverses = i => k = j
      BY <3>4, <3>5 DEF Old, New
    <3>7. QED BY <3>1, <3>2, <3>3, <3>6
  <2>6. QED BY <2>1, <2>4, <2>5 DEF Old, New
<1>3. TypeOK /\ ReversalsPair /\ [Next]_vars => ReversalsPair'
  BY <1>2 DEF ReversalsPair, Reversal, Mirrors
<1>4. QED BY <1>1, <1>3, AlwaysTypeOK, PTL DEF Spec

\* An entry that replaces another comes right after the reversal of it (books.ts
\* editEntry).
THEOREM AlwaysEditsAreWhole == Spec => []EditsAreWhole
<1>1. Init => EditsAreWhole
  BY DEF Init, EditsAreWhole
<1>2. TypeOK /\ EditsAreWhole /\ [Next]_vars => EditsAreWhole'
  <2>1. SUFFICES ASSUME TypeOK, EditsAreWhole, [Next]_vars,
                        NEW j \in DOMAIN entries', entries'[j].replaces # 0
                 PROVE  j > 1 /\ entries'[j - 1].reverses = entries'[j].replaces
    BY DEF EditsAreWhole
  <2>2. entries \in Seq(Posting)
    BY <2>1 DEF TypeOK
  <2>3. CASE j \in Old
    <3>1. entries'[j] = entries[j]
      BY <2>1, <2>2, <2>3, Additions
    <3>2. j > 1 /\ entries[j - 1].reverses = entries[j].replaces
      BY <2>1, <2>3, <3>1 DEF EditsAreWhole, Old
    <3>3. j - 1 \in Old
      BY <2>2, <2>3, <3>2 DEF Old
    <3>4. QED BY <2>1, <2>2, <3>1, <3>2, <3>3, Additions
  <2>4. CASE j \in New
    BY <2>1, <2>2, <2>4, Additions
  <2>5. QED BY <2>1, <2>3, <2>4 DEF Old, New
<1>3. QED BY <1>1, <1>2, AlwaysTypeOK, PTL DEF Spec

\* A closed month gets no entries, a locked one loses none to a reversal dated later,
\* and it stays locked (books.ts rule 3).
THEOREM AlwaysShutPeriodsKeep == Spec => ShutPeriodsKeep
<1> DEFINE Keeps ==
      /\ \A p \in 1..closedThrough : Dated(p)' = Dated(p)
      /\ \A p \in 1..lockedThrough : Cancelled(p)' = Cancelled(p)
      /\ lockedThrough' >= lockedThrough
<1>1. TypeOK /\ [Next]_vars => Keeps
  <2>1. SUFFICES ASSUME TypeOK, [Next]_vars PROVE Keeps
    OBVIOUS
  <2>2. entries \in Seq(Posting) /\ closedThrough \in Nat /\ lockedThrough \in Nat
    BY <2>1 DEF TypeOK, Mark
  <2>3. \A j \in New : Open(entries'[j].date)
    BY <2>1, <2>2, Additions DEF MayJoin
  <2>4. ASSUME NEW p \in Int, p <= closedThrough \/ p <= lockedThrough
        PROVE  Dated(p)' = Dated(p)
    <3>1. \A j \in New : entries'[j].date \in Int
      <4>1. entries' \in Seq(Posting)
        BY <2>1, <2>2, JournalStaysTyped
      <4>2. \A j \in DOMAIN entries' : entries'[j] \in Posting
        BY <4>1
      <4>3. \A e \in Posting : e.date \in Int
        BY DEF Posting, Period
      <4>4. QED BY <4>2, <4>3 DEF New
    <3>2. \A j \in New : entries'[j].date # p
      BY <2>2, <2>3, <2>4, <3>1 DEF Open
    <3>3. QED BY <2>1, <2>2, <3>2, Additions DEF Dated, Old, New
  <2>5. ASSUME NEW p \in 1..lockedThrough
        PROVE  Cancelled(p)' = Cancelled(p)
    <3>1. Dated(p)' = Dated(p)
      BY <2>2, <2>4, <2>5
    <3>2. ASSUME NEW i \in Dated(p)
          PROVE  Reversed(i)' <=> Reversed(i)
      <4>1. i \in Old /\ i # 0 /\ Locked(entries[i].date)
        BY <2>2, <2>5, <3>2 DEF Dated, Locked, Old
      <4>2. \A j \in New : entries'[j].reverses # i
        BY <2>1, <2>2, <4>1, Additions DEF MayJoin, Reversible
      <4>3. QED BY <2>1, <2>2, <4>2, Additions DEF Reversed, Old, New
    <3>3. QED BY <3>1, <3>2 DEF Cancelled
  <2>6. lockedThrough' >= lockedThrough
    <3>1. CASE MoveMarks
      BY <2>2, <3>1 DEF MoveMarks, CloseThrough, ReopenFrom, LockThrough, Period
    <3>2. CASE UNCHANGED lockedThrough
      BY <2>2, <3>2
    <3>3. QED BY ZenonT(40), <2>1, <3>1, <3>2 DEF Next, vars, JournalKept, ChangeJournal, Post, Edit,
                 ReverseSome, Reverse
  <2>7. QED BY <2>2, <2>4, <2>5, <2>6
<1>2. QED BY <1>1, AlwaysTypeOK, PTL DEF Spec, ShutPeriodsKeep

\* What the journal and its marks promise together (JournalSound of Ledger).
THEOREM AlwaysJournalSound == Spec => []JournalSound
<1>1. LockedIsClosed /\ ReversalsPair /\ EditsAreWhole => JournalSound
  BY DEF JournalSound
<1>2. QED BY <1>1, AlwaysLockedIsClosed, AlwaysReversalsPair, AlwaysEditsAreWhole, PTL

-----------------------------------------------------------------------------
(* Ways up a chart.  A chart is looked at before and after a step, so it   *)
(* is a parameter here.                                                    *)

Charted(chart) == {a \in Account : chart[a] # Missing}

Climbs(chart, some) ==
  \A a \in some : chart[a].parent # Missing => chart[a].parent \in some

Way(chart, a) ==
  {b \in Charted(chart) : \A some \in SUBSET Charted(chart) :
                         a \in some /\ Climbs(chart, some) => b \in some}

\* Parents are on the chart.
ParentsHeld(chart) ==
  \A a \in Charted(chart) : chart[a].parent # Missing => chart[a].parent \in Charted(chart)

LEMMA HeldNow == Chart = Charted(accounts) /\ Chart' = Charted(accounts')
BY DEF Chart, Charted, Exists

LEMMA WayNow ==
  /\ \A a : Lineage(a) = Way(accounts, a)
  /\ \A a : Lineage(a)' = Way(accounts', a)
BY HeldNow DEF Lineage, Way, UpClosed, Climbs, Chart, Charted, Exists

\* The way up from an account is the least set that holds it and climbs.
LEMMA WayIs ==
  ASSUME NEW chart, ParentsHeld(chart), NEW a \in Charted(chart)
  PROVE  /\ a \in Way(chart, a)
         /\ Way(chart, a) \in SUBSET Charted(chart)
         /\ Climbs(chart, Way(chart, a))
         /\ \A some \in SUBSET Charted(chart) :
              a \in some /\ Climbs(chart, some) => Way(chart, a) \in SUBSET some
<1>1. Climbs(chart, Way(chart, a))
  <2>1. SUFFICES ASSUME NEW b \in Way(chart, a), chart[b].parent # Missing
                 PROVE  chart[b].parent \in Way(chart, a)
    BY DEF Climbs
  <2>2. chart[b].parent \in Charted(chart)
    BY <2>1 DEF Way, ParentsHeld
  <2>3. ASSUME NEW some \in SUBSET Charted(chart), a \in some, Climbs(chart, some)
        PROVE  chart[b].parent \in some
    BY <2>1, <2>3 DEF Way, Climbs
  <2>. QED  BY <2>2, <2>3 DEF Way
<1>. QED  BY <1>1 DEF Way

\* Whatever is on the way up has its own way up within it.
LEMMA WayOn ==
  ASSUME NEW chart, ParentsHeld(chart), NEW a \in Charted(chart), NEW b \in Way(chart, a)
  PROVE  Way(chart, b) \in SUBSET Way(chart, a)
<1>1. b \in Charted(chart)
  BY DEF Way
<1>. QED  BY <1>1, WayIs

\* One step up.
LEMMA WayUp ==
  ASSUME NEW chart, ParentsHeld(chart), NEW a \in Charted(chart)
  PROVE  /\ chart[a].parent = Missing => Way(chart, a) = {a}
         /\ chart[a].parent # Missing => Way(chart, a) = {a} \cup Way(chart, chart[a].parent)
<1>1. CASE chart[a].parent = Missing
  <2>1. Climbs(chart, {a}) /\ {a} \in SUBSET Charted(chart)
    BY <1>1 DEF Climbs
  <2>. QED  BY <1>1, <2>1, WayIs
<1>2. CASE chart[a].parent # Missing
  <2>. DEFINE p == chart[a].parent
  <2>1. p \in Charted(chart)
    BY <1>2 DEF ParentsHeld
  <2>2. Climbs(chart, Way(chart, p)) /\ p \in Way(chart, p)
        /\ Way(chart, p) \in SUBSET Charted(chart)
    BY <2>1, WayIs
  <2>3. Climbs(chart, {a} \cup Way(chart, p))
    BY <2>2 DEF Climbs
  <2>4. Way(chart, a) \in SUBSET ({a} \cup Way(chart, p))
    BY <2>2, <2>3, WayIs
  <2>5. p \in Way(chart, a)
    BY <1>2, WayIs DEF Climbs
  <2>6. Way(chart, p) \in SUBSET Way(chart, a)
    BY <2>5, WayOn
  <2>. QED  BY <1>2, <2>4, <2>6, WayIs
<1>. QED  BY <1>1, <1>2

\* The chart is a forest.
NoCycles(chart) ==
  \A a \in Charted(chart) : chart[a].parent # Missing => a \notin Way(chart, chart[a].parent)

\* An account is put on the chart, or changed, under one that is not below it.
Placed(chart, new, a, entry) ==
  /\ a \in Account /\ entry # Missing
  /\ new = [chart EXCEPT ![a] = entry]
  /\ entry.parent # Missing => entry.parent \in Charted(chart) /\ a \notin Way(chart, entry.parent)

\* What it leaves as it was, and that the ways around it lead on.
LEMMA PlacedKeeps ==
  ASSUME NEW chart, NEW new, NEW a, NEW entry, DOMAIN chart = Account,
         ParentsHeld(chart), Placed(chart, new, a, entry)
  PROVE  /\ Charted(new) = Charted(chart) \cup {a}
         /\ new[a] = entry
         /\ \A b \in Charted(chart) : b # a => new[b] = chart[b]
         /\ ParentsHeld(new)
         /\ \A some \in SUBSET (Charted(chart) \ {a}) : Climbs(chart, some) => Climbs(new, some)
<1>1. /\ Charted(new) = Charted(chart) \cup {a}
      /\ new[a] = entry
      /\ \A b \in Account : b # a => new[b] = chart[b]
  BY DEF Charted, Placed
<1>2. ParentsHeld(new)
  BY <1>1 DEF ParentsHeld, Placed, Charted
<1>3. ASSUME NEW some \in SUBSET (Charted(chart) \ {a}), Climbs(chart, some)
      PROVE  Climbs(new, some)
  BY <1>1, <1>3 DEF Climbs, Charted
<1>. QED  BY <1>1, <1>2, <1>3 DEF Charted

\* No cycle comes about.
LEMMA PlacedNoCycles ==
  ASSUME NEW chart, NEW new, NEW a, NEW entry, DOMAIN chart = Account,
         ParentsHeld(chart), NoCycles(chart), Placed(chart, new, a, entry)
  PROVE  NoCycles(new)
<1>. DEFINE L == IF entry.parent = Missing THEN {} ELSE Way(chart, entry.parent)
<1>1. /\ Charted(new) = Charted(chart) \cup {a}
      /\ new[a] = entry
      /\ \A b \in Charted(chart) : b # a => new[b] = chart[b]
      /\ ParentsHeld(new)
      /\ \A some \in SUBSET (Charted(chart) \ {a}) : Climbs(chart, some) => Climbs(new, some)
  BY PlacedKeeps
<1>2. /\ L \in SUBSET (Charted(chart) \ {a})
      /\ Climbs(chart, L)
      /\ entry.parent # Missing => entry.parent \in L
  <2>1. CASE entry.parent = Missing
    BY <2>1 DEF Climbs
  <2>2. CASE entry.parent # Missing
    <3>1. entry.parent \in Charted(chart) /\ a \notin Way(chart, entry.parent)
      BY <2>2 DEF Placed
    <3>. QED  BY <2>2, <3>1, WayIs
  <2>. QED  BY <2>1, <2>2
<1>. HIDE DEF L
<1>3. Climbs(new, L)
  BY <1>1, <1>2
\* A set that holds one account, lacks another and climbs keeps their ways apart.
<1>4. ASSUME NEW q \in Charted(new), NEW b, NEW some \in SUBSET Charted(new),
             q \in some, b \notin some, Climbs(new, some)
      PROVE  b \notin Way(new, q)
  BY <1>1, <1>4, WayIs
<1>5. SUFFICES ASSUME NEW b \in Charted(new), new[b].parent # Missing
               PROVE  b \notin Way(new, new[b].parent)
  BY DEF NoCycles
<1>6. new[b].parent \in Charted(new)
  BY <1>1, <1>5 DEF ParentsHeld
<1>7. CASE b = a
  BY <1>1, <1>2, <1>3, <1>4, <1>5, <1>6, <1>7
<1>8. CASE b # a
  <2>. DEFINE q == chart[b].parent
              S == Way(chart, q)
  <2>1. b \in Charted(chart) /\ new[b].parent = q /\ q # Missing
    BY <1>1, <1>5, <1>8
  <2>2. q \in Charted(chart) /\ b \notin S
    BY <2>1 DEF ParentsHeld, NoCycles
  <2>3. q \in S /\ S \in SUBSET Charted(chart) /\ Climbs(chart, S)
    BY <2>2, WayIs
  <2>. HIDE DEF S
  <2>4. CASE a \notin S
    <3>1. S \in SUBSET (Charted(chart) \ {a}) /\ S \in SUBSET Charted(new)
      BY <1>1, <2>3, <2>4
    <3>. QED  BY <1>1, <1>4, <1>6, <2>1, <2>2, <2>3, <3>1
  <2>5. CASE a \in S
    <3>1. b \notin L
      <4>1. SUFFICES ASSUME b \in L PROVE FALSE
        OBVIOUS
      <4>2. q \in L
        BY <1>2, <2>1, <4>1 DEF Climbs
      <4>3. S \in SUBSET L
        BY <1>2, <2>2, <4>2, WayIs DEF S
      <4>. QED  BY <1>2, <2>5, <4>3
    <3>2. S \cup L \in SUBSET Charted(new)
      BY <1>1, <1>2, <2>3
    <3>3. Climbs(new, S \cup L)
      <4>1. SUFFICES ASSUME NEW c \in S \cup L, new[c].parent # Missing
                     PROVE  new[c].parent \in S \cup L
        BY DEF Climbs
      <4>2. CASE c = a
        BY <1>1, <1>2, <4>1, <4>2
      <4>3. CASE c # a
        <5>1. c \in Charted(chart) /\ new[c] = chart[c]
          BY <1>1, <1>2, <2>3, <4>1, <4>3
        <5>. QED  BY <1>2, <2>3, <4>1, <5>1 DEF Climbs
      <4>. QED  BY <4>2, <4>3
    <3>. QED  BY <1>4, <1>6, <2>1, <2>2, <2>3, <3>1, <3>2, <3>3
  <2>. QED  BY <2>4, <2>5
<1>. QED  BY <1>7, <1>8

\* The same accounts under the same parents.
SamePlaces(chart, new) ==
  /\ Charted(new) = Charted(chart)
  /\ \A a \in Charted(chart) : new[a].parent = chart[a].parent

LEMMA SameWays ==
  ASSUME NEW chart, NEW new, SamePlaces(chart, new)
  PROVE  /\ \A a : Way(new, a) = Way(chart, a)
         /\ ParentsHeld(chart) => ParentsHeld(new)
         /\ NoCycles(chart) => NoCycles(new)
<1>1. \A some \in SUBSET Charted(chart) : Climbs(new, some) <=> Climbs(chart, some)
  BY DEF SamePlaces, Climbs
<1>2. \A a : Way(new, a) = Way(chart, a)
  BY <1>1 DEF SamePlaces, Way
<1>3. ParentsHeld(chart) => ParentsHeld(new)
  BY DEF SamePlaces, ParentsHeld
<1>. QED  BY <1>2, <1>3 DEF SamePlaces, NoCycles

-----------------------------------------------------------------------------
(* The chart is sound.                                                     *)

\* What the chart keeps beside its types.
ChartInv == /\ IsFiniteSet(Charted(accounts))
            /\ ParentsHeld(accounts)
            /\ NoCycles(accounts)
            /\ SiblingsDiffer

\* An account is put on the chart or changed, by the rules.
Places(a, entry) ==
  /\ Valid(a, entry) /\ Set(a, entry)
  /\ Placed(accounts, accounts', a, entry)

\* An account is made inactive, or active again.
Switches(a) ==
  /\ Exists(a)
  /\ \E b \in BOOLEAN : Set(a, [accounts[a] EXCEPT !.active = b])

LEMMA ChartSteps ==
  ASSUME ChartTypeOK, NEW a \in Account
  PROVE  /\ \A entry \in Entry : AddAccount(a, entry) => Places(a, entry)
         /\ \A entry \in Entry :
              UpdateAccount(a, entry, HasPostings(a)) => Places(a, entry) /\ Exists(a)
         /\ DeactivateAccount(a, BalanceOf(a)) => Switches(a)
         /\ ReactivateAccount(a) => Switches(a)
<1>1. ASSUME NEW entry \in Entry, Valid(a, entry), Set(a, entry)
      PROVE  Placed(accounts, accounts', a, entry)
  <2>1. entry # Missing
    BY MissingAssumption
  <2>2. entry.parent # Missing => entry.parent \in Charted(accounts)
    BY <1>1 DEF Valid, SameSection, Exists, Charted, Entry
  <2>3. entry.parent # Missing => a \notin Way(accounts, entry.parent)
    BY <1>1, WayNow DEF Valid, NotAboveItself
  <2>. QED  BY <1>1, <2>1, <2>2, <2>3 DEF Set, Placed
<1>2. ASSUME NEW entry \in Entry, AddAccount(a, entry) PROVE Places(a, entry)
  BY <1>1, <1>2 DEF AddAccount, Places
<1>3. ASSUME NEW entry \in Entry, UpdateAccount(a, entry, HasPostings(a))
      PROVE  Places(a, entry) /\ Exists(a)
  BY <1>1, <1>3 DEF UpdateAccount, Places
<1>4. DeactivateAccount(a, BalanceOf(a)) => Switches(a)
  BY DEF DeactivateAccount, Switches
<1>5. ReactivateAccount(a) => Switches(a)
  BY DEF ReactivateAccount, Switches
<1>. QED  BY <1>2, <1>3, <1>4, <1>5

\* A switch moves and renames nothing.
LEMMA SwitchKeeps ==
  ASSUME ChartTypeOK, NEW a \in Account, Switches(a)
  PROVE  /\ SamePlaces(accounts, accounts')
         /\ \A b \in Chart : /\ accounts'[b].name = accounts[b].name
                             /\ accounts'[b].section = accounts[b].section
                             /\ b # a => accounts'[b] = accounts[b]
<1>1. PICK f \in BOOLEAN : accounts' = [accounts EXCEPT ![a] = [accounts[a] EXCEPT !.active = f]]
  BY DEF Switches, Set
<1>. DEFINE e == [accounts[a] EXCEPT !.active = f]
<1>2. accounts[a] \in Entry
  BY DEF Switches, Exists, ChartTypeOK
<1>3. /\ e \in Entry /\ e.name = accounts[a].name /\ e.section = accounts[a].section
      /\ e.parent = accounts[a].parent
  BY <1>2 DEF Entry
<1>4. e # Missing
  BY <1>3, MissingAssumption
<1>. HIDE DEF e
<1>5. accounts' = [accounts EXCEPT ![a] = e]
  BY <1>1 DEF e
<1>6. \A b \in Account : accounts'[b] = IF b = a THEN e ELSE accounts[b]
  BY <1>5 DEF ChartTypeOK
<1>7. Charted(accounts') = Charted(accounts)
  <2>1. accounts[a] # Missing
    BY DEF Switches, Exists
  <2>2. \A b \in Account : accounts'[b] = Missing <=> accounts[b] = Missing
    BY <1>4, <1>6, <2>1
  <2>. QED  BY <2>2 DEF Charted
<1>8. \A b \in Charted(accounts) :
        /\ accounts'[b].parent = accounts[b].parent
        /\ accounts'[b].name = accounts[b].name
        /\ accounts'[b].section = accounts[b].section
        /\ b # a => accounts'[b] = accounts[b]
  BY <1>3, <1>6 DEF Charted
<1>. QED  BY <1>7, <1>8, HeldNow DEF SamePlaces

LEMMA PlaceKeeps ==
  ASSUME ChartTypeOK, ChartInv, NEW a \in Account, NEW entry \in Entry, Places(a, entry)
  PROVE  ChartInv'
<1>1. DOMAIN accounts = Account
  BY DEF ChartTypeOK
<1>2. Placed(accounts, accounts', a, entry) /\ ParentsHeld(accounts) /\ NoCycles(accounts)
  BY DEF Places, ChartInv
<1>3. /\ Charted(accounts') = Charted(accounts) \cup {a}
      /\ accounts'[a] = entry
      /\ \A b \in Charted(accounts) : b # a => accounts'[b] = accounts[b]
      /\ ParentsHeld(accounts')
  BY <1>1, <1>2, PlacedKeeps
<1>4. IsFiniteSet(Charted(accounts'))
  BY <1>3, FS_AddElement DEF ChartInv
<1>5. NoCycles(accounts')
  BY <1>1, <1>2, PlacedNoCycles
<1>6. SiblingsDiffer'
  <2>1. \A b \in Charted(accounts) \ {a} :
          accounts[b].parent = entry.parent => accounts[b].name # entry.name
    BY HeldNow DEF Places, Valid, NameIsFree
  <2>2. \A b, c \in Charted(accounts) : accounts[b].parent = accounts[c].parent
                                     /\ accounts[b].name = accounts[c].name => b = c
    BY HeldNow DEF ChartInv, SiblingsDiffer
  <2>. QED  BY <1>3, <2>1, <2>2, HeldNow DEF SiblingsDiffer
<1>. QED  BY <1>3, <1>4, <1>5, <1>6 DEF ChartInv

LEMMA SwitchStep ==
  ASSUME ChartTypeOK, ChartInv, NEW a \in Account, Switches(a)
  PROVE  ChartInv'
<1>1. /\ SamePlaces(accounts, accounts')
      /\ \A b \in Chart : accounts'[b].name = accounts[b].name
  BY SwitchKeeps
<1>2. SiblingsDiffer'
  BY <1>1, HeldNow DEF ChartInv, SiblingsDiffer, SamePlaces
<1>3. Charted(accounts') = Charted(accounts)
  BY <1>1 DEF SamePlaces
<1>4. ParentsHeld(accounts') /\ NoCycles(accounts')
  BY <1>1, SameWays DEF ChartInv
<1>. QED  BY <1>2, <1>3, <1>4 DEF ChartInv

LEMMA ChartStays == ASSUME ChartInv, UNCHANGED accounts PROVE ChartInv'
<1>1. Charted(accounts') = Charted(accounts)
  OBVIOUS
<1>2. SiblingsDiffer'
  BY HeldNow DEF ChartInv, SiblingsDiffer
<1>. QED  BY <1>2 DEF ChartInv

LEMMA ChartAtFirst == ASSUME ChartInit PROVE ChartInv
<1>1. PICK name \in [System -> Name] :
        /\ \A a, b \in System : name[a] = name[b] => a = b
        /\ accounts = [a \in Account |->
             IF a \in System
             THEN [name |-> name[a], section |-> SystemSection[a], parent |-> Missing,
                   active |-> TRUE]
             ELSE Missing]
  BY DEF ChartInit
<1>2. \A a \in System : accounts[a] \in Entry /\ accounts[a].parent = Missing
                        /\ accounts[a].name = name[a]
  BY <1>1, SystemAssumption DEF Entry
<1>3. Charted(accounts) = System
  BY ZenonT(40), <1>1, <1>2, SystemAssumption, MissingAssumption DEF Charted
<1>4. SiblingsDiffer
  <2>1. Chart = System
    BY <1>3, HeldNow
  <2>2. \A a, b \in System : accounts[a].name = accounts[b].name => a = b
    <3>1. \A a, b \in System : name[a] = name[b] => a = b
      BY <1>1
    <3>. QED  BY <1>2, <3>1
  <2>. QED  BY <2>1, <2>2 DEF SiblingsDiffer
<1>5. ParentsHeld(accounts) /\ NoCycles(accounts)
  BY <1>2, <1>3 DEF ParentsHeld, NoCycles
<1>6. IsFiniteSet(Charted(accounts))
  BY <1>3, SystemAssumption
<1>. QED  BY <1>4, <1>5, <1>6 DEF ChartInv

\* A step changes one account, by the rules, or none.
LEMMA AccountSteps ==
  ASSUME ChartTypeOK, [Next]_vars
  PROVE  \/ UNCHANGED accounts
         \/ ChangeChart /\ JournalKept
BY ZenonT(40) DEF Next, vars, ChangeJournal, Post, Edit, ReverseSome, Reverse, MoveMarks,
   CloseThrough, ReopenFrom, LockThrough

LEMMA ChartInvStep == ASSUME TypeOK, ChartInv, [Next]_vars PROVE ChartInv'
<1>1. ChartTypeOK
  BY DEF TypeOK
<1>2. CASE UNCHANGED accounts
  BY <1>2, ChartStays
<1>3. CASE ChangeChart
  <2>1. PICK a \in Account :
          \/ \E entry \in Entry : AddAccount(a, entry) \/ UpdateAccount(a, entry, HasPostings(a))
          \/ DeactivateAccount(a, BalanceOf(a))
          \/ ReactivateAccount(a)
    BY <1>3 DEF ChangeChart
  <2>2. (\E entry \in Entry : Places(a, entry)) \/ Switches(a)
    BY <1>1, <2>1, ChartSteps
  <2>. QED  BY <1>1, <2>2, PlaceKeeps, SwitchStep
<1>. QED  BY <1>1, <1>2, <1>3, AccountSteps

THEOREM AlwaysChartInv == Spec => []ChartInv
<1>1. Init => ChartInv
  BY ChartAtFirst DEF Init
<1>2. TypeOK /\ ChartInv /\ [Next]_vars => ChartInv'
  BY ChartInvStep
<1>. QED  BY <1>1, <1>2, AlwaysTypeOK, PTL DEF Spec

\* However often accounts are added, renamed and moved, none is above itself and no two
\* beside each other have one name (accounts.ts validateAccount).
THEOREM AlwaysChartSound == Spec => []ChartSound
<1>1. ChartInv => ChartSound
  BY HeldNow, WayNow DEF ChartInv, NoCycles, ChartSound, Forest
<1>. QED  BY <1>1, AlwaysChartInv, PTL

-----------------------------------------------------------------------------
(* Depth and sections of branches.                                         *)

\* DepthBounded and BranchInOneSection, of a chart.
Shallow(chart) == \A a \in Charted(chart) : Cardinality(Way(chart, a)) <= MaxDepth

OneSection(chart) ==
  \A a \in Charted(chart) :
    chart[a].parent # Missing => chart[chart[a].parent].section = chart[a].section

LEMMA RulesNow ==
  /\ DepthBounded = Shallow(accounts) /\ DepthBounded' = Shallow(accounts')
  /\ BranchInOneSection = OneSection(accounts) /\ BranchInOneSection' = OneSection(accounts')
<1>1. \A a : Depth(a) = Cardinality(Way(accounts, a)) /\ Depth(a)' = Cardinality(Way(accounts', a))
  BY WayNow DEF Depth
<1>2. DepthBounded = Shallow(accounts) /\ DepthBounded' = Shallow(accounts')
  BY <1>1, HeldNow DEF DepthBounded, Shallow
<1>3. BranchInOneSection = OneSection(accounts) /\ BranchInOneSection' = OneSection(accounts')
  BY HeldNow DEF BranchInOneSection, OneSection
<1>. QED  BY <1>2, <1>3

\* Where nothing is below an account, its place is all that depends on it.
LEMMA LeafPlaced ==
  ASSUME NEW chart, NEW new, NEW a, NEW entry, DOMAIN chart = Account,
         ParentsHeld(chart), IsFiniteSet(Charted(chart)), Placed(chart, new, a, entry),
         \A b \in Charted(chart) : chart[b].parent # a,
         Shallow(chart), OneSection(chart),
         entry.parent # Missing => /\ Cardinality(Way(chart, entry.parent)) + 1 <= MaxDepth
                                   /\ chart[entry.parent].section = entry.section
  PROVE  Shallow(new) /\ OneSection(new)
<1>1. /\ Charted(new) = Charted(chart) \cup {a}
      /\ new[a] = entry
      /\ \A b \in Charted(chart) : b # a => new[b] = chart[b]
      /\ ParentsHeld(new)
      /\ \A some \in SUBSET (Charted(chart) \ {a}) : Climbs(chart, some) => Climbs(new, some)
  BY PlacedKeeps
<1>2. ASSUME NEW b \in Charted(chart), b # a
      PROVE  /\ a \notin Way(chart, b)
             /\ Way(new, b) \in SUBSET Way(chart, b)
  <2>. DEFINE S == Way(chart, b) \ {a}
  <2>1. b \in Way(chart, b) /\ Way(chart, b) \in SUBSET Charted(chart)
        /\ Climbs(chart, Way(chart, b))
    BY WayIs
  <2>2. Climbs(chart, S) /\ S \in SUBSET Charted(chart) /\ b \in S
    BY <1>2, <2>1 DEF Climbs
  <2>3. Way(chart, b) \in SUBSET S
    BY <2>2, WayIs
  <2>4. a \notin Way(chart, b)
    BY <2>3
  <2>5. Climbs(new, Way(chart, b))
    BY <1>1, <2>1, <2>4
  <2>6. b \in Charted(new) /\ Way(chart, b) \in SUBSET Charted(new)
    BY <1>1, <2>1
  <2>7. Way(new, b) \in SUBSET Way(chart, b)
    BY <1>1, <2>1, <2>5, <2>6, WayIs
  <2>. QED  BY <2>4, <2>7
<1>3. \A b \in Charted(chart) : IsFiniteSet(Way(chart, b)) /\ Cardinality(Way(chart, b)) \in Nat
  BY WayIs, FS_Subset, FS_CardinalityType
<1>4. ASSUME NEW b \in Charted(chart), b # a
      PROVE  /\ Cardinality(Way(new, b)) <= Cardinality(Way(chart, b))
             /\ Cardinality(Way(new, b)) \in Nat
  BY <1>2, <1>3, <1>4, FS_Subset, FS_CardinalityType
<1>5. CASE entry.parent = Missing
  <2>1. Way(new, a) = {a}
    BY <1>1, <1>5, WayUp
  <2>2. Cardinality(Way(new, a)) = 1
    BY <2>1, FS_Singleton
  <2>3. Shallow(new)
    BY <1>1, <1>3, <1>4, <2>2, DepthAssumption DEF Shallow
  <2>4. OneSection(new)
    BY <1>1, <1>5 DEF OneSection, ParentsHeld
  <2>. QED  BY <2>3, <2>4
<1>6. CASE entry.parent # Missing
  <2>. DEFINE p == entry.parent
  <2>1. p \in Charted(chart) /\ a \notin Way(chart, p)
    BY <1>6 DEF Placed
  <2>2. p # a
    BY <2>1, WayIs
  <2>3. Way(new, a) = {a} \cup Way(new, p)
    BY <1>1, <1>6, WayUp
  <2>4. Way(new, p) \in SUBSET Way(chart, p)
    BY <1>2, <2>1, <2>2
  <2>5. IsFiniteSet(Way(new, p)) /\ Cardinality(Way(new, p)) <= Cardinality(Way(chart, p))
        /\ Cardinality(Way(new, p)) \in Nat
    BY <1>3, <2>1, <2>4, FS_Subset, FS_CardinalityType
  <2>6. Cardinality(Way(new, a)) <= Cardinality(Way(new, p)) + 1
        /\ Cardinality(Way(new, a)) \in Nat
    <3>. DEFINE W == Way(new, p)
    <3>1. {a} \cup W = W \cup {a} /\ IsFiniteSet(W) /\ Cardinality(W) \in Nat
      BY <2>5
    <3>. HIDE DEF W
    <3>2. Cardinality(W \cup {a}) = Cardinality(W) \/ Cardinality(W \cup {a}) = Cardinality(W) + 1
      BY <3>1, FS_AddElement
    <3>3. Cardinality(Way(new, a)) = Cardinality(W \cup {a})
      BY <2>3, <3>1 DEF W
    <3>4. Cardinality(Way(new, a)) <= Cardinality(W) + 1 /\ Cardinality(Way(new, a)) \in Nat
      BY <3>1, <3>2, <3>3
    <3>. QED  BY <3>4 DEF W
  <2>7. Cardinality(Way(chart, p)) + 1 <= MaxDepth /\ Cardinality(Way(chart, p)) \in Nat
    BY <1>3, <1>6, <2>1
  <2>8. Cardinality(Way(new, a)) <= MaxDepth
    BY <2>5, <2>6, <2>7, DepthAssumption
  <2>9. Shallow(new)
    BY <1>1, <1>3, <1>4, <2>8, DepthAssumption DEF Shallow
  <2>10. OneSection(new)
    <3>1. new[p].section = entry.section
      BY <1>1, <1>6, <2>1, <2>2
    <3>2. \A b \in Charted(chart) : b # a /\ chart[b].parent # Missing
            => new[chart[b].parent].section = chart[b].section
      BY <1>1 DEF OneSection, ParentsHeld
    <3>. QED  BY <1>1, <3>1, <3>2 DEF OneSection
  <2>. QED  BY <2>9, <2>10
<1>. QED  BY <1>5, <1>6

\* Where places and sections stay, so do the rules.
LEMMA RulesKept ==
  ASSUME NEW chart, NEW new, SamePlaces(chart, new), ParentsHeld(chart),
         \A a \in Charted(chart) : new[a].section = chart[a].section,
         Shallow(chart), OneSection(chart)
  PROVE  Shallow(new) /\ OneSection(new)
<1>1. Shallow(new)
  BY SameWays DEF SamePlaces, Shallow
<1>2. OneSection(new)
  BY DEF SamePlaces, OneSection, ParentsHeld
<1>. QED  BY <1>1, <1>2

LEMMA PlaceBendsNothing ==
  ASSUME ChartTypeOK, ChartInv, NEW a \in Account, NEW entry \in Entry, Places(a, entry),
         DepthBounded, BranchInOneSection, ~BranchMoves
  PROVE  DepthBounded' /\ BranchInOneSection'
<1>1. DOMAIN accounts = Account
  BY DEF ChartTypeOK
<1>2. /\ Placed(accounts, accounts', a, entry)
      /\ ParentsHeld(accounts) /\ IsFiniteSet(Charted(accounts))
      /\ Shallow(accounts) /\ OneSection(accounts)
  BY RulesNow DEF Places, ChartInv
<1>3. entry.parent # Missing => /\ Cardinality(Way(accounts, entry.parent)) + 1 <= MaxDepth
                                /\ accounts[entry.parent].section = entry.section
  BY WayNow DEF Places, Valid, LevelsLeft, SameSection, Depth
<1>4. CASE \A b \in Charted(accounts) : accounts[b].parent # a
  BY <1>1, <1>2, <1>3, <1>4, LeafPlaced, RulesNow
<1>5. CASE \E b \in Charted(accounts) : accounts[b].parent = a
  <2>1. a \in Charted(accounts)
    BY <1>2, <1>5, MissingAssumption DEF ParentsHeld
  <2>2. /\ accounts'[a].parent = accounts[a].parent
        /\ accounts'[a].section = accounts[a].section
    BY <1>5, <2>1, HeldNow DEF BranchMoves, HasSubAccounts
  <2>3. /\ Charted(accounts') = Charted(accounts) \cup {a}
        /\ \A b \in Charted(accounts) : b # a => accounts'[b] = accounts[b]
    BY <1>1, <1>2, PlacedKeeps
  <2>4. SamePlaces(accounts, accounts')
        /\ \A b \in Charted(accounts) : accounts'[b].section = accounts[b].section
    BY <2>1, <2>2, <2>3 DEF SamePlaces
  <2>. QED  BY <1>2, <2>4, RulesKept, RulesNow
<1>. QED  BY <1>4, <1>5

\* Sub-accounts nest too deep, or a branch is split between sections, only by moving an
\* account that has others below it (accounts.ts validateAccount looks up, never down).
THEOREM AlwaysOnlyBranchMovesBend == Spec => OnlyBranchMovesBend
<1>. DEFINE Bends == DepthBounded /\ BranchInOneSection /\ ~BranchMoves
                       => DepthBounded' /\ BranchInOneSection'
<1>1. TypeOK /\ ChartInv /\ [Next]_vars => [Bends]_accounts
  <2>1. SUFFICES ASSUME TypeOK, ChartInv, [Next]_vars, accounts' # accounts,
                        DepthBounded, BranchInOneSection, ~BranchMoves
                 PROVE  DepthBounded' /\ BranchInOneSection'
    OBVIOUS
  <2>2. ChartTypeOK
    BY <2>1 DEF TypeOK
  <2>3. PICK a \in Account :
          \/ \E entry \in Entry : AddAccount(a, entry) \/ UpdateAccount(a, entry, HasPostings(a))
          \/ DeactivateAccount(a, BalanceOf(a))
          \/ ReactivateAccount(a)
    BY <2>1, <2>2, AccountSteps DEF ChangeChart
  <2>4. (\E entry \in Entry : Places(a, entry)) \/ Switches(a)
    BY <2>2, <2>3, ChartSteps
  <2>5. CASE \E entry \in Entry : Places(a, entry)
    BY <2>1, <2>2, <2>5, PlaceBendsNothing
  <2>6. CASE Switches(a)
    <3>1. SamePlaces(accounts, accounts')
          /\ \A b \in Charted(accounts) : accounts'[b].section = accounts[b].section
      BY <2>2, <2>6, SwitchKeeps, HeldNow
    <3>2. ParentsHeld(accounts) /\ Shallow(accounts) /\ OneSection(accounts)
      BY <2>1, RulesNow DEF ChartInv
    <3>. QED  BY <3>1, <3>2, RulesKept, RulesNow
  <2>. QED  BY <2>4, <2>5, <2>6
<1>. QED  BY <1>1, AlwaysTypeOK, AlwaysChartInv, PTL DEF Spec, OnlyBranchMovesBend

-----------------------------------------------------------------------------
(* Balances.                                                               *)

Effects(list, a) == [i \in DOMAIN list |-> Effect(list[i], a)]

LEMMA EffectType ==
  ASSUME NEW e \in Posting, NEW a
  PROVE  /\ Effect(e, a) \in Int
         /\ a \notin {e.debit, e.credit} => Effect(e, a) = 0
<1>1. e.amount \in Amount
  BY DEF Posting
<1>2. \A x \in Amount : x \in Int
  BY AmountAssumption
<1>3. e.amount \in Int
  BY <1>1, <1>2
<1>. QED  BY <1>3 DEF Effect

LEMMA EffectsType ==
  ASSUME NEW list \in Seq(Posting), NEW a
  PROVE  /\ IsFiniteSet(DOMAIN list)
         /\ \A i \in DOMAIN list : list[i] \in Posting /\ Effects(list, a)[i] = Effect(list[i], a)
         /\ IntOn(DOMAIN list, Effects(list, a))
<1>1. DOMAIN list = 1..Len(list) /\ Len(list) \in Nat
  OBVIOUS
<1>2. IsFiniteSet(DOMAIN list)
  BY <1>1, FS_Interval
<1>3. \A i \in DOMAIN list : list[i] \in Posting
  OBVIOUS
<1>. QED  BY <1>2, <1>3, EffectType DEF Effects, IntOn

LEMMA BalanceIs ==
  ASSUME NEW a
  PROVE  /\ BalanceOf(a) = Over(DOMAIN entries, Effects(entries, a))
         /\ BalanceOf(a)' = Over(DOMAIN entries', Effects(entries', a))
<1>1. ASSUME NEW list
      PROVE  SumFunction([i \in DOMAIN list |-> Effect(list[i], a)])
               = Over(DOMAIN list, Effects(list, a))
  <2>1. [i \in DOMAIN list |-> Effect(list[i], a)]
          = [i \in DOMAIN list |-> Effects(list, a)[i]]
    BY DEF Effects
  <2>. QED  BY <2>1 DEF Over, Total
<1>2. BalanceOf(a) = SumFunction([i \in DOMAIN entries |-> Effect(entries[i], a)])
  BY DEF BalanceOf
<1>3. BalanceOf(a)' = SumFunction([i \in DOMAIN entries' |-> Effect(entries'[i], a)])
  BY DEF BalanceOf, Effect
<1>. QED  BY <1>1, <1>2, <1>3

\* What does not touch an account leaves its balance.
LEMMA BalanceKept ==
  ASSUME entries \in Seq(Posting), [Next]_vars, NEW a,
         \A j \in New : a \notin {entries'[j].debit, entries'[j].credit}
  PROVE  BalanceOf(a)' = BalanceOf(a)
<1>. DEFINE f == Effects(entries, a)
            g == Effects(entries', a)
<1>1. entries' \in Seq(Posting)
  BY JournalStaysTyped
<1>2. /\ DOMAIN entries \in SUBSET DOMAIN entries'
      /\ \A i \in DOMAIN entries : entries'[i] = entries[i]
  BY Additions DEF Old
<1>3. /\ IsFiniteSet(DOMAIN entries') /\ IntOn(DOMAIN entries', g)
      /\ \A i \in DOMAIN entries' : entries'[i] \in Posting /\ g[i] = Effect(entries'[i], a)
  BY <1>1, EffectsType
<1>4. \A i \in DOMAIN entries : g[i] = f[i]
  BY <1>2, <1>3, EffectsType
<1>5. \A i \in New : g[i] = 0
  BY <1>3, EffectType DEF New
<1>6. BalanceOf(a) = Over(DOMAIN entries, f) /\ BalanceOf(a)' = Over(DOMAIN entries', g)
  BY BalanceIs
<1>7. IsFiniteSet(DOMAIN entries) /\ IntOn(DOMAIN entries, f)
  BY EffectsType
<1>. HIDE DEF f, g
<1>8. Over(DOMAIN entries', g) = Over(DOMAIN entries, g) + Over(New, g)
  BY <1>2, <1>3, SumSplit DEF New
<1>9. Over(New, g) = 0
  <2>1. IsFiniteSet(New)
    BY <1>3, FS_Subset DEF New
  <2>. QED  BY <1>5, <2>1, SumZero
<1>10. Over(DOMAIN entries, g) = Over(DOMAIN entries, f)
  BY <1>4, SumSame
<1>11. Over(DOMAIN entries, f) \in Int
  BY <1>7, SumParts
<1>. QED  BY <1>6, <1>8, <1>9, <1>10, <1>11

\* What is posted, and is not a reversal, is posted to active accounts.
LEMMA JoinsActive ==
  ASSUME entries \in Seq(Posting), [Next]_vars, NEW j \in New, entries'[j].reverses = 0
  PROVE  {entries'[j].debit, entries'[j].credit} \in SUBSET Active
<1>1. CASE ChangeJournal
  <2>1. PICK date \in Period, debit \in Account, credit \in Account, amount \in Amount :
          \/ Post(date, debit, credit, amount)
          \/ \E i \in DOMAIN entries, reversalDate \in Period :
               Edit(i, reversalDate, date, debit, credit, amount)
    BY <1>1 DEF ChangeJournal
  <2>2. {debit, credit} \in SUBSET Active
    BY <2>1 DEF Post, Edit, MayPost
  <2>3. CASE Post(date, debit, credit, amount)
    <3>. DEFINE e == Plain(date, debit, credit, amount, 0)
    <3>1. e \in Posting /\ e.debit = debit /\ e.credit = credit
      BY NewEntriesTyped DEF Plain
    <3>2. entries' = Append(entries, e)
      BY <2>3 DEF Post, Plain
    <3>. HIDE DEF e
    <3>3. DOMAIN entries = 1..Len(entries) /\ DOMAIN entries' = 1..(Len(entries) + 1)
          /\ entries'[Len(entries) + 1] = e /\ Len(entries) \in Nat
      BY <3>1, <3>2, OneMore
    <3>4. j = Len(entries) + 1
      BY <3>3 DEF New
    <3>. QED  BY <2>2, <3>1, <3>3, <3>4
  <2>4. CASE \E i \in DOMAIN entries, reversalDate \in Period :
               Edit(i, reversalDate, date, debit, credit, amount)
    <3>1. PICK i \in DOMAIN entries, reversalDate \in Period :
                 Edit(i, reversalDate, date, debit, credit, amount)
      BY <2>4
    <3>. DEFINE r == Reversal(i, reversalDate)
                e == Plain(date, debit, credit, amount, i)
    <3>2. i \in Nat /\ i # 0
      OBVIOUS
    <3>3. r \in Posting /\ r.reverses = i /\ e \in Posting /\ e.debit = debit /\ e.credit = credit
      BY <3>2, NewEntriesTyped DEF Plain, Reversal
    <3>4. entries' = Append(Append(entries, r), e)
      BY <3>1 DEF Edit, Plain
    <3>. HIDE DEF e, r
    <3>5. DOMAIN entries = 1..Len(entries) /\ DOMAIN entries' = 1..(Len(entries) + 2)
          /\ entries'[Len(entries) + 1] = r /\ entries'[Len(entries) + 2] = e
          /\ Len(entries) \in Nat
      BY <3>3, <3>4, TwoMore
    <3>6. j = Len(entries) + 1 \/ j = Len(entries) + 2
      BY <3>5 DEF New
    <3>. QED  BY <2>2, <3>2, <3>3, <3>5, <3>6
  <2>. QED  BY <2>1, <2>3, <2>4
<1>2. CASE ReverseSome
  <2>1. PICK i \in DOMAIN entries, date \in Period : Reverse(i, date)
    BY <1>2 DEF ReverseSome
  <2>. DEFINE r == Reversal(i, date)
  <2>2. r \in Posting /\ r.reverses = i /\ i # 0
    BY NewEntriesTyped DEF Reversal
  <2>3. entries' = Append(entries, r)
    BY <2>1 DEF Reverse
  <2>. HIDE DEF r
  <2>4. DOMAIN entries = 1..Len(entries) /\ DOMAIN entries' = 1..(Len(entries) + 1)
        /\ entries'[Len(entries) + 1] = r /\ Len(entries) \in Nat
    BY <2>2, <2>3, OneMore
  <2>5. j = Len(entries) + 1
    BY <2>4 DEF New
  <2>. QED  BY <2>2, <2>4, <2>5
<1>3. CASE UNCHANGED entries
  BY <1>3 DEF New
<1>. QED  BY <1>1, <1>2, <1>3 DEF Next, vars, JournalKept, MoveMarks, CloseThrough, ReopenFrom,
             LockThrough

LEMMA ActiveIs ==
  /\ \A a : a \in Active <=> a \in Chart /\ accounts[a].active
  /\ \A a : a \in Active' <=> a \in Chart' /\ accounts'[a].active
BY DEF Active

\* An account that is inactive after a change of the chart has been so before, or was empty.
LEMMA WasInactive ==
  ASSUME ChartTypeOK, ChangeChart, NEW a \in Chart' \ Active'
  PROVE  a \in Chart /\ (a \notin Active \/ BalanceOf(a) = 0)
<1>1. PICK b \in Account :
        \/ \E entry \in Entry : AddAccount(b, entry) \/ UpdateAccount(b, entry, HasPostings(b))
        \/ DeactivateAccount(b, BalanceOf(b))
        \/ ReactivateAccount(b)
  BY DEF ChangeChart
<1>2. a \in Account /\ accounts'[a] # Missing /\ ~accounts'[a].active
  BY ActiveIs, HeldNow DEF Charted
<1>3. CASE \E entry \in Entry : AddAccount(b, entry) \/ UpdateAccount(b, entry, HasPostings(b))
  <2>1. PICK entry \in Entry : AddAccount(b, entry) \/ UpdateAccount(b, entry, HasPostings(b))
    BY <1>3
  <2>2. accounts' = [accounts EXCEPT ![b] = entry]
        /\ (entry.active \/ (Exists(b) /\ entry.active = accounts[b].active))
    BY <2>1 DEF AddAccount, UpdateAccount, Set
  <2>3. \A c \in Account : accounts'[c] = IF c = b THEN entry ELSE accounts[c]
    BY <2>2 DEF ChartTypeOK
  <2>4. CASE a = b
    <3>1. accounts'[a] = entry
      BY <1>2, <2>3, <2>4
    <3>2. Exists(a) /\ ~accounts[a].active
      BY <1>2, <2>2, <2>4, <3>1
    <3>. QED  BY <1>2, <3>2, ActiveIs, HeldNow DEF Charted, Exists
  <2>5. CASE a # b
    BY <1>2, <2>3, <2>5, ActiveIs, HeldNow DEF Charted
  <2>. QED  BY <2>4, <2>5
<1>4. CASE DeactivateAccount(b, BalanceOf(b)) \/ ReactivateAccount(b)
  <2>1. Switches(b)
    BY <1>4, ChartSteps
  <2>2. /\ Charted(accounts') = Charted(accounts)
        /\ \A c \in Charted(accounts) : c # b => accounts'[c] = accounts[c]
    BY <2>1, SwitchKeeps, HeldNow DEF SamePlaces
  <2>3. CASE a # b
    BY <1>2, <2>2, <2>3, ActiveIs, HeldNow
  <2>4. CASE a = b
    <3>1. a \in Chart
      BY <2>2, HeldNow
    <3>2. CASE DeactivateAccount(b, BalanceOf(b))
      BY <2>4, <3>1, <3>2 DEF DeactivateAccount
    <3>3. CASE ReactivateAccount(b)
      <4>1. accounts'[b] = [accounts[b] EXCEPT !.active = TRUE] /\ accounts[b] \in Entry
        BY <3>3 DEF ReactivateAccount, Set, ChartTypeOK, Exists
      <4>2. accounts'[b].active
        BY <4>1 DEF Entry
      <4>. QED  BY <1>2, <2>4, <4>2
    <3>. QED  BY <1>4, <3>2, <3>3
  <2>. QED  BY <2>3, <2>4
<1>. QED  BY <1>1, <1>3, <1>4

\* Nothing but a reversal of an entry on it gives an inactive account a balance (books.ts
\* deactivateAccount, normalizeLines).
THEOREM AlwaysOnlyReversalsFillInactive == Spec => OnlyReversalsFillInactive
<1>. DEFINE Fills == InactiveIsEmpty /\ ~ReversesOntoInactive => InactiveIsEmpty'
<1>1. TypeOK /\ [Next]_vars => Fills
  <2>1. SUFFICES ASSUME TypeOK, [Next]_vars, InactiveIsEmpty, ~ReversesOntoInactive,
                        NEW a \in Chart' \ Active'
                 PROVE  BalanceOf(a)' = 0
    BY DEF InactiveIsEmpty
  <2>2. ChartTypeOK /\ entries \in Seq(Posting)
    BY <2>1 DEF TypeOK
  <2>3. a \in Chart /\ (a \notin Active \/ BalanceOf(a) = 0)
    <3>1. CASE ChangeChart
      BY <2>2, <3>1, WasInactive
    <3>2. CASE UNCHANGED accounts
      BY <2>1, <3>2 DEF Chart, Exists, Active
    <3>. QED  BY <2>1, <2>2, <3>1, <3>2, AccountSteps
  <2>4. BalanceOf(a) = 0
    BY <2>1, <2>3 DEF InactiveIsEmpty
  <2>5. \A j \in New : a \notin {entries'[j].debit, entries'[j].credit}
    <3>1. CASE UNCHANGED entries
      BY <3>1 DEF New
    <3>2. CASE UNCHANGED accounts
      <4>1. a \notin Active
        BY <2>1, <3>2 DEF Chart, Exists, Active
      <4>2. \A j \in New : {entries'[j].debit, entries'[j].credit} \in SUBSET Active
        BY <2>1, <2>2, JoinsActive DEF ReversesOntoInactive, New
      <4>. QED  BY <4>1, <4>2
    <3>. QED  BY <2>1, <2>2, <3>1, <3>2, AccountSteps DEF JournalKept
  <2>6. BalanceOf(a)' = BalanceOf(a)
    BY <2>1, <2>2, <2>5, BalanceKept
  <2>. QED  BY <2>4, <2>6
<1>. QED  BY <1>1, AlwaysTypeOK, PTL DEF Spec, OnlyReversalsFillInactive

-----------------------------------------------------------------------------
(* What the books keep that the statements rest on.                        *)

\* Entries are on accounts of the chart.
PostedOnChart == \A i \in DOMAIN entries : {entries[i].debit, entries[i].credit} \subseteq Chart

\* System accounts stay where they are.
SystemKept == \A a \in System : a \in Chart /\ accounts[a].section = SystemSection[a]

BooksInv == TypeOK /\ ChartInv /\ PostedOnChart /\ SystemKept

\* An account that comes into a section, or leaves one, is new or has nothing posted to it.
LEMMA SectionsChange ==
  ASSUME ChartTypeOK, [Next]_vars, SystemKept, NEW a \in Account
  PROVE  /\ a \in Chart => a \in Chart'
         /\ a \in Chart /\ accounts'[a].section # accounts[a].section
              => a \notin System /\ ~HasPostings(a)
<1>1. CASE UNCHANGED accounts
  BY <1>1 DEF Chart, Exists
<1>2. CASE ChangeChart
  <2>1. PICK b \in Account :
          \/ \E entry \in Entry : AddAccount(b, entry) \/ UpdateAccount(b, entry, HasPostings(b))
          \/ DeactivateAccount(b, BalanceOf(b))
          \/ ReactivateAccount(b)
    BY <1>2 DEF ChangeChart
  <2>2. CASE \E entry \in Entry : AddAccount(b, entry) \/ UpdateAccount(b, entry, HasPostings(b))
    <3>1. PICK entry \in Entry : AddAccount(b, entry) \/ UpdateAccount(b, entry, HasPostings(b))
      BY <2>2
    <3>2. accounts' = [accounts EXCEPT ![b] = entry] /\ entry # Missing
      BY <3>1, MissingAssumption DEF AddAccount, UpdateAccount, Set
    <3>3. \A c \in Account : /\ c = b => accounts'[c] = entry
                             /\ c # b => accounts'[c] = accounts[c]
      BY <3>2 DEF ChartTypeOK
    <3>4. b \in Chart /\ entry.section # accounts[b].section => b \notin System /\ ~HasPostings(b)
      BY <3>1 DEF AddAccount, UpdateAccount, Chart
    <3>. QED  BY <3>2, <3>3, <3>4, HeldNow DEF Charted
  <2>3. CASE DeactivateAccount(b, BalanceOf(b)) \/ ReactivateAccount(b)
    <3>1. Switches(b)
      BY <2>3, ChartSteps
    <3>. QED  BY <3>1, SwitchKeeps, HeldNow DEF SamePlaces
  <2>. QED  BY <2>1, <2>2, <2>3
<1>. QED  BY <1>1, <1>2, AccountSteps

\* What joins the journal is on the chart.
LEMMA JoinsOnChart ==
  ASSUME entries \in Seq(Posting), PostedOnChart, [Next]_vars, NEW j \in New
  PROVE  {entries'[j].debit, entries'[j].credit} \in SUBSET Chart
<1>1. CASE entries'[j].reverses = 0
  BY <1>1, JoinsActive DEF Active
<1>2. CASE entries'[j].reverses # 0
  <2>1. MayJoin(entries'[j])
    BY Additions
  <2>2. PICK i \in DOMAIN entries : entries'[j] = Reversal(i, entries'[j].date)
    BY <1>2, <2>1 DEF MayJoin
  <2>3. entries'[j].debit = entries[i].credit /\ entries'[j].credit = entries[i].debit
    BY <2>2 DEF Reversal
  <2>. QED  BY <2>3 DEF PostedOnChart
<1>. QED  BY <1>1, <1>2

LEMMA BooksStep == ASSUME BooksInv, [Next]_vars PROVE PostedOnChart' /\ SystemKept'
<1>1. ChartTypeOK /\ entries \in Seq(Posting) /\ PostedOnChart /\ SystemKept
  BY DEF BooksInv, TypeOK
<1>2. \A a \in Account : a \in Chart => a \in Chart'
  BY <1>1, SectionsChange
<1>3. \A a \in Chart : a \in Account
  BY DEF Chart
<1>4. PostedOnChart'
  <2>1. \A i \in Old : i \in DOMAIN entries' /\ entries'[i] = entries[i]
    BY <1>1, Additions
  <2>2. SUFFICES ASSUME NEW i \in DOMAIN entries'
                 PROVE  {entries'[i].debit, entries'[i].credit} \subseteq Chart'
    BY DEF PostedOnChart
  <2>3. {entries'[i].debit, entries'[i].credit} \subseteq Chart
    BY <1>1, <2>1, JoinsOnChart DEF PostedOnChart, Old, New
  <2>. QED  BY <1>2, <1>3, <2>3
<1>5. SystemKept'
  <2>1. SUFFICES ASSUME NEW a \in System
                 PROVE  a \in Chart' /\ accounts'[a].section = SystemSection[a]
    BY DEF SystemKept
  <2>2. a \in Account /\ a \in Chart /\ accounts[a].section = SystemSection[a]
    BY <1>1, SystemAssumption DEF SystemKept
  <2>. QED  BY <1>1, <2>2, SectionsChange
<1>. QED  BY <1>4, <1>5

THEOREM AlwaysBooksInv == Spec => []BooksInv
<1>1. Init => PostedOnChart /\ SystemKept
  <2>1. SUFFICES ASSUME Init PROVE PostedOnChart /\ SystemKept
    OBVIOUS
  <2>2. PostedOnChart
    BY <2>1 DEF Init, PostedOnChart
  <2>3. PICK name \in [System -> Name] :
          accounts = [a \in Account |->
            IF a \in System
            THEN [name |-> name[a], section |-> SystemSection[a], parent |-> Missing,
                  active |-> TRUE]
            ELSE Missing]
    BY <2>1 DEF Init, ChartInit
  <2>4. \A a \in System : accounts[a] \in Entry /\ accounts[a].section = SystemSection[a]
                          /\ a \in Account
    BY <2>3, SystemAssumption DEF Entry
  <2>5. SystemKept
    BY <2>4, MissingAssumption, HeldNow DEF SystemKept, Charted
  <2>. QED  BY <2>2, <2>5
<1>2. TypeOK /\ ChartInv /\ PostedOnChart /\ SystemKept /\ [Next]_vars
        => PostedOnChart' /\ SystemKept'
  BY BooksStep DEF BooksInv
<1>. QED  BY <1>1, <1>2, AlwaysTypeOK, AlwaysChartInv, PTL DEF Spec, BooksInv

-----------------------------------------------------------------------------
(* Sections.                                                               *)

\* On one way up, of two accounts one is above the other.
LEMMA WayIsALine ==
  ASSUME NEW chart, ParentsHeld(chart), NEW b \in Charted(chart),
         NEW t \in Way(chart, b), NEW u \in Way(chart, b)
  PROVE  t \in Way(chart, u) \/ u \in Way(chart, t)
<1>. DEFINE S == {c \in Way(chart, b) : u \in Way(chart, c) \/ c \in Way(chart, u)}
<1>1. /\ b \in Way(chart, b) /\ Way(chart, b) \in SUBSET Charted(chart)
      /\ Climbs(chart, Way(chart, b))
  BY WayIs
<1>2. u \in Charted(chart)
  BY <1>1
<1>3. u \in Way(chart, u) /\ Climbs(chart, Way(chart, u))
  BY <1>2, WayIs
<1>4. ASSUME NEW c \in S, chart[c].parent # Missing
      PROVE  chart[c].parent \in S
  <2>1. c \in Charted(chart) /\ chart[c].parent \in Way(chart, b)
    BY <1>1, <1>4 DEF Climbs
  <2>2. CASE c \in Way(chart, u)
    BY <1>3, <1>4, <2>1, <2>2 DEF Climbs
  <2>3. CASE u \in Way(chart, c) /\ u # c
    BY <1>4, <2>1, <2>3, WayUp
  <2>. QED  BY <1>3, <1>4, <2>2, <2>3
<1>5. Climbs(chart, S) /\ S \in SUBSET Charted(chart) /\ b \in S
  BY <1>1, <1>4 DEF Climbs
<1>6. Way(chart, b) \in SUBSET S
  <2>. HIDE DEF S
  <2>. QED  BY <1>5, WayIs
<1>. QED  BY <1>6

\* A member is in the branch of one row at the top.
LEMMA OneTopRow ==
  ASSUME ChartTypeOK, ChartInv, NEW members \in SUBSET Chart, NEW b \in members
  PROVE  \E t \in TopRows(members) :
           /\ b \in Branch(t, members)
           /\ \A u \in TopRows(members) : b \in Branch(u, members) => u = t
<1>. DEFINE W(a) == Way(accounts, a)
            H == Charted(accounts)
            up == members \cap W(b)
            Bad == {W(t) : t \in up}
<1>0. /\ ParentsHeld(accounts) /\ NoCycles(accounts) /\ IsFiniteSet(H)
      /\ members \in SUBSET H /\ b \in H
  BY HeldNow DEF ChartInv
<1>1. \A a \in H : a \in W(a) /\ W(a) \in SUBSET H /\ \A c \in W(a) : W(c) \in SUBSET W(a)
  BY <1>0, WayIs, WayOn
<1>2. \A a \in H : accounts[a].parent # Missing =>
        accounts[a].parent \in H /\ W(a) = {a} \cup W(accounts[a].parent)
        /\ a \notin W(accounts[a].parent)
  BY <1>0, WayUp DEF ParentsHeld, NoCycles
<1>3. \A a \in H : accounts[a].parent = Missing => W(a) = {a}
  BY <1>0, WayUp
<1>4. \A a \in members : a \in TopRows(members) <=>
        (accounts[a].parent # Missing => members \cap W(accounts[a].parent) = {})
  BY WayNow DEF TopRows
<1>5. \A a \in members : b \in Branch(a, members) <=> a \in W(b)
  BY <1>0, <1>1, WayNow DEF Branch
<1>6. Bad # {} /\ Bad \in SUBSET (SUBSET H)
  BY <1>0, <1>1
<1>7. PICK T \in Bad : \A U \in SUBSET T : U # T => U \notin Bad
  <2>. HIDE DEF Bad, H
  <2>. QED  BY <1>0, <1>6, LeastBad
<1>8. PICK t \in up : T = W(t)
  BY <1>7
<1>9. t \in TopRows(members)
  <2>1. SUFFICES ASSUME accounts[t].parent # Missing,
                        NEW u \in members \cap W(accounts[t].parent)
                 PROVE  FALSE
    BY <1>4, <1>8
  <2>2. t \in H
    BY <1>0, <1>8
  <2>3. accounts[t].parent \in H /\ W(t) = {t} \cup W(accounts[t].parent)
        /\ t \notin W(accounts[t].parent)
    BY <1>2, <2>1, <2>2
  <2>4. W(u) \in SUBSET W(accounts[t].parent)
    BY <1>1, <2>1, <2>3
  <2>5. u \in W(t) /\ W(t) \in SUBSET W(b)
    BY <1>0, <1>1, <1>8, <2>1, <2>3
  <2>6. W(u) \in Bad
    BY <2>1, <2>5
  <2>7. W(u) \in SUBSET T /\ W(u) # T
    BY <1>8, <2>2, <2>3, <2>4, <1>1
  <2>. QED  BY <1>7, <2>6, <2>7
<1>10. b \in Branch(t, members)
  BY <1>5, <1>8
<1>11. ASSUME NEW u \in TopRows(members), b \in Branch(u, members), u # t
       PROVE  FALSE
  <2>1. u \in members /\ u \in W(b) /\ t \in members /\ t \in W(b)
    BY <1>5, <1>8, <1>11 DEF TopRows
  <2>2. t \in W(u) \/ u \in W(t)
    BY <1>0, <2>1, WayIsALine
  <2>3. ASSUME NEW x \in members, NEW y \in members, x # y, x \in W(y)
        PROVE  y \notin TopRows(members)
    <3>1. y \in H
      BY <1>0
    <3>2. accounts[y].parent # Missing
      BY <1>3, <2>3, <3>1
    <3>3. x \in W(accounts[y].parent)
      BY <1>2, <2>3, <3>1, <3>2
    <3>. QED  BY <1>4, <3>2, <3>3
  <2>. QED  BY <1>9, <1>11, <2>1, <2>2, <2>3
<1>. QED  BY <1>9, <1>10, <1>11

\* Own amounts of accounts, on their normal side.
Own(members, net) ==
  [a \in members |-> IF accounts[a].section \in {"asset", "expense"} THEN net[a] ELSE -net[a]]

\* A section's tree adds up to what its accounts add up to, whoever is under whom.
LEMMA TreeAddsUp ==
  ASSUME ChartTypeOK, ChartInv, NEW sections, NEW net, IntOn(Chart, net)
  PROVE  SectionTotal(sections, net) = Over(InSection(sections), Own(InSection(sections), net))
<1>. DEFINE M == InSection(sections)
            own == Own(M, net)
            D == TopRows(M)
            row == [a \in D |-> Total(own, Branch(a, M))]
            key == [b \in M |-> CHOOSE t \in D : b \in Branch(t, M)]
            group == [t \in D |-> Branch(t, M)]
<1>1. M \in SUBSET Chart /\ IsFiniteSet(M) /\ D \in SUBSET M /\ IsFiniteSet(D)
  <2>1. M \in SUBSET Chart /\ D \in SUBSET M
    BY DEF InSection, TopRows
  <2>2. IsFiniteSet(Chart)
    BY HeldNow DEF ChartInv
  <2>. QED  BY <2>1, <2>2, FS_Subset
<1>2. IntOn(M, own)
  BY <1>1 DEF IntOn, Own
<1>. HIDE DEF M, own, D
<1>3. ASSUME NEW b \in M
      PROVE  /\ key[b] \in D
             /\ \A t \in D : b \in Branch(t, M) <=> key[b] = t
  <2>1. PICK t \in D : b \in Branch(t, M) /\ \A u \in D : b \in Branch(u, M) => u = t
    BY <1>1, <1>3, OneTopRow DEF D
  <2>2. key[b] = t
    <3>1. key[b] = CHOOSE u \in D : b \in Branch(u, M)
      BY <1>3
    <3>2. key[b] \in D /\ b \in Branch(key[b], M)
      BY <2>1, <3>1
    <3>. QED  BY <2>1, <3>2
  <2>. QED  BY <2>1, <2>2
<1>4. \A t \in D : \A b : b \in group[t] <=> b \in M /\ key[b] = t
  <2>1. \A t \in D : group[t] = Branch(t, M) /\ Branch(t, M) \in SUBSET M
    BY DEF Branch
  <2>. HIDE DEF key, group
  <2>. QED  BY <1>3, <2>1
<1>5. \A t \in D : row[t] = Over(group[t], own)
  BY DEF Over, Total
<1>6. \A b \in M : key[b] \in D
  BY <1>3
<1>. HIDE DEF row, key, group
<1>7. Over(D, row) = Over(M, own)
  BY <1>1, <1>2, <1>4, <1>5, <1>6, SumGroups
<1>8. SectionTotal(sections, net) = Total(row, D)
  BY DEF SectionTotal, Own, M, own, D, row
<1>. QED  BY <1>7, <1>8 DEF Over, Total, M, own

LEMMA SumNegated ==
  ASSUME NEW S, IsFiniteSet(S), NEW f, IntOn(S, f), NEW g, \A x \in S : g[x] = -f[x]
  PROVE  Over(S, g) = -Over(S, f)
<1>. DEFINE z == [x \in S |-> 0]
<1>1. IntOn(S, z) /\ \A x \in S : z[x] = 0
  BY DEF IntOn
<1>2. \A x \in S : g[x] = z[x] - f[x]
  BY <1>1 DEF IntOn
<1>. HIDE DEF z
<1>3. Over(S, g) = Over(S, z) - Over(S, f) /\ Over(S, z) = 0
  BY <1>1, <1>2, SumDifference, SumZero
<1>4. Over(S, f) \in Int
  BY SumParts
<1>. QED  BY <1>3, <1>4

Of(section) == InSection({section})

LEMMA SectionIs ==
  ASSUME ChartTypeOK, ChartInv, NEW net, IntOn(Chart, net)
  PROVE  /\ \A s \in {"asset", "expense"} : SectionTotal({s}, net) = Over(Of(s), net)
         /\ \A s \in {"liability", "equity", "income"} :
              SectionTotal({s}, net) = -Over(Of(s), net)
         /\ \A S : IsFiniteSet(InSection(S)) /\ IntOn(InSection(S), net)
                   /\ Over(InSection(S), net) \in Int
<1>1. \A S : InSection(S) \in SUBSET Chart
  BY DEF InSection
<1>2. IsFiniteSet(Chart)
  BY HeldNow DEF ChartInv
<1>3. \A S : IsFiniteSet(InSection(S)) /\ IntOn(InSection(S), net)
             /\ Over(InSection(S), net) \in Int
  BY <1>1, <1>2, FS_Subset, SumParts DEF IntOn
<1>4. ASSUME NEW s \in {"asset", "expense"}
      PROVE  SectionTotal({s}, net) = Over(Of(s), net)
  <2>1. SectionTotal({s}, net) = Over(Of(s), Own(Of(s), net))
    BY TreeAddsUp DEF Of
  <2>2. \A a \in Of(s) : accounts[a].section = s
    BY DEF Of, InSection
  <2>3. \A a \in Of(s) : Own(Of(s), net)[a] = net[a]
    BY <1>4, <2>2 DEF Own
  <2>. QED  BY <2>1, <2>3, SumSame
<1>5. ASSUME NEW s \in {"liability", "equity", "income"}
      PROVE  SectionTotal({s}, net) = -Over(Of(s), net)
  <2>1. SectionTotal({s}, net) = Over(Of(s), Own(Of(s), net))
    BY TreeAddsUp DEF Of
  <2>2. \A a \in Of(s) : accounts[a].section = s
    BY DEF Of, InSection
  <2>3. \A a \in Of(s) : Own(Of(s), net)[a] = -net[a]
    BY <1>5, <2>2 DEF Own
  <2>4. IsFiniteSet(Of(s)) /\ IntOn(Of(s), net)
    BY <1>3 DEF Of
  <2>. QED  BY <2>1, <2>3, <2>4, SumNegated
<1>. QED  BY <1>3, <1>4, <1>5

-----------------------------------------------------------------------------
(* What was posted within a stretch of time.                               *)

LEMMA NetIs ==
  ASSUME NEW from, NEW to, NEW a \in Account
  PROVE  /\ NetByAccount(from, to)[a] = Over(Within(from, to), Effects(entries, a))
         /\ NetByAccount(from, to)'[a] = Over(Within(from, to)', Effects(entries', a))
<1>1. ASSUME NEW list, NEW S \in SUBSET DOMAIN list
      PROVE  SumFunction([i \in S |-> Effect(list[i], a)]) = Over(S, Effects(list, a))
  <2>1. [i \in S |-> Effect(list[i], a)] = [i \in S |-> Effects(list, a)[i]]
    BY DEF Effects
  <2>. QED  BY <2>1 DEF Over, Total
<1>2. Within(from, to) \in SUBSET DOMAIN entries /\ Within(from, to)' \in SUBSET DOMAIN entries'
  BY DEF Within
<1>3. NetByAccount(from, to)[a]
        = SumFunction([i \in Within(from, to) |-> Effect(entries[i], a)])
  BY DEF NetByAccount
<1>4. NetByAccount(from, to)'[a]
        = SumFunction([i \in Within(from, to)' |-> Effect(entries'[i], a)])
  BY DEF NetByAccount, Effect
<1>. QED  BY <1>1, <1>2, <1>3, <1>4

LEMMA NetType ==
  ASSUME entries \in Seq(Posting), NEW from, NEW to
  PROVE  \A a \in Account : /\ IsFiniteSet(Within(from, to))
                            /\ IntOn(Within(from, to), Effects(entries, a))
                            /\ NetByAccount(from, to)[a] \in Int
<1>1. SUFFICES ASSUME NEW a \in Account
               PROVE  /\ IsFiniteSet(Within(from, to))
                      /\ IntOn(Within(from, to), Effects(entries, a))
                      /\ NetByAccount(from, to)[a] \in Int
  OBVIOUS
<1>2. IsFiniteSet(DOMAIN entries) /\ IntOn(DOMAIN entries, Effects(entries, a))
  BY EffectsType
<1>3. Within(from, to) \in SUBSET DOMAIN entries
  BY DEF Within
<1>4. IsFiniteSet(Within(from, to)) /\ IntOn(Within(from, to), Effects(entries, a))
  BY <1>2, <1>3, FS_Subset DEF IntOn
<1>. QED  BY <1>4, NetIs, SumParts

\* The fiscal year of a month starts no later.
LEMMA YearStart ==
  ASSUME NEW p \in Period
  PROVE  FiscalYearStart(p) \in Int /\ FiscalYearStart(p) <= p
<1>1. p \in Int /\ StartMonth \in Int /\ YearMonths \in Nat /\ YearMonths > 0
  BY MonthAssumption, PeriodAssumption DEF Period
<1>. DEFINE d == p - StartMonth
<1>2. d \in Int
  BY <1>1
<1>. HIDE DEF d
<1>3. d % YearMonths \in Int /\ d % YearMonths >= 0
  BY <1>1, <1>2
<1>4. FiscalYearStart(p) = p - (d % YearMonths)
  BY DEF FiscalYearStart, d
<1>. QED  BY <1>1, <1>3, <1>4

\* Earlier years and this one are all there is.
LEMMA NetAdds ==
  ASSUME entries \in Seq(Posting), NEW p \in Period, NEW a \in Account
  PROVE  NetByAccount(0, p)[a] = NetByAccount(0, FiscalYearStart(p) - 1)[a]
                                 + NetByAccount(FiscalYearStart(p), p)[a]
<1>. DEFINE s == FiscalYearStart(p)
<1>1. s \in Int /\ s <= p /\ p \in Int
  BY YearStart, PeriodAssumption DEF Period
<1>. HIDE DEF s
<1>2. \A i \in DOMAIN entries : entries[i].date \in Int /\ entries[i].date >= 1
  <2>1. \A i \in DOMAIN entries : entries[i] \in Posting
    OBVIOUS
  <2>2. \A e \in Posting : e.date \in Int /\ e.date >= 1
    BY PeriodAssumption DEF Posting, Period
  <2>. QED  BY <2>1, <2>2
<1>3. /\ Within(0, s - 1) \in SUBSET Within(0, p)
      /\ Within(0, p) \ Within(0, s - 1) = Within(s, p)
  BY <1>1, <1>2 DEF Within
<1>4. Over(Within(0, p), Effects(entries, a))
        = Over(Within(0, s - 1), Effects(entries, a)) + Over(Within(s, p), Effects(entries, a))
  BY <1>3, NetType, SumSplit
<1>. QED  BY <1>4, NetIs DEF s

\* An entry is on two accounts of the chart, and adds nothing to the chart.
LEMMA EntryBalances ==
  ASSUME NEW S, IsFiniteSet(S), NEW e \in Posting, {e.debit, e.credit} \in SUBSET S,
         NEW g, \A a \in S : g[a] = Effect(e, a)
  PROVE  Over(S, g) = 0
<1>. DEFINE T == {e.debit, e.credit}
<1>1. IntOn(S, g) /\ \A a \in S \ T : g[a] = 0
  BY EffectType DEF IntOn
<1>2. e.amount \in Int
  <2>1. e.amount \in Amount
    BY DEF Posting
  <2>2. \A x \in Amount : x \in Int
    BY AmountAssumption
  <2>. QED  BY <2>1, <2>2
<1>3. CASE e.debit = e.credit
  <2>1. \A a \in S : g[a] = 0
    BY <1>2, <1>3 DEF Effect
  <2>. QED  BY <2>1, SumZero
<1>4. CASE e.debit # e.credit
  <2>1. g[e.debit] = e.amount /\ g[e.credit] = -e.amount
    BY <1>2, <1>4 DEF Effect
  <2>2. Over(S, g) = Over(T, g) + Over(S \ T, g)
    BY <1>1, SumSplit
  <2>3. Over(S \ T, g) = 0
    BY <1>1, FS_Subset, SumZero
  <2>4. IsFiniteSet(T) /\ IntOn(T, g) /\ IsFiniteSet({e.credit}) /\ IntOn({e.credit}, g)
    BY <1>1, FS_Subset DEF IntOn
  <2>5. Over(T, g) = g[e.debit] + Over({e.credit}, g)
    <3>1. T \ {e.debit} = {e.credit}
      BY <1>4
    <3>. QED  BY <2>4, <3>1, SumParts
  <2>6. Over({e.credit}, g) = g[e.credit] + 0
    <3>1. {e.credit} \ {e.credit} = {}
      OBVIOUS
    <3>2. Over({e.credit}, g) = g[e.credit] + Over({e.credit} \ {e.credit}, g)
      BY <2>4, SumParts
    <3>. QED  BY <3>1, <3>2, SumNone
  <2>. HIDE DEF T
  <2>. QED  BY <1>2, <2>1, <2>2, <2>3, <2>5, <2>6
<1>. QED  BY <1>3, <1>4

\* Debits are credits.
LEMMA NetBalances ==
  ASSUME entries \in Seq(Posting), IsFiniteSet(Chart), PostedOnChart, NEW from, NEW to
  PROVE  Over(Chart, NetByAccount(from, to)) = 0
<1>. DEFINE T == Within(from, to)
            F == [a \in Chart |-> Effects(entries, a)]
            G == [i \in T |-> [a \in Chart |-> Effect(entries[i], a)]]
            rows == NetByAccount(from, to)
            columns == [i \in T |-> Over(Chart, G[i])]
<1>1. T \in SUBSET DOMAIN entries /\ \A a \in Chart : a \in Account
  BY DEF Within, Chart
<1>2. IsTable(Chart, T, F, G, rows, columns)
  <2>1. ASSUME NEW a \in Chart
        PROVE  IntOn(T, F[a]) /\ rows[a] = Over(T, F[a])
    BY <1>1, NetType, NetIs
  <2>2. \A i \in T : columns[i] = Over(Chart, G[i])
    OBVIOUS
  <2>3. \A a \in Chart, i \in T : G[i][a] = F[a][i]
    BY <1>1 DEF Effects
  <2>4. IsFiniteSet(T)
    <3>1. IsFiniteSet(DOMAIN entries)
      BY EffectsType
    <3>. QED  BY <1>1, <3>1, FS_Subset
  <2>. HIDE DEF T, F, G, rows, columns
  <2>. QED  BY <2>1, <2>2, <2>3, <2>4 DEF IsTable
<1>3. ASSUME NEW i \in T
      PROVE  columns[i] = 0
  <2>1. entries[i] \in Posting /\ {entries[i].debit, entries[i].credit} \in SUBSET Chart
    BY <1>1 DEF PostedOnChart
  <2>2. \A a \in Chart : G[i][a] = Effect(entries[i], a)
    OBVIOUS
  <2>3. columns[i] = Over(Chart, G[i])
    OBVIOUS
  <2>. HIDE DEF T, G, columns
  <2>. QED  BY <2>1, <2>2, <2>3, EntryBalances
<1>. HIDE DEF F, G, rows, columns
<1>4. Over(Chart, rows) = Over(T, columns)
  BY <1>2, SumSwap
<1>5. IsFiniteSet(T)
  BY <1>2 DEF IsTable
<1>6. Over(T, columns) = 0
  <2>. HIDE DEF T
  <2>. QED  BY <1>3, <1>5, SumZero
<1>. QED  BY <1>4, <1>6 DEF rows

-----------------------------------------------------------------------------
(* The statements.                                                         *)

\* What the accounts of these sections add up to, over a stretch of time.
Sums(sections, from, to) == Over(InSection(sections), NetByAccount(from, to))

LEMMA NetOnChart ==
  ASSUME BooksInv, NEW from, NEW to
  PROVE  /\ IsFiniteSet(Chart) /\ \A S : InSection(S) \in SUBSET Chart
         /\ \A S \in SUBSET Chart : /\ IsFiniteSet(S)
                                    /\ IntOn(S, NetByAccount(from, to))
                                    /\ Over(S, NetByAccount(from, to)) \in Int
<1>1. IsFiniteSet(Chart) /\ entries \in Seq(Posting)
  BY HeldNow DEF BooksInv, ChartInv, TypeOK
<1>2. \A S : InSection(S) \in SUBSET Chart
  BY DEF InSection
<1>3. \A a \in Chart : a \in Account
  BY DEF Chart
<1>4. ASSUME NEW S \in SUBSET Chart
      PROVE  IsFiniteSet(S) /\ IntOn(S, NetByAccount(from, to))
             /\ Over(S, NetByAccount(from, to)) \in Int
  <2>1. IsFiniteSet(S)
    BY <1>1, FS_Subset
  <2>2. IntOn(S, NetByAccount(from, to))
    BY <1>1, <1>3, NetType DEF IntOn
  <2>. QED  BY <2>1, <2>2, SumParts
<1>. QED  BY <1>1, <1>2, <1>4

\* Every account is in one section.
LEMMA SectionsAddUp ==
  ASSUME BooksInv, NEW f, IntOn(Chart, f)
  PROVE  /\ Over(Chart, f) = Over(Of("asset"), f) + Over(Of("liability"), f)
                             + Over(Of("equity"), f) + Over(Earning, f)
         /\ Over(Earning, f) = Over(Of("income"), f) + Over(Of("expense"), f)
<1>1. IsFiniteSet(Chart) /\ ChartTypeOK
  BY HeldNow DEF BooksInv, ChartInv, TypeOK
<1>2. \A a \in Chart : accounts[a].section \in {"asset", "liability", "equity", "income", "expense"}
  <2>1. \A a \in Chart : accounts[a] \in Entry
    BY <1>1 DEF ChartTypeOK, Chart, Exists
  <2>2. \A e \in Entry : e.section \in Section
    BY DEF Entry
  <2>. QED  BY <2>1, <2>2, SectionAssumption
<1>. DEFINE A == Of("asset")
            L == Of("liability")
            Q == Of("equity")
            I == Of("income")
            X == Of("expense")
<1>3. /\ A \in SUBSET Chart /\ L \in SUBSET (Chart \ A) /\ Q \in SUBSET ((Chart \ A) \ L)
      /\ ((Chart \ A) \ L) \ Q = Earning
      /\ I \in SUBSET Earning /\ Earning \ I = X
  BY <1>2 DEF Of, InSection, Earning
<1>4. \A S \in SUBSET Chart : IsFiniteSet(S) /\ IntOn(S, f) /\ Over(S, f) \in Int
  BY <1>1, FS_Subset, SumParts DEF IntOn
<1>. HIDE DEF A, L, Q, I, X
<1>5. Over(Chart, f) = Over(A, f) + Over(Chart \ A, f)
  BY <1>3, <1>4, SumSplit
<1>6. Over(Chart \ A, f) = Over(L, f) + Over((Chart \ A) \ L, f)
  BY <1>3, <1>4, SumSplit
<1>7. Over((Chart \ A) \ L, f) = Over(Q, f) + Over(Earning, f)
  BY <1>3, <1>4, SumSplit
<1>8. Over(Earning, f) = Over(I, f) + Over(X, f)
  <2>1. Earning \in SUBSET Chart
    BY <1>3
  <2>. QED  BY <1>3, <1>4, <2>1, SumSplit
<1>9. Over(A, f) \in Int /\ Over(L, f) \in Int /\ Over(Q, f) \in Int /\ Over(Earning, f) \in Int
  <2>1. A \in SUBSET Chart /\ L \in SUBSET Chart /\ Q \in SUBSET Chart /\ Earning \in SUBSET Chart
    BY <1>3
  <2>. QED  BY <1>4, <2>1
<1>10. Over(Chart, f) = Over(A, f) + Over(L, f) + Over(Q, f) + Over(Earning, f)
  BY <1>5, <1>6, <1>7, <1>9
<1>. QED  BY <1>8, <1>10 DEF A, L, Q, I, X

\* The years before this one and this year.
LEMMA SumsAdd ==
  ASSUME BooksInv, NEW p \in Period, NEW S
  PROVE  Sums(S, 0, p) = Sums(S, 0, FiscalYearStart(p) - 1) + Sums(S, FiscalYearStart(p), p)
<1>. DEFINE s == FiscalYearStart(p)
            M == InSection(S)
            f == NetByAccount(0, p)
            g == NetByAccount(0, s - 1)
            h == NetByAccount(s, p)
<1>1. entries \in Seq(Posting)
  BY DEF BooksInv, TypeOK
<1>2. IsFiniteSet(M) /\ IntOn(M, f) /\ IntOn(M, g) /\ IntOn(M, h)
      /\ Over(M, f) \in Int /\ Over(M, g) \in Int /\ Over(M, h) \in Int
  BY NetOnChart
<1>3. \A a \in M : a \in Account
  BY DEF InSection, Chart
<1>4. \A a \in M : f[a] = g[a] + h[a]
  BY <1>1, <1>3, NetAdds
<1>. HIDE DEF f, g, h, M
<1>5. \A a \in M : h[a] = f[a] - g[a]
  BY <1>2, <1>4 DEF IntOn
<1>6. Over(M, h) = Over(M, f) - Over(M, g)
  BY <1>2, <1>5, SumDifference
<1>7. Over(M, f) = Over(M, g) + Over(M, h)
  BY <1>2, <1>6
<1>. QED  BY <1>7 DEF Sums, f, g, h, M

\* Retained Earnings is, and stays, equity.
LEMMA RetainedIs == ASSUME BooksInv PROVE Retained \in Of("equity") /\ Retained \notin Earning
<1>1. Retained \in Chart /\ accounts[Retained].section = "equity"
  BY RetainedAssumption DEF BooksInv, SystemKept
<1>. QED  BY <1>1 DEF Of, InSection, Earning

\* The trial balance, account by account.
LEMMA TrialIs ==
  ASSUME BooksInv, NEW p \in Period
  PROVE  /\ \A a \in Earning : TrialBalance(p)[a] = NetByAccount(FiscalYearStart(p), p)[a]
         /\ \A a \in Chart \ Earning :
              a # Retained => TrialBalance(p)[a] = NetByAccount(0, p)[a]
         /\ TrialBalance(p)[Retained]
              = NetByAccount(0, p)[Retained]
                + Sums({"income", "expense"}, 0, FiscalYearStart(p) - 1)
         /\ IntOn(Chart, TrialBalance(p))
<1>. DEFINE s == FiscalYearStart(p)
            prior == Total(NetByAccount(0, s - 1), Earning)
            ever == NetByAccount(0, p)
            year == NetByAccount(s, p)
            tb == TrialBalance(p)
<1>1. prior = Sums({"income", "expense"}, 0, s - 1) /\ prior \in Int
  BY NetOnChart DEF Sums, Over, Total, Earning
<1>2. IntOn(Chart, ever) /\ IntOn(Chart, year)
  BY NetOnChart
<1>3. Retained \in Chart /\ Retained \notin Earning /\ Earning \in SUBSET Chart
  BY RetainedIs DEF Of, InSection, Earning
<1>4. \A a \in Chart : tb[a] = IF a \in Earning THEN year[a]
                               ELSE ever[a] + IF a = Retained THEN prior ELSE 0
  BY DEF TrialBalance
<1>. HIDE DEF s, prior, ever, year, tb
<1>5. \A a \in Earning : tb[a] = year[a]
  BY <1>3, <1>4
<1>6. \A a \in Chart \ Earning : a # Retained => tb[a] = ever[a]
  <2>1. SUFFICES ASSUME NEW a \in Chart \ Earning, a # Retained PROVE tb[a] = ever[a]
    OBVIOUS
  <2>2. tb[a] = ever[a] + 0
    BY <1>4, <2>1
  <2>. QED  BY <1>2, <2>2 DEF IntOn
<1>7. tb[Retained] = ever[Retained] + prior
  BY <1>3, <1>4
<1>8. IntOn(Chart, tb)
  <2>1. SUFFICES ASSUME NEW a \in Chart PROVE tb[a] \in Int
    BY DEF IntOn
  <2>2. year[a] \in Int /\ ever[a] \in Int
    BY <1>2 DEF IntOn
  <2>3. CASE a \in Earning
    BY <1>5, <2>2, <2>3
  <2>4. CASE a \notin Earning /\ a # Retained
    BY <1>6, <2>2, <2>4
  <2>5. CASE a = Retained
    BY <1>1, <1>7, <2>2, <2>5
  <2>. QED  BY <2>3, <2>4, <2>5
<1>. QED  BY <1>1, <1>5, <1>6, <1>7, <1>8 DEF s, prior, ever, year, tb

\* What the balance sheet says, section by section.
Sheet(p) ==
  [assets      |-> Sums({"asset"}, 0, p),
   liabilities |-> -Sums({"liability"}, 0, p),
   equity      |-> -(Sums({"equity"}, 0, p)
                     + Sums({"income", "expense"}, 0, FiscalYearStart(p) - 1)),
   netIncome   |-> -Sums({"income", "expense"}, FiscalYearStart(p), p)]

LEMMA TrialSums ==
  ASSUME BooksInv, NEW p \in Period
  PROVE  /\ Over(Of("asset"), TrialBalance(p)) = Sums({"asset"}, 0, p)
         /\ Over(Of("liability"), TrialBalance(p)) = Sums({"liability"}, 0, p)
         /\ Over(Of("equity"), TrialBalance(p))
              = Sums({"equity"}, 0, p) + Sums({"income", "expense"}, 0, FiscalYearStart(p) - 1)
         /\ Over(Earning, TrialBalance(p)) = Sums({"income", "expense"}, FiscalYearStart(p), p)
<1>. DEFINE s == FiscalYearStart(p)
            prior == Sums({"income", "expense"}, 0, s - 1)
            ever == NetByAccount(0, p)
            year == NetByAccount(s, p)
            tb == TrialBalance(p)
            Q == Of("equity")
<1>1. /\ \A a \in Earning : tb[a] = year[a]
      /\ \A a \in Chart \ Earning : a # Retained => tb[a] = ever[a]
      /\ tb[Retained] = ever[Retained] + prior
      /\ IntOn(Chart, tb)
  BY TrialIs
<1>2. Retained \in Q
  BY RetainedIs
<1>3. /\ \A a \in Of("asset") \cup Of("liability") \cup Q : a \in Chart \ Earning
      /\ \A a \in Of("asset") \cup Of("liability") : a \notin Q
  BY DEF Of, InSection, Earning
<1>4. IsFiniteSet(Q) /\ IntOn(Q, tb) /\ IntOn(Q, ever) /\ prior \in Int
  <2>1. IsFiniteSet(Q) /\ IntOn(Q, ever) /\ prior \in Int
    BY NetOnChart DEF Of, Sums
  <2>2. IntOn(Q, tb)
    BY <1>1, <1>3 DEF IntOn
  <2>. QED  BY <2>1, <2>2
<1>. HIDE DEF s, prior, ever, year, tb, Q
<1>5. /\ Over(Of("asset"), tb) = Over(Of("asset"), ever)
      /\ Over(Of("liability"), tb) = Over(Of("liability"), ever)
  <2>1. \A a \in Of("asset") : tb[a] = ever[a]
    BY <1>1, <1>2, <1>3
  <2>2. \A a \in Of("liability") : tb[a] = ever[a]
    BY <1>1, <1>2, <1>3
  <2>. QED  BY <2>1, <2>2, SumSame
<1>6. Over(Earning, tb) = Over(Earning, year)
  BY <1>1, SumSame
<1>7. Over(Q, tb) = Over(Q, ever) + prior
  <2>. DEFINE R == Q \ {Retained}
  <2>1. Over(Q, tb) = tb[Retained] + Over(R, tb)
    BY <1>2, <1>4, SumParts
  <2>2. Over(Q, ever) = ever[Retained] + Over(R, ever)
    BY <1>2, <1>4, SumParts
  <2>3. \A a \in R : tb[a] = ever[a]
    BY <1>1, <1>3
  <2>4. Over(R, tb) = Over(R, ever)
    BY <2>3, SumSame
  <2>5. Over(R, ever) \in Int /\ ever[Retained] \in Int
    <3>1. IsFiniteSet(R) /\ IntOn(R, ever)
      BY <1>4, FS_Subset DEF IntOn
    <3>. QED  BY <1>2, <1>4, <3>1, SumParts DEF IntOn
  <2>. HIDE DEF R
  <2>. QED  BY <1>1, <1>4, <2>1, <2>2, <2>4, <2>5
<1>. QED  BY <1>5, <1>6, <1>7 DEF Sums, Of, Earning, ever, year, tb, prior, s, Q

SheetsAre == \A p \in Period : BalanceSheet(p) = Sheet(p)

LEMMA SheetIs == BooksInv => SheetsAre
<1>1. SUFFICES ASSUME BooksInv, NEW p \in Period PROVE BalanceSheet(p) = Sheet(p)
  BY DEF SheetsAre
<1>2. ChartTypeOK /\ ChartInv /\ IntOn(Chart, TrialBalance(p))
  BY <1>1, TrialIs DEF BooksInv, TypeOK
<1>3. /\ SectionTotal({"asset"}, TrialBalance(p)) = Over(Of("asset"), TrialBalance(p))
      /\ SectionTotal({"liability"}, TrialBalance(p)) = -Over(Of("liability"), TrialBalance(p))
      /\ SectionTotal({"equity"}, TrialBalance(p)) = -Over(Of("equity"), TrialBalance(p))
  BY <1>2, SectionIs
<1>4. Total(TrialBalance(p), Earning) = Over(Earning, TrialBalance(p))
  BY DEF Over, Total
<1>. QED  BY <1>1, <1>3, <1>4, TrialSums DEF BalanceSheet, Sheet

\* However accounts were moved, renamed and retyped under the entries posted to them, every
\* report of every month ties (statements.ts balanceSheet, reports.ts trialBalance).
THEOREM AlwaysStatementsTie == Spec => []StatementsTie
<1>1. ASSUME BooksInv, NEW p \in Period
      PROVE  LET sheet == BalanceSheet(p)
             IN  /\ Total(TrialBalance(p), Chart) = 0
                 /\ sheet.assets = sheet.liabilities + sheet.equity + sheet.netIncome
                 /\ sheet.netIncome = ProfitAndLoss(FiscalYearStart(p), p)
  <2>. DEFINE s == FiscalYearStart(p)
              a == Sums({"asset"}, 0, p)
              l == Sums({"liability"}, 0, p)
              q == Sums({"equity"}, 0, p)
              before == Sums({"income", "expense"}, 0, s - 1)
              year == Sums({"income", "expense"}, s, p)
              income == Sums({"income"}, s, p)
              expense == Sums({"expense"}, s, p)
  <2>1. a \in Int /\ l \in Int /\ q \in Int /\ before \in Int /\ year \in Int
        /\ income \in Int /\ expense \in Int
    BY <1>1, NetOnChart DEF Sums
  <2>2. a + l + q + (before + year) = 0
    <3>1. Sums({"income", "expense"}, 0, p) = before + year
      BY <1>1, SumsAdd
    <3>2. Over(Chart, NetByAccount(0, p)) = 0
      <4>1. entries \in Seq(Posting) /\ PostedOnChart /\ IsFiniteSet(Chart)
        BY <1>1, NetOnChart DEF BooksInv, TypeOK
      <4>. QED  BY <4>1, NetBalances
    <3>3. Over(Chart, NetByAccount(0, p)) = a + l + q + Sums({"income", "expense"}, 0, p)
      <4>1. IntOn(Chart, NetByAccount(0, p))
        BY <1>1, NetOnChart
      <4>. QED  BY <1>1, <4>1, SectionsAddUp DEF Sums, Of, Earning
    <3>. QED  BY <3>1, <3>2, <3>3
  <2>3. year = income + expense
    <3>1. IntOn(Chart, NetByAccount(s, p))
      BY <1>1, NetOnChart
    <3>. QED  BY <1>1, <3>1, SectionsAddUp DEF Sums, Of, Earning
  <2>4. BalanceSheet(p) = [assets |-> a, liabilities |-> -l, equity |-> -(q + before),
                           netIncome |-> -year]
    BY <1>1, SheetIs DEF SheetsAre, Sheet
  <2>5. ProfitAndLoss(s, p) = -income - expense
    <3>1. ChartTypeOK /\ ChartInv /\ IntOn(Chart, NetByAccount(s, p))
      BY <1>1, NetOnChart DEF BooksInv, TypeOK
    <3>2. /\ SectionTotal({"income"}, NetByAccount(s, p)) = -Over(Of("income"), NetByAccount(s, p))
          /\ SectionTotal({"expense"}, NetByAccount(s, p)) = Over(Of("expense"), NetByAccount(s, p))
      BY <3>1, SectionIs
    <3>. QED  BY <3>2 DEF ProfitAndLoss, Sums, Of
  <2>6. Total(TrialBalance(p), Chart) = a + l + (q + before) + year
    <3>1. IntOn(Chart, TrialBalance(p))
      BY <1>1, TrialIs
    <3>. QED  BY <1>1, <3>1, SectionsAddUp, TrialSums DEF Over, Total
  <2>. HIDE DEF s, a, l, q, before, year, income, expense
  <2>7. Total(TrialBalance(p), Chart) = 0
    BY <2>1, <2>2, <2>6
  <2>8. BalanceSheet(p).assets = BalanceSheet(p).liabilities + BalanceSheet(p).equity
                                 + BalanceSheet(p).netIncome
    <3>1. a = (-l) + (-(q + before)) + (-year)
      BY <2>1, <2>2
    <3>. QED  BY <2>4, <3>1
  <2>9. BalanceSheet(p).netIncome = ProfitAndLoss(FiscalYearStart(p), p)
    <3>1. -year = -income - expense
      BY <2>1, <2>3
    <3>. QED  BY <2>4, <2>5, <3>1 DEF s
  <2>. QED  BY <2>7, <2>8, <2>9
<1>2. BooksInv => StatementsTie
  BY <1>1 DEF StatementsTie
<1>. QED  BY <1>2, AlwaysBooksInv, PTL

-----------------------------------------------------------------------------
(* Closed months.                                                          *)

\* No entry joins a closed month.
LEMMA WithinKept ==
  ASSUME BooksInv, [Next]_vars, NEW from \in Int, NEW to \in Int, to <= closedThrough
  PROVE  /\ Within(from, to)' = Within(from, to)
         /\ \A i \in Within(from, to) : i \in DOMAIN entries' /\ entries'[i] = entries[i]
<1>1. entries \in Seq(Posting) /\ closedThrough \in Int
  BY DEF BooksInv, TypeOK, Mark
<1>2. entries' \in Seq(Posting)
  BY <1>1, JournalStaysTyped
<1>3. \A j \in New : entries'[j].date \in Int /\ entries'[j].date > closedThrough
  <2>1. SUFFICES ASSUME NEW j \in New
                 PROVE  entries'[j].date \in Int /\ entries'[j].date > closedThrough
    OBVIOUS
  <2>2. Open(entries'[j].date)
    BY <1>1, Additions DEF MayJoin
  <2>3. entries'[j] \in Posting
    BY <1>2 DEF New
  <2>4. entries'[j].date \in Int
    BY <2>3, PeriodAssumption DEF Posting, Period
  <2>. QED  BY <2>2, <2>4 DEF Open
<1>4. \A j \in New : ~(entries'[j].date \in from..to)
  BY <1>1, <1>3
<1>5. \A i \in DOMAIN entries : i \in DOMAIN entries' /\ entries'[i] = entries[i]
  BY <1>1, Additions DEF Old
<1>6. Within(from, to)' = {i \in DOMAIN entries' : entries'[i].date \in from..to}
  BY DEF Within
<1>7. Within(from, to) = {i \in DOMAIN entries : entries[i].date \in from..to}
  BY DEF Within
<1>. QED  BY <1>4, <1>5, <1>6, <1>7 DEF New

\* So what was posted in closed months stays, account by account.
LEMMA NetKept ==
  ASSUME BooksInv, [Next]_vars, NEW from \in Int, NEW to \in Int, to <= closedThrough,
         NEW a \in Account
  PROVE  NetByAccount(from, to)'[a] = NetByAccount(from, to)[a]
<1>. DEFINE W == Within(from, to)
<1>1. Within(from, to)' = W /\ \A i \in W : i \in DOMAIN entries' /\ entries'[i] = entries[i]
  BY WithinKept
<1>2. \A i \in W : Effects(entries', a)[i] = Effects(entries, a)[i]
  BY <1>1 DEF Effects, Within
<1>3. Over(W, Effects(entries', a)) = Over(W, Effects(entries, a))
  BY <1>2, SumSame
<1>. QED  BY <1>1, <1>3, NetIs

\* Where nothing was posted, there is nothing.
LEMMA NetNone ==
  ASSUME BooksInv, NEW from, NEW to, NEW a \in Account, a \notin Chart \/ ~HasPostings(a)
  PROVE  NetByAccount(from, to)[a] = 0
<1>1. entries \in Seq(Posting) /\ Within(from, to) \in SUBSET DOMAIN entries
  BY DEF BooksInv, TypeOK, Within
<1>2. \A i \in DOMAIN entries : a \notin {entries[i].debit, entries[i].credit}
  BY DEF BooksInv, PostedOnChart, HasPostings
<1>3. \A i \in Within(from, to) : Effects(entries, a)[i] = 0
  BY <1>1, <1>2, EffectsType, EffectType
<1>4. IsFiniteSet(Within(from, to))
  BY <1>1, NetType
<1>. QED  BY <1>3, <1>4, NetIs, SumZero

\* And section by section, for accounts with anything posted to them stay in theirs.
LEMMA SumsKept ==
  ASSUME BooksInv, BooksInv', [Next]_vars, NEW from \in Int, NEW to \in Int,
         to <= closedThrough, NEW S
  PROVE  Sums(S, from, to)' = Sums(S, from, to)
<1>. DEFINE M == InSection(S)
            N == InSection(S)'
            net == NetByAccount(from, to)
            new == NetByAccount(from, to)'
<1>1. /\ M = {a \in Chart : accounts[a].section \in S}
      /\ N = {a \in Chart' : accounts'[a].section \in S}
  BY DEF InSection
<1>2. \A a \in Chart : a \in Account
  BY DEF Chart
<1>3. \A a \in Chart' : a \in Account
  BY HeldNow DEF Charted
<1>4. \A a \in Account : new[a] = net[a] /\ net[a] \in Int
  <2>1. entries \in Seq(Posting)
    BY DEF BooksInv, TypeOK
  <2>. QED  BY <2>1, NetKept, NetType
<1>5. ASSUME NEW a \in Account, (a \in M /\ a \notin N) \/ (a \in N /\ a \notin M)
      PROVE  net[a] = 0
  <2>1. ChartTypeOK /\ SystemKept
    BY DEF BooksInv, TypeOK
  <2>2. a \notin Chart \/ ~HasPostings(a)
    BY <1>1, <1>5, <2>1, SectionsChange
  <2>. QED  BY <2>2, NetNone
<1>6. IsFiniteSet(M) /\ IsFiniteSet(N)
  <2>1. IsFiniteSet(Chart) /\ IsFiniteSet(Chart')
    BY HeldNow DEF BooksInv, ChartInv
  <2>. QED  BY <1>1, <2>1, FS_Subset
<1>7. Sums(S, from, to) = Over(M, net) /\ Sums(S, from, to)' = Over(N, new)
  BY DEF Sums, Over, Total
<1>8. M \in SUBSET Account /\ N \in SUBSET Account
  BY <1>1, <1>2, <1>3
<1>. HIDE DEF M, N, net, new
<1>. DEFINE B == M \cap N
<1>9. Over(N, new) = Over(N, net)
  BY <1>4, <1>8, SumSame
<1>10. IntOn(M, net) /\ IntOn(N, net)
  BY <1>4, <1>8 DEF IntOn
<1>11. Over(M, net) = Over(B, net) + Over(M \ B, net)
  BY <1>6, <1>10, SumSplit
<1>12. Over(N, net) = Over(B, net) + Over(N \ B, net)
  BY <1>6, <1>10, SumSplit
<1>13. Over(M \ B, net) = 0
  <2>1. IsFiniteSet(M \ B)
    BY <1>6, FS_Subset
  <2>2. \A a \in M \ B : net[a] = 0
    BY <1>5, <1>8
  <2>. QED  BY <2>1, <2>2, SumZero
<1>14. Over(N \ B, net) = 0
  <2>1. IsFiniteSet(N \ B)
    BY <1>6, FS_Subset
  <2>2. \A a \in N \ B : net[a] = 0
    BY <1>5, <1>8
  <2>. QED  BY <2>1, <2>2, SumZero
<1>. QED  BY <1>7, <1>9, <1>11, <1>12, <1>13, <1>14

LEMMA SheetNow ==
  ASSUME NEW p
  PROVE  Sheet(p)' =
    [assets      |-> Sums({"asset"}, 0, p)',
     liabilities |-> -(Sums({"liability"}, 0, p)'),
     equity      |-> -(Sums({"equity"}, 0, p)'
                       + Sums({"income", "expense"}, 0, FiscalYearStart(p) - 1)'),
     netIncome   |-> -(Sums({"income", "expense"}, FiscalYearStart(p), p)')]
BY DEF Sheet

LEMMA SheetsThen == BooksInv' => SheetsAre'
BY SheetIs, PTL

\* What the balance sheet of a closed month says stays so until the month is reopened,
\* whatever becomes of the chart meanwhile (books.ts updateAccount).
THEOREM AlwaysClosedStatementsStay == Spec => ClosedStatementsStay
<1>. DEFINE Stay == \A p \in 1..closedThrough : BalanceSheet(p)' = BalanceSheet(p)
<1>1. BooksInv /\ BooksInv' /\ [Next]_vars => Stay
  <2>1. SUFFICES ASSUME BooksInv, BooksInv', [Next]_vars, NEW p \in 1..closedThrough
                 PROVE  BalanceSheet(p)' = BalanceSheet(p)
    OBVIOUS
  <2>2. closedThrough \in 0..LastPeriod
    BY <2>1 DEF BooksInv, TypeOK, Mark
  <2>3. p \in Period /\ p <= closedThrough /\ p \in Int
    BY <2>1, <2>2, PeriodAssumption DEF Period
  <2>. DEFINE s == FiscalYearStart(p)
  <2>4. s \in Int /\ s - 1 \in Int /\ s - 1 <= closedThrough
    BY <2>2, <2>3, YearStart, PeriodAssumption
  <2>5. /\ \A S : Sums(S, 0, p)' = Sums(S, 0, p)
        /\ \A S : Sums(S, s, p)' = Sums(S, s, p)
        /\ \A S : Sums(S, 0, s - 1)' = Sums(S, 0, s - 1)
    <3>. HIDE DEF s
    <3>1. 0 \in Int
      OBVIOUS
    <3>. QED  BY <2>1, <2>3, <2>4, <3>1, SumsKept
  <2>6. Sheet(p)' = Sheet(p)
    BY <2>5, SheetNow DEF Sheet
  <2>7. BalanceSheet(p) = Sheet(p)
    BY <2>1, <2>3, SheetIs DEF SheetsAre
  <2>8. BalanceSheet(p)' = Sheet(p)'
    BY <2>1, <2>3, SheetsThen DEF SheetsAre
  <2>. QED  BY <2>6, <2>7, <2>8
<1>. QED  BY <1>1, AlwaysBooksInv, PTL DEF Spec, ClosedStatementsStay

-----------------------------------------------------------------------------
(***************************************************************************)
(* What the books hold of the Shield account is what the account does,     *)
(* once everything that moved since the start is answered, whatever checks *)
(* overlapped and whatever was undone or voided.                           *)
(*                                                                         *)
(* ShieldInv: the balance of the books is the opening, what was posted by  *)
(* hand and what was accepted, less what stands of the pay runs, each a    *)
(* sum over a finite set (BookAddsUp); every step changes one addend.      *)
(* What checks on their way have found came after the start (FoundLater);  *)
(* what can be answered moved something, and what was accepted whole cents *)
(* (Answerable); an entry stands only for a paycheck that was posted       *)
(* (Posted).                                                               *)
(*                                                                         *)
(* From there the movements since the start fall into those accepted,      *)
(* those that paid a paycheck, those booked by hand and those inside the   *)
(* account (SinceIsBooked); in minor units they are so many times a cent   *)
(* and what the books leave out (MinorIsCents).                            *)
(***************************************************************************)

\* No part of the account was ever below zero.
NeverBelow == \A part \in Part : \A n \in 0..Len(moves) : HeldIn(part, n) >= 0

\* What checks have found, and what is listed, came after the start.
Later == {i \in Id : start # None /\ i > start}

FoundLater == \A found \in checks : found \subseteq Later

\* What can be answered moved something across the account's border, and what was accepted,
\* whole cents.
Answerable ==
  \A i \in DOMAIN items :
    /\ items[i].status \in {"new", "accepted", "excluded"} => moves[i].kind # "inside"
    /\ items[i].status = "accepted" => minorToCents(moves[i].minor) > 0

\* A paycheck has an entry once its run is posted, and names a payment at most then.
Posted ==
  \A p \in Paycheck :
    /\ paychecks[p].status = "none" <=> paychecks[p].entry = "none"
    /\ paychecks[p].status = "none" => paychecks[p].reference = 0
    /\ paychecks[p].reference <= Len(moves)

Standing == {p \in Paycheck : paychecks[p].entry = "stands"}

InReview == {i \in DOMAIN items : items[i].status = "accepted"}

Flow   == [i \in Id |-> Signed(moves[i])]
NetPay == [p \in Paycheck |-> Net]

HandFlow == [n \in DOMAIN others |-> others[n].cents]
HandSum  == Over(HandBooked, HandFlow)

\* The books hold what was started with, what was posted by hand and what was accepted,
\* less what runs have posted.
BookAddsUp ==
  Over(Side, book) = opening + HandSum + Over(InReview, Flow) - Over(Standing, NetPay)

ShieldInv ==
  /\ ShieldTypeOK
  /\ start = None => opening = 0
  /\ NeverBelow /\ FoundLater /\ Answerable /\ Posted
  /\ IsFiniteSet(Standing)
  /\ BookAddsUp

-----------------------------------------------------------------------------
(* Movements.                                                              *)

Moved == Movement \cup {Payment(p) : p \in Paycheck}

\* So many minor units are so many whole cents and less than one beyond them.
LEMMA CentsIn ==
  ASSUME NEW n \in Int
  PROVE  /\ minorToCents(n) \in Int /\ n % Cent \in 0..(Cent - 1)
         /\ n = Cent * minorToCents(n) + (n % Cent)
<1>1. Cent \in Int /\ Cent > 0
  BY CentAssumption
<1>2. \A a, b \in Int : b > 0 => /\ a \div b \in Int /\ a % b \in 0..(b - 1)
                               /\ a = b * (a \div b) + (a % b)
  OBVIOUS
<1>. QED  BY <1>1, <1>2 DEF minorToCents

\* Whole cents are nothing beyond them.
LEMMA WholeCents ==
  ASSUME NEW n \in Nat
  PROVE  minorToCents(n * Cent) = n /\ (n * Cent) % Cent = 0
<1>1. Cent \in Int /\ Cent > 0
  BY CentAssumption
<1>. DEFINE q == minorToCents(n * Cent)
            e == (n * Cent) % Cent
<1>2. q \in Int /\ e \in 0..(Cent - 1) /\ n * Cent = Cent * q + e
  BY <1>1, CentsIn
<1>. HIDE DEF q, e
<1>3. \A a, b \in Int : a < b => Cent * a + Cent <= Cent * b
  BY <1>1
<1>4. ~(q < n) /\ ~(n < q)
  BY <1>1, <1>2, <1>3
<1>5. q = n /\ e = 0
  BY <1>1, <1>2, <1>4
<1>. QED  BY <1>5 DEF q, e

\* What a movement adds to the account, both parts together.
Raw(m) == IF m.kind = "inside" THEN 0 ELSE IF m.kind = "in" THEN m.minor ELSE -m.minor

LEMMA MovedIs ==
  ASSUME NEW m \in Moved
  PROVE  /\ m.kind \in Kind /\ m.part \in Part /\ m.minor \in Nat
         /\ minorToCents(m.minor) \in Int
         /\ \A p \in Paycheck : m.pays = p => m = Payment(p)
         /\ Signed(m) \in Int
         /\ \A part \in Part : Adds(m, part) \in Int
         /\ \A part \in Part : part # m.part => Adds(m, part) >= 0
<1>1. CASE m \in Movement
  <2>1. m.kind \in Kind /\ m.part \in Part /\ m.minor \in Nat /\ m.pays = None
    BY <1>1, MovementAssumption
  <2>2. minorToCents(m.minor) \in Int
    BY <2>1, CentsIn
  <2>. QED  BY <2>1, <2>2, PaycheckAssumption DEF Signed, Adds, Kind
<1>2. CASE \E p \in Paycheck : m = Payment(p)
  <2>1. PICK p \in Paycheck : m = Payment(p)
    BY <1>2
  <2>2. m.kind = "out" /\ m.part = "private" /\ m.minor = Net * Cent /\ m.pays = p
    BY <2>1 DEF Payment
  <2>3. Net * Cent \in Nat
    BY PaycheckAssumption, CentAssumption
  <2>4. minorToCents(m.minor) \in Int
    BY <2>2, <2>3, CentsIn
  <2>. QED  BY <2>1, <2>2, <2>3, <2>4, PaycheckAssumption DEF Signed, Adds, Kind, Part
<1>. QED  BY <1>1, <1>2 DEF Moved

\* In all, a movement adds its whole cents and what is beyond them.
LEMMA AddsInAll ==
  ASSUME NEW m \in Moved
  PROVE  /\ Adds(m, "public") + Adds(m, "private") = Raw(m)
         /\ Raw(m) = Cent * (IF m.kind = "inside" THEN 0 ELSE Signed(m)) + Beyond(m)
         /\ Raw(m) \in Int /\ Beyond(m) \in Int
<1>1. m.kind \in Kind /\ m.part \in Part /\ m.minor \in Nat
  BY MovedIs
<1>. DEFINE c == minorToCents(m.minor)
            e == m.minor % Cent
<1>2. c \in Int /\ e \in Int /\ m.minor = Cent * c + e /\ Cent \in Int
  <2>1. m.minor \in Int /\ Cent \in Nat \ {0}
    BY <1>1, CentAssumption
  <2>2. c \in Int /\ e \in 0..(Cent - 1) /\ m.minor = Cent * c + e
    BY <2>1, CentsIn
  <2>. HIDE DEF c, e
  <2>. QED  BY <2>1, <2>2
<1>3. /\ Signed(m) = IF m.kind = "in" THEN c ELSE -c
      /\ Beyond(m) = CASE m.kind = "in" -> e [] m.kind = "out" -> -e [] m.kind = "inside" -> 0
  BY DEF Signed, Beyond
<1>. HIDE DEF c, e
<1>4. Cent * 0 = 0 /\ -(Cent * c + e) = Cent * (-c) + (-e)
  BY <1>2
<1>5. Adds(m, "public") + Adds(m, "private") = Raw(m)
  BY <1>1 DEF Kind, Part, Adds, Raw
<1>6. CASE m.kind = "in"
  BY <1>1, <1>2, <1>3, <1>5, <1>6 DEF Raw
<1>7. CASE m.kind = "out"
  BY <1>1, <1>2, <1>3, <1>4, <1>5, <1>7 DEF Raw
<1>8. CASE m.kind = "inside"
  BY <1>3, <1>4, <1>5, <1>8 DEF Raw
<1>. QED  BY <1>1, <1>6, <1>7, <1>8 DEF Kind

LEMMA MovesAre ==
  ASSUME ShieldTypeOK
  PROVE  /\ Len(moves) \in Nat /\ Id = DOMAIN moves /\ Id = 1..Len(moves)
         /\ \A i \in Id : moves[i] \in Moved
BY DEF ShieldTypeOK, Id, Moved

\* One movement more.
LEMMA OneMoved ==
  ASSUME ShieldTypeOK, NEW m \in Moved, moves' = Append(moves, m)
  PROVE  /\ Len(moves') = Len(moves) + 1
         /\ Id' = 1..(Len(moves) + 1)
         /\ \A i \in Id : i \in Id' /\ moves'[i] = moves[i]
         /\ moves'[Len(moves) + 1] = m
         /\ moves' \in Seq(Moved)
<1>1. moves \in Seq(Moved)
  BY DEF ShieldTypeOK, Moved
<1>. QED  BY <1>1 DEF Id

\* What the movements add to a part, one by one.
Drift(part) == [i \in Id |-> Adds(moves[i], part)]

LEMMA HeldIs ==
  ASSUME ShieldTypeOK, NEW part \in Part, NEW n \in 0..Len(moves)
  PROVE  /\ HeldIn(part, n) = Held[part] + Over(1..n, Drift(part))
         /\ Held[part] \in Nat
         /\ IsFiniteSet(1..n) /\ IntOn(1..n, Drift(part))
         /\ Over(1..n, Drift(part)) \in Int
         /\ HeldIn(part, n) \in Int
<1>1. \A i \in 1..n : i \in Id /\ Drift(part)[i] = Adds(moves[i], part) /\ Drift(part)[i] \in Int
  BY MovesAre, MovedIs DEF Drift
<1>2. [i \in 1..n |-> Adds(moves[i], part)] = [i \in 1..n |-> Drift(part)[i]]
  BY <1>1
<1>3. HeldIn(part, n) = Held[part] + Over(1..n, Drift(part))
  BY <1>2 DEF HeldIn, Over
<1>4. Held[part] \in Nat
  BY HeldAssumption
<1>5. IsFiniteSet(1..n) /\ IntOn(1..n, Drift(part))
  <2>1. n \in Nat
    BY MovesAre
  <2>. QED  BY <1>1, <2>1, FS_Interval DEF IntOn
<1>6. Over(1..n, Drift(part)) \in Int
  BY <1>5, SumParts
<1>. QED  BY <1>3, <1>4, <1>5, <1>6

LEMMA HeldStep ==
  ASSUME ShieldTypeOK, NEW m \in Moved, moves' = Append(moves, m), NEW part \in Part,
         NEW n \in 0..(Len(moves) + 1)
  PROVE  /\ n \in 0..Len(moves) => HeldIn(part, n)' = HeldIn(part, n)
         /\ n = Len(moves) + 1 => HeldIn(part, n)' = HeldIn(part, Len(moves)) + Adds(m, part)
<1>. DEFINE f == Drift(part)
            g == [i \in Id' |-> Adds(moves'[i], part)]
            L == Len(moves)
<1>1. L \in Nat /\ Id = 1..L /\ L + 1 \in Id' /\ Id' = 1..(L + 1)
  BY MovesAre, OneMoved
<1>2. \A i \in Id : f[i] = g[i]
  BY OneMoved DEF Drift
<1>3. g[L + 1] = Adds(m, part) /\ Adds(m, part) \in Int
  BY <1>1, OneMoved, MovedIs
<1>4. \A k \in 0..L : HeldIn(part, k) = Held[part] + Over(1..k, f)
  BY HeldIs
<1>5. HeldIn(part, n)' = Held[part] + Over(1..n, g)
  <2>2. \A i \in 1..n : g[i] = Adds(moves'[i], part)
    BY <1>1
  <2>3. [i \in 1..n |-> Adds(moves'[i], part)] = [i \in 1..n |-> g[i]]
    BY <2>2
  <2>4. HeldIn(part, n)' = Held[part] + SumFunction([i \in 1..n |-> Adds(moves'[i], part)])
    BY DEF HeldIn
  <2>. QED  BY <2>3, <2>4 DEF Over
<1>6. \A k \in 0..L : Over(1..k, f) = Over(1..k, g)
  <2>. HIDE DEF f, g
  <2>. QED  BY <1>1, <1>2, SumSame
<1>7. Over(1..(L + 1), g) = Over(1..L, g) + g[L + 1]
  <2>1. IsFiniteSet(1..L)
    BY <1>1, FS_Interval
  <2>2. IntOn(1..L, g)
    <3>1. IntOn(1..L, f)
      BY <1>1, HeldIs
    <3>. HIDE DEF f, g
    <3>. QED  BY <1>1, <1>2, <3>1 DEF IntOn
  <2>3. 1..(L + 1) = (1..L) \cup {L + 1} /\ L + 1 \notin 1..L
    BY <1>1
  <2>4. g[L + 1] \in Int
    BY <1>3
  <2>5. \A x : x \notin 1..L /\ g[x] \in Int => Over((1..L) \cup {x}, g) = Over(1..L, g) + g[x]
    <3>. HIDE DEF g, L
    <3>. QED  BY <2>1, <2>2, SumWith
  <2>. HIDE DEF g, L
  <2>. QED  BY <2>3, <2>4, <2>5
<1>8. L \in 0..L /\ Over(1..L, f) \in Int /\ Held[part] \in Nat
  <2>1. L \in 0..Len(moves)
    BY <1>1
  <2>. QED  BY <2>1, HeldIs
<1>. HIDE DEF f, g
<1>9. CASE n = L + 1
  <2>1. HeldIn(part, n)' = Held[part] + Over(1..(L + 1), g)
    BY <1>5, <1>9
  <2>2. Over(1..L, f) = Over(1..L, g) /\ HeldIn(part, L) = Held[part] + Over(1..L, f)
    BY <1>4, <1>6, <1>8
  <2>. HIDE DEF L
  <2>3. HeldIn(part, n)' = HeldIn(part, L) + Adds(m, part)
    BY <1>3, <1>7, <1>8, <2>1, <2>2
  <2>. USE DEF L
  <2>. QED  BY <1>1, <1>9, <2>3
<1>10. CASE n \in 0..L
  BY <1>1, <1>4, <1>5, <1>6, <1>10
<1>. QED  BY <1>1, <1>9, <1>10

LEMMA AcceptsKeeps ==
  ASSUME ShieldTypeOK, NeverBelow, NEW m \in Moved, Accepts(m)
  PROVE  NeverBelow'
<1>1. moves' = Append(moves, m)
  BY DEF Accepts
<1>. SUFFICES ASSUME NEW part \in Part, NEW n \in 0..Len(moves')
              PROVE  HeldIn(part, n)' >= 0
  BY DEF NeverBelow
<1>2. n \in 0..(Len(moves) + 1)
  BY <1>1, OneMoved
<1>3. Len(moves) \in Nat /\ Len(moves) \in 0..Len(moves)
  BY MovesAre
<1>4. CASE n \in 0..Len(moves)
  BY <1>1, <1>2, <1>4, HeldStep DEF NeverBelow
<1>5. CASE n = Len(moves) + 1
  <2>1. HeldIn(part, n)' = HeldIn(part, Len(moves)) + Adds(m, part)
    BY <1>1, <1>2, <1>5, HeldStep
  <2>2. HeldIn(part, Len(moves)) >= 0 /\ HeldIn(part, Len(moves)) \in Int
    BY <1>3, HeldIs DEF NeverBelow
  <2>3. CASE part = m.part
    BY <2>1, <2>3 DEF Accepts
  <2>4. CASE part # m.part
    <3>1. Adds(m, part) >= 0 /\ Adds(m, part) \in Int
      BY <2>4, MovedIs
    <3>. QED  BY <2>1, <2>2, <3>1
  <2>. QED  BY <2>3, <2>4
<1>. QED  BY <1>2, <1>3, <1>4, <1>5

LEMMA HeldKept ==
  ASSUME NeverBelow, UNCHANGED moves
  PROVE  NeverBelow'
BY DEF NeverBelow, HeldIn

-----------------------------------------------------------------------------
(* ShieldInv by what its parts are about, so that a step has to be looked  *)
(* at only for the parts it disturbs.                                      *)

ChainPart ==
  /\ moves \in Seq(Moved) /\ Len(moves) <= MaxMoves
  /\ NeverBelow

ReadPartOf == read \in [Part -> Id \cup {0, None}]

StartPart ==
  /\ start \in Id \cup {0, None} /\ opening \in Nat
  /\ start = None => opening = 0

ItemPart ==
  /\ DOMAIN items \subseteq Later
  /\ \A i \in DOMAIN items :
       /\ items[i] \in Item
       /\ items[i].status = "accepted" <=> items[i].side # None
  /\ Answerable

CheckPart == checks \subseteq SUBSET Id /\ checked \in 0..MaxChecks /\ FoundLater

PayPart ==
  /\ paychecks \in [Paycheck -> Settlement]
  /\ \A p \in Paycheck : paychecks[p].reference > 0 => moves[paychecks[p].reference].pays = p
  /\ Posted
  /\ IsFiniteSet(Standing)

FundPart ==
  /\ funds \in [Fund -> {"none", "open", "closed"}]
  /\ transfers \in Seq(Transfer) /\ Len(transfers) <= MaxTransfers
  /\ others \in Seq(Other) /\ Len(others) <= MaxOthers

BookPart == book \in [Side -> Int]

LEMMA ShieldParts ==
  ShieldInv <=> /\ ChainPart /\ ReadPartOf /\ StartPart /\ ItemPart /\ CheckPart
                /\ PayPart /\ FundPart /\ BookPart /\ BookAddsUp
BY DEF ShieldInv, ShieldTypeOK, ChainPart, ReadPartOf, StartPart, ItemPart, CheckPart, PayPart,
       FundPart, BookPart, Moved, Later

LEMMA ShieldPartsNext ==
  ASSUME ChainPart', ReadPartOf', StartPart', ItemPart', CheckPart', PayPart', FundPart',
         BookPart', BookAddsUp'
  PROVE  ShieldInv'
BY DEF ShieldInv, ShieldTypeOK, ChainPart, ReadPartOf, StartPart, ItemPart, CheckPart, PayPart,
       FundPart, BookPart, Moved, Later

-----------------------------------------------------------------------------
(* The books.                                                              *)

LEMMA AddingAdds ==
  ASSUME NEW b \in [Side -> Int], NEW s \in Side, NEW cents \in Int
  PROVE  /\ Adding(b, s, cents) \in [Side -> Int]
         /\ Over(Side, Adding(b, s, cents)) = Over(Side, b) + cents
         /\ Over(Side, b) \in Int
<1>. DEFINE c == Adding(b, s, cents)
<1>1. /\ c \in [Side -> Int] /\ c[s] = b[s] + cents
      /\ \A t \in Side \ {s} : c[t] = b[t]
  BY DEF Adding
<1>2. IsFiniteSet(Side)
  BY FundAssumption, FS_AddElement DEF Side
<1>3. IntOn(Side, b) /\ IntOn(Side, c)
  BY <1>1 DEF IntOn
<1>. HIDE DEF c
<1>4. /\ Over(Side, b) = Over(Side \ {s}, b) + b[s] /\ Over(Side \ {s}, b) \in Int
      /\ Over(Side, c) = Over(Side \ {s}, c) + c[s]
  BY <1>2, <1>3, SumBut
<1>5. Over(Side \ {s}, b) = Over(Side \ {s}, c)
  BY <1>1, SumSame
<1>6. b[s] \in Int
  OBVIOUS
<1>7. Over(Side, c) = Over(Side, b) + cents /\ Over(Side, b) \in Int
  BY <1>1, <1>4, <1>5, <1>6
<1>. QED  BY <1>1, <1>7 DEF c

LEMMA ShiftedAdds ==
  ASSUME NEW b \in [Side -> Int], NEW f \in Fund, NEW cents \in Int
  PROVE  /\ Shifted(b, f, cents) \in [Side -> Int]
         /\ Over(Side, Shifted(b, f, cents)) = Over(Side, b)
<1>1. f \in Side /\ General \in Side /\ -cents \in Int
  BY DEF Side
<1>2. /\ Adding(b, f, cents) \in [Side -> Int]
      /\ Over(Side, Adding(b, f, cents)) = Over(Side, b) + cents /\ Over(Side, b) \in Int
  BY <1>1, AddingAdds
<1>3. /\ Shifted(b, f, cents) \in [Side -> Int]
      /\ Over(Side, Shifted(b, f, cents)) = Over(Side, Adding(b, f, cents)) + (-cents)
  BY <1>1, <1>2, AddingAdds DEF Shifted
<1>. QED  BY <1>2, <1>3

\* What is accepted, and what stands, can be summed.
LEMMA ReviewSums ==
  ASSUME ChainPart, ItemPart
  PROVE  /\ Len(moves) \in Nat /\ Id = 1..Len(moves) /\ IsFiniteSet(Id)
         /\ InReview \subseteq Id /\ IsFiniteSet(InReview)
         /\ IntOn(Id, Flow) /\ IntOn(InReview, Flow)
         /\ Over(InReview, Flow) \in Int
         /\ \A i \in Id : moves[i] \in Moved /\ Flow[i] = Signed(moves[i]) /\ Flow[i] \in Int
<1>1. Len(moves) \in Nat /\ Id = 1..Len(moves) /\ \A i \in Id : moves[i] \in Moved
  BY DEF ChainPart, Id
<1>2. IsFiniteSet(Id)
  BY <1>1, FS_Interval
<1>3. InReview \subseteq Id
  BY DEF InReview, ItemPart, Later
<1>4. IsFiniteSet(InReview)
  BY <1>2, <1>3, FS_Subset
<1>5. \A i \in Id : Flow[i] = Signed(moves[i]) /\ Flow[i] \in Int
  BY <1>1, MovedIs DEF Flow
<1>6. IntOn(Id, Flow) /\ IntOn(InReview, Flow)
  BY <1>3, <1>5 DEF IntOn
<1>7. Over(InReview, Flow) \in Int
  BY <1>4, <1>6, SumParts
<1>. QED  BY <1>1, <1>2, <1>3, <1>4, <1>5, <1>6, <1>7

LEMMA HandSums ==
  ASSUME FundPart
  PROVE  /\ IsFiniteSet(HandBooked) /\ IntOn(HandBooked, HandFlow) /\ HandSum \in Int
         /\ \A n \in DOMAIN others : others[n].side \in Side /\ others[n].cents \in Int
<1>1. others \in Seq(Other)
  BY DEF FundPart
<1>2. \A n \in DOMAIN others : others[n] \in Other
  BY <1>1
<1>3. \A n \in DOMAIN others : others[n].side \in Side /\ others[n].cents \in Int
  BY <1>2 DEF Other
<1>4. IsFiniteSet(HandBooked)
  <2>1. DOMAIN others = 1..Len(others) /\ Len(others) \in Nat
    BY <1>1
  <2>2. IsFiniteSet(1..Len(others)) /\ HandBooked \subseteq 1..Len(others)
    BY <2>1, FS_Interval DEF HandBooked
  <2>. QED  BY <2>2, FS_Subset
<1>5. IntOn(HandBooked, HandFlow)
  BY <1>3 DEF HandFlow, HandBooked, IntOn
<1>6. HandSum \in Int
  BY <1>4, <1>5, SumParts DEF HandSum
<1>. QED  BY <1>3, <1>4, <1>5, <1>6

LEMMA PaySums ==
  ASSUME PayPart
  PROVE  /\ IntOn(Standing, NetPay) /\ Over(Standing, NetPay) \in Int
         /\ \A p \in Paycheck : NetPay[p] = Net /\ Net \in Int
<1>1. \A p \in Paycheck : NetPay[p] = Net /\ Net \in Int
  BY PaycheckAssumption DEF NetPay
<1>2. IntOn(Standing, NetPay)
  BY <1>1 DEF IntOn, Standing
<1>3. IsFiniteSet(Standing)
  BY DEF PayPart
<1>. QED  BY <1>1, <1>2, <1>3, SumParts

-----------------------------------------------------------------------------
(* The steps, part by part.                                                *)

LEMMA ShieldInitOK == ShieldInit => ShieldInv
<1>. SUFFICES ASSUME ShieldInit PROVE ShieldInv
  OBVIOUS
<1>. USE DEF ShieldInit
<1>1. moves \in Seq(Moved) /\ Len(moves) = 0 /\ Id = {}
  BY DEF Id
<1>2. TRUE /\ moves = <<>> /\ Len(moves) <= MaxMoves
  BY <1>1, BoundsAssumption
<1>3. NeverBelow
  <2>. SUFFICES ASSUME NEW part \in Part, NEW n \in 0..Len(moves) PROVE HeldIn(part, n) >= 0
    BY DEF NeverBelow
  <2>1. n = 0 /\ 1..n = {}
    BY <1>1
  <2>2. Held[part] \in Nat
    BY HeldAssumption
  <2>3. [i \in 1..n |-> Adds(moves[i], part)] = [i \in 1..n |-> <<>>[i]]
    BY <2>1
  <2>4. HeldIn(part, n) = Held[part] + Over(1..n, <<>>)
    BY <2>3 DEF HeldIn, Over
  <2>5. Over(1..n, <<>>) = 0
    BY <2>1, SumNone
  <2>. QED  BY <2>2, <2>4, <2>5
<1>4. ChainPart
  BY <1>1, <1>2, <1>3 DEF ChainPart
<1>5. ReadPartOf /\ StartPart
  BY DEF ReadPartOf, StartPart
<1>6. ItemPart
  BY DEF ItemPart, Answerable
<1>7. CheckPart
  BY BoundsAssumption DEF CheckPart, FoundLater
<1>8. Standing = {} /\ InReview = {}
  BY DEF Standing, InReview
<1>9. PayPart
  <2>1. IsFiniteSet(Standing)
    BY <1>8, FS_EmptySet
  <2>2. paychecks \in [Paycheck -> Settlement]
    BY BoundsAssumption DEF Settlement
  <2>3. Posted
    BY <1>1 DEF Posted
  <2>. QED  BY <2>1, <2>2, <2>3 DEF PayPart
<1>10. FundPart /\ BookPart
  BY BoundsAssumption DEF FundPart, BookPart
<1>11. BookAddsUp
  <2>1. IsFiniteSet(Side)
    BY FundAssumption, FS_AddElement DEF Side
  <2>2. Over(Side, book) = 0
    BY <2>1, SumZero
  <2>3. Over(InReview, Flow) = 0 /\ Over(Standing, NetPay) = 0
    BY <1>8, SumNone
  <2>4. HandBooked = {}
    BY DEF HandBooked
  <2>5. HandSum = 0
    BY <2>4, SumNone DEF HandSum
  <2>. QED  BY <2>2, <2>3, <2>5 DEF BookAddsUp
<1>. QED  BY <1>4, <1>5, <1>6, <1>7, <1>9, <1>10, <1>11, ShieldParts

LEMMA HandStays == UNCHANGED others => UNCHANGED HandSum
BY DEF HandSum, HandBooked, HandFlow

\* A movement disturbs nothing that names the ones before it.
LEMMA ChainGrows ==
  ASSUME ShieldInv, NEW m \in Moved, Accepts(m),
         UNCHANGED <<read, start, opening, review, funds, transfers, others, book>>
  PROVE  /\ ChainPart' /\ ReadPartOf' /\ StartPart' /\ ItemPart' /\ CheckPart' /\ FundPart'
         /\ BookPart'
         /\ UNCHANGED paychecks => PayPart' /\ BookAddsUp'
         /\ Over(InReview, Flow)' = Over(InReview, Flow)
<1>. USE ShieldParts
<1>1. ShieldTypeOK /\ NeverBelow
  BY DEF ShieldInv
<1>2. moves' = Append(moves, m) /\ Len(moves) < MaxMoves
  BY DEF Accepts
<1>3. /\ Len(moves) \in Nat /\ Id = 1..Len(moves)
      /\ Len(moves') = Len(moves) + 1 /\ Id' = 1..(Len(moves) + 1)
      /\ \A i \in Id : i \in Id' /\ moves'[i] = moves[i]
      /\ moves' \in Seq(Moved)
  BY <1>1, <1>2, MovesAre, OneMoved
<1>4. ChainPart'
  BY <1>1, <1>2, <1>3, AcceptsKeeps, BoundsAssumption DEF ChainPart
<1>5. Id \subseteq Id'
  BY <1>3
<1>6. ReadPartOf' /\ StartPart'
  <2>1. \A part \in Part : read[part] \in Id' \cup {0, None}
    BY <1>5 DEF ReadPartOf
  <2>2. read' \in [Part -> Id' \cup {0, None}]
    BY <2>1 DEF ReadPartOf
  <2>. QED  BY <1>5, <2>2 DEF ReadPartOf, StartPart
<1>7. Later \subseteq Later' /\ Later \subseteq Id
  BY <1>5 DEF Later
<1>8. ItemPart'
  <2>1. items' = items /\ DOMAIN items \subseteq Id /\ DOMAIN items \subseteq Later'
    BY <1>7 DEF review, ItemPart
  <2>2. Answerable'
    BY <1>3, <2>1 DEF ItemPart, Answerable
  <2>. QED  BY <2>1, <2>2 DEF ItemPart
<1>9. CheckPart'
  BY <1>5, <1>7 DEF review, CheckPart, FoundLater
<1>10. FundPart' /\ BookPart'
  BY DEF FundPart, BookPart
<1>11. Over(InReview, Flow)' = Over(InReview, Flow)
  <2>1. InReview' = InReview /\ InReview \subseteq Id
    BY ReviewSums DEF review, InReview
  <2>2. \A i \in InReview : Flow'[i] = Flow[i]
    BY <1>3, <2>1 DEF Flow
  <2>3. Over(InReview, Flow') = Over(InReview, Flow)
    BY <2>2, SumSame
  <2>. QED  BY <2>1, <2>3
<1>12. ASSUME UNCHANGED paychecks PROVE PayPart' /\ BookAddsUp'
  <2>1. \A p \in Paycheck : paychecks[p].reference \in Nat /\ paychecks[p].reference <= Len(moves)
    BY DEF PayPart, Posted, Settlement
  <2>2. \A p \in Paycheck : paychecks[p].reference > 0 =>
          moves'[paychecks[p].reference].pays = p
    BY <1>3, <2>1 DEF PayPart
  <2>3. Posted'
    BY <1>3, <1>12, <2>1 DEF PayPart, Posted
  <2>4. Standing' = Standing
    BY <1>12 DEF Standing
  <2>5. PayPart'
    BY <1>12, <2>2, <2>3, <2>4 DEF PayPart
  <2>6. BookAddsUp'
    BY <1>11, <2>4, HandStays DEF BookAddsUp, NetPay, Side
  <2>. QED  BY <2>5, <2>6
<1>. QED  BY <1>4, <1>6, <1>8, <1>9, <1>10, <1>11, <1>12

LEMMA PartsStay ==
  ASSUME ShieldInv
  PROVE  /\ UNCHANGED moves => ChainPart'
         /\ UNCHANGED <<moves, read>> => ReadPartOf'
         /\ UNCHANGED <<moves, start, opening>> => StartPart'
         /\ UNCHANGED <<moves, start, items>> => ItemPart'
         /\ UNCHANGED <<moves, start, checks, checked>> => CheckPart'
         /\ UNCHANGED <<moves, paychecks>> => PayPart'
         /\ UNCHANGED <<funds, transfers, others>> => FundPart'
         /\ UNCHANGED <<moves, items>> => UNCHANGED Over(InReview, Flow)
         /\ UNCHANGED paychecks => UNCHANGED Over(Standing, NetPay)
         /\ UNCHANGED others => UNCHANGED HandSum /\ HandSum \in Int
         /\ UNCHANGED book => BookPart' /\ UNCHANGED Over(Side, book)
<1>. USE ShieldParts
<1>1. UNCHANGED moves => ChainPart'
  BY HeldKept DEF ChainPart
<1>2. UNCHANGED moves => UNCHANGED Id
  BY DEF Id
<1>3. UNCHANGED <<moves, read>> => ReadPartOf'
  BY <1>2 DEF ReadPartOf
<1>4. UNCHANGED <<moves, start, opening>> => StartPart'
  BY <1>2 DEF StartPart
<1>5. UNCHANGED <<moves, start>> => UNCHANGED Later
  BY <1>2 DEF Later
<1>6. UNCHANGED <<moves, start, items>> => ItemPart'
  BY <1>5 DEF ItemPart, Answerable
<1>7. UNCHANGED <<moves, start, checks, checked>> => CheckPart'
  BY <1>2, <1>5 DEF CheckPart, FoundLater
<1>8. UNCHANGED paychecks => UNCHANGED Standing
  BY DEF Standing
<1>9. UNCHANGED <<moves, paychecks>> => PayPart'
  BY <1>8 DEF PayPart, Posted
<1>10. UNCHANGED <<funds, transfers, others>> => FundPart'
  BY DEF FundPart
<1>11. UNCHANGED <<moves, items>> => UNCHANGED Over(InReview, Flow)
  <2>1. UNCHANGED moves => UNCHANGED Flow
    BY <1>2 DEF Flow
  <2>2. UNCHANGED items => UNCHANGED InReview
    BY DEF InReview
  <2>. QED  BY <2>1, <2>2
<1>12. UNCHANGED paychecks => UNCHANGED Over(Standing, NetPay)
  BY <1>8 DEF NetPay
<1>13. UNCHANGED book => BookPart' /\ UNCHANGED Over(Side, book)
  BY DEF BookPart, Side
<1>14. UNCHANGED others => UNCHANGED HandSum /\ HandSum \in Int
  BY HandStays, HandSums
<1>. QED  BY <1>1, <1>3, <1>4, <1>6, <1>7, <1>9, <1>10, <1>11, <1>12, <1>13, <1>14

LEMMA MoveKeeps ==
  ASSUME ShieldInv, NEW m \in Movement, Move(m)
  PROVE  ShieldInv'
BY ChainGrows, ShieldPartsNext DEF Move, Moved, ownEntries

LEMMA ReadPartKeeps ==
  ASSUME ShieldInv, NEW part \in Part, ReadPart(part)
  PROVE  ShieldInv'
<1>. USE PartsStay, ShieldParts DEF ReadPart, chain, review, ownEntries
<1>1. ChainPart' /\ StartPart' /\ ItemPart' /\ CheckPart' /\ PayPart' /\ FundPart' /\ BookPart'
  OBVIOUS
<1>2. ReadPartOf'
  BY ReviewSums DEF ReadPartOf, Id
<1>3. BookAddsUp'
  BY DEF BookAddsUp
<1>. QED  BY <1>1, <1>2, <1>3, ShieldPartsNext

LEMMA BookAdds ==
  ASSUME BookPart, NEW s \in Side, NEW cents \in Int, book' = Adding(book, s, cents)
  PROVE  /\ BookPart'
         /\ Over(Side, book)' = Over(Side, book) + cents /\ Over(Side, book) \in Int
<1>1. book \in [Side -> Int] /\ Side' = Side
  BY DEF BookPart, Side
<1>2. /\ book' \in [Side -> Int]
      /\ Over(Side, book') = Over(Side, book) + cents /\ Over(Side, book) \in Int
  BY <1>1, AddingAdds
<1>. QED  BY <1>1, <1>2 DEF BookPart

LEMMA BookShifts ==
  ASSUME BookPart, NEW f \in Fund, NEW cents \in Int, book' = Shifted(book, f, cents)
  PROVE  BookPart' /\ Over(Side, book)' = Over(Side, book)
<1>1. book \in [Side -> Int] /\ Side' = Side
  BY DEF BookPart, Side
<1>2. book' \in [Side -> Int] /\ Over(Side, book') = Over(Side, book)
  BY <1>1, ShiftedAdds
<1>. QED  BY <1>1, <1>2 DEF BookPart

LEMMA StartBooksKeeps ==
  ASSUME ShieldInv, StartBooks
  PROVE  ShieldInv'
<1>. USE ShieldParts
<1>1. moves' = moves /\ start = None /\ start' = Len(moves) /\ opening = 0
      /\ UNCHANGED <<items, checks, checked, paychecks, funds, transfers, others>>
  BY DEF StartBooks, chain, ownEntries, review, StartPart
<1>2. Len(moves) \in Nat /\ Id = 1..Len(moves) /\ Id' = Id
  BY <1>1, ReviewSums DEF Id
<1>3. BalanceRead \in Nat
  <2>1. \A part \in Part : read[part] \in 0..Len(moves)
    BY <1>2 DEF StartBooks, ReadPartOf
  <2>2. \A part \in Part, n \in 0..Len(moves) : HeldIn(part, n) \in Int /\ HeldIn(part, n) >= 0
    BY HeldIs DEF ShieldInv, NeverBelow
  <2>. QED  BY <2>1, <2>2 DEF BalanceRead, Part
<1>4. ChainPart' /\ PayPart' /\ FundPart'
  BY <1>1, PartsStay
<1>5. ReadPartOf'
  BY DEF StartBooks, ReadPartOf
<1>. DEFINE cents == minorToCents(BalanceRead)
<1>11. cents \in Nat /\ opening' = cents
  <2>1. cents \in Int /\ BalanceRead % Cent \in 0..(Cent - 1)
        /\ BalanceRead = Cent * cents + (BalanceRead % Cent)
    BY <1>3, CentsIn
  <2>2. \A q, e, k, n \in Int : n = k * q + e /\ k > 0 /\ e < k /\ n >= 0 => q >= 0
    <3>1. \A q, k \in Int : q < 0 /\ k > 0 => k * q <= -k
      OBVIOUS
    <3>. QED  BY <3>1
  <2>3. BalanceRead >= 0 /\ BalanceRead \in Int /\ Cent > 0 /\ Cent \in Int
    BY <1>3, CentAssumption
  <2>4. BalanceRead % Cent \in Int /\ BalanceRead % Cent < Cent
    BY <2>1, <2>3
  <2>5. cents >= 0
    <3>. HIDE DEF cents
    <3>. QED  BY <2>1, <2>2, <2>3, <2>4
  <2>. QED  BY <2>1, <2>5 DEF StartBooks
<1>. HIDE DEF cents
<1>6. StartPart'
  <2>1. start' \in Id' \cup {0, None} /\ start' # None
    BY <1>1, <1>2, PaycheckAssumption
  <2>. QED  BY <1>11, <2>1 DEF StartPart
<1>7. Later = {} /\ DOMAIN items = {}
  BY <1>1 DEF Later, ItemPart
<1>8. ItemPart' /\ CheckPart'
  BY <1>1, <1>2, <1>7 DEF ItemPart, Answerable, CheckPart, FoundLater
<1>9. BookPart' /\ Over(Side, book)' = Over(Side, book) + cents
  <2>1. book' = Adding(book, General, cents) /\ General \in Side
    BY DEF StartBooks, Side, cents
  <2>2. cents \in Int
    BY <1>11
  <2>. QED  BY <2>1, <2>2, BookAdds
<1>10. BookAddsUp'
  <2>1. Over(InReview, Flow)' = Over(InReview, Flow)
        /\ Over(Standing, NetPay)' = Over(Standing, NetPay)
        /\ HandSum' = HandSum /\ HandSum \in Int
    BY <1>1, PartsStay
  <2>2. Over(InReview, Flow) \in Int /\ Over(Standing, NetPay) \in Int
    BY ReviewSums, PaySums
  <2>. QED  BY <1>1, <1>9, <1>11, <2>1, <2>2 DEF BookAddsUp
<1>. QED  BY <1>4, <1>5, <1>6, <1>8, <1>9, <1>10, ShieldPartsNext

LEMMA VoidOpeningKeeps ==
  ASSUME ShieldInv, VoidOpening
  PROVE  ShieldInv'
<1>. USE ShieldParts
<1>1. opening \in Nat /\ opening > 0 /\ opening' = 0 /\ book' = Adding(book, General, -opening)
      /\ UNCHANGED <<moves, read, start, items, checks, checked, paychecks, funds, transfers, others>>
  BY DEF VoidOpening, chain, ownEntries, review, StartPart
<1>2. ChainPart' /\ ReadPartOf' /\ ItemPart' /\ CheckPart' /\ PayPart' /\ FundPart'
  BY <1>1, PartsStay
<1>3. StartPart'
  BY <1>1 DEF StartPart, Id
<1>4. BookPart' /\ Over(Side, book)' = Over(Side, book) + (-opening)
  <2>1. General \in Side /\ -opening \in Int
    BY <1>1 DEF Side
  <2>. QED  BY <1>1, <2>1, BookAdds
<1>5. BookAddsUp'
  <2>1. Over(InReview, Flow)' = Over(InReview, Flow)
        /\ Over(Standing, NetPay)' = Over(Standing, NetPay)
        /\ HandSum' = HandSum /\ HandSum \in Int
    BY <1>1, PartsStay
  <2>2. Over(InReview, Flow) \in Int /\ Over(Standing, NetPay) \in Int
    BY ReviewSums, PaySums
  <2>. QED  BY <1>1, <1>4, <2>1, <2>2 DEF BookAddsUp
<1>. QED  BY <1>2, <1>3, <1>4, <1>5, ShieldPartsNext

LEMMA CheckKeeps ==
  ASSUME ShieldInv, Check
  PROVE  ShieldInv'
<1>. USE ShieldParts
<1>1. UNCHANGED <<moves, read, start, opening, items, paychecks, funds, transfers, others, book>>
      /\ checked < MaxChecks /\ checked' = checked + 1 /\ start # None
  BY DEF Check, chain, ownEntries
<1>2. PICK found \in SUBSET ToRead : checks' = checks \cup {found}
  BY DEF Check
<1>3. ChainPart' /\ ReadPartOf' /\ StartPart' /\ ItemPart' /\ PayPart' /\ FundPart' /\ BookPart'
  BY <1>1, PartsStay
<1>4. CheckPart'
  <2>1. Id' = Id /\ Later' = Later /\ found \subseteq Later /\ Later \subseteq Id
    BY <1>1 DEF Id, Later, ToRead
  <2>2. checked' \in 0..MaxChecks
    BY <1>1, BoundsAssumption DEF CheckPart
  <2>. QED  BY <1>2, <2>1, <2>2 DEF CheckPart, FoundLater
<1>5. BookAddsUp'
  BY <1>1, PartsStay DEF BookAddsUp
<1>. QED  BY <1>3, <1>4, <1>5, ShieldPartsNext

LEMMA AddReviewItemsKeeps ==
  ASSUME ShieldInv, NEW found \in checks, AddReviewItems(found)
  PROVE  ShieldInv'
<1>. USE ShieldParts
<1>1. UNCHANGED <<moves, read, start, opening, checked, paychecks, funds, transfers, others, book>>
      /\ checks' = checks \ {found}
      /\ items' = [i \in Known \cup Fresh(found) |->
                     IF i \in Fresh(found) THEN Listed(i) ELSE items[i]]
  BY DEF AddReviewItems, chain, ownEntries
<1>2. ChainPart' /\ ReadPartOf' /\ StartPart' /\ PayPart' /\ FundPart' /\ BookPart'
  BY <1>1, PartsStay
<1>3. Id' = Id /\ Later' = Later /\ Later \subseteq Id
  BY <1>1 DEF Id, Later
<1>4. CheckPart'
  BY <1>1, <1>3 DEF CheckPart, FoundLater
<1>5. Fresh(found) \subseteq Later /\ Fresh(found) \cap DOMAIN items = {}
  BY DEF CheckPart, FoundLater, Fresh, Known
<1>6. \A i \in Fresh(found) :
        /\ Listed(i) \in Item /\ Listed(i).side = None /\ Listed(i).status # "accepted"
        /\ Listed(i).status \in {"new", "accepted", "excluded"} => moves[i].kind # "inside"
  BY DEF Listed, Item
<1>7. /\ DOMAIN items' = DOMAIN items \cup Fresh(found)
      /\ \A i \in Fresh(found) : items'[i] = Listed(i)
      /\ \A i \in DOMAIN items : items'[i] = items[i]
  BY <1>1, <1>5 DEF Known
<1>8. ItemPart'
  <2>1. DOMAIN items' \subseteq Later'
    BY <1>3, <1>5, <1>7 DEF ItemPart
  <2>2. \A i \in DOMAIN items' :
          /\ items'[i] \in Item
          /\ items'[i].status = "accepted" <=> items'[i].side # None
          /\ items'[i].status \in {"new", "accepted", "excluded"} => moves[i].kind # "inside"
          /\ items'[i].status = "accepted" => minorToCents(moves[i].minor) > 0
    BY <1>6, <1>7 DEF ItemPart, Answerable
  <2>. QED  BY <1>1, <2>1, <2>2 DEF ItemPart, Answerable
<1>9. InReview' = InReview
  BY <1>6, <1>7 DEF InReview
<1>10. BookAddsUp'
  <2>1. Flow' = Flow
    BY <1>1, <1>3 DEF Flow
  <2>. QED  BY <1>1, <1>9, <2>1, PartsStay DEF BookAddsUp
<1>. QED  BY <1>2, <1>4, <1>8, <1>10, ShieldPartsNext

\* An item answered anew.
LEMMA ItemSet ==
  ASSUME ShieldInv, OnlyTheItem, NEW i \in DOMAIN items,
         NEW status \in {"new", "accepted", "excluded"}, NEW side \in Side \cup {None},
         SetItem(i, status, side), status = "accepted" <=> side # None,
         items[i].status \in {"new", "accepted", "excluded"},
         status = "accepted" => minorToCents(moves[i].minor) > 0
  PROVE  /\ ChainPart' /\ ReadPartOf' /\ StartPart' /\ ItemPart' /\ CheckPart' /\ PayPart'
         /\ FundPart'
         /\ InReview' = IF status = "accepted" THEN InReview \cup {i} ELSE InReview \ {i}
         /\ Flow' = Flow /\ Over(Standing, NetPay)' = Over(Standing, NetPay)
         /\ opening' = opening /\ HandSum' = HandSum /\ HandSum \in Int
<1>. USE ShieldParts
<1>1. UNCHANGED <<moves, read, start, opening, checks, checked, paychecks, funds, transfers, others>>
  BY DEF OnlyTheItem, chain, ownEntries
<1>2. /\ DOMAIN items' = DOMAIN items
      /\ items'[i] = [status |-> status, side |-> side]
      /\ \A j \in DOMAIN items : j # i => items'[j] = items[j]
  BY DEF SetItem
<1>3. /\ ChainPart' /\ ReadPartOf' /\ StartPart' /\ CheckPart' /\ PayPart' /\ FundPart'
      /\ Over(Standing, NetPay)' = Over(Standing, NetPay)
      /\ HandSum' = HandSum /\ HandSum \in Int
  BY <1>1, PartsStay
<1>4. Id' = Id /\ Later' = Later
  BY <1>1 DEF Id, Later
<1>5. ItemPart'
  <2>1. moves[i].kind # "inside"
    BY DEF ItemPart, Answerable
  <2>2. [status |-> status, side |-> side] \in Item
    BY DEF Item
  <2>3. \A j \in DOMAIN items :
          /\ items'[j] \in Item
          /\ items'[j].status = "accepted" <=> items'[j].side # None
          /\ items'[j].status \in {"new", "accepted", "excluded"} => moves[j].kind # "inside"
          /\ items'[j].status = "accepted" => minorToCents(moves[j].minor) > 0
    <3>. TAKE j \in DOMAIN items
    <3>1. CASE j = i
      BY <1>2, <2>1, <2>2, <3>1
    <3>2. CASE j # i
      BY <1>2, <3>2 DEF ItemPart, Answerable
    <3>. QED  BY <3>1, <3>2
  <2>. QED  BY <1>1, <1>2, <1>4, <2>3 DEF ItemPart, Answerable
<1>6. InReview' = IF status = "accepted" THEN InReview \cup {i} ELSE InReview \ {i}
  BY <1>2 DEF InReview
<1>7. Flow' = Flow
  BY <1>1, <1>4 DEF Flow
<1>. QED  BY <1>1, <1>3, <1>5, <1>6, <1>7

\* The books once an item is accepted, and no longer is.
LEMMA AcceptedSum ==
  ASSUME ShieldInv, NEW i \in DOMAIN items
  PROVE  /\ Signed(moves[i]) \in Int /\ -Signed(moves[i]) \in Int
         /\ Over(InReview \cup {i}, Flow)
              = Over(InReview \ {i}, Flow) + Signed(moves[i])
         /\ i \in InReview =>
              Over(InReview \ {i}, Flow) = Over(InReview, Flow) - Signed(moves[i])
         /\ i \notin InReview => Over(InReview \ {i}, Flow) = Over(InReview, Flow)
         /\ Over(InReview, Flow) \in Int /\ Over(InReview \ {i}, Flow) \in Int
<1>. USE ShieldParts
<1>1. /\ IsFiniteSet(InReview) /\ IntOn(InReview, Flow) /\ Over(InReview, Flow) \in Int
      /\ i \in Id /\ Flow[i] = Signed(moves[i]) /\ Flow[i] \in Int
  <2>1. i \in Id
    BY DEF ItemPart, Later
  <2>. QED  BY <2>1, ReviewSums
<1>. HIDE DEF InReview, Flow
<1>2. /\ i \in InReview => Over(InReview, Flow) = Over(InReview \ {i}, Flow) + Flow[i]
      /\ i \notin InReview => Over(InReview, Flow) = Over(InReview \ {i}, Flow)
      /\ Over(InReview \ {i}, Flow) \in Int
  BY <1>1, SumBut
<1>3. IsFiniteSet(InReview \ {i}) /\ IntOn(InReview \ {i}, Flow) /\ i \notin InReview \ {i}
  BY <1>1, FS_Subset DEF IntOn
<1>4. (InReview \ {i}) \cup {i} = InReview \cup {i}
  OBVIOUS
<1>5. Over((InReview \ {i}) \cup {i}, Flow) = Over(InReview \ {i}, Flow) + Flow[i]
  BY <1>1, <1>3, SumWith
<1>6. Over(InReview \cup {i}, Flow) = Over(InReview \ {i}, Flow) + Signed(moves[i])
  BY <1>1, <1>4, <1>5
<1>7. i \in InReview => Over(InReview \ {i}, Flow) = Over(InReview, Flow) - Signed(moves[i])
  BY <1>1, <1>2
<1>8. Signed(moves[i]) \in Int /\ -Signed(moves[i]) \in Int
  BY <1>1
<1>. QED  BY <1>1, <1>2, <1>6, <1>7, <1>8

LEMMA AcceptKeeps ==
  ASSUME ShieldInv, NEW i \in DOMAIN items, NEW s \in Side, Accept(i, s)
  PROVE  ShieldInv'
<1>. USE ShieldParts
<1>1. s # None
  BY FundAssumption DEF Side
<1>2. /\ ChainPart' /\ ReadPartOf' /\ StartPart' /\ ItemPart' /\ CheckPart' /\ PayPart'
      /\ FundPart'
      /\ InReview' = InReview \cup {i}
      /\ Flow' = Flow /\ Over(Standing, NetPay)' = Over(Standing, NetPay)
      /\ opening' = opening /\ HandSum' = HandSum /\ HandSum \in Int
  BY <1>1, ItemSet DEF Accept
<1>3. BookPart' /\ Over(Side, book)' = Over(Side, book) + Signed(moves[i])
      /\ Over(Side, book) \in Int
  BY AcceptedSum, BookAdds DEF Accept
<1>4. i \notin InReview
  BY DEF Accept, InReview
<1>5. BookAddsUp'
  <2>1. Over(InReview, Flow) \in Int /\ Signed(moves[i]) \in Int
        /\ Over(InReview \cup {i}, Flow) = Over(InReview, Flow) + Signed(moves[i])
    BY <1>4, AcceptedSum
  <2>2. Over(Standing, NetPay) \in Int
    BY PaySums
  <2>3. Over(Side, book) = opening + HandSum + Over(InReview, Flow) - Over(Standing, NetPay)
        /\ opening \in Int
    BY DEF BookAddsUp, StartPart
  <2>4. Over(InReview, Flow)' = Over(InReview \cup {i}, Flow)
    BY <1>2
  <2>. QED  BY <1>2, <1>3, <2>1, <2>2, <2>3, <2>4 DEF BookAddsUp
<1>. QED  BY <1>2, <1>3, <1>5, ShieldPartsNext

LEMMA ExcludeKeeps ==
  ASSUME ShieldInv, NEW i \in DOMAIN items, Exclude(i)
  PROVE  ShieldInv'
<1>. USE ShieldParts
<1>1. /\ ChainPart' /\ ReadPartOf' /\ StartPart' /\ ItemPart' /\ CheckPart' /\ PayPart'
      /\ FundPart'
      /\ InReview' = InReview \ {i}
      /\ Flow' = Flow /\ Over(Standing, NetPay)' = Over(Standing, NetPay)
      /\ opening' = opening /\ HandSum' = HandSum /\ HandSum \in Int
  BY ItemSet DEF Exclude
<1>2. BookPart' /\ Over(Side, book)' = Over(Side, book)
  BY PartsStay DEF Exclude
<1>3. i \notin InReview
  BY DEF Exclude, InReview
<1>4. InReview' = InReview
  BY <1>1, <1>3
<1>5. BookAddsUp'
  BY <1>1, <1>2, <1>4 DEF BookAddsUp
<1>. QED  BY <1>1, <1>2, <1>5, ShieldPartsNext

\* The books with an item's entry reversed, if it had one.
LEMMA UndoneSum ==
  ASSUME ShieldInv, NEW i \in DOMAIN items
  PROVE  /\ Undone(i) \in [Side -> Int]
         /\ Over(Side, Undone(i)) \in Int
         /\ Over(Side, Undone(i)) - Over(InReview \ {i}, Flow)
              = Over(Side, book) - Over(InReview, Flow)
<1>. USE ShieldParts
<1>1. book \in [Side -> Int]
  BY DEF BookPart
<1>2. CASE items[i].status = "accepted"
  <2>1. i \in InReview
    BY <1>2 DEF InReview
  <2>2. items[i].side \in Side
    BY <1>2 DEF ItemPart, Item
  <2>3. /\ Undone(i) \in [Side -> Int]
        /\ Over(Side, Undone(i)) = Over(Side, book) + (-Signed(moves[i]))
        /\ Over(Side, book) \in Int
    BY <1>1, <1>2, <2>2, AcceptedSum, AddingAdds DEF Undone
  <2>. QED  BY <2>1, <2>3, AcceptedSum
<1>3. CASE items[i].status # "accepted"
  <2>1. i \notin InReview /\ Undone(i) = book
    BY <1>3 DEF InReview, Undone
  <2>2. Over(Side, book) \in Int
    <3>1. General \in Side /\ 0 \in Int
      BY DEF Side
    <3>. QED  BY <1>1, <3>1, AddingAdds
  <2>. QED  BY <1>1, <2>1, <2>2, AcceptedSum
<1>. QED  BY <1>2, <1>3

LEMMA UndoKeeps ==
  ASSUME ShieldInv, NEW i \in DOMAIN items, Undo(i)
  PROVE  ShieldInv'
<1>. USE ShieldParts
<1>1. /\ ChainPart' /\ ReadPartOf' /\ StartPart' /\ ItemPart' /\ CheckPart' /\ PayPart'
      /\ FundPart'
      /\ InReview' = InReview \ {i}
      /\ Flow' = Flow /\ Over(Standing, NetPay)' = Over(Standing, NetPay)
      /\ opening' = opening /\ HandSum' = HandSum /\ HandSum \in Int
  BY ItemSet DEF Undo
<1>2. book' = Undone(i) /\ Side' = Side
  BY DEF Undo, Side
<1>3. BookPart'
  BY <1>2, UndoneSum DEF BookPart
<1>4. BookAddsUp'
  <2>1. Over(InReview, Flow) \in Int /\ Over(InReview \ {i}, Flow) \in Int
    BY AcceptedSum
  <2>2. Over(Standing, NetPay) \in Int
    BY PaySums
  <2>3. Over(Side, book) = opening + HandSum + Over(InReview, Flow) - Over(Standing, NetPay)
        /\ opening \in Int
    BY DEF BookAddsUp, StartPart
  <2>4. Over(Side, Undone(i)) = opening + HandSum + Over(InReview \ {i}, Flow) - Over(Standing, NetPay)
    BY <1>1, <2>1, <2>2, <2>3, UndoneSum
  <2>. QED  BY <1>1, <1>2, <2>4 DEF BookAddsUp
<1>. QED  BY <1>1, <1>3, <1>4, ShieldPartsNext

LEMMA ChangeKeeps ==
  ASSUME ShieldInv, NEW i \in DOMAIN items, NEW s \in Side, Change(i, s)
  PROVE  ShieldInv'
<1>. USE ShieldParts
<1>1. s # None /\ minorToCents(moves[i].minor) > 0
  BY FundAssumption DEF Side, Change, ItemPart, Answerable
<1>2. /\ ChainPart' /\ ReadPartOf' /\ StartPart' /\ ItemPart' /\ CheckPart' /\ PayPart'
      /\ FundPart'
      /\ InReview' = InReview \cup {i}
      /\ Flow' = Flow /\ Over(Standing, NetPay)' = Over(Standing, NetPay)
      /\ opening' = opening /\ HandSum' = HandSum /\ HandSum \in Int
  BY <1>1, ItemSet DEF Change
<1>3. book' = Adding(Undone(i), s, Signed(moves[i])) /\ Side' = Side
  BY DEF Change, Side
<1>4. /\ book' \in [Side -> Int]
      /\ Over(Side, book') = Over(Side, Undone(i)) + Signed(moves[i])
  BY <1>3, AcceptedSum, UndoneSum, AddingAdds
<1>5. BookPart'
  BY <1>3, <1>4 DEF BookPart
<1>6. BookAddsUp'
  <2>1. Over(InReview, Flow) \in Int /\ Over(InReview \ {i}, Flow) \in Int
        /\ Signed(moves[i]) \in Int
        /\ Over(InReview \cup {i}, Flow) = Over(InReview \ {i}, Flow) + Signed(moves[i])
    BY AcceptedSum
  <2>2. Over(Standing, NetPay) \in Int
    BY PaySums
  <2>3. Over(Side, book) = opening + HandSum + Over(InReview, Flow) - Over(Standing, NetPay)
        /\ opening \in Int
    BY DEF BookAddsUp, StartPart
  <2>4. Over(Side, book') = opening + HandSum + Over(InReview \cup {i}, Flow) - Over(Standing, NetPay)
    BY <1>2, <1>4, <2>1, <2>2, <2>3, UndoneSum
  <2>. QED  BY <1>2, <1>3, <2>4 DEF BookAddsUp
<1>. QED  BY <1>2, <1>5, <1>6, ShieldPartsNext

\* Transfers between General and a set-aside change no sum.
LEMMA FundsKeep ==
  ASSUME ShieldInv, OnlyTheFunds, FundPart', BookPart', Over(Side, book)' = Over(Side, book)
  PROVE  ShieldInv'
<1>. USE ShieldParts
<1>1. UNCHANGED <<moves, read, start, opening, items, checks, checked, paychecks, others>>
  BY DEF OnlyTheFunds, chain, review
<1>2. ChainPart' /\ ReadPartOf' /\ StartPart' /\ ItemPart' /\ CheckPart' /\ PayPart'
  BY <1>1, PartsStay
<1>3. BookAddsUp'
  BY <1>1, PartsStay DEF BookAddsUp
<1>. QED  BY <1>2, <1>3, ShieldPartsNext

LEMMA TransferredKeeps ==
  ASSUME ShieldInv, NEW f \in Fund, NEW cents \in Int, Transferred(f, cents)
  PROVE  /\ transfers' \in Seq(Transfer) /\ Len(transfers') <= MaxTransfers
         /\ BookPart' /\ Over(Side, book)' = Over(Side, book)
<1>. USE ShieldParts
<1>1. [fund |-> f, cents |-> cents, voided |-> FALSE] \in Transfer
  BY DEF Transfer
<1>2. transfers' \in Seq(Transfer) /\ Len(transfers') <= MaxTransfers
  BY <1>1, BoundsAssumption DEF FundPart, Transferred
<1>3. BookPart' /\ Over(Side, book)' = Over(Side, book)
  BY BookShifts DEF Transferred
<1>. QED  BY <1>2, <1>3

LEMMA FundNextKeeps ==
  ASSUME ShieldInv, FundNext
  PROVE  ShieldInv'
<1>. USE ShieldParts
<1>1. ASSUME NEW f \in Fund, CreateFund(f) PROVE ShieldInv'
  <2>1. FundPart'
    BY <1>1 DEF CreateFund, OnlyTheFunds, FundPart
  <2>. QED  BY <1>1, <2>1, PartsStay, FundsKeep DEF CreateFund
<1>2. ASSUME NEW f \in Fund, CloseFund(f) PROVE ShieldInv'
  <2>1. funds' \in [Fund -> {"none", "open", "closed"}] /\ OnlyTheFunds
    BY <1>2 DEF CloseFund, FundPart
  <2>2. CASE book[f] > 0
    <3>1. -book[f] \in Int /\ Transferred(f, -book[f])
      BY <1>2, <2>2 DEF CloseFund, BookPart, Side
    <3>2. FundPart' /\ BookPart' /\ Over(Side, book)' = Over(Side, book)
      BY <2>1, <3>1, TransferredKeeps DEF FundPart, OnlyTheFunds
    <3>. QED  BY <2>1, <3>2, FundsKeep
  <2>3. CASE ~(book[f] > 0)
    <3>1. UNCHANGED <<transfers, book>>
      BY <1>2, <2>3 DEF CloseFund
    <3>2. FundPart'
      BY <2>1, <3>1 DEF FundPart, OnlyTheFunds
    <3>. QED  BY <2>1, <3>1, <3>2, PartsStay, FundsKeep
  <2>. QED  BY <2>2, <2>3
<1>3. ASSUME NEW f \in Fund, NEW cents \in {-1, 1}, MoveFund(f, cents) PROVE ShieldInv'
  <2>1. cents \in Int /\ Transferred(f, cents) /\ OnlyTheFunds /\ UNCHANGED funds
    BY <1>3 DEF MoveFund
  <2>2. FundPart' /\ BookPart' /\ Over(Side, book)' = Over(Side, book)
    BY <2>1, TransferredKeeps DEF FundPart, OnlyTheFunds
  <2>. QED  BY <2>1, <2>2, FundsKeep
<1>. QED  BY <1>1, <1>2, <1>3 DEF FundNext

LEMMA VoidTransferKeeps ==
  ASSUME ShieldInv, NEW n \in DOMAIN transfers, VoidTransfer(n)
  PROVE  ShieldInv'
<1>. USE ShieldParts
<1>1. transfers \in Seq(Transfer) /\ Len(transfers) <= MaxTransfers
  BY DEF FundPart
<1>2. transfers[n] \in Transfer
  BY <1>1
<1>3. transfers[n].fund \in Fund /\ transfers[n].cents \in Int /\ -transfers[n].cents \in Int
  BY <1>2 DEF Transfer
<1>4. [transfers[n] EXCEPT !.voided = TRUE] \in Transfer
  BY <1>2 DEF Transfer
<1>5. transfers' = [transfers EXCEPT ![n] = [transfers[n] EXCEPT !.voided = TRUE]]
  BY DEF VoidTransfer
<1>6. transfers' \in Seq(Transfer) /\ Len(transfers') = Len(transfers)
  BY <1>1, <1>4, <1>5
<1>7. FundPart'
  BY <1>1, <1>6 DEF VoidTransfer, OnlyTheFunds, FundPart
<1>8. BookPart' /\ Over(Side, book)' = Over(Side, book)
  BY <1>3, BookShifts DEF VoidTransfer
<1>. QED  BY <1>7, <1>8, FundsKeep DEF VoidTransfer

\* A step on the entries by hand that leaves the rest alone.
LEMMA OthersKeep ==
  ASSUME ShieldInv, OnlyTheOthers, others' \in Seq(Other), Len(others') <= MaxOthers,
         NEW s \in Side, NEW cents \in Int, book' = Adding(book, s, cents),
         HandSum' = HandSum + cents
  PROVE  ShieldInv'
<1>. USE ShieldParts
<1>1. UNCHANGED <<moves, read, start, opening, items, checks, checked, paychecks, funds, transfers>>
  BY DEF OnlyTheOthers, chain, review
<1>2. ChainPart' /\ ReadPartOf' /\ StartPart' /\ ItemPart' /\ CheckPart' /\ PayPart'
  BY <1>1, PartsStay
<1>3. FundPart'
  BY <1>1 DEF FundPart, Other, Side
<1>4. BookPart' /\ Over(Side, book)' = Over(Side, book) + cents /\ Over(Side, book) \in Int
  BY BookAdds
<1>5. BookAddsUp'
  <2>1. /\ Over(InReview, Flow)' = Over(InReview, Flow) /\ Over(InReview, Flow) \in Int
        /\ Over(Standing, NetPay)' = Over(Standing, NetPay) /\ Over(Standing, NetPay) \in Int
        /\ opening' = opening /\ opening \in Int /\ HandSum \in Int
    BY <1>1, PartsStay, ReviewSums, PaySums, HandSums DEF StartPart
  <2>. QED  BY <1>4, <2>1 DEF BookAddsUp
<1>. QED  BY <1>2, <1>3, <1>4, <1>5, ShieldPartsNext

LEMMA PostOtherKeeps ==
  ASSUME ShieldInv, NEW s \in Side, NEW cents \in {-1, 1}, PostOther(s, cents)
  PROVE  ShieldInv'
<1>. USE ShieldParts
<1>. DEFINE new == [side |-> s, cents |-> cents, voided |-> FALSE]
            n   == Len(others) + 1
<1>1. others \in Seq(Other) /\ Len(others) < MaxOthers /\ new \in Other /\ cents \in Int
      /\ others' = Append(others, new) /\ book' = Adding(book, s, cents) /\ OnlyTheOthers
  BY DEF FundPart, PostOther, Other
<1>2. /\ others' \in Seq(Other) /\ Len(others') = n /\ Len(others) \in Nat
      /\ DOMAIN others = 1..Len(others) /\ DOMAIN others' = 1..n
      /\ \A k \in DOMAIN others : others'[k] = others[k]
      /\ others'[n] = new
  BY <1>1
<1>3. n \notin HandBooked /\ HandBooked' = HandBooked \cup {n}
  BY <1>2 DEF HandBooked
<1>4. /\ \A k \in HandBooked : HandFlow'[k] = HandFlow[k]
      /\ HandFlow'[n] = cents
  BY <1>2 DEF HandFlow, HandBooked
<1>5. IsFiniteSet(HandBooked) /\ IntOn(HandBooked, HandFlow)
  BY HandSums
<1>. HIDE DEF new, n
<1>6. IntOn(HandBooked, HandFlow') /\ Over(HandBooked, HandFlow') = Over(HandBooked, HandFlow)
  BY <1>4, <1>5, SumSame DEF IntOn
<1>7. Over(HandBooked \cup {n}, HandFlow') = Over(HandBooked, HandFlow') + HandFlow'[n]
  <2>1. HandFlow'[n] \in Int
    BY <1>1, <1>4
  <2>2. \A f : IntOn(HandBooked, f) /\ f[n] \in Int =>
          Over(HandBooked \cup {n}, f) = Over(HandBooked, f) + f[n]
    BY <1>3, <1>5, SumWith
  <2>. QED  BY <1>6, <2>1, <2>2
<1>8. HandSum' = HandSum + cents
  BY <1>3, <1>4, <1>6, <1>7 DEF HandSum
<1>9. Len(others') <= MaxOthers
  BY <1>1, <1>2, BoundsAssumption DEF n
<1>. QED  BY <1>1, <1>2, <1>8, <1>9, OthersKeep

LEMMA VoidOtherKeeps ==
  ASSUME ShieldInv, NEW n \in DOMAIN others, VoidOther(n)
  PROVE  ShieldInv'
<1>. USE ShieldParts
<1>1. others \in Seq(Other) /\ Len(others) <= MaxOthers
  BY DEF FundPart
<1>2. others[n] \in Other /\ others[n].side \in Side /\ others[n].cents \in Int
      /\ -others[n].cents \in Int
  BY <1>1, HandSums
<1>3. /\ ~others[n].voided /\ OnlyTheOthers
      /\ others' = [others EXCEPT ![n] = [others[n] EXCEPT !.voided = TRUE]]
      /\ book' = Adding(book, others[n].side, -others[n].cents)
  BY DEF VoidOther
<1>4. [others[n] EXCEPT !.voided = TRUE] \in Other
  BY <1>2 DEF Other
<1>5. others' \in Seq(Other) /\ Len(others') = Len(others) /\ DOMAIN others' = DOMAIN others
  BY <1>1, <1>3, <1>4
<1>6. /\ \A k \in DOMAIN others : k # n => others'[k] = others[k]
      /\ others'[n].voided = TRUE /\ others'[n].cents = others[n].cents
  BY <1>2, <1>3 DEF Other
<1>7. n \in HandBooked /\ HandBooked' = HandBooked \ {n}
  BY <1>3, <1>5, <1>6 DEF HandBooked
<1>8. \A k \in HandBooked \ {n} : HandFlow'[k] = HandFlow[k]
  BY <1>5, <1>6 DEF HandFlow, HandBooked
<1>9. IsFiniteSet(HandBooked) /\ IntOn(HandBooked, HandFlow)
  BY HandSums
<1>10. Over(HandBooked \ {n}, HandFlow') = Over(HandBooked \ {n}, HandFlow)
  BY <1>8, SumSame
<1>11. /\ Over(HandBooked, HandFlow) = Over(HandBooked \ {n}, HandFlow) + HandFlow[n]
       /\ Over(HandBooked \ {n}, HandFlow) \in Int
  BY <1>7, <1>9, SumBut
<1>12. HandFlow[n] = others[n].cents
  BY DEF HandFlow
<1>13. HandSum' = HandSum + (-others[n].cents)
  BY <1>2, <1>7, <1>10, <1>11, <1>12 DEF HandSum
<1>. QED  BY <1>1, <1>2, <1>3, <1>5, <1>13, OthersKeep

\* A step on one paycheck that leaves the others, and the chain, alone.
LEMMA PayStays ==
  ASSUME ShieldInv, OnlyThePay, UNCHANGED moves
  PROVE  /\ ChainPart' /\ ReadPartOf' /\ StartPart' /\ ItemPart' /\ CheckPart' /\ FundPart'
         /\ Over(InReview, Flow)' = Over(InReview, Flow)
         /\ opening' = opening /\ HandSum' = HandSum /\ HandSum \in Int
<1>1. UNCHANGED <<moves, read, start, opening, items, checks, checked, funds, transfers, others>>
  BY DEF OnlyThePay, review, ownEntries
<1>. QED  BY <1>1, PartsStay

LEMMA PostRunKeeps ==
  ASSUME ShieldInv, NEW p \in Paycheck, PostRun(p)
  PROVE  ShieldInv'
<1>. USE ShieldParts
<1>1. /\ paychecks[p].status = "none" /\ moves' = moves
      /\ paychecks' = [paychecks EXCEPT ![p].status = "pending", ![p].entry = "stands"]
      /\ book' = Adding(book, General, -Net) /\ OnlyThePay
  BY DEF PostRun, chain
<1>2. /\ ChainPart' /\ ReadPartOf' /\ StartPart' /\ ItemPart' /\ CheckPart' /\ FundPart'
      /\ Over(InReview, Flow)' = Over(InReview, Flow) /\ opening' = opening
      /\ HandSum' = HandSum /\ HandSum \in Int
  BY <1>1, PayStays
<1>3. paychecks \in [Paycheck -> Settlement]
  BY DEF PayPart
<1>4. /\ paychecks' \in [Paycheck -> Settlement]
      /\ paychecks'[p].status = "pending" /\ paychecks'[p].entry = "stands"
      /\ paychecks'[p].reference = paychecks[p].reference
      /\ \A q \in Paycheck \ {p} : paychecks'[q] = paychecks[q]
  BY <1>1, <1>3 DEF Settlement
<1>5. Standing' = Standing \cup {p} /\ p \notin Standing
  BY <1>1, <1>4 DEF Standing, PayPart, Posted
<1>6. /\ IsFiniteSet(Standing \cup {p})
      /\ Over(Standing \cup {p}, NetPay) = Over(Standing, NetPay) + Net
  <2>1. IsFiniteSet(Standing) /\ IntOn(Standing, NetPay) /\ NetPay[p] = Net /\ NetPay[p] \in Int
    BY PaySums DEF PayPart
  <2>. HIDE DEF NetPay, Standing
  <2>. QED  BY <1>5, <2>1, SumWith
<1>7. PayPart'
  <2>1. Posted'
    BY <1>1, <1>4 DEF PayPart, Posted
  <2>2. \A q \in Paycheck : paychecks'[q].reference = paychecks[q].reference
    BY <1>4
  <2>. QED  BY <1>1, <1>4, <1>5, <1>6, <2>1, <2>2 DEF PayPart
<1>8. BookPart' /\ Over(Side, book)' = Over(Side, book) + (-Net) /\ Net \in Int
  <2>1. General \in Side /\ -Net \in Int /\ Net \in Int
    BY PaycheckAssumption DEF Side
  <2>. QED  BY <1>1, <2>1, BookAdds
<1>9. BookAddsUp'
  <2>1. Over(Standing, NetPay)' = Over(Standing, NetPay) + Net
    BY <1>5, <1>6 DEF NetPay
  <2>2. Over(InReview, Flow) \in Int /\ Over(Standing, NetPay) \in Int /\ opening \in Int
    BY ReviewSums, PaySums DEF StartPart
  <2>. QED  BY <1>2, <1>8, <2>1, <2>2 DEF BookAddsUp
<1>. QED  BY <1>2, <1>7, <1>8, <1>9, ShieldPartsNext

LEMMA VoidPayrollKeeps ==
  ASSUME ShieldInv, NEW p \in Paycheck, VoidPayroll(p)
  PROVE  ShieldInv'
<1>. USE ShieldParts
<1>1. /\ paychecks[p].entry = "stands" /\ moves' = moves
      /\ paychecks' = [paychecks EXCEPT ![p].entry = "voided"]
      /\ book' = Adding(book, General, Net) /\ OnlyThePay
  BY DEF VoidPayroll, chain
<1>2. /\ ChainPart' /\ ReadPartOf' /\ StartPart' /\ ItemPart' /\ CheckPart' /\ FundPart'
      /\ Over(InReview, Flow)' = Over(InReview, Flow) /\ opening' = opening
      /\ HandSum' = HandSum /\ HandSum \in Int
  BY <1>1, PayStays
<1>3. paychecks \in [Paycheck -> Settlement]
  BY DEF PayPart
<1>4. /\ paychecks' \in [Paycheck -> Settlement]
      /\ paychecks'[p].entry = "voided" /\ paychecks'[p].status = paychecks[p].status
      /\ paychecks'[p].reference = paychecks[p].reference
      /\ \A q \in Paycheck \ {p} : paychecks'[q] = paychecks[q]
  BY <1>1, <1>3 DEF Settlement
<1>5. Standing' = Standing \ {p} /\ p \in Standing
  BY <1>1, <1>4 DEF Standing
<1>6. /\ IsFiniteSet(Standing \ {p})
      /\ Over(Standing, NetPay) = Over(Standing \ {p}, NetPay) + Net
      /\ Over(Standing \ {p}, NetPay) \in Int
  <2>1. IsFiniteSet(Standing) /\ IntOn(Standing, NetPay) /\ NetPay[p] = Net /\ NetPay[p] \in Int
    BY PaySums DEF PayPart
  <2>. HIDE DEF NetPay, Standing
  <2>. QED  BY <1>5, <2>1, SumBut, FS_Subset
<1>7. PayPart'
  <2>1. Posted'
    BY <1>1, <1>4 DEF PayPart, Posted
  <2>2. \A q \in Paycheck : paychecks'[q].reference = paychecks[q].reference
    BY <1>4
  <2>. QED  BY <1>1, <1>4, <1>5, <1>6, <2>1, <2>2 DEF PayPart
<1>8. BookPart' /\ Over(Side, book)' = Over(Side, book) + Net /\ Net \in Int
  <2>1. General \in Side /\ Net \in Int
    BY PaycheckAssumption DEF Side
  <2>. QED  BY <1>1, <2>1, BookAdds
<1>9. BookAddsUp'
  <2>1. Over(Standing, NetPay)' = Over(Standing \ {p}, NetPay)
    BY <1>5 DEF NetPay
  <2>2. Over(InReview, Flow) \in Int /\ opening \in Int
    BY ReviewSums DEF StartPart
  <2>. QED  BY <1>2, <1>6, <1>8, <2>1, <2>2 DEF BookAddsUp
<1>. QED  BY <1>2, <1>7, <1>8, <1>9, ShieldPartsNext

\* What a queue writes about a payment: its status and the movement it is.
LEMMA SettleKeeps ==
  ASSUME ShieldInv, NEW p \in Paycheck, paychecks[p].status # "none",
         NEW status \in {"pending", "settled", "failed"}, NEW id \in Id' \cup {0},
         Settle(p, status, id), id # 0 => moves'[id].pays = p,
         Len(moves') \in Nat, Len(moves) <= Len(moves'), Len(moves') <= MaxMoves,
         \A i \in Id : moves'[i] = moves[i]
  PROVE  PayPart' /\ Over(Standing, NetPay)' = Over(Standing, NetPay)
<1>. USE ShieldParts
<1>1. paychecks \in [Paycheck -> Settlement] /\ Id = 1..Len(moves) /\ Len(moves) \in Nat
  BY ReviewSums DEF PayPart
<1>2. id \in 0..MaxMoves /\ id \in Nat /\ id <= Len(moves')
  BY BoundsAssumption DEF Id
<1>3. /\ paychecks' \in [Paycheck -> Settlement]
      /\ paychecks'[p].status = status /\ paychecks'[p].entry = paychecks[p].entry
      /\ paychecks'[p].reference = id
      /\ \A q \in Paycheck \ {p} : paychecks'[q] = paychecks[q]
  BY <1>1, <1>2 DEF Settle, Settlement
<1>4. Standing' = Standing
  BY <1>3 DEF Standing
<1>5. \A q \in Paycheck : paychecks[q].reference \in Nat /\ paychecks[q].reference <= Len(moves)
  BY <1>1 DEF PayPart, Posted, Settlement
<1>6. \A q \in Paycheck : paychecks'[q].reference > 0 =>
        moves'[paychecks'[q].reference].pays = q
  <2>. TAKE q \in Paycheck
  <2>1. CASE q = p
    BY <1>2, <1>3, <2>1
  <2>2. CASE q # p
    <3>. SUFFICES ASSUME paychecks'[q].reference > 0
                  PROVE  moves'[paychecks'[q].reference].pays = q
      OBVIOUS
    <3>1. paychecks'[q] = paychecks[q] /\ paychecks[q].reference \in Id
      BY <1>1, <1>3, <1>5, <2>2
    <3>. QED  BY <1>1, <3>1 DEF PayPart
  <2>. QED  BY <2>1, <2>2
<1>7. Posted'
  <2>1. ASSUME NEW q \in Paycheck
        PROVE  /\ paychecks'[q].status = "none" <=> paychecks'[q].entry = "none"
               /\ paychecks'[q].status = "none" => paychecks'[q].reference = 0
               /\ paychecks'[q].reference <= Len(moves')
    <3>1. CASE q = p
      BY <1>2, <1>3, <3>1 DEF PayPart, Posted
    <3>2. CASE q # p
      BY <1>1, <1>3, <1>5, <3>2 DEF PayPart, Posted
    <3>. QED  BY <3>1, <3>2
  <2>. QED  BY <2>1 DEF Posted
<1>8. PayPart'
  BY <1>3, <1>4, <1>6, <1>7 DEF PayPart
<1>. QED  BY <1>4, <1>8 DEF NetPay

LEMMA PaymentLandsKeeps ==
  ASSUME ShieldInv, NEW p \in Paycheck, PaymentLands(p)
  PROVE  ShieldInv'
<1>. USE ShieldParts
<1>. DEFINE m == Payment(p)
<1>1. m \in Moved /\ m.pays = p /\ Accepts(m) /\ paychecks[p].status # "none"
  BY DEF PaymentLands, Moved, Payment
<1>2. UNCHANGED <<read, start, opening, review, funds, transfers, others, book>>
  BY DEF PaymentLands, OnlyThePay, ownEntries
<1>. HIDE DEF m
<1>3. /\ ChainPart' /\ ReadPartOf' /\ StartPart' /\ ItemPart' /\ CheckPart' /\ FundPart'
      /\ BookPart'
      /\ UNCHANGED paychecks => PayPart' /\ BookAddsUp'
      /\ Over(InReview, Flow)' = Over(InReview, Flow)
  BY <1>1, <1>2, ChainGrows
<1>4. CASE UNCHANGED paychecks
  BY <1>3, <1>4, ShieldPartsNext
<1>5. CASE ~UNCHANGED paychecks
  <2>1. Settle(p, "pending", Len(moves) + 1)
    BY <1>5 DEF PaymentLands
  <2>2. moves' = Append(moves, m) /\ Len(moves) < MaxMoves
    BY <1>1 DEF Accepts
  <2>3. /\ Len(moves') = Len(moves) + 1 /\ Len(moves) \in Nat
        /\ Id' = 1..(Len(moves) + 1)
        /\ \A i \in Id : i \in Id' /\ moves'[i] = moves[i]
        /\ moves'[Len(moves) + 1] = m
    BY <1>1, <2>2, OneMoved, MovesAre DEF ShieldInv
  <2>4. Len(moves) + 1 \in Id' /\ Len(moves) + 1 # 0 /\ Len(moves') \in Nat
        /\ Len(moves) <= Len(moves') /\ Len(moves') <= MaxMoves
    BY <2>2, <2>3, BoundsAssumption
  <2>5. PayPart' /\ Over(Standing, NetPay)' = Over(Standing, NetPay)
    BY <1>1, <2>1, <2>3, <2>4, SettleKeeps
  <2>6. BookAddsUp'
    BY <1>2, <1>3, <2>5, HandStays DEF BookAddsUp, Side
  <2>. QED  BY <1>3, <2>5, <2>6, ShieldPartsNext
<1>. QED  BY <1>4, <1>5

LEMMA PaymentEndsKeeps ==
  ASSUME ShieldInv, NEW p \in Paycheck, PaymentEnds(p)
  PROVE  ShieldInv'
<1>. USE ShieldParts
<1>1. moves' = moves /\ book' = book /\ OnlyThePay
  BY DEF PaymentEnds, chain
<1>2. /\ ChainPart' /\ ReadPartOf' /\ StartPart' /\ ItemPart' /\ CheckPart' /\ FundPart'
      /\ Over(InReview, Flow)' = Over(InReview, Flow) /\ opening' = opening
      /\ HandSum' = HandSum /\ HandSum \in Int
  BY <1>1, PayStays
<1>3. \E status \in {"pending", "settled", "failed"}, id \in Id' \cup {0} :
        /\ Settle(p, status, id)
        /\ id # 0 => moves'[id].pays = p
        /\ paychecks[p].status # "none"
  <2>1. Id' = Id /\ 0 \notin Id
    BY <1>1 DEF Id
  <2>2. CASE \E i \in Id, status \in {"pending", "settled"} :
               moves[i].pays = p /\ Settle(p, status, i)
    <3>1. CASE paychecks[p].status \in {"pending", "failed"}
      <4>1. PICK i \in Id, status \in {"pending", "settled"} :
              moves[i].pays = p /\ Settle(p, status, i)
        BY <2>2
      <4>2. i \in Id' \cup {0} /\ moves'[i].pays = p /\ paychecks[p].status # "none"
            /\ status \in {"pending", "settled", "failed"}
        BY <1>1, <2>1, <3>1, <4>1
      <4>. QED  BY <4>1, <4>2
    <3>2. CASE paychecks[p].status \notin {"pending", "failed"}
      BY <3>2 DEF PaymentEnds
    <3>. QED  BY <3>1, <3>2
  <2>3. CASE paychecks[p].status = "pending" /\ Settle(p, "failed", 0)
    BY <2>3
  <2>. QED  BY <2>2, <2>3 DEF PaymentEnds
<1>4. PICK status \in {"pending", "settled", "failed"}, id \in Id' \cup {0} :
        /\ Settle(p, status, id)
        /\ id # 0 => moves'[id].pays = p
        /\ paychecks[p].status # "none"
  BY <1>3
<1>5. /\ Len(moves') \in Nat /\ Len(moves) <= Len(moves') /\ Len(moves') <= MaxMoves
      /\ \A i \in Id : moves'[i] = moves[i]
  BY <1>1, ReviewSums DEF ChainPart
<1>6. PayPart' /\ Over(Standing, NetPay)' = Over(Standing, NetPay)
  BY <1>4, <1>5, SettleKeeps
<1>7. BookPart' /\ Over(Side, book)' = Over(Side, book)
  BY <1>1, PartsStay
<1>8. BookAddsUp'
  BY <1>2, <1>6, <1>7 DEF BookAddsUp
<1>. QED  BY <1>2, <1>6, <1>7, <1>8, ShieldPartsNext

LEMMA ShieldNextKeeps ==
  ASSUME ShieldInv, [ShieldNext]_shieldVars
  PROVE  ShieldInv'
<1>1. CASE UNCHANGED shieldVars
  <2>1. UNCHANGED <<moves, read, start, opening, items, checks, checked, paychecks, funds,
                    transfers, others, book>>
    BY <1>1 DEF shieldVars, review, ownEntries
  <2>2. BookAddsUp'
    BY <2>1, PartsStay, ShieldParts DEF BookAddsUp
  <2>. QED  BY <2>1, <2>2, PartsStay, ShieldPartsNext
<1>2. CASE ReviewNext
  BY <1>2, CheckKeeps, AddReviewItemsKeeps, ExcludeKeeps, UndoKeeps, AcceptKeeps, ChangeKeeps
     DEF ReviewNext
<1>3. CASE PayNext
  BY <1>3, PostRunKeeps, PaymentLandsKeeps, PaymentEndsKeeps, VoidPayrollKeeps DEF PayNext
<1>4. CASE FundNext
  BY <1>4, FundNextKeeps
<1>5. CASE ShieldNext /\ ~ReviewNext /\ ~PayNext /\ ~FundNext
  BY <1>5, MoveKeeps, ReadPartKeeps, StartBooksKeeps, VoidOpeningKeeps, VoidTransferKeeps,
     PostOtherKeeps, VoidOtherKeeps
     DEF ShieldNext
<1>. QED  BY <1>1, <1>2, <1>3, <1>4, <1>5

THEOREM ShieldInvariant == ShieldSpec => []ShieldInv
<1>1. ShieldInit => ShieldInv
  BY ShieldInitOK
<1>2. ShieldInv /\ [ShieldNext]_shieldVars => ShieldInv'
  BY ShieldNextKeeps
<1>. QED  BY <1>1, <1>2, PTL DEF ShieldSpec

\* Everything has the type it should, whatever the order of movements, answers and runs.
THEOREM ShieldTypes == ShieldSpec => []ShieldTypeOK
<1>1. ShieldInv => ShieldTypeOK
  BY DEF ShieldInv
<1>. QED  BY <1>1, ShieldInvariant, PTL

-----------------------------------------------------------------------------
(* MatchesShield, from ShieldInv: what moved since the start is what was   *)
(* accepted, what runs paid, and what adds nothing.                        *)

\* What each movement added to the account, both parts together: in minor units, in whole
\* cents, and what is beyond them.
InMinor == [i \in Id |-> Raw(moves[i])]
InAll   == [i \in Id |-> IF moves[i].kind = "inside" THEN 0 ELSE Signed(moves[i])]
InParts == [i \in Id |-> Beyond(moves[i])]

Since == (start + 1)..Len(moves)

LEMMA SinceStart ==
  ASSUME ShieldInv, start # None
  PROVE  /\ start \in 0..Len(moves) /\ Len(moves) \in Nat
         /\ Since \subseteq Id /\ IsFiniteSet(Since)
         /\ IntOn(Since, InAll) /\ IntOn(Since, InMinor)
         /\ HoldingsAt(start) \in Int
         /\ HoldingsAt(Len(moves)) = HoldingsAt(start) + Over(Since, InMinor)
<1>. USE ShieldParts
<1>. DEFINE L == Len(moves)
            All == 1..L
            Early == 1..start
            f == Drift("public")
            g == Drift("private")
<1>1. L \in Nat /\ Id = All /\ IsFiniteSet(All)
  BY ReviewSums
<1>2. start \in 0..L /\ start \in Nat /\ start <= L
  BY <1>1 DEF StartPart
<1>3. Early \subseteq All /\ Since = All \ Early /\ IsFiniteSet(Since)
  <2>1. Early \subseteq All /\ Since = All \ Early
    BY <1>1, <1>2 DEF Since
  <2>. QED  BY <1>1, <2>1, FS_Subset
<1>4. /\ HeldIn("public", L) = Held["public"] + Over(All, f)
      /\ HeldIn("private", L) = Held["private"] + Over(All, g)
      /\ HeldIn("public", start) = Held["public"] + Over(Early, f)
      /\ HeldIn("private", start) = Held["private"] + Over(Early, g)
      /\ Held["public"] \in Nat /\ Held["private"] \in Nat
      /\ Over(Early, f) \in Int /\ Over(Early, g) \in Int
      /\ IntOn(All, f) /\ IntOn(All, g)
  <2>1. ShieldTypeOK /\ "public" \in Part /\ "private" \in Part /\ L \in 0..Len(moves)
    BY <1>1 DEF ShieldInv, Part
  <2>. QED  BY <1>2, <2>1, HeldIs
<1>5. /\ \A i \in All : InMinor[i] = f[i] + g[i]
      /\ IntOn(All, InMinor) /\ IntOn(All, InAll)
  <2>. SUFFICES ASSUME NEW i \in All
                PROVE  InMinor[i] = f[i] + g[i] /\ InMinor[i] \in Int /\ InAll[i] \in Int
    BY DEF IntOn
  <2>1. i \in Id /\ moves[i] \in Moved
    BY <1>1, ReviewSums
  <2>2. /\ f[i] = Adds(moves[i], "public") /\ g[i] = Adds(moves[i], "private")
        /\ InMinor[i] = Raw(moves[i])
        /\ InAll[i] = IF moves[i].kind = "inside" THEN 0 ELSE Signed(moves[i])
    BY <2>1 DEF Drift, InAll, InMinor
  <2>3. Signed(moves[i]) \in Int
    BY <2>1, MovedIs
  <2>. QED  BY <2>1, <2>2, <2>3, AddsInAll
<1>. HIDE DEF f, g
<1>6. /\ Over(All, f) = Over(Early, f) + Over(All \ Early, f)
      /\ Over(All, g) = Over(Early, g) + Over(All \ Early, g)
  BY ZenonT(40), <1>1, <1>3, <1>4, SumSplit
<1>7. IntOn(Since, f) /\ IntOn(Since, g) /\ IntOn(Since, InMinor) /\ IntOn(Since, InAll)
  BY <1>3, <1>4, <1>5 DEF IntOn
<1>8. Over(Since, f) = Over(Since, InMinor) - Over(Since, g)
  <2>1. \A i \in Since : f[i] = InMinor[i] - g[i]
    <3>. SUFFICES ASSUME NEW i \in Since PROVE f[i] = InMinor[i] - g[i]
      OBVIOUS
    <3>1. i \in All /\ f[i] \in Int /\ g[i] \in Int /\ InMinor[i] = f[i] + g[i]
      BY <1>3, <1>5, <1>7 DEF IntOn
    <3>. QED  BY <3>1
  <2>. HIDE DEF Since, InMinor
  <2>. QED  BY <1>3, <1>7, <2>1, SumDifference
<1>9. Over(Since, g) \in Int /\ Over(Since, InMinor) \in Int
  BY <1>3, <1>7, SumParts
<1>10. /\ HoldingsAt(L) = Held["public"] + Over(All, f) + (Held["private"] + Over(All, g))
       /\ HoldingsAt(start) = Held["public"] + Over(Early, f) + (Held["private"] + Over(Early, g))
  BY <1>4 DEF HoldingsAt
<1>11. HoldingsAt(start) \in Int /\ HoldingsAt(L) = HoldingsAt(start) + Over(Since, InMinor)
  <2>1. Over(All, f) = Over(Early, f) + Over(Since, f) /\ Over(All, g) = Over(Early, g) + Over(Since, g)
    BY <1>3, <1>6
  <2>. HIDE DEF All, Early, L, Since
  <2>. QED  BY <1>4, <1>8, <1>9, <1>10, <2>1
<1>. QED  BY <1>1, <1>2, <1>3, <1>5, <1>7, <1>11

\* The movements since the start that are payments the books name.
Payments == {i \in Since : i \in Recorded}

\* Once everything is answered, each of them is one standing paycheck's.
LEMMA PaymentsArePaid ==
  ASSUME ShieldInv, Answered
  PROVE  /\ \A i \in Payments : InAll[i] = -Net
         /\ Over(Payments, InAll) = -Over(Standing, NetPay)
<1>. USE ShieldParts
<1>1. /\ start \in 0..Len(moves) /\ Len(moves) \in Nat /\ Since \subseteq Id
      /\ IsFiniteSet(Since) /\ start # None
  BY SinceStart DEF Answered
<1>2. \A p \in Paycheck :
        paychecks[p].reference \in Nat /\ paychecks[p].reference <= Len(moves)
  BY DEF PayPart, Posted, Settlement
<1>3. \A p \in Paycheck : paychecks[p].reference > 0 =>
        p \in Standing /\ moves[paychecks[p].reference].pays = p
  BY <1>2 DEF Answered, PaidOnTheBooks, PayPart, Posted, Standing
<1>4. \A p \in Standing : p \in Paycheck /\ paychecks[p].reference \in Payments
  <2>. SUFFICES ASSUME NEW p \in Standing PROVE p \in Paycheck /\ paychecks[p].reference \in Payments
    OBVIOUS
  <2>1. p \in Paycheck /\ paychecks[p].reference > start
    BY DEF Standing, Answered, PaidOnTheBooks, PayPart, Posted
  <2>2. paychecks[p].reference \in Since
    BY <1>1, <1>2, <2>1 DEF Since
  <2>. QED  BY <2>1, <2>2 DEF Payments, Recorded
<1>5. ASSUME NEW i \in Payments
      PROVE  \E p \in Standing : paychecks[p].reference = i /\ moves[i].pays = p
  <2>1. PICK p \in Paycheck : paychecks[p].reference = i
    BY DEF Payments, Recorded
  <2>2. i > 0
    BY <1>1 DEF Payments, Since
  <2>. QED  BY <1>3, <2>1, <2>2
<1>6. ASSUME NEW i \in Payments PROVE InAll[i] = -Net
  <2>1. PICK p \in Standing : paychecks[p].reference = i /\ moves[i].pays = p
    BY <1>5
  <2>2. p \in Paycheck /\ i \in Id
    BY <1>1 DEF Standing, Payments
  <2>3. moves[i] = Payment(p)
    BY <2>1, <2>2, MovedIs, ReviewSums
  <2>4. Net \in Nat
    BY PaycheckAssumption
  <2>. QED  BY <2>2, <2>3, <2>4, WholeCents DEF InAll, Payment, Signed
<1>7. IsFiniteSet(Payments)
  BY <1>1, FS_Subset DEF Payments
<1>. DEFINE key   == [p \in Standing |-> paychecks[p].reference]
            group == [i \in Payments |-> {p \in Standing : paychecks[p].reference = i}]
            sums  == [i \in Payments |-> Over(group[i], NetPay)]
            nil   == [i \in Payments |-> 0]
<1>8. Over(Payments, sums) = Over(Standing, NetPay)
  <2>1. IsFiniteSet(Standing) /\ IntOn(Standing, NetPay)
    BY PaySums DEF PayPart
  <2>2. \A p \in Standing : key[p] \in Payments
    BY <1>4
  <2>3. \A i \in Payments : \A p : p \in group[i] <=> p \in Standing /\ key[p] = i
    OBVIOUS
  <2>4. \A i \in Payments : sums[i] = Over(group[i], NetPay)
    OBVIOUS
  <2>. HIDE DEF key, group, sums, NetPay, Standing, Payments
  <2>. QED  BY <1>7, <2>1, <2>2, <2>3, <2>4, SumGroups
<1>9. ASSUME NEW i \in Payments PROVE sums[i] = Net
  <2>1. PICK p \in Standing : paychecks[p].reference = i /\ moves[i].pays = p
    BY <1>5
  <2>2. i > 0
    BY <1>1 DEF Payments, Since
  <2>3. group[i] = {p}
    BY <1>3, <2>1, <2>2 DEF Standing
  <2>4. NetPay[p] = Net /\ Net \in Int
    BY PaySums DEF Standing
  <2>5. Over({} \cup {p}, NetPay) = Over({}, NetPay) + NetPay[p]
    <3>1. IsFiniteSet({}) /\ IntOn({}, NetPay)
      BY FS_EmptySet DEF IntOn
    <3>. HIDE DEF NetPay
    <3>. QED  BY <2>4, <3>1, SumWith
  <2>6. Over({}, NetPay) = 0
    BY SumNone
  <2>7. Over({p}, NetPay) = Net
    <3>1. {} \cup {p} = {p}
      OBVIOUS
    <3>. HIDE DEF NetPay
    <3>. QED  BY <2>4, <2>5, <2>6, <3>1
  <2>. QED  BY <2>3, <2>7
<1>10. Over(Payments, InAll) = Over(Payments, nil) - Over(Payments, sums)
  <2>1. IntOn(Payments, nil)
    BY DEF IntOn
  <2>2. IntOn(Payments, sums)
    <3>. HIDE DEF sums
    <3>. QED  BY <1>9, PaycheckAssumption DEF IntOn
  <2>3. \A i \in Payments : InAll[i] = nil[i] - sums[i]
    <3>. HIDE DEF sums
    <3>. QED  BY <1>6, <1>9, PaycheckAssumption
  <2>. HIDE DEF nil, sums, InAll, Payments
  <2>. QED  BY <1>7, <2>1, <2>2, <2>3, SumDifference
<1>11. Over(Payments, nil) = 0
  BY <1>7, SumZero
<1>12. Over(Standing, NetPay) \in Int
  BY PaySums
<1>13. Over(Payments, InAll) = -Over(Standing, NetPay)
  <2>. HIDE DEF nil, sums
  <2>. QED  BY <1>8, <1>10, <1>11, <1>12
<1>. QED  BY <1>6, <1>13

\* The movements since the start, in whole cents, are those accepted, the payments, and those
\* booked by hand.
LEMMA SinceIsBooked ==
  ASSUME ShieldInv, Answered
  PROVE  Over(Since, InAll) = HandSum + Over(InReview, Flow) - Over(Standing, NetPay)
<1>. USE ShieldParts
<1>1. /\ start \in 0..Len(moves) /\ Len(moves) \in Nat /\ Since \subseteq Id
      /\ IsFiniteSet(Since) /\ start # None /\ IntOn(Since, InAll) /\ Id = 1..Len(moves)
  BY SinceStart, ReviewSums DEF Answered
<1>2. \A i \in InReview : /\ i \in Since /\ i \in Id /\ i \notin Recorded
                          /\ InAll[i] = Flow[i]
  <2>. SUFFICES ASSUME NEW i \in InReview
                PROVE  /\ i \in Since /\ i \in Id /\ i \notin Recorded
                       /\ InAll[i] = Flow[i]
    OBVIOUS
  <2>1. i \in DOMAIN items /\ i \in Later /\ i \in Id /\ items[i].status = "accepted"
    BY DEF InReview, ItemPart, Later
  <2>2. moves[i].kind # "inside"
    BY <2>1 DEF ItemPart, Answerable
  <2>3. i > start /\ Accepted(i)
    BY <2>1 DEF Later, Accepted, Known
  <2>4. i \in Since
    BY <1>1, <2>1, <2>3 DEF Since, Id
  <2>5. i \notin Recorded
    BY <2>3 DEF Answered
  <2>. QED  BY <2>1, <2>2, <2>4, <2>5 DEF InAll, Flow
<1>. DEFINE Rest  == (Since \ InReview) \ Payments
            Still == Rest \ ByHand
<1>3. ByHand \subseteq Rest
  <2>. SUFFICES ASSUME NEW i \in ByHand PROVE i \in Rest
    OBVIOUS
  <2>1. i \in Id /\ i > start /\ i \notin Recorded /\ ~Accepted(i)
    BY DEF ByHand
  <2>2. i \in Since
    BY <1>1, <2>1 DEF Since
  <2>. QED  BY <2>1, <2>2 DEF Payments, InReview, Accepted, Known
<1>4. \A i \in Still : InAll[i] = 0
  <2>. SUFFICES ASSUME NEW i \in Still PROVE InAll[i] = 0
    OBVIOUS
  <2>1. i \in Id /\ i > start /\ i \notin Recorded /\ ~Accepted(i)
    BY <1>1 DEF Since, Payments, InReview, Accepted, Known
  <2>2. moves[i].kind = "inside"
    BY <2>1 DEF ByHand
  <2>. QED  BY <2>1, <2>2 DEF InAll
<1>5. /\ InReview \subseteq Since /\ Payments \subseteq Since \ InReview
      /\ IntOn(Since \ InReview, InAll) /\ IntOn(Rest, InAll)
      /\ IsFiniteSet(Since \ InReview) /\ IsFiniteSet(Rest) /\ IsFiniteSet(Still)
  <2>1. InReview \subseteq Since /\ Payments \subseteq Since \ InReview
    BY <1>2 DEF Payments
  <2>2. IntOn(Since \ InReview, InAll) /\ IntOn(Rest, InAll)
    BY <1>1 DEF IntOn
  <2>3. IsFiniteSet(Since \ InReview)
    BY <1>1, FS_Subset
  <2>4. IsFiniteSet(Rest)
    BY <2>3, FS_Subset
  <2>5. IsFiniteSet(Still)
    BY <2>4, FS_Subset
  <2>. QED  BY <2>1, <2>2, <2>3, <2>4, <2>5
<1>6. Over(Since, InAll) = Over(InReview, InAll) + Over(Since \ InReview, InAll)
  BY <1>1, <1>5, SumSplit
<1>7. Over(Since \ InReview, InAll) = Over(Payments, InAll) + Over(Rest, InAll)
  BY <1>5, SumSplit
<1>8. Over(Rest, InAll) = Over(ByHand, InAll) + Over(Still, InAll)
  BY <1>3, <1>5, SumSplit
<1>9. Over(Still, InAll) = 0
  BY <1>4, <1>5, SumZero
<1>10. Over(InReview, InAll) = Over(InReview, Flow)
  BY <1>2, SumSame
<1>11. Over(ByHand, InAll) = HandSum
  <2>1. \A i \in ByHand : InAll[i] = Signed(moves[i])
    BY DEF ByHand, InAll
  <2>2. [i \in ByHand |-> InAll[i]] = [i \in ByHand |-> Signed(moves[i])]
    BY <2>1
  <2>3. [n \in HandBooked |-> HandFlow[n]] = [n \in HandBooked |-> others[n].cents]
    BY DEF HandFlow, HandBooked
  <2>. QED  BY <2>2, <2>3 DEF Answered, HandSum, Over
<1>12. Over(Payments, InAll) = -Over(Standing, NetPay)
  BY PaymentsArePaid
<1>13. Over(InReview, Flow) \in Int /\ Over(Standing, NetPay) \in Int /\ HandSum \in Int
  BY ReviewSums, PaySums, HandSums
<1>. HIDE DEF Rest, Still
<1>. QED  BY <1>6, <1>7, <1>8, <1>9, <1>10, <1>11, <1>12, <1>13

\* What moved since the start, in minor units, is its whole cents and what is beyond them.
LEMMA MinorIsCents ==
  ASSUME ShieldInv, start # None
  PROVE  /\ Over(Since, InMinor) = Cent * Over(Since, InAll) + Over(Since, InParts)
         /\ Over(Since, InMinor) \in Int /\ Over(Since, InAll) \in Int
         /\ Over(Since, InParts) \in Int
<1>. USE ShieldParts
<1>1. /\ Since \subseteq Id /\ IsFiniteSet(Since)
      /\ IntOn(Since, InAll) /\ IntOn(Since, InMinor)
  BY SinceStart
<1>. DEFINE whole == [i \in Since |-> Cent * InAll[i]]
<1>2. Cent \in Int
  BY CentAssumption
<1>3. ASSUME NEW i \in Since
      PROVE  /\ whole[i] = Cent * InAll[i] /\ whole[i] \in Int
             /\ InParts[i] = InMinor[i] - whole[i]
  <2>1. i \in Id /\ moves[i] \in Moved
    BY <1>1, ReviewSums
  <2>2. /\ InMinor[i] = Raw(moves[i]) /\ InParts[i] = Beyond(moves[i])
        /\ InAll[i] = IF moves[i].kind = "inside" THEN 0 ELSE Signed(moves[i])
    BY <2>1 DEF InMinor, InParts, InAll
  <2>3. InAll[i] \in Int
    BY <1>1 DEF IntOn
  <2>4. Raw(moves[i]) = Cent * InAll[i] + Beyond(moves[i])
        /\ Raw(moves[i]) \in Int /\ Beyond(moves[i]) \in Int
    BY <2>1, <2>2, AddsInAll
  <2>5. Cent * InAll[i] \in Int
    BY <1>2, <2>3
  <2>. QED  BY <2>2, <2>4, <2>5
<1>4. IntOn(Since, whole)
  <2>. HIDE DEF whole
  <2>. QED  BY <1>3 DEF IntOn
<1>. HIDE DEF whole, InParts, InAll, InMinor, Since
<1>5. Over(Since, whole) = Cent * Over(Since, InAll)
  BY <1>1, <1>2, <1>3, SumTimes
<1>6. Over(Since, InParts) = Over(Since, InMinor) - Over(Since, whole)
  BY <1>1, <1>3, <1>4, SumDifference
<1>7. Over(Since, InMinor) \in Int /\ Over(Since, InAll) \in Int /\ Over(Since, whole) \in Int
  BY <1>1, <1>4, SumParts
<1>. QED  BY <1>5, <1>6, <1>7

LEMMA InvMatchesShield ==
  ASSUME ShieldInv
  PROVE  MatchesShield
<1>. USE ShieldParts
<1>. SUFFICES ASSUME Answered
              PROVE  Cent * (TotalShown + InClosed) + LeftOut = HoldingsAt(Len(moves))
  BY DEF MatchesShield
<1>. DEFINE held == HoldingsAt(start)
            odd  == held % Cent
<1>1. /\ held \in Int /\ start # None /\ start \in 0..Len(moves) /\ Len(moves) \in Nat
      /\ HoldingsAt(Len(moves)) = held + Over(Since, InMinor)
  BY SinceStart DEF Answered
<1>2. /\ Over(Since, InMinor) = Cent * Over(Since, InAll) + Over(Since, InParts)
      /\ Over(Since, InAll) \in Int /\ Over(Since, InParts) \in Int
  BY <1>1, MinorIsCents
<1>3. opening \in Int /\ odd \in Int /\ held = Cent * opening + odd /\ Cent \in Int
  <2>1. opening = minorToCents(held)
    BY DEF Answered
  <2>2. minorToCents(held) \in Int /\ odd \in 0..(Cent - 1) /\ held = Cent * minorToCents(held) + odd
    BY <1>1, CentsIn
  <2>. HIDE DEF held, odd
  <2>. QED  BY <2>1, <2>2, CentAssumption
<1>4. Over(Side, book) = opening + Over(Since, InAll)
  <2>1. Over(InReview, Flow) \in Int /\ Over(Standing, NetPay) \in Int /\ HandSum \in Int
    BY ReviewSums, PaySums, HandSums
  <2>. QED  BY <1>3, <2>1, SinceIsBooked DEF BookAddsUp
<1>5. TotalShown + InClosed = Over(Side, book)
  <2>1. IsFiniteSet(Side) /\ IntOn(Side, book) /\ Sides \subseteq Side
    BY FundAssumption, FS_AddElement DEF Side, Sides, BookPart, IntOn
  <2>2. Over(Side, book) = Over(Sides, book) + Over(Side \ Sides, book)
    BY <2>1, SumSplit
  <2>. QED  BY <2>2 DEF TotalShown, InClosed, Over
<1>6. LeftOut = odd + Over(Since, InParts)
  <2>1. {j \in Id : j > start} = Since
    BY <1>1, ReviewSums DEF Since
  <2>2. \A i \in Since : i \in Id
    BY <2>1
  <2>3. [i \in Since |-> Beyond(moves[i])] = [i \in Since |-> InParts[i]]
    BY <2>2 DEF InParts
  <2>. QED  BY <2>1, <2>3 DEF LeftOut, Over
<1>. HIDE DEF held, odd
<1>7. Cent * (opening + Over(Since, InAll)) = Cent * opening + Cent * Over(Since, InAll)
      /\ Cent * opening \in Int /\ Cent * Over(Since, InAll) \in Int
  BY <1>2, <1>3
<1>8. Cent * (TotalShown + InClosed) = Cent * opening + Cent * Over(Since, InAll)
  BY <1>4, <1>5, <1>7
<1>. DEFINE a == Cent * opening
            b == Cent * Over(Since, InAll)
            c == Over(Since, InParts)
<1>9. /\ a \in Int /\ b \in Int /\ c \in Int /\ odd \in Int
      /\ Cent * (TotalShown + InClosed) = a + b /\ LeftOut = odd + c
      /\ HoldingsAt(Len(moves)) = held + (b + c) /\ held = a + odd
  BY <1>1, <1>2, <1>3, <1>6, <1>7, <1>8
<1>. HIDE DEF a, b, c
<1>10. Cent * (TotalShown + InClosed) + LeftOut = (a + b) + (odd + c)
       /\ HoldingsAt(Len(moves)) = (a + odd) + (b + c)
  BY <1>9
<1>. QED  BY <1>9, <1>10

\* Once everything that moved is answered, the books hold what the account does, but for what
\* closed set-asides got back and the fractions of a cent left out.
THEOREM BooksMatchShield == ShieldSpec => []MatchesShield
<1>1. ShieldInv => MatchesShield
  BY InvMatchesShield
<1>. QED  BY <1>1, ShieldInvariant, PTL

=============================================================================
