------------------------------- MODULE Shield --------------------------------
(***************************************************************************)
(* The money in the linked Shield account, on the chain and in the books:  *)
(* the start of the books from its balance (chain/AccountBalances.tsx,     *)
(* books/opening.ts), the "For review" list of what moved since            *)
(* (chain/review_feed.ts, ReviewPanel.tsx, books/review.ts), set-asides    *)
(* (books/funds.ts, SetAsides.tsx), and the pay runs paid from it, as far  *)
(* as their entries and payment ids are concerned.                         *)
(*                                                                         *)
(* A movement's id is its place among the account's movements, and stands  *)
(* for the time it was accepted at, too.  The chain moves minor units, the *)
(* books keep whole cents.  The other side of an entry, names, tags and    *)
(* memos are left out, and so are closed months (see Sales) and changes to *)
(* the Shield account itself on the chart of accounts.                     *)
(***************************************************************************)
EXTENDS Integers, Sequences, FiniteSets, Functions

CONSTANTS
  Movement,     \* what can move that no pay run causes
  Paycheck,
  Net,          \* cents a paycheck pays
  Cent,         \* MINOR_PER_CENT
  Fund,
  Held,         \* part of the account -> minor units it holds at first
  None,         \* no paycheck, no side, nothing read, not started
  MaxMoves, MaxChecks, MaxTransfers, MaxOthers   \* bounds

Part == {"public", "private"}
Kind == {"in", "out", "inside"}

ASSUME MovementAssumption ==
  Movement \subseteq [kind : Kind, part : Part, minor : Nat \ {0}, pays : {None}]
ASSUME PaycheckAssumption == None \notin Paycheck \cup Nat /\ Net \in Nat \ {0}
ASSUME CentAssumption == Cent \in Nat \ {0}
ASSUME HeldAssumption == Held \in [Part -> Nat]
ASSUME BoundsAssumption ==
  MaxMoves \in Nat /\ MaxChecks \in Nat /\ MaxTransfers \in Nat /\ MaxOthers \in Nat

General == "General"
ASSUME FundAssumption ==
  IsFiniteSet(Fund) /\ General \notin Fund /\ None \notin Fund \cup {General}

VARIABLES
  moves,      \* the chain: the account's accepted movements, oldest first
  read,       \* part -> how many movements its balance was read after, or None; until the start
  start,      \* rail.start: how many movements lie before it, or None
  opening,    \* cents of the opening entry, while it stands
  items,      \* the review list: id -> item
  checks,     \* what checks on their way have found
  checked,    \* how many checks were started
  paychecks,  \* settlement of each paycheck, and what became of its entry
  funds,      \* which set-asides were opened, and closed
  transfers,  \* entries between General and a set-aside
  others,     \* entries posted on other pages: bills paid, payments received, journal entries
  book        \* balance of General and of each set-aside in the books

chain      == <<moves>>
review     == <<items, checks, checked>>
ownEntries == <<transfers, others>>
shieldVars == <<moves, read, start, opening, review, paychecks, funds, ownEntries, book>>

Id   == 1..Len(moves)
Side == Fund \cup {General}

Payment(p) == [kind |-> "out", part |-> "private", minor |-> Net * Cent, pays |-> p]

Item == [status : {"new", "accepted", "excluded", "recorded", "internal"},
         side : Side \cup {None}]

Settlement == [status : {"none", "pending", "settled", "failed"},
               reference : 0..MaxMoves, entry : {"none", "stands", "voided"}]

\* cents > 0: into the set-aside.
Transfer == [fund : Fund, cents : Int, voided : BOOLEAN]
Other    == [side : Side, cents : Int, voided : BOOLEAN]

ShieldTypeOK ==
  /\ moves \in Seq(Movement \cup {Payment(p) : p \in Paycheck}) /\ Len(moves) <= MaxMoves
  /\ read \in [Part -> Id \cup {0, None}]
  /\ start \in Id \cup {0, None}
  /\ opening \in Nat
  /\ DOMAIN items \subseteq {i \in Id : start # None /\ i > start}
  /\ \A i \in DOMAIN items :
       /\ items[i] \in Item
       /\ items[i].status = "accepted" <=> items[i].side # None
  /\ checks \subseteq SUBSET Id /\ checked \in 0..MaxChecks
  /\ paychecks \in [Paycheck -> Settlement]
  /\ \A p \in Paycheck : paychecks[p].reference > 0 => moves[paychecks[p].reference].pays = p
  /\ funds \in [Fund -> {"none", "open", "closed"}]
  /\ transfers \in Seq(Transfer) /\ Len(transfers) <= MaxTransfers
  /\ others \in Seq(Other) /\ Len(others) <= MaxOthers
  /\ book \in [Side -> Int]

ShieldInit ==
  /\ moves = <<>>
  /\ read = [part \in Part |-> None] /\ start = None /\ opening = 0
  /\ items = <<>> /\ checks = {} /\ checked = 0
  /\ paychecks = [p \in Paycheck |-> [status |-> "none", reference |-> 0, entry |-> "none"]]
  /\ funds = [f \in Fund |-> "none"] /\ transfers = <<>> /\ others = <<>>
  /\ book = [s \in Side |-> 0]

-----------------------------------------------------------------------------
(* The chain.                                                              *)

\* What movement m adds to a part of the account; "inside" moves from its part to the other.
Adds(m, part) ==
  CASE m.kind = "in"  -> IF m.part = part THEN m.minor ELSE 0
    [] m.kind = "out" -> IF m.part = part THEN -m.minor ELSE 0
    [] m.kind = "inside" -> IF m.part = part THEN -m.minor ELSE m.minor

\* A part's balance after the first n movements.
HeldIn(part, n) == Held[part] + SumFunction([i \in 1..n |-> Adds(moves[i], part)])

HoldingsAt(n) == HeldIn("public", n) + HeldIn("private", n)

Accepts(m) ==
  /\ Len(moves) < MaxMoves
  /\ HeldIn(m.part, Len(moves)) + Adds(m, m.part) >= 0
  /\ moves' = Append(moves, m)

Move(m) ==
  /\ Accepts(m)
  /\ UNCHANGED <<read, start, opening, review, paychecks, funds, ownEntries, book>>

-----------------------------------------------------------------------------
(* Entries.                                                                *)

minorToCents(minor) == minor \div Cent

\* Money in debits the side of the Shield account it went into, in whole cents.
Signed(m) == IF m.kind = "in" THEN minorToCents(m.minor) ELSE -minorToCents(m.minor)

Adding(b, s, cents) == [b EXCEPT ![s] = @ + cents]

Shifted(b, f, cents) == Adding(Adding(b, f, cents), General, -cents)

-----------------------------------------------------------------------------
(* The start (AccountBalances).                                            *)

\* The two parts are read apart from each other, and again on Refresh.
ReadPart(part) ==
  /\ start = None
  /\ read' = [read EXCEPT ![part] = Len(moves)]
  /\ UNCHANGED <<chain, start, opening, review, paychecks, funds, ownEntries, book>>

BalanceRead == HeldIn("public", read["public"]) + HeldIn("private", read["private"])

\* startFromShield, with the balance as it was read and the time of the press.
StartBooks ==
  /\ start = None
  /\ \A part \in Part : read[part] # None
  /\ start' = Len(moves)
  /\ read' = [part \in Part |-> None]
  /\ opening' = minorToCents(BalanceRead)
  /\ book' = Adding(book, General, opening')
  /\ UNCHANGED <<chain, review, paychecks, funds, ownEntries>>

-----------------------------------------------------------------------------
(* For review.                                                             *)

Known == DOMAIN items

\* Movements since the start that the list does not have yet.
ToRead == {i \in Id : i > start} \ Known

\* findMovements: some may not be readable yet.  It starts from the list as it is now.
Check ==
  /\ start # None /\ checked < MaxChecks
  /\ \E found \in SUBSET ToRead \ {{}} : checks' = checks \cup {found}
  /\ checked' = checked + 1
  /\ UNCHANGED <<chain, read, start, opening, items, paychecks, funds, ownEntries, book>>

\* recordedIds: payments the books name.
Recorded == {paychecks[p].reference : p \in Paycheck}

\* classify, and what addReviewItems makes of it.
Listed(i) ==
  [status |-> CASE moves[i].kind = "inside" -> "internal"
                [] moves[i].kind # "inside" /\ i \in Recorded -> "recorded"
                [] OTHER -> "new",
   side |-> None]

\* Mutant: what is listed already is listed again.
AddsAgain(found) == found

\* Ones already listed are left alone.
Fresh(found) == found \ Known

\* addReviewItems.
AddReviewItems(found) ==
  /\ found \in checks
  /\ checks' = checks \ {found}
  /\ items' = [i \in Known \cup Fresh(found) |-> IF i \in Fresh(found) THEN Listed(i) ELSE items[i]]
  /\ UNCHANGED <<chain, read, start, opening, checked, paychecks, funds, ownEntries, book>>

SetItem(i, status, side) == items' = [items EXCEPT ![i] = [status |-> status, side |-> side]]

OnlyTheItem == UNCHANGED <<chain, read, start, opening, checks, checked, paychecks, funds, ownEntries>>

\* General, and the set-asides that are open: postEntry refuses an inactive account.
Sides == {General} \cup {f \in Fund : funds[f] = "open"}

\* acceptItem.
Accept(i, s) ==
  /\ items[i].status = "new"
  /\ minorToCents(moves[i].minor) > 0
  /\ s \in Sides
  /\ SetItem(i, "accepted", s)
  /\ book' = Adding(book, s, Signed(moves[i]))
  /\ OnlyTheItem

\* excludeItem.
Exclude(i) ==
  /\ items[i].status = "new"
  /\ SetItem(i, "excluded", None)
  /\ UNCHANGED book
  /\ OnlyTheItem

\* The books with an accepted item's entry reversed, on a closed set-aside too.
Undone(i) ==
  IF items[i].status = "accepted" THEN Adding(book, items[i].side, -Signed(moves[i])) ELSE book

\* undoReview.
Undo(i) ==
  /\ items[i].status \in {"accepted", "excluded"}
  /\ SetItem(i, "new", None)
  /\ book' = Undone(i)
  /\ OnlyTheItem

\* changeItem.
Change(i, s) ==
  /\ items[i].status = "accepted"
  /\ s \in Sides
  /\ SetItem(i, "accepted", s)
  /\ book' = Adding(Undone(i), s, Signed(moves[i]))
  /\ OnlyTheItem

-----------------------------------------------------------------------------
(* Set-asides.                                                             *)

OnlyTheFunds == UNCHANGED <<chain, read, start, opening, review, paychecks, others>>

\* moveFund: cents into f, or out of it when negative, never below zero.
Movable(f, cents) == IF cents > 0 THEN cents <= book[General] ELSE -cents <= book[f]

Transferred(f, cents) ==
  /\ Len(transfers) < MaxTransfers
  /\ transfers' = Append(transfers, [fund |-> f, cents |-> cents, voided |-> FALSE])
  /\ book' = Shifted(book, f, cents)

MoveFund(f, cents) ==
  /\ funds[f] = "open" /\ cents # 0
  /\ Movable(f, cents)
  /\ Transferred(f, cents)
  /\ UNCHANGED funds
  /\ OnlyTheFunds

\* createFund; the first transfer into it is MoveFund.
CreateFund(f) ==
  /\ funds[f] = "none"
  /\ funds' = [funds EXCEPT ![f] = "open"]
  /\ UNCHANGED <<transfers, book>>
  /\ OnlyTheFunds

\* closeFund: what it holds goes back to General first.
CloseFund(f) ==
  /\ funds[f] = "open" /\ book[f] >= 0
  /\ IF book[f] > 0 THEN Transferred(f, -book[f]) ELSE UNCHANGED <<transfers, book>>
  /\ funds' = [funds EXCEPT ![f] = "closed"]
  /\ OnlyTheFunds

OnlyTheOthers == UNCHANGED <<chain, read, start, opening, review, paychecks, funds, transfers>>

\* A bill paid, a payment received or a journal entry on a side of the Shield account.
PostOther(s, cents) ==
  /\ s \in Sides /\ cents # 0
  /\ Len(others) < MaxOthers
  /\ others' = Append(others, [side |-> s, cents |-> cents, voided |-> FALSE])
  /\ book' = Adding(book, s, cents)
  /\ OnlyTheOthers

-----------------------------------------------------------------------------
(* Voiding on the Transactions page, of entries no form and no review owns. *)

VoidTransfer(n) ==
  /\ ~transfers[n].voided
  /\ transfers' = [transfers EXCEPT ![n].voided = TRUE]
  /\ book' = Shifted(book, transfers[n].fund, -transfers[n].cents)
  /\ UNCHANGED funds
  /\ OnlyTheFunds

VoidOpening ==
  /\ opening > 0
  /\ opening' = 0
  /\ book' = Adding(book, General, -opening)
  /\ UNCHANGED <<chain, read, start, review, paychecks, funds, ownEntries>>

VoidOther(n) ==
  /\ ~others[n].voided
  /\ others' = [others EXCEPT ![n].voided = TRUE]
  /\ book' = Adding(book, others[n].side, -others[n].cents)
  /\ OnlyTheOthers

OnlyThePay == UNCHANGED <<read, start, opening, review, funds, ownEntries>>

VoidPayroll(p) ==
  /\ paychecks[p].entry = "stands"
  /\ paychecks' = [paychecks EXCEPT ![p].entry = "voided"]
  /\ book' = Adding(book, General, Net)
  /\ UNCHANGED chain
  /\ OnlyThePay

-----------------------------------------------------------------------------
(* Pay runs on the rail, as PayQueue has them in detail.                   *)

\* postPayRun takes the net pay out of General.
PostRun(p) ==
  /\ paychecks[p].status = "none"
  /\ paychecks' = [paychecks EXCEPT ![p].status = "pending", ![p].entry = "stands"]
  /\ book' = Adding(book, General, -Net)
  /\ UNCHANGED chain
  /\ OnlyThePay

Settle(p, status, id) ==
  paychecks' = [paychecks EXCEPT ![p].status = status, ![p].reference = id]

\* A payment lands: its id may be in the books by then, or its queue may have given it up.
PaymentLands(p) ==
  /\ paychecks[p].status # "none"
  /\ Accepts(Payment(p))
  /\ \/ paychecks[p].status = "pending" /\ Settle(p, "pending", Len(moves) + 1)
     \/ UNCHANGED paychecks
  /\ UNCHANGED book
  /\ OnlyThePay

\* The queue's later outcomes: the id, the end, or a failure, which forgets the id.
PaymentEnds(p) ==
  /\ \/ /\ paychecks[p].status \in {"pending", "failed"}
        /\ \E i \in Id, status \in {"pending", "settled"} :
             moves[i].pays = p /\ Settle(p, status, i)
     \/ paychecks[p].status = "pending" /\ Settle(p, "failed", 0)
  /\ UNCHANGED <<chain, book>>
  /\ OnlyThePay

-----------------------------------------------------------------------------
ReviewNext ==
  \/ Check
  \/ \E found \in checks : AddReviewItems(found)
  \/ \E i \in DOMAIN items :
       Exclude(i) \/ Undo(i) \/ \E s \in Side : Accept(i, s) \/ Change(i, s)

FundNext ==
  \E f \in Fund :
    CreateFund(f) \/ CloseFund(f) \/ \E cents \in {-1, 1} : MoveFund(f, cents)

PayNext == \E p \in Paycheck : PostRun(p) \/ PaymentLands(p) \/ PaymentEnds(p) \/ VoidPayroll(p)

ShieldNext ==
  \/ \E m \in Movement : Move(m)
  \/ \E part \in Part : ReadPart(part)
  \/ StartBooks \/ VoidOpening
  \/ \E n \in DOMAIN transfers : VoidTransfer(n)
  \/ \E s \in Side, cents \in {-1, 1} : PostOther(s, cents)
  \/ \E n \in DOMAIN others : VoidOther(n)
  \/ ReviewNext \/ FundNext \/ PayNext

ShieldSpec == ShieldInit /\ [][ShieldNext]_shieldVars

-----------------------------------------------------------------------------
\* Booked where it was posted, and paid by the payment it names, made since the start.
PaidOnTheBooks(p) ==
  /\ paychecks[p].status = "settled" /\ paychecks[p].entry = "stands"
  /\ paychecks[p].reference > start

Accepted(i) == i \in Known /\ items[i].status = "accepted"

\* Moved since the start and booked neither by a review nor by a pay run.
ByHand == {i \in Id : /\ i > start /\ moves[i].kind # "inside"
                      /\ i \notin Recorded /\ ~Accepted(i)}

HandBooked == {n \in DOMAIN others : ~others[n].voided}

\* The start took the whole balance, and everything since is in the books in one way:
\* accepted, paid by a run, or posted by hand, cent for cent.
Answered ==
  /\ start # None /\ opening = minorToCents(HoldingsAt(start))
  /\ \A p \in Paycheck : paychecks[p].status = "none" \/ PaidOnTheBooks(p)
  /\ \A i \in Recorded : ~Accepted(i)
  /\ SumFunction([n \in HandBooked |-> others[n].cents])
       = SumFunction([i \in ByHand |-> Signed(moves[i])])

\* What a movement has beyond whole cents, and what of it no entry can hold.
Beyond(m) ==
  CASE m.kind = "in"  -> m.minor % Cent
    [] m.kind = "out" -> -(m.minor % Cent)
    [] m.kind = "inside" -> 0

LeftOut ==
  (HoldingsAt(start) % Cent)
    + SumFunction([i \in {j \in Id : j > start} |-> Beyond(moves[i])])

\* fundBalances: General and the open set-asides.
TotalShown == SumFunction([s \in Sides |-> book[s]])

\* What closed set-asides hold, which no screen of the set-asides shows.
InClosed == SumFunction([s \in Side \ Sides |-> book[s]])

(* The total of the Shield account, with what came back to set-asides that *)
(* were closed and with the fractions of a cent that were left out (those  *)
(* of the balance at the start and of each movement since, and no others), *)
(* is what the account on the chain holds, whatever was accepted, changed, *)
(* excluded, taken back, found twice, set aside or voided in between, once *)
(* everything that moved since the start is in the books in one way        *)
(* (opening.ts, review.ts, and funds.ts, "the total always matches it").   *)
(* What it takes is said by Answered: the start found nothing moved since  *)
(* the balance was read, and no payment of a run was accepted as a         *)
(* movement of its own while its id was not in the books yet.              *)
MatchesShield ==
  Answered => Cent * (TotalShown + InClosed) + LeftOut = HoldingsAt(Len(moves))

(* As funds.ts has it, "the total always matches it": the total needs no   *)
(* closed set-aside.  It does not hold: an entry reversed after its        *)
(* set-aside was closed leaves money there that the total does not count.  *)
TotalMatches == Answered => Cent * TotalShown + LeftOut = HoldingsAt(Len(moves))

(* As review.ts has it: payments the app already recorded "never ask       *)
(* anything".  It does not hold: one that was listed before its id was in  *)
(* the books is asked about after the books have it.                       *)
RecordedNeverAsks == \A i \in Known : i \in Recorded => items[i].status # "new"
=============================================================================
