----------------------------- MODULE Statements -----------------------------
(***************************************************************************)
(* The reports over the books (packages/ledger: reports.ts, statements.ts):*)
(* the trial balance, the balance sheet and profit and loss.               *)
(*                                                                         *)
(* Books have no closing entries.  What earlier fiscal years earned is     *)
(* added to Retained Earnings when a report is run, and what this one has  *)
(* earned is a line of the balance sheet, Net income.  A statement shows   *)
(* the accounts of a section as a tree, and its total is that of the rows  *)
(* at the top.                                                             *)
(*                                                                         *)
(* The types of one section (bank and fixed assets, income and other       *)
(* income) are one, as in Chart; a comparison column is the same report    *)
(* for another date; an empty row, which a report leaves out, adds 0.      *)
(***************************************************************************)
EXTENDS Ledger

CONSTANTS
  Retained,     \* the account with the role retained_earnings
  StartMonth,   \* settings.fiscalYearStartMonth
  YearMonths    \* the months of a year

ASSUME RetainedAssumption == Retained \in System /\ SystemSection[Retained] = "equity"
ASSUME SectionAssumption  ==
  Section \subseteq {"asset", "liability", "equity", "income", "expense"}
ASSUME MonthAssumption == YearMonths \in Nat \ {0} /\ StartMonth \in 1..YearMonths

InSection(sections) == {a \in Chart : accounts[a].section \in sections}

Earning == InSection({"income", "expense"})

Within(from, to) == {i \in DOMAIN entries : entries[i].date \in from..to}

\* netByAccount.
NetByAccount(from, to) ==
  [a \in Account |-> SumFunction([i \in Within(from, to) |-> Effect(entries[i], a)])]

Total(net, some) == SumFunction([a \in some |-> net[a]])

FiscalYearStart(date) == date - ((date - StartMonth) % YearMonths)

\* Mutant: the first month of the year counts as one of the year before, too.
TrialBalanceTwice(asOf) ==
  LET start == FiscalYearStart(asOf)
      ever  == NetByAccount(0, asOf)
      year  == NetByAccount(start, asOf)
      prior == Total(NetByAccount(0, start), Earning)
  IN  [a \in Chart |-> IF a \in Earning THEN year[a]
                       ELSE ever[a] + IF a = Retained THEN prior ELSE 0]

\* trialBalance, debits positive.
TrialBalance(asOf) ==
  LET start == FiscalYearStart(asOf)
      ever  == NetByAccount(0, asOf)
      year  == NetByAccount(start, asOf)
      prior == Total(NetByAccount(0, start - 1), Earning)
  IN  [a \in Chart |-> IF a \in Earning THEN year[a]
                       ELSE ever[a] + IF a = Retained THEN prior ELSE 0]

\* parentOf, byParent: a row is under the nearest member above it.  So at the top are those
\* with no member above them, and in the branch of a row those that lead up to it.
TopRows(members) ==
  {a \in members : accounts[a].parent # Missing => members \cap Lineage(accounts[a].parent) = {}}
Branch(a, members) == {b \in members : a = b \/ a \in Lineage(b)}

\* accountSection: the tree of these sections, each account positive on its normal side;
\* its total is that of the rows at the top, and a row's that of its branch.
SectionTotal(sections, net) ==
  LET members == InSection(sections)
      own == [a \in members |->
                IF accounts[a].section \in {"asset", "expense"} THEN net[a] ELSE -net[a]]
      row == [a \in TopRows(members) |-> Total(own, Branch(a, members))]
  IN  Total(row, TopRows(members))

\* profitAndLoss: its bottom line.
ProfitAndLoss(from, to) ==
  LET net == NetByAccount(from, to)
  IN  SectionTotal({"income"}, net) - SectionTotal({"expense"}, net)

\* balanceSheet.
BalanceSheet(asOf) ==
  LET net == TrialBalance(asOf)
  IN  [assets      |-> SectionTotal({"asset"}, net),
       liabilities |-> SectionTotal({"liability"}, net),
       equity      |-> SectionTotal({"equity"}, net),
       netIncome   |-> -Total(net, Earning)]

-----------------------------------------------------------------------------
(* Properties.                                                             *)

\* However accounts were moved, renamed and retyped under the entries posted to them, every
\* report of every month ties: debits are credits, assets are liabilities and equity
\* (statements.ts: "Assets = liabilities + equity by construction"), and the two ways to
\* work out this year's profit agree ("so the two never disagree").
StatementsTie ==
  \A p \in Period :
    LET sheet == BalanceSheet(p)
    IN  /\ Total(TrialBalance(p), Chart) = 0
        /\ sheet.assets = sheet.liabilities + sheet.equity + sheet.netIncome
        /\ sheet.netIncome = ProfitAndLoss(FiscalYearStart(p), p)

\* What the balance sheet of a closed month says stays so until the month is reopened,
\* whatever becomes of the chart meanwhile (books.ts updateAccount: "it can't move to a
\* different statement section").
ClosedStatementsStay ==
  [][\A p \in 1..closedThrough : BalanceSheet(p)' = BalanceSheet(p)]_vars
=============================================================================
