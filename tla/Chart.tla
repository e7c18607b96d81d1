------------------------------- MODULE Chart --------------------------------
(***************************************************************************)
(* The chart of accounts (packages/ledger: accounts.ts, and the account    *)
(* operations of books.ts).  What the operations ask of the journal, an    *)
(* account's postings and balance, is theirs by parameter; Ledger supplies *)
(* it.  Every operation is a pure function that throws on a broken rule:   *)
(* a rule is a guard here, and a throw is no step.                         *)
(*                                                                         *)
(* Of an account's type only the statement section it belongs to is kept   *)
(* (baseOf); account numbers, which are compared like names but over the   *)
(* whole chart, and descriptions are left out.                             *)
(***************************************************************************)
EXTENDS Naturals, FiniteSets

CONSTANTS
  Account,    \* the accounts there may ever be
  System,     \* those every chart begins with and keeps
  Section,    \* asset, liability, equity, income, expense
  SystemSection,  \* the section of each account of System
  Name,       \* names, trimmed and in lower case
  MaxDepth,   \* MAX_DEPTH
  Missing     \* undefined: no such account, no parent

ASSUME SystemAssumption  ==
  System \subseteq Account /\ IsFiniteSet(System) /\ SystemSection \in [System -> Section]
ASSUME DepthAssumption   == MaxDepth \in Nat \ {0}

VARIABLE accounts   \* account -> what the chart says of it, or Missing

Entry == [name : Name, section : Section, parent : Account \cup {Missing},
          active : BOOLEAN]

ASSUME MissingAssumption == Missing \notin Account \cup Entry

ChartTypeOK == accounts \in [Account -> {Missing} \cup Entry]

Exists(a) == accounts[a] # Missing
Chart     == {a \in Account : Exists(a)}
Active    == {a \in Chart : accounts[a].active}

\* createBooks: the system accounts, at the top of the chart.
ChartInit ==
  \E name \in [System -> Name] :
    /\ \A a, b \in System : name[a] = name[b] => a = b
    /\ accounts = [a \in Account |->
         IF a \in System
         THEN [name |-> name[a], section |-> SystemSection[a], parent |-> Missing,
               active |-> TRUE]
         ELSE Missing]

\* With each of these accounts, the one above it.
UpClosed(some) ==
  \A a \in some : accounts[a].parent # Missing => accounts[a].parent \in some

\* An account and those above it, as depthOf and the check for cycles walk them.
Lineage(a) ==
  LET closed == {some \in SUBSET Chart : a \in some /\ UpClosed(some)}
  IN  {b \in Chart : \A some \in closed : b \in some}

Depth(a) == Cardinality(Lineage(a))

-----------------------------------------------------------------------------
(* validateAccount, rule by rule: entry is what the chart is to say of a.  *)

NameIsFree(a, entry) ==
  \A b \in Chart \ {a} : accounts[b].parent = entry.parent => accounts[b].name # entry.name

SameSection(entry) ==
  Exists(entry.parent) /\ accounts[entry.parent].section = entry.section

\* Mutant: the check looks at the new parent only, not above it.
NotItsParent(a, parent) == a # parent

NotAboveItself(a, parent) == a \notin Lineage(parent)

\* Mutant: one level too many.
OneLevelMore(parent) == Depth(parent) <= MaxDepth

LevelsLeft(parent) == Depth(parent) + 1 <= MaxDepth

Valid(a, entry) ==
  /\ NameIsFree(a, entry)
  /\ entry.parent # Missing => /\ SameSection(entry)
                               /\ NotAboveItself(a, entry.parent)
                               /\ LevelsLeft(entry.parent)

Set(a, entry) == accounts' = [accounts EXCEPT ![a] = entry]

AddAccount(a, entry) ==
  /\ ~Exists(a)
  /\ entry.active
  /\ Valid(a, entry)
  /\ Set(a, entry)

\* Mutant: postings do not hold an account in its section.
UpdateAccountPosted(a, entry, posted) ==
  /\ Exists(a)
  /\ entry.active = accounts[a].active
  /\ entry.section # accounts[a].section => a \notin System
  /\ Valid(a, entry)
  /\ Set(a, entry)

\* Renamed, moved under another parent, or into another section.
UpdateAccount(a, entry, posted) ==
  /\ Exists(a)
  /\ entry.active = accounts[a].active
  /\ entry.section # accounts[a].section => a \notin System /\ ~posted
  /\ Valid(a, entry)
  /\ Set(a, entry)

\* Mutant: the balance is not looked at.
DeactivateAccountInUse(a, balance) ==
  /\ Exists(a)
  /\ a \notin System
  /\ \A b \in Active : accounts[b].parent # a
  /\ Set(a, [accounts[a] EXCEPT !.active = FALSE])

DeactivateAccount(a, balance) ==
  /\ Exists(a)
  /\ a \notin System
  /\ balance = 0
  /\ \A b \in Active : accounts[b].parent # a
  /\ Set(a, [accounts[a] EXCEPT !.active = FALSE])

ReactivateAccount(a) ==
  /\ Exists(a)
  /\ Set(a, [accounts[a] EXCEPT !.active = TRUE])

-----------------------------------------------------------------------------
(* Properties of the chart.                                                *)

\* No account is above itself, however often accounts are moved (accounts.ts
\* depthOf and validateAccount would never return).
Forest == \A a \in Chart : accounts[a].parent # Missing => a \notin Lineage(accounts[a].parent)

\* Siblings have different names, after any number of moves (reports list accounts by
\* name under their parent; accounts.ts validateAccount).
SiblingsDiffer ==
  \A a, b \in Chart :
    accounts[a].parent = accounts[b].parent /\ accounts[a].name = accounts[b].name => a = b

\* The chart can be walked, and its names read, in every order of changes.
ChartSound == Forest /\ SiblingsDiffer

\* Sub-accounts nest at most MaxDepth levels deep (accounts.ts validateAccount).
DepthBounded == \A a \in Chart : Depth(a) <= MaxDepth

\* An account is in the section of the account above it (accounts.ts validateAccount),
\* so a statement shows a whole branch in one place.
BranchInOneSection ==
  \A a \in Chart :
    accounts[a].parent # Missing => accounts[accounts[a].parent].section = accounts[a].section

HasSubAccounts(a) == \E b \in Chart : accounts[b].parent = a

\* An account is changed together with the ones below it.
BranchMoves ==
  \E a \in Chart : /\ HasSubAccounts(a)
                   /\ \/ accounts'[a].parent # accounts[a].parent
                      \/ accounts'[a].section # accounts[a].section

\* Neither rule is broken except by moving an account that has others below it
\* (validateAccount looks above an account, never below it).
OnlyBranchMovesBend ==
  [][DepthBounded /\ BranchInOneSection /\ ~BranchMoves
       => DepthBounded' /\ BranchInOneSection']_accounts
=============================================================================
