-------------------------------- MODULE PayRun --------------------------------
(***************************************************************************)
(* The team and its pay runs (packages/payroll), as the Run payroll page   *)
(* posts them: the check for a second payment, the question it may ask,    *)
(* and the update that posts the run, with the books changing in between;  *)
(* taxes that depend on the year so far; and the paystub each paycheck     *)
(* commits to, which is rebuilt from the books whenever it is wanted.      *)
(*                                                                         *)
(* Dates are numbered, DaysPerYear of them to a year.  Of the taxes, those *)
(* that depend on the year so far are Social Security, the worker's half   *)
(* and the employer's; the others are one amount a paycheck that goes with *)
(* the worker's W-4.  What a run posts to the accounts is Ledger's, how a  *)
(* rail paycheck comes to be settled PayQueue's, and how a paystub is sent *)
(* Letters'.  Periods, tags, payment references and names are left out.    *)
(***************************************************************************)
EXTENDS Integers, Sequences, FiniteSets, Functions

CONSTANTS
  Terms,         \* what updateWorker may set: rate, and the income tax its W-4 makes
  Hours,         \* what may be entered for a worker
  WageBase,      \* gross of a year on which Social Security is due
  SsBp,          \* its rate, in hundredths of a percent
  DaysPerYear, LastDate,
  MaxWorkers, MaxRuns   \* bounds

ASSUME TermsAssumption == Terms \subseteq [rate : Nat \ {0}, incomeTax : Nat]
ASSUME HoursAssumption == Hours \subseteq Nat
ASSUME TaxAssumption == WageBase \in Nat /\ SsBp \in 0..10000
ASSUME DateAssumption == DaysPerYear \in Nat \ {0} /\ LastDate \in Nat \ {0}
ASSUME BoundsAssumption == MaxWorkers \in Nat /\ MaxRuns \in Nat

VARIABLES
  team,        \* worker -> terms, and whether active; a removed one is gone
  nextWorker,
  runs,        \* never removed: the place is the id
  form,        \* the Run payroll page while it asks its question
  posts        \* what pages have handed to updateCompany, waiting their turn

vars == <<team, nextWorker, runs, form, posts>>

Worker == 1..MaxWorkers
Date   == 1..LastDate
Mode   == {"external", "rail"}
Year(date) == (date - 1) \div DaysPerYear

Member == [terms : Terms, active : BOOLEAN]

\* The paystub document, as far as it can come out different when it is rebuilt.
Document == [rate : Nat, gross : Nat, ytdGross : Nat, ytdWithheld : Nat]

Draft == [gross : Nat, incomeTax : Nat, socialSecurity : Nat, employerSocialSecurity : Nat,
          net : Nat]

\* failed: some payment of it has failed (history).
Paycheck == [draft : Draft, paystub : Document, status : {"pending", "settled", "failed"},
             failed : BOOLEAN]

PartOf(S, T) == UNION {[D -> T] : D \in SUBSET S}

\* asked: whom the page asked about, and the gross it meant; checked: how many runs there
\* were when it looked (both history).
PayRun == [date : Date, mode : Mode, paychecks : PartOf(Worker, Paycheck),
           asked : PartOf(Worker, Nat), checked : Nat]

Closed == [date |-> 1, mode |-> "rail", hours |-> <<>>, asked |-> <<>>, checked |-> 0]

IsPart(f, S, T) == DOMAIN f \subseteq S /\ \A x \in DOMAIN f : f[x] \in T

\* What a page is filled in with.
IsFilledIn(p) ==
  /\ p.date \in Date /\ p.mode \in Mode
  /\ IsPart(p.hours, Worker, Hours)
  /\ IsPart(p.asked, Worker, Nat)
  /\ p.checked \in 0..Len(runs)

TypeOK ==
  /\ nextWorker \in 1..(MaxWorkers + 1)
  /\ IsPart(team, 1..(nextWorker - 1), Member)
  /\ Len(runs) <= MaxRuns
  /\ \A r \in DOMAIN runs :
       /\ runs[r].date \in Date /\ runs[r].mode \in Mode
       /\ IsPart(runs[r].paychecks, DOMAIN team, Paycheck)
       /\ IsPart(runs[r].asked, DOMAIN runs[r].paychecks, Nat)
       /\ runs[r].checked \in 0..(r - 1)
  /\ IsFilledIn(form)
  /\ \A i \in DOMAIN posts : IsFilledIn(posts[i])

Init ==
  /\ team = <<>> /\ nextWorker = 1
  /\ runs = <<>>
  /\ form = Closed /\ posts = <<>>

-----------------------------------------------------------------------------
(* Paychecks.                                                              *)

Least(a, b) == IF a < b THEN a ELSE b
Room(limit, used) == IF used < limit THEN limit - used ELSE 0

\* pct, and the engine's round2: half up.
Percent(cents, basisPoints) == (cents * basisPoints + 5000) \div 10000

SsAnnualMax == Percent(WageBase, SsBp)

\* grossFor.
GrossFor(terms, hours) == terms.rate * hours

Withheld(p) == p.incomeTax + p.socialSecurity

\* The paychecks yearToDate counts: of the first runs, up to and on a day of its year.
Counted(first, w, date) ==
  {r \in first : /\ w \in DOMAIN runs[r].paychecks
                 /\ Year(runs[r].date) = Year(date) /\ runs[r].date <= date}

\* Mutant: runs posted since are counted, too.
AnyRun(r) == DOMAIN runs \ {r}

\* yearToDate with beforeRun.
Before(r) == 1..(r - 1)

YearToDate(first, w, date) ==
  LET counted == Counted(first, w, date)
      Of(r)   == runs[r].paychecks[w].draft
  IN  [gross |-> SumFunction([r \in counted |-> Of(r).gross]),
       socialSecurity |-> SumFunction([r \in counted |-> Of(r).socialSecurity]),
       employerSocialSecurity |-> SumFunction([r \in counted |-> Of(r).employerSocialSecurity]),
       withheld |-> SumFunction([r \in counted |-> Withheld(Of(r))])]

\* Mutant: only the wage base is watched, and cents rounded up add up.
CapSsByWages(amount, paidSoFar) == amount

\* capSs.
CapSs(amount, paidSoFar) == Least(amount, Room(SsAnnualMax, paidSoFar))

\* paystubDocument.
PaystubDocument(terms, p, ytd) ==
  [rate |-> terms.rate, gross |-> p.gross,
   ytdGross |-> ytd.gross + p.gross, ytdWithheld |-> ytd.withheld + Withheld(p)]

\* computePaycheck: both halves are due on the wages the base has room for.
Amounts(terms, gross, ytd) ==
  LET due == Percent(Least(gross, Room(WageBase, ytd.gross)), SsBp)
      ss  == CapSs(due, ytd.socialSecurity)
  IN  [gross |-> gross, incomeTax |-> terms.incomeTax, socialSecurity |-> ss,
       employerSocialSecurity |-> CapSs(due, ytd.employerSocialSecurity),
       net |-> gross - terms.incomeTax - ss]

ComputePaycheck(w, date, hours) ==
  Amounts(team[w].terms, GrossFor(team[w].terms, hours), YearToDate(DOMAIN runs, w, date))

-----------------------------------------------------------------------------
(* The team.                                                               *)

OnlyTheTeam == UNCHANGED <<runs, form, posts>>

\* addWorker.
AddWorker(terms) ==
  /\ nextWorker \in Worker
  /\ team' = [w \in DOMAIN team \cup {nextWorker} |->
                IF w = nextWorker THEN [terms |-> terms, active |-> TRUE] ELSE team[w]]
  /\ nextWorker' = nextWorker + 1
  /\ OnlyTheTeam

\* updateWorker.
UpdateWorker(w, member) ==
  /\ team' = [team EXCEPT ![w] = member]
  /\ UNCHANGED nextWorker
  /\ OnlyTheTeam

HasBeenPaid(w) == \E r \in DOMAIN runs : w \in DOMAIN runs[r].paychecks

\* removeWorker.
RemoveWorker(w) ==
  /\ ~HasBeenPaid(w)
  /\ team' = [v \in DOMAIN team \ {w} |-> team[v]]
  /\ UNCHANGED nextWorker
  /\ OnlyTheTeam

-----------------------------------------------------------------------------
(* The Run payroll page.                                                   *)

OnlyThePages == UNCHANGED <<team, nextWorker, runs>>

Payable(w, date, hours) ==
  w \in DOMAIN team /\ team[w].active /\ ComputePaycheck(w, date, hours).net >= 0

SamePay(w, date) == {r \in DOMAIN runs : runs[r].date = date /\ w \in DOMAIN runs[r].paychecks}

\* Mutant: only what has been paid stands in the way, not what is on its way.
SettledRepeat(r, w, gross) ==
  runs[r].paychecks[w].draft.gross = gross /\ runs[r].paychecks[w].status = "settled"

\* checkDoublePay, the exact repeat.
Repeat(r, w, gross) ==
  runs[r].paychecks[w].draft.gross = gross /\ runs[r].paychecks[w].status # "failed"

\* submit: an exact repeat is refused, other pay on that day asked about, and the rest
\* handed on.  While its post waits a page takes no second press; but it may be left, and
\* the page opened and filled in again.
Submit(date, mode, hours) ==
  LET gross    == [w \in DOMAIN hours |-> GrossFor(team[w].terms, hours[w])]
      askAbout == {w \in DOMAIN hours : SamePay(w, date) # {}}
      page     == [date |-> date, mode |-> mode, hours |-> hours,
                   asked |-> [w \in askAbout |-> gross[w]], checked |-> Len(runs)]
  IN  /\ form = Closed /\ Len(runs) + Len(posts) < MaxRuns
      /\ hours # <<>>
      /\ \A w \in DOMAIN hours : Payable(w, date, hours[w])
      /\ \A w \in askAbout : \A r \in SamePay(w, date) : ~Repeat(r, w, gross[w])
      /\ \/ askAbout = {} /\ posts' = Append(posts, page) /\ UNCHANGED form
         \/ askAbout # {} /\ form' = page /\ UNCHANGED posts
      /\ OnlyThePages

\* The dialog's Post anyway: whoever is inactive by now has left the page.
Confirm ==
  LET here == {w \in DOMAIN form.hours \cap DOMAIN team : team[w].active}
  IN  /\ form # Closed
      /\ posts' = Append(posts, [form EXCEPT
                    !.hours = [w \in here |-> form.hours[w]],
                    !.asked = [w \in here \cap DOMAIN form.asked |-> form.asked[w]]])
      /\ form' = Closed
      /\ OnlyThePages

\* The dialog's Go back, or a page that was left.
GoBack ==
  /\ form # Closed
  /\ form' = Closed
  /\ UNCHANGED posts
  /\ OnlyThePages

\* postPayRun, within its update: computed from the books as they are by then.
Posted(page, w) ==
  LET draft == ComputePaycheck(w, page.date, page.hours[w])
  IN  [draft   |-> draft,
       paystub |-> PaystubDocument(team[w].terms, draft, YearToDate(DOMAIN runs, w, page.date)),
       status  |-> IF page.mode = "external" THEN "settled" ELSE "pending",
       failed  |-> FALSE]

NewRun(page) ==
  [date |-> page.date, mode |-> page.mode, asked |-> page.asked, checked |-> page.checked,
   paychecks |-> [w \in DOMAIN page.hours |-> Posted(page, w)]]

\* The updates run in the order in which they were asked for (BooksProvider).
PostPayRun ==
  LET page == Head(posts)
  IN  /\ posts # <<>>
      /\ page.hours # <<>>
      /\ \A w \in DOMAIN page.hours : Payable(w, page.date, page.hours[w])
      /\ runs' = Append(runs, NewRun(page))
      /\ posts' = Tail(posts)
      /\ UNCHANGED <<team, nextWorker, form>>

\* Refused (someone has left, a month is closed), not stored, or gone with its tab.
PostFails ==
  /\ posts # <<>>
  /\ posts' = Tail(posts)
  /\ UNCHANGED form
  /\ OnlyThePages

-----------------------------------------------------------------------------
(* Payment.                                                                *)

\* markPaycheckSettlement, for what the queue pays; a note of the id changes nothing here.
MarkPaycheckSettlement(r, w, status) ==
  LET p == runs[r].paychecks[w]
  IN  /\ runs[r].mode = "rail" /\ p.draft.net > 0
      /\ <<p.status, status>> \in {<<"pending", "settled">>, <<"pending", "failed">>,
                                   <<"failed", "pending">>}
      /\ runs' = [runs EXCEPT ![r].paychecks[w] =
                    [p EXCEPT !.status = status, !.failed = p.failed \/ status = "failed"]]
      /\ UNCHANGED <<team, nextWorker, form, posts>>

-----------------------------------------------------------------------------
TeamNext ==
  \/ \E terms \in Terms : AddWorker(terms)
  \/ \E w \in DOMAIN team :
       RemoveWorker(w) \/ \E member \in Member : UpdateWorker(w, member)

FormNext ==
  \/ \E date \in Date, mode \in Mode, hours \in PartOf(DOMAIN team, Hours) :
       Submit(date, mode, hours)
  \/ Confirm \/ GoBack \/ PostPayRun \/ PostFails

PayNext ==
  \E r \in DOMAIN runs : \E w \in DOMAIN runs[r].paychecks :
    \E status \in {"pending", "settled", "failed"} : MarkPaycheckSettlement(r, w, status)

Next == TeamNext \/ FormNext \/ PayNext

Spec == Init /\ [][Next]_vars

-----------------------------------------------------------------------------
PaidIn(w, year) ==
  {r \in DOMAIN runs : w \in DOMAIN runs[r].paychecks /\ Year(runs[r].date) = year}

InDateOrder(S) == \A r, s \in S : r < s => runs[r].date <= runs[s].date

(* Neither half of Social Security passes the annual maximum, whatever was  *)
(* paid in how many paychecks and however their cents were rounded, as long *)
(* as a person's runs of the year were posted in the order of their pay     *)
(* dates (computePaycheck: "never let either side pass the annual           *)
(* maximum").  A run posted for an earlier day does not see the later ones, *)
(* and may pass it.                                                         *)
YearCapped ==
  \A w \in Worker : \A date \in Date :
    LET S == PaidIn(w, Year(date))
    IN  InDateOrder(S) =>
          /\ SumFunction([r \in S |-> runs[r].paychecks[w].draft.socialSecurity])
               <= SsAnnualMax
          /\ SumFunction([r \in S |-> runs[r].paychecks[w].draft.employerSocialSecurity])
               <= SsAnnualMax

(* A paystub built again later, for the screen or to be sent, is the one    *)
(* whose hash was posted, whatever was posted since, on the same day or an  *)
(* earlier one, unless the person's rate has changed (paystubEnvelope:      *)
(* "the same inputs posting used, so the hash must come out the same").     *)
RebuiltIsPosted ==
  \A r \in DOMAIN runs : \A w \in DOMAIN runs[r].paychecks :
    LET p == runs[r].paychecks[w]
    IN  team[w].terms.rate = p.paystub.rate =>
          PaystubDocument(team[w].terms, p.draft, YearToDate(Before(r), w, runs[r].date))
            = p.paystub

Excused(r, s, w) ==
  LET first  == runs[r].paychecks[w]
      second == runs[s].paychecks[w]
  IN  /\ w \in DOMAIN runs[s].asked
      /\ first.draft.gross = second.draft.gross /\ first.status # "failed"
         => first.failed \/ runs[s].asked[w] # second.draft.gross

(* Nobody gets a second paycheck on a day without the question, and an      *)
(* exact repeat of one that is paid or on its way (checkDoublePay) only     *)
(* when a payment of the first had failed, or the rate was changed after    *)
(* the question; as long as the first was in the books when the page        *)
(* looked.                                                                  *)
RepeatsWereAsked ==
  \A s \in DOMAIN runs : \A w \in DOMAIN runs[s].paychecks :
    \A r \in SamePay(w, runs[s].date) \cap 1..runs[s].checked : Excused(r, s, w)

(* The page's own words: "Before posting: refuse an exact repeat of a       *)
(* payment on this date; ask about any other same-day pay" (submit).  A     *)
(* post that waits its turn when the page looks is not seen.                *)
NoRepeatUnasked ==
  \A s \in DOMAIN runs : \A w \in DOMAIN runs[s].paychecks :
    \A r \in SamePay(w, runs[s].date) \cap Before(s) : Excused(r, s, w)
=============================================================================
