-------------------------------- MODULE Hours --------------------------------
(***************************************************************************)
(* Hours: the punches of a person who works for a business, under one      *)
(* agreement (books/work.ts), the shifts, days and weeks made of them      *)
(* (books/hours.ts), the pages that clock, edit and remove them            *)
(* (app/work/page.tsx, app/work/hours/page.tsx), a week sent as a letter   *)
(* (chain/work/SendTimesheet.tsx, timesheet.ts) and the weeks the business *)
(* keeps (books/mailbox.ts).                                               *)
(*                                                                         *)
(* Time is counted in instants of which a minute has several.  Of a letter *)
(* its slot, its week and its total are kept; the way letters travel is    *)
(* that of Letters, with one press and one check at a time.                *)
(***************************************************************************)
EXTENDS Integers, Sequences, FiniteSetsExt, Functions

CONSTANTS
  Minute,      \* instants in a minute
  DayStart,    \* the local midnights, in order; days need not be equally long
  WeekDays,    \* days in a week: 7
  MaxPunches,  \* bound on the punches
  Presses,     \* bound on the times Send is pressed
  Nothing

Increasing(s) == \A i \in DOMAIN s : i > 1 => s[i - 1] < s[i]

ASSUME DaysAssumption ==
  /\ Minute \in Nat \ {0} /\ WeekDays \in Nat \ {0}
  /\ DayStart \in Seq(Nat) /\ Len(DayStart) > 1 /\ DayStart[1] = 0 /\ Increasing(DayStart)
  /\ \A i \in DOMAIN DayStart : DayStart[i] % Minute = 0

ASSUME HoursBounds == MaxPunches \in Nat /\ Presses \in Nat

VARIABLES
  now,
  active,    \* the person's file: the agreement's status is "active"
  punches,   \* the person's file: when they clocked in and out
  next,      \* the person's file: the next unused slot
  sent,      \* the person's file: week -> slot and total of the letter it went in, or Nothing
  letters,   \* what was asked of Shield for every press, and what became of it
  stage,     \* of the send under way, which is the last press
  nextIn,    \* the business's books: the next slot to read
  kept       \* the business's books: the weeks of hours, by their slots

clock     == <<now, active, punches>>
post      == <<next, sent, letters, stage>>
business  == <<nextIn, kept>>
hoursVars == <<clock, post, business>>

-----------------------------------------------------------------------------
(* The calendar (hours.ts).                                                *)

Day     == 1..(Len(DayStart) - 1)
Instant == 0..(DayStart[Len(DayStart)] - 1)
Week    == 0..((Len(DayStart) - 2) \div WeekDays)

\* localDate.
DateOf(t) == CHOOSE d \in Day : DayStart[d] <= t /\ t < DayStart[d + 1]

\* weekStartOf: the first day is a Monday.
WeekOf(d) == (d - 1) \div WeekDays

\* wholeMinutes.
WholeMinutes(from, to) == (to - from) \div Minute

-----------------------------------------------------------------------------
(* The punches (work.ts).                                                  *)

Punch == [at : Instant, kind : {"in", "out"}]

Earlier(ps, p) == {q \in ps : q.at < p.at}
Later(ps, p)   == {q \in ps : q.at > p.at}

\* The punch next to p in time, if there is one.
Following(ps, p) == {q \in Later(ps, p) : Later(ps, p) \cap Earlier(ps, q) = {}}
Preceding(ps, p) == {q \in Earlier(ps, p) : Earlier(ps, p) \cap Later(ps, q) = {}}

\* checkPunches: in time order they are in, out, in, out, no two at once.
Alternate(ps) ==
  /\ \A p, q \in ps : p.at = q.at => p = q
  /\ \A p \in ps : p.kind = "in" <=> Cardinality(Earlier(ps, p)) % 2 = 0

\* openPunch: the last punch is a clock-in.
IsOpen(ps) == \E p \in ps : p.kind = "in" /\ Later(ps, p) = {}

\* Mutant: the other half of a shift is the punch before.
WithoutPrevious(ps, p) ==
  LET rest == ps \ {p}
  IN  IF Alternate(rest) THEN rest
      ELSE rest \ Preceding(ps, p)

\* removePunch: the other half of the shift goes too, if the rest does not alternate.
Without(ps, p) ==
  LET rest == ps \ {p}
  IN  IF Alternate(rest) THEN rest
      ELSE rest \ (IF p.kind = "in" THEN Following(ps, p) ELSE Preceding(ps, p))

-----------------------------------------------------------------------------
(* Shifts, days and weeks (hours.ts).                                      *)

\* A shift still open ends now or, if its day has ended, at that midnight.
EndOfShift(ps, p) ==
  IF Following(ps, p) # {} THEN (CHOOSE q \in Following(ps, p) : TRUE).at
  ELSE Max({p.at, Min({now, DayStart[DateOf(p.at) + 1]})})

\* Mutant: all of a shift belongs to the day it started.
PiecesUnsplit(ps, p) ==
  {[date |-> DateOf(p.at), in |-> p.at, out |-> EndOfShift(ps, p)]}

\* shiftsOf: a shift is split at the midnights it crosses; one without length is kept.
Pieces(ps, p) ==
  LET end == EndOfShift(ps, p)
  IN  {[date |-> d, in |-> Max({p.at, DayStart[d]}), out |-> Min({end, DayStart[d + 1]})] :
         d \in {e \in Day : /\ DateOf(p.at) <= e
                            /\ e = DateOf(p.at) \/ DayStart[e] < end}}

Shifts(ps) == UNION {Pieces(ps, p) : p \in {q \in ps : q.kind = "in"}}

\* buildTimesheet's entries: the pieces whose day is in the week.
Entries(ps, w) == {s \in Shifts(ps) : WeekOf(s.date) = w}

MinutesOf(s) == WholeMinutes(s.in, s.out)

\* weekMinutes.
WeekMinutes(ps, w) == SumFunction([s \in Entries(ps, w) |-> MinutesOf(s)])

-----------------------------------------------------------------------------
Sheet  == [week : Week, minutes : Nat]
Letter == [sheet : Sheet, slot : Nat, fate : {"none", "asked", "accepted", "lost"}]

ASSUME NothingAssumption == Nothing \notin [slot : Nat, minutes : Nat]

HoursTypeOK ==
  /\ now \in Instant /\ active \in BOOLEAN
  /\ punches \subseteq Punch /\ Cardinality(punches) <= MaxPunches
  /\ next \in Nat
  /\ sent \in [Week -> [slot : Nat, minutes : Nat] \cup {Nothing}]
  /\ letters \in Seq(Letter) /\ Len(letters) <= Presses
  /\ stage \in {"none", "looking", "waiting", "sent"}
  /\ nextIn \in Nat
  /\ DOMAIN kept = 0..(nextIn - 1) /\ \A n \in DOMAIN kept : kept[n] \in Sheet

HoursInit ==
  /\ now = 0 /\ active = TRUE /\ punches = {}
  /\ next = 0 /\ sent = [w \in Week |-> Nothing]
  /\ letters = <<>> /\ stage = "none"
  /\ nextIn = 0 /\ kept = <<>>

-----------------------------------------------------------------------------
(* The clock and the pages.                                                *)

Tick ==
  /\ now + 1 \in Instant
  /\ now' = now + 1
  /\ UNCHANGED <<active, punches, post, business>>

\* What a check for offers last read of the agreement (Offers.tsx).
CheckOffers ==
  /\ active' = ~active
  /\ UNCHANGED <<now, punches, post, business>>

NewPunches(ps) ==
  /\ Alternate(ps)
  /\ punches' = ps
  /\ UNCHANGED <<now, active, post, business>>

\* "Clock in", "Clock out".
ClockInOut ==
  /\ active
  /\ Cardinality(punches) < MaxPunches
  /\ \A p \in punches : p.at # now
  /\ NewPunches(punches \cup {[at |-> now, kind |-> IF IsOpen(punches) THEN "out" ELSE "in"]})

ThisWeek == WeekOf(DateOf(now))

\* The page shows the shifts that started this week or before.
OnPage(p) ==
  \E q \in {p} \cup Preceding(punches, p) : q.kind = "in" /\ WeekOf(DateOf(q.at)) <= ThisWeek

\* "Clock-in time", "Clock-out time": typed in whole minutes, past or future.
UpdatePunch(p, t) ==
  /\ OnPage(p)
  /\ t % Minute = 0
  /\ \A q \in punches \ {p} : q.at # t
  /\ NewPunches((punches \ {p}) \cup {[p EXCEPT !.at = t]})

\* "Remove this shift?"
RemovePunch(p) ==
  /\ OnPage(p) /\ p.kind = "in"
  /\ NewPunches(Without(punches, p))

-----------------------------------------------------------------------------
(* Sending a week (SendTimesheet.tsx, timesheet.ts).                       *)

Last       == Len(letters)
Becomes(s) == stage' = s
Fate(i, f) == letters' = [letters EXCEPT ![i].fate = f]
At(n)      == {i \in DOMAIN letters : letters[i].fate = "accepted" /\ letters[i].slot = n}

\* The week as it is in the file now, for the next unused slot.
Press(w) ==
  /\ stage = "none" /\ active
  /\ Last < Presses /\ w <= ThisWeek
  /\ WeekMinutes(punches, w) > 0
  /\ letters' = Append(letters, [sheet |-> [week |-> w, minutes |-> WeekMinutes(punches, w)],
                                 slot |-> next, fate |-> "none"])
  /\ Becomes("looking")
  /\ UNCHANGED <<clock, next, sent, business>>

\* "A slot already sent under counts as sent."
FindTaken ==
  /\ stage = "looking"
  /\ At(letters[Last].slot) # {}
  /\ Becomes("sent")
  /\ UNCHANGED <<clock, next, sent, letters, business>>

\* Nothing is seen under the slot, and Shield is asked.
Ask ==
  /\ stage = "looking"
  /\ Fate(Last, "asked")
  /\ Becomes("waiting")
  /\ UNCHANGED <<clock, next, sent, business>>

NetworkDecides(i) ==
  /\ letters[i].fate = "asked"
  /\ \E f \in {"accepted", "lost"} : Fate(i, f)
  /\ UNCHANGED <<clock, next, sent, stage, business>>

SeeAccepted ==
  /\ stage = "waiting"
  /\ letters[Last].fate = "accepted"
  /\ Becomes("sent")
  /\ UNCHANGED <<clock, next, sent, letters, business>>

\* Refused, no answer in time, an error, or the tab is closed.
GiveUp ==
  /\ stage # "none"
  /\ Becomes("none")
  /\ UNCHANGED <<clock, next, sent, letters, business>>

\* bumpWorkSeq.
Advance(n) == Max({next, n + 1})

\* Mutant: the total is that of the file when the send ends.
RecordAfresh ==
  LET l == letters[Last]
  IN  /\ stage = "sent"
      /\ sent' = [sent EXCEPT ![l.sheet.week] =
                    [slot |-> l.slot, minutes |-> WeekMinutes(punches, l.sheet.week)]]
      /\ next' = Advance(l.slot)
      /\ Becomes("none")
      /\ UNCHANGED <<clock, letters, business>>

\* recordTimesheet: the week sent last takes the place of the one before.
Record ==
  LET l == letters[Last]
  IN  /\ stage = "sent"
      /\ sent' = [sent EXCEPT ![l.sheet.week] =
                    [slot |-> l.slot, minutes |-> l.sheet.minutes]]
      /\ next' = Advance(l.slot)
      /\ Becomes("none")
      /\ UNCHANGED <<clock, letters, business>>

\* The business's check keeps the week under the next slot (scanHours, addHours).
Keep ==
  /\ \E i \in At(nextIn) :
       kept' = [n \in 0..nextIn |-> IF n = nextIn THEN letters[i].sheet ELSE kept[n]]
  /\ nextIn' = nextIn + 1
  /\ UNCHANGED <<clock, post>>

-----------------------------------------------------------------------------
ClockNext ==
  \/ Tick \/ CheckOffers \/ ClockInOut
  \/ \E p \in punches : RemovePunch(p) \/ \E t \in Instant : UpdatePunch(p, t)

SendNext ==
  \/ FindTaken \/ Ask \/ SeeAccepted \/ GiveUp \/ Record \/ Keep
  \/ \E i \in DOMAIN letters : NetworkDecides(i)

\* A letter of an earlier press that is or may yet be on chain, unknown to the file.
Loose(i) == letters[i].slot >= next /\ letters[i].fate \in {"asked", "accepted"}

\* The rule of Letters: while a letter is loose, only the same week is sent.
SameWeek(w) ==
  \A i \in DOMAIN letters : Loose(i) => letters[i].sheet.week = w

\* A stricter one: only the same week, with nothing changed in it.
SameHours(w) ==
  \A i \in DOMAIN letters :
    Loose(i) => letters[i].sheet = [week |-> w, minutes |-> WeekMinutes(punches, w)]

HoursNext  == ClockNext \/ SendNext \/ \E w \in Week : Press(w)
WeeklyNext == ClockNext \/ SendNext \/ \E w \in Week : Press(w) /\ SameWeek(w)
SteadyNext == ClockNext \/ SendNext \/ \E w \in Week : Press(w) /\ SameHours(w)

HoursSpec  == HoursInit /\ [][HoursNext]_hoursVars
WeeklySpec == HoursInit /\ [][WeeklyNext]_hoursVars
SteadySpec == HoursInit /\ [][SteadyNext]_hoursVars

-----------------------------------------------------------------------------
\* On the clock at t, by the punches alone: clocked in and not out again, and, while that
\* is still to come, until now and the end of the day.
OnTheClock(t) ==
  LET past == {p \in punches : p.at <= t}
  IN  /\ Cardinality(past) % 2 = 1
      /\ past = punches =>
           /\ t < now
           /\ \E p \in past : Later(past, p) = {} /\ DateOf(p.at) = DateOf(t)

(* Every week has the time worked in it, once, whatever midnights, ends of   *)
(* weeks and long or short days a shift crosses, however it was edited, and  *)
(* less only by what is cut off the minutes of each entry (shiftsOf,         *)
(* buildTimesheet of hours.ts).                                              *)
WeeksAddUp ==
  \A w \in Week :
    LET worked == {t \in Instant : OnTheClock(t) /\ WeekOf(DateOf(t)) = w}
        shown  == Minute * WeekMinutes(punches, w)
    IN  /\ shown <= Cardinality(worked)
        /\ Cardinality(worked) <= shown + (Minute - 1) * Cardinality(Entries(punches, w))

\* The shifts as they were clocked: from a clock-in to the punch that follows.
Clocked(ps) == {<<p, Following(ps, p)>> : p \in {q \in ps : q.kind = "in"}}

(* An edit or a removal touches one shift: no other shift is lost, joined to *)
(* another or given another end (updatePunch, removePunch of work.ts).       *)
EditsAreLocal ==
  [][now' = now /\ active' = active =>
       /\ Cardinality(Clocked(punches) \ Clocked(punches)') <= 1
       /\ Cardinality(Clocked(punches)' \ Clocked(punches)) <= 1]_hoursVars

(* What the person's file shows as sent for a week is what the business has, *)
(* once it has read that slot (timesheet.ts:9-10: "only this person can have *)
(* filled it, with this same week").                                         *)
SentIsWhatArrived ==
  \A w \in Week :
    sent[w] # Nothing /\ sent[w].slot < nextIn
    => kept[sent[w].slot] = [week |-> w, minutes |-> sent[w].minutes]

(* A week sent again replaces the one before (SendTimesheet.tsx:67).         *)
SentAgainReplaces == \A m, n \in DOMAIN kept : kept[m].week = kept[n].week => m = n
=============================================================================
