----------------------------- MODULE TransferPlan -----------------------------
(***************************************************************************)
(* Which record of the account pays whom (packages/rail/src/plan.ts), and  *)
(* how the splits of that plan are carried out (queue.ts executeSplit):    *)
(* one after another, each looking for its two new records among what the  *)
(* wallet shows, which lags behind the chain and shows money that comes in *)
(* meanwhile as well.                                                      *)
(*                                                                         *)
(* Payees and records are known by their place in the lists the plan is    *)
(* given; new records are numbered on from those.  Amounts are whole.  The *)
(* transfers are PayQueue's in detail; here one is made or not.            *)
(***************************************************************************)
EXTENDS Integers, Sequences, FiniteSets, Functions, Folds

CONSTANTS
  Pay,            \* what a payee may be owed
  RecordAmount,   \* what a record may hold
  MaxPayees, MaxRecords, MaxIncoming   \* bounds

ASSUME AmountAssumption == Pay \subseteq Nat \ {0} /\ RecordAmount \subseteq Nat \ {0}
ASSUME PlanBounds == MaxPayees \in Nat /\ MaxRecords \in Nat /\ MaxIncoming \in Nat

VARIABLES
  payees,     \* amounts owed
  records,    \* amounts of the records listed when the queue starts
  plan,
  chain,      \* amounts of all records there ever were, the listed ones first
  spent, shown,
  received,   \* how many records have come in meanwhile
  known,      \* records the queue has seen the wallet show, and used or found
  outputs,    \* split -> the records found for its two outputs
  broken,     \* splits that did not happen
  step,       \* the split at hand
  asked,      \* whether it was accepted, and its records are being looked for
  paidBy      \* payee -> the record it was paid with; 0 once its payment has failed

wallet   == <<chain, spent, shown, received>>
queue    == <<plan, known, outputs, broken, step, asked, paidBy>>
planVars == <<payees, records, wallet, queue>>

Payee  == DOMAIN payees
Listed == DOMAIN records

\* A record the plan refers to: a listed one, or an output of a split.
Whole(r)      == [record |-> r, split |-> 0, output |-> "whole"]
Output(k, o)  == [record |-> 0, split |-> k, output |-> o]

NoPlan == [made |-> FALSE, paid |-> <<>>, splits |-> <<>>]

SeqUpTo(S, n) == UNION {[1..k -> S] : k \in 0..n}

PlanInit ==
  /\ payees \in SeqUpTo(Pay, MaxPayees) /\ records \in SeqUpTo(RecordAmount, MaxRecords)
  /\ plan = NoPlan
  /\ chain = records /\ spent = {} /\ shown = DOMAIN records /\ received = 0
  /\ known = DOMAIN records /\ outputs = <<>> /\ broken = {} /\ step = 1 /\ asked = FALSE
  /\ paidBy = <<>>

With(f, x, value) == [y \in DOMAIN f \cup {x} |-> IF y = x THEN value ELSE f[y]]

-----------------------------------------------------------------------------
(* The plan.                                                               *)

\* Of S the one whose turn is last, when the biggest come first and equals as they are listed.
LastOf(amount, S) ==
  CHOOSE x \in S : \A y \in S : amount[x] < amount[y] \/ (amount[x] = amount[y] /\ y <= x)

\* What becomes of p when all of S have had their turn.
BiggestFirst(Turn(_, _), p, amount, S) ==
  MapThenFoldSet(LAMBDA x, q : Turn(q, x), p, LAMBDA x : x, LAMBDA T : LastOf(amount, T), S)

\* The smallest record of S, the first listed of several.
Smallest(S) ==
  CHOOSE r \in S : \A s \in S : records[r] < records[s] \/ (records[r] = records[s] /\ r <= s)

\* Nobody has a record, every record is free, and none is being carved up.
Nobody == [free |-> Listed, paid |-> <<>>, splits |-> <<>>, current |-> Whole(0), left |-> 0]

Unassigned(p) == Payee \ DOMAIN p.paid

\* Steps 1 and 2: a payee takes the smallest free record that fits it.
Take(p, payee, fits) ==
  IF fits = {} THEN p
  ELSE [p EXCEPT !.free = @ \ {Smallest(fits)}, !.paid = With(@, payee, Whole(Smallest(fits)))]

ExactFit(p, payee) == Take(p, payee, {r \in p.free : records[r] = payees[payee]})
BestFit(p, payee)  == Take(p, payee, {r \in p.free : records[r] >= payees[payee]})

\* Mutant: one record too few is enough for best fits.
NearlyEnough(p) == Cardinality(p.free) + 1 >= Cardinality(Unassigned(p))

Enough(p) == Cardinality(p.free) >= Cardinality(Unassigned(p))

AfterExactFits == BiggestFirst(ExactFit, Nobody, payees, Payee)

AfterFits ==
  IF Enough(AfterExactFits)
  THEN BiggestFirst(BestFit, AfterExactFits, payees, Unassigned(AfterExactFits))
  ELSE AfterExactFits

\* Step 3: a payee is carved out of what is left of a record, p.current.
CarveOne(p, payee) ==
  CASE payees[payee] > p.left -> p
    [] payees[payee] = p.left -> [p EXCEPT !.paid = With(@, payee, p.current), !.left = 0]
    [] payees[payee] < p.left ->
         LET k == Len(p.splits) + 1
         IN  [p EXCEPT !.splits = Append(@, [source |-> p.current, amount |-> payees[payee],
                                             remainder |-> p.left - payees[payee]]),
                       !.paid = With(@, payee, Output(k, "amount")),
                       !.current = Output(k, "remainder"),
                       !.left = @ - payees[payee]]

CarveFrom(p, r) ==
  BiggestFirst(CarveOne,
               [p EXCEPT !.free = @ \ {r}, !.current = Whole(r), !.left = records[r]],
               payees, Unassigned(p))

Carved == BiggestFirst(CarveFrom, AfterFits, records, AfterFits.free)

\* planTransfers.
Short   == SumFunction(payees) > SumFunction(records)
Refused == Short \/ DOMAIN Carved.paid # Payee

MakePlan ==
  /\ ~plan.made /\ ~Refused
  /\ plan' = [made |-> TRUE, paid |-> Carved.paid, splits |-> Carved.splits]
  /\ UNCHANGED <<payees, records, wallet, known, outputs, broken, step, asked, paidBy>>

-----------------------------------------------------------------------------
(* The wallet: what lands is shown some time later.                        *)

\* Only what happens while splits are made can matter to the queue.
Splitting == plan.made /\ step <= Len(plan.splits)

Receive(amount) ==
  /\ Splitting
  /\ received < MaxIncoming
  /\ received' = received + 1
  /\ chain' = Append(chain, amount)
  /\ UNCHANGED <<payees, records, spent, shown, queue>>

Show(r) ==
  /\ Splitting
  /\ shown' = shown \cup {r}
  /\ UNCHANGED <<payees, records, chain, spent, received, queue>>

-----------------------------------------------------------------------------
(* The splits, one after another.                                          *)

Broken(ref) == ref.output # "whole" /\ ref.split \in broken

\* resolve.
Resolved(ref) ==
  CASE ref.output = "whole"     -> ref.record
    [] ref.output = "amount"    -> outputs[ref.split].amount
    [] ref.output = "remainder" -> outputs[ref.split].remainder

AtHand == plan.splits[step]

OnlyTheSplit == UNCHANGED <<payees, records, plan, paidBy>>

Break ==
  /\ broken' = broken \cup {step} /\ step' = step + 1 /\ asked' = FALSE
  /\ UNCHANGED <<wallet, known, outputs>>

\* A split that needs a broken one, is refused or rejected, or whose records do not show in time.
SplitFails ==
  /\ step <= Len(plan.splits)
  /\ Break
  /\ OnlyTheSplit

SplitAccepted ==
  /\ step <= Len(plan.splits) /\ ~asked /\ ~Broken(AtHand.source)
  /\ asked' = TRUE
  /\ spent' = spent \cup {Resolved(AtHand.source)}
  /\ chain' = chain \o <<AtHand.amount, chain[Resolved(AtHand.source)] - AtHand.amount>>
  /\ UNCHANGED <<shown, received, known, outputs, broken, step>>
  /\ OnlyTheSplit

\* Mutant: records found for an earlier split are taken again.
ShownSince == shown \ Listed

\* What the wallet shows and the queue has not seen.
Unknown == shown \ known

\* executeSplit's wait ends.
FindOutputs ==
  /\ asked
  /\ \E a, b \in Unknown :
       /\ a # b
       /\ chain[a] = AtHand.amount /\ chain[b] = AtHand.remainder
       /\ known' = known \cup {a, b}
       /\ outputs' = With(outputs, step, [amount |-> a, remainder |-> b])
  /\ step' = step + 1 /\ asked' = FALSE
  /\ UNCHANGED <<wallet, broken>>
  /\ OnlyTheSplit

-----------------------------------------------------------------------------
(* The transfers, all at once.                                             *)

SplitsDone == plan.made /\ step > Len(plan.splits)

OnlyTheTransfer == UNCHANGED <<payees, records, plan, shown, received, known, outputs, broken, step, asked>>

Transfer(p) ==
  /\ SplitsDone /\ p \notin DOMAIN paidBy
  /\ ~Broken(plan.paid[p])
  /\ paidBy' = With(paidBy, p, Resolved(plan.paid[p]))
  /\ spent' = spent \cup {Resolved(plan.paid[p])}
  /\ chain' = LET back == chain[Resolved(plan.paid[p])] - payees[p]
              IN  IF back > 0 THEN Append(chain, back) ELSE chain
  /\ OnlyTheTransfer

TransferFails(p) ==
  /\ SplitsDone /\ p \notin DOMAIN paidBy
  /\ paidBy' = With(paidBy, p, 0)
  /\ UNCHANGED <<chain, spent>>
  /\ OnlyTheTransfer

-----------------------------------------------------------------------------
PlanNext ==
  \/ MakePlan
  \/ \E amount \in RecordAmount : Receive(amount)
  \/ \E r \in DOMAIN chain \ shown : Show(r)
  \/ SplitFails \/ SplitAccepted \/ FindOutputs
  \/ \E p \in Payee : Transfer(p) \/ TransferFails(p)

PlanSpec == PlanInit /\ [][PlanNext]_planVars

-----------------------------------------------------------------------------
AmountOf(p, ref) ==
  CASE ref.output = "whole"     -> records[ref.record]
    [] ref.output = "amount"    -> p.splits[ref.split].amount
    [] ref.output = "remainder" -> p.splits[ref.split].remainder

\* Everybody has a record that is large enough.
EverybodyCovered(p) ==
  /\ DOMAIN p.paid = Payee
  /\ \A q \in Payee : AmountOf(p, p.paid[q]) >= payees[q]

\* Whatever is used is used once, and a split only uses what is there before it.
NothingShared(p) ==
  /\ \A q, r \in DOMAIN p.paid : q # r => p.paid[q] # p.paid[r]
  /\ \A k, l \in DOMAIN p.splits : k # l => p.splits[k].source # p.splits[l].source
  /\ \A k \in DOMAIN p.splits, q \in DOMAIN p.paid : p.splits[k].source # p.paid[q]
  /\ \A k \in DOMAIN p.splits : p.splits[k].source.split < k

\* What is split is what is there, and both parts hold something.
SplitsAddUp(p) ==
  \A k \in DOMAIN p.splits :
    LET s == p.splits[k]
    IN  s.amount > 0 /\ s.remainder > 0 /\ s.amount + s.remainder = AmountOf(p, s.source)

(* A plan pays everybody, from records that are each used once, with splits *)
(* in an order in which they can be made (plan.ts); and one is found        *)
(* whenever a single record covers everybody and there are fewer records    *)
(* than payees.                                                             *)
PlanIsSound ==
  /\ plan.made => EverybodyCovered(plan) /\ NothingShared(plan) /\ SplitsAddUp(plan)
  /\ Len(records) < Len(payees) /\ (\E r \in Listed : records[r] >= SumFunction(payees))
     => ~Refused

(* No two payments are made with one record, none with a record that was    *)
(* split up, and each with one that holds enough, whatever came in          *)
(* meanwhile, showed up late, or was mistaken for the output of a split     *)
(* (executeSplit looks for its outputs by their amounts).                   *)
NothingSpentTwice ==
  \A p \in DOMAIN paidBy :
    paidBy[p] # 0 =>
      /\ chain[paidBy[p]] >= payees[p]
      /\ \A q \in DOMAIN paidBy : p # q => paidBy[q] # paidBy[p]
      /\ \A k \in DOMAIN outputs :
           ~Broken(plan.splits[k].source) => Resolved(plan.splits[k].source) # paidBy[p]

(* The plan fails only when the balance is short or some payee is owed more *)
(* than any record holds (the header of plan.ts).                           *)
RefusedOnlyWhenStuck ==
  Refused => Short \/ \E p \in Payee : \A r \in Listed : records[r] < payees[p]
=============================================================================
