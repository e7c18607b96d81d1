----------------------------- MODULE SalesProofs -----------------------------
(***************************************************************************)
(* What holds of documents and their entries however many there are and    *)
(* whatever is sent, paid, backdated, voided or deleted.                   *)
(*                                                                         *)
(* SalesInv: forms and journal stay in step.  A form posts under a number  *)
(* that is new, and undoes the one entry of that number; nothing else      *)
(* posts or undoes under its name.  A draft has no entry, so that deleting *)
(* it leaves none behind.                                                  *)
(*                                                                         *)
(* HeldInv, on top of it: what stands is not paid beyond its total, and    *)
(* payments that stand pay only what stands, of who pays.                  *)
(*                                                                         *)
(* JournalInv: an entry says what its document says, and a reversal takes  *)
(* back one entry, on its day or later.  The two reports that are held     *)
(* against the journal follow: what they add up document by document is    *)
(* what the entries of these documents add up to.                          *)
(***************************************************************************)
EXTENDS Sales, FiniteSums

\* The type invariant, but for the amounts of the entries.
PapersOK ==
  /\ nextEstimate \in Nat \ {0} /\ nextInvoice \in Nat \ {0}
  /\ DOMAIN estimates \subseteq 1..(nextEstimate - 1)
  /\ DOMAIN invoices \subseteq 1..(nextInvoice - 1)
  /\ \A e \in DOMAIN estimates : estimates[e] \in Estimate
  /\ \A i \in DOMAIN invoices : invoices[i] \in Invoice
  /\ payments \in Seq(Payment)
  /\ bills \in Seq(Bill)
  /\ billPayments \in Seq(BillPayment)

\* A draft is not posted, and what was sent is.
SentIsPosted ==
  \A i \in DOMAIN invoices : /\ invoices[i].state = "draft" => ~invoices[i].posted
                             /\ invoices[i].state = "sent" => invoices[i].posted

\* InStep, form by form.
InvoicesInStep ==
  /\ \A i \in DOMAIN invoices :
       /\ HasEntry("invoice", i) <=> invoices[i].posted
       /\ IsUndone("invoice", i) <=> invoices[i].posted /\ invoices[i].state = "void"
  /\ \A ref : HasEntry("invoice", ref) \/ IsUndone("invoice", ref) => ref \in DOMAIN invoices

ListInStep(source, list) ==
  /\ \A n \in DOMAIN list : HasEntry(source, n) /\ (IsUndone(source, n) <=> list[n].void)
  /\ \A ref : HasEntry(source, ref) \/ IsUndone(source, ref) => ref \in DOMAIN list

PaymentsInStep     == ListInStep("payment", payments)
BillsInStep        == ListInStep("bill", bills)
BillPaymentsInStep == ListInStep("bill_payment", billPayments)

SalesInv ==
  /\ PapersOK /\ SentIsPosted /\ ConvertsOnce
  /\ InvoicesInStep /\ PaymentsInStep /\ BillsInStep /\ BillPaymentsInStep

-----------------------------------------------------------------------------
(* What a step does to the entries of the forms.                           *)

FormsStay ==
  \A s \in FormSource : \A r : /\ HasEntry(s, r)' <=> HasEntry(s, r)
                               /\ IsUndone(s, r)' <=> IsUndone(s, r)

PostsOnly(source, ref) ==
  \A s \in FormSource : \A r : /\ HasEntry(s, r)' <=> HasEntry(s, r) \/ (s = source /\ r = ref)
                               /\ IsUndone(s, r)' <=> IsUndone(s, r)

UndoesOnly(source, ref) ==
  \A s \in FormSource : \A r : /\ HasEntry(s, r)' <=> HasEntry(s, r)
                               /\ IsUndone(s, r)' <=> IsUndone(s, r) \/ (s = source /\ r = ref)

LEMMA JournalKept == ASSUME UNCHANGED journal PROVE FormsStay
BY DEF FormsStay, HasEntry, IsUndone

LEMMA Posting ==
  ASSUME NEW source, NEW ref, NEW date, NEW party, NEW receivable, NEW payable, NEW tax,
         PostEntry(Posted(source, ref, date, party, receivable, payable, tax))
  PROVE  PostsOnly(source, ref)
<1>. DEFINE e == Posted(source, ref, date, party, receivable, payable, tax)
<1>1. e.source = source /\ e.ref = ref /\ ~e.reversal
  BY DEF Posted
<1>2. journal' = journal \cup {e}
  BY DEF PostEntry
<1>. HIDE DEF e
<1>. QED  BY <1>1, <1>2 DEF PostsOnly, HasEntry, IsUndone

LEMMA Reversing ==
  ASSUME NEW e, Undo(e)
  PROVE  UndoesOnly(e.source, e.ref)
<1>1. PICK date \in Date : journal' = journal \cup {Mirror(e, date)}
  BY DEF Undo, ReverseEntry
<1>. DEFINE m == Mirror(e, date)
<1>2. m.source = e.source /\ m.ref = e.ref /\ m.reversal
  BY DEF Mirror
<1>. HIDE DEF m
<1>. QED  BY <1>1, <1>2 DEF UndoesOnly, HasEntry, IsUndone, m

\* A form's void undoes the entry of its own number.
LEMMA Undoing ==
  ASSUME NEW source, NEW ref, HasEntry(source, ref), Undo(EntryOf(source, ref))
  PROVE  UndoesOnly(source, ref)
<1>1. EntryOf(source, ref).source = source /\ EntryOf(source, ref).ref = ref
  BY DEF HasEntry, EntryOf
<1>. QED  BY <1>1, Reversing

\* Entries no form owns.
LEMMA LooseStep ==
  ASSUME NEW e, VoidEntry(e) \/ (\E date, tax : \E source \in {"sales_tax_payment", "manual"} :
                                   PostLoose(source, date, tax))
  PROVE  FormsStay
<1>1. CASE VoidEntry(e)
  BY <1>1, Reversing DEF VoidEntry, OwnedByForm, FormsStay, UndoesOnly
<1>2. ASSUME NEW source \in {"sales_tax_payment", "manual"}, NEW date, NEW tax,
             PostLoose(source, date, tax)
      PROVE  FormsStay
  <2>1. PostsOnly(source, loose + 1)
    BY <1>2, Posting DEF PostLoose
  <2>2. source \notin FormSource
    BY DEF FormSource
  <2>. QED  BY <2>1, <2>2 DEF FormsStay, PostsOnly
<1>. QED  BY <1>1, <1>2

-----------------------------------------------------------------------------
(* A form whose documents stay as they are stays in step, when the step    *)
(* posts and undoes for another.                                           *)

Others(source) ==
  \A r : (HasEntry(source, r)' <=> HasEntry(source, r))
         /\ (IsUndone(source, r)' <=> IsUndone(source, r))

LEMMA Elsewhere ==
  ASSUME NEW source \in FormSource,
         \/ FormsStay
         \/ \E s, r : s # source /\ (PostsOnly(s, r) \/ UndoesOnly(s, r))
  PROVE  Others(source)
BY DEF Others, FormsStay, PostsOnly, UndoesOnly

LEMMA PaymentsKept ==
  ASSUME PaymentsInStep, UNCHANGED payments, Others("payment") PROVE PaymentsInStep'
BY DEF PaymentsInStep, ListInStep, Others

LEMMA BillsKept ==
  ASSUME BillsInStep, UNCHANGED bills, Others("bill") PROVE BillsInStep'
BY DEF BillsInStep, ListInStep, Others

LEMMA BillPaymentsKept ==
  ASSUME BillPaymentsInStep, UNCHANGED billPayments, Others("bill_payment")
  PROVE  BillPaymentsInStep'
BY DEF BillPaymentsInStep, ListInStep, Others

LEMMA InvoicesKept ==
  ASSUME InvoicesInStep, UNCHANGED invoices, Others("invoice") PROVE InvoicesInStep'
BY DEF InvoicesInStep, Others

LEMMA Distinct ==
  /\ {"invoice", "payment", "bill", "bill_payment"} = FormSource
  /\ "invoice" # "payment" /\ "invoice" # "bill" /\ "invoice" # "bill_payment"
  /\ "payment" # "bill" /\ "payment" # "bill_payment" /\ "bill" # "bill_payment"
BY DEF FormSource

\* A list with one document more, and one with a document voided.
LEMMA Longer ==
  ASSUME NEW S, NEW list \in Seq(S), NEW d \in S
  PROVE  /\ Append(list, d) \in Seq(S)
         /\ DOMAIN Append(list, d) = DOMAIN list \cup {Len(list) + 1}
         /\ Len(list) + 1 \notin DOMAIN list
         /\ Append(list, d)[Len(list) + 1] = d
         /\ \A n \in DOMAIN list : Append(list, d)[n] = list[n]
OBVIOUS

LEMMA Replacing ==
  ASSUME NEW S, NEW list \in Seq(S), NEW n \in DOMAIN list, NEW d \in S
  PROVE  /\ [list EXCEPT ![n] = d] \in Seq(S)
         /\ DOMAIN [list EXCEPT ![n] = d] = DOMAIN list
         /\ [list EXCEPT ![n] = d][n] = d
         /\ \A m \in DOMAIN list : m # n => [list EXCEPT ![n] = d][m] = list[m]
OBVIOUS

\* What a payment is asked to pay is a set of applications.
LEMMA SplitsType ==
  ASSUME NEW ids \in SUBSET Nat, NEW applied \in Splits(ids)
  PROVE  applied \in Applications
<1>1. PICK S \in SUBSET ids : \E split \in [S -> Amount] :
        applied = {[id |-> i, amount |-> split[i]] : i \in S}
  BY DEF Splits
<1>2. PICK split \in [S -> Amount] : applied = {[id |-> i, amount |-> split[i]] : i \in S}
  BY <1>1
<1>3. \A i \in S : [id |-> i, amount |-> split[i]] \in [id : Nat, amount : Amount]
  OBVIOUS
<1>. QED  BY <1>2, <1>3 DEF Applications

-----------------------------------------------------------------------------
(* Payments, bills and bill payments.                                      *)

LEMMA ReceiveStep ==
  ASSUME PapersOK, PaymentsInStep,
         NEW customer \in Customer, NEW date \in Date, NEW amount \in Amount,
         NEW applied \in Splits(DOMAIN invoices), ReceivePayment(customer, date, amount, applied)
  PROVE  /\ payments' \in Seq(Payment) /\ PaymentsInStep'
         /\ \A s \in FormSource : s # "payment" => Others(s)
<1>. DEFINE p == [customer |-> customer, date |-> date, amount |-> amount, applied |-> applied,
                  void |-> FALSE]
<1>1. applied \in Applications
  BY SplitsType DEF PapersOK
<1>2. p \in Payment /\ ~p.void
  BY <1>1 DEF Payment
<1>3. payments' = Append(payments, p) /\ PostsOnly("payment", Len(payments) + 1)
  BY Posting DEF ReceivePayment
<1>. HIDE DEF p
<1>4. /\ payments' \in Seq(Payment)
      /\ DOMAIN payments' = DOMAIN payments \cup {Len(payments) + 1}
      /\ Len(payments) + 1 \notin DOMAIN payments
      /\ payments'[Len(payments) + 1] = p
      /\ \A n \in DOMAIN payments : payments'[n] = payments[n]
  BY <1>2, <1>3, Longer DEF PapersOK
<1>5. PaymentsInStep'
  BY <1>2, <1>3, <1>4, Distinct DEF PaymentsInStep, ListInStep, PostsOnly
<1>. QED  BY <1>3, <1>4, <1>5, Elsewhere

LEMMA VoidPaymentStep ==
  ASSUME PapersOK, PaymentsInStep, NEW n \in DOMAIN payments, VoidPayment(n)
  PROVE  /\ payments' \in Seq(Payment) /\ PaymentsInStep'
         /\ \A s \in FormSource : s # "payment" => Others(s)
<1>. DEFINE p == [payments[n] EXCEPT !.void = TRUE]
<1>1. UndoesOnly("payment", n)
  BY Undoing DEF VoidPayment, PaymentsInStep, ListInStep
<1>2. payments[n] \in Payment
  BY DEF PapersOK
<1>3. p \in Payment /\ p.void
  BY <1>2 DEF Payment
<1>4. payments' = [payments EXCEPT ![n] = p]
  BY DEF VoidPayment
<1>. HIDE DEF p
<1>5. /\ payments' \in Seq(Payment)
      /\ DOMAIN payments' = DOMAIN payments
      /\ payments'[n] = p
      /\ \A m \in DOMAIN payments : m # n => payments'[m] = payments[m]
  BY <1>3, <1>4, Replacing DEF PapersOK
<1>6. PaymentsInStep'
  BY <1>1, <1>3, <1>5, Distinct DEF PaymentsInStep, ListInStep, UndoesOnly
<1>. QED  BY <1>1, <1>5, <1>6, Elsewhere

LEMMA EnterStep ==
  ASSUME PapersOK, BillsInStep, NEW vendor \in Vendor, NEW date \in Date,
         NEW number \in BillNumber \cup {Unnumbered}, NEW total \in BillTotal,
         EnterBill(vendor, date, number, total)
  PROVE  /\ bills' \in Seq(Bill) /\ BillsInStep'
         /\ \A s \in FormSource : s # "bill" => Others(s)
<1>. DEFINE b == [vendor |-> vendor, date |-> date, number |-> number, total |-> total,
                  void |-> FALSE]
<1>1. b \in Bill /\ ~b.void
  BY DEF Bill
<1>2. bills' = Append(bills, b) /\ PostsOnly("bill", Len(bills) + 1)
  BY Posting DEF EnterBill
<1>. HIDE DEF b
<1>3. /\ bills' \in Seq(Bill)
      /\ DOMAIN bills' = DOMAIN bills \cup {Len(bills) + 1}
      /\ Len(bills) + 1 \notin DOMAIN bills
      /\ bills'[Len(bills) + 1] = b
      /\ \A n \in DOMAIN bills : bills'[n] = bills[n]
  BY <1>1, <1>2, Longer DEF PapersOK
<1>4. BillsInStep'
  BY <1>1, <1>2, <1>3, Distinct DEF BillsInStep, ListInStep, PostsOnly
<1>. QED  BY <1>2, <1>3, <1>4, Elsewhere

LEMMA VoidBillStep ==
  ASSUME PapersOK, BillsInStep, NEW n \in DOMAIN bills, VoidBill(n)
  PROVE  /\ bills' \in Seq(Bill) /\ BillsInStep'
         /\ \A s \in FormSource : s # "bill" => Others(s)
<1>. DEFINE b == [bills[n] EXCEPT !.void = TRUE]
<1>1. UndoesOnly("bill", n)
  BY Undoing DEF VoidBill, BillsInStep, ListInStep
<1>2. bills[n] \in Bill
  BY DEF PapersOK
<1>3. b \in Bill /\ b.void
  BY <1>2 DEF Bill
<1>4. bills' = [bills EXCEPT ![n] = b]
  BY DEF VoidBill
<1>. HIDE DEF b
<1>5. /\ bills' \in Seq(Bill)
      /\ DOMAIN bills' = DOMAIN bills
      /\ bills'[n] = b
      /\ \A m \in DOMAIN bills : m # n => bills'[m] = bills[m]
  BY <1>3, <1>4, Replacing DEF PapersOK
<1>6. BillsInStep'
  BY <1>1, <1>3, <1>5, Distinct DEF BillsInStep, ListInStep, UndoesOnly
<1>. QED  BY <1>1, <1>5, <1>6, Elsewhere

LEMMA PayBillsStep ==
  ASSUME PapersOK, BillPaymentsInStep, NEW vendor \in Vendor, NEW date \in Date,
         NEW applied \in Splits(DOMAIN bills), PayBills(vendor, date, applied)
  PROVE  /\ billPayments' \in Seq(BillPayment) /\ BillPaymentsInStep'
         /\ \A s \in FormSource : s # "bill_payment" => Others(s)
<1>. DEFINE p == [vendor |-> vendor, date |-> date, applied |-> applied, void |-> FALSE]
<1>1. DOMAIN bills \in SUBSET Nat
  BY DEF PapersOK
<1>2. applied \in Applications
  BY <1>1, SplitsType
<1>3. p \in BillPayment /\ ~p.void
  BY <1>2 DEF BillPayment
<1>4. billPayments' = Append(billPayments, p)
      /\ PostsOnly("bill_payment", Len(billPayments) + 1)
  BY Posting DEF PayBills
<1>. HIDE DEF p
<1>5. /\ billPayments' \in Seq(BillPayment)
      /\ DOMAIN billPayments' = DOMAIN billPayments \cup {Len(billPayments) + 1}
      /\ Len(billPayments) + 1 \notin DOMAIN billPayments
      /\ billPayments'[Len(billPayments) + 1] = p
      /\ \A n \in DOMAIN billPayments : billPayments'[n] = billPayments[n]
  BY <1>3, <1>4, Longer DEF PapersOK
<1>6. BillPaymentsInStep'
  BY <1>3, <1>4, <1>5, Distinct DEF BillPaymentsInStep, ListInStep, PostsOnly
<1>. QED  BY <1>4, <1>5, <1>6, Elsewhere

LEMMA VoidBillPaymentStep ==
  ASSUME PapersOK, BillPaymentsInStep, NEW n \in DOMAIN billPayments, VoidBillPayment(n)
  PROVE  /\ billPayments' \in Seq(BillPayment) /\ BillPaymentsInStep'
         /\ \A s \in FormSource : s # "bill_payment" => Others(s)
<1>. DEFINE p == [billPayments[n] EXCEPT !.void = TRUE]
<1>1. UndoesOnly("bill_payment", n)
  BY Undoing DEF VoidBillPayment, BillPaymentsInStep, ListInStep
<1>2. billPayments[n] \in BillPayment
  BY DEF PapersOK
<1>3. p \in BillPayment /\ p.void
  BY <1>2 DEF BillPayment
<1>4. billPayments' = [billPayments EXCEPT ![n] = p]
  BY DEF VoidBillPayment
<1>. HIDE DEF p
<1>5. /\ billPayments' \in Seq(BillPayment)
      /\ DOMAIN billPayments' = DOMAIN billPayments
      /\ billPayments'[n] = p
      /\ \A m \in DOMAIN billPayments : m # n => billPayments'[m] = billPayments[m]
  BY <1>3, <1>4, Replacing DEF PapersOK
<1>6. BillPaymentsInStep'
  BY <1>1, <1>3, <1>5, Distinct DEF BillPaymentsInStep, ListInStep, UndoesOnly
<1>. QED  BY <1>1, <1>5, <1>6, Elsewhere

-----------------------------------------------------------------------------
(* Estimates and invoices.                                                 *)

Papers == PapersOK /\ SentIsPosted /\ ConvertsOnce /\ InvoicesInStep

OtherLists == UNCHANGED <<payments, bills, billPayments>>

\* A document taken away.
LEMMA Taking ==
  ASSUME NEW f, NEW x
  PROVE  /\ DOMAIN Without(f, x) = DOMAIN f \ {x}
         /\ \A y \in DOMAIN f : y # x => Without(f, x)[y] = f[y]
BY DEF Without

\* Only estimates change, and none that is converted comes or goes.
LEMMA EstimatesStep ==
  ASSUME Papers, UNCHANGED <<invoices, nextInvoice, journal>>, OtherLists,
         nextEstimate' \in Nat \ {0}, DOMAIN estimates' \subseteq 1..(nextEstimate' - 1),
         \A e \in DOMAIN estimates' : estimates'[e] \in Estimate,
         \A e \in DOMAIN estimates' : e \notin DOMAIN estimates \/ estimates'[e] # estimates[e]
           => estimates'[e].state # "converted",
         \A e \in DOMAIN estimates : e \notin DOMAIN estimates' \/ estimates'[e] # estimates[e]
           => estimates[e].state # "converted"
  PROVE  Papers'
<1>. USE DEF Papers, OtherLists
<1>1. PapersOK'
  BY DEF PapersOK
<1>2. SentIsPosted'
  BY DEF SentIsPosted
<1>3. ConvertsOnce'
  BY DEF ConvertsOnce
<1>4. InvoicesInStep'
  BY InvoicesKept, JournalKept, Elsewhere, Distinct
<1>. QED  BY <1>1, <1>2, <1>3, <1>4

LEMMA CreateEstimateStep ==
  ASSUME Papers, NEW customer \in Customer, NEW date \in Date, NEW content \in Content,
         NEW send \in BOOLEAN, CreateEstimate(customer, date, content, send)
  PROVE  Papers' /\ FormsStay /\ OtherLists
<1>. DEFINE e == [customer |-> customer, date |-> date, content |-> content, invoice |-> 0,
                  state |-> IF send THEN "sent" ELSE "draft"]
<1>1. e \in Estimate /\ e.state # "converted"
  BY DEF Estimate
<1>2. estimates' = With(estimates, nextEstimate, e) /\ nextEstimate' = nextEstimate + 1
  BY DEF CreateEstimate
<1>. HIDE DEF e
<1>3. nextEstimate \notin DOMAIN estimates
  BY DEF Papers, PapersOK
<1>4. /\ DOMAIN estimates' = DOMAIN estimates \cup {nextEstimate}
      /\ estimates'[nextEstimate] = e
      /\ \A n \in DOMAIN estimates : estimates'[n] = estimates[n]
  BY <1>2, <1>3 DEF With
<1>5. OtherLists /\ UNCHANGED <<invoices, nextInvoice, journal>>
  BY DEF CreateEstimate, OnlyEstimates, OtherLists
<1>6. /\ nextEstimate' \in Nat \ {0} /\ DOMAIN estimates' \subseteq 1..(nextEstimate' - 1)
      /\ \A n \in DOMAIN estimates' : estimates'[n] \in Estimate
  BY <1>1, <1>2, <1>4 DEF Papers, PapersOK
<1>7. Papers'
  BY <1>1, <1>4, <1>5, <1>6, EstimatesStep
<1>. QED  BY <1>5, <1>7, JournalKept

\* An estimate that is not converted is changed to one that is not.
LEMMA ChangeEstimateStep ==
  ASSUME Papers, NEW e \in DOMAIN estimates, NEW value \in Estimate,
         estimates[e].state # "converted", value.state # "converted",
         estimates' = [estimates EXCEPT ![e] = value], UNCHANGED nextEstimate, OnlyEstimates
  PROVE  Papers' /\ FormsStay /\ OtherLists
<1>1. OtherLists /\ UNCHANGED <<invoices, nextInvoice, journal>>
  BY DEF OnlyEstimates, OtherLists
<1>2. DOMAIN estimates' = DOMAIN estimates
      /\ \A n \in DOMAIN estimates : estimates'[n] = IF n = e THEN value ELSE estimates[n]
  OBVIOUS
<1>3. /\ nextEstimate' \in Nat \ {0} /\ DOMAIN estimates' \subseteq 1..(nextEstimate' - 1)
      /\ \A n \in DOMAIN estimates' : estimates'[n] \in Estimate
  BY <1>2 DEF Papers, PapersOK
<1>4. Papers'
  BY <1>1, <1>2, <1>3, EstimatesStep
<1>. QED  BY <1>1, <1>4, JournalKept

LEMMA UpdateEstimateStep ==
  ASSUME Papers, NEW e \in DOMAIN estimates, NEW customer \in Customer, NEW date \in Date,
         NEW content \in Content, NEW send \in BOOLEAN,
         UpdateEstimate(e, customer, date, content, send)
  PROVE  Papers' /\ FormsStay /\ OtherLists
<1>. DEFINE value == [customer |-> customer, date |-> date, content |-> content, invoice |-> 0,
                      state |-> IF send THEN "sent" ELSE estimates[e].state]
<1>1. value \in Estimate /\ value.state # "converted" /\ estimates[e].state # "converted"
  BY DEF Estimate, UpdateEstimate
<1>2. estimates' = [estimates EXCEPT ![e] = value] /\ UNCHANGED nextEstimate /\ OnlyEstimates
  BY DEF UpdateEstimate
<1>. HIDE DEF value
<1>. QED  BY <1>1, <1>2, ChangeEstimateStep

LEMMA MarkEstimateStep ==
  ASSUME Papers, NEW e \in DOMAIN estimates, NEW state \in {"sent", "accepted", "declined"},
         MarkEstimate(e, state)
  PROVE  Papers' /\ FormsStay /\ OtherLists
<1>. DEFINE value == [estimates[e] EXCEPT !.state = state]
<1>1. estimates[e] \in Estimate
  BY DEF Papers, PapersOK
<1>2. value \in Estimate /\ value.state # "converted"
  BY <1>1 DEF Estimate
<1>3. /\ estimates' = [estimates EXCEPT ![e] = value] /\ UNCHANGED nextEstimate /\ OnlyEstimates
      /\ estimates[e].state # "converted"
  BY DEF MarkEstimate
<1>. HIDE DEF value
<1>. QED  BY <1>2, <1>3, ChangeEstimateStep

LEMMA DeleteEstimateStep ==
  ASSUME Papers, NEW e \in DOMAIN estimates, DeleteEstimate(e)
  PROVE  Papers' /\ FormsStay /\ OtherLists
<1>1. OtherLists /\ UNCHANGED <<invoices, nextInvoice, journal>>
  BY DEF DeleteEstimate, OnlyEstimates, OtherLists
<1>2. /\ DOMAIN estimates' = DOMAIN estimates \ {e}
      /\ \A n \in DOMAIN estimates : n # e => estimates'[n] = estimates[n]
      /\ estimates[e].state # "converted" /\ UNCHANGED nextEstimate
  BY Taking DEF DeleteEstimate
<1>3. Papers'
  BY <1>1, <1>2, EstimatesStep DEF Papers, PapersOK
<1>. QED  BY <1>1, <1>3, JournalKept

LEMMA ConvertStep ==
  ASSUME Papers, NEW e \in DOMAIN estimates, NEW date \in Date, Convert(e, date)
  PROVE  Papers' /\ FormsStay /\ OtherLists
<1>. USE DEF Papers
<1>. DEFINE inv == [customer |-> estimates[e].customer, date |-> date,
                    content |-> estimates[e].content, estimate |-> e, state |-> "draft",
                    posted |-> FALSE]
            value == [estimates[e] EXCEPT !.state = "converted", !.invoice = nextInvoice]
<1>1. OtherLists /\ UNCHANGED <<nextEstimate, journal>>
  BY DEF Convert, OtherLists
<1>2. estimates[e] \in Estimate /\ e \in Nat /\ e # 0
  BY DEF PapersOK
<1>3. inv \in Invoice /\ inv.estimate = e /\ inv.state = "draft" /\ ~inv.posted
  BY <1>2 DEF Estimate, Invoice
<1>4. value \in Estimate /\ value.state = "converted" /\ value.invoice = nextInvoice
  <2>1. \A x \in Estimate : \A n \in Nat :
          /\ [x EXCEPT !.state = "converted", !.invoice = n] \in Estimate
          /\ [x EXCEPT !.state = "converted", !.invoice = n].state = "converted"
          /\ [x EXCEPT !.state = "converted", !.invoice = n].invoice = n
    BY DEF Estimate
  <2>. QED  BY <1>2, <2>1 DEF PapersOK
<1>5. /\ invoices' = With(invoices, nextInvoice, inv) /\ nextInvoice' = nextInvoice + 1
      /\ estimates' = [estimates EXCEPT ![e] = value]
      /\ estimates[e].state # "converted"
  BY DEF Convert
<1>. HIDE DEF inv, value
<1>6. nextInvoice \notin DOMAIN invoices
  BY DEF PapersOK
<1>7. /\ DOMAIN invoices' = DOMAIN invoices \cup {nextInvoice}
      /\ invoices'[nextInvoice] = inv
      /\ \A i \in DOMAIN invoices : invoices'[i] = invoices[i]
  BY <1>5, <1>6 DEF With
<1>8. /\ DOMAIN estimates' = DOMAIN estimates
      /\ estimates'[e] = value
      /\ \A n \in DOMAIN estimates : n # e => estimates'[n] = estimates[n]
  BY <1>5
<1>9. PapersOK'
  BY <1>1, <1>3, <1>4, <1>5, <1>7, <1>8 DEF PapersOK, OtherLists
<1>10. SentIsPosted'
  BY <1>3, <1>7 DEF SentIsPosted
<1>11. ConvertsOnce'
  BY <1>2, <1>3, <1>4, <1>5, <1>6, <1>7, <1>8 DEF ConvertsOnce
<1>12. FormsStay /\ Others("invoice")
  BY <1>1, JournalKept, Elsewhere, Distinct
<1>13. InvoicesInStep'
  BY <1>3, <1>6, <1>7, <1>12 DEF InvoicesInStep, Others
<1>. QED  BY <1>1, <1>9, <1>10, <1>11, <1>12, <1>13

\* A draft that is saved, sent or not, under a new number or its own.
LEMMA SaveStep ==
  ASSUME Papers, NEW i, NEW inv \in Invoice, NEW send \in BOOLEAN,
         inv.state = "draft", ~inv.posted,
         i \in DOMAIN invoices => invoices[i].state = "draft" /\ inv.estimate = invoices[i].estimate,
         i \notin DOMAIN invoices => inv.estimate = 0,
         nextInvoice' \in Nat \ {0}, DOMAIN invoices \cup {i} \subseteq 1..(nextInvoice' - 1),
         SaveInvoice(i, inv, send), OnlyInvoices
  PROVE  /\ Papers' /\ OtherLists
         /\ \A s \in FormSource : s # "invoice" => Others(s)
<1>. USE DEF Papers
<1>. DEFINE sent == [inv EXCEPT !.state = "sent", !.posted = TRUE]
<1>1. OtherLists /\ UNCHANGED <<estimates, nextEstimate>>
  BY DEF OnlyInvoices, OtherLists
<1>2. /\ sent \in Invoice /\ sent.estimate = inv.estimate /\ sent.state = "sent" /\ sent.posted
  <2>1. \A x \in Invoice :
          /\ [x EXCEPT !.state = "sent", !.posted = TRUE] \in Invoice
          /\ [x EXCEPT !.state = "sent", !.posted = TRUE].estimate = x.estimate
          /\ [x EXCEPT !.state = "sent", !.posted = TRUE].state = "sent"
          /\ [x EXCEPT !.state = "sent", !.posted = TRUE].posted
    BY DEF Invoice
  <2>. QED  BY <2>1
<1>3. PICK saved \in Invoice :
        /\ invoices' = With(invoices, i, saved)
        /\ saved.estimate = inv.estimate
        /\ \/ saved.state = "draft" /\ ~saved.posted /\ FormsStay
           \/ saved.state = "sent" /\ saved.posted /\ PostsOnly("invoice", i)
  <2>1. CASE send
    <3>1. invoices' = With(invoices, i, sent) /\ PostEntry(InvoiceEntry(i, inv))
      BY <2>1 DEF SaveInvoice
    <3>2. PostsOnly("invoice", i)
      BY <3>1, Posting DEF InvoiceEntry
    <3>. QED  BY <1>2, <3>1, <3>2
  <2>2. CASE ~send
    <3>1. invoices' = With(invoices, i, inv) /\ UNCHANGED journal
      BY <2>2 DEF SaveInvoice
    <3>. QED  BY <3>1, JournalKept
  <2>. QED  BY <2>1, <2>2
<1>4. /\ DOMAIN invoices' = DOMAIN invoices \cup {i}
      /\ invoices'[i] = saved
      /\ \A n \in DOMAIN invoices : n # i => invoices'[n] = invoices[n]
  BY <1>3 DEF With
<1>5. PapersOK'
  BY <1>1, <1>4 DEF PapersOK, OtherLists
<1>6. SentIsPosted'
  BY <1>3, <1>4 DEF SentIsPosted
<1>7. ConvertsOnce'
  BY <1>1, <1>3, <1>4 DEF ConvertsOnce
<1>8. ~HasEntry("invoice", i) /\ ~IsUndone("invoice", i)
  BY DEF InvoicesInStep, SentIsPosted
<1>9. InvoicesInStep'
  <2>1. CASE FormsStay /\ saved.state = "draft" /\ ~saved.posted
    BY <1>4, <1>8, <2>1, Distinct DEF InvoicesInStep, FormsStay
  <2>2. CASE PostsOnly("invoice", i) /\ saved.state = "sent" /\ saved.posted
    BY <1>4, <1>8, <2>2, Distinct DEF InvoicesInStep, PostsOnly
  <2>. QED  BY <1>3, <2>1, <2>2
<1>10. \A s \in FormSource : s # "invoice" => Others(s)
  BY <1>3, Elsewhere
<1>. QED  BY <1>1, <1>5, <1>6, <1>7, <1>9, <1>10

LEMMA CreateInvoiceStep ==
  ASSUME Papers, NEW customer \in Customer, NEW date \in Date, NEW content \in Content,
         NEW send \in BOOLEAN, CreateInvoice(customer, date, content, send)
  PROVE  /\ Papers' /\ OtherLists
         /\ \A s \in FormSource : s # "invoice" => Others(s)
<1>. DEFINE inv == [customer |-> customer, date |-> date, content |-> content,
                    estimate |-> 0, state |-> "draft", posted |-> FALSE]
<1>1. inv \in Invoice /\ inv.state = "draft" /\ ~inv.posted /\ inv.estimate = 0
  BY DEF Invoice
<1>2. SaveInvoice(nextInvoice, inv, send) /\ OnlyInvoices /\ nextInvoice' = nextInvoice + 1
  BY DEF CreateInvoice
<1>. HIDE DEF inv
<1>3. /\ nextInvoice \notin DOMAIN invoices /\ nextInvoice' \in Nat \ {0}
      /\ DOMAIN invoices \cup {nextInvoice} \subseteq 1..(nextInvoice' - 1)
  BY <1>2 DEF Papers, PapersOK
<1>. QED  BY <1>1, <1>2, <1>3, SaveStep

LEMMA UpdateDraftStep ==
  ASSUME Papers, NEW i \in DOMAIN invoices, NEW customer \in Customer, NEW date \in Date,
         NEW content \in Content, NEW send \in BOOLEAN,
         UpdateDraft(i, customer, date, content, send)
  PROVE  /\ Papers' /\ OtherLists
         /\ \A s \in FormSource : s # "invoice" => Others(s)
<1>. DEFINE inv == [invoices[i] EXCEPT !.customer = customer, !.date = date,
                                       !.content = content]
<1>1. \A x \in Invoice :
        LET y == [x EXCEPT !.customer = customer, !.date = date, !.content = content]
        IN  y \in Invoice /\ y.state = x.state /\ y.posted = x.posted /\ y.estimate = x.estimate
  BY DEF Invoice
<1>2. invoices[i] \in Invoice /\ invoices[i].state = "draft" /\ ~invoices[i].posted
  BY DEF Papers, PapersOK, SentIsPosted, UpdateDraft
<1>3. /\ inv \in Invoice /\ inv.state = "draft" /\ ~inv.posted
      /\ inv.estimate = invoices[i].estimate
  BY <1>1, <1>2
<1>4. SaveInvoice(i, inv, send) /\ OnlyInvoices /\ UNCHANGED nextInvoice
  BY DEF UpdateDraft
<1>. HIDE DEF inv
<1>5. nextInvoice' \in Nat \ {0} /\ DOMAIN invoices \cup {i} \subseteq 1..(nextInvoice' - 1)
  BY <1>4 DEF Papers, PapersOK
<1>. QED  BY <1>2, <1>3, <1>4, <1>5, SaveStep

LEMMA SendInvoiceStep ==
  ASSUME Papers, NEW i \in DOMAIN invoices, SendInvoice(i)
  PROVE  /\ Papers' /\ OtherLists
         /\ \A s \in FormSource : s # "invoice" => Others(s)
<1>1. invoices[i] \in Invoice /\ invoices[i].state = "draft" /\ ~invoices[i].posted
  BY DEF Papers, PapersOK, SentIsPosted, SendInvoice
<1>2. SaveInvoice(i, invoices[i], TRUE) /\ OnlyInvoices /\ UNCHANGED nextInvoice
  BY DEF SendInvoice
<1>3. nextInvoice' \in Nat \ {0} /\ DOMAIN invoices \cup {i} \subseteq 1..(nextInvoice' - 1)
  BY <1>2 DEF Papers, PapersOK
<1>. QED  BY <1>1, <1>2, <1>3, SaveStep

LEMMA DeleteDraftStep ==
  ASSUME Papers, NEW i \in DOMAIN invoices, DeleteDraft(i)
  PROVE  Papers' /\ FormsStay /\ OtherLists
<1>. USE DEF Papers
<1>1. OtherLists /\ UNCHANGED <<nextEstimate, nextInvoice, journal>>
  BY DEF DeleteDraft, OtherLists
<1>2. /\ DOMAIN invoices' = DOMAIN invoices \ {i}
      /\ \A n \in DOMAIN invoices : n # i => invoices'[n] = invoices[n]
      /\ invoices[i].state = "draft" /\ ~invoices[i].posted
  BY Taking DEF DeleteDraft, SentIsPosted
<1>3. \A x \in Estimate : [x EXCEPT !.invoice = 0, !.state = "accepted"] \in Estimate
                          /\ [x EXCEPT !.invoice = 0, !.state = "accepted"].state = "accepted"
  BY DEF Estimate
<1>4. /\ DOMAIN estimates' = DOMAIN estimates
      /\ \A e \in DOMAIN estimates :
           /\ estimates'[e] \in Estimate
           /\ e = invoices[i].estimate /\ estimates[e].invoice = i
              => estimates'[e].state = "accepted"
           /\ ~(e = invoices[i].estimate /\ estimates[e].invoice = i)
              => estimates'[e] = estimates[e]
  BY <1>3 DEF DeleteDraft, PapersOK
<1>5. PapersOK'
  BY <1>1, <1>2, <1>4 DEF PapersOK, OtherLists
<1>6. SentIsPosted'
  BY <1>2 DEF SentIsPosted
<1>7. ConvertsOnce'
  BY <1>2, <1>4 DEF ConvertsOnce
<1>8. FormsStay /\ Others("invoice")
  BY <1>1, JournalKept, Elsewhere, Distinct
<1>9. InvoicesInStep'
  BY <1>2, <1>8 DEF InvoicesInStep, Others
<1>. QED  BY <1>1, <1>5, <1>6, <1>7, <1>8, <1>9

LEMMA VoidInvoiceStep ==
  ASSUME Papers, NEW i \in DOMAIN invoices, VoidInvoice(i)
  PROVE  /\ Papers' /\ OtherLists
         /\ \A s \in FormSource : s # "invoice" => Others(s)
<1>. USE DEF Papers
<1>. DEFINE inv == [invoices[i] EXCEPT !.state = "void"]
<1>1. OtherLists /\ UNCHANGED <<estimates, nextEstimate, nextInvoice>>
  BY DEF VoidInvoice, OnlyInvoices, OtherLists
<1>2. invoices[i] \in Invoice /\ invoices[i].state \in {"draft", "sent"}
  BY DEF PapersOK, VoidInvoice, Invoice
<1>3. /\ inv \in Invoice /\ inv.state = "void" /\ inv.estimate = invoices[i].estimate
      /\ inv.posted = invoices[i].posted
  BY <1>2 DEF Invoice
<1>4. invoices' = [invoices EXCEPT ![i] = inv]
  BY DEF VoidInvoice
<1>. HIDE DEF inv
<1>5. /\ DOMAIN invoices' = DOMAIN invoices
      /\ invoices'[i] = inv
      /\ \A n \in DOMAIN invoices : n # i => invoices'[n] = invoices[n]
  BY <1>4
<1>6. \/ ~invoices[i].posted /\ FormsStay
      \/ invoices[i].posted /\ UndoesOnly("invoice", i)
  <2>1. CASE invoices[i].state = "draft"
    BY <2>1, JournalKept DEF VoidInvoice, SentIsPosted
  <2>2. CASE invoices[i].state = "sent"
    BY <2>2, Undoing DEF VoidInvoice, SentIsPosted, InvoicesInStep
  <2>. QED  BY <1>2, <2>1, <2>2
<1>7. PapersOK'
  BY <1>1, <1>3, <1>5 DEF PapersOK, OtherLists
<1>8. SentIsPosted'
  BY <1>3, <1>5 DEF SentIsPosted
<1>9. ConvertsOnce'
  BY <1>1, <1>3, <1>5 DEF ConvertsOnce
<1>10. InvoicesInStep'
  <2>1. CASE ~invoices[i].posted /\ FormsStay
    BY <1>3, <1>5, <2>1, Distinct DEF InvoicesInStep, FormsStay
  <2>2. CASE invoices[i].posted /\ UndoesOnly("invoice", i)
    BY <1>3, <1>5, <2>2, Distinct DEF InvoicesInStep, UndoesOnly
  <2>. QED  BY <1>6, <2>1, <2>2
<1>11. \A s \in FormSource : s # "invoice" => Others(s)
  BY <1>6, Elsewhere
<1>. QED  BY <1>1, <1>7, <1>8, <1>9, <1>10, <1>11

-----------------------------------------------------------------------------
(* All steps.                                                              *)

LEMMA QuoteStep ==
  ASSUME Papers, Quote
  PROVE  Papers' /\ FormsStay /\ OtherLists
BY CreateEstimateStep, UpdateEstimateStep, MarkEstimateStep, DeleteEstimateStep, ConvertStep
   DEF Quote

\* The other lists go on as they were.
LEMMA ListsKept ==
  ASSUME SalesInv, OtherLists, \A s \in FormSource : s # "invoice" => Others(s)
  PROVE  PaymentsInStep' /\ BillsInStep' /\ BillPaymentsInStep'
BY PaymentsKept, BillsKept, BillPaymentsKept, Distinct DEF SalesInv, OtherLists

LEMMA InvoicingStep ==
  ASSUME SalesInv, Invoicing
  PROVE  SalesInv'
<1>1. Papers
  BY DEF SalesInv, Papers
<1>2. ASSUME Papers', OtherLists, \A s \in FormSource : s # "invoice" => Others(s)
      PROVE  SalesInv'
  BY <1>2, ListsKept DEF SalesInv, Papers
<1>3. ASSUME NEW customer \in Customer, NEW date \in Date, NEW content \in Content,
             NEW send \in BOOLEAN,
             \/ CreateInvoice(customer, date, content, send)
             \/ \E i \in DOMAIN invoices : UpdateDraft(i, customer, date, content, send)
      PROVE  SalesInv'
  BY <1>1, <1>2, <1>3, CreateInvoiceStep, UpdateDraftStep
<1>4. ASSUME NEW i \in DOMAIN invoices, SendInvoice(i) \/ VoidInvoice(i)
      PROVE  SalesInv'
  BY <1>1, <1>2, <1>4, SendInvoiceStep, VoidInvoiceStep
<1>5. ASSUME NEW i \in DOMAIN invoices, DeleteDraft(i)
      PROVE  SalesInv'
  BY <1>1, <1>2, <1>5, DeleteDraftStep, Elsewhere
<1>6. ASSUME payments' \in Seq(Payment), PaymentsInStep', OnlyPayments,
             \A s \in FormSource : s # "payment" => Others(s)
      PROVE  SalesInv'
  <2>1. PapersOK'
    BY <1>6 DEF SalesInv, PapersOK, OnlyPayments
  <2>2. SentIsPosted' /\ ConvertsOnce'
    BY <1>6 DEF SalesInv, SentIsPosted, ConvertsOnce, OnlyPayments
  <2>3. InvoicesInStep' /\ BillsInStep' /\ BillPaymentsInStep'
    BY <1>6, InvoicesKept, BillsKept, BillPaymentsKept, Distinct DEF SalesInv, OnlyPayments
  <2>. QED  BY <1>6, <2>1, <2>2, <2>3 DEF SalesInv
<1>7. ASSUME NEW customer \in Customer, NEW date \in Date, NEW amount \in Amount,
             NEW applied \in Splits(DOMAIN invoices),
             ReceivePayment(customer, date, amount, applied)
      PROVE  SalesInv'
  BY <1>6, <1>7, ReceiveStep DEF SalesInv, ReceivePayment
<1>8. ASSUME NEW n \in DOMAIN payments, VoidPayment(n)
      PROVE  SalesInv'
  BY <1>6, <1>8, VoidPaymentStep DEF SalesInv, VoidPayment
<1>. QED  BY <1>3, <1>4, <1>5, <1>7, <1>8 DEF Invoicing

LEMMA BillingStep ==
  ASSUME SalesInv, Billing
  PROVE  SalesInv'
<1>1. ASSUME bills' \in Seq(Bill), billPayments' \in Seq(BillPayment), OnlyBills,
             BillsInStep', BillPaymentsInStep', Others("invoice"), Others("payment")
      PROVE  SalesInv'
  <2>1. PapersOK'
    BY <1>1 DEF SalesInv, PapersOK, OnlyBills
  <2>2. SentIsPosted' /\ ConvertsOnce'
    BY <1>1 DEF SalesInv, SentIsPosted, ConvertsOnce, OnlyBills
  <2>3. InvoicesInStep' /\ PaymentsInStep'
    BY <1>1, InvoicesKept, PaymentsKept DEF SalesInv, OnlyBills
  <2>. QED  BY <1>1, <2>1, <2>2, <2>3 DEF SalesInv
<1>2. ASSUME OnlyBills, UNCHANGED billPayments, bills' \in Seq(Bill), BillsInStep',
             \A s \in FormSource : s # "bill" => Others(s)
      PROVE  SalesInv'
  BY <1>1, <1>2, BillPaymentsKept, Distinct DEF SalesInv, PapersOK
<1>3. ASSUME OnlyBills, UNCHANGED bills, billPayments' \in Seq(BillPayment), BillPaymentsInStep',
             \A s \in FormSource : s # "bill_payment" => Others(s)
      PROVE  SalesInv'
  BY <1>1, <1>3, BillsKept, Distinct DEF SalesInv, PapersOK
<1>4. ASSUME NEW vendor \in Vendor, NEW date \in Date,
             NEW number \in BillNumber \cup {Unnumbered}, NEW total \in BillTotal,
             EnterBill(vendor, date, number, total)
      PROVE  SalesInv'
  BY <1>2, <1>4, EnterStep DEF SalesInv, EnterBill
<1>5. ASSUME NEW b \in DOMAIN bills, VoidBill(b)
      PROVE  SalesInv'
  BY <1>2, <1>5, VoidBillStep DEF SalesInv, VoidBill
<1>6. ASSUME NEW vendor \in Vendor, NEW date \in Date, NEW applied \in Splits(DOMAIN bills),
             PayBills(vendor, date, applied)
      PROVE  SalesInv'
  BY <1>3, <1>6, PayBillsStep DEF SalesInv, PayBills
<1>7. ASSUME NEW n \in DOMAIN billPayments, VoidBillPayment(n)
      PROVE  SalesInv'
  BY <1>3, <1>7, VoidBillPaymentStep DEF SalesInv, VoidBillPayment
<1>. QED  BY <1>4, <1>5, <1>6, <1>7 DEF Billing

LEMMA SalesStep ==
  ASSUME SalesInv, [Next]_vars
  PROVE  SalesInv'
<1>1. ASSUME UNCHANGED salesVars, FormsStay
      PROVE  SalesInv'
  <2>1. PapersOK' /\ SentIsPosted' /\ ConvertsOnce'
    BY <1>1 DEF salesVars, SalesInv, PapersOK, SentIsPosted, ConvertsOnce
  <2>2. InvoicesInStep' /\ PaymentsInStep' /\ BillsInStep' /\ BillPaymentsInStep'
    BY <1>1, Elsewhere, Distinct, InvoicesKept, PaymentsKept, BillsKept, BillPaymentsKept
       DEF salesVars, SalesInv
  <2>. QED  BY <2>1, <2>2 DEF SalesInv
<1>2. CASE Quote
  <2>1. Papers' /\ FormsStay /\ OtherLists
    BY <1>2, QuoteStep DEF SalesInv, Papers
  <2>. QED  BY <2>1, ListsKept, Elsewhere DEF SalesInv, Papers
<1>3. CASE Journal
  <2>1. ASSUME NEW date, NEW amount,
               \/ PostLoose("sales_tax_payment", date, -amount)
               \/ PostLoose("manual", date, amount)
        PROVE  SalesInv'
    BY <1>1, <2>1, LooseStep DEF PostLoose
  <2>2. ASSUME NEW e, VoidEntry(e)
        PROVE  SalesInv'
    BY <1>1, <2>2, LooseStep DEF VoidEntry
  <2>3. ASSUME NEW date, MoveMarks(date)
        PROVE  SalesInv'
    BY <1>1, <2>3, JournalKept DEF MoveMarks
  <2>. QED  BY <1>3, <2>1, <2>2, <2>3 DEF Journal
<1>4. ASSUME NEW p, SetActive(p)
      PROVE  SalesInv'
  BY <1>1, <1>4, JournalKept DEF SetActive
<1>5. CASE UNCHANGED vars
  BY <1>1, <1>5, JournalKept DEF vars
<1>. QED  BY <1>2, <1>3, <1>4, <1>5, InvoicingStep, BillingStep DEF Next

-----------------------------------------------------------------------------
\* The invariant of the documents and the forms' entries together.
THEOREM SalesCorrect == Spec => []SalesInv
<1>1. Init => SalesInv
  <2>. SUFFICES ASSUME Init PROVE SalesInv
    OBVIOUS
  <2>1. PapersOK
    BY DEF Init, PapersOK
  <2>2. \A s, r : ~HasEntry(s, r) /\ ~IsUndone(s, r)
    BY DEF Init, HasEntry, IsUndone
  <2>3. DOMAIN invoices = {} /\ DOMAIN estimates = {} /\ DOMAIN payments = {}
        /\ DOMAIN bills = {} /\ DOMAIN billPayments = {}
    BY DEF Init
  <2>. QED
    BY <2>1, <2>2, <2>3 DEF SalesInv, SentIsPosted, ConvertsOnce, InvoicesInStep,
       PaymentsInStep, BillsInStep, BillPaymentsInStep, ListInStep
<1>2. SalesInv /\ [Next]_vars => SalesInv'
  BY SalesStep
<1>. QED  BY <1>1, <1>2, PTL DEF Spec

\* The forms and the journal say the same (voidWithFallback, ownerOf): no entry of a form is
\* missing, undone behind the document, or left by a draft that was deleted.
THEOREM AlwaysInStep == Spec => []InStep
<1>1. SalesInv => InStep
  <2>. SUFFICES ASSUME SalesInv PROVE InStep
    OBVIOUS
  <2>1. ASSUME NEW e \in journal
        PROVE  HasEntry(e.source, e.ref) \/ IsUndone(e.source, e.ref)
    BY DEF HasEntry, IsUndone
  <2>. QED
    BY <2>1 DEF SalesInv, InStep, InvoicesInStep, PaymentsInStep, BillsInStep,
       BillPaymentsInStep, ListInStep
<1>. QED  BY <1>1, SalesCorrect, PTL

\* An estimate has one invoice, and each points at the other (convertEstimateToInvoice).
THEOREM AlwaysConvertsOnce == Spec => []ConvertsOnce
<1>1. SalesInv => ConvertsOnce
  BY DEF SalesInv
<1>. QED  BY <1>1, SalesCorrect, PTL

-----------------------------------------------------------------------------
(* What is paid.                                                           *)

\* A payment pays finitely many documents, each of them once.
IsSplit(applied) ==
  /\ IsFiniteSet(applied)
  /\ \A a \in applied : a.id \in Nat /\ a.amount \in Nat \ {0}
  /\ \A a, b \in applied : a.id = b.id => a = b

IsList(list) ==
  /\ Len(list) \in Nat /\ DOMAIN list = 1..Len(list)
  /\ \A n \in DOMAIN list : /\ list[n].void \in BOOLEAN
                            /\ list[n].date \in Date
                            /\ IsSplit(list[n].applied)

\* What a payment applies is a number, of whatever documents.
LEMMA AppliedIs ==
  ASSUME NEW applied, IsSplit(applied)
  PROVE  /\ AppliedSum(applied) \in Nat
         /\ \A a \in applied : a.amount <= AppliedSum(applied)
<1>. DEFINE f == [a \in applied |-> a.amount]
<1>1. \A a \in applied : f[a] \in Nat
  BY DEF IsSplit
<1>2. AppliedSum(applied) = Over(applied, f)
  BY DEF AppliedSum, Over
<1>3. \A a \in applied : f[a] = a.amount
  OBVIOUS
<1>. HIDE DEF f
<1>. QED  BY <1>1, <1>2, <1>3, SumNat DEF IsSplit

\* And so is what it applies to one.
LEMMA AppliedOne ==
  ASSUME NEW applied, IsSplit(applied), NEW a \in applied
  PROVE  AppliedSum({a}) = a.amount
<1>. DEFINE f == [b \in {a} |-> b.amount]
<1>1. AppliedSum({a}) = Over({a}, f)
  BY DEF AppliedSum, Over
<1>2. Over({} \cup {a}, f) = Over({}, f) + f[a]
  <2>1. IsFiniteSet({}) /\ IntOn({}, f) /\ a \notin {} /\ f[a] \in Int
    BY FS_EmptySet DEF IntOn, IsSplit
  <2>. HIDE DEF f
  <2>. QED  BY <2>1, SumWith
<1>3. {} \cup {a} = {a} /\ f[a] = a.amount /\ a.amount \in Nat
  BY DEF IsSplit
<1>. HIDE DEF f
<1>. QED  BY <1>1, <1>2, <1>3, SumNone

\* A document is paid by the one application to it.
LEMMA AppliedToIs ==
  ASSUME NEW p, IsSplit(p.applied), NEW id
  PROVE  /\ AppliedTo(p, id) \in Nat
         /\ \A a \in p.applied : a.id = id => AppliedTo(p, id) = a.amount
         /\ (\A a \in p.applied : a.id # id) => AppliedTo(p, id) = 0
<1>. DEFINE S == {a \in p.applied : a.id = id}
<1>1. IsSplit(S)
  BY FS_Subset DEF IsSplit
<1>2. AppliedTo(p, id) = AppliedSum(S)
  BY DEF AppliedTo
<1>3. ASSUME NEW a \in p.applied, a.id = id
      PROVE  AppliedTo(p, id) = a.amount
  <2>1. S = {a}
    BY <1>3 DEF IsSplit
  <2>. QED  BY <1>2, <2>1, AppliedOne
<1>4. ASSUME \A a \in p.applied : a.id # id
      PROVE  AppliedTo(p, id) = 0
  <2>1. S = {}
    BY <1>4
  <2>2. AppliedSum({}) = Over({}, [a \in {} |-> a.amount])
    BY DEF AppliedSum, Over
  <2>. QED  BY <1>2, <2>1, <2>2, SumNone
<1>. QED  BY <1>1, <1>2, <1>3, <1>4, AppliedIs

\* Each document is paid by a sum over the payments that stand.
PaysOf(list, id) == [n \in DOMAIN list |-> AppliedTo(list[n], id)]

\* Paid is such a sum.
LEMMA PaidIs ==
  ASSUME NEW list, IsList(list), NEW id, NEW asOf \in Int
  PROVE  /\ Paid(list, id, asOf) = Over(Live(list, asOf), PaysOf(list, id))
         /\ IsFiniteSet(Live(list, asOf))
         /\ \A n \in DOMAIN list : PaysOf(list, id)[n] \in Nat
         /\ Paid(list, id, asOf) \in Nat
         /\ \A n \in Live(list, asOf) : AppliedTo(list[n], id) <= Paid(list, id, asOf)
<1>1. Live(list, asOf) \subseteq DOMAIN list
  BY DEF Live
<1>2. Paid(list, id, asOf) = Over(Live(list, asOf), PaysOf(list, id))
  <2>1. [n \in Live(list, asOf) |-> PaysOf(list, id)[n]]
          = [n \in Live(list, asOf) |-> AppliedTo(list[n], id)]
    BY <1>1 DEF PaysOf
  <2>. QED  BY <2>1 DEF Paid, Over
<1>3. IsFiniteSet(Live(list, asOf))
  <2>1. IsFiniteSet(DOMAIN list)
    BY FS_Interval DEF IsList
  <2>. QED  BY <1>1, <2>1, FS_Subset
<1>4. \A n \in DOMAIN list : PaysOf(list, id)[n] = AppliedTo(list[n], id)
                             /\ AppliedTo(list[n], id) \in Nat
  BY AppliedToIs DEF IsList, PaysOf
<1>. QED  BY <1>1, <1>2, <1>3, <1>4, SumNat

\* What live payments leave out is not paid.
LEMMA Unpaid ==
  ASSUME NEW list, IsList(list), NEW id, NEW asOf \in Int,
         \A n \in Live(list, asOf) : \A a \in list[n].applied : a.id # id
  PROVE  Paid(list, id, asOf) = 0
<1>1. \A n \in Live(list, asOf) : n \in DOMAIN list /\ IsSplit(list[n].applied)
  BY DEF Live, IsList
<1>2. \A n \in Live(list, asOf) : PaysOf(list, id)[n] = 0
  BY <1>1, AppliedToIs DEF PaysOf
<1>. QED  BY <1>2, PaidIs, SumZero

\* And what is not paid, they leave out.
LEMMA LeftOut ==
  ASSUME NEW list, IsList(list), NEW id, NEW asOf \in Int, Paid(list, id, asOf) = 0
  PROVE  \A n \in Live(list, asOf) : \A a \in list[n].applied : a.id # id
<1>. SUFFICES ASSUME NEW n \in Live(list, asOf), NEW a \in list[n].applied, a.id = id
              PROVE  FALSE
  OBVIOUS
<1>1. IsSplit(list[n].applied)
  BY DEF Live, IsList
<1>2. AppliedTo(list[n], id) = a.amount /\ a.amount \in Nat \ {0}
  BY <1>1, AppliedToIs DEF IsSplit
<1>3. AppliedTo(list[n], id) <= 0
  BY PaidIs
<1>. QED  BY <1>2, <1>3

\* A payment more.
LEMMA PaidMore ==
  ASSUME NEW list, IsList(list), NEW more, IsList(more), NEW id, NEW asOf \in Int,
         Len(more) = Len(list) + 1,
         \A n \in DOMAIN list : more[n] = list[n]
  PROVE  /\ Len(more) \in Live(more, asOf) =>
              Paid(more, id, asOf) = Paid(list, id, asOf) + AppliedTo(more[Len(more)], id)
         /\ Len(more) \notin Live(more, asOf) => Paid(more, id, asOf) = Paid(list, id, asOf)
<1>. DEFINE n == Len(more)
            L == Live(more, asOf)
            f == PaysOf(more, id)
<1>1. L \ {n} = Live(list, asOf)
  BY DEF Live, IsList
<1>2. \A m \in Live(list, asOf) : f[m] = PaysOf(list, id)[m]
  BY DEF Live, PaysOf, IsList
<1>3. IntOn(L, f) /\ IsFiniteSet(L) /\ Paid(more, id, asOf) = Over(L, f)
  <2>1. \A m \in L : m \in DOMAIN more
    BY DEF Live
  <2>2. \A m \in L : f[m] \in Nat
    BY <2>1, PaidIs
  <2>. QED  BY <2>2, PaidIs DEF IntOn
<1>4. n \in L => f[n] = AppliedTo(more[n], id)
  BY DEF PaysOf, Live
<1>. HIDE DEF f, n, L
<1>5. /\ n \in L => Over(L, f) = Over(L \ {n}, f) + f[n]
      /\ n \notin L => Over(L, f) = Over(L \ {n}, f)
  BY <1>3, SumBut
<1>6. Over(L \ {n}, f) = Paid(list, id, asOf)
  <2>1. Over(Live(list, asOf), f) = Over(Live(list, asOf), PaysOf(list, id))
    BY <1>2, SumSame
  <2>2. Paid(list, id, asOf) = Over(Live(list, asOf), PaysOf(list, id))
    BY PaidIs
  <2>. QED  BY <1>1, <2>1, <2>2
<1>. QED  BY <1>3, <1>4, <1>5, <1>6 DEF n, L

\* A payment that stands no longer.
LEMMA PaidLess ==
  ASSUME NEW list, IsList(list), NEW less, IsList(less), NEW id, NEW asOf \in Int,
         DOMAIN less = DOMAIN list, NEW n \in DOMAIN list, less[n].void, ~list[n].void,
         \A m \in DOMAIN list : m # n => less[m] = list[m]
  PROVE  /\ n \in Live(list, asOf) =>
              Paid(list, id, asOf) = Paid(less, id, asOf) + AppliedTo(list[n], id)
         /\ n \notin Live(list, asOf) => Paid(list, id, asOf) = Paid(less, id, asOf)
<1>. DEFINE L == Live(list, asOf)
            f == PaysOf(list, id)
<1>1. L \ {n} = Live(less, asOf)
  BY DEF Live, IsList
<1>2. \A m \in Live(less, asOf) : f[m] = PaysOf(less, id)[m]
  <2>1. \A m \in Live(less, asOf) : m \in DOMAIN list /\ m # n
    BY DEF Live
  <2>. QED  BY <2>1 DEF PaysOf
<1>3. IntOn(L, f) /\ IsFiniteSet(L) /\ Paid(list, id, asOf) = Over(L, f)
  <2>1. \A m \in L : m \in DOMAIN list
    BY DEF Live
  <2>2. \A m \in L : f[m] \in Nat
    BY <2>1, PaidIs
  <2>. QED  BY <2>2, PaidIs DEF IntOn
<1>4. n \in L => f[n] = AppliedTo(list[n], id)
  BY DEF PaysOf, Live
<1>. HIDE DEF f, L
<1>5. /\ n \in L => Over(L, f) = Over(L \ {n}, f) + f[n]
      /\ n \notin L => Over(L, f) = Over(L \ {n}, f)
  BY <1>3, SumBut
<1>6. Over(L \ {n}, f) = Paid(less, id, asOf)
  BY <1>1, <1>2, PaidIs, SumSame
<1>. QED  BY <1>3, <1>4, <1>5, <1>6 DEF L

-----------------------------------------------------------------------------
(* What live payments may pay: documents of S, of who pays, and none above *)
(* what is owed.                                                           *)

Held(list, payer, S, owed, who) ==
  /\ IsList(list)
  /\ \A i \in S : owed[i] \in Nat /\ Paid(list, i, LastDate) <= owed[i]
  /\ \A n \in DOMAIN list : ~list[n].void =>
       \A a \in list[n].applied : a.id \in S /\ who[a.id] = payer[n]

\* On the last day, every payment has been made.
LEMMA LiveByTheEnd ==
  ASSUME NEW list, IsList(list)
  PROVE  LastDate \in Int /\ Live(list, LastDate) = {n \in DOMAIN list : ~list[n].void}
BY DateAssumption DEF Live, IsList, Date

\* Documents come, and those that are paid for stay as they are.
LEMMA HeldMoreDocuments ==
  ASSUME NEW list, NEW payer, NEW S, NEW owed, NEW who, Held(list, payer, S, owed, who),
         NEW T, S \subseteq T, NEW owing, NEW whose,
         \A i \in S : owing[i] = owed[i] /\ whose[i] = who[i],
         \A i \in T : owing[i] \in Nat
  PROVE  Held(list, payer, T, owing, whose)
<1>1. ASSUME NEW i \in T, i \notin S
      PROVE  Paid(list, i, LastDate) = 0
  <2>1. \A n \in Live(list, LastDate) : \A a \in list[n].applied : a.id # i
    BY <1>1, LiveByTheEnd DEF Held
  <2>. QED  BY <2>1, LiveByTheEnd, Unpaid DEF Held
<1>2. \A i \in T : Paid(list, i, LastDate) <= owing[i]
  BY <1>1 DEF Held
<1>. QED  BY <1>2 DEF Held

\* A document nothing is paid of goes.
LEMMA HeldLessDocuments ==
  ASSUME NEW list, NEW payer, NEW S, NEW owed, NEW who, Held(list, payer, S, owed, who),
         NEW i, Paid(list, i, LastDate) = 0,
         NEW owing, NEW whose,
         \A j \in S \ {i} : owing[j] = owed[j] /\ whose[j] = who[j]
  PROVE  Held(list, payer, S \ {i}, owing, whose)
<1>1. \A n \in DOMAIN list : ~list[n].void => \A a \in list[n].applied : a.id # i
  <2>1. \A n \in Live(list, LastDate) : \A a \in list[n].applied : a.id # i
    BY LiveByTheEnd, LeftOut DEF Held
  <2>. QED  BY <2>1, LiveByTheEnd DEF Held
<1>. QED  BY <1>1 DEF Held

\* A payment that pays nothing beyond the balance.
LEMMA HeldMorePayments ==
  ASSUME NEW list, NEW payer, NEW S, NEW owed, NEW who, Held(list, payer, S, owed, who),
         NEW more, IsList(more), Len(more) = Len(list) + 1,
         \A n \in DOMAIN list : more[n] = list[n],
         NEW payers, \A n \in DOMAIN list : payers[n] = payer[n],
         ~more[Len(more)].void,
         \A a \in more[Len(more)].applied :
           /\ a.id \in S /\ who[a.id] = payers[Len(more)]
           /\ a.amount <= owed[a.id] - Paid(list, a.id, LastDate)
  PROVE  Held(more, payers, S, owed, who)
<1>. DEFINE p == more[Len(more)]
<1>1. IsList(list) /\ LastDate \in Int
  BY LiveByTheEnd DEF Held
<1>2. Len(more) \in Live(more, LastDate) /\ IsSplit(p.applied)
  <2>1. Len(more) \in DOMAIN more
    BY <1>1 DEF IsList
  <2>. QED  BY <2>1, LiveByTheEnd DEF IsList
<1>3. ASSUME NEW i \in S
      PROVE  Paid(more, i, LastDate) <= owed[i]
  <2>1. Paid(more, i, LastDate) = Paid(list, i, LastDate) + AppliedTo(p, i)
    BY <1>1, <1>2, PaidMore
  <2>2. Paid(list, i, LastDate) \in Nat
    BY <1>1, PaidIs
  <2>3. owed[i] \in Nat /\ Paid(list, i, LastDate) <= owed[i]
    BY DEF Held
  <2>4. CASE \E a \in p.applied : a.id = i
    <3>1. PICK a \in p.applied : a.id = i
      BY <2>4
    <3>2. AppliedTo(p, i) = a.amount /\ a.amount \in Nat
      BY <1>2, <3>1, AppliedToIs DEF IsSplit
    <3>3. a.amount <= owed[i] - Paid(list, i, LastDate)
      BY <3>1
    <3>. QED  BY <2>1, <2>2, <2>3, <3>2, <3>3
  <2>5. CASE \A a \in p.applied : a.id # i
    <3>1. AppliedTo(p, i) = 0
      BY <1>2, <2>5, AppliedToIs
    <3>. QED  BY <2>1, <2>2, <2>3, <3>1
  <2>. QED  BY <2>4, <2>5
<1>4. ASSUME NEW n \in DOMAIN more, ~more[n].void, NEW a \in more[n].applied
      PROVE  a.id \in S /\ who[a.id] = payers[n]
  <2>1. CASE n \in DOMAIN list
    BY <1>4, <2>1 DEF Held
  <2>2. CASE n \notin DOMAIN list
    <3>1. n = Len(more)
      BY <1>1, <2>2 DEF IsList
    <3>. QED  BY <1>4, <3>1
  <2>. QED  BY <2>1, <2>2
<1>5. \A i \in S : owed[i] \in Nat
  BY DEF Held
<1>. QED  BY <1>3, <1>4, <1>5 DEF Held

\* A payment is voided.
LEMMA HeldLessPayments ==
  ASSUME NEW list, NEW payer, NEW S, NEW owed, NEW who, Held(list, payer, S, owed, who),
         NEW less, IsList(less), DOMAIN less = DOMAIN list,
         NEW n \in DOMAIN list, less[n].void, ~list[n].void,
         \A m \in DOMAIN list : m # n => less[m] = list[m],
         NEW payers, \A m \in DOMAIN list : payers[m] = payer[m]
  PROVE  Held(less, payers, S, owed, who)
<1>1. IsList(list) /\ LastDate \in Int /\ n \in Live(list, LastDate)
  BY LiveByTheEnd DEF Held
<1>2. ASSUME NEW i \in S
      PROVE  Paid(less, i, LastDate) <= owed[i]
  <2>1. Paid(list, i, LastDate) = Paid(less, i, LastDate) + AppliedTo(list[n], i)
    BY <1>1, PaidLess
  <2>2. AppliedTo(list[n], i) \in Nat
    BY <1>1, AppliedToIs DEF IsList
  <2>3. Paid(less, i, LastDate) \in Nat
    BY <1>1, PaidIs
  <2>4. owed[i] \in Nat /\ Paid(list, i, LastDate) <= owed[i]
    BY DEF Held
  <2>. QED  BY <2>1, <2>2, <2>3, <2>4
<1>3. \A i \in S : owed[i] \in Nat
  BY DEF Held
<1>4. ASSUME NEW m \in DOMAIN less, ~less[m].void
      PROVE  \A a \in less[m].applied : a.id \in S /\ who[a.id] = payers[m]
  BY <1>4 DEF Held
<1>. QED  BY <1>2, <1>3, <1>4 DEF Held

-----------------------------------------------------------------------------
(* Nothing is paid beyond its total.                                       *)

Sent    == {i \in DOMAIN invoices : invoices[i].state = "sent"}
Entered == {b \in DOMAIN bills : ~bills[b].void}

InvoicesHeld ==
  Held(payments, [n \in DOMAIN payments |-> payments[n].customer],
       Sent, [i \in Sent |-> Total(invoices[i].content)], [i \in Sent |-> invoices[i].customer])

BillsHeld ==
  Held(billPayments, [n \in DOMAIN billPayments |-> billPayments[n].vendor],
       Entered, [b \in Entered |-> bills[b].total], [b \in Entered |-> bills[b].vendor])

\* A total is no less than nothing.
LEMMA LineAmountType ==
  ASSUME NEW l \in Line
  PROVE  LineAmount(l) \in Nat
<1>1. l.quantity \in Nat /\ l.unitPrice \in Nat
  BY DEF Line
<1>2. \A q, u \in Nat : q * u \in Nat
  OBVIOUS
<1>3. \A n \in Nat : (n + 50) \div 100 \in Nat
  OBVIOUS
<1>. QED  BY <1>1, <1>2, <1>3 DEF LineAmount

\* Totals and taxes are amounts.
LEMMA TotalType ==
  ASSUME NEW content \in Content
  PROVE  Total(content) \in Nat /\ Tax(content) \in Nat
<1>1. content.lines \in Seq(Line) /\ content.taxRateBp \in Nat
  <2>1. content \in [lines : Seq(Line), taxRateBp : 0..10000]
    BY SMTT(20), ContentAssumption
  <2>2. content.lines \in Seq(Line)
    BY <2>1
  <2>3. content.taxRateBp \in Nat
    <3>. DEFINE rate == content.taxRateBp
    <3>1. rate \in 0..10000
      BY SMTT(20), <2>1
    <3>. HIDE DEF rate
    <3>2. rate \in Nat
      BY <3>1
    <3>. QED  BY <3>2 DEF rate
  <2>. QED  BY <2>2, <2>3
<1>. DEFINE D == DOMAIN content.lines
            f == [n \in D |-> LineAmount(content.lines[n])]
            T == {n \in D : content.lines[n].taxable}
<1>2. IsFiniteSet(D)
  <2>1. D = 1..Len(content.lines) /\ Len(content.lines) \in Nat
    BY <1>1
  <2>. QED  BY <2>1, FS_Interval
<1>3. \A n \in D : f[n] \in Nat
  <2>1. \A n \in D : content.lines[n] \in Line
    BY <1>1
  <2>. QED  BY <2>1, LineAmountType
<1>4. Subtotal(content) = Over(D, f)
  <2>1. [n \in D |-> f[n]] = [n \in D |-> LineAmount(content.lines[n])]
    OBVIOUS
  <2>. QED  BY <2>1 DEF Subtotal, Over
<1>5. Taxable(content) = Over(T, f)
  <2>1. [n \in T |-> f[n]] = [n \in T |-> LineAmount(content.lines[n])]
    OBVIOUS
  <2>. QED  BY <2>1 DEF Taxable, Over
<1>6. T \subseteq D
  OBVIOUS
<1>. HIDE DEF f, T
<1>7. Subtotal(content) \in Nat /\ Taxable(content) \in Nat
  <2>1. IsFiniteSet(T) /\ \A n \in T : f[n] \in Nat
    BY <1>2, <1>3, <1>6, FS_Subset
  <2>2. Over(T, f) \in Nat
    BY <2>1, SumNat
  <2>3. Over(D, f) \in Nat
    BY <1>2, <1>3, SumNat
  <2>. QED  BY <1>4, <1>5, <2>2, <2>3
<1>8. \A q, u \in Nat : q * u \in Nat
  OBVIOUS
<1>9. \A n \in Nat : (n + 5000) \div 10000 \in Nat
  OBVIOUS
<1>10. Tax(content) \in Nat
  BY <1>1, <1>7, <1>8, <1>9 DEF Tax
<1>. QED  BY <1>7, <1>10 DEF Total

\* What a payment is asked to pay is finite, and each document once.
LEMMA SplitsSplit ==
  ASSUME NEW ids \in SUBSET Nat, IsFiniteSet(ids), NEW applied \in Splits(ids)
  PROVE  IsSplit(applied)
<1>1. PICK S \in SUBSET ids : \E split \in [S -> Amount] :
        applied = {[id |-> i, amount |-> split[i]] : i \in S}
  BY DEF Splits
<1>2. PICK split \in [S -> Amount] : applied = {[id |-> i, amount |-> split[i]] : i \in S}
  BY <1>1
<1>3. IsFiniteSet(S)
  BY FS_Subset
<1>4. IsFiniteSet(applied)
  <2>. DEFINE f == [i \in S |-> [id |-> i, amount |-> split[i]]]
  <2>1. f \in Surjection(S, applied)
    BY <1>2 DEF Surjection
  <2>. QED  BY <1>3, <2>1, FS_Surjection
<1>5. \A i \in S : i \in Nat /\ split[i] \in Nat \ {0}
  <2>1. \A i \in S : i \in Nat /\ split[i] \in Amount
    BY <1>2
  <2>. QED  BY <2>1, AmountAssumption
<1>6. \A a \in applied : \E i \in S : a = [id |-> i, amount |-> split[i]]
  BY <1>2
<1>. QED  BY <1>4, <1>5, <1>6 DEF IsSplit

\* Both lists of payments are such lists.
LEMMA ListOfPayments ==
  ASSUME NEW list, list \in Seq(Payment) \/ list \in Seq(BillPayment),
         \A n \in DOMAIN list : IsSplit(list[n].applied)
  PROVE  IsList(list)
<1>1. CASE list \in Seq(Payment)
  <2>1. \A n \in DOMAIN list : list[n] \in Payment
    BY <1>1
  <2>2. \A n \in DOMAIN list : list[n].void \in BOOLEAN /\ list[n].date \in Date
    BY <2>1 DEF Payment
  <2>. QED  BY <1>1, <2>2 DEF IsList
<1>2. CASE list \in Seq(BillPayment)
  <2>1. \A n \in DOMAIN list : list[n] \in BillPayment
    BY <1>2
  <2>2. \A n \in DOMAIN list : list[n].void \in BOOLEAN /\ list[n].date \in Date
    BY <2>1 DEF BillPayment
  <2>. QED  BY <1>2, <2>2 DEF IsList
<1>. QED  BY <1>1, <1>2

-----------------------------------------------------------------------------
(* What a step does to the documents that stand.                           *)

SentStay == \A i \in Sent : i \in DOMAIN invoices' /\ invoices'[i] = invoices[i]

\* Documents that are no drafts are left alone.
DraftsOnly ==
  \A i \in DOMAIN invoices : invoices[i].state # "draft" =>
    i \in DOMAIN invoices' /\ invoices'[i] = invoices[i]

\* What is sent is no draft.
LEMMA DraftsOnlySent == ASSUME DraftsOnly PROVE SentStay
BY DEF DraftsOnly, SentStay, Sent

\* A draft may be changed or sent, a new one be made; what was sent stays.
LEMMA DraftsOnlyWith ==
  ASSUME NEW i, NEW value, invoices' = With(invoices, i, value),
         i \in DOMAIN invoices => invoices[i].state = "draft"
  PROVE  DraftsOnly
<1>1. DOMAIN invoices' = DOMAIN invoices \cup {i}
      /\ \A n \in DOMAIN invoices : n # i => invoices'[n] = invoices[n]
  BY DEF With
<1>. QED  BY <1>1 DEF DraftsOnly

LEMMA SaveDraftsOnly ==
  ASSUME NEW i, NEW inv, NEW send, SaveInvoice(i, inv, send),
         i \in DOMAIN invoices => invoices[i].state = "draft"
  PROVE  DraftsOnly
BY DraftsOnlyWith DEF SaveInvoice

InvoicingOfDrafts ==
  \/ \E customer \in Customer, date \in Date, content \in Content, send \in BOOLEAN :
       \/ CreateInvoice(customer, date, content, send)
       \/ \E i \in DOMAIN invoices : UpdateDraft(i, customer, date, content, send)
  \/ \E i \in DOMAIN invoices : SendInvoice(i) \/ DeleteDraft(i)

\* The steps that touch drafts only.
LEMMA DraftsStep ==
  ASSUME SalesInv, Quote \/ InvoicingOfDrafts
  PROVE  DraftsOnly /\ UNCHANGED <<payments, bills, billPayments>>
<1>1. nextInvoice \notin DOMAIN invoices
  BY DEF SalesInv, PapersOK
<1>2. CASE Quote
  <2>1. ASSUME OnlyEstimates
        PROVE  DraftsOnly /\ UNCHANGED <<payments, bills, billPayments>>
    BY <2>1 DEF OnlyEstimates, DraftsOnly, Sent
  <2>2. ASSUME NEW e, NEW date, Convert(e, date)
        PROVE  DraftsOnly /\ UNCHANGED <<payments, bills, billPayments>>
    BY <1>1, <2>2, DraftsOnlyWith DEF Convert
  <2>. QED  BY <1>2, <2>1, <2>2 DEF Quote, CreateEstimate, UpdateEstimate, DeleteEstimate,
                                  MarkEstimate
<1>3. CASE InvoicingOfDrafts
  <2>1. ASSUME NEW customer, NEW date, NEW content, NEW send,
               CreateInvoice(customer, date, content, send)
        PROVE  DraftsOnly /\ UNCHANGED <<payments, bills, billPayments>>
    BY <1>1, <2>1, SaveDraftsOnly DEF CreateInvoice, OnlyInvoices
  <2>2. ASSUME NEW i, NEW customer, NEW date, NEW content, NEW send,
               UpdateDraft(i, customer, date, content, send)
        PROVE  DraftsOnly /\ UNCHANGED <<payments, bills, billPayments>>
    BY <2>2, SaveDraftsOnly DEF UpdateDraft, OnlyInvoices
  <2>3. ASSUME NEW i, SendInvoice(i)
        PROVE  DraftsOnly /\ UNCHANGED <<payments, bills, billPayments>>
    BY <2>3, SaveDraftsOnly DEF SendInvoice, OnlyInvoices
  <2>4. ASSUME NEW i, DeleteDraft(i)
        PROVE  DraftsOnly /\ UNCHANGED <<payments, bills, billPayments>>
    BY <2>4 DEF DeleteDraft, Without, DraftsOnly
  <2>. QED  BY <1>3, <2>1, <2>2, <2>3, <2>4 DEF InvoicingOfDrafts
<1>. QED  BY <1>2, <1>3

HeldInv == InvoicesHeld /\ BillsHeld

\* What is sent is kept, with its payments.
LEMMA InvoicesHeldKept ==
  ASSUME SalesInv', InvoicesHeld, SentStay, UNCHANGED payments
  PROVE  InvoicesHeld'
<1>. DEFINE S     == Sent
            T     == Sent'
            payer == [n \in DOMAIN payments |-> payments[n].customer]
            owed  == [i \in Sent |-> Total(invoices[i].content)]
            who   == [i \in Sent |-> invoices[i].customer]
            owing == [i \in Sent' |-> Total(invoices'[i].content)]
            whose == [i \in Sent' |-> invoices'[i].customer]
<1>1. Held(payments, payer, S, owed, who)
  BY DEF InvoicesHeld
<1>2. S \subseteq T /\ \A i \in S : owing[i] = owed[i] /\ whose[i] = who[i]
  BY DEF SentStay, Sent
<1>3. \A i \in T : owing[i] \in Nat
  <2>1. \A i \in T : i \in DOMAIN invoices' /\ invoices'[i] \in Invoice
    BY DEF Sent, SalesInv, PapersOK
  <2>2. \A i \in T : invoices'[i].content \in Content
    BY <2>1 DEF Invoice
  <2>. QED  BY <2>2, TotalType
<1>4. InvoicesHeld' <=> Held(payments', [n \in DOMAIN payments' |-> payments'[n].customer],
                             T, owing, whose)
  BY DEF InvoicesHeld
<1>5. [n \in DOMAIN payments' |-> payments'[n].customer] = payer
  OBVIOUS
<1>. HIDE DEF S, T, payer, owed, who, owing, whose
<1>6. Held(payments, payer, T, owing, whose)
  BY <1>1, <1>2, <1>3, HeldMoreDocuments
<1>. QED  BY <1>4, <1>5, <1>6

\* The bills are left alone.
LEMMA BillsHeldKept ==
  ASSUME BillsHeld, UNCHANGED <<bills, billPayments>>
  PROVE  BillsHeld'
BY DEF BillsHeld, Entered

\* An invoice is voided only when no payment that stands pays it.
LEMMA VoidInvoiceHeld ==
  ASSUME SalesInv, SalesInv', InvoicesHeld, NEW i \in DOMAIN invoices, VoidInvoice(i)
  PROVE  InvoicesHeld' /\ UNCHANGED <<payments, bills, billPayments>>
<1>1. UNCHANGED <<payments, bills, billPayments>>
  BY DEF VoidInvoice, OnlyInvoices
<1>2. /\ DOMAIN invoices' = DOMAIN invoices
      /\ \A j \in DOMAIN invoices : j # i => invoices'[j] = invoices[j]
      /\ invoices'[i].state = "void"
  <2>1. invoices[i] \in Invoice
    BY DEF SalesInv, PapersOK
  <2>2. [invoices[i] EXCEPT !.state = "void"].state = "void"
    BY <2>1 DEF Invoice
  <2>. QED  BY <2>2 DEF VoidInvoice
<1>3. CASE i \notin Sent
  <2>1. SentStay
    BY <1>2, <1>3 DEF SentStay, Sent
  <2>. QED  BY <1>1, <2>1, InvoicesHeldKept
<1>4. CASE i \in Sent
  <2>. DEFINE S     == Sent
              T     == Sent'
              payer == [n \in DOMAIN payments |-> payments[n].customer]
              owed  == [j \in Sent |-> Total(invoices[j].content)]
              who   == [j \in Sent |-> invoices[j].customer]
              owing == [j \in Sent' |-> Total(invoices'[j].content)]
              whose == [j \in Sent' |-> invoices'[j].customer]
  <2>1. Held(payments, payer, S, owed, who)
    BY DEF InvoicesHeld
  <2>2. T = S \ {i} /\ \A j \in S \ {i} : owing[j] = owed[j] /\ whose[j] = who[j]
    BY <1>2, <1>4 DEF Sent
  <2>3. Paid(payments, i, LastDate) = 0
    BY <1>4 DEF VoidInvoice, Sent
  <2>4. InvoicesHeld' <=> Held(payments', [n \in DOMAIN payments' |-> payments'[n].customer],
                               T, owing, whose)
    BY DEF InvoicesHeld
  <2>5. [n \in DOMAIN payments' |-> payments'[n].customer] = payer
    BY <1>1
  <2>. HIDE DEF S, T, payer, owed, who, owing, whose
  <2>6. Held(payments, payer, S \ {i}, owing, whose)
    BY <2>1, <2>2, <2>3, HeldLessDocuments
  <2>. QED  BY <1>1, <2>2, <2>4, <2>5, <2>6
<1>. QED  BY <1>3, <1>4

\* A bill comes with a number nothing is applied to.
LEMMA EnterBillHeld ==
  ASSUME SalesInv, SalesInv', BillsHeld, NEW vendor \in Vendor, NEW date \in Date,
         NEW number \in BillNumber \cup {Unnumbered}, NEW total \in BillTotal,
         EnterBill(vendor, date, number, total)
  PROVE  BillsHeld'
<1>. DEFINE S     == Entered
            T     == Entered'
            payer == [n \in DOMAIN billPayments |-> billPayments[n].vendor]
            owed  == [b \in Entered |-> bills[b].total]
            who   == [b \in Entered |-> bills[b].vendor]
            owing == [b \in Entered' |-> bills'[b].total]
            whose == [b \in Entered' |-> bills'[b].vendor]
            d     == [vendor |-> vendor, date |-> date, number |-> number, total |-> total,
                      void |-> FALSE]
<1>1. Held(billPayments, payer, S, owed, who)
  BY DEF BillsHeld
<1>2. \A b \in DOMAIN bills : b \in DOMAIN bills' /\ bills'[b] = bills[b]
  <2>1. bills' = Append(bills, d) /\ bills \in Seq(Bill) /\ d \in Bill
    BY DEF EnterBill, SalesInv, PapersOK, Bill
  <2>. HIDE DEF d
  <2>. QED  BY <2>1, Longer
<1>3. S \subseteq T /\ \A b \in S : owing[b] = owed[b] /\ whose[b] = who[b]
  BY <1>2 DEF Entered
<1>4. \A b \in T : owing[b] \in Nat
  <2>1. \A b \in T : b \in DOMAIN bills' /\ bills'[b] \in Bill
    BY DEF Entered, SalesInv, PapersOK
  <2>2. \A b \in T : bills'[b].total \in Nat
    BY <2>1, AmountAssumption DEF Bill
  <2>. QED  BY <2>2
<1>5. BillsHeld' <=> Held(billPayments', [n \in DOMAIN billPayments' |-> billPayments'[n].vendor],
                          T, owing, whose)
  BY DEF BillsHeld
<1>6. UNCHANGED billPayments
  BY DEF EnterBill
<1>7. [n \in DOMAIN billPayments' |-> billPayments'[n].vendor] = payer
  BY <1>6
<1>. HIDE DEF S, T, payer, owed, who, owing, whose
<1>8. Held(billPayments, payer, T, owing, whose)
  BY <1>1, <1>3, <1>4, HeldMoreDocuments
<1>. QED  BY <1>5, <1>6, <1>7, <1>8

\* A bill is voided only when no payment that stands pays it.
LEMMA VoidBillHeld ==
  ASSUME SalesInv, BillsHeld, NEW i \in DOMAIN bills, VoidBill(i)
  PROVE  BillsHeld'
<1>. DEFINE S     == Entered
            T     == Entered'
            payer == [n \in DOMAIN billPayments |-> billPayments[n].vendor]
            owed  == [b \in Entered |-> bills[b].total]
            who   == [b \in Entered |-> bills[b].vendor]
            owing == [b \in Entered' |-> bills'[b].total]
            whose == [b \in Entered' |-> bills'[b].vendor]
<1>1. Held(billPayments, payer, S, owed, who)
  BY DEF BillsHeld
<1>2. /\ DOMAIN bills' = DOMAIN bills
      /\ \A j \in DOMAIN bills : j # i => bills'[j] = bills[j]
      /\ bills'[i].void
  <2>1. bills[i] \in Bill
    BY DEF SalesInv, PapersOK
  <2>2. [bills[i] EXCEPT !.void = TRUE].void
    BY <2>1 DEF Bill
  <2>. QED  BY <2>2 DEF VoidBill
<1>3. T = S \ {i} /\ \A b \in S \ {i} : owing[b] = owed[b] /\ whose[b] = who[b]
  BY <1>2 DEF Entered
<1>4. Paid(billPayments, i, LastDate) = 0 /\ UNCHANGED billPayments
  BY DEF VoidBill
<1>5. BillsHeld' <=> Held(billPayments', [n \in DOMAIN billPayments' |-> billPayments'[n].vendor],
                          T, owing, whose)
  BY DEF BillsHeld
<1>6. [n \in DOMAIN billPayments' |-> billPayments'[n].vendor] = payer
  BY <1>4
<1>. HIDE DEF S, T, payer, owed, who, owing, whose
<1>7. Held(billPayments, payer, S \ {i}, owing, whose)
  BY <1>1, <1>3, <1>4, HeldLessDocuments
<1>. QED  BY <1>3, <1>4, <1>5, <1>6, <1>7

\* What an invoice or a bill that stands still owes.
LEMMA BalanceIs ==
  /\ \A i \in Sent : InvoiceBalance(i, LastDate)
                       = Total(invoices[i].content) - Paid(payments, i, LastDate)
  /\ \A b \in Entered : BillBalance(b, LastDate)
                          = bills[b].total - Paid(billPayments, b, LastDate)
BY DEF Sent, Entered, InvoiceBalance, BillBalance

\* A payment received applies no more than each invoice still owes on the last day.
LEMMA ReceiveHeld ==
  ASSUME SalesInv, SalesInv', InvoicesHeld, NEW customer \in Customer, NEW date \in Date,
         NEW amount \in Amount, NEW applied \in Splits(DOMAIN invoices),
         ReceivePayment(customer, date, amount, applied)
  PROVE  InvoicesHeld'
<1>. DEFINE S      == Sent
            payer  == [n \in DOMAIN payments |-> payments[n].customer]
            payers == [n \in DOMAIN payments' |-> payments'[n].customer]
            owed   == [i \in Sent |-> Total(invoices[i].content)]
            who    == [i \in Sent |-> invoices[i].customer]
            p      == [customer |-> customer, date |-> date, amount |-> amount,
                       applied |-> applied, void |-> FALSE]
<1>1. Held(payments, payer, S, owed, who)
  BY DEF InvoicesHeld
<1>2. UNCHANGED invoices
  BY DEF ReceivePayment, OnlyPayments
<1>3. InvoicesHeld' <=> Held(payments', payers, S, owed, who)
  BY <1>2 DEF InvoicesHeld, Sent
<1>4. IsSplit(applied) /\ applied \in Applications
  <2>1. DOMAIN invoices \in SUBSET Nat
    BY DEF SalesInv, PapersOK
  <2>2. IsFiniteSet(DOMAIN invoices)
    <3>1. DOMAIN invoices \subseteq 1..(nextInvoice - 1) /\ nextInvoice - 1 \in Int
      BY DEF SalesInv, PapersOK
    <3>2. IsFiniteSet(1..(nextInvoice - 1))
      BY <3>1, FS_Interval
    <3>. QED  BY <3>1, <3>2, FS_Subset
  <2>. QED  BY <2>1, <2>2, SplitsSplit, SplitsType
<1>5. p \in Payment /\ ~p.void /\ p.applied = applied /\ p.customer = customer
  BY <1>4 DEF Payment
<1>6. payments' = Append(payments, p) /\ payments \in Seq(Payment) /\ payments' \in Seq(Payment)
  BY DEF ReceivePayment, SalesInv, PapersOK
<1>7. \A a \in applied :
        /\ a.id \in S /\ who[a.id] = customer
        /\ a.amount <= owed[a.id] - Paid(payments, a.id, LastDate)
  <2>1. MayPayInvoices(customer, applied, date)
    BY DEF ReceivePayment
  <2>2. \A a \in applied : a.id \in Sent /\ invoices[a.id].customer = customer
                           /\ a.amount <= InvoiceBalance(a.id, LastDate)
    BY <2>1 DEF MayPayInvoices, Sent
  <2>. QED  BY <2>2, BalanceIs
<1>. HIDE DEF p
<1>8. /\ Len(payments') = Len(payments) + 1
      /\ \A n \in DOMAIN payments : n \in DOMAIN payments' /\ payments'[n] = payments[n]
      /\ payments'[Len(payments')] = p
      /\ Len(payments') \in DOMAIN payments'
      /\ \A n \in DOMAIN payments' : n \in DOMAIN payments \/ n = Len(payments')
  BY <1>5, <1>6
<1>9. IsList(payments')
  <2>1. \A n \in DOMAIN payments' : IsSplit(payments'[n].applied)
    BY <1>1, <1>4, <1>5, <1>8 DEF Held, IsList
  <2>. QED  BY <1>6, <2>1, ListOfPayments
<1>10. /\ \A n \in DOMAIN payments : payers[n] = payer[n]
       /\ payers[Len(payments')] = customer
  BY <1>5, <1>8
<1>. HIDE DEF S, payer, payers, owed, who
<1>11. Held(payments', payers, S, owed, who)
  <2>1. ~payments'[Len(payments')].void /\ payments'[Len(payments')].applied = applied
    BY <1>5, <1>8
  <2>2. \A a \in payments'[Len(payments')].applied :
           /\ a.id \in S /\ who[a.id] = payers[Len(payments')]
           /\ a.amount <= owed[a.id] - Paid(payments, a.id, LastDate)
    BY <1>7, <1>10, <2>1
  <2>. QED  BY <1>1, <1>8, <1>9, <1>10, <2>1, <2>2, HeldMorePayments
<1>. QED  BY <1>3, <1>11

\* Neither does a payment of bills.
LEMMA PayBillsHeld ==
  ASSUME SalesInv, SalesInv', BillsHeld, NEW vendor \in Vendor, NEW date \in Date,
         NEW applied \in Splits(DOMAIN bills), PayBills(vendor, date, applied)
  PROVE  BillsHeld'
<1>. DEFINE S      == Entered
            payer  == [n \in DOMAIN billPayments |-> billPayments[n].vendor]
            payers == [n \in DOMAIN billPayments' |-> billPayments'[n].vendor]
            owed   == [b \in Entered |-> bills[b].total]
            who    == [b \in Entered |-> bills[b].vendor]
            p      == [vendor |-> vendor, date |-> date, applied |-> applied, void |-> FALSE]
<1>1. Held(billPayments, payer, S, owed, who)
  BY DEF BillsHeld
<1>2. UNCHANGED bills
  BY DEF PayBills
<1>3. BillsHeld' <=> Held(billPayments', payers, S, owed, who)
  BY <1>2 DEF BillsHeld, Entered
<1>4. IsSplit(applied) /\ applied \in Applications
  <2>1. bills \in Seq(Bill)
    BY DEF SalesInv, PapersOK
  <2>2. DOMAIN bills = 1..Len(bills) /\ Len(bills) \in Nat
    BY <2>1
  <2>3. DOMAIN bills \in SUBSET Nat /\ IsFiniteSet(DOMAIN bills)
    BY <2>2, FS_Interval
  <2>. QED  BY <2>3, SplitsSplit, SplitsType
<1>5. p \in BillPayment /\ ~p.void /\ p.applied = applied /\ p.vendor = vendor
  BY <1>4 DEF BillPayment
<1>6. /\ billPayments' = Append(billPayments, p)
      /\ billPayments \in Seq(BillPayment) /\ billPayments' \in Seq(BillPayment)
  BY DEF PayBills, SalesInv, PapersOK
<1>7. \A a \in applied :
        /\ a.id \in S /\ who[a.id] = vendor
        /\ a.amount <= owed[a.id] - Paid(billPayments, a.id, LastDate)
  <2>1. \A a \in applied : a.id \in Entered /\ bills[a.id].vendor = vendor
                           /\ a.amount <= BillBalance(a.id, LastDate)
    BY DEF PayBills, Entered
  <2>. QED  BY <2>1, BalanceIs
<1>. HIDE DEF p
<1>8. /\ Len(billPayments') = Len(billPayments) + 1
      /\ \A n \in DOMAIN billPayments :
           n \in DOMAIN billPayments' /\ billPayments'[n] = billPayments[n]
      /\ billPayments'[Len(billPayments')] = p
      /\ Len(billPayments') \in DOMAIN billPayments'
      /\ \A n \in DOMAIN billPayments' : n \in DOMAIN billPayments \/ n = Len(billPayments')
  BY <1>5, <1>6
<1>9. IsList(billPayments')
  <2>1. \A n \in DOMAIN billPayments' : IsSplit(billPayments'[n].applied)
    BY <1>1, <1>4, <1>5, <1>8 DEF Held, IsList
  <2>. QED  BY <1>6, <2>1, ListOfPayments
<1>10. /\ \A n \in DOMAIN billPayments : payers[n] = payer[n]
       /\ payers[Len(billPayments')] = vendor
  BY <1>5, <1>8
<1>. HIDE DEF S, payer, payers, owed, who
<1>11. Held(billPayments', payers, S, owed, who)
  <2>1. ~billPayments'[Len(billPayments')].void /\ billPayments'[Len(billPayments')].applied = applied
    BY <1>5, <1>8
  <2>2. \A a \in billPayments'[Len(billPayments')].applied :
           /\ a.id \in S /\ who[a.id] = payers[Len(billPayments')]
           /\ a.amount <= owed[a.id] - Paid(billPayments, a.id, LastDate)
    BY <1>7, <1>10, <2>1
  <2>. QED  BY <1>1, <1>8, <1>9, <1>10, <2>1, <2>2, HeldMorePayments
<1>. QED  BY <1>3, <1>11

\* A payment received is voided.
LEMMA VoidPaymentHeld ==
  ASSUME SalesInv, SalesInv', InvoicesHeld, NEW n \in DOMAIN payments, VoidPayment(n)
  PROVE  InvoicesHeld'
<1>. DEFINE S      == Sent
            payer  == [m \in DOMAIN payments |-> payments[m].customer]
            payers == [m \in DOMAIN payments' |-> payments'[m].customer]
            owed   == [i \in Sent |-> Total(invoices[i].content)]
            who    == [i \in Sent |-> invoices[i].customer]
<1>1. Held(payments, payer, S, owed, who)
  BY DEF InvoicesHeld
<1>2. UNCHANGED invoices
  BY DEF VoidPayment, OnlyPayments
<1>3. InvoicesHeld' <=> Held(payments', payers, S, owed, who)
  BY <1>2 DEF InvoicesHeld, Sent
<1>4. /\ DOMAIN payments' = DOMAIN payments
      /\ \A m \in DOMAIN payments : m # n => payments'[m] = payments[m]
      /\ payments'[n].void /\ ~payments[n].void
      /\ payments'[n].applied = payments[n].applied
      /\ payments'[n].customer = payments[n].customer
  <2>1. payments[n] \in Payment
    BY DEF SalesInv, PapersOK
  <2>2. /\ [payments[n] EXCEPT !.void = TRUE].void
        /\ [payments[n] EXCEPT !.void = TRUE].applied = payments[n].applied
        /\ [payments[n] EXCEPT !.void = TRUE].customer = payments[n].customer
    BY <2>1 DEF Payment
  <2>. QED  BY <2>2 DEF VoidPayment
<1>5. IsList(payments')
  <2>1. \A m \in DOMAIN payments' : IsSplit(payments'[m].applied)
    BY <1>1, <1>4 DEF Held, IsList
  <2>. QED  BY <2>1, ListOfPayments DEF SalesInv, PapersOK
<1>6. \A m \in DOMAIN payments : payers[m] = payer[m]
  BY <1>4
<1>. HIDE DEF S, payer, payers, owed, who
<1>7. Held(payments', payers, S, owed, who)
  BY <1>1, <1>4, <1>5, <1>6, HeldLessPayments
<1>. QED  BY <1>3, <1>7

\* A payment of bills is voided.
LEMMA VoidBillPaymentHeld ==
  ASSUME SalesInv, SalesInv', BillsHeld, NEW n \in DOMAIN billPayments, VoidBillPayment(n)
  PROVE  BillsHeld'
<1>. DEFINE S      == Entered
            payer  == [m \in DOMAIN billPayments |-> billPayments[m].vendor]
            payers == [m \in DOMAIN billPayments' |-> billPayments'[m].vendor]
            owed   == [b \in Entered |-> bills[b].total]
            who    == [b \in Entered |-> bills[b].vendor]
<1>1. Held(billPayments, payer, S, owed, who)
  BY DEF BillsHeld
<1>2. UNCHANGED bills
  BY DEF VoidBillPayment
<1>3. BillsHeld' <=> Held(billPayments', payers, S, owed, who)
  BY <1>2 DEF BillsHeld, Entered
<1>4. /\ DOMAIN billPayments' = DOMAIN billPayments
      /\ \A m \in DOMAIN billPayments : m # n => billPayments'[m] = billPayments[m]
      /\ billPayments'[n].void /\ ~billPayments[n].void
      /\ billPayments'[n].applied = billPayments[n].applied
      /\ billPayments'[n].vendor = billPayments[n].vendor
  <2>1. billPayments[n] \in BillPayment
    BY DEF SalesInv, PapersOK
  <2>2. /\ [billPayments[n] EXCEPT !.void = TRUE].void
        /\ [billPayments[n] EXCEPT !.void = TRUE].applied = billPayments[n].applied
        /\ [billPayments[n] EXCEPT !.void = TRUE].vendor = billPayments[n].vendor
    BY <2>1 DEF BillPayment
  <2>. QED  BY <2>2 DEF VoidBillPayment
<1>5. IsList(billPayments')
  <2>1. \A m \in DOMAIN billPayments' : IsSplit(billPayments'[m].applied)
    BY <1>1, <1>4 DEF Held, IsList
  <2>. QED  BY <2>1, ListOfPayments DEF SalesInv, PapersOK
<1>6. \A m \in DOMAIN billPayments : payers[m] = payer[m]
  BY <1>4
<1>. HIDE DEF S, payer, payers, owed, who
<1>7. Held(billPayments', payers, S, owed, who)
  BY <1>1, <1>4, <1>5, <1>6, HeldLessPayments
<1>. QED  BY <1>3, <1>7

\* The invariant is kept by every step.
LEMMA HeldStep ==
  ASSUME SalesInv, HeldInv, [Next]_vars
  PROVE  HeldInv'
<1>0. SalesInv'
  BY SalesStep
<1>1. ASSUME SentStay, UNCHANGED <<payments, bills, billPayments>>
      PROVE  HeldInv'
  BY <1>0, <1>1, InvoicesHeldKept, BillsHeldKept DEF HeldInv
<1>2. ASSUME UNCHANGED salesVars
      PROVE  HeldInv'
  <2>1. SentStay /\ UNCHANGED <<payments, bills, billPayments>>
    BY <1>2 DEF salesVars, SentStay, Sent
  <2>. QED  BY <1>1, <2>1
<1>3. ASSUME OnlyPayments, InvoicesHeld'
      PROVE  HeldInv'
  BY <1>3, BillsHeldKept DEF HeldInv, OnlyPayments
<1>4. ASSUME OnlyBills, BillsHeld'
      PROVE  HeldInv'
  <2>1. SentStay /\ UNCHANGED payments
    BY <1>4 DEF OnlyBills, SentStay, Sent
  <2>. QED  BY <1>0, <1>4, <2>1, InvoicesHeldKept DEF HeldInv
<1>5. CASE Quote
  BY <1>1, <1>5, DraftsStep, DraftsOnlySent
<1>6. CASE Invoicing
  <2>1. CASE InvoicingOfDrafts
    BY <1>1, <2>1, DraftsStep, DraftsOnlySent
  <2>2. ASSUME NEW i \in DOMAIN invoices, VoidInvoice(i)
        PROVE  HeldInv'
    BY <1>0, <2>2, VoidInvoiceHeld, BillsHeldKept DEF HeldInv
  <2>3. ASSUME NEW customer \in Customer, NEW date \in Date, NEW amount \in Amount,
               NEW applied \in Splits(DOMAIN invoices),
               ReceivePayment(customer, date, amount, applied)
        PROVE  HeldInv'
    BY <1>0, <1>3, <2>3, ReceiveHeld DEF HeldInv, ReceivePayment
  <2>4. ASSUME NEW n \in DOMAIN payments, VoidPayment(n)
        PROVE  HeldInv'
    BY <1>0, <1>3, <2>4, VoidPaymentHeld DEF HeldInv, VoidPayment
  <2>. QED  BY <1>6, <2>1, <2>2, <2>3, <2>4 DEF Invoicing, InvoicingOfDrafts
<1>7. CASE Billing
  <2>1. ASSUME NEW vendor \in Vendor, NEW date \in Date,
               NEW number \in BillNumber \cup {Unnumbered}, NEW total \in BillTotal,
               EnterBill(vendor, date, number, total)
        PROVE  HeldInv'
    BY <1>0, <1>4, <2>1, EnterBillHeld DEF HeldInv, EnterBill
  <2>2. ASSUME NEW b \in DOMAIN bills, VoidBill(b)
        PROVE  HeldInv'
    BY <1>4, <2>2, VoidBillHeld DEF HeldInv, VoidBill
  <2>3. ASSUME NEW vendor \in Vendor, NEW date \in Date, NEW applied \in Splits(DOMAIN bills),
               PayBills(vendor, date, applied)
        PROVE  HeldInv'
    BY <1>0, <1>4, <2>3, PayBillsHeld DEF HeldInv, PayBills
  <2>4. ASSUME NEW n \in DOMAIN billPayments, VoidBillPayment(n)
        PROVE  HeldInv'
    BY <1>0, <1>4, <2>4, VoidBillPaymentHeld DEF HeldInv, VoidBillPayment
  <2>. QED  BY <1>7, <2>1, <2>2, <2>3, <2>4 DEF Billing
<1>8. CASE Journal
  BY <1>2, <1>8 DEF Journal, PostLoose, VoidEntry, MoveMarks
<1>9. CASE \E p \in Resting : SetActive(p)
  BY <1>2, <1>9 DEF SetActive
<1>10. CASE UNCHANGED vars
  BY <1>2, <1>10 DEF vars
<1>. QED  BY <1>5, <1>6, <1>7, <1>8, <1>9, <1>10 DEF Next

\* A payment that stands pays documents that stand and are of who pays, and what they pay of
\* one is not above its total, by the last day (receivePayment and payBills check each amount
\* against the balance; voidInvoice and voidBill refuse what a payment is applied to).
THEOREM NeverBeyond == Spec => []HeldInv
<1>1. Init => HeldInv
  <2>. SUFFICES ASSUME Init PROVE HeldInv
    OBVIOUS
  <2>1. /\ payments = <<>> /\ billPayments = <<>>
        /\ Sent = {} /\ Entered = {}
    BY DEF Init, Sent, Entered
  <2>2. IsList(<<>>)
    BY DEF IsList
  <2>3. \A f, owed, who : Held(<<>>, f, {}, owed, who)
    BY <2>2 DEF Held
  <2>. QED  BY <2>1, <2>3 DEF HeldInv, InvoicesHeld, BillsHeld
<1>2. SalesInv /\ HeldInv /\ [Next]_vars => HeldInv'
  BY HeldStep
<1>. QED  BY <1>1, <1>2, SalesCorrect, PTL DEF Spec

\* Nothing is paid beyond its total and nothing void is paid, in whatever order documents are
\* sent, paid, backdated and voided (invoiceBalance, billBalance).
THEOREM AlwaysNeverOverpaid == Spec => []NeverOverpaid
<1>1. SalesInv /\ HeldInv => NeverOverpaid
  <2>. SUFFICES ASSUME SalesInv, HeldInv PROVE NeverOverpaid
    OBVIOUS
  <2>. DEFINE payer == [n \in DOMAIN payments |-> payments[n].customer]
              owed  == [i \in Sent |-> Total(invoices[i].content)]
              who   == [i \in Sent |-> invoices[i].customer]
              vendor == [n \in DOMAIN billPayments |-> billPayments[n].vendor]
              due   == [b \in Entered |-> bills[b].total]
              whose == [b \in Entered |-> bills[b].vendor]
  <2>1. Held(payments, payer, Sent, owed, who) /\ Held(billPayments, vendor, Entered, due, whose)
    BY DEF HeldInv, InvoicesHeld, BillsHeld
  <2>2. ASSUME NEW n \in DOMAIN payments, ~payments[n].void, NEW a \in payments[n].applied
        PROVE  a.id \in Sent /\ invoices[a.id].customer = payments[n].customer
    <3>1. a.id \in Sent /\ who[a.id] = payer[n]
      <4>. HIDE DEF payer, owed, who
      <4>. QED  BY <2>1, <2>2 DEF Held
    <3>. QED  BY <3>1
  <2>3. ASSUME NEW n \in DOMAIN billPayments, ~billPayments[n].void,
               NEW a \in billPayments[n].applied
        PROVE  a.id \in Entered /\ bills[a.id].vendor = billPayments[n].vendor
    <3>1. a.id \in Entered /\ whose[a.id] = vendor[n]
      <4>. HIDE DEF vendor, due, whose
      <4>. QED  BY <2>1, <2>3 DEF Held
    <3>. QED  BY <3>1
  <2>4. ASSUME NEW i \in DOMAIN invoices
        PROVE  Paid(payments, i, LastDate) <= Total(invoices[i].content)
    <3>1. CASE i \in Sent
      <4>1. Paid(payments, i, LastDate) <= owed[i]
        <5>. HIDE DEF payer, owed, who
        <5>. QED  BY <2>1, <3>1 DEF Held
      <4>. QED  BY <3>1, <4>1
    <3>2. CASE i \notin Sent
      <4>1. IsList(payments)
        BY <2>1 DEF Held
      <4>2. Paid(payments, i, LastDate) = 0
        BY <2>2, <3>2, <4>1, LiveByTheEnd, Unpaid
      <4>3. Total(invoices[i].content) \in Nat
        BY TotalType DEF SalesInv, PapersOK, Invoice
      <4>. QED  BY <4>2, <4>3
    <3>. QED  BY <3>1, <3>2
  <2>5. ASSUME NEW b \in DOMAIN bills
        PROVE  Paid(billPayments, b, LastDate) <= bills[b].total
    <3>1. CASE b \in Entered
      <4>1. Paid(billPayments, b, LastDate) <= due[b]
        <5>. HIDE DEF vendor, due, whose
        <5>. QED  BY <2>1, <3>1 DEF Held
      <4>. QED  BY <3>1, <4>1
    <3>2. CASE b \notin Entered
      <4>1. IsList(billPayments)
        BY <2>1 DEF Held
      <4>2. Paid(billPayments, b, LastDate) = 0
        BY <2>3, <3>2, <4>1, LiveByTheEnd, Unpaid
      <4>3. bills[b] \in Bill
        BY DEF SalesInv, PapersOK
      <4>4. bills[b].total \in Nat
        BY <4>3, AmountAssumption DEF Bill
      <4>. QED  BY <4>2, <4>4
    <3>. QED  BY <3>1, <3>2
  <2>. QED  BY <2>2, <2>3, <2>4, <2>5 DEF NeverOverpaid, Sent, Entered
<1>. QED  BY <1>1, SalesCorrect, NeverBeyond, PTL

-----------------------------------------------------------------------------
(* The journal says what the documents say.                                *)

\* An entry is what its document makes of it, and one no form owns has no party.
Matches(e, invs, pays, owed, paid) ==
  /\ e.source = "invoice" => e = InvoiceEntry(e.ref, invs[e.ref])
  /\ e.source = "payment" =>
       e = Posted("payment", e.ref, pays[e.ref].date, pays[e.ref].customer,
                  -pays[e.ref].amount, 0, 0)
  /\ e.source = "bill" =>
       e = Posted("bill", e.ref, owed[e.ref].date, owed[e.ref].vendor, 0, owed[e.ref].total, 0)
  /\ e.source = "bill_payment" =>
       e = Posted("bill_payment", e.ref, paid[e.ref].date, paid[e.ref].vendor, 0,
                  -AppliedSum(paid[e.ref].applied), 0)
  /\ e.source \notin FormSource => e.party = Nobody /\ e.receivable = 0 /\ e.payable = 0

AsPosted(e) == Matches(e, invoices, payments, bills, billPayments)

\* A reversal is of an entry, and not dated before it.
Undone(m, entries) == \E e \in entries : /\ ~e.reversal /\ e.date <= m.date
                                         /\ m = Mirror(e, m.date)

JournalInv ==
  /\ IsFiniteSet(journal)
  /\ journal \subseteq Entry
  /\ \A e \in journal : ~e.reversal => AsPosted(e)
  /\ \A m \in journal : m.reversal => Undone(m, journal)
  /\ \A m, n \in journal : m.reversal /\ n.reversal /\ m.source = n.source /\ m.ref = n.ref
                             => m = n

\* What else there is has its type.
MarksOK ==
  /\ inactive \subseteq Party /\ loose \in Nat
  /\ closedThrough \in 0..LastDate /\ lockedThrough \in 0..LastDate

\* What was posted stays as it was, but for the mark that it is void.
SameDocs ==
  /\ \A i \in DOMAIN invoices : invoices[i].posted =>
       /\ invoices'[i].date = invoices[i].date /\ invoices'[i].customer = invoices[i].customer
       /\ invoices'[i].content = invoices[i].content
  /\ \A n \in DOMAIN payments :
       /\ payments'[n].date = payments[n].date /\ payments'[n].customer = payments[n].customer
       /\ payments'[n].amount = payments[n].amount
  /\ \A b \in DOMAIN bills :
       /\ bills'[b].date = bills[b].date /\ bills'[b].vendor = bills[b].vendor
       /\ bills'[b].total = bills[b].total
  /\ \A n \in DOMAIN billPayments :
       /\ billPayments'[n].date = billPayments[n].date
       /\ billPayments'[n].vendor = billPayments[n].vendor
       /\ billPayments'[n].applied = billPayments[n].applied

\* An entry still says what its document says.
LEMMA PostedKept ==
  ASSUME SalesInv, SameDocs, NEW e \in journal, ~e.reversal, AsPosted(e)
  PROVE  Matches(e, invoices', payments', bills', billPayments')
<1>1. e.source = "invoice" => e.ref \in DOMAIN invoices /\ invoices[e.ref].posted
  BY DEF SalesInv, InvoicesInStep, HasEntry
<1>2. /\ e.source = "payment" => e.ref \in DOMAIN payments
      /\ e.source = "bill" => e.ref \in DOMAIN bills
      /\ e.source = "bill_payment" => e.ref \in DOMAIN billPayments
  BY DEF SalesInv, PaymentsInStep, BillsInStep, BillPaymentsInStep, ListInStep, HasEntry
<1>3. e.source = "invoice" => e = InvoiceEntry(e.ref, invoices'[e.ref])
  BY <1>1 DEF SameDocs, AsPosted, Matches, InvoiceEntry
<1>. QED  BY <1>2, <1>3 DEF SameDocs, AsPosted, Matches

\* Nothing is posted.
LEMMA JournalSame ==
  ASSUME SalesInv, JournalInv, SameDocs, UNCHANGED journal
  PROVE  JournalInv'
BY PostedKept DEF JournalInv, AsPosted

\* An entry comes that says what its document says.
LEMMA JournalMore ==
  ASSUME SalesInv, JournalInv, SameDocs, NEW m \in Entry, journal' = journal \cup {m},
         \/ ~m.reversal /\ Matches(m, invoices', payments', bills', billPayments')
         \/ /\ m.reversal /\ Undone(m, journal)
            /\ \A n \in journal : n.reversal => n.source # m.source \/ n.ref # m.ref
  PROVE  JournalInv'
<1>1. IsFiniteSet(journal') /\ journal' \subseteq Entry
  BY FS_AddElement DEF JournalInv
<1>2. \A e \in journal' : ~e.reversal => Matches(e, invoices', payments', bills', billPayments')
  BY PostedKept DEF JournalInv
<1>3. \A e \in journal' : e.reversal => Undone(e, journal')
  <2>1. \A e : Undone(e, journal) => Undone(e, journal')
    BY DEF Undone
  <2>. QED  BY <2>1 DEF JournalInv
<1>4. \A e, n \in journal' : e.reversal /\ n.reversal /\ e.source = n.source /\ e.ref = n.ref
                               => e = n
  BY DEF JournalInv
<1>. QED  BY <1>1, <1>2, <1>3, <1>4 DEF JournalInv, AsPosted

\* An entry that was not undone is undone.
LEMMA JournalUndo ==
  ASSUME SalesInv, JournalInv, MarksOK, SameDocs, NEW e \in journal, Undo(e)
  PROVE  JournalInv'
<1>1. PICK date \in Date : /\ date # e.date => e.date \in (lockedThrough + 1)..closedThrough
                           /\ ReverseEntry(e, date)
  BY DEF Undo
<1>. DEFINE m == Mirror(e, date)
<1>2. e \in Entry /\ ~e.reversal
  BY <1>1 DEF JournalInv, ReverseEntry
<1>3. m \in Entry /\ m.reversal /\ m.date = date /\ m.source = e.source /\ m.ref = e.ref
  BY <1>2 DEF Mirror, Entry
<1>4. e.date <= date
  <2>1. e.date \in Int /\ date \in Int /\ closedThrough \in Int /\ lockedThrough \in Int
    BY <1>2, DateAssumption DEF Entry, Date, MarksOK
  <2>2. CASE date # e.date
    <3>1. e.date <= closedThrough /\ date > closedThrough
      BY <1>1, <2>1, <2>2 DEF ReverseEntry, MayPostOn
    <3>. QED  BY <2>1, <3>1
  <2>. QED  BY <2>1, <2>2
<1>5. journal' = journal \cup {m}
  BY <1>1 DEF ReverseEntry
<1>6. \A n \in journal : n.reversal => n.source # e.source \/ n.ref # e.ref
  BY <1>1 DEF ReverseEntry, Mirrors
<1>7. Undone(m, journal)
  BY <1>2, <1>3, <1>4 DEF Undone
<1>. HIDE DEF m
<1>. QED  BY <1>3, <1>5, <1>6, <1>7, JournalMore

\* A form finds the entry it posted.
LEMMA EntryOfIs ==
  ASSUME NEW source, NEW ref, HasEntry(source, ref)
  PROVE  EntryOf(source, ref) \in journal
BY DEF HasEntry, EntryOf

\* What is posted is an entry.
LEMMA PostedType ==
  ASSUME NEW source \in Source, NEW ref \in Nat, NEW date \in Date,
         NEW party \in Party \cup {Nobody}, NEW receivable \in Int, NEW payable \in Int,
         NEW tax \in Int
  PROVE  /\ Posted(source, ref, date, party, receivable, payable, tax) \in Entry
         /\ ~Posted(source, ref, date, party, receivable, payable, tax).reversal
         /\ Posted(source, ref, date, party, receivable, payable, tax).source = source
         /\ Posted(source, ref, date, party, receivable, payable, tax).ref = ref
BY DEF Posted, Entry

\* The kinds of form are distinct.
LEMMA SourcesAre ==
  /\ \A s \in FormSource : s \in Source
  /\ "sales_tax_payment" \in Source /\ "manual" \in Source
  /\ "sales_tax_payment" \notin FormSource /\ "manual" \notin FormSource
BY DEF FormSource, Source

\* Drafts have no entries.
LEMMA DraftsSame ==
  ASSUME SalesInv, DraftsOnly, UNCHANGED <<payments, bills, billPayments>>
  PROVE  SameDocs
<1>1. \A i \in DOMAIN invoices : invoices[i].posted => invoices[i].state # "draft"
  BY DEF SalesInv, SentIsPosted
<1>. QED  BY <1>1 DEF DraftsOnly, SameDocs

\* An invoice is saved, and perhaps sent.
LEMMA SaveJournal ==
  ASSUME SalesInv, JournalInv, NEW i \in Nat, NEW inv \in Invoice, NEW send,
         i \in DOMAIN invoices => invoices[i].state = "draft",
         SaveInvoice(i, inv, send), OnlyInvoices
  PROVE  JournalInv'
<1>1. SameDocs
  BY SaveDraftsOnly, DraftsSame DEF OnlyInvoices
<1>2. CASE send
  <2>. DEFINE m == InvoiceEntry(i, inv)
  <2>1. /\ inv.date \in Date /\ inv.customer \in Customer /\ inv.content \in Content
        /\ \A x \in Invoice : /\ [x EXCEPT !.state = "sent", !.posted = TRUE].date = x.date
                              /\ [x EXCEPT !.state = "sent", !.posted = TRUE].customer = x.customer
                              /\ [x EXCEPT !.state = "sent", !.posted = TRUE].content = x.content
    BY DEF Invoice
  <2>2. Total(inv.content) \in Int /\ Tax(inv.content) \in Int
    BY <2>1, TotalType
  <2>3. m \in Entry /\ ~m.reversal /\ m.source = "invoice" /\ m.ref = i
    <3>1. "invoice" \in Source /\ inv.customer \in Party \cup {Nobody}
      BY <2>1 DEF Source, FormSource, Party
    <3>. QED  BY <2>1, <2>2, <3>1 DEF InvoiceEntry, Posted, Entry
  <2>4. journal' = journal \cup {m}
    BY <1>2 DEF SaveInvoice, PostEntry
  <2>5. invoices'[i] = [inv EXCEPT !.state = "sent", !.posted = TRUE]
    BY <1>2 DEF SaveInvoice, With
  <2>6. InvoiceEntry(i, invoices'[i]) = m
    <3>1. /\ invoices'[i].date = inv.date /\ invoices'[i].customer = inv.customer
          /\ invoices'[i].content = inv.content
      BY <2>1, <2>5
    <3>. QED  BY <3>1 DEF InvoiceEntry
  <2>. HIDE DEF m
  <2>7. Matches(m, invoices', payments', bills', billPayments')
    BY <2>3, <2>6, Distinct DEF Matches
  <2>. QED  BY <1>1, <2>3, <2>4, <2>7, JournalMore
<1>3. CASE ~send
  BY <1>1, <1>3, JournalSame DEF SaveInvoice
<1>. QED  BY <1>2, <1>3

\* Estimates and drafts: sending one posts its entry.
LEMMA DraftsJournal ==
  ASSUME SalesInv, JournalInv, Quote \/ InvoicingOfDrafts
  PROVE  JournalInv'
<1>1. SameDocs
  BY DraftsStep, DraftsSame
<1>2. ASSUME UNCHANGED journal PROVE JournalInv'
  BY <1>1, <1>2, JournalSame
<1>3. CASE Quote
  BY <1>2, <1>3 DEF Quote, CreateEstimate, UpdateEstimate, DeleteEstimate, MarkEstimate,
                    Convert, OnlyEstimates
<1>4. CASE InvoicingOfDrafts
  <2>1. ASSUME NEW customer \in Customer, NEW date \in Date, NEW content \in Content,
               NEW send \in BOOLEAN, CreateInvoice(customer, date, content, send)
        PROVE  JournalInv'
    <3>. DEFINE inv == [customer |-> customer, date |-> date, content |-> content,
                        estimate |-> 0, state |-> "draft", posted |-> FALSE]
    <3>1. inv \in Invoice
      BY DEF Invoice
    <3>2. nextInvoice \in Nat /\ nextInvoice \notin DOMAIN invoices
      BY DEF SalesInv, PapersOK
    <3>3. SaveInvoice(nextInvoice, inv, send) /\ OnlyInvoices
      BY <2>1 DEF CreateInvoice
    <3>. HIDE DEF inv
    <3>. QED  BY <3>1, <3>2, <3>3, SaveJournal
  <2>2. ASSUME NEW i \in DOMAIN invoices
        PROVE  i \in Nat /\ invoices[i] \in Invoice
    BY DEF SalesInv, PapersOK
  <2>3. ASSUME NEW i \in DOMAIN invoices, NEW customer \in Customer, NEW date \in Date,
               NEW content \in Content, NEW send \in BOOLEAN,
               UpdateDraft(i, customer, date, content, send)
        PROVE  JournalInv'
    <3>. DEFINE inv == [invoices[i] EXCEPT !.customer = customer, !.date = date,
                                           !.content = content]
    <3>1. \A x \in Invoice :
            [x EXCEPT !.customer = customer, !.date = date, !.content = content] \in Invoice
      BY DEF Invoice
    <3>2. inv \in Invoice
      BY <2>2, <3>1
    <3>3. SaveInvoice(i, inv, send) /\ OnlyInvoices /\ invoices[i].state = "draft"
      BY <2>3 DEF UpdateDraft
    <3>. HIDE DEF inv
    <3>. QED  BY <2>2, <3>2, <3>3, SaveJournal
  <2>4. ASSUME NEW i \in DOMAIN invoices, SendInvoice(i)
        PROVE  JournalInv'
    BY <2>2, <2>4, SaveJournal DEF SendInvoice
  <2>5. ASSUME NEW i \in DOMAIN invoices, DeleteDraft(i)
        PROVE  JournalInv'
    BY <1>2, <2>5 DEF DeleteDraft
  <2>. QED  BY <1>4, <2>1, <2>3, <2>4, <2>5 DEF InvoicingOfDrafts
<1>. QED  BY <1>3, <1>4

\* Voiding undoes it.
LEMMA VoidInvoiceJournal ==
  ASSUME SalesInv, JournalInv, MarksOK, NEW i \in DOMAIN invoices, VoidInvoice(i)
  PROVE  JournalInv'
<1>1. invoices[i] \in Invoice
  BY DEF SalesInv, PapersOK
<1>2. SameDocs
  <2>1. \A x \in Invoice : /\ [x EXCEPT !.state = "void"].date = x.date
                           /\ [x EXCEPT !.state = "void"].customer = x.customer
                           /\ [x EXCEPT !.state = "void"].content = x.content
    BY DEF Invoice
  <2>2. \A j \in DOMAIN invoices : /\ invoices'[j].date = invoices[j].date
                                   /\ invoices'[j].customer = invoices[j].customer
                                   /\ invoices'[j].content = invoices[j].content
    BY <1>1, <2>1 DEF VoidInvoice
  <2>. QED  BY <2>2 DEF SameDocs, VoidInvoice, OnlyInvoices
<1>3. CASE invoices[i].state = "draft"
  BY <1>2, <1>3, JournalSame DEF VoidInvoice
<1>4. CASE invoices[i].state # "draft"
  <2>1. invoices[i].state = "sent"
    BY <1>1, <1>4 DEF VoidInvoice, Invoice
  <2>2. HasEntry("invoice", i)
    BY <2>1 DEF SalesInv, SentIsPosted, InvoicesInStep
  <2>3. EntryOf("invoice", i) \in journal /\ Undo(EntryOf("invoice", i))
    BY <1>4, <2>2, EntryOfIs DEF VoidInvoice
  <2>. QED  BY <1>2, <2>3, JournalUndo
<1>. QED  BY <1>3, <1>4

\* A payment is received,
LEMMA ReceiveJournal ==
  ASSUME SalesInv, JournalInv, NEW customer \in Customer, NEW date \in Date,
         NEW amount \in Amount, NEW applied,
         ReceivePayment(customer, date, amount, applied)
  PROVE  JournalInv'
<1>. DEFINE p == [customer |-> customer, date |-> date, amount |-> amount,
                  applied |-> applied, void |-> FALSE]
            m == Posted("payment", Len(payments) + 1, date, customer, -amount, 0, 0)
<1>1. payments \in Seq(Payment) /\ Len(payments) + 1 \in Nat /\ amount \in Nat
  BY AmountAssumption DEF SalesInv, PapersOK
<1>2. m \in Entry /\ ~m.reversal /\ m.source = "payment" /\ m.ref = Len(payments) + 1
  <2>1. "payment" \in Source /\ customer \in Party \cup {Nobody}
    BY DEF Source, FormSource, Party
  <2>. QED  BY <1>1, <2>1 DEF Posted, Entry
<1>3. payments' = Append(payments, p) /\ journal' = journal \cup {m}
  BY DEF ReceivePayment, PostEntry
<1>4. payments'[Len(payments) + 1] = p /\ \A n \in DOMAIN payments : payments'[n] = payments[n]
  BY <1>1, <1>3
<1>5. SameDocs
  BY <1>4 DEF SameDocs, ReceivePayment, OnlyPayments
<1>6. p.date = date /\ p.customer = customer /\ p.amount = amount
  OBVIOUS
<1>. HIDE DEF p
<1>7. Matches(m, invoices', payments', bills', billPayments')
  <2>1. payments'[m.ref] = p /\ m.source = "payment"
    BY <1>2, <1>4, <1>6
  <2>2. m = Posted("payment", m.ref, p.date, p.customer, -p.amount, 0, 0)
    BY <1>2, <1>4, <1>6
  <2>. HIDE DEF m
  <2>. QED  BY <2>1, <2>2, Distinct DEF Matches
<1>. HIDE DEF m
<1>. QED  BY <1>2, <1>3, <1>5, <1>7, JournalMore

\* and voided.
LEMMA VoidPaymentJournal ==
  ASSUME SalesInv, JournalInv, MarksOK, NEW n \in DOMAIN payments, VoidPayment(n)
  PROVE  JournalInv'
<1>1. payments[n] \in Payment
  BY DEF SalesInv, PapersOK
<1>2. SameDocs
  <2>1. \A x \in Payment : /\ [x EXCEPT !.void = TRUE].date = x.date
                           /\ [x EXCEPT !.void = TRUE].customer = x.customer
                           /\ [x EXCEPT !.void = TRUE].amount = x.amount
    BY DEF Payment
  <2>2. \A j \in DOMAIN payments : /\ payments'[j].date = payments[j].date
                                   /\ payments'[j].customer = payments[j].customer
                                   /\ payments'[j].amount = payments[j].amount
    BY <1>1, <2>1 DEF VoidPayment
  <2>. QED  BY <2>2 DEF SameDocs, VoidPayment, OnlyPayments
<1>3. EntryOf("payment", n) \in journal /\ Undo(EntryOf("payment", n))
  BY EntryOfIs DEF VoidPayment, SalesInv, PaymentsInStep, ListInStep
<1>. QED  BY <1>2, <1>3, JournalUndo

\* A bill is entered,
LEMMA EnterJournal ==
  ASSUME SalesInv, JournalInv, NEW vendor \in Vendor, NEW date \in Date, NEW number,
         NEW total \in BillTotal, EnterBill(vendor, date, number, total)
  PROVE  JournalInv'
<1>. DEFINE b == [vendor |-> vendor, date |-> date, number |-> number, total |-> total,
                  void |-> FALSE]
            m == Posted("bill", Len(bills) + 1, date, vendor, 0, total, 0)
<1>1. bills \in Seq(Bill) /\ Len(bills) + 1 \in Nat /\ total \in Nat
  BY AmountAssumption DEF SalesInv, PapersOK
<1>2. m \in Entry /\ ~m.reversal /\ m.source = "bill" /\ m.ref = Len(bills) + 1
  <2>1. "bill" \in Source /\ vendor \in Party \cup {Nobody}
    BY DEF Source, FormSource, Party
  <2>. QED  BY <1>1, <2>1 DEF Posted, Entry
<1>3. bills' = Append(bills, b) /\ journal' = journal \cup {m}
  BY DEF EnterBill, PostEntry
<1>4. bills'[Len(bills) + 1] = b /\ \A n \in DOMAIN bills : bills'[n] = bills[n]
  BY <1>1, <1>3
<1>5. SameDocs
  BY <1>4 DEF SameDocs, EnterBill, OnlyBills
<1>6. b.date = date /\ b.vendor = vendor /\ b.total = total
  OBVIOUS
<1>. HIDE DEF b
<1>7. Matches(m, invoices', payments', bills', billPayments')
  <2>1. bills'[m.ref] = b /\ m.source = "bill"
    BY <1>2, <1>4, <1>6
  <2>2. m = Posted("bill", m.ref, b.date, b.vendor, 0, b.total, 0)
    BY <1>2, <1>4, <1>6
  <2>. HIDE DEF m
  <2>. QED  BY <2>1, <2>2, Distinct DEF Matches
<1>. HIDE DEF m
<1>. QED  BY <1>2, <1>3, <1>5, <1>7, JournalMore

\* and voided.
LEMMA VoidBillJournal ==
  ASSUME SalesInv, JournalInv, MarksOK, NEW n \in DOMAIN bills, VoidBill(n)
  PROVE  JournalInv'
<1>1. bills[n] \in Bill
  BY DEF SalesInv, PapersOK
<1>2. SameDocs
  <2>1. \A x \in Bill : /\ [x EXCEPT !.void = TRUE].date = x.date
                        /\ [x EXCEPT !.void = TRUE].vendor = x.vendor
                        /\ [x EXCEPT !.void = TRUE].total = x.total
    BY DEF Bill
  <2>2. \A j \in DOMAIN bills : /\ bills'[j].date = bills[j].date
                                /\ bills'[j].vendor = bills[j].vendor
                                /\ bills'[j].total = bills[j].total
    BY <1>1, <2>1 DEF VoidBill
  <2>. QED  BY <2>2 DEF SameDocs, VoidBill, OnlyBills
<1>3. EntryOf("bill", n) \in journal /\ Undo(EntryOf("bill", n))
  BY EntryOfIs DEF VoidBill, SalesInv, BillsInStep, ListInStep
<1>. QED  BY <1>2, <1>3, JournalUndo

\* Bills are paid,
LEMMA PayBillsJournal ==
  ASSUME SalesInv, JournalInv, NEW vendor \in Vendor, NEW date \in Date,
         NEW applied \in Splits(DOMAIN bills), PayBills(vendor, date, applied)
  PROVE  JournalInv'
<1>. DEFINE p == [vendor |-> vendor, date |-> date, applied |-> applied, void |-> FALSE]
            m == Posted("bill_payment", Len(billPayments) + 1, date, vendor, 0,
                        -AppliedSum(applied), 0)
<1>1. billPayments \in Seq(BillPayment) /\ Len(billPayments) + 1 \in Nat
  BY DEF SalesInv, PapersOK
<1>2. AppliedSum(applied) \in Nat
  <2>1. bills \in Seq(Bill)
    BY DEF SalesInv, PapersOK
  <2>2. DOMAIN bills \in SUBSET Nat /\ IsFiniteSet(DOMAIN bills)
    BY <2>1, FS_Interval
  <2>. QED  BY <2>2, SplitsSplit, AppliedIs
<1>3. m \in Entry /\ ~m.reversal /\ m.source = "bill_payment" /\ m.ref = Len(billPayments) + 1
  <2>1. "bill_payment" \in Source /\ vendor \in Party \cup {Nobody}
    BY DEF Source, FormSource, Party
  <2>. QED  BY <1>1, <1>2, <2>1 DEF Posted, Entry
<1>4. billPayments' = Append(billPayments, p) /\ journal' = journal \cup {m}
  BY DEF PayBills, PostEntry
<1>5. /\ billPayments'[Len(billPayments) + 1] = p
      /\ \A n \in DOMAIN billPayments : billPayments'[n] = billPayments[n]
  BY <1>1, <1>4
<1>6. SameDocs
  BY <1>5 DEF SameDocs, PayBills, OnlyBills
<1>7. p.date = date /\ p.vendor = vendor /\ p.applied = applied
  OBVIOUS
<1>. HIDE DEF p
<1>8. Matches(m, invoices', payments', bills', billPayments')
  <2>1. billPayments'[m.ref] = p /\ m.source = "bill_payment"
    BY <1>3, <1>5, <1>7
  <2>2. m = Posted("bill_payment", m.ref, p.date, p.vendor, 0, -AppliedSum(p.applied), 0)
    BY <1>3, <1>5, <1>7
  <2>. HIDE DEF m
  <2>. QED  BY <2>1, <2>2, Distinct DEF Matches
<1>. HIDE DEF m
<1>. QED  BY <1>3, <1>4, <1>6, <1>8, JournalMore

\* and that is voided.
LEMMA VoidBillPaymentJournal ==
  ASSUME SalesInv, JournalInv, MarksOK, NEW n \in DOMAIN billPayments, VoidBillPayment(n)
  PROVE  JournalInv'
<1>1. billPayments[n] \in BillPayment
  BY DEF SalesInv, PapersOK
<1>2. SameDocs
  <2>1. \A x \in BillPayment : /\ [x EXCEPT !.void = TRUE].date = x.date
                               /\ [x EXCEPT !.void = TRUE].vendor = x.vendor
                               /\ [x EXCEPT !.void = TRUE].applied = x.applied
    BY DEF BillPayment
  <2>2. \A j \in DOMAIN billPayments :
          /\ billPayments'[j].date = billPayments[j].date
          /\ billPayments'[j].vendor = billPayments[j].vendor
          /\ billPayments'[j].applied = billPayments[j].applied
    BY <1>1, <2>1 DEF VoidBillPayment
  <2>. QED  BY <2>2 DEF SameDocs, VoidBillPayment, OnlyBills
<1>3. EntryOf("bill_payment", n) \in journal /\ Undo(EntryOf("bill_payment", n))
  BY EntryOfIs DEF VoidBillPayment, SalesInv, BillPaymentsInStep, ListInStep
<1>. QED  BY <1>2, <1>3, JournalUndo

\* Payments to the agency and journal entries have no party.
LEMMA LooseJournal ==
  ASSUME SalesInv, JournalInv, MarksOK, NEW source \in {"sales_tax_payment", "manual"},
         NEW date \in Date, NEW tax \in Int, PostLoose(source, date, tax)
  PROVE  JournalInv'
<1>. DEFINE m == Posted(source, loose + 1, date, Nobody, 0, 0, tax)
<1>1. SameDocs
  BY DEF SameDocs, PostLoose, salesVars
<1>2. m \in Entry /\ ~m.reversal /\ m.source = source
  <2>1. loose + 1 \in Nat /\ source \in Source
    BY SourcesAre DEF MarksOK
  <2>. QED  BY <2>1, PostedType
<1>3. m.party = Nobody /\ m.receivable = 0 /\ m.payable = 0
  BY DEF Posted
<1>4. journal' = journal \cup {m}
  BY DEF PostLoose, PostEntry
<1>. HIDE DEF m
<1>5. Matches(m, invoices', payments', bills', billPayments')
  BY <1>2, <1>3, SourcesAre, Distinct DEF Matches
<1>. QED  BY <1>1, <1>2, <1>4, <1>5, JournalMore

\* Types are kept.
LEMMA MarksStep ==
  ASSUME MarksOK, [Next]_vars
  PROVE  MarksOK'
<1>1. ASSUME UNCHANGED <<inactive, markVars, loose>> PROVE MarksOK'
  BY <1>1 DEF MarksOK, markVars
<1>2. CASE Quote
  BY <1>1, <1>2 DEF Quote, CreateEstimate, UpdateEstimate, DeleteEstimate, MarkEstimate, Convert,
                    OnlyEstimates
<1>3. CASE Invoicing
  BY <1>1, <1>3 DEF Invoicing, CreateInvoice, UpdateDraft, SendInvoice, DeleteDraft, VoidInvoice,
                    ReceivePayment, VoidPayment, OnlyInvoices, OnlyPayments
<1>4. CASE Billing
  BY <1>1, <1>4 DEF Billing, EnterBill, VoidBill, PayBills, VoidBillPayment, OnlyBills
<1>5. CASE Journal
  <2>1. ASSUME NEW source, NEW date, NEW tax, PostLoose(source, date, tax)
        PROVE  MarksOK'
    BY <2>1 DEF PostLoose, MarksOK, markVars
  <2>2. ASSUME NEW e, VoidEntry(e)
        PROVE  MarksOK'
    BY <1>1, <2>2 DEF VoidEntry
  <2>3. ASSUME NEW date \in Date, MoveMarks(date)
        PROVE  MarksOK'
    BY <2>3, DateAssumption DEF MoveMarks, MarksOK, Date
  <2>. QED  BY <1>5, <2>1, <2>2, <2>3 DEF Journal
<1>6. CASE \E p \in Resting : SetActive(p)
  BY <1>6, PartyAssumption DEF SetActive, MarksOK, markVars, Party
<1>7. CASE UNCHANGED vars
  BY <1>1, <1>7 DEF vars
<1>. QED  BY <1>2, <1>3, <1>4, <1>5, <1>6, <1>7 DEF Next

\* The invariant is kept by every step.
LEMMA JournalStep ==
  ASSUME SalesInv, JournalInv, MarksOK, [Next]_vars
  PROVE  JournalInv'
<1>1. ASSUME UNCHANGED <<salesVars, journal>> PROVE JournalInv'
  BY <1>1, JournalSame DEF salesVars, SameDocs
<1>2. CASE Quote
  BY <1>2, DraftsJournal
<1>3. CASE Invoicing
  <2>1. CASE InvoicingOfDrafts
    BY <2>1, DraftsJournal
  <2>2. CASE \E i \in DOMAIN invoices : VoidInvoice(i)
    BY <2>2, VoidInvoiceJournal
  <2>3. CASE \E customer \in Customer, date \in Date, amount \in Amount :
               \E applied \in Splits(DOMAIN invoices) :
                 ReceivePayment(customer, date, amount, applied)
    BY <2>3, ReceiveJournal
  <2>4. CASE \E n \in DOMAIN payments : VoidPayment(n)
    BY <2>4, VoidPaymentJournal
  <2>. QED  BY <1>3, <2>1, <2>2, <2>3, <2>4 DEF Invoicing, InvoicingOfDrafts
<1>4. CASE Billing
  BY <1>4, EnterJournal, VoidBillJournal, PayBillsJournal, VoidBillPaymentJournal DEF Billing
<1>5. CASE Journal
  <2>1. ASSUME NEW date \in Date, NEW amount \in TaxAmount,
               \/ PostLoose("sales_tax_payment", date, -amount)
               \/ PostLoose("manual", date, amount)
        PROVE  JournalInv'
    <3>1. amount \in Int /\ -amount \in Int
      BY AmountAssumption
    <3>. QED  BY <2>1, <3>1, LooseJournal
  <2>2. ASSUME NEW e \in journal, VoidEntry(e)
        PROVE  JournalInv'
    BY <2>2, JournalUndo DEF VoidEntry, SameDocs, salesVars
  <2>3. ASSUME NEW date, MoveMarks(date)
        PROVE  JournalInv'
    BY <1>1, <2>3 DEF MoveMarks
  <2>. QED  BY <1>5, <2>1, <2>2, <2>3 DEF Journal
<1>6. CASE \E p \in Resting : SetActive(p)
  BY <1>1, <1>6 DEF SetActive
<1>7. CASE UNCHANGED vars
  BY <1>1, <1>7 DEF vars
<1>. QED  BY <1>2, <1>3, <1>4, <1>5, <1>6, <1>7 DEF Next

\* An entry that a form posted has the date, the party and the amounts of the form's document
\* for as long as it is in the journal, and a reversal takes back one entry, on its day or
\* later, that nothing else takes back (postEntry, voidWithFallback, reverseEntry).
THEOREM JournalMatches == Spec => [](JournalInv /\ MarksOK)
<1>1. Init => JournalInv /\ MarksOK
  <2>. SUFFICES ASSUME Init PROVE JournalInv /\ MarksOK
    OBVIOUS
  <2>1. journal = {} /\ MarksOK
    BY DateAssumption DEF Init, MarksOK
  <2>. QED  BY <2>1, FS_EmptySet DEF JournalInv
<1>2. SalesInv /\ JournalInv /\ MarksOK /\ [Next]_vars => JournalInv' /\ MarksOK'
  BY JournalStep, MarksStep
<1>. QED  BY <1>1, <1>2, SalesCorrect, PTL DEF Spec

\* One element.
LEMMA SumOne ==
  ASSUME NEW x, NEW f, f[x] \in Int
  PROVE  Over({x}, f) = f[x]
<1>1. IsFiniteSet({}) /\ IntOn({}, f) /\ {} \cup {x} = {x}
  BY FS_EmptySet DEF IntOn
<1>2. Over({} \cup {x}, f) = Over({}, f) + f[x]
  BY <1>1, SumWith
<1>. QED  BY <1>1, <1>2, SumNone

\* The sign may be taken out.
LEMMA SumMinus ==
  ASSUME NEW S, IsFiniteSet(S), NEW f, IntOn(S, f), NEW h, \A x \in S : h[x] = -f[x]
  PROVE  Over(S, h) = -Over(S, f)
<1>. DEFINE none == [x \in S |-> 0]
<1>1. IntOn(S, none) /\ (\A x \in S : none[x] = 0)
  BY DEF IntOn
<1>. HIDE DEF none
<1>2. Over(S, none) = 0
  BY <1>1, SumZero
<1>3. \A x \in S : h[x] = none[x] - f[x]
  BY <1>1 DEF IntOn
<1>4. Over(S, h) = Over(S, none) - Over(S, f)
  BY <1>1, <1>3, SumDifference
<1>5. Over(S, f) \in Int
  BY SumParts
<1>. QED  BY <1>2, <1>4, <1>5

\* Entries of one kind, picked out of a set that is added up.
LEMMA SumKinds ==
  ASSUME NEW S, IsFiniteSet(S), NEW f, IntOn(S, f), NEW T \in SUBSET S
  PROVE  /\ Over(S, f) = Over(T, f) + Over(S \ T, f)
         /\ IsFiniteSet(T) /\ IntOn(T, f) /\ Over(T, f) \in Int
         /\ IsFiniteSet(S \ T) /\ IntOn(S \ T, f) /\ Over(S \ T, f) \in Int
<1>1. IsFiniteSet(T) /\ IsFiniteSet(S \ T)
  BY FS_Subset
<1>2. IntOn(T, f) /\ IntOn(S \ T, f)
  BY DEF IntOn
<1>. QED  BY <1>1, <1>2, SumSplit, SumParts

-----------------------------------------------------------------------------
(* What an entry of each form is.                                          *)

\* The entry of an invoice is by the invoice,
LEMMA InvoicePosted ==
  ASSUME SalesInv, JournalInv, NEW e \in journal, ~e.reversal, e.source = "invoice"
  PROVE  /\ e.ref \in DOMAIN invoices /\ invoices[e.ref].posted
         /\ e = InvoiceEntry(e.ref, invoices[e.ref])
<1>1. HasEntry("invoice", e.ref)
  BY DEF HasEntry
<1>. QED  BY <1>1 DEF SalesInv, InvoicesInStep, JournalInv, AsPosted, Matches

\* and an invoice that was posted has it.
LEMMA PostedInvoice ==
  ASSUME SalesInv, JournalInv, NEW i \in DOMAIN invoices, invoices[i].posted
  PROVE  /\ InvoiceEntry(i, invoices[i]) \in journal
         /\ \A e \in journal : ~e.reversal /\ e.source = "invoice" /\ e.ref = i
                                 => e = InvoiceEntry(i, invoices[i])
<1>1. HasEntry("invoice", i)
  BY DEF SalesInv, InvoicesInStep
<1>2. PICK e \in journal : e.source = "invoice" /\ e.ref = i /\ ~e.reversal
  BY <1>1 DEF HasEntry
<1>. QED  BY <1>2, InvoicePosted

\* Only invoices, payments to the agency and journal entries touch sales tax.
LEMMA NoTax ==
  ASSUME SalesInv, JournalInv, NEW e \in journal,
         e.source \notin {"invoice", "sales_tax_payment", "manual"}
  PROVE  e.tax = 0
<1>1. \A x \in Entry : x.source \in {"payment", "bill", "bill_payment"}
                       \/ x.source \in {"invoice", "sales_tax_payment", "manual"}
  BY DEF Entry, Source, FormSource
<1>2. ASSUME NEW x \in journal, ~x.reversal, x.source \in {"payment", "bill", "bill_payment"}
      PROVE  x.tax = 0
  BY <1>2 DEF JournalInv, AsPosted, Matches, Posted
<1>3. e.source \in {"payment", "bill", "bill_payment"}
  BY <1>1 DEF JournalInv
<1>4. CASE ~e.reversal
  BY <1>2, <1>3, <1>4
<1>5. CASE e.reversal
  <2>1. PICK x \in journal : ~x.reversal /\ e = Mirror(x, e.date)
    BY <1>5 DEF JournalInv, Undone
  <2>2. e.source = x.source /\ e.tax = -x.tax
    BY <2>1 DEF Mirror
  <2>. QED  BY <1>2, <1>3, <2>1, <2>2
<1>. QED  BY <1>4, <1>5

-----------------------------------------------------------------------------
\* The lines of the sales tax report account for every movement but those of journal
\* entries.
LEMMA TaxReport ==
  ASSUME SalesInv, JournalInv, NEW from \in Date, NEW to \in Date
  PROVE  Adjustments(from, to)
           = SumFunction([e \in {e \in Dated(from, to) : e.source = "manual"} |-> e.tax])
<1>. DEFINE J == Dated(from, to)
            t == [e \in journal |-> e.tax]
            I == {e \in J : ~e.reversal /\ e.source = "invoice"}
            V == {e \in J : e.reversal /\ e.source = "invoice"}
            T == {e \in J : e.source = "sales_tax_payment"}
            M == {e \in J : e.source = "manual"}
            P == {i \in DOMAIN invoices : invoices[i].posted /\ invoices[i].date \in from..to}
            taxes == [i \in P |-> Tax(invoices[i].content)]
            undone == [e \in V |-> -e.tax]
            paid == [e \in T |-> -e.tax]
<1>1. J \subseteq journal /\ IsFiniteSet(J)
  BY FS_Subset DEF Dated, JournalInv
<1>2. \A e \in journal : t[e] = e.tax /\ t[e] \in Int
  BY DEF JournalInv, Entry
<1>3. IntOn(J, t) /\ (\A e \in J : t[e] = e.tax)
  BY <1>1, <1>2 DEF IntOn
<1>4. /\ Movement(from, to) = Over(J, t)
      /\ SumFunction([e \in M |-> e.tax]) = Over(M, t)
  <2>1. [e \in J |-> e.tax] = [e \in J |-> t[e]] /\ [e \in M |-> e.tax] = [e \in M |-> t[e]]
    BY <1>3
  <2>. QED  BY <2>1 DEF Movement, Over
<1>5. Collected(from, to) = Over(P, taxes)
  <2>1. [i \in P |-> taxes[i]] = [i \in P |-> Tax(invoices[i].content)]
    OBVIOUS
  <2>. QED  BY <2>1 DEF Collected, Over
<1>6. Voided(from, to) = Over(V, undone) /\ TaxPaid(from, to) = Over(T, paid)
  <2>1. [e \in V |-> undone[e]] = [e \in V |-> -e.tax] /\ [e \in T |-> paid[e]] = [e \in T |-> -e.tax]
    OBVIOUS
  <2>. QED  BY <2>1 DEF Voided, TaxPaid, IsTaxPayment, Over
<1>7. /\ \A e \in V : undone[e] = -t[e]
      /\ \A e \in T : paid[e] = -t[e]
  BY <1>3
<1>8. /\ I \in SUBSET J /\ V \in SUBSET (J \ I) /\ T \in SUBSET ((J \ I) \ V)
      /\ M \in SUBSET (((J \ I) \ V) \ T)
      /\ \A e \in (((J \ I) \ V) \ T) \ M :
           e \in journal /\ e.source \notin {"invoice", "sales_tax_payment", "manual"}
  <2>1. \A e \in J : e.reversal \in BOOLEAN
    BY <1>1 DEF JournalInv, Entry
  <2>. QED  BY <1>1, <2>1
<1>9. Over(I, t) = Over(P, taxes)
  <2>. DEFINE key == [e \in I |-> e.ref]
              group == [i \in P |-> {e \in I : e.ref = i}]
  <2>0. \A i \in P : \A e : e \in group[i] <=> e \in I /\ key[e] = i
    OBVIOUS
  <2>1. \A i \in P : taxes[i] = Over(group[i], t)
    <3>. SUFFICES ASSUME NEW i \in P PROVE taxes[i] = Over(group[i], t)
      OBVIOUS
    <3>. DEFINE x == InvoiceEntry(i, invoices[i])
    <3>1. x \in journal /\ \A e \in journal : ~e.reversal /\ e.source = "invoice" /\ e.ref = i => e = x
      BY PostedInvoice
    <3>2. /\ ~x.reversal /\ x.source = "invoice" /\ x.ref = i
          /\ x.date = invoices[i].date /\ x.tax = Tax(invoices[i].content)
      BY DEF InvoiceEntry, Posted
    <3>3. x \in I
      BY <3>1, <3>2 DEF Dated
    <3>4. group[i] = {x}
      <4>. HIDE DEF x
      <4>. QED  BY <1>1, <3>1, <3>2, <3>3
    <3>5. taxes[i] = t[x] /\ t[x] \in Int
      BY <1>2, <3>1, <3>2
    <3>. HIDE DEF x, t
    <3>6. Over({x}, t) = t[x]
      BY <3>5, SumOne
    <3>. QED  BY <3>4, <3>5, <3>6
  <2>2. \A e \in I : key[e] \in P
    <3>1. ASSUME NEW e \in I PROVE e.ref \in P
      <4>1. /\ e.ref \in DOMAIN invoices /\ invoices[e.ref].posted
            /\ e = InvoiceEntry(e.ref, invoices[e.ref])
        BY <1>1, InvoicePosted
      <4>2. e.date = invoices[e.ref].date
        BY <4>1 DEF InvoiceEntry, Posted
      <4>3. e.date \in from..to
        BY DEF Dated
      <4>. QED  BY <4>1, <4>2, <4>3
    <3>. QED  BY <3>1
  <2>3. IsFiniteSet(P)
    <3>1. DOMAIN invoices \subseteq 1..(nextInvoice - 1) /\ nextInvoice - 1 \in Int
      BY DEF SalesInv, PapersOK
    <3>2. P \in SUBSET (1..(nextInvoice - 1)) /\ IsFiniteSet(1..(nextInvoice - 1))
      BY <3>1, FS_Interval
    <3>. HIDE DEF P
    <3>. QED  BY <3>2, FS_Subset
  <2>4. IsFiniteSet(I) /\ IntOn(I, t)
    BY <1>1, <1>3, FS_Subset DEF IntOn
  <2>. HIDE DEF I, P, t, taxes, key, group
  <2>. QED  BY <2>0, <2>1, <2>2, <2>3, <2>4, SumGroups
<1>. HIDE DEF J, t, I, V, T, M, P, taxes, undone, paid
<1>10. /\ Over(J, t) = Over(I, t) + Over(J \ I, t)
       /\ IsFiniteSet(J \ I) /\ IntOn(J \ I, t)
       /\ Over(I, t) \in Int /\ Over(J \ I, t) \in Int
  BY <1>1, <1>3, <1>8, SumKinds
<1>11. /\ Over(J \ I, t) = Over(V, t) + Over((J \ I) \ V, t)
       /\ IsFiniteSet((J \ I) \ V) /\ IntOn((J \ I) \ V, t)
       /\ IsFiniteSet(V) /\ IntOn(V, t)
       /\ Over(V, t) \in Int /\ Over((J \ I) \ V, t) \in Int
  BY <1>8, <1>10, SumKinds
<1>12. /\ Over((J \ I) \ V, t) = Over(T, t) + Over(((J \ I) \ V) \ T, t)
       /\ IsFiniteSet(((J \ I) \ V) \ T) /\ IntOn(((J \ I) \ V) \ T, t)
       /\ IsFiniteSet(T) /\ IntOn(T, t)
       /\ Over(T, t) \in Int /\ Over(((J \ I) \ V) \ T, t) \in Int
  BY <1>8, <1>11, SumKinds
<1>13. /\ Over(((J \ I) \ V) \ T, t) = Over(M, t) + Over((((J \ I) \ V) \ T) \ M, t)
       /\ IsFiniteSet((((J \ I) \ V) \ T) \ M)
       /\ Over(M, t) \in Int
  BY <1>8, <1>12, SumKinds
<1>14. Over((((J \ I) \ V) \ T) \ M, t) = 0
  <2>1. \A e \in (((J \ I) \ V) \ T) \ M : t[e] = 0
    BY <1>2, <1>8, NoTax
  <2>. QED  BY <1>13, <2>1, SumZero
<1>15. Over(V, undone) = -Over(V, t)
  BY <1>7, <1>11, SumMinus
<1>16. Over(T, paid) = -Over(T, t)
  BY <1>7, <1>12, SumMinus
<1>17. Adjustments(from, to) = Over(J, t) - Over(P, taxes) + Over(V, undone) + Over(T, paid)
  BY <1>4, <1>5, <1>6 DEF Adjustments
<1>18. Adjustments(from, to) = Over(M, t)
  BY <1>9, <1>10, <1>11, <1>12, <1>13, <1>14, <1>15, <1>16, <1>17
<1>. QED  BY <1>4, <1>18 DEF M, J

\* The lines of the sales tax report come to the movement of the tax account but for what
\* journal entries moved, over any two days (salesTaxReport): invoices that were voided count
\* on the day they were sent and are taken back on the day they were voided.
THEOREM AlwaysTaxReportTies == Spec => []TaxReportTies
<1>1. SalesInv /\ JournalInv => TaxReportTies
  BY TaxReport DEF TaxReportTies
<1>. QED  BY <1>1, SalesCorrect, JournalMatches, PTL

-----------------------------------------------------------------------------
(* What payments pay of the documents of one party dated by a date, summed *)
(* over the documents or over the payments.                                *)

\* Q: documents of c among S that are early.  L: live payments of c.  What is paid of each
\* document, and what each payment pays of early ones.
PaysEarly(S, who, c, asOf, early, list, payer, Q, L, rows, toward) ==
  /\ IsFiniteSet(Q)
  /\ \A i : i \in Q <=> i \in S /\ who[i] = c /\ i \in early
  /\ \A n : n \in L <=> n \in Live(list, asOf) /\ payer[n] = c
  /\ \A i \in Q : rows[i] = Paid(list, i, asOf)
  /\ \A n \in L : toward[n] = AppliedSum({a \in list[n].applied : a.id \in early})

\* Both come to the same: rows first, or columns first.
LEMMA PaidEitherWay ==
  ASSUME NEW list, NEW payer, NEW S, NEW owed, NEW who, Held(list, payer, S, owed, who),
         NEW c, NEW asOf \in Int, NEW early, NEW Q, NEW L, NEW rows, NEW toward,
         PaysEarly(S, who, c, asOf, early, list, payer, Q, L, rows, toward)
  PROVE  /\ Over(Q, rows) = Over(L, toward)
         /\ IsFiniteSet(L) /\ IntOn(L, toward) /\ IntOn(Q, rows)
<1>. USE DEF PaysEarly
<1>. DEFINE F == [i \in Q |-> [n \in L |-> AppliedTo(list[n], i)]]
            G == [n \in L |-> [i \in Q |-> AppliedTo(list[n], i)]]
<1>1. IsList(list) /\ L \in SUBSET Live(list, asOf) /\ L \subseteq DOMAIN list
  BY DEF Held, Live
<1>2. IsFiniteSet(Live(list, asOf)) /\ IsFiniteSet(L)
  BY <1>1, PaidIs, FS_Subset
<1>3. ASSUME NEW n \in Live(list, asOf)
      PROVE  /\ n \in DOMAIN list /\ IsSplit(list[n].applied)
             /\ \A a \in list[n].applied : a.id \in S /\ who[a.id] = payer[n]
  BY <1>1 DEF Live, IsList, Held
<1>4. \A i \in Q : IntOn(L, F[i])
  <2>1. \A i \in Q, n \in L : F[i][n] = AppliedTo(list[n], i) /\ AppliedTo(list[n], i) \in Nat
    BY <1>1, <1>3, AppliedToIs
  <2>. HIDE DEF F
  <2>. QED  BY <2>1 DEF IntOn
<1>5. \A i \in Q, n \in L : G[n][i] = F[i][n]
  OBVIOUS
<1>6. ASSUME NEW i \in Q
      PROVE  rows[i] = Over(L, F[i]) /\ rows[i] \in Int
  <2>. DEFINE f == PaysOf(list, i)
  <2>1. /\ Paid(list, i, asOf) = Over(Live(list, asOf), f) /\ Paid(list, i, asOf) \in Int
        /\ \A n \in DOMAIN list : f[n] = AppliedTo(list[n], i) /\ f[n] \in Nat
    BY <1>1, PaidIs DEF PaysOf
  <2>2. \A n \in Live(list, asOf) \ L : f[n] = 0
    <3>. SUFFICES ASSUME NEW n \in Live(list, asOf) \ L PROVE f[n] = 0
      OBVIOUS
    <3>1. \A a \in list[n].applied : a.id # i
      BY <1>3
    <3>. QED  BY <1>3, <2>1, <3>1, AppliedToIs
  <2>3. \A n \in L : f[n] = F[i][n]
    BY <1>1, <2>1
  <2>4. IntOn(Live(list, asOf), f)
    BY <1>3, <2>1 DEF IntOn
  <2>. HIDE DEF f, F
  <2>5. /\ Over(Live(list, asOf), f) = Over(L, f) + Over(Live(list, asOf) \ L, f)
        /\ Over(L, f) \in Int /\ IsFiniteSet(Live(list, asOf) \ L)
    BY <1>1, <1>2, <2>4, SumKinds
  <2>6. Over(Live(list, asOf) \ L, f) = 0
    BY <2>2, <2>5, SumZero
  <2>7. Over(L, f) = Over(L, F[i])
    BY <2>3, SumSame
  <2>. QED  BY <2>1, <2>5, <2>6, <2>7
<1>7. ASSUME NEW n \in L
      PROVE  toward[n] = Over(Q, G[n]) /\ toward[n] \in Int
  <2>. DEFINE A == {a \in list[n].applied : a.id \in early}
              f == [a \in list[n].applied |-> a.amount]
              key == [a \in list[n].applied |-> a.id]
              group == [i \in Q |-> {a \in list[n].applied : a.id = i}]
  <2>1. IsSplit(list[n].applied) /\ \A a \in list[n].applied : a.id \in S /\ who[a.id] = c
    BY <1>1, <1>3
  <2>2. IsFiniteSet(A) /\ IntOn(A, f) /\ A \subseteq list[n].applied
    BY <2>1, FS_Subset DEF IsSplit, IntOn
  <2>3. \A a \in A : key[a] \in Q
    BY <2>1
  <2>4. \A i \in Q : \A a : a \in group[i] <=> a \in A /\ key[a] = i
    OBVIOUS
  <2>5. \A i \in Q : G[n][i] = Over(group[i], f)
    <3>. SUFFICES ASSUME NEW i \in Q PROVE G[n][i] = Over(group[i], f)
      OBVIOUS
    <3>1. [a \in group[i] |-> f[a]] = [a \in group[i] |-> a.amount]
      OBVIOUS
    <3>2. G[n][i] = AppliedSum(group[i])
      BY DEF AppliedTo
    <3>. QED  BY <3>1, <3>2 DEF AppliedSum, Over
  <2>6. toward[n] = Over(A, f)
    <3>1. [a \in A |-> f[a]] = [a \in A |-> a.amount]
      OBVIOUS
    <3>2. toward[n] = AppliedSum(A)
      OBVIOUS
    <3>. QED  BY <3>1, <3>2 DEF AppliedSum, Over
  <2>. HIDE DEF A, f, key, group, G
  <2>7. Over(Q, G[n]) = Over(A, f)
    BY <2>2, <2>3, <2>4, <2>5, SumGroups
  <2>8. Over(A, f) \in Int
    BY <2>2, SumParts
  <2>. QED  BY <2>6, <2>7, <2>8
<1>. HIDE DEF F, G
<1>8. IntOn(L, toward) /\ IntOn(Q, rows)
  BY <1>6, <1>7 DEF IntOn
<1>9. Over(Q, rows) = Over(L, toward)
  <2>1. \A i \in Q : rows[i] = Over(L, F[i])
    BY <1>6
  <2>2. \A n \in L : toward[n] = Over(Q, G[n])
    BY <1>7
  <2>3. IsTable(Q, L, F, G, rows, toward)
    BY <1>2, <1>4, <1>5, <2>1, <2>2 DEF IsTable
  <2>. QED  BY <2>3, SumSwap
<1>. QED  BY <1>2, <1>8, <1>9

-----------------------------------------------------------------------------
(* The entries of one kind of form, and of one party, up to a date that    *)
(* nothing is undone after: what was voided cancels, the rest is counted   *)
(* document by document.                                                   *)

\* The entries of a party that forms of one kind have posted by a date, and those of them
\* that stand.
Posts(D, standing, entry, source, c, asOf) ==
  /\ IsFiniteSet(D)
  /\ \A i \in D : /\ entry[i] \in journal /\ ~entry[i].reversal
                   /\ entry[i].source = source /\ entry[i].ref = i
                   /\ entry[i].party = c /\ entry[i].date <= asOf
  /\ \A i \in D : \A e \in journal : ~e.reversal /\ e.source = source /\ e.ref = i
                                      => e = entry[i]
  /\ \A e \in journal : ~e.reversal /\ e.source = source /\ e.party = c /\ e.date <= asOf
                         => e.ref \in D
  /\ standing \in SUBSET D
  /\ \A i \in D : i \in standing <=> ~IsUndone(source, i)

EntriesOf(source, c, asOf) ==
  {e \in Dated(1, asOf) : e.party = c /\ e.source = source}

\* They are entries, finitely many.
LEMMA EntriesAre ==
  ASSUME JournalInv, NEW source, NEW c, NEW asOf \in Date
  PROVE  /\ IsFiniteSet(EntriesOf(source, c, asOf))
         /\ \A e : e \in EntriesOf(source, c, asOf) <=>
              /\ e \in journal /\ e.date <= asOf /\ e.party = c /\ e.source = source
         /\ \A e \in journal : e.reversal \in BOOLEAN
<1>1. asOf \in Int /\ \A e \in journal : e.date \in 1..LastDate /\ e.reversal \in BOOLEAN
  BY DateAssumption DEF JournalInv, Entry, Date
<1>2. \A e \in journal : e.date \in 1..asOf <=> e.date <= asOf
  BY <1>1, DateAssumption
<1>3. \A e : e \in EntriesOf(source, c, asOf) <=>
        e \in journal /\ e.date <= asOf /\ e.party = c /\ e.source = source
  BY <1>2 DEF EntriesOf, Dated
<1>4. EntriesOf(source, c, asOf) \in SUBSET journal /\ IsFiniteSet(journal)
  BY <1>3 DEF JournalInv
<1>. QED  BY <1>1, <1>3, <1>4, FS_Subset

\* A reversal is of the entry of its own number.
LEMMA UndoneIs ==
  ASSUME JournalInv, NEW m \in journal, m.reversal
  PROVE  \E e \in journal : /\ ~e.reversal /\ e.date <= m.date /\ m = Mirror(e, m.date)
                            /\ e.source = m.source /\ e.ref = m.ref /\ e.party = m.party
<1>1. PICK e \in journal : ~e.reversal /\ e.date <= m.date /\ m = Mirror(e, m.date)
  BY DEF JournalInv, Undone
<1>2. e.source = m.source /\ e.ref = m.ref /\ e.party = m.party
  BY <1>1 DEF Mirror
<1>. QED  BY <1>1, <1>2

\* The entries of one document are its entry and, once undone, the reversal of that.
LEMMA GroupOf ==
  ASSUME JournalInv, NEW source, NEW c, NEW asOf \in Date, Settled(c, asOf),
         NEW D, NEW standing, NEW entry, Posts(D, standing, entry, source, c, asOf),
         NEW i \in D
  PROVE  /\ entry[i] \in EntriesOf(source, c, asOf)
         /\ i \in standing => {e \in EntriesOf(source, c, asOf) : e.ref = i} = {entry[i]}
         /\ i \notin standing => \E m \in journal :
              /\ m = Mirror(entry[i], m.date) /\ m # entry[i]
              /\ {e \in EntriesOf(source, c, asOf) : e.ref = i} = {entry[i]} \cup {m}
<1>. DEFINE E == EntriesOf(source, c, asOf)
            x == entry[i]
<1>1. /\ \A e : e \in E <=> e \in journal /\ e.date <= asOf /\ e.party = c /\ e.source = source
      /\ \A e \in journal : e.reversal \in BOOLEAN
  BY EntriesAre
<1>2. /\ x \in journal /\ ~x.reversal /\ x.source = source /\ x.ref = i /\ x.party = c
      /\ x.date <= asOf
  BY DEF Posts
<1>3. x \in E
  BY <1>1, <1>2
<1>4. \A e \in E : e.ref = i /\ ~e.reversal => e = x
  BY <1>1 DEF Posts
<1>5. i \in standing <=> ~IsUndone(source, i)
  BY DEF Posts
<1>. HIDE DEF E, x
<1>6. ASSUME i \in standing
      PROVE  {e \in E : e.ref = i} = {x}
  <2>1. \A e \in E : e.ref = i => ~e.reversal
    BY <1>1, <1>5, <1>6 DEF IsUndone
  <2>. QED  BY <1>2, <1>3, <1>4, <2>1
<1>7. ASSUME i \notin standing
      PROVE  \E m \in journal : /\ m = Mirror(x, m.date) /\ m # x
                                /\ {e \in E : e.ref = i} = {x} \cup {m}
  <2>1. PICK m \in journal : m.source = source /\ m.ref = i /\ m.reversal
    BY <1>5, <1>7 DEF IsUndone
  <2>2. PICK e \in journal : /\ ~e.reversal /\ m = Mirror(e, m.date)
                             /\ e.source = source /\ e.ref = i /\ e.party = m.party
    BY <2>1, UndoneIs
  <2>3. e = x
    BY <2>2 DEF Posts, x
  <2>4. m \in E
    <3>1. Mirrors(m, x)
      BY <1>2, <2>1 DEF Mirrors
    <3>2. m.date <= asOf
      BY <1>2, <2>1, <3>1 DEF Settled
    <3>. QED  BY <1>1, <1>2, <2>1, <2>2, <2>3, <3>2
  <2>5. \A n \in E : n.ref = i /\ n.reversal => n = m
    BY <1>1, <2>1 DEF JournalInv
  <2>6. {n \in E : n.ref = i} = {x} \cup {m}
    BY <1>1, <1>2, <1>3, <1>4, <2>1, <2>4, <2>5
  <2>. QED  BY <1>2, <2>1, <2>2, <2>3, <2>6
<1>. QED  BY <1>3, <1>6, <1>7 DEF E, x

\* What such entries do to an account: r reads it.
Mirrored(r) == /\ IntOn(journal, r)
               /\ \A e, m \in journal : m = Mirror(e, m.date) => r[m] = -r[e]

\* Which cancel.
LEMMA SumOfGroup ==
  ASSUME JournalInv, NEW source, NEW c, NEW asOf \in Date, Settled(c, asOf),
         NEW D, NEW standing, NEW entry, Posts(D, standing, entry, source, c, asOf),
         NEW i \in D, NEW r, Mirrored(r),
         NEW G, G = {e \in EntriesOf(source, c, asOf) : e.ref = i}
  PROVE  /\ i \in standing => Over(G, r) = r[entry[i]]
         /\ i \notin standing => Over(G, r) = 0
         /\ Over(G, r) \in Int
<1>. DEFINE x == entry[i]
<1>1. x \in journal /\ r[x] \in Int
  BY DEF Posts, Mirrored, IntOn
<1>2. /\ i \in standing => G = {x}
      /\ i \notin standing => \E m \in journal :
           m = Mirror(x, m.date) /\ m # x /\ G = {x} \cup {m}
  BY GroupOf
<1>. HIDE DEF x
<1>3. Over({x}, r) = r[x]
  BY <1>1, SumOne
<1>4. CASE i \in standing
  BY <1>1, <1>2, <1>3, <1>4 DEF x
<1>5. CASE i \notin standing
  <2>1. PICK m \in journal : m = Mirror(x, m.date) /\ m # x /\ G = {x} \cup {m}
    BY <1>2, <1>5
  <2>2. r[m] = -r[x] /\ r[m] \in Int
    BY <1>1, <2>1 DEF Mirrored, IntOn
  <2>3. IsFiniteSet({x}) /\ IntOn({x}, r) /\ m \notin {x}
    BY <1>1, <2>1, FS_Singleton DEF IntOn
  <2>4. Over({x} \cup {m}, r) = Over({x}, r) + r[m]
    BY <2>2, <2>3, SumWith
  <2>5. Over(G, r) = r[x] + r[m]
    BY <1>3, <2>1, <2>4
  <2>6. Over(G, r) = 0
    BY <1>1, <2>2, <2>5
  <2>. QED  BY <1>5, <2>6
<1>. QED  BY <1>4, <1>5

\* So that the entries add up to those of the documents that stand.
LEMMA SumOfEntries ==
  ASSUME JournalInv, NEW source, NEW c, NEW asOf \in Date, Settled(c, asOf),
         NEW D, NEW standing, NEW entry, Posts(D, standing, entry, source, c, asOf),
         NEW r, Mirrored(r), NEW value, \A i \in standing : value[i] = r[entry[i]]
  PROVE  Over(EntriesOf(source, c, asOf), r) = Over(standing, value)
<1>. DEFINE E == EntriesOf(source, c, asOf)
            key == [e \in E |-> e.ref]
            group == [i \in D |-> {e \in E : e.ref = i}]
            net == [i \in D |-> Over(group[i], r)]
<1>1. IsFiniteSet(E) /\ IntOn(E, r) /\ IsFiniteSet(D) /\ standing \in SUBSET D
  BY EntriesAre DEF Mirrored, IntOn, Posts
<1>2. \A e \in E : key[e] \in D
  <2>. SUFFICES ASSUME NEW e \in E PROVE e.ref \in D
    OBVIOUS
  <2>1. e \in journal /\ e.date <= asOf /\ e.party = c /\ e.source = source
        /\ e.reversal \in BOOLEAN
    BY EntriesAre
  <2>2. PICK p \in journal : /\ ~p.reversal /\ p.date <= e.date /\ p.source = e.source
                             /\ p.ref = e.ref /\ p.party = e.party
    <3>1. e.date \in Int
      BY <2>1, DateAssumption DEF JournalInv, Entry, Date
    <3>2. CASE e.reversal
      BY <2>1, <3>2, UndoneIs
    <3>3. CASE ~e.reversal
      <4>1. e.date <= e.date
        BY <3>1
      <4>. QED  BY <2>1, <3>3, <4>1
    <3>. QED  BY <2>1, <3>2, <3>3
  <2>3. p.date <= asOf
    <3>1. e.date \in Int /\ p.date \in Int /\ asOf \in Int
      BY <2>1, <2>2, DateAssumption DEF JournalInv, Entry, Date
    <3>. QED  BY <2>1, <2>2, <3>1
  <2>. QED  BY <2>1, <2>2, <2>3 DEF Posts
<1>3. \A i \in D : \A e : e \in group[i] <=> e \in E /\ key[e] = i
  OBVIOUS
<1>4. \A i \in D : net[i] = Over(group[i], r)
  OBVIOUS
<1>5. \A i \in D : /\ i \in standing => net[i] = r[entry[i]]
                   /\ i \notin standing => net[i] = 0
                   /\ net[i] \in Int
  <2>1. \A i \in D : group[i] = {e \in EntriesOf(source, c, asOf) : e.ref = i}
    OBVIOUS
  <2>. HIDE DEF group
  <2>. QED  BY <1>4, <2>1, SumOfGroup
<1>. HIDE DEF E, key, group, net
<1>6. Over(D, net) = Over(E, r)
  BY <1>1, <1>2, <1>3, <1>4, SumGroups
<1>7. IntOn(D, net)
  BY <1>5 DEF IntOn
<1>8. /\ Over(D, net) = Over(standing, net) + Over(D \ standing, net)
      /\ Over(standing, net) \in Int /\ IsFiniteSet(D \ standing)
  BY <1>1, <1>7, SumKinds
<1>9. Over(D \ standing, net) = 0
  BY <1>5, <1>8, SumZero
<1>10. Over(standing, net) = Over(standing, value)
  BY <1>1, <1>5, SumSame
<1>. QED  BY <1>6, <1>8, <1>9, <1>10 DEF E

-----------------------------------------------------------------------------
(* The entries of customers and of vendors.                                *)

\* Only invoices and payments are of a customer, only bills and theirs of a vendor.
LEMMA PartiesForms ==
  ASSUME SalesInv, JournalInv, NEW e \in journal
  PROVE  /\ e.party \in Customer => e.source \in {"invoice", "payment"}
         /\ e.party \in Vendor => e.source \in {"bill", "bill_payment"}
<1>1. ASSUME NEW x \in journal, ~x.reversal
      PROVE  /\ x.party \in Customer => x.source \in {"invoice", "payment"}
             /\ x.party \in Vendor => x.source \in {"bill", "bill_payment"}
  <2>1. HasEntry(x.source, x.ref) /\ Matches(x, invoices, payments, bills, billPayments)
    BY <1>1 DEF HasEntry, JournalInv, AsPosted
  <2>2. CASE x.source = "invoice"
    <3>1. x.ref \in DOMAIN invoices /\ x.party = invoices[x.ref].customer
      BY <2>1, <2>2 DEF SalesInv, InvoicesInStep, Matches, InvoiceEntry, Posted
    <3>2. x.party \in Customer
      BY <3>1 DEF SalesInv, PapersOK, Invoice
    <3>. QED  BY <2>2, <3>2, PartyAssumption
  <2>3. CASE x.source = "payment"
    <3>1. x.ref \in DOMAIN payments /\ x.party = payments[x.ref].customer
      BY <2>1, <2>3 DEF SalesInv, PaymentsInStep, ListInStep, Matches, Posted
    <3>2. payments[x.ref] \in Payment
      BY <3>1 DEF SalesInv, PapersOK
    <3>3. x.party \in Customer
      BY <3>1, <3>2 DEF Payment
    <3>. QED  BY <2>3, <3>3, PartyAssumption
  <2>4. CASE x.source = "bill"
    <3>1. x.ref \in DOMAIN bills /\ x.party = bills[x.ref].vendor
      BY <2>1, <2>4 DEF SalesInv, BillsInStep, ListInStep, Matches, Posted
    <3>2. bills[x.ref] \in Bill
      BY <3>1 DEF SalesInv, PapersOK
    <3>3. x.party \in Vendor
      BY <3>1, <3>2 DEF Bill
    <3>. QED  BY <2>4, <3>3, PartyAssumption
  <2>5. CASE x.source = "bill_payment"
    <3>1. x.ref \in DOMAIN billPayments /\ x.party = billPayments[x.ref].vendor
      BY <2>1, <2>5 DEF SalesInv, BillPaymentsInStep, ListInStep, Matches, Posted
    <3>2. billPayments[x.ref] \in BillPayment
      BY <3>1 DEF SalesInv, PapersOK
    <3>3. x.party \in Vendor
      BY <3>1, <3>2 DEF BillPayment
    <3>. QED  BY <2>5, <3>3, PartyAssumption
  <2>6. CASE x.source \notin FormSource
    BY <2>1, <2>6, PartyAssumption DEF Matches
  <2>. QED  BY <2>2, <2>3, <2>4, <2>5, <2>6 DEF FormSource
<1>2. CASE ~e.reversal
  BY <1>1, <1>2
<1>3. CASE e.reversal
  <2>1. PICK x \in journal : ~x.reversal /\ x.source = e.source /\ x.party = e.party
    BY <1>3, UndoneIs
  <2>. QED  BY <1>1, <2>1
<1>4. e.reversal \in BOOLEAN
  BY DEF JournalInv, Entry
<1>. QED  BY <1>2, <1>3, <1>4

\* What is posted of a party is what two kinds of form posted.
LEMMA TwoForms ==
  ASSUME JournalInv, NEW s, NEW t, s # t, NEW c, NEW asOf \in Date, NEW r, Mirrored(r),
         \A e \in journal : e.party = c => e.source \in {s, t}
  PROVE  Over({e \in Dated(1, asOf) : e.party = c}, r)
           = Over(EntriesOf(s, c, asOf), r) + Over(EntriesOf(t, c, asOf), r)
<1>. DEFINE J == {e \in Dated(1, asOf) : e.party = c}
            A == EntriesOf(s, c, asOf)
            B == EntriesOf(t, c, asOf)
<1>1. J \in SUBSET journal /\ IsFiniteSet(journal)
  BY DEF Dated, JournalInv
<1>2. A \in SUBSET J /\ J \ A = B
  BY <1>1 DEF EntriesOf
<1>3. IsFiniteSet(J) /\ IntOn(J, r)
  BY <1>1, FS_Subset DEF Mirrored, IntOn
<1>. HIDE DEF J, A, B
<1>4. Over(J, r) = Over(A, r) + Over(J \ A, r)
  BY <1>2, <1>3, SumKinds
<1>. QED  BY <1>2, <1>4 DEF J, A, B

\* Invoices post so.
LEMMA InvoicesPost ==
  ASSUME SalesInv, JournalInv, NEW c, NEW asOf \in Date,
         NEW D, D = {i \in DOMAIN invoices : /\ invoices[i].posted /\ invoices[i].customer = c
                                             /\ invoices[i].date <= asOf},
         NEW Q, Q = {i \in Sent : invoices[i].customer = c /\ invoices[i].date <= asOf},
         NEW entry, entry = [i \in DOMAIN invoices |-> InvoiceEntry(i, invoices[i])]
  PROVE  Posts(D, Q, entry, "invoice", c, asOf)
<1>1. IsFiniteSet(D)
  <2>1. DOMAIN invoices \subseteq 1..(nextInvoice - 1) /\ nextInvoice - 1 \in Int
    BY DEF SalesInv, PapersOK
  <2>2. IsFiniteSet(1..(nextInvoice - 1))
    BY <2>1, FS_Interval
  <2>3. D \in SUBSET (1..(nextInvoice - 1))
    BY <2>1
  <2>. QED  BY <2>2, <2>3, FS_Subset
<1>2. ASSUME NEW i \in DOMAIN invoices
      PROVE  /\ ~entry[i].reversal /\ entry[i].source = "invoice" /\ entry[i].ref = i
             /\ entry[i].party = invoices[i].customer /\ entry[i].date = invoices[i].date
  BY DEF InvoiceEntry, Posted
<1>3. ASSUME NEW i \in D
      PROVE  /\ entry[i] \in journal
             /\ \A e \in journal : ~e.reversal /\ e.source = "invoice" /\ e.ref = i
                                     => e = entry[i]
  BY PostedInvoice
<1>4. ASSUME NEW e \in journal, ~e.reversal, e.source = "invoice", e.party = c, e.date <= asOf
      PROVE  e.ref \in D
  <2>1. e.ref \in DOMAIN invoices /\ invoices[e.ref].posted /\ e = entry[e.ref]
    BY <1>4, InvoicePosted
  <2>. QED  BY <1>2, <1>4, <2>1
<1>5. Q \in SUBSET D /\ \A i \in D : i \in Q <=> ~IsUndone("invoice", i)
  <2>1. \A i \in DOMAIN invoices : /\ invoices[i].state = "sent" => invoices[i].posted
                                   /\ invoices[i].state = "draft" => ~invoices[i].posted
                                   /\ invoices[i].state \in {"draft", "sent", "void"}
    BY DEF SalesInv, SentIsPosted, PapersOK, Invoice
  <2>2. \A i \in DOMAIN invoices : IsUndone("invoice", i)
                                     <=> invoices[i].posted /\ invoices[i].state = "void"
    BY DEF SalesInv, InvoicesInStep
  <2>. QED  BY <2>1, <2>2 DEF Sent
<1>6. \A i \in D : i \in DOMAIN invoices /\ invoices[i].customer = c /\ invoices[i].date <= asOf
  OBVIOUS
<1>. QED  BY <1>1, <1>2, <1>3, <1>4, <1>5, <1>6 DEF Posts

\* The entries that the documents of a list posted.
ListEntries(source, list, payer, entry) ==
  /\ ListInStep(source, list) /\ IsFiniteSet(DOMAIN list)
  /\ \A n \in DOMAIN list : /\ ~entry[n].reversal /\ entry[n].source = source
                            /\ entry[n].ref = n /\ entry[n].party = payer[n]
                            /\ entry[n].date = list[n].date
  /\ \A e \in journal : ~e.reversal /\ e.source = source => e = entry[e.ref]

OfParty(list, payer, c, asOf) == {n \in DOMAIN list : payer[n] = c /\ list[n].date <= asOf}
LiveOf(list, payer, c, asOf)  == {n \in Live(list, asOf) : payer[n] = c}

\* The documents of a list do.
LEMMA ListPosts ==
  ASSUME JournalInv, NEW source, NEW list, NEW payer, NEW entry,
         ListEntries(source, list, payer, entry), NEW c, NEW asOf \in Date
  PROVE  Posts(OfParty(list, payer, c, asOf), LiveOf(list, payer, c, asOf), entry, source, c, asOf)
<1>. DEFINE D == OfParty(list, payer, c, asOf)
            L == LiveOf(list, payer, c, asOf)
<1>. USE DEF ListEntries
<1>1. IsFiniteSet(D)
  <2>1. D \in SUBSET (DOMAIN list)
    BY DEF OfParty
  <2>. QED  BY <2>1, FS_Subset
<1>2. ASSUME NEW n \in DOMAIN list
      PROVE  /\ entry[n] \in journal
             /\ \A e \in journal : ~e.reversal /\ e.source = source /\ e.ref = n => e = entry[n]
             /\ IsUndone(source, n) <=> list[n].void
  <2>1. PICK e \in journal : e.source = source /\ e.ref = n /\ ~e.reversal
    BY DEF ListInStep, HasEntry
  <2>. QED  BY <2>1 DEF ListInStep
<1>3. \A e \in journal : ~e.reversal /\ e.source = source => e.ref \in DOMAIN list
  BY DEF ListInStep, HasEntry
<1>4. \A n \in D : n \in DOMAIN list /\ payer[n] = c /\ list[n].date <= asOf
  BY DEF OfParty
<1>5. \A n : n \in L <=> n \in D /\ ~list[n].void
  BY DEF Live, LiveOf, OfParty
<1>6. \A e \in journal : ~e.reversal /\ e.source = source /\ e.party = c /\ e.date <= asOf
                           => e.ref \in D
  BY <1>3 DEF OfParty
<1>. QED  BY <1>1, <1>2, <1>4, <1>5, <1>6 DEF Posts

\* Totals less what is paid, less what was received ahead: what was posted.
LEMMA SumsTie ==
  ASSUME NEW totals \in Int, NEW paid \in Int, NEW amounts \in Int, NEW toward \in Int,
         paid = toward, NEW entries, entries = totals + (-amounts)
  PROVE  (totals - paid) - (amounts - toward) = entries
OBVIOUS

\* Both accounts are taken back by a reversal.
LEMMA Mirrors2 ==
  ASSUME JournalInv
  PROVE  /\ Mirrored([e \in journal |-> e.receivable])
         /\ Mirrored([e \in journal |-> e.payable])
<1>1. \A e \in journal : e.receivable \in Int /\ e.payable \in Int
  BY DEF JournalInv, Entry
<1>2. \A e, m : m = Mirror(e, m.date) => m.receivable = -e.receivable /\ m.payable = -e.payable
  BY DEF Mirror
<1>. QED  BY <1>1, <1>2 DEF Mirrored, IntOn

\* The report of a customer is the customer's entries.
LEMMA CustomerTies ==
  ASSUME SalesInv, HeldInv, JournalInv, NEW c \in Customer, NEW asOf \in Date, Settled(c, asOf)
  PROVE  AgedReceivable(c, asOf) - ReceivedAhead(c, asOf) = OwedBy(c, asOf)
<1>. DEFINE r      == [e \in journal |-> e.receivable]
            J      == {e \in Dated(1, asOf) : e.party = c}
            D      == {i \in DOMAIN invoices : /\ invoices[i].posted /\ invoices[i].customer = c
                                               /\ invoices[i].date <= asOf}
            Q      == {i \in Sent : invoices[i].customer = c /\ invoices[i].date <= asOf}
            A      == {i \in DOMAIN invoices : invoices[i].customer = c /\ invoices[i].date <= asOf}
            x      == [i \in DOMAIN invoices |-> InvoiceEntry(i, invoices[i])]
            payer  == [n \in DOMAIN payments |-> payments[n].customer]
            N      == {n \in DOMAIN payments : payer[n] = c /\ payments[n].date <= asOf}
            L      == {n \in Live(payments, asOf) : payer[n] = c}
            y      == [n \in DOMAIN payments |->
                         Posted("payment", n, payments[n].date, payments[n].customer,
                                -payments[n].amount, 0, 0)]
            owed   == [i \in Sent |-> Total(invoices[i].content)]
            who    == [i \in Sent |-> invoices[i].customer]
            early  == {i \in DOMAIN invoices : invoices[i].date <= asOf}
            totals == [i \in Q |-> Total(invoices[i].content)]
            rows   == [i \in Q |-> Paid(payments, i, asOf)]
            still  == [i \in A |-> InvoiceBalance(i, asOf)]
            amount == [n \in L |-> payments[n].amount]
            minus  == [n \in L |-> -payments[n].amount]
            toward == [n \in L |-> AppliedSum({a \in payments[n].applied : a.id \in early})]
            ahead  == [n \in L |-> payments[n].amount - toward[n]]
<1>1. Held(payments, payer, Sent, owed, who) /\ IsList(payments)
  BY DEF HeldInv, InvoicesHeld, Held
<1>2. Mirrored(r) /\ (\A e \in journal : r[e] = e.receivable)
  BY Mirrors2
<1>3. asOf \in Int
  BY DateAssumption DEF Date
<1>4. IsFiniteSet(A) /\ Q \in SUBSET A /\ IsFiniteSet(Q)
  <2>1. DOMAIN invoices \subseteq 1..(nextInvoice - 1) /\ nextInvoice - 1 \in Int
    BY DEF SalesInv, PapersOK
  <2>2. IsFiniteSet(1..(nextInvoice - 1))
    BY <2>1, FS_Interval
  <2>3. A \in SUBSET (1..(nextInvoice - 1)) /\ Q \in SUBSET A
    BY <2>1 DEF Sent
  <2>. HIDE DEF A, Q
  <2>4. IsFiniteSet(A)
    BY <2>2, <2>3, FS_Subset
  <2>. QED  BY <2>3, <2>4, FS_Subset
<1>5. L \subseteq DOMAIN payments /\ \A n \in DOMAIN payments : payments[n].amount \in Int
  <2>1. \A n \in DOMAIN payments : payments[n] \in Payment
    BY DEF SalesInv, PapersOK
  <2>2. \A n \in DOMAIN payments : payments[n].amount \in Amount
    BY <2>1 DEF Payment
  <2>3. L \subseteq DOMAIN payments
    BY DEF Live
  <2>4. \A n \in DOMAIN payments : payments[n].amount \in Int
    <3>1. \A a \in Amount : a \in Int
      BY AmountAssumption
    <3>. QED  BY <2>2, <3>1
  <2>. QED  BY <2>3, <2>4
<1>6. \A i \in Q : totals[i] \in Int /\ totals[i] = r[x[i]]
  <2>. SUFFICES ASSUME NEW i \in Q PROVE totals[i] \in Int /\ totals[i] = r[x[i]]
    OBVIOUS
  <2>1. i \in DOMAIN invoices /\ invoices[i] \in Invoice /\ invoices[i].posted
    BY DEF SalesInv, PapersOK, SentIsPosted, Sent
  <2>2. Total(invoices[i].content) \in Int
    BY <2>1, TotalType DEF Invoice
  <2>3. x[i] \in journal /\ x[i].receivable = Total(invoices[i].content)
    BY <2>1, PostedInvoice DEF InvoiceEntry, Posted
  <2>. QED  BY <1>2, <2>2, <2>3
<1>7. Posts(D, Q, x, "invoice", c, asOf)
  <2>. HIDE DEF D, Q, x
  <2>. QED  BY InvoicesPost DEF D, Q, x
<1>8. /\ Posts(N, L, y, "payment", c, asOf)
      /\ \A n \in L : minus[n] = r[y[n]]
  <2>1. \A n \in DOMAIN payments :
          /\ ~y[n].reversal /\ y[n].source = "payment" /\ y[n].ref = n /\ y[n].party = payer[n]
          /\ y[n].date = payments[n].date /\ y[n].receivable = -payments[n].amount
    BY DEF Posted
  <2>2. \A e \in journal : ~e.reversal /\ e.source = "payment" => e = y[e.ref]
    <3>. SUFFICES ASSUME NEW e \in journal, ~e.reversal, e.source = "payment" PROVE e = y[e.ref]
      OBVIOUS
    <3>1. e.ref \in DOMAIN payments
      BY DEF SalesInv, PaymentsInStep, ListInStep, HasEntry
    <3>. QED  BY <3>1 DEF JournalInv, AsPosted, Matches
  <2>3. ListInStep("payment", payments)
    BY DEF SalesInv, PaymentsInStep
  <2>. HIDE DEF y, payer
  <2>4. ListEntries("payment", payments, payer, y)
    <3>1. DOMAIN payments = 1..Len(payments) /\ Len(payments) \in Nat
      BY <1>1 DEF IsList
    <3>2. IsFiniteSet(DOMAIN payments)
      BY <3>1, FS_Interval
    <3>. QED  BY <2>1, <2>2, <2>3, <3>2 DEF ListEntries
  <2>5. Posts(N, L, y, "payment", c, asOf)
    BY <2>4, ListPosts DEF OfParty, LiveOf
  <2>. HIDE DEF N, L
  <2>6. \A n \in L : y[n] \in journal
    BY <2>5 DEF Posts
  <2>7. \A n \in L : minus[n] = -payments[n].amount
    OBVIOUS
  <2>. HIDE DEF r, minus
  <2>8. \A n \in L : r[y[n]] = y[n].receivable
    BY <1>2, <2>6
  <2>9. \A n \in L : y[n].receivable = -payments[n].amount
    BY <1>5, <2>1
  <2>. QED  BY <2>5, <2>7, <2>8, <2>9
<1>9. PaysEarly(Sent, who, c, asOf, early, payments, payer, Q, L, rows, toward)
  <2>1. \A i : i \in Q <=> i \in Sent /\ who[i] = c /\ i \in early
    BY DEF Sent
  <2>. HIDE DEF who, early, payer
  <2>. QED  BY <1>4, <2>1 DEF PaysEarly
<1>10. still \in [A -> Int] /\ (\A i \in Q : still[i] = totals[i] - rows[i])
       /\ (\A i \in A \ Q : still[i] = 0)
  <2>1. \A i \in Q : still[i] = totals[i] - rows[i]
    BY <1>4 DEF InvoiceBalance, Sent
  <2>2. \A i \in A \ Q : still[i] = 0
    BY DEF InvoiceBalance, Sent
  <2>3. \A i \in Q : rows[i] \in Int
    BY <1>1, <1>3, PaidIs
  <2>. HIDE DEF Q, totals, rows, still, A, r, x
  <2>4. \A i \in A : still[i] \in Int
    <3>. SUFFICES ASSUME NEW i \in A PROVE still[i] \in Int
      OBVIOUS
    <3>1. CASE i \in Q
      BY <1>6, <2>1, <2>3, <3>1
    <3>2. CASE i \notin Q
      BY <2>2, <3>2
    <3>. QED  BY <3>1, <3>2
  <2>. QED  BY <2>1, <2>2, <2>4 DEF still
<1>11. /\ AgedReceivable(c, asOf) = Over(A, still)
       /\ ReceivedAhead(c, asOf) = Over(L, ahead)
       /\ OwedBy(c, asOf) = Over(J, r)
  <2>1. [i \in A |-> still[i]] = [i \in A |-> InvoiceBalance(i, asOf)]
    OBVIOUS
  <2>2. {n \in Live(payments, asOf) : payments[n].customer = c} = L
    BY DEF Live
  <2>3. \A n \in L : Toward(payments[n], invoices, asOf) = toward[n]
    <3>. SUFFICES ASSUME NEW n \in L PROVE Toward(payments[n], invoices, asOf) = toward[n]
      OBVIOUS
    <3>1. n \in DOMAIN payments /\ ~payments[n].void
      BY DEF Live
    <3>2. \A a \in payments[n].applied : a.id \in Sent
      <4>. HIDE DEF payer, owed, who
      <4>. QED  BY <1>1, <3>1 DEF Held
    <3>3. {a \in payments[n].applied : invoices[a.id].date <= asOf}
            = {a \in payments[n].applied : a.id \in early}
      BY <3>2 DEF Sent
    <3>. QED  BY <3>3 DEF Toward
  <2>4. [n \in L |-> payments[n].amount - Toward(payments[n], invoices, asOf)]
          = [n \in L |-> ahead[n]]
    BY <2>3
  <2>5. [e \in J |-> r[e]] = [e \in J |-> e.receivable]
    BY DEF Dated
  <2>. QED  BY <2>1, <2>2, <2>4, <2>5 DEF AgedReceivable, ReceivedAhead, OwedBy, Over
<1>12. \A n \in L : /\ minus[n] = -amount[n] /\ amount[n] \in Int
                    /\ ahead[n] = amount[n] - toward[n]
  BY <1>5
<1>13. \A e \in journal : e.party = c => e.source \in {"invoice", "payment"}
  BY PartiesForms
<1>. HIDE DEF r, J, D, Q, A, x, payer, N, L, y, owed, who, early, totals, rows, still, amount,
              minus, toward, ahead
<1>14. /\ Over(Q, rows) = Over(L, toward) /\ IsFiniteSet(L)
       /\ IntOn(L, toward) /\ IntOn(Q, rows)
  BY <1>1, <1>3, <1>9, PaidEitherWay
<1>15. IntOn(Q, totals) /\ IntOn(L, amount) /\ IntOn(A, still)
  BY <1>6, <1>10, <1>12 DEF IntOn
<1>16. Over(A, still) = Over(Q, totals) - Over(Q, rows)
  <2>1. /\ Over(A, still) = Over(Q, still) + Over(A \ Q, still)
        /\ IsFiniteSet(A \ Q) /\ Over(Q, still) \in Int
    BY <1>4, <1>15, SumKinds
  <2>2. Over(A \ Q, still) = 0
    BY <1>10, <2>1, SumZero
  <2>3. Over(Q, still) = Over(Q, totals) - Over(Q, rows)
    BY <1>4, <1>10, <1>14, <1>15, SumDifference
  <2>. QED  BY <2>1, <2>2, <2>3
<1>17. Over(L, ahead) = Over(L, amount) - Over(L, toward)
  BY <1>12, <1>14, <1>15, SumDifference
<1>18. Over(L, minus) = -Over(L, amount)
  BY <1>12, <1>14, <1>15, SumMinus
<1>19. Over(EntriesOf("invoice", c, asOf), r) = Over(Q, totals)
  BY <1>2, <1>6, <1>7, SumOfEntries
<1>20. Over(EntriesOf("payment", c, asOf), r) = Over(L, minus)
  BY <1>2, <1>8, SumOfEntries
<1>21. Over(J, r) = Over(EntriesOf("invoice", c, asOf), r) + Over(EntriesOf("payment", c, asOf), r)
  <2>1. "invoice" # "payment"
    OBVIOUS
  <2>. QED  BY <1>2, <1>13, <2>1, TwoForms DEF J
<1>22. /\ Over(Q, totals) \in Int /\ Over(Q, rows) \in Int /\ Over(L, amount) \in Int
       /\ Over(L, toward) \in Int
  BY <1>4, <1>14, <1>15, SumParts
<1>. QED  BY <1>11, <1>14, <1>16, <1>17, <1>18, <1>19, <1>20, <1>21, <1>22, SumsTie

\* The report of a vendor is the vendor's entries.
LEMMA VendorTies ==
  ASSUME SalesInv, HeldInv, JournalInv, NEW c \in Vendor, NEW asOf \in Date, Settled(c, asOf)
  PROVE  AgedPayable(c, asOf) - PaidAhead(c, asOf) = OwedTo(c, asOf)
<1>. DEFINE r      == [e \in journal |-> e.payable]
            J      == {e \in Dated(1, asOf) : e.party = c}
            vendor == [b \in DOMAIN bills |-> bills[b].vendor]
            D      == {b \in DOMAIN bills : vendor[b] = c /\ bills[b].date <= asOf}
            Q      == {b \in Live(bills, asOf) : vendor[b] = c}
            x      == [b \in DOMAIN bills |->
                         Posted("bill", b, bills[b].date, bills[b].vendor, 0, bills[b].total, 0)]
            payer  == [n \in DOMAIN billPayments |-> billPayments[n].vendor]
            N      == {n \in DOMAIN billPayments : payer[n] = c /\ billPayments[n].date <= asOf}
            L      == {n \in Live(billPayments, asOf) : payer[n] = c}
            y      == [n \in DOMAIN billPayments |->
                         Posted("bill_payment", n, billPayments[n].date, billPayments[n].vendor, 0,
                                -AppliedSum(billPayments[n].applied), 0)]
            owed   == [b \in Entered |-> bills[b].total]
            who    == [b \in Entered |-> bills[b].vendor]
            early  == {b \in DOMAIN bills : bills[b].date <= asOf}
            totals == [b \in Q |-> bills[b].total]
            rows   == [b \in Q |-> Paid(billPayments, b, asOf)]
            still  == [b \in D |-> BillBalance(b, asOf)]
            amount == [n \in L |-> AppliedSum(billPayments[n].applied)]
            minus  == [n \in L |-> -AppliedSum(billPayments[n].applied)]
            toward == [n \in L |-> AppliedSum({a \in billPayments[n].applied : a.id \in early})]
            ahead  == [n \in L |-> AppliedSum(billPayments[n].applied) - toward[n]]
<1>1. Held(billPayments, payer, Entered, owed, who) /\ IsList(billPayments)
  BY DEF HeldInv, BillsHeld, Held
<1>2. Mirrored(r) /\ (\A e \in journal : r[e] = e.payable)
  BY Mirrors2
<1>3. asOf \in Int
  BY DateAssumption DEF Date
<1>4. /\ IsFiniteSet(D) /\ Q \in SUBSET D /\ IsFiniteSet(Q)
      /\ IsFiniteSet(DOMAIN bills)
  <2>1. bills \in Seq(Bill)
    BY DEF SalesInv, PapersOK
  <2>2. DOMAIN bills = 1..Len(bills) /\ Len(bills) \in Nat
    BY <2>1
  <2>3. IsFiniteSet(DOMAIN bills)
    BY <2>2, FS_Interval
  <2>4. D \in SUBSET (DOMAIN bills) /\ Q \in SUBSET D
    BY DEF Live
  <2>. HIDE DEF D, Q
  <2>5. IsFiniteSet(D)
    BY <2>3, <2>4, FS_Subset
  <2>. QED  BY <2>3, <2>4, <2>5, FS_Subset
<1>5. ASSUME NEW b \in DOMAIN bills
      PROVE  /\ bills[b].void \in BOOLEAN /\ bills[b].date \in Int /\ bills[b].total \in Int
  <2>1. bills[b] \in Bill
    BY DEF SalesInv, PapersOK
  <2>2. bills[b].void \in BOOLEAN /\ bills[b].date \in Date /\ bills[b].total \in BillTotal
    BY <2>1 DEF Bill
  <2>3. \A t \in BillTotal : t \in Int
    BY AmountAssumption
  <2>4. \A d \in Date : d \in Int
    BY DateAssumption DEF Date
  <2>. QED  BY <2>2, <2>3, <2>4
<1>6. L \subseteq DOMAIN billPayments
      /\ \A n \in DOMAIN billPayments : AppliedSum(billPayments[n].applied) \in Int
  <2>1. L \subseteq DOMAIN billPayments
    BY DEF Live
  <2>. QED  BY <1>1, <2>1, AppliedIs DEF IsList
<1>7. /\ ListEntries("bill", bills, vendor, x)
      /\ \A b \in DOMAIN bills : x[b].payable = bills[b].total
  <2>1. \A b \in DOMAIN bills :
          /\ ~x[b].reversal /\ x[b].source = "bill" /\ x[b].ref = b /\ x[b].party = vendor[b]
          /\ x[b].date = bills[b].date /\ x[b].payable = bills[b].total
    BY DEF Posted
  <2>2. \A e \in journal : ~e.reversal /\ e.source = "bill" => e = x[e.ref]
    <3>. SUFFICES ASSUME NEW e \in journal, ~e.reversal, e.source = "bill" PROVE e = x[e.ref]
      OBVIOUS
    <3>1. e.ref \in DOMAIN bills
      BY DEF SalesInv, BillsInStep, ListInStep, HasEntry
    <3>. QED  BY <3>1 DEF JournalInv, AsPosted, Matches
  <2>3. ListInStep("bill", bills)
    BY DEF SalesInv, BillsInStep
  <2>. HIDE DEF x, vendor
  <2>. QED  BY <1>4, <2>1, <2>2, <2>3 DEF ListEntries
<1>8. /\ ListEntries("bill_payment", billPayments, payer, y)
      /\ \A n \in DOMAIN billPayments : y[n].payable = -AppliedSum(billPayments[n].applied)
  <2>1. \A n \in DOMAIN billPayments :
          /\ ~y[n].reversal /\ y[n].source = "bill_payment" /\ y[n].ref = n
          /\ y[n].party = payer[n] /\ y[n].date = billPayments[n].date
          /\ y[n].payable = -AppliedSum(billPayments[n].applied)
    BY DEF Posted
  <2>2. \A e \in journal : ~e.reversal /\ e.source = "bill_payment" => e = y[e.ref]
    <3>. SUFFICES ASSUME NEW e \in journal, ~e.reversal, e.source = "bill_payment"
                  PROVE  e = y[e.ref]
      OBVIOUS
    <3>1. e.ref \in DOMAIN billPayments
      BY DEF SalesInv, BillPaymentsInStep, ListInStep, HasEntry
    <3>. QED  BY <3>1 DEF JournalInv, AsPosted, Matches
  <2>3. ListInStep("bill_payment", billPayments) /\ IsFiniteSet(DOMAIN billPayments)
    BY <1>1, FS_Interval DEF SalesInv, BillPaymentsInStep, IsList
  <2>. HIDE DEF y, payer
  <2>. QED  BY <2>1, <2>2, <2>3 DEF ListEntries
<1>9. /\ Posts(D, Q, x, "bill", c, asOf)
      /\ \A b \in Q : totals[b] \in Int /\ totals[b] = r[x[b]]
  <2>. HIDE DEF x, vendor
  <2>1. Posts(D, Q, x, "bill", c, asOf)
    BY <1>7, ListPosts DEF OfParty, LiveOf
  <2>2. \A b \in Q : b \in DOMAIN bills /\ totals[b] = bills[b].total
    BY DEF Live
  <2>. HIDE DEF r, totals, D, Q
  <2>3. \A b \in Q : x[b] \in journal
    BY <2>1 DEF Posts
  <2>. QED  BY <1>2, <1>5, <1>7, <2>1, <2>2, <2>3
<1>10. /\ Posts(N, L, y, "bill_payment", c, asOf)
       /\ \A n \in L : minus[n] = r[y[n]]
  <2>. HIDE DEF y, payer
  <2>1. Posts(N, L, y, "bill_payment", c, asOf)
    BY <1>8, ListPosts DEF OfParty, LiveOf
  <2>2. \A n \in L : minus[n] = -AppliedSum(billPayments[n].applied)
    OBVIOUS
  <2>. HIDE DEF r, minus, N, L
  <2>3. \A n \in L : y[n] \in journal
    BY <2>1 DEF Posts
  <2>. QED  BY <1>2, <1>6, <1>8, <2>1, <2>2, <2>3
<1>11. PaysEarly(Entered, who, c, asOf, early, billPayments, payer, Q, L, rows, toward)
  <2>1. \A b : b \in Q <=> b \in Entered /\ who[b] = c /\ b \in early
    BY <1>5 DEF Entered, Live
  <2>. HIDE DEF who, early, payer, vendor
  <2>. QED  BY <1>4, <2>1 DEF PaysEarly
<1>12. still \in [D -> Int] /\ (\A b \in Q : still[b] = totals[b] - rows[b])
       /\ (\A b \in D \ Q : still[b] = 0)
  <2>1. \A b \in Q : still[b] = totals[b] - rows[b]
    BY <1>4 DEF BillBalance, Live
  <2>2. \A b \in D \ Q : still[b] = 0
    BY <1>5 DEF BillBalance, Live
  <2>3. \A b \in Q : rows[b] \in Int
    BY <1>1, <1>3, PaidIs
  <2>. HIDE DEF Q, totals, rows, still, D, r, x
  <2>4. \A b \in D : still[b] \in Int
    <3>. SUFFICES ASSUME NEW b \in D PROVE still[b] \in Int
      OBVIOUS
    <3>1. CASE b \in Q
      BY <1>9, <2>1, <2>3, <3>1
    <3>2. CASE b \notin Q
      BY <2>2, <3>2
    <3>. QED  BY <3>1, <3>2
  <2>. QED  BY <2>1, <2>2, <2>4 DEF still
<1>13. /\ AgedPayable(c, asOf) = Over(D, still)
       /\ PaidAhead(c, asOf) = Over(L, ahead)
       /\ OwedTo(c, asOf) = Over(J, r)
  <2>1. [b \in D |-> still[b]]
          = [b \in {b \in DOMAIN bills : bills[b].vendor = c /\ bills[b].date <= asOf}
               |-> BillBalance(b, asOf)]
    OBVIOUS
  <2>2. {n \in Live(billPayments, asOf) : billPayments[n].vendor = c} = L
    BY DEF Live
  <2>3. \A n \in L : Toward(billPayments[n], bills, asOf) = toward[n]
    <3>. SUFFICES ASSUME NEW n \in L PROVE Toward(billPayments[n], bills, asOf) = toward[n]
      OBVIOUS
    <3>1. n \in DOMAIN billPayments /\ ~billPayments[n].void
      BY DEF Live
    <3>2. \A a \in billPayments[n].applied : a.id \in Entered
      <4>. HIDE DEF payer, owed, who
      <4>. QED  BY <1>1, <3>1 DEF Held
    <3>3. {a \in billPayments[n].applied : bills[a.id].date <= asOf}
            = {a \in billPayments[n].applied : a.id \in early}
      BY <3>2 DEF Entered
    <3>. QED  BY <3>3 DEF Toward
  <2>4. [n \in L |-> AppliedSum(billPayments[n].applied) - Toward(billPayments[n], bills, asOf)]
          = [n \in L |-> ahead[n]]
    BY <2>3
  <2>5. [e \in J |-> r[e]] = [e \in J |-> e.payable]
    BY DEF Dated
  <2>. QED  BY <2>1, <2>2, <2>4, <2>5 DEF AgedPayable, PaidAhead, OwedTo, Over
<1>14. \A n \in L : /\ minus[n] = -amount[n] /\ amount[n] \in Int
                    /\ ahead[n] = amount[n] - toward[n]
  BY <1>6
<1>15. \A e \in journal : e.party = c => e.source \in {"bill", "bill_payment"}
  BY PartiesForms
<1>. HIDE DEF r, J, vendor, D, Q, x, payer, N, L, y, owed, who, early, totals, rows, still, amount,
              minus, toward, ahead
<1>16. /\ Over(Q, rows) = Over(L, toward) /\ IsFiniteSet(L)
       /\ IntOn(L, toward) /\ IntOn(Q, rows)
  BY <1>1, <1>3, <1>11, PaidEitherWay
<1>17. IntOn(Q, totals) /\ IntOn(L, amount) /\ IntOn(D, still)
  BY <1>9, <1>12, <1>14 DEF IntOn
<1>18. Over(D, still) = Over(Q, totals) - Over(Q, rows)
  <2>1. /\ Over(D, still) = Over(Q, still) + Over(D \ Q, still)
        /\ IsFiniteSet(D \ Q) /\ Over(Q, still) \in Int
    BY <1>4, <1>17, SumKinds
  <2>2. Over(D \ Q, still) = 0
    BY <1>12, <2>1, SumZero
  <2>3. Over(Q, still) = Over(Q, totals) - Over(Q, rows)
    BY <1>4, <1>12, <1>16, <1>17, SumDifference
  <2>. QED  BY <2>1, <2>2, <2>3
<1>19. Over(L, ahead) = Over(L, amount) - Over(L, toward)
  BY <1>14, <1>16, <1>17, SumDifference
<1>20. Over(L, minus) = -Over(L, amount)
  BY <1>14, <1>16, <1>17, SumMinus
<1>21. Over(EntriesOf("bill", c, asOf), r) = Over(Q, totals)
  BY <1>2, <1>9, SumOfEntries
<1>22. Over(EntriesOf("bill_payment", c, asOf), r) = Over(L, minus)
  BY <1>2, <1>10, SumOfEntries
<1>23. Over(J, r) = Over(EntriesOf("bill", c, asOf), r)
                      + Over(EntriesOf("bill_payment", c, asOf), r)
  <2>1. "bill" # "bill_payment"
    OBVIOUS
  <2>. QED  BY <1>2, <1>15, <2>1, TwoForms DEF J
<1>24. /\ Over(Q, totals) \in Int /\ Over(Q, rows) \in Int /\ Over(L, amount) \in Int
       /\ Over(L, toward) \in Int
  BY <1>4, <1>16, <1>17, SumParts
<1>. QED  BY <1>13, <1>16, <1>18, <1>19, <1>20, <1>21, <1>22, <1>23, <1>24, SumsTie

\* What the aging reports list of a party, less what it paid ahead for documents of later
\* days, is what its entries add up to, on every day after which nothing of that party or
\* before was voided (arAging, apAging): backdated documents and early payments included.
THEOREM AlwaysAgingTies == Spec => []AgingTies
<1>1. SalesInv /\ HeldInv /\ JournalInv => AgingTies
  BY CustomerTies, VendorTies DEF AgingTies
<1>. QED  BY <1>1, SalesCorrect, NeverBeyond, JournalMatches, PTL

\* Documents, entries and marks stay what they are, amounts included (the types of
\* sales.ts, payables.ts and ledger.ts).
THEOREM SalesTyped == Spec => []TypeOK
<1>1. SalesInv /\ JournalInv /\ MarksOK => TypeOK
  BY DEF SalesInv, PapersOK, JournalInv, MarksOK, TypeOK
<1>. QED  BY <1>1, SalesCorrect, JournalMatches, PTL

=============================================================================
