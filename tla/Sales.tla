-------------------------------- MODULE Sales --------------------------------
(***************************************************************************)
(* Estimates, invoices and payments received, bills and bill payments, and *)
(* sales tax (packages/sales), as the Sales, Expenses, Taxes and           *)
(* Transactions screens use them: documents on one side, journal entries   *)
(* on the other, both changed by the same update or not at all.            *)
(*                                                                         *)
(* Of an entry the model keeps what it does to the three control accounts: *)
(* accounts receivable of a customer, accounts payable of a vendor, sales  *)
(* tax payable.  The other side of each entry (income, expense, bank) and  *)
(* the chart's rules about it are Ledger's.  A posted entry is known by    *)
(* the form it came from and the number the form gave it, its reversal by  *)
(* the same two, so the journal is a set.  A date is the number of its     *)
(* month.  Due dates, terms, memos, tags and attachments are left out.     *)
(***************************************************************************)
EXTENDS Integers, Sequences, FiniteSets, Functions

CONSTANTS
  Customer, Vendor,
  Nobody,         \* the party of an entry that has none
  Content,        \* lines and tax rate of an invoice or an estimate
  BillTotal,      \* what the lines of a bill add up to
  Amount,         \* amounts received, applied or paid
  TaxAmount,      \* amounts paid to the agency, or posted by a journal entry
  BillNumber,     \* the vendor's number of a bill; Unnumbered when it has none
  Unnumbered,
  LastDate,
  Resting,        \* the customers and vendors that may be set aside
  MaxDocuments    \* bound on the documents and loose entries ever made

Line == [quantity : Nat, unitPrice : Nat, taxable : BOOLEAN]

ASSUME PartyAssumption ==
  /\ Customer \cap Vendor = {}
  /\ Nobody \notin Customer \cup Vendor
  /\ Resting \subseteq Customer \cup Vendor
ASSUME ContentAssumption ==
  Content \subseteq [lines : Seq(Line), taxRateBp : 0..10000]
ASSUME AmountAssumption ==
  /\ Amount \subseteq Nat \ {0}
  /\ TaxAmount \subseteq Nat \ {0}
  /\ BillTotal \subseteq Nat \ {0}
ASSUME DateAssumption == LastDate \in Nat

VARIABLES
  inactive,        \* customers and vendors set aside
  estimates, nextEstimate,
  invoices, nextInvoice,
  payments, bills, billPayments,   \* never removed: the place is the id
  journal,
  loose,           \* how many tax payments and journal entries were posted
  closedThrough, lockedThrough

salesVars == <<estimates, nextEstimate, invoices, nextInvoice, payments, bills, billPayments>>
markVars  == <<closedThrough, lockedThrough>>
vars      == <<salesVars, inactive, journal, loose, markVars>>

Party == Customer \cup Vendor
Date  == 1..LastDate

Estimate == [customer : Customer, date : Date, content : Content, invoice : Nat,
             state : {"draft", "sent", "accepted", "declined", "converted"}]

\* posted: the invoice has an entryId.  estimate and invoice are 0 for none.
Invoice == [customer : Customer, date : Date, content : Content, estimate : Nat,
            state : {"draft", "sent", "void"}, posted : BOOLEAN]

\* applied: what a payment pays of which documents, each document once.
Applications == SUBSET [id : Nat, amount : Amount]

Payment     == [customer : Customer, date : Date, amount : Amount, applied : Applications,
                void : BOOLEAN]
Bill        == [vendor : Vendor, date : Date, number : BillNumber \cup {Unnumbered},
                total : BillTotal, void : BOOLEAN]
BillPayment == [vendor : Vendor, date : Date, applied : Applications, void : BOOLEAN]

FormSource == {"invoice", "payment", "bill", "bill_payment"}
Source     == FormSource \cup {"sales_tax_payment", "manual"}

\* receivable is debit-positive, payable and tax are credit-positive.
Entry == [source : Source, ref : Nat, reversal : BOOLEAN, date : Date,
          party : Party \cup {Nobody}, receivable : Int, payable : Int, tax : Int]

TypeOK ==
  /\ inactive \subseteq Party
  /\ nextEstimate \in Nat /\ nextInvoice \in Nat
  /\ DOMAIN estimates \subseteq 1..(nextEstimate - 1)
  /\ DOMAIN invoices \subseteq 1..(nextInvoice - 1)
  /\ \A e \in DOMAIN estimates : estimates[e] \in Estimate
  /\ \A i \in DOMAIN invoices : invoices[i] \in Invoice
  /\ payments \in Seq(Payment)
  /\ bills \in Seq(Bill)
  /\ billPayments \in Seq(BillPayment)
  /\ journal \subseteq Entry
  /\ loose \in Nat
  /\ closedThrough \in 0..LastDate /\ lockedThrough \in 0..LastDate

Init ==
  /\ inactive = {}
  /\ estimates = <<>> /\ nextEstimate = 1
  /\ invoices = <<>> /\ nextInvoice = 1
  /\ payments = <<>> /\ bills = <<>> /\ billPayments = <<>>
  /\ journal = {} /\ loose = 0
  /\ closedThrough = 0 /\ lockedThrough = 0

With(f, x, value) == [y \in DOMAIN f \cup {x} |-> IF y = x THEN value ELSE f[y]]
Without(f, x)     == [y \in DOMAIN f \ {x} |-> f[y]]

Made == (nextEstimate - 1) + (nextInvoice - 1) + Len(payments) + Len(bills)
        + Len(billPayments) + loose

Room == Made < MaxDocuments

-----------------------------------------------------------------------------
(* Amounts.                                                                *)

\* lineAmount: quantities are in hundredths; rounded half up.
LineAmount(l) == (l.quantity * l.unitPrice + 50) \div 100

\* invoiceTotals: the tax is rounded once per invoice.
Subtotal(content) ==
  SumFunction([n \in DOMAIN content.lines |-> LineAmount(content.lines[n])])

Taxable(content) ==
  SumFunction([n \in {n \in DOMAIN content.lines : content.lines[n].taxable} |->
                 LineAmount(content.lines[n])])

Tax(content)   == (Taxable(content) * content.taxRateBp + 5000) \div 10000
Total(content) == Subtotal(content) + Tax(content)

AppliedSum(applied) == SumFunction([a \in applied |-> a.amount])
AppliedTo(p, id)    == AppliedSum({a \in p.applied : a.id = id})

\* Mutant: payments that were voided still count.
PaidEver(list, id, asOf) ==
  SumFunction([n \in {n \in DOMAIN list : list[n].date <= asOf} |-> AppliedTo(list[n], id)])

\* The payments that stand, made by asOf.
Live(list, asOf) == {n \in DOMAIN list : ~list[n].void /\ list[n].date <= asOf}

\* invoicePaid and billPaid.
Paid(list, id, asOf) == SumFunction([n \in Live(list, asOf) |-> AppliedTo(list[n], id)])

\* invoiceBalance and billBalance.
InvoiceBalance(i, asOf) ==
  IF invoices[i].state = "sent"
  THEN Total(invoices[i].content) - Paid(payments, i, asOf) ELSE 0

BillBalance(b, asOf) ==
  IF bills[b].void THEN 0 ELSE bills[b].total - Paid(billPayments, b, asOf)

-----------------------------------------------------------------------------
(* The journal.                                                            *)

MayPostOn(date) == date > closedThrough /\ date > lockedThrough

Posted(source, ref, date, party, receivable, payable, tax) ==
  [source |-> source, ref |-> ref, reversal |-> FALSE, date |-> date, party |-> party,
   receivable |-> receivable, payable |-> payable, tax |-> tax]

Mirror(e, date) ==
  [source |-> e.source, ref |-> e.ref, reversal |-> TRUE, date |-> date, party |-> e.party,
   receivable |-> -e.receivable, payable |-> -e.payable, tax |-> -e.tax]

Mirrors(m, e) == m.reversal /\ m.source = e.source /\ m.ref = e.ref

EntryOf(source, ref) ==
  CHOOSE e \in journal : e.source = source /\ e.ref = ref /\ ~e.reversal

PostEntry(e) == MayPostOn(e.date) /\ journal' = journal \cup {e}

\* reverseEntry.
ReverseEntry(e, date) ==
  /\ ~e.reversal
  /\ ~ \E m \in journal : Mirrors(m, e)
  /\ e.date > lockedThrough
  /\ MayPostOn(date)
  /\ journal' = journal \cup {Mirror(e, date)}

\* voidWithFallback and voidEntry: undone on its own date, or today when its month is
\* closed.
Undo(e) ==
  \E date \in Date : /\ date # e.date => e.date \in (lockedThrough + 1)..closedThrough
                     /\ ReverseEntry(e, date)

-----------------------------------------------------------------------------
(* Customers and vendors: addCustomer and addVendor are left out, the list *)
(* is there from the start.                                                *)

SetActive(p) ==
  /\ inactive' = IF p \in inactive THEN inactive \ {p} ELSE inactive \cup {p}
  /\ UNCHANGED <<salesVars, journal, loose, markVars>>

-----------------------------------------------------------------------------
(* Estimates: nothing here posts.                                          *)

OnlyEstimates == UNCHANGED <<inactive, invoices, nextInvoice, payments, bills, billPayments,
                             journal, loose, markVars>>

\* createEstimate; "Save and send" marks it sent in the same update.
CreateEstimate(customer, date, content, send) ==
  /\ Room
  /\ customer \notin inactive
  /\ estimates' = With(estimates, nextEstimate,
       [customer |-> customer, date |-> date, content |-> content, invoice |-> 0,
        state |-> IF send THEN "sent" ELSE "draft"])
  /\ nextEstimate' = nextEstimate + 1
  /\ OnlyEstimates

\* updateEstimate, and markEstimate when it is saved and sent.
UpdateEstimate(e, customer, date, content, send) ==
  /\ estimates[e].state \in {"draft", "sent"}
  /\ estimates' = [estimates EXCEPT
       ![e] = [customer |-> customer, date |-> date, content |-> content, invoice |-> 0,
               state |-> IF send THEN "sent" ELSE @.state]]
  /\ UNCHANGED nextEstimate
  /\ OnlyEstimates

\* deleteEstimate.
DeleteEstimate(e) ==
  /\ estimates[e].state # "converted"
  /\ estimates' = Without(estimates, e)
  /\ UNCHANGED nextEstimate
  /\ OnlyEstimates

\* markEstimate.
MarkEstimate(e, state) ==
  /\ estimates[e].state \notin {"converted", state}
  /\ estimates' = [estimates EXCEPT ![e].state = state]
  /\ UNCHANGED nextEstimate
  /\ OnlyEstimates

\* convertEstimateToInvoice: a draft invoice, and each points at the other.
Convert(e, date) ==
  /\ Room
  /\ estimates[e].state \notin {"converted", "declined"}
  /\ estimates[e].customer \notin inactive
  /\ invoices' = With(invoices, nextInvoice,
       [customer |-> estimates[e].customer, date |-> date, content |-> estimates[e].content,
        estimate |-> e, state |-> "draft", posted |-> FALSE])
  /\ nextInvoice' = nextInvoice + 1
  /\ estimates' = [estimates EXCEPT ![e].state = "converted", ![e].invoice = nextInvoice]
  /\ UNCHANGED <<nextEstimate, payments, bills, billPayments>>
  /\ UNCHANGED <<inactive, journal, loose, markVars>>

-----------------------------------------------------------------------------
(* Invoices.                                                               *)

InvoiceEntry(i, inv) ==
  Posted("invoice", i, inv.date, inv.customer, Total(inv.content), 0, Tax(inv.content))

\* An invoice as it is saved: as a draft, or sent in the same update (sendInvoice).
SaveInvoice(i, inv, send) ==
  IF send
  THEN /\ Total(inv.content) > 0
       /\ PostEntry(InvoiceEntry(i, inv))
       /\ invoices' = With(invoices, i, [inv EXCEPT !.state = "sent", !.posted = TRUE])
  ELSE /\ invoices' = With(invoices, i, inv)
       /\ UNCHANGED journal

OnlyInvoices == UNCHANGED <<estimates, nextEstimate, payments, bills, billPayments, inactive,
                            loose, markVars>>

\* createInvoice.
CreateInvoice(customer, date, content, send) ==
  /\ Room
  /\ customer \notin inactive
  /\ SaveInvoice(nextInvoice, [customer |-> customer, date |-> date, content |-> content,
                               estimate |-> 0, state |-> "draft", posted |-> FALSE], send)
  /\ nextInvoice' = nextInvoice + 1
  /\ OnlyInvoices

\* updateDraftInvoice.
UpdateDraft(i, customer, date, content, send) ==
  /\ invoices[i].state = "draft"
  /\ SaveInvoice(i, [invoices[i] EXCEPT !.customer = customer, !.date = date,
                                        !.content = content], send)
  /\ UNCHANGED nextInvoice
  /\ OnlyInvoices

\* sendInvoice, from the list.
SendInvoice(i) ==
  /\ invoices[i].state = "draft"
  /\ SaveInvoice(i, invoices[i], TRUE)
  /\ UNCHANGED nextInvoice
  /\ OnlyInvoices

\* Mutant: the estimate is not handed back.
DeleteDraftOnly(i) ==
  /\ invoices[i].state = "draft"
  /\ invoices' = Without(invoices, i)
  /\ UNCHANGED <<estimates, nextEstimate, nextInvoice, payments, bills, billPayments>>
  /\ UNCHANGED <<inactive, journal, loose, markVars>>

\* deleteDraftInvoice: the estimate it was made from is accepted again.
DeleteDraft(i) ==
  /\ invoices[i].state = "draft"
  /\ invoices' = Without(invoices, i)
  /\ estimates' = [e \in DOMAIN estimates |->
       IF e = invoices[i].estimate /\ estimates[e].invoice = i
       THEN [estimates[e] EXCEPT !.invoice = 0, !.state = "accepted"]
       ELSE estimates[e]]
  /\ UNCHANGED <<nextEstimate, nextInvoice, payments, bills, billPayments>>
  /\ UNCHANGED <<inactive, journal, loose, markVars>>

\* voidInvoice: a draft is only marked, a sent one has its entry reversed.
VoidInvoice(i) ==
  /\ invoices[i].state # "void"
  /\ IF invoices[i].state = "draft"
     THEN UNCHANGED journal
     ELSE /\ Paid(payments, i, LastDate) = 0
          /\ Undo(EntryOf("invoice", i))
  /\ invoices' = [invoices EXCEPT ![i].state = "void"]
  /\ UNCHANGED nextInvoice
  /\ OnlyInvoices

-----------------------------------------------------------------------------
(* Payments received.                                                      *)

\* Mutant: an invoice is held against what it owed on the payment's date.
MayPayInvoicesOn(customer, applied, date) ==
  \A a \in applied :
    /\ a.id \in DOMAIN invoices
    /\ invoices[a.id].customer = customer
    /\ invoices[a.id].state = "sent"
    /\ a.amount <= InvoiceBalance(a.id, date)

\* cleanApplications: held against everything paid so far, whatever its date.
MayPayInvoices(customer, applied, date) ==
  \A a \in applied :
    /\ a.id \in DOMAIN invoices
    /\ invoices[a.id].customer = customer
    /\ invoices[a.id].state = "sent"
    /\ a.amount <= InvoiceBalance(a.id, LastDate)

OnlyPayments == UNCHANGED <<estimates, nextEstimate, invoices, nextInvoice, bills,
                            billPayments, inactive, loose, markVars>>

\* receivePayment: what is not applied is a credit the customer holds.
ReceivePayment(customer, date, amount, applied) ==
  /\ Room
  /\ MayPayInvoices(customer, applied, date)
  /\ AppliedSum(applied) <= amount
  /\ PostEntry(Posted("payment", Len(payments) + 1, date, customer, -amount, 0, 0))
  /\ payments' = Append(payments, [customer |-> customer, date |-> date, amount |-> amount,
                                   applied |-> applied, void |-> FALSE])
  /\ OnlyPayments

\* voidPayment.
VoidPayment(n) ==
  /\ ~payments[n].void
  /\ Undo(EntryOf("payment", n))
  /\ payments' = [payments EXCEPT ![n].void = TRUE]
  /\ OnlyPayments

-----------------------------------------------------------------------------
(* Bills and their payments.                                               *)

OnlyBills == UNCHANGED <<estimates, nextEstimate, invoices, nextInvoice, payments,
                         inactive, loose, markVars>>

\* enterBill: there is no draft.
EnterBill(vendor, date, number, total) ==
  /\ Room
  /\ vendor \notin inactive
  /\ number # Unnumbered =>
       \A b \in DOMAIN bills :
         ~(~bills[b].void /\ bills[b].vendor = vendor /\ bills[b].number = number)
  /\ PostEntry(Posted("bill", Len(bills) + 1, date, vendor, 0, total, 0))
  /\ bills' = Append(bills, [vendor |-> vendor, date |-> date, number |-> number,
                             total |-> total, void |-> FALSE])
  /\ UNCHANGED billPayments
  /\ OnlyBills

\* voidBill.
VoidBill(b) ==
  /\ ~bills[b].void
  /\ Paid(billPayments, b, LastDate) = 0
  /\ Undo(EntryOf("bill", b))
  /\ bills' = [bills EXCEPT ![b].void = TRUE]
  /\ UNCHANGED billPayments
  /\ OnlyBills

\* payBills: the amount is what is applied.
PayBills(vendor, date, applied) ==
  /\ Room
  /\ applied # {}
  /\ \A a \in applied : /\ a.id \in DOMAIN bills
                        /\ bills[a.id].vendor = vendor
                        /\ ~bills[a.id].void
                        /\ a.amount <= BillBalance(a.id, LastDate)
  /\ PostEntry(Posted("bill_payment", Len(billPayments) + 1, date, vendor, 0,
                      -AppliedSum(applied), 0))
  /\ billPayments' = Append(billPayments, [vendor |-> vendor, date |-> date,
                                           applied |-> applied, void |-> FALSE])
  /\ UNCHANGED bills
  /\ OnlyBills

\* voidBillPayment.
VoidBillPayment(n) ==
  /\ ~billPayments[n].void
  /\ Undo(EntryOf("bill_payment", n))
  /\ billPayments' = [billPayments EXCEPT ![n].void = TRUE]
  /\ UNCHANGED bills
  /\ OnlyBills

-----------------------------------------------------------------------------
(* Entries no form owns.                                                   *)

\* recordSalesTaxPayment, and a journal entry on sales tax payable.
PostLoose(source, date, tax) ==
  /\ Room
  /\ PostEntry(Posted(source, loose + 1, date, Nobody, 0, 0, tax))
  /\ loose' = loose + 1
  /\ UNCHANGED <<salesVars, inactive, markVars>>

\* Mutant: the screen knows of the sales forms only.
OwnedByForm2(e) == e.source \in {"invoice", "payment"}

\* ownerOf.
OwnedByForm(e) == e.source \in FormSource

\* voidEntry, in the list of all entries.
VoidEntry(e) ==
  /\ ~OwnedByForm(e)
  /\ Undo(e)
  /\ UNCHANGED <<salesVars, inactive, loose, markVars>>

\* closeThrough, reopenFrom and lockThrough, as in Ledger.
MoveMarks(date) ==
  /\ \/ date > closedThrough /\ closedThrough' = date /\ UNCHANGED lockedThrough
     \/ date \in (lockedThrough + 1)..closedThrough /\ closedThrough' = date - 1
        /\ UNCHANGED lockedThrough
     \/ date \in (lockedThrough + 1)..closedThrough /\ lockedThrough' = date
        /\ UNCHANGED closedThrough
  /\ UNCHANGED <<salesVars, inactive, journal, loose>>

-----------------------------------------------------------------------------
\* What a payment may be asked to pay: each document once, any amount.
Splits(ids) ==
  UNION {{{[id |-> i, amount |-> split[i]] : i \in S} : split \in [S -> Amount]} :
           S \in SUBSET ids}

Quote ==
  \/ \E customer \in Customer, date \in Date, content \in Content, send \in BOOLEAN :
       \/ CreateEstimate(customer, date, content, send)
       \/ \E e \in DOMAIN estimates : UpdateEstimate(e, customer, date, content, send)
  \/ \E e \in DOMAIN estimates :
       \/ DeleteEstimate(e)
       \/ \E state \in {"sent", "accepted", "declined"} : MarkEstimate(e, state)
       \/ \E date \in Date : Convert(e, date)

Invoicing ==
  \/ \E customer \in Customer, date \in Date, content \in Content, send \in BOOLEAN :
       \/ CreateInvoice(customer, date, content, send)
       \/ \E i \in DOMAIN invoices : UpdateDraft(i, customer, date, content, send)
  \/ \E i \in DOMAIN invoices : SendInvoice(i) \/ DeleteDraft(i) \/ VoidInvoice(i)
  \/ \E customer \in Customer, date \in Date, amount \in Amount :
       \E applied \in Splits(DOMAIN invoices) :
         ReceivePayment(customer, date, amount, applied)
  \/ \E n \in DOMAIN payments : VoidPayment(n)

Billing ==
  \/ \E vendor \in Vendor, date \in Date :
       \/ \E number \in BillNumber \cup {Unnumbered}, total \in BillTotal :
            EnterBill(vendor, date, number, total)
       \/ \E applied \in Splits(DOMAIN bills) : PayBills(vendor, date, applied)
  \/ \E b \in DOMAIN bills : VoidBill(b)
  \/ \E n \in DOMAIN billPayments : VoidBillPayment(n)

Journal ==
  \/ \E date \in Date, amount \in TaxAmount :
       \/ PostLoose("sales_tax_payment", date, -amount)
       \/ PostLoose("manual", date, amount)
  \/ \E e \in journal : VoidEntry(e)
  \/ \E date \in Date : MoveMarks(date)

Next == Quote \/ Invoicing \/ Billing \/ Journal \/ \E p \in Resting : SetActive(p)

Spec == Init /\ [][Next]_vars

-----------------------------------------------------------------------------
(* Reports.                                                                *)

Dated(from, to) == {e \in journal : e.date \in from..to}

\* arAging and apAging, the total of one party.
AgedReceivable(customer, asOf) ==
  SumFunction([i \in {i \in DOMAIN invoices :
                       invoices[i].customer = customer /\ invoices[i].date <= asOf} |->
                 InvoiceBalance(i, asOf)])

AgedPayable(vendor, asOf) ==
  SumFunction([b \in {b \in DOMAIN bills :
                       bills[b].vendor = vendor /\ bills[b].date <= asOf} |->
                 BillBalance(b, asOf)])

\* Mutant: a payment that was voided goes on counting.
IsTaxPaymentOnly(e) == e.source = "sales_tax_payment" /\ ~e.reversal

\* A payment to the agency, or the reversal of one.
IsTaxPayment(e) == e.source = "sales_tax_payment"

\* salesTaxReport, its lines.
Collected(from, to) ==
  SumFunction([i \in {i \in DOMAIN invoices :
                       invoices[i].posted /\ invoices[i].date \in from..to} |->
                 Tax(invoices[i].content)])
Voided(from, to) ==
  SumFunction([e \in {e \in Dated(from, to) : e.reversal /\ e.source = "invoice"} |-> -e.tax])
TaxPaid(from, to) ==
  SumFunction([e \in {e \in Dated(from, to) : IsTaxPayment(e)} |-> -e.tax])
Movement(from, to) == SumFunction([e \in Dated(from, to) |-> e.tax])
Adjustments(from, to) ==
  Movement(from, to) - Collected(from, to) + Voided(from, to) + TaxPaid(from, to)

-----------------------------------------------------------------------------
(* Properties.                                                             *)

\* Nothing of a party posted by asOf has been undone on a later date.
Settled(party, asOf) ==
  \A e, m \in journal : Mirrors(m, e) /\ ~e.reversal /\ e.party = party /\ e.date <= asOf
                          => m.date <= asOf

\* What a payment pays of the documents dated by asOf.
Toward(p, documents, asOf) == AppliedSum({a \in p.applied : documents[a.id].date <= asOf})

\* What live payments, dated by asOf, pay outside the documents dated by asOf: credits
\* and payments in advance.
ReceivedAhead(customer, asOf) ==
  SumFunction([n \in {n \in Live(payments, asOf) : payments[n].customer = customer} |->
                 payments[n].amount - Toward(payments[n], invoices, asOf)])

PaidAhead(vendor, asOf) ==
  SumFunction([n \in {n \in Live(billPayments, asOf) : billPayments[n].vendor = vendor} |->
                 AppliedSum(billPayments[n].applied) - Toward(billPayments[n], bills, asOf)])

\* What the journal has of a party on the control accounts.
OwedBy(customer, asOf) ==
  SumFunction([e \in {e \in Dated(1, asOf) : e.party = customer} |-> e.receivable])
OwedTo(vendor, asOf) ==
  SumFunction([e \in {e \in Dated(1, asOf) : e.party = vendor} |-> e.payable])

\* On every date nothing has been undone since, the aged balances of a customer or vendor
\* are the control account of the journal, but for money paid ahead: the forms and the
\* books say the same thing (sales.ts customerBalance: "Matches their A/R", vendorBalance,
\* arAging, apAging), in whatever order documents are sent, paid, backdated and voided.
AgingTies ==
  \A asOf \in Date :
    /\ \A c \in Customer : Settled(c, asOf) =>
         AgedReceivable(c, asOf) - ReceivedAhead(c, asOf) = OwedBy(c, asOf)
    /\ \A v \in Vendor : Settled(v, asOf) =>
         AgedPayable(v, asOf) - PaidAhead(v, asOf) = OwedTo(v, asOf)

\* Nothing is paid beyond its total by payments that stand, whatever their dates and
\* whichever were voided between, and they pay only documents that stand, of the same
\* party (receivePayment, voidInvoice, payBills, voidBill).
NeverOverpaid ==
  /\ \A i \in DOMAIN invoices : Paid(payments, i, LastDate) <= Total(invoices[i].content)
  /\ \A b \in DOMAIN bills : Paid(billPayments, b, LastDate) <= bills[b].total
  /\ \A n \in DOMAIN payments : ~payments[n].void =>
       \A a \in payments[n].applied :
         /\ a.id \in DOMAIN invoices
         /\ invoices[a.id].state = "sent"
         /\ invoices[a.id].customer = payments[n].customer
  /\ \A n \in DOMAIN billPayments : ~billPayments[n].void =>
       \A a \in billPayments[n].applied : /\ a.id \in DOMAIN bills
                                          /\ ~bills[a.id].void
                                          /\ bills[a.id].vendor = billPayments[n].vendor

HasEntry(source, ref) == \E e \in journal : e.source = source /\ e.ref = ref /\ ~e.reversal
IsUndone(source, ref) == \E e \in journal : e.source = source /\ e.ref = ref /\ e.reversal

\* "so the form and the books stay in step" (app/transactions/page.tsx:65): a form's
\* entry is in the journal when the form says so, undone when the form says void, and
\* belongs to a document that is there.
InStep ==
  /\ \A i \in DOMAIN invoices :
       /\ HasEntry("invoice", i) <=> invoices[i].posted
       /\ IsUndone("invoice", i) <=> invoices[i].posted /\ invoices[i].state = "void"
  /\ \A n \in DOMAIN payments : HasEntry("payment", n)
                                /\ (IsUndone("payment", n) <=> payments[n].void)
  /\ \A b \in DOMAIN bills : HasEntry("bill", b) /\ (IsUndone("bill", b) <=> bills[b].void)
  /\ \A n \in DOMAIN billPayments : HasEntry("bill_payment", n)
                                    /\ (IsUndone("bill_payment", n) <=> billPayments[n].void)
  /\ \A e \in journal :
       /\ e.source = "invoice" => e.ref \in DOMAIN invoices
       /\ e.source = "payment" => e.ref \in DOMAIN payments
       /\ e.source = "bill" => e.ref \in DOMAIN bills
       /\ e.source = "bill_payment" => e.ref \in DOMAIN billPayments

\* "The two point at each other, and an estimate converts once" (estimates.ts:7), over
\* drafts that are changed, deleted, sent or voided and estimates taken up again.
ConvertsOnce ==
  /\ \A e \in DOMAIN estimates : estimates[e].state = "converted" =>
       /\ estimates[e].invoice \in DOMAIN invoices
       /\ invoices[estimates[e].invoice].estimate = e
  /\ \A i \in DOMAIN invoices : invoices[i].estimate # 0 =>
       /\ invoices[i].estimate \in DOMAIN estimates
       /\ estimates[invoices[i].estimate].state = "converted"
       /\ estimates[invoices[i].estimate].invoice = i

\* What the sales tax report shows as adjustments is what journal entries did to the
\* account, for every range of dates: invoices, their voids, payments to the agency and
\* theirs are each counted on their own line (salestax.ts: "it ties by construction").
TaxReportTies ==
  \A from, to \in Date :
    Adjustments(from, to)
      = SumFunction([e \in {e \in Dated(from, to) : e.source = "manual"} |-> e.tax])
=============================================================================
