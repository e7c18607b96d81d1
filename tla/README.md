# PNW in TLA+

PNW is a bookkeeping and payroll application that runs in the browser. Books are kept
encrypted on the device; employees are paid in USDCx over Aleo through the Shield wallet
extension; the two sides of a pay relation exchange offers, hours, paystubs and messages,
today as letters on chain, formerly over an encrypted mailbox relay. There is no server
that holds the state of a payroll: what is right or wrong happens between tabs, promise
queues, IndexedDB, the wallet and the network. This project models the parts that carry
such state, checks them with TLC and proves the main results with TLAPS.

Contents: [1 Inventory](#1-inventory), [2 Plan](#2-plan), [3 PayQueue](#3-payqueue), [4
BooksProvider](#4-booksprovider), [5 Chart, Ledger, Statements](#5-chart-ledger-statements), [6
Letters and Hours](#6-letters-and-hours), [7 Sales](#7-sales), [8 Hiring](#8-hiring), [9
Shield](#9-shield), [10 PayRun](#10-payrun), [11 TransferPlan](#11-transferplan), [12 Relay and
Channels](#12-relay-and-channels), [13 The runs](#13-the-runs), [14 The
proofs](#14-the-proofs), [15 Where code and comments part](#15-where-code-and-comments-part),
[16 What is left out](#16-what-is-left-out).

Paths are relative to the repository; `business/` stands for `apps/business/src/`.

## 1 Inventory

| component | state | operations | hard behaviour | what makes it correct | status |
|---|---|---|---|---|---|
| Pay queue and pay panel (`packages/rail/src/queue.ts`, `confirm.ts`, `business/chain/PayPanel.tsx`) | settlement of each paycheck; progress of each queue; requests in Shield; transactions on chain | start, continue, retry; plan, send, poll, confirm, settle; write each outcome to the books | reload or lock in the middle; late answers; two queues; writes in flight | nobody paid twice; settled means paid; settled is final; failed means not paid | PayQueue, refines Payment |
| Transfer plan and splits (`packages/rail/src/plan.ts`, `executeSplit` of `queue.ts`) | the plan; records in the wallet and on chain; outputs found | plan, split, look for the outputs, transfer | exact fits, equal amounts, a wallet that lags behind | every payee covered, no record used twice | TransferPlan |
| Open books (`business/books/BooksProvider.tsx`, `account.ts`, `LoginDialog.tsx`, `packages/vault/src/*`) | session and plaintext of each tab; records in IndexedDB; the account kept open; backup files; the promise queue of updates | create, log in, choose, resume, lock, update, back up, restore | awaits between read and write; several tabs; failed saves; a dialog closed while a key is derived | a resolved update is stored; a rejected one is not; accounts do not mix; locking forgets | BooksProvider |
| Payroll (`packages/payroll/src/payroll.ts`, `paystub.ts`, `business/app/payroll/run/page.tsx`) | team, pay runs, paychecks, settlement and delivery marks; the page and its question | add, change, remove a worker; check, ask, post a run; rebuild a paystub | books that change between check and post; runs for earlier dates; cents rounded up | nobody paid twice on a day unasked; taxes capped; a rebuilt paystub hashes as posted | PayRun; marks also in PayQueue, Letters |
| Ledger (`packages/ledger/src/books.ts`, `accounts.ts`, `periods.ts`) | chart of accounts; append-only journal; closed and locked marks | add, change, deactivate, reactivate an account; post, reverse, edit; close, reopen, lock | long sequences of legal calls | the chart is a forest; entries are undone once; shut periods keep their entries | Chart, Ledger |
| Sales, bills, sales tax (`packages/sales/src/*`, `business/app/transactions/page.tsx`) | estimates, invoices, payments, bills, bill payments; their entries | create, change, send, convert, delete, void; receive, apply, pay | long sequences of legal calls over two representations of the same facts | forms, reports and journal agree; nothing paid beyond its total | Sales |
| Hiring (`business/books/hiring.ts`, `books/rail.ts`, `chain/offer.ts`, the offer screens, `RailPanel.tsx`) | team, links; running sends; agreements on chain; what an import read | hire, offer, withdraw, revise, import, match, remove | minutes between asking Shield and writing; screens left and reopened; closed tabs | nobody joins without an accepted agreement; no live offer is forgotten | Hiring |
| Shield account (`business/books/review.ts`, `opening.ts`, `funds.ts`, `chain/review_feed.ts`, `ReviewPanel.tsx`, `AccountBalances.tsx`) | movements on chain; opening; review list; set-asides; pay runs' entries | read, start; check, accept, change, exclude, undo; set aside, release, close; void | two readings at two times; checks that overlap; a payment of a running queue seen as news | the books hold what the account holds | Shield |
| Letters (`business/chain/letters.ts`, `deliver.ts`, `thread.ts`, `mailbox_scan.ts`, `work/*`, books of both ends) | next slot and record of the sender; letters on chain; next slot and documents of the receiver | send a paystub, a week, a message; check for new ones | time-outs with a late acceptance; sends that overlap; scans broken off | no gaps; recorded means sent; everything sent is read, in order | Letters, refines SlotLog |
| Hours (`business/books/hours.ts`, `work.ts`, `app/work/*`, `chain/work/SendTimesheet.tsx`) | punches; the weeks sent; the weeks the business keeps | clock in and out, edit, remove; send a week, again if it changed | midnights, ends of weeks, long and short days; edits of edits; a send nobody knows the end of | all time worked is in one week, once; an edit stays within its shift; sent means arrived as shown | Hours |
| Statements (`packages/ledger/src/reports.ts`, `statements.ts`) | none, they read the books | trial balance, balance sheet, profit and loss | a chart changed under the entries posted to it; the turn of a fiscal year | every report ties; those of closed months stay | Statements |
| Mailbox relay (`business/app/api/mailbox/*`, `packages/mailbox`) | pins, by slot, some with a keep-until day | look and pin, get, drop, sweep | a lost answer; two calls for one delivery; a drop that fails | what is not dropped or expired stays | Relay |
| Announcement channels (`business/chain/channels.ts`, `thread.ts`, `books/channels.ts`, `Channel.tsx`, `work/MessagesCheck.tsx`) | the channel and its key; the next slot of each thread; what members have read | create, take in, take out, post, read, see who has seen | a key sent to each member apart, some of which fail; people who come and go | who is out cannot read on; who is in can, or is named; nobody skips a post | Channels |
| Receipts and the mailbox feed (`business/chain/receipts.ts`, `books/mailbox_feed.ts`) | receipts, kept until a day | send, read, mark, drop | lost, late, read twice | seen means read | Channels has those of posts |
| Groups, directory, company and work documents, tags, PDF, tax engine, hashes, ciphers, screens | JSON documents and pure functions | validation, arithmetic, rendering | none of order or failure beyond the above | unit tests reach them | not modelled |

How they meet: the screens call `updateCompany` (or `updateWork`) with a pure function
from books to books, and everything durable goes through that one queue. The pay queue,
the letter box and the offer screens are long asynchronous jobs that read the books once
at their start, talk to Shield for minutes, and write back through `updateCompany` at
their end. That gap, between what was read and what is written, is where the hazards are;
the others are long sequences of legal calls that leave two representations of one fact
apart (forms and journal, posted and rebuilt paystubs, books and chain). PROJECT.json
lists each hazard with its line and the properties that cover it, and, where none does,
says why.

The modules meet at the same seams. PayQueue settles one run that PayRun posted, by
transfers whose records TransferPlan chose; Shield has the same run as an entry and an id.
Ledger's rules about closed months are taken up in Sales; Hiring's team is PayRun's. Channels
extends Relay, and its threads are the ones of Letters, whose letters travel next to its keys.

## 2 Plan

Done, in this order: PayQueue with Payment; BooksProvider; Chart and Ledger; Letters with
SlotLog; Sales; Hiring; Shield; PayRun; TransferPlan; Relay and Channels; Statements; Hours.
Every safety property of a passing run, of any of them, is a theorem as well (section 14).

Next, most important first:

1. **Groups**: one message to each member in a thread of their own, and the admin's list.
2. **Relay**: the documents of offers and paystubs that still go through it.

Each of the sections 3 to 12 says how the state and the actions of a module correspond to
the code; the comment over a definition names its function, and PROJECT.json its lines.

## 3 PayQueue

`PayQueue.tla` is the settlement of one posted pay run. A queue is one press of *Pay now*,
*Continue* or *Retry*, and asks Shield for at most one transfer per worker, so the pair
`<<q, w>>` names both that transfer and queue q's progress with worker w.

| state | in the code |
|---|---|
| `books` | `paycheck.settlement` in the open company |
| `writes` | the updates chained on BooksProvider's `queue.current`, one FIFO per worker |
| `unlocked` | the session is open |
| `panel` | the mounted PayPanel's `running` |
| `phase`, `stage` | how far `runPayQueue` is, and its `sendOne` or `resumeOne` for a worker |
| `watch` | the reference `awaitTransaction` polls |
| `chain` | Shield's request and the transaction made of it (environment) |

`Start` reads the run through `updateCompany`, hence after every earlier write; the plan
follows after awaits (`PlanFails`, `PlanMade`). Each branch of `sendOne`, `resumeOne` and
`awaitTransaction` is an action: broken split, request, refusal, reference, acceptance,
rejection, cap reached, accepted without an id, explorer error, settled. Each emits a
settlement into `writes`; `ApplyWrite` is `settleTo` over `markPaycheckSettlement`, with
its early return on a settled paycheck, and `WriteFails` a locked or failing vault.
`Reload`, `Lock`, `Unlock` and `Leave` are what happens to the tab; only `Reload` stops a
queue.

Three specifications: `Spec`, with every mishap; `AttendedSpec`, in which nobody leaves
the panel or logs out under a running queue, no transfer is given up on once Shield has
it, no update is lost, and the page is reloaded only while every id is in the books;
`FairAttendedSpec`, the same with fairness. MCPayQueue adds one mishap at a time to
attended runs. `Payment.tla` is what a run promises: a worker is paid once, and what is
recorded is that payment. `PayQueueInv.tla` holds the inductive invariants.

## 4 BooksProvider

`BooksProvider.tla` is the books of the accounts on one device over several tabs. The
books of an account are the set of edits made to them. An update is a `Job` that starts
from `companyRef` (`Begin`), seals (so that the session's record, `sealed`, is ahead of the
store), is saved or not by IndexedDB (`Save`, `SaveFails`) and becomes the open books
(`Finish`). `Finish` is separate from `Save` because other events of the tab come between;
it does not look at the session again, and neither does the code. Writing and clearing the key
of an account kept open may fail, which the code swallows: what was kept before may stay (`Open`,
`Lock`).

| state | in the code |
|---|---|
| `store`, `kept`, `backup` | IndexedDB records; the "stay logged in" key; the backup file |
| `session`, `sealed`, `company` | `session.current`, its record, `companyRef.current` |
| `login`, `dialog`, `found` | the step of create, unlock, resume, restore; the dialog; sessions unlocked and not yet shown |
| `waiting`, `running` | the promise queue and its update in progress |
| `madeIn`, `told` | history: whose screen asked for an edit, and what it was answered |

`Restore` undoes what was answered before the backup, by intent; `told` then says
"overruled" for those edits, so that the properties speak of the others.
`NoJobReady` is the event loop: a callback that is ready runs before any event.

`CalmSpec` is the use for which the properties hold: an account in one tab at a time, no
account opened in a tab that is still storing an update, no dialog closed while it derives
a key. Locking, reloading and failing saves are allowed at any time. MCBooksProvider has two
ways to leave it: `TwoTabsSpec` adds reloads onto books another tab has open, `OnePageSpec`
screens that ask again after other books were opened (section 15).

## 5 Chart, Ledger, Statements

`Chart.tla` is the chart of accounts. `validateAccount` is `Valid`, one conjunct per rule;
`AddAccount`, `UpdateAccount`, `DeactivateAccount`, `ReactivateAccount` are the four
operations, which throw on a broken rule (no step). What they ask of the journal, an
account's postings and balance, comes by parameter. `Lineage`, which the code walks from
parent to parent, is the least set with the account in it that climbs. Of its type only the
statement section is kept, which is all the rules compare.

`Ledger.tla` extends it with the journal and the two period marks: `Post`, `Reverse`,
`Edit` (reversal and corrected entry in one pure step, or neither), `CloseThrough`,
`ReopenFrom`, `LockThrough`. A date is its month. A posting has one debit and one credit
line: longer entries are checked line by line by the same rules, and unbalanced ones are
refused before anything changes. `BalanceOf` is the sum over the journal.

`Statements.tla` extends that with the reports, as operators on the books: `NetByAccount`,
`TrialBalance` (which moves what earlier fiscal years earned to Retained Earnings, as there
are no closing entries), `SectionTotal` for `accountSection`, whose rows at the top (`TopRows`)
each hold the total of their `Branch`, and `BalanceSheet` and `ProfitAndLoss` made of them.
`StatementsTie` says that all of them agree in every month, over any chart that moves, changes
of section and closures have left; `ClosedStatementsStay` that what a closed month shows stays
until it is reopened. Both are what the rules of the chart are for. The fiscal year has
`YearMonths` months from `StartMonth`.

## 6 Letters and Hours

`Letters.tla` is one stream from one sender to one receiver. `kind` is what it carries;
the few differences (a taken slot counts as sent for a paystub or a week and is stepped
over for a message; how the receiver keeps a document twice) are tests of it.

| state | in the code |
|---|---|
| `next` | `mailboxSeq`, `nextOut`: the sender's next unused slot |
| `record` | the delivery mark of a paycheck, the sent week, the own message with its slot |
| `send` | one press of the button: `deliverPaystub`, `sendTimesheet`, `postToThread` with `LetterBox.put` and `executeAndWait` |
| `shield` | the request in Shield and the letter on chain (environment) |
| `nextIn`, `kept` | the receiver's next slot and the documents kept with their slots |
| `scan` | one `scanHours`, `scanPaystubs` or `readThread`, with the letters its LetterBox fetched |

`Begin` reads the slot through `updateCompany((c) => c)`; `FindTaken`, `StepOver`,
`NoFreeSlot` are put's CONFLICT; `Ask` may also happen when the slot is taken, as the
check reads SentLetter records, which a page leaves none of and Shield may not have yet.
`GiveUp` is every other end of a send: an error, the cap, the closed tab; the request in
Shield lives on. A scan stores a document and its counter in one update, then goes on
(`ScanKeep`), moves past what it cannot read (`ScanSkip`), ends at the first empty slot
(`ScanEnd`), or breaks off (`ScanStop`). Of several letters under one slot it takes the
first Shield lists, which may be any.

`Spec` allows every order. `OrderlySpec` follows the message "No answer from Shield in
time; check it before trying again" (`execute.ts`): while a letter is being sent, may yet
arrive, or arrived unknown to the books, only the same document is sent. Pressing twice,
timing out, closing the tab and trying again are all orderly. `SlotLog.tla` is what the
slots promise: an append-only log, confirmed when it is there, read once and in order.

`Hours.tla` is one agreement's clock, on the worker's side, and what becomes of a week of it.

| state | in the code |
|---|---|
| `now`, `punches` | the device's clock; `work.punches` of the agreement |
| `active` | the agreement's status, as a check for offers last read it |
| `next`, `sent` | `mailboxSeq`'s timesheet slot and `work.timesheets` |
| `letters`, `stage` | what each press of *Send* asked of Shield, and how far the last one is |
| `nextIn`, `kept` | `mailbox.nextHours` and `mailbox.hours` of the business |

Days are given by their midnights (`DayStart`), so that some are longer than others, and a
minute has several instants, so that something is cut off. `Pieces` is the loop of `shiftsOf`
that splits a shift at midnights, `EndOfShift` where an open one ends; nothing else in the
code knows of midnights. A punch is edited to a whole minute, past or future, one end at a time,
if the punches alternate afterwards. A letter travels as in Letters, one press and one check at
a time; what is added is that its contents change between two presses. `HoursSpec` allows
everything, `WeeklySpec` what is orderly in Letters (while a letter may yet arrive, the same
week is sent), and `SteadySpec` asks that nothing in that week has changed either. Section 15
says what the difference is.

## 7 Sales

`Sales.tla` has the documents of `packages/sales` on one side and what they post on the
other. Of an entry it keeps the movement on the three control accounts (receivable of a
customer, payable of a vendor, sales tax payable), which is all that forms and reports
compare; the rules about the other side are Ledger's. A document and its entry change in
one `updateCompany`, so every operation is one action on both.

| state | in the code |
|---|---|
| `estimates`, `invoices` | by number, drafts may be deleted; `nextEstimate`, `nextInvoice` |
| `payments`, `bills`, `billPayments` | never removed, so the place is the id |
| `journal` | entries by source, reference and whether it is the reversal: `source.kind`, `source.ref`, `reverses` |
| `loose` | sales tax payments and journal entries, which no form owns |
| `closedThrough`, `lockedThrough` | the period marks, moved as in Ledger |
| `inactive` | customers and vendors set aside |

`Undo` is `voidWithFallback`: the reversal on the entry's own date or, when that month is
closed but not locked, today's. Payments are held against what is owed over all dates
(`invoiceBalance` without `asOf`), while reports take a date: `AgingTies` and `NeverOverpaid`
are about the difference. Credits and payments dated before their invoice are money paid
ahead (`ReceivedAhead`, `PaidAhead`), which aging leaves out and the control account has.

## 8 Hiring

`Hiring.tla` is the team and its agreements against the agreement program on the chain. A
flow is one run of a screen's `send()` or `withdraw()`; its steps are the awaits of the
code. `flows` is a set because screens are left and reopened while their promise goes on;
`CloseTab` ends them all, and what Shield took before may still land.

| state | in the code |
|---|---|
| `team`, `nextMember` | `payroll.workers`, `nextWorker` |
| `links` | `rail.links`: agreement, status, `joinsOnAccept` |
| `flows` | OfferPanel's and ReviseOffer's `send`, WithdrawOffer's `withdraw` |
| `createTx`, `closeTx`, `agreement`, `final` | the transactions of each flow, `agreement_status`, FinalAgreement records (environment) |
| `scan` | ImportFlow's rows and final ids, each from a request of its own, until the update |

The end of a flow is one step: it is one `updateCompany`, whose function computes on the company
as it is by then and throws as a whole when the member has left (`RecordOffer`). `FailWithdrawal`
and `FailSend` are refusals, rejections and the cap alike. An import asks the wallet twice, for
the rows it lists and for the final agreements; the answers come in either order (`ReadRecords`,
`ReadRest`), with the chain moving in between, and the import may fail after both (`FailImport`).

## 9 Shield

`Shield.tla` is the balance of the linked account over the movements accepted by the
network, and everything in the books that answers to one: the opening entry, the review
list, set-asides, the entries and ids of pay runs. A movement's id is its place on the
chain, which stands for its time too. `ReadPart` is separate for the public and the private
balance because they are two requests; the start takes the time of the press. A check reads
(`Check`, over any part of what is new: the explorer may not have the rest) and adds
(`AddReviewItems`) in two steps, and several may be on their way. A paycheck's payment may
land before its id is in the books (`PaymentLands`, `PaymentEnds`).

The chain moves minor units and the books keep whole cents (`minorToCents`): the sum of both
parts is cut off at the start, and each movement on its own. Nothing is rounded on the chain, so
what is in the account and what is in the books part by fractions of a cent, even when
everything was answered. `PostOther` is what other pages post on a side of the account: bills paid,
payments received, journal entries (`others`).

`MatchesShield` says by how much they part: the books' total, with what came back to set-asides
after they were closed (`InClosed`) and the fractions that were cut off (`LeftOut`, of the start
and of each movement since, and nothing else), is what the account holds, once everything that
moved is in the books in one way. `Answered` spells out what that takes; an entry by hand
counts as the answer for as many cents as have moved unreviewed. `TotalMatches` is the same
with the total as `fundBalances` shows it, and `RecordedNeverAsks` what review.ts says of payments
the app made itself; both are violated (section 15).

## 10 PayRun

`PayRun.tla` is the team, the *Run payroll* page and the runs. `form` is the page from the press
of its button: `Submit` is the preview and `checkDoublePay`, `Confirm` and `GoBack` the question.
What a page posts is an update that waits its turn in the queue of BooksProvider (`posts`); the
page may have been left by then, and another filled in. `PostPayRun` is that update, which
computes every paycheck anew from the books as they are by then and checks for repeats no more;
`PostFails` its refusal. `RepeatsWereAsked` is therefore about the runs that were in the books
when the page looked (`checked`), and `NoRepeatUnasked`, about all of them, is violated (section
15). Of the taxes Social Security is worked out, because it depends on the year so far, is capped
twice (by wages in the tax engine, by cents in `capSs`) and has two halves; the income tax is one
amount that goes with the worker's W-4. `paystub` is what the posted hash commits to. `asked` and
`failed` are history: whom the page asked about and which payments had failed.

## 11 TransferPlan

`TransferPlan.tla` translates `planTransfers` step by step: exact fits, best fits when there are
enough records, then records carved up. In each, payees (or records) have their turn biggest
first (`BiggestFirst`), and a turn changes one state, the records still free with who has what
(`Take`, `CarveOne`, `CarveFrom`). Then it plays the plan: the splits of
`executeSplit` one after another, each waiting for a pair of unknown records with the right
amounts among what the wallet shows, then all transfers. `chain` has every record there ever
was, `shown` what the wallet shows of it, in any order; money may come in between.

## 12 Relay and Channels

`Relay.tla` is the mailbox relay. It keeps nothing but what is pinned (`pins`), and a delivery
is two calls, a look and a pin: `Taken` and `Deliver` are apart, and the modules that send
decide what comes between. `Sweep` takes what has expired, all of it or some.

`Channels.tla` extends it with one announcement channel, the business on one side and its
members on the other.

| state | in the code |
|---|---|
| `channel` | the channel in the business's books: members, epoch, key, next slot, posts with who has seen them |
| `nextOut` | `thread.nextOut` of each pair in the business's books |
| `job` | one press of *Create*, *Save members*, *Post* or *Send*: the channel it read, the sends it has left, the one under way, what has been sent |
| `letters` | ordinary messages, which travel on chain, under the numbers of the same thread |
| `nextIn`, `got` | the thread as a member's books have it |
| `nextPost`, `kept` | the next slot under each key, and the posts kept |
| `late` | pins and letters that were given up on and may still come |
| `pressed`, `clock` | numbers for keys and messages |
| `outcome`, `owed` | history: what the last send of the key to each member came to; how many slots a member may be ahead of `nextOut`, one for each lost answer their thread has not made up for |

A job reads the books when the button is pressed (`Create`, `SaveMembers`, `Post`, `Write`) and
writes them when it ends (`Save`, which is `keepSent` with the update). In between it takes up
one send after the other, those to the people taken out first, then the new key for those who
stay, then the key for those who are new (`turn`); inside a turn the order is free. Each send
looks at slots until one is free (`Look`), and then it is stored and heard of (`Sent`), not stored
(`Fail`), or given up on (`Unheard`: the answer is lost, or the thirty seconds of pinata.ts are
over). In that case it may be stored at any time after, beside whatever the slot holds by then, or
never (`Land`). `Saved` puts the members as the job
left them over whatever is there, and adds a post to what is there, as the two updates do.
A member's check reads the thread, then the posts under every key (`ReadThread`, `ReadPost`):
what is kept and the drop or the receipt that follows it are one step, whose second half may
fail. Reading prefers a letter to a pin of the same slot, when Shield is there.

`Spec` allows two screens at work at once and tabs that are closed. `OrderlySpec` is the use
for which the properties hold: one job at a time, to its end, and after a post that ended in an
error none is sent until that one has come or is lost (`NoPostLate`), while every call may fail with
or without effect, at once or late, members read whenever they like, and days pass. Keys and
messages need no such patience: a member's thread has one reader, who takes what a slot holds and
drops it, one pin after the other. `HurriedSpec` is orderly use without that patience.

`KeyReaches` is about every member, after any number of failures: if the relay took the last
send of the key to them (`outcome`), and took it into a slot that makes up for every answer
lost before (`owed` is 0 by then), they have the key, or it stands in their thread alone in its
slot, in front of the reader and without a gap. A lost answer costs a member this promise only
until their thread has made up for it: each send that is heard of moves the sender on by a slot
or more, whether it is read or not. `ResultSaysWhoGotIt`, which asks nothing of `owed`, is what the
code says of it, and is violated (section 15).

## 13 The runs

| run | specification and bounds | shows |
|---|---|---|
| pay_attended | FairAttendedSpec, 2 workers, 2 queues | `PaidOnce`, `FailedWasNotPaid`, refinement of Payment, `QueueEnds`, `PaidIsRecorded` |
| pay_reload | attended runs but for one untimely reload | `PaidOnce` violated, see section 15 |
| plan_splits | 3 payees of 1 to 3, 2 records of 1, 2, 4 or 5, 1 record coming in | `PlanIsSound`, `NothingSpentTwice` |
| pay_year | 2 workers, 2 runs, posted or waiting, 3 dates in 2 years, 2 rates, 1 cent of room under the cap | `YearCapped`, `RebuiltIsPosted`, `RepeatsWereAsked` |
| books_calm | CalmSpec, 2 tabs, 2 accounts, 2 edits | answers match the store, accounts stay apart, only a late save brings books back, backups are current, every update is answered |
| ledger_books | 4 accounts (1 system), 3 sections, 2 names, depth 3, 2 months, 3 entries, within `Small` | entries are undone once and by their mirror image, edits are whole, only reversals fill closed accounts; the chart is a forest without namesakes, only moves of a whole branch bend its rules; statements tie, those of closed months stay |
| sales_books | 2 customers, 1 vendor, 3 documents, 2 months, the last one never locked | forms, reports and journal agree; nothing is paid beyond its total |
| hiring_offers | 2 people, 3 flows, 1 member | nobody joins unaccepted, no live offer is forgotten |
| shield_books | 2 of 3 movements or a payment, 2 minor units a cent, 2 checks, 1 set-aside, 1 transfer, 1 entry by hand, 1 paycheck | the books hold what the account holds, but for what was cut off and what closed set-asides got back |
| letters_orderly | OrderlySpec, 2 documents (1 readable), 3 presses, 1 scan, MaxTaken 2 | `NoGap`, `ReadInOrder`, refinement of SlotLog, `SentIsRead` |
| hours_steady | SteadySpec, 3 days of 1, 2 and 1 minutes in 2 weeks, 4 punches, 2 presses, within `Small` | `WeeksAddUp`, `EditsAreLocal`, `SentIsWhatArrived` |
| channels_orderly | OrderlySpec, 2 members, 3 presses, MaxTaken 2, 2 days, within `Small` | `KeyReaches`, `PostsReach`, `SeenIsTrue`, `OnlyMembersRead` |

Why these bounds are enough to be of interest. One worker and two queues already have every race
over a paycheck (an old queue and a new one, late writes, retries); the second worker of
pay_attended has a run partly settled and partly failed. Three payees and two records have every
step of the plan in one: an exact fit, a best fit, and a record split in two and again in what is
left. Two runs are a paycheck and its repetition, an earlier date posted later, or a year and the
next; half a cent of tax a cent makes rounding pass the maximum, but for the cap. Two edits are
what it takes for one to be lost or brought back by the other; two accounts and tabs for books to
mix. Three journal entries hold an entry and its edit, or an entry, its reversal and another; two
months hold any two of a locked, a closed and an open one, between which the rules about an entry
and its reversal choose, and the theorems cover any number of both. A fiscal year of two months
begins with the second, so what the first one earned belongs to a year before. Four accounts at
depth 3 have a branch to move below another and a level too many; names and all accounts but
Retained Earnings are interchangeable, hence the symmetry. `Small` of MCLedger has the long
journals on charts of two accounts, and the large charts on an entry at most. Three documents are
an invoice and two payments, or an estimate converted, given back and converted again; two months
hold what is backdated and what is undone later. Three flows on one member are an offer, its
revision and a withdrawal that crosses them; a second person has their own agreements in the same
import, or is hired once the first has left. Two movements are one before the start and one found
by two checks, or one accepted and the payment of the run; two minor units a cent let halves be
cut off at the start and again later, and add up to a cent. Three presses hold a time-out, a
retry, and a later document that must not overlap; MaxTaken is 8 in the code and 2 here, so that
running out of slots is reached. In the code MaxDepth is 5; here 3. Three presses on a channel are
its creation with two of the things that may follow: a member taken out and back in, a member
taken out and a post, or two posts; `Small` of MCChannels lets a day pass only when a receipt
waits for it, one call be late at a time, and answers be missing from one thread at most, one at a
time; the theorems have no such bounds. Four punches are two shifts, which an edit could join or
lose; two of the three days are of one week, so that a shift may cross a midnight within it or its
end. Two presses are a send and the same week sent again; `Small` of MCHours has one shift at most
from the first one on. `MaxEntries`, `LastPeriod`, `LastDate`, `MaxDocuments`, `MaxFlows`,
`MaxMembers`, `MaxRuns`, `MaxWorkers`, `MaxMoves`, `MaxChecks`, `MaxTransfers`, `MaxOthers`,
`MaxPayees`, `MaxRecords`, `MaxIncoming`, `LastDay`, `MaxPunches` and `Presses` are bounds of the
model: the code has none. Types are not checked, as they are proved (section 14).

Deadlock is checked where the system cannot stop (pay_attended, letters: a reload, a
lock or a new check is always possible). The others say `CHECK_DEADLOCK FALSE`: once all
edits are used, a journal or year full, or everything paid, nothing need happen.

**Fairness.** PayQueue: timers fire and promise callbacks run (weak fairness of every step of a
queue and of `ApplyWrite`), the operator answers Shield's prompt and the network decides on
what it is given; no button need be pressed. For unattended use this is not claimed: the
operator may ignore a prompt forever. BooksProvider: a ready callback runs, and IndexedDB
answers a request with success or an error. Letters: the receiver checks again and again (weak
fairness of `ScanBegin`), and a check is not broken off every time (strong fairness of
fetching, keeping and skipping). Nothing is assumed of the sender: `SentIsRead` is about what
its books record as sent. Sales, Hiring, Shield, PayRun, TransferPlan, Statements, Hours and
Channels promise nothing that must happen, and state no fairness.

**Mutants.** Each property of a passing run is broken by a plausible bug, written beside
the definition it replaces ("Mutant:") and listed in PROJECT.json.

**Experiments.** Configurations in this directory that are not among the runs add one mishap
to a specification, or state what a comment claims; TLC finds each violated in a moment
(`tlc -config MCPayQueue_leave.cfg MCPayQueue`). Section 15 says what each shows. One
passes: MCPayQueue_all, of the theorems that hold under every mishap.

## 14 The proofs

All are proved for every value of the constants, from the named assumptions of the modules
only (sentinels are outside the sets they extend; Readable is part of Doc; System part of
Account; set-asides are finitely many; midnights come one after another on whole minutes; amounts
are positive; bounds are natural numbers). Eight modules hold them: one each for PayQueue, Letters,
Sales and Channels, CompanyProofs (BooksProvider, Hiring), AccountingProofs (Chart, Ledger,
Statements, Shield), PayrollProofs (Hours, PayRun, TransferPlan), and FiniteSums for the lemmas on
sums. Modules that share one do not depend on each other.

**PayQueue.** `BooksSound` is inductive under every mishap: beside the books it speaks of
every write still in the queue (a settled outcome on its way names an accepted transfer to its
own worker) and of what each queue polls (`WatchesOwnWorker`), because `SettledWasPaid` alone
says nothing of a write about to be applied; `AsksOnce` keeps `chain` from going back to
"asked". From it: `AlwaysTypeOK`, `AlwaysSettledWasPaid`, `AlwaysFinal`, which hold of queues
that are left, locked, reloaded or given up on as well (MCPayQueue_all.cfg checks them on two
queues). For attended runs `AttendedInv` adds that one queue is alive (`OneLiveQueue`), that
every transfer that may yet pay is the latest word of the books on its worker, or is being
waited for (`EveryTransferKnown`, `PollsWhatTheBooksSay`), that whoever asks Shield has no
rival (`NoRival`), and that a settled outcome is the last one in the queue
(`SettledComesLast`). `AttendedPaysOnce` follows: two accepted transfers would both have to be
the latest reference. `AttendedImplementsPayment` maps acceptance to Pay, the application of a
settled outcome to Record, and every other step to a stutter. `AttendedFailedWasNotPaid` needs
one thing more, `FailedIsOver`: while a failure waits to be written, no queue is at work on its
worker and no transfer to him may still be accepted. It holds because a failure is the last
word of its queue on a worker, and whatever may yet pay him would be named by the last word.

**BooksProvider.** `CalmInv` is about who may write a record. In calm use an account is
claimed by one tab at a time (`Apart`): by its session, by a login that read its record, or by
an update of it still being stored. So what a tab read is what is stored until it stores more
itself (`FoundIsStored`, `OpenIsStored`), an update stores the record with one edit added
(`RunningAdds`), and the session's own record has at least all of it, which makes backups
current. An edit still waiting is in no record, no backup and no other place of any queue
(`WaitingIsNew`): that is what a rejected one's answer rests on, `AnswersHold` alone says
nothing of it. One lemma per action, one step per part of the invariant; the three ways to open
books share one (`OpeningKeeps`), as do the two ways to start a login (`StartKeeps`).

**Chart, Ledger, Statements.** The journal only grows: `Additions` says what the one or two new
entries are, `OneMore` and `TwoMore` how a property of all entries extends to them. On these rest
`AlwaysJournalSound` (no lock without a close, reversals in pairs, edits whole) and
`AlwaysShutPeriodsKeep` (no step adds to a closed month or undoes an entry of a locked one);
`AlwaysTypeOK` is direct.

`ChartInv` adds to `ChartSound` that the chart is finite and parents are on it. An account is put
under one that is not below it, so what leads up from that one, with what led up to an account
before, climbs in the new chart and leaves the placed account out: a witness for every way that
could have become a cycle (`PlacedNoCycles`). `AlwaysOnlyBranchMovesBend` looks at a placed
account without others below it, which is on nobody's way but its own (`LeafPlaced`).
`AlwaysOnlyReversalsFillInactive`: only reversals join an inactive account (`JoinsActive`), and a
sum over a journal grown by entries elsewhere is the same (`BalanceKept`).

`BooksInv` adds that entries are on the chart and that system accounts keep their sections, so
that Retained Earnings is equity. `AlwaysStatementsTie` follows from it in every single state.
What leads up from an account is a line (`WayIsALine`), so every member of a section is in the
branch of exactly one row at the top (`OneTopRow`) and the tree adds up what its members do
(`TreeAddsUp`). Each entry adds nothing to the whole chart (`EntryBalances`), hence neither does
any period (`NetBalances`, by exchanging the sums over accounts and over entries), and years
split into what came before and the year itself (`NetAdds`). `AlwaysClosedStatementsStay`:
no entry joins a closed month, an account that changes its section or is new has nothing posted to
it (`SectionsChange`), so each section adds up to what it did (`SumsKept`).

**Letters.** `NoGap` is not inductive. `SenderInv` says that all slots below the
sender's counter, and below the slot of every send, are filled: a send starts at the
counter, steps over filled slots only, and the counter only passes the slot of a send that
is on chain. It needs that a send keeps its slot once Shield was asked, and that what is on
chain stays (`StepKeeps`, `SlotsGrow`). `ReceiverInv` says that no scan is ahead of the
receiver's counter and that fetched letters are on chain; with it `ReadInOrder` is
inductive. Both theorems hold of `Spec`, whatever the order of sends, for any number of
scans at once.

`OrderlyImplementsLog` is about orderly use, and its invariant `OrderlyInv` says why a slot
holds one document: all loose sends are of one document (`LooseAlike`); a letter on chain, or
that may get there, at or past the slot a busy send began with has that send's document
(`BusyAlike`); and two such letters of one slot have the same (`SlotAlike`).
The slots in use are then `0..Cardinality(Slots) - 1` (`SlotsInUse`), and what is
in the log stays as it is (`LogStays`). An acceptance is Write, or nothing when the slot had a
letter already (`AcceptanceIsWrite`); Record is Confirm (`RecordIsConfirm`); a letter taken up
is Read, or nothing when another check has read it before (`TakingUpIsRead`, for which what
was kept is below the receiver's counter, `KeptBelow`); every other step is a stutter.

**Hiring.** `HiringInv` adds to the types that links have workers, and that whatever an
import has read as final still is: `final` only grows, which is why ids read minutes ago are
safe to apply. From these `AlwaysLinksHaveWorkers` and `AlwaysJoinsOnlyAccepted`: the only
step that makes an offered member active is `ApplyFinals`, and it goes by the agreement.
`AlwaysDropsOnlyEnded` adds the life of the transactions (`TxInv`): a flow that has not
submitted has made nothing, an agreement exists only by its own transaction, and what an
accepted withdrawal closed is ended and stays so.

**PayRun.** `PayRunInv` says of every run that its paystubs are what the runs before it make of
them, and that its repeats among the runs its page saw were asked about. Runs are only appended
and `YearToDate` of a run counts those before it, drafts never change, and a settlement mark
changes neither: so both are kept by every step. Nothing about the sums themselves is needed for
that, only that they are taken over the same runs. `AlwaysYearCapped` needs more. `Typed` is the
type invariant, with the room for one run that an open page has left (`FormOK`); it rests on the
year's sums being amounts (`YearTyped`). If the runs of a year are in date order, the one just
posted counted all of them (`CountsTheYear`) and took no more than the room they leave
(`CappedMore`); if they are in order with a run, they were without it. This holds of any rates,
and of either half on its own (`EachYearCapped`).

**Sales.** `SalesInv` adds to the two results that numbers and places are fresh: no
entry and no estimate names a number that is still to be given. `FormsStay` is what steps
outside the forms leave alone; `AlwaysInStep` then has one lemma per kind of step (a form
posts, a form undoes its own entry, an entry no form owns is undone), and
`AlwaysConvertsOnce` one per operation on estimates and drafts.

`NeverOverpaid` counts payments up to a date. `HeldInv` is what is inductive: over all dates,
what stands is not paid beyond its total, a payment that stands pays each document once, and
only documents that stand, of the party who pays. So a document without payments can be
voided, a payment voided only lowers what is paid (`PaidLess`), and one received adds to each
document what it applies (`PaidMore`), no more than is left of it by `invoiceBalance`.

`JournalInv` says that each entry is what its document makes of it (`AsPosted`), and each
reversal the mirror image of one entry, the only one, and not dated before it. Both
reports follow in every single state. `AlwaysTaxReportTies` matches entries with the invoices
that post them. `AlwaysAgingTies` adds up the applications of all payments, once document by
document and once payment by payment (`SumSwap`), and the entries document by document
(`SumOfEntries`); an undone entry and its mirror image cancel once both count, which is why the
property speaks of dates by which everything undone is settled. `SalesTyped` has the types.

**Shield.** `ShieldInv` is about one sum: what the books have of the account, closed set-asides
included, is the opening, what was posted by hand and what was accepted, less what stands of the
pay runs (`BookAddsUp`). Set-asides do not appear in it, as a transfer takes from one side what it
gives to another. Each action changes one addend, and the rest of the invariant says that it is a
new one: what checks on their way have found came after the start, whenever they were started
(`FoundLater`); an item that can be answered moved something, and an accepted one whole cents
(`Answerable`); a paycheck without an entry names no payment (`Posted`). `NeverBelow` is why the
opening is an amount. `BooksMatchShield` then splits what moved since the start into what was
accepted, what paid a paycheck (each one's own payment, so the sum is one net pay for each entry
that stands), what was booked by hand, and what adds nothing (`SinceIsBooked`); in minor units
each movement is so many times a cent and the fraction it was cut off by (`MinorIsCents`).

**Hours.** `ClockInv` is that punches take turns, whatever was edited. From one edited set of
punches to the next only one shift differs, as a punch that moves stays between its neighbours:
hence `EditsTouchOneShift`. `WeeksShowWhatWasWorked` needs no more than `ClockInv`, but a way to
count. An entry of a week is the part of a shift that falls on one day, and the instants of
entries are disjoint, so that the time on the clock in a week (`OnTheClock`) adds up by entries
(`SumGroups`); an entry shows its length less at most what is cut off (`Minute - 1`).
`SentHoursArrive` holds of steady use only. `SentInv` says that letters of one slot that are
there, or may still come, have the same sheet, and that what is marked sent, or kept by the
business, is a letter that is there.

**TransferPlan.** A plan is folded over the payees by `MapThenFoldSet`, which recurs through
CHOOSE. A relation (`Plays`) says what a fold is, turn by turn; it exists and is unique for a
finite set (`PlaysExists`, `PlaysOnce`), so whatever one turn keeps, all of them keep
(`PlaysStay`). One lemma for each kind of turn follows. Of the state in between they say (`Good`)
that what a payee has holds at least their amount, that nothing pays two people or is split twice,
and that a record still free, or what is left of the one at hand, is nobody's; that a split takes
a listed record or what an earlier split left. `CarvedIs` has it of the whole plan, and
`NotRefused` the case in which one record is enough for all. `PlanOK` says this of the plan that
was made, which no step changes, and `QueueOK` is about the queue that plays it: whatever the
outputs of a split were taken for, they are two records that were not known before, so none that
is listed or belongs to another split (`Unknown`), with the amounts that were planned.
`NoRecordPaysTwice` follows: two references of a plan that differ are two records
(`ResolvedOnce`).

**Sums.** `SumFunction` recurs through CHOOSE, and the induction that library theorems offer
takes an operator the provers cannot be given. Instead the set of subsets for which
something fails has a least member (`LeastBad`), which leads to a contradiction. From that come
the existence of the recursion (`SumExists`), that any element may be taken first (`SumParts`),
and sums of differences, of parts, over groups and in either order. FiniteSums has them, for
the proofs about Ledger, Sales, PayRun, Shield, Hours and TransferPlan.

**Channels.** That nobody outside the channel has been given the key a post goes out
under is true only because a job of the members is never under way with a job that posts:
while it is, people have the key who are not on the list yet. The invariant says so: one job
at a time (`OneAtATime`); the list is closed, that is, names everybody who was ever given its
key, unless such a job is at work (`ListIsClosed`), and then the list it is about to write is
(`PeopleJob`); what a job has left to send is for that list (`JobsSound`). A new key is nobody's
because keys are numbered as they are made (`KeysNumbered`), and a letter is no key
(`LettersAreTexts`). Steps fall into three kinds, with a lemma each: a press (`PressKeeps`), a
step of a job (`WorkKeeps`), and all others, which give nobody a key they had not on the way
(`RestKeeps`). From it `OrderlyClosed`, for any number of members, presses and failures.

Three invariants follow, each on the one before. `KeyInv`: a key has one number and a number one
key, neither above the last given out, and pins and errands are in the boxes they belong to.
`PostInv`: posts are pinned one to a slot and without a gap, one that may still come late is the
only one and would come into the next slot, the books never mark more than the relay holds, a
receipt is there only if the post was kept, and what a reader has passed was kept. The books
learn of a post after it is pinned, and of a receipt after the post was kept: hence `OrderlySeen`,
and `OrderlyPostsReach`, as a post still to be read is at or past the reader's slot and stays there.

`ThreadInv` is about every member's thread, whatever was lost in it. The slots from the next one
they will read to the sender's next are filled (`Filled`), and neither the reader nor anything
that stands there, or may yet, is further beyond than `owed` (`Within`): a lost answer adds one, a
send that is heard of moves the sender on and takes one off. So when `owed` is 0, a key that is
stored goes to a slot nothing else is in or on its way to, in front of the reader (`KeyKnown`), and
stays there until it is read, since every later send of the thread is for a slot further on.
While a job is at work the same is said with what it has sent so far (`Top`, `PlaceOf`).
`OrderlyKeyReaches` follows, for every member the relay took the last send for, whatever
failed before it.

**Model-checked only.** Liveness (`QueueEnds`, `PaidIsRecorded`, `UpdatesEnd`, `SentIsRead`) is
out of reach of the prover: it has no rule for fairness. All the other properties of the passing
runs, invariants, action properties and the two refinements, are theorems.

## 15 Where code and comments part

The run **pay_reload** ends in a violation. The id of a transfer is written by a promise
nobody awaits (`PayPanel.tsx:218`). A tab closed between Shield's answer and that write leaves
a pending paycheck without reference, and Continue pays it anew. `PayPanel.tsx:8-11`: "closing
the tab loses nothing".

The experiments, each with a configuration of its own or, where only the invariant is
another, by putting it into that of a run:

- **MCPayQueue_leave** (`PaidOnce`). The panel's busy flag is its own state. Leaving the payroll
  page unmounts it while its queue goes on; the panel mounted next offers to pay the transfers
  that still wait for approval, and both can be approved.
- **MCPayQueue_explorer** (`FailedWasNotPaid`). `confirmTransaction` throws on an explorer error
  that is not a 404, and the queue marks the paycheck failed although the wallet reported it
  accepted. `queue.ts:160`: "settle on the id alone".
- **books_calm** with `LoggedOutForgets`. An update being stored at the log-out sets
  `companyRef` and the state at its end: the plaintext is back in a tab that is logged out.
  `BooksProvider.tsx:130`: "drops the key and plaintext from memory".
- **MCBooksProvider_tabs** (`AnswersHold`). The update queue belongs to one tab, and a save
  replaces the whole record; a second tab that resumed the same account drops what the first was
  told is stored.
- **MCBooksProvider_left** (`OwnBooksOnly`). A pay queue goes on after a log-out, and its writes go
  to whatever books its tab has open by then. Pay runs and people are numbered alike in every
  account (`payroll.ts:471`, `:225`), so the outcome may settle a paycheck of the other account.
- **MCLetters_crossing** (`RecordedArrived`). Another document sent before the books know of the
  last letter gets the same slot, is answered CONFLICT, and is recorded as sent. `deliver.ts:121`:
  "only this business can have filled it, with this same document".
- **hiring_offers** with `LinkedIsAccepted`. Import takes records of offers still pending like those
  of final agreements, and links their member at once (`toLink`, `RailPanel.tsx:144`). `rail.ts:34`
  has "linked" only for what both sides approved.
- **plan_splits** with `RefusedOnlyWhenStuck`. Payees of 2 and 2 with records of 1 and 4
  are refused, though 4 splits into both: with as many records as payees best fits come first, the
  first payee takes the 4 whole, and the 1 is left. The header of `plan.ts` (lines 20-21) has a plan
  fail only for want of balance or of a record large enough.
- **MCChannels_left** (`OnlyMembersRead`). A screen left while it changes the members goes on, and a
  second one takes somebody out and posts; the first one then writes its own list and key over it,
  and whoever was taken out has the key of the posts that follow.
- **MCChannels_crossing** (`KeyReaches`). Two jobs at work send two messages of one thread from the
  same slot on; the key is stored behind what its reader has passed, or behind a letter.
- **MCHours_weekly** (`SentIsWhatArrived`). A send that was given up on lands; the week is changed
  and sent again; the slot is taken, which counts as sent, and the file shows the new total while
  the business has the old one. `timesheet.ts:9-10`: "only this person can have filled it, with
  this same week".
- **hours_steady** with `SentAgainReplaces`. A week sent again goes to a slot of its own, and the
  business's mailbox replaces what has the same slot only (`mailbox.ts:196`), so it lists both.
  `SendTimesheet.tsx:67`: "sending again replaces it".
- **pay_year** with `NoRepeatUnasked`. The check looks at the books the page shows, and the run is
  posted by an update that waits behind others and does not look again. A page left before its
  update ran, and a second one filled in alike, pay the same person the same amount twice.
  `run/page.tsx:93`: "refuse an exact repeat of a payment on this date".
- **shield_books** with `TotalMatches`. A set-aside that was emptied and closed gets money back,
  or is left short, when an older entry on it is undone or voided; the total counts open ones
  only. `funds.ts:7-8`: "the total always matches it".
- **shield_books** with `RecordedNeverAsks`. A payment listed before its run's queue has written
  its id is listed as new, stays so when the id is there (`review.ts:137` marks new items on the
  way in only), and can be accepted on top of its entry. `review.ts:6-7`: "never ask anything".
- **channels_orderly** with `ResultSaysWhoGotIt`. A lost answer leaves `nextOut` behind. The
  member reads what was stored and the relay drops it; a later key goes to the same slot, now
  empty and behind the reader, is answered with success, and never read. `channels.ts:38-39`: "the
  result says who got it".
- **MCChannels_hurried** (`PostsReach`). A post that was given up on after thirty seconds
  (`pinata.ts:52`) is stored after all, beside the one that was sent instead of it; readers take one
  of the two and go on. `channels.ts:104-105`: "Reads every new post".

Met while modelling:

- `queue.ts:157`: a wallet that gives no answer until the cap passes makes the paycheck failed,
  and its reference is dropped; a retry pays again if the first transfer lands later
  (`PayPanel.tsx:8-11` says the id is kept). Attended runs leave it out.
- `BooksProvider.tsx:309`: the dialog closed while a key is derived does not stop the login: a
  choice is offered, with its keys, to a dialog that is gone (`:126` "Drop an offered choice (the
  dialog closed) and its keys"). CalmSpec leaves it out.
- An account logged out of while an update is being stored, and another one opened in the same
  tab before it ends, would leave the second with the books of the first. CalmSpec opens
  nothing while an update is stored.
- `accounts.ts:127` checks the depth above the moved account only: a branch moved with it may
  pass MAX_DEPTH.
- `books.ts:206`: a change of type leaves sub-accounts in the old section. This and the last
  one are why `OnlyBranchMovesBend` says "only".
- `books.ts:347`: a reversal takes the accounts of the original as they are, so it may put a
  balance on an account made inactive since (`books.ts:210` "made inactive, and only once they're
  empty"; `:12` "Every line hits an account that exists and is active"). Hence
  `OnlyReversalsFillInactive`.
- `letters.ts:24-26` says a taken slot is stepped over "instead of sending two letters under one
  lookup"; pages leave no SentLetter record, so a second one may be sent under the same
  lookup. The receiver then reads either, and skips the slot if that one cannot be read.
- Sales: aging as of a date before a document was undone leaves the document out, while the
  journal of that date has it. `AgingTies` is stated for the other dates (`Settled`). An estimate
  whose draft invoice is voided instead of deleted stays converted.
- Hiring: `dropOffer` goes by the member, not the agreement, and `addLink` replaces: a second
  offer sent from a reopened screen takes the first one's place, and a late withdrawal of the first
  then drops the second. `DropsOnlyEnded` names both. An offer that lands after its wait timed
  out, or whose tab was closed, can be accepted and is in nobody's books until an import; a
  withdrawal that landed unseen leaves its link offered. Reactivating a member while their offer
  is being revised leaves an active one that `joinsOnAccept` (`hiring.ts:5-7`).
- Shield: what moves between the reading of the balance and "Start my books" is in neither the
  opening nor the review (`opening.ts:8-9`), and so is a run posted before the start and paid
  after it. A payment marked recorded under an id a run gives up later can never be accepted.
  `Answered` asks for none of these. Receipts below a cent cannot be accepted (`review.ts:179`),
  and each movement loses its own fraction, so that many of them move the account by cents the
  books never have: `LeftOut` counts them, the code does not.
- PayRun: a run posted for an earlier date does not count the later ones, so the year may pass
  the annual maximum (`payroll.ts:306`: "never let either side pass the annual maximum");
  `YearCapped` is stated for runs in the order of their dates. After a change of rate or name
  posted paystubs can no longer be rebuilt (`deliver.ts:93`). A paycheck that failed, was run
  again and then retried is paid twice; the page did ask.
- Channels: a save that fails leaves `nextOut` behind, just as a lost answer does (above). A
  letter and a relay pin may get the same number; the reader takes the letter and drops the pin.
  The screen says to try again later, but saving the same members again sends nothing
  (`Channel.tsx:82`, `:88`). A member told they were taken out goes on reading what was posted
  under the keys they have. Receipts are kept for exactly the longest time the relay allows, so
  one sent by a clock a day ahead is refused.
- Relay: two deliveries to one slot may both find it free (`handlers.ts:101-102`) and both be
  pinned; no two senders share a slot as long as each is orderly.
- Hours: an agreement that has ended can be neither clocked out of nor sent hours for, the last
  week included (`work.ts:514`, `timesheet.ts:40`). An explorer that does not answer makes a final
  agreement active (`Offers.tsx:123-124`).
- TransferPlan: a split's outputs are told by their amounts (`queue.ts:224`), so other money of
  the same amount may be taken for one. `NothingSpentTwice` shows that this does no harm.

## 16 What is left out

- **Data.** Amounts in PayQueue, account numbers and descriptions, entries of more than two
  lines, the hash chain, customers and vendors on receivable and payable lines of Ledger, the
  contents of letters and offers, due dates and terms of documents, tags, attachments.
- **Taxes** other than Social Security: brackets, Medicare and W-4 arithmetic are functions of
  one paycheck, which unit tests reach. Taxes paid, quarters and year-end forms.
- **Sales**: adding and renaming customers and vendors, 1099 totals, the suggested split of a
  payment (`suggestApplications`), which only proposes what `receivePayment` checks; journal lines
  on receivables and payables that name a customer or vendor (`PostLoose` posts on sales tax and on
  neither of the two) and opening balances. What a customer
  owes is worked out from documents (`sales.ts:690`: "Matches their A/R"), so such a line would move
  the control account and not the reports; `AgingTies` is about books without them.
- **Hiring**: terms, files and keys, the worker's side, customers' and vendors' links.
- **Shield**: renaming a set-aside and choosing one for a bill; times of day, but for the order
  of movements; changes to the Shield account itself on the chart of accounts.
- **Hours**: several agreements, receipts for weeks, changes of time zone, the business's mark for
  what it has opened.
- **The relay for paystubs, weeks and offers.** Letters models them on chain, where they go now;
  their receipts are left out, those of posts are in Channels.
- **Sealing.** A pin carries its contents; that only holders of the key read it is how the model's
  readers look for posts. Sizes, headers, rate limits and which service answers are left out.
- **Channels**: names and texts; that receipts are looked for of the latest five posts only
  (`awaitingSeen`, `channels.ts:85`), where the model looks for those of all; members whose link has
  gone; more than one channel, since two share nothing but the threads.
- **The limit of 100 slots a check.** A check that reaches it ends like one broken off.
- **Statements**: the types within a section and their groups, comparison columns, ordering,
  empty rows, projects, classes and locations, export.
- **Attachments, legacy books, the 24-hour clock** (its end is a choice of `Reload` and
  `Lock`), and the ciphers: sealing is a pair of an account and its contents.
- **Paystub delivery inside a pay run.** `Finish` of a queue does not wait for it in the
  model; `Letters` has the delivery on its own.
- Components marked not modelled in section 1, with their reasons in PROJECT.json.
