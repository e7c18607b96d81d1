------------------------------ MODULE PayQueue ------------------------------
(***************************************************************************)
(* The settlement of one posted rail run: the pay panel (PayPanel.tsx),    *)
(* the queues it starts (packages/rail/src/queue.ts), the books they write *)
(* their outcomes to, and, as an environment, Shield and the network.      *)
(*                                                                         *)
(* A queue is one press of Pay now, Continue or Retry.  It asks Shield for *)
(* at most one transfer per worker, so <<q, w>> names that transfer; the   *)
(* same pair names queue q's own progress with worker w.  Which records a  *)
(* transfer spends is PlanTransfers' subject: here a plan either exists or *)
(* does not.  Worker is the set of people with something to be paid.       *)
(*                                                                         *)
(* updateCompany's promise queue is kept as one FIFO per worker: writes of *)
(* different workers touch different paychecks, so only the order of one   *)
(* worker's writes can be observed.                                        *)
(***************************************************************************)
EXTENDS Sequences

CONSTANTS
  Worker,      \* the payees of the run
  Queue,       \* the queues that can be started, one per press of the button
  NoQueue,     \* "no panel is busy"
  NoTransfer   \* "the paycheck carries no reference"

ASSUME NoQueueAssumption    == NoQueue \notin Queue
ASSUME NoTransferAssumption == NoTransfer \notin Queue \X Worker

VARIABLES
  books,      \* worker -> the settlement on the paycheck in the open books
  writes,     \* worker -> the settlements waiting in updateCompany's queue
  unlocked,   \* the books are open
  panel,      \* the queue the mounted panel is busy with, or NoQueue
  phase,      \* queue -> how far runPayQueue has come
  stage,      \* <<queue, worker>> -> how far that queue is with that worker
  watch,      \* <<queue, worker>> -> the transfer it polls
  chain       \* transfer -> what has become of it in Shield and on the network

vars == <<books, writes, unlocked, panel, phase, stage, watch, chain>>

-----------------------------------------------------------------------------
Transfer == Queue \X Worker

Settlement == [status : {"pending", "settled", "failed"},
               ref    : Transfer \cup {NoTransfer}]

Unsent    == [status |-> "pending", ref |-> NoTransfer]
Sent(t)   == [status |-> "pending", ref |-> t]
Settled(t) == [status |-> "settled", ref |-> t]
Failed    == [status |-> "failed", ref |-> NoTransfer]

Stages == {"none", "planned", "approving", "watching", "confirming", "done"}
Fates  == {"none", "asked", "refused", "taken", "rejected", "accepted"}

TypeOK ==
  /\ books \in [Worker -> Settlement]
  /\ writes \in [Worker -> Seq(Settlement)]
  /\ unlocked \in BOOLEAN
  /\ panel \in Queue \cup {NoQueue}
  /\ phase \in [Queue -> {"unused", "planning", "running", "over"}]
  /\ stage \in [Transfer -> Stages]
  /\ watch \in [Transfer -> Transfer \cup {NoTransfer}]
  /\ chain \in [Transfer -> Fates]

Init ==
  /\ books = [w \in Worker |-> Unsent]
  /\ writes = [w \in Worker |-> <<>>]
  /\ unlocked = TRUE
  /\ panel = NoQueue
  /\ phase = [q \in Queue |-> "unused"]
  /\ stage = [t \in Transfer |-> "none"]
  /\ watch = [t \in Transfer |-> NoTransfer]
  /\ chain = [t \in Transfer |-> "none"]

-----------------------------------------------------------------------------
(* The vault side: settleTo over markPaycheckSettlement, run by the tab's  *)
(* promise queue.                                                          *)

\* A settled paycheck is left alone; a failed one goes through pending to the
\* target; otherwise the target replaces the settlement, reference included.
SettleTo(current, target) ==
  IF current.status = "settled" THEN current ELSE target

Outstanding(w) == books[w].status # "settled"

\* onProgress: the outcome joins the updates waiting for the books.
Emit(w, s) == writes' = [writes EXCEPT ![w] = Append(@, s)]

ApplyWrite(w) ==
  /\ unlocked
  /\ writes[w] # <<>>
  /\ books' = [books EXCEPT ![w] = SettleTo(@, Head(writes[w]))]
  /\ writes' = [writes EXCEPT ![w] = Tail(@)]
  /\ UNCHANGED <<unlocked, panel, phase, stage, watch, chain>>

\* "Books are locked", or the store refused the save: the outcome is only shown.
WriteFails(w) ==
  /\ writes[w] # <<>>
  /\ writes' = [writes EXCEPT ![w] = Tail(@)]
  /\ UNCHANGED <<books, unlocked, panel, phase, stage, watch, chain>>

-----------------------------------------------------------------------------
(* One queue, from the press of the button to its last outcome.            *)

\* Mutant: the paycheck's reference is ignored, so its transfer is planned anew.
InFlightForgotten(w) == NoTransfer

\* A pending paycheck that carries a reference is in flight: polled, not planned.
InFlight(w) == IF books[w].status = "pending" THEN books[w].ref ELSE NoTransfer

\* start: the run is read through updateCompany, after every earlier write.
Start(q) ==
  /\ unlocked
  /\ panel = NoQueue
  /\ phase[q] = "unused"
  /\ \E w \in Worker : Outstanding(w)
  /\ \A w \in Worker : writes[w] = <<>>
  /\ panel' = q
  /\ phase' = [phase EXCEPT ![q] = "planning"]
  /\ stage' = [t \in Transfer |->
                 IF t[1] = q /\ Outstanding(t[2]) THEN "planned" ELSE stage[t]]
  /\ watch' = [t \in Transfer |->
                 IF t[1] = q /\ Outstanding(t[2]) THEN InFlight(t[2]) ELSE watch[t]]
  /\ UNCHANGED <<books, writes, unlocked, chain>>

\* No plan, no freeze-list proof, a missing link: runPayQueue throws before any send.
PlanFails(q) ==
  /\ phase[q] = "planning"
  /\ phase' = [phase EXCEPT ![q] = "over"]
  /\ stage' = [t \in Transfer |-> IF t[1] = q THEN "none" ELSE stage[t]]
  /\ panel' = IF panel = q THEN NoQueue ELSE panel
  /\ UNCHANGED <<books, writes, unlocked, watch, chain>>

\* Records fetched, plan and proof made, splits through.
PlanMade(q) ==
  /\ phase[q] = "planning"
  /\ phase' = [phase EXCEPT ![q] = "running"]
  /\ UNCHANGED <<books, writes, unlocked, panel, stage, watch, chain>>

AtStage(q, w, s) == phase[q] = "running" /\ stage[<<q, w>>] = s

Goto(q, w, s) == stage' = [stage EXCEPT ![<<q, w>>] = s]

\* resumeOne: the reference is emitted again and polled.
Resume(q, w) ==
  /\ AtStage(q, w, "planned")
  /\ watch[<<q, w>>] # NoTransfer
  /\ Goto(q, w, "watching")
  /\ Emit(w, Sent(watch[<<q, w>>]))
  /\ UNCHANGED <<books, unlocked, panel, phase, watch, chain>>

\* sendOne, its record lost with a broken split: failed without asking.
SendBroken(q, w) ==
  /\ AtStage(q, w, "planned")
  /\ watch[<<q, w>>] = NoTransfer
  /\ Goto(q, w, "done")
  /\ Emit(w, Failed)
  /\ UNCHANGED <<books, unlocked, panel, phase, watch, chain>>

\* sendOne: executeTransaction, and Shield shows its prompt.
AskWallet(q, w) ==
  /\ AtStage(q, w, "planned")
  /\ watch[<<q, w>>] = NoTransfer
  /\ Goto(q, w, "approving")
  /\ chain' = [chain EXCEPT ![<<q, w>>] = "asked"]
  /\ UNCHANGED <<books, writes, unlocked, panel, phase, watch>>

\* executeTransaction returned the wallet's id: emitted, then polled.
ReferenceReturned(q, w) ==
  /\ AtStage(q, w, "approving")
  /\ chain[<<q, w>>] \in {"taken", "rejected", "accepted"}
  /\ Goto(q, w, "watching")
  /\ watch' = [watch EXCEPT ![<<q, w>>] = <<q, w>>]
  /\ Emit(w, Sent(<<q, w>>))
  /\ UNCHANGED <<books, unlocked, panel, phase, chain>>

\* executeTransaction threw.
RefusalReturned(q, w) ==
  /\ AtStage(q, w, "approving")
  /\ chain[<<q, w>>] = "refused"
  /\ Goto(q, w, "done")
  /\ Emit(w, Failed)
  /\ UNCHANGED <<books, unlocked, panel, phase, watch, chain>>

\* Mutant: a transfer that has been broadcast counts as accepted.
SeeAcceptedOnBroadcast(q, w) ==
  /\ AtStage(q, w, "watching")
  /\ chain[watch[<<q, w>>]] \in {"taken", "accepted"}
  /\ Goto(q, w, "confirming")
  /\ UNCHANGED <<books, writes, unlocked, panel, phase, watch, chain>>

\* transactionStatus says accepted, finalized, confirmed or completed.
SeeAccepted(q, w) ==
  /\ AtStage(q, w, "watching")
  /\ chain[watch[<<q, w>>]] = "accepted"
  /\ Goto(q, w, "confirming")
  /\ UNCHANGED <<books, writes, unlocked, panel, phase, watch, chain>>

\* Mutant: "rejected" is not among the statuses that end the wait.
SeeRejectedUnknown(q, w) == AtStage(q, w, "watching") /\ FALSE

\* Mutant: any answer but an acceptance counts as a rejection.
SeeRejectedTooEarly(q, w) ==
  /\ AtStage(q, w, "watching")
  /\ chain[watch[<<q, w>>]] # "accepted"
  /\ Goto(q, w, "done")
  /\ Emit(w, Failed)
  /\ UNCHANGED <<books, unlocked, panel, phase, watch, chain>>

\* transactionStatus says rejected or failed.
SeeRejected(q, w) ==
  /\ AtStage(q, w, "watching")
  /\ chain[watch[<<q, w>>]] = "rejected"
  /\ Goto(q, w, "done")
  /\ Emit(w, Failed)
  /\ UNCHANGED <<books, unlocked, panel, phase, watch, chain>>

\* walletCapMs has passed without a final answer.
NoAnswerInTime(q, w) ==
  /\ AtStage(q, w, "watching")
  /\ Goto(q, w, "done")
  /\ Emit(w, Failed)
  /\ UNCHANGED <<books, unlocked, panel, phase, watch, chain>>

\* Accepted, but the wallet never said under which transaction id.
AcceptedWithoutId(q, w) ==
  /\ AtStage(q, w, "watching")
  /\ chain[watch[<<q, w>>]] = "accepted"
  /\ Goto(q, w, "done")
  /\ Emit(w, Failed)
  /\ UNCHANGED <<books, unlocked, panel, phase, watch, chain>>

\* Mutant: the outcome is shown but not written.
SettleUnwritten(q, w) ==
  /\ AtStage(q, w, "confirming")
  /\ Goto(q, w, "done")
  /\ UNCHANGED <<books, writes, unlocked, panel, phase, watch, chain>>

\* The explorer answered with the transaction, or confirmCapMs ran out.
Settle(q, w) ==
  /\ AtStage(q, w, "confirming")
  /\ Goto(q, w, "done")
  /\ Emit(w, Settled(watch[<<q, w>>]))
  /\ UNCHANGED <<books, unlocked, panel, phase, watch, chain>>

\* The explorer answered with anything but 200 or 404, or not at all.
ExplorerFails(q, w) ==
  /\ AtStage(q, w, "confirming")
  /\ Goto(q, w, "done")
  /\ Emit(w, Failed)
  /\ UNCHANGED <<books, unlocked, panel, phase, watch, chain>>

\* Everyone has an outcome and the settled ones are saved; the button is back.
\* Sending the paystubs in between is PaystubDelivery's subject.
Finish(q) ==
  /\ phase[q] = "running"
  /\ \A w \in Worker : /\ stage[<<q, w>>] \in {"none", "done"}
                       /\ \A i \in DOMAIN writes[w] :
                            writes[w][i] # Settled(watch[<<q, w>>])
  /\ phase' = [phase EXCEPT ![q] = "over"]
  /\ panel' = IF panel = q THEN NoQueue ELSE panel
  /\ UNCHANGED <<books, writes, unlocked, stage, watch, chain>>

-----------------------------------------------------------------------------
(* Shield and the network, as the queue depends on them.                   *)

Becomes(t, from, to) ==
  /\ chain[t] = from
  /\ chain' = [chain EXCEPT ![t] = to]
  /\ UNCHANGED <<books, writes, unlocked, panel, phase, stage, watch>>

WalletTakes(t)     == Becomes(t, "asked", "taken")
WalletRefuses(t)   == Becomes(t, "asked", "refused")
NetworkAccepts(t)  == Becomes(t, "taken", "accepted")
NetworkRejects(t)  == Becomes(t, "taken", "rejected")

-----------------------------------------------------------------------------
(* The tab.                                                                *)

Live(q) == phase[q] \in {"planning", "running"}

\* The tab is closed, reloaded or killed: queues and unsaved updates are gone.
Reload ==
  /\ writes' = [w \in Worker |-> <<>>]
  /\ unlocked' = FALSE
  /\ panel' = NoQueue
  /\ phase' = [q \in Queue |-> IF Live(q) THEN "over" ELSE phase[q]]
  /\ stage' = [t \in Transfer |-> IF Live(t[1]) THEN "none" ELSE stage[t]]
  /\ UNCHANGED <<books, watch, chain>>

\* Log out, or 15 minutes without a key press: the panel goes, its queue does not.
Lock ==
  /\ unlocked
  /\ unlocked' = FALSE
  /\ panel' = NoQueue
  /\ UNCHANGED <<books, writes, phase, stage, watch, chain>>

Unlock ==
  /\ ~unlocked
  /\ unlocked' = TRUE
  /\ UNCHANGED <<books, writes, panel, phase, stage, watch, chain>>

\* Another page of the app: the panel goes, its queue does not.
Leave ==
  /\ panel # NoQueue
  /\ panel' = NoQueue
  /\ UNCHANGED <<books, writes, unlocked, phase, stage, watch, chain>>

-----------------------------------------------------------------------------
(* Attended runs.  Three things are left out of them: leaving the panel    *)
(* (or logging out) under a running queue, giving up on a transfer Shield  *)
(* has taken, and losing an update.  A reload is left in as long as every  *)
(* transfer Shield was asked for has its id in the books.                  *)

QueueStep(q) ==
  \/ PlanMade(q) \/ Finish(q)
  \/ \E w \in Worker :
       \/ Resume(q, w) \/ AskWallet(q, w)
       \/ ReferenceReturned(q, w) \/ RefusalReturned(q, w)
       \/ SeeAccepted(q, w) \/ SeeRejected(q, w) \/ Settle(q, w)

Environment ==
  \E t \in Transfer : \/ WalletTakes(t) \/ WalletRefuses(t)
                      \/ NetworkAccepts(t) \/ NetworkRejects(t)

EveryIdIsWritten ==
  /\ \A t \in Transfer : stage[t] # "approving"
  /\ \A w \in Worker : \A i \in DOMAIN writes[w] : writes[w][i].status # "pending"

SafeReload == EveryIdIsWritten /\ Reload

SafeLock ==
  /\ \A q \in Queue : ~Live(q)
  /\ \A w \in Worker : writes[w] = <<>>
  /\ Lock

AttendedNext ==
  \/ \E q \in Queue : \/ Start(q) \/ PlanFails(q) \/ QueueStep(q)
                      \/ \E w \in Worker : SendBroken(q, w)
  \/ \E w \in Worker : ApplyWrite(w)
  \/ Environment
  \/ SafeReload \/ SafeLock \/ Unlock

AttendedSpec == Init /\ [][AttendedNext]_vars

\* The mishaps an attended run is spared.
Unattended == Reload \/ Lock \/ Leave

GivesUp ==
  \E q \in Queue, w \in Worker :
    \/ NoAnswerInTime(q, w) \/ AcceptedWithoutId(q, w) \/ ExplorerFails(q, w)

LosesUpdate == \E w \in Worker : WriteFails(w)

Next == AttendedNext \/ Unattended \/ GivesUp \/ LosesUpdate

Spec == Init /\ [][Next]_vars

\* Timers fire, promises run, the operator answers Shield's prompts and the
\* network decides on what it is given; nobody is obliged to press a button.
Fairness ==
  /\ \A q \in Queue :
       /\ WF_vars(PlanMade(q)) /\ WF_vars(Finish(q))
       /\ \A w \in Worker :
            /\ WF_vars(Resume(q, w)) /\ WF_vars(AskWallet(q, w))
            /\ WF_vars(ReferenceReturned(q, w)) /\ WF_vars(RefusalReturned(q, w))
            /\ WF_vars(SeeAccepted(q, w)) /\ WF_vars(SeeRejected(q, w))
            /\ WF_vars(Settle(q, w))
            /\ WF_vars(WalletTakes(<<q, w>>) \/ WalletRefuses(<<q, w>>))
            /\ WF_vars(NetworkAccepts(<<q, w>>) \/ NetworkRejects(<<q, w>>))
  /\ \A w \in Worker : WF_vars(ApplyWrite(w))

FairAttendedSpec == AttendedSpec /\ Fairness

-----------------------------------------------------------------------------
(* Properties.                                                             *)

\* Nobody is paid twice for one paycheck: of all the transfers the queues asked
\* Shield for on a worker's behalf, at most one was accepted by the network.
PaidOnce ==
  \A w \in Worker, p, q \in Queue :
    chain[<<p, w>>] = "accepted" /\ chain[<<q, w>>] = "accepted" => p = q

\* A paycheck the books show as settled was paid, by the transfer it names and to
\* that worker, whatever reloads, late writers and time-outs went before.
SettledWasPaid ==
  \A w \in Worker :
    books[w].status = "settled" =>
      /\ books[w].ref \in Queue \X {w}
      /\ chain[books[w].ref] = "accepted"

\* A settled paycheck never changes again, although a queue left behind in the
\* same tab may still write its own idea of the outcome.
SettledIsFinal ==
  [][\A w \in Worker : books[w].status = "settled" => books'[w] = books[w]]_vars

\* A paycheck is never marked failed once the network has accepted a transfer for
\* it (the Retry button would pay it again).
FailedWasNotPaid ==
  [][\A w \in Worker :
        books[w].status # "failed" /\ books'[w].status = "failed"
          => \A q \in Queue : chain[<<q, w>>] # "accepted"]_vars

\* Every queue that has begun comes to an end.
QueueEnds == \A q \in Queue : phase[q] = "running" ~> phase[q] = "over"

\* A payment the network accepts while its queue watches is entered in the books,
\* unless the tab is closed first.
PaidIsRecorded ==
  \A q \in Queue, w \in Worker :
    (stage[<<q, w>>] = "watching" /\ chain[watch[<<q, w>>]] = "accepted")
      ~> (books[w].status = "settled" \/ ~unlocked)

\* An attended run implements Payment: the queues that paid a worker, and the one
\* the settled paycheck names.
Payments == INSTANCE Payment WITH
  paidBy   <- [w \in Worker |-> {q \in Queue : chain[<<q, w>>] = "accepted"}],
  recorded <- [w \in Worker |-> {q \in Queue : books[w] = Settled(<<q, w>>)}]

PaymentSpec == Payments!Spec
=============================================================================
