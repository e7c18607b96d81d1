---------------------------- MODULE PayQueueInv -----------------------------
(***************************************************************************)
(* The inductive invariants of PayQueue.  The runs check them on small     *)
(* instances, PayQueueProofs proves them for every Worker and Queue.       *)
(***************************************************************************)
EXTENDS PayQueue, Integers

\* What the outcome queue may carry: a failed paycheck has no reference, a settled
\* one names an accepted transfer to its own worker, a pending one a transfer of
\* that worker if any.
Sound(w, s) ==
  /\ s.ref \in (Queue \X {w}) \cup {NoTransfer}
  /\ s.status = "failed" => s.ref = NoTransfer
  /\ s.status = "settled" => s.ref # NoTransfer /\ chain[s.ref] = "accepted"

\* A queue polls a transfer of the worker it polls for, and confirms only what the
\* network has accepted.
WatchesOwnWorker ==
  \A q \in Queue, w \in Worker :
    /\ watch[<<q, w>>] \in (Queue \X {w}) \cup {NoTransfer}
    /\ stage[<<q, w>>] \in {"watching", "confirming"} => watch[<<q, w>>] # NoTransfer
    /\ stage[<<q, w>>] = "confirming" => chain[watch[<<q, w>>]] = "accepted"

\* A queue asks Shield for a worker's transfer once: until it does, there is none.
AsksOnce ==
  \A q \in Queue, w \in Worker :
    phase[q] = "unused" \/ stage[<<q, w>>] = "planned" => chain[<<q, w>>] = "none"

\* Inductive under every mishap: the books, and everything on its way into them,
\* are sound.
BooksSound ==
  /\ TypeOK
  /\ WatchesOwnWorker
  /\ AsksOnce
  /\ \A w \in Worker : /\ Sound(w, books[w])
                       /\ \A i \in DOMAIN writes[w] : Sound(w, writes[w][i])

-----------------------------------------------------------------------------
(* Attended runs.                                                          *)

\* Shield has the transfer, or has been asked for it: it may yet pay the worker.
MayPay(t) == chain[t] \in {"asked", "taken", "accepted"}

\* What the books will say of w once the updates in the queue are applied.
Latest(w) ==
  IF writes[w] = <<>> THEN books[w] ELSE writes[w][Len(writes[w])]

Unanswered(t) == stage[t] \notin {"none", "done"}

OneLiveQueue ==
  /\ \A q \in Queue : Live(q) => panel = q
  /\ \A t \in Transfer : Unanswered(t) => Live(t[1])
  /\ \A t \in Transfer : phase[t[1]] = "planning" => stage[t] # "approving"

\* Every transfer that may yet pay is in the books (or about to be), or is the one
\* a queue is waiting for Shield to answer on.
EveryTransferKnown ==
  \A q \in Queue, w \in Worker :
    MayPay(<<q, w>>) => stage[<<q, w>>] = "approving" \/ Latest(w).ref = <<q, w>>

\* A queue that asks Shield, or is about to, is alone in having done so.
NoRival ==
  \A q \in Queue, w \in Worker :
    /\ stage[<<q, w>>] = "planned" /\ watch[<<q, w>>] = NoTransfer
         => \A p \in Queue : ~MayPay(<<p, w>>)
    /\ stage[<<q, w>>] = "approving"
         => \A p \in Queue \ {q} : ~MayPay(<<p, w>>)

\* What a queue polls is what the books say was sent.
PollsWhatTheBooksSay ==
  \A q \in Queue, w \in Worker :
    /\ Unanswered(<<q, w>>)
    /\ stage[<<q, w>>] # "approving"
    /\ watch[<<q, w>>] # NoTransfer
    => Latest(w) = Sent(watch[<<q, w>>])

\* A settled outcome is the last word on its worker, and the reference it settles
\* went into the books before it.
SettledComesLast ==
  \A w \in Worker :
    /\ books[w].status = "settled" => writes[w] = <<>>
    /\ \A q \in Queue : Unanswered(<<q, w>>) => Latest(w).status # "settled"
    /\ \A i \in DOMAIN writes[w] :
         writes[w][i].status = "settled" =>
           /\ i = Len(writes[w])
           /\ i = 1 => books[w] = Sent(writes[w][i].ref)
           /\ i > 1 => writes[w][i-1] = Sent(writes[w][i].ref)

AttendedInv ==
  /\ BooksSound
  /\ OneLiveQueue
  /\ EveryTransferKnown
  /\ NoRival
  /\ PollsWhatTheBooksSay
  /\ SettledComesLast
=============================================================================
