------------------------------ MODULE Letters -------------------------------
(***************************************************************************)
(* Documents sent as letters on chain (chain/letters.ts): one stream from  *)
(* one sender to one receiver, each letter under a numbered slot that only *)
(* the two can name.  The same machinery carries paystubs (deliver.ts,     *)
(* inbox.ts), weeks of hours (timesheet.ts, mailbox_scan.ts) and messages  *)
(* (thread.ts); they differ where kind is tested.                          *)
(*                                                                         *)
(* A send is one press of the button, with at most one request to Shield;  *)
(* the sends are numbered as they are pressed.                             *)
(* A scan is one check of the receiver's letters.  Either may end with its *)
(* tab, or with an error, at any await.  Sealing, packing, the old mailbox *)
(* and its receipts, and the limit of 100 letters a scan are left out.     *)
(***************************************************************************)
EXTENDS Naturals, FiniteSets

CONSTANTS
  Doc,        \* what can be sent: paychecks, weeks, or messages typed
  Readable,   \* those the receiver can open and accept
  Presses,    \* how often Send is pressed at most
  Scan,       \* the checks that can be open at once
  MaxTaken,   \* how many taken slots a message steps over (MAX_TAKEN)
  Nothing

ASSUME ReadableAssumption == Readable \subseteq Doc
ASSUME PressesAssumption  == Presses \in Nat
ASSUME MaxTakenAssumption == MaxTaken \in Nat \ {0}

VARIABLES
  kind,     \* what the stream carries
  next,     \* the sender's books: the next unused slot
  record,   \* the sender's books: document -> the slot it went to, or Nothing
  send,     \* send -> its document, slots and stage
  shield,   \* send -> what has become of its request in Shield and on chain
  nextIn,   \* the receiver's books: the next slot to read
  kept,     \* the receiver's books: slots with the documents kept from them
  scan      \* scan -> the slot it is at and the letters it fetched, or Nothing

Send == 1..Presses

sender   == <<next, record>>
receiver == <<nextIn, kept, scan>>
vars == <<kind, next, record, send, shield, nextIn, kept, scan>>

-----------------------------------------------------------------------------
Kinds  == {"paystub", "timesheet", "thread"}
Stages == {"looking", "asking", "waiting", "sent", "over"}
Fates  == {"none", "asked", "taken", "accepted", "lost"}

Sends == [doc : Doc, from : Nat, slot : Nat, stage : Stages]
Scans == [at : Nat, loaded : BOOLEAN, box : SUBSET Send]

ASSUME NothingAssumption ==
  Nothing \notin Nat /\ Nothing \notin Sends /\ Nothing \notin Scans

TypeOK ==
  /\ kind \in Kinds
  /\ next \in Nat
  /\ record \in [Doc -> Nat \cup {Nothing}]
  /\ send \in [Send -> Sends \cup {Nothing}]
  /\ shield \in [Send -> Fates]
  /\ nextIn \in Nat
  /\ kept \in SUBSET (Nat \X Doc)
  /\ scan \in [Scan -> Scans \cup {Nothing}]

Init ==
  /\ kind \in Kinds
  /\ next = 0
  /\ record = [d \in Doc |-> Nothing]
  /\ send = [s \in Send |-> Nothing]
  /\ shield = [s \in Send |-> "none"]
  /\ nextIn = 0
  /\ kept = {}
  /\ scan = [c \in Scan |-> Nothing]

-----------------------------------------------------------------------------
(* The chain: the letters of accepted requests, each under its slot. *)
OnChain(s)    == shield[s] = "accepted"
LettersAt(n)  == {s \in Send : OnChain(s) /\ send[s].slot = n}
DocsAt(n)     == {send[s].doc : s \in LettersAt(n)}

Busy(s)       == send[s] # Nothing /\ send[s].stage # "over"
At(s, stage)  == send[s] # Nothing /\ send[s].stage = stage
Becomes(s, stage) == send' = [send EXCEPT ![s].stage = stage]
Fate(s, fate) == shield' = [shield EXCEPT ![s] = fate]

-----------------------------------------------------------------------------
(* Sending.  The send starts from the books as they are: the slot is the next unused. *)

\* Mutant: the slot is reserved when the send starts.
BeginReserving(s, d) ==
  /\ send[s] = Nothing
  /\ \A t \in Send : t < s => send[t] # Nothing
  /\ send' = [send EXCEPT ![s] =
       [doc |-> d, from |-> next, slot |-> next, stage |-> "looking"]]
  /\ next' = next + 1
  /\ UNCHANGED <<kind, record, shield, receiver>>

Begin(s, d) ==
  /\ send[s] = Nothing
  /\ \A t \in Send : t < s => send[t] # Nothing
  /\ send' = [send EXCEPT ![s] =
       [doc |-> d, from |-> next, slot |-> next, stage |-> "looking"]]
  /\ UNCHANGED <<kind, sender, shield, receiver>>

\* put reads the account's own sent letters first.  One of them has this slot: a
\* paystub or a week counts as sent ...
FindTaken(s) ==
  /\ kind # "thread"
  /\ At(s, "looking")
  /\ LettersAt(send[s].slot) # {}
  /\ Becomes(s, "sent")
  /\ UNCHANGED <<kind, sender, shield, receiver>>

\* ... while a message tries the slot after it, up to MaxTaken of them.
StepOver(s) ==
  /\ kind = "thread"
  /\ At(s, "looking")
  /\ LettersAt(send[s].slot) # {}
  /\ send[s].slot + 1 < send[s].from + MaxTaken
  /\ send' = [send EXCEPT ![s].slot = @ + 1]
  /\ UNCHANGED <<kind, sender, shield, receiver>>

NoFreeSlot(s) ==
  /\ kind = "thread"
  /\ At(s, "looking")
  /\ LettersAt(send[s].slot) # {}
  /\ send[s].slot + 1 = send[s].from + MaxTaken
  /\ Becomes(s, "over")
  /\ UNCHANGED <<kind, sender, shield, receiver>>

\* No sent letter with this slot is seen: there is none, or it went as a page, of which
\* the sender gets no record, or Shield has not caught up with the chain.
Ask(s) ==
  /\ At(s, "looking")
  /\ Becomes(s, "asking")
  /\ Fate(s, "asked")
  /\ UNCHANGED <<kind, sender, receiver>>

\* executeAndWait sees the request accepted, or rejected.
SeeAccepted(s) ==
  /\ At(s, "waiting")
  /\ shield[s] = "accepted"
  /\ Becomes(s, "sent")
  /\ UNCHANGED <<kind, sender, shield, receiver>>

SeeRejected(s) ==
  /\ At(s, "waiting")
  /\ shield[s] = "lost"
  /\ Becomes(s, "over")
  /\ UNCHANGED <<kind, sender, shield, receiver>>

\* The send ends and the books stay as they are: a read or a call to Shield throws, no
\* answer comes in time, the write to the vault fails, or the tab is closed.
GiveUp(s) ==
  /\ Busy(s)
  /\ Becomes(s, "over")
  /\ UNCHANGED <<kind, sender, shield, receiver>>

\* The record of the send and the next slot are written in one update.  A paystub sent
\* again never goes back to an earlier slot (markPaycheckDelivery throws: GiveUp).
Advance(n) == IF n < next THEN next ELSE n + 1
MayRecord(d, n) ==
  (kind = "paystub" /\ record[d] # Nothing) => n >= record[d]

Record(s) ==
  /\ At(s, "sent")
  /\ MayRecord(send[s].doc, send[s].slot)
  /\ record' = [record EXCEPT ![send[s].doc] = send[s].slot]
  /\ next' = Advance(send[s].slot)
  /\ Becomes(s, "over")
  /\ UNCHANGED <<kind, shield, receiver>>

-----------------------------------------------------------------------------
(* Shield and the network: a request is refused, or taken and then accepted or        *)
(* rejected, whether or not the page that made it still waits.                        *)
ShieldTakes(s) ==
  /\ shield[s] = "asked"
  /\ Fate(s, "taken")
  /\ IF At(s, "asking") THEN Becomes(s, "waiting") ELSE UNCHANGED send
  /\ UNCHANGED <<kind, sender, receiver>>

ShieldRefuses(s) ==
  /\ shield[s] = "asked"
  /\ Fate(s, "lost")
  /\ Becomes(s, "over")
  /\ UNCHANGED <<kind, sender, receiver>>

NetworkDecides(s) ==
  /\ shield[s] = "taken"
  /\ \E fate \in {"accepted", "lost"} : Fate(s, fate)
  /\ UNCHANGED <<kind, sender, send, receiver>>

-----------------------------------------------------------------------------
(* Receiving.  A scan starts at the slot its books are at, and fetches the account's  *)
(* letters once; of several with one lookup it takes the first in Shield's list.      *)
\* Mutant: the receiver's counter is taken for the last slot read.
ScanBeginAfter(c) ==
  /\ scan[c] = Nothing
  /\ scan' = [scan EXCEPT ![c] = [at |-> nextIn + 1, loaded |-> FALSE, box |-> {}]]
  /\ UNCHANGED <<kind, sender, send, shield, nextIn, kept>>

ScanBegin(c) ==
  /\ scan[c] = Nothing
  /\ scan' = [scan EXCEPT ![c] = [at |-> nextIn, loaded |-> FALSE, box |-> {}]]
  /\ UNCHANGED <<kind, sender, send, shield, nextIn, kept>>

FirstOfEach(box) ==
  /\ \A s \in box : OnChain(s)
  /\ \A n \in {send[s].slot : s \in {t \in Send : OnChain(t)}} :
       Cardinality(box \cap LettersAt(n)) = 1

ScanLoad(c) ==
  /\ scan[c] # Nothing
  /\ ~scan[c].loaded
  /\ \E box \in SUBSET Send :
       /\ FirstOfEach(box)
       /\ scan' = [scan EXCEPT ![c].loaded = TRUE, ![c].box = box]
  /\ UNCHANGED <<kind, sender, send, shield, nextIn, kept>>

Loaded(c)   == scan[c] # Nothing /\ scan[c].loaded
Found(c)    == {s \in scan[c].box : send[s].slot = scan[c].at}
PastIn(n)   == IF n < nextIn THEN nextIn ELSE n + 1
MovesOn(c)  == scan' = [scan EXCEPT ![c].at = @ + 1]

\* Mutant: one paystub only is kept.
WithKeptOnce(n, d) ==
  IF kept = {} THEN {<<n, d>>} ELSE kept

\* What the books keep once d came from slot n: a paystub stays the first (addPaystub), a
\* week is replaced (addHours), messages are told apart by their ids (addToThread).
WithKept(n, d) ==
  IF kind = "thread" \/ \A e \in kept : e[1] # n
  THEN kept \cup {<<n, d>>}
  ELSE IF kind = "paystub"
  THEN kept
  ELSE {e \in kept : e[1] # n} \cup {<<n, d>>}

\* The document and the counter are stored in one update, then the scan goes on.
ScanKeep(c) ==
  /\ Loaded(c)
  /\ \E s \in Found(c) :
       /\ send[s].doc \in Readable
       /\ kept' = WithKept(scan[c].at, send[s].doc)
  /\ nextIn' = PastIn(scan[c].at)
  /\ MovesOn(c)
  /\ UNCHANGED <<kind, sender, send, shield>>

\* Mutant: any error counts as a letter that cannot be read.
ScanSkipOnError(c) ==
  /\ Loaded(c)
  /\ Found(c) # {}
  /\ nextIn' = PastIn(scan[c].at)
  /\ MovesOn(c)
  /\ UNCHANGED <<kind, sender, send, shield, kept>>

ScanSkip(c) ==
  /\ Loaded(c)
  /\ \E s \in Found(c) : send[s].doc \notin Readable
  /\ nextIn' = PastIn(scan[c].at)
  /\ MovesOn(c)
  /\ UNCHANGED <<kind, sender, send, shield, kept>>

\* The end of the letters, ...
ScanEnd(c) ==
  /\ Loaded(c)
  /\ Found(c) = {}
  /\ scan' = [scan EXCEPT ![c] = Nothing]
  /\ UNCHANGED <<kind, sender, send, shield, nextIn, kept>>

\* ... or the wallet cannot be read, a write fails, or the tab is closed.
ScanStop(c) ==
  /\ scan[c] # Nothing
  /\ scan' = [scan EXCEPT ![c] = Nothing]
  /\ UNCHANGED <<kind, sender, send, shield, nextIn, kept>>

-----------------------------------------------------------------------------
SendStep(s) ==
  \/ FindTaken(s) \/ StepOver(s) \/ NoFreeSlot(s) \/ Ask(s)
  \/ SeeAccepted(s) \/ SeeRejected(s) \/ GiveUp(s) \/ Record(s)
  \/ ShieldTakes(s) \/ ShieldRefuses(s) \/ NetworkDecides(s)

ScanStep(c) ==
  \/ ScanBegin(c) \/ ScanLoad(c) \/ ScanKeep(c) \/ ScanSkip(c) \/ ScanEnd(c) \/ ScanStop(c)

Next ==
  \/ \E s \in Send, d \in Doc : Begin(s, d)
  \/ \E s \in Send : SendStep(s)
  \/ \E c \in Scan : ScanStep(c)

Spec == Init /\ [][Next]_vars

-----------------------------------------------------------------------------
(* Orderly use.  "No answer from Shield in time; check it before trying again"        *)
(* (execute.ts:78): as long as a letter is being sent, may still reach the chain, or  *)
(* reached it without the books knowing, only the same document is sent.              *)
Loose(s) ==
  /\ send[s] # Nothing
  /\ \/ Busy(s)
     \/ send[s].slot >= next /\ shield[s] \in {"asked", "taken", "accepted"}

OrderlyBegin(s, d) == Begin(s, d) /\ \A t \in Send : Loose(t) => send[t].doc = d

OrderlyNext ==
  \/ \E s \in Send, d \in Doc : OrderlyBegin(s, d)
  \/ \E s \in Send : SendStep(s)
  \/ \E c \in Scan : ScanStep(c)

\* The receiver looks again and again, and a check is not broken off every time.
Fairness ==
  \A c \in Scan :
    /\ WF_vars(ScanBegin(c)) /\ WF_vars(ScanEnd(c))
    /\ SF_vars(ScanLoad(c)) /\ SF_vars(ScanKeep(c)) /\ SF_vars(ScanSkip(c))

OrderlySpec == Init /\ [][OrderlyNext]_vars /\ Fairness

-----------------------------------------------------------------------------
\* The slots in use follow each other without a gap, whatever is lost, refused or sent
\* twice, so a reader that stops at the first empty slot has seen every letter.
NoGap == \A s \in Send : OnChain(s) =>
           \A m \in 0..send[s].slot : LettersAt(m) # {}

\* Nothing readable is passed over: below the receiver's next slot every slot has a
\* letter, and where none was kept one of its letters cannot be read (ScanSkip).
ReadInOrder ==
  /\ \A m \in 0..(nextIn - 1) :
       /\ LettersAt(m) # {}
       /\ (\E e \in kept : e[1] = m) \/ DocsAt(m) \ Readable # {}
  /\ \A e \in kept : e[2] \in DocsAt(e[1]) \cap Readable

\* What the sender's books show as sent is on chain, under the slot they name
\* (deliver.ts:121: "only this business can have filled it, with this same document").
RecordedArrived ==
  \A d \in Doc : record[d] # Nothing => d \in DocsAt(record[d])

\* In orderly use the slots are a log: one document each, appended at the end, confirmed
\* once there, read in order.
DocAt(n) == CHOOSE d \in Doc : d \in DocsAt(n)
Slots    == {send[s].slot : s \in {t \in Send : OnChain(t)}}

AsLog == INSTANCE SlotLog WITH
  log   <- [i \in 1..Cardinality(Slots) |-> DocAt(i - 1)],
  sent  <- record,
  read  <- nextIn,
  inbox <- kept

LogSpec == AsLog!Spec

\* What is recorded as sent, and can be read, is read in the end.
SentIsRead ==
  \A d \in Readable, n \in 0..Presses :
    (record[d] = n) ~> (<<n, d>> \in kept)
=============================================================================
