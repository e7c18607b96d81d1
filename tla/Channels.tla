------------------------------ MODULE Channels ------------------------------
(***************************************************************************)
(* An announcement channel (books/channels.ts, chain/channels.ts, the      *)
(* screens Channel.tsx and work/MessagesCheck.tsx) over the mailbox relay. *)
(*                                                                         *)
(* The channel has a key, numbered by its epoch.  The business sends the   *)
(* key to each member in their own thread (chain/thread.ts), and seals     *)
(* each post once, with the key, into the next slot only it writes to.     *)
(* Taking somebody out moves the channel to a new key that those who stay  *)
(* are sent.  A member's check reads the thread, then the posts under      *)
(* every key it was given, and answers each post with a receipt.           *)
(*                                                                         *)
(* The thread also carries ordinary messages, which travel as letters on   *)
(* chain; the keys still go through the relay, under the same numbers.     *)
(*                                                                         *)
(* What a call was given up on for may be stored all the same, then or     *)
(* later (TIMEOUT_MS in pinata.ts): it is late until it comes, or is lost. *)
(*                                                                         *)
(* A job is one press of a button on a screen of the business: it reads    *)
(* the books when it starts and writes them when it ends.  Names, texts,   *)
(* sealing and the limit of 100 slots a check are left out; one channel    *)
(* stands for all, since nothing is shared between two of them but the     *)
(* threads.                                                                *)
(***************************************************************************)
EXTENDS Relay, FiniteSets

CONSTANTS
  Member,     \* the linked team members
  Job,        \* the screens that may be at work at once
  Presses,    \* how often a button is pressed at most
  MaxTaken,   \* how many taken slots a send steps over (MAX_TAKEN)
  Nothing

ASSUME PressesAssumption  == Presses \in Nat
ASSUME MaxTakenAssumption == MaxTaken \in Nat \ {0}

VARIABLES
  channel,    \* the business's books: the channel, or Nothing
  nextOut,    \* the business's books: the next slot of each thread
  job,        \* job -> what it has read, has sent and has left to do
  pressed,    \* how often a button has been pressed; numbers the keys made
  clock,      \* how many messages and posts have been written; numbers them
  letters,    \* the messages on chain, like pins
  late,       \* pins and letters that were given up on and may still come
  nextIn,     \* the members' books: the next slot of the thread
  got,        \* the members' books: messages of the thread
  nextPost,   \* the members' books: the next slot under each key, by epoch
  kept,       \* the members' books: posts
  outcome,    \* what the last send of the channel's key to each member came to (history)
  owed        \* how many slots each member may be ahead of nextOut (history)

business == <<channel, nextOut>>
members  == <<nextIn, got, nextPost, kept>>
history  == <<outcome, owed>>
vars == <<pins, today, channel, nextOut, job, pressed, clock, letters, late,
          nextIn, got, nextPost, kept, outcome, owed>>

Epoch == 0..Presses
Key   == 1..Presses

Larger(a, b) == IF a >= b THEN a ELSE b

-----------------------------------------------------------------------------
(* What travels.                                                           *)

ThreadOf(m)      == <<"thread", m>>     \* kind thread_b, under the pair's key
PostsUnder(k)    == <<"posts", k>>      \* postKind, under the channel's key
SeenBy(m, epoch) == <<"seen", m, epoch>> \* postReceiptKind, under the pair's key

\* at says when it was written, and so which one it is.
Body(type, epoch, key) == [type |-> type, epoch |-> epoch, key |-> key, at |-> 0]

\* One send of a job: where to, what, from which slot on, and in which turn.
Errand(box, body, from, turn, by) ==
  [box |-> box, body |-> body, from |-> from, turn |-> turn, by |-> by]

KeyTo(m, c, outs, turn) ==
  Errand(ThreadOf(m), Body("key", c.epoch, c.key), outs[m], turn, "mailbox")

LeftTo(m, c, outs) ==
  Errand(ThreadOf(m), Body("left", c.epoch, c.key), outs[m], 1, "mailbox")

-----------------------------------------------------------------------------
(* What the variables range over.                                          *)

Boxes == ({"thread"} \X Member) \cup ({"posts"} \X Nat) \cup ({"seen"} \X Member \X Nat)

Slots  == [box : Boxes, seq : Nat]
Bodies == [type : {"key", "left", "text", "post", "seen"}, epoch : Nat, key : Nat, at : Nat]
Stored == [slot : Slots, body : Bodies, until : Nat \cup {Undated}]

Errands == [box : Boxes, body : Bodies, from : Nat, turn : 1..3, by : {"mailbox", "chain"}]

Posts    == [at : Nat, epoch : Nat, seq : Nat, seen : SUBSET Member]
Channels == [members : SUBSET Member, epoch : Nat, key : Nat, nextOut : Nat,
             posts : SUBSET Posts]

Jobs == [kind : {"people", "post", "text"}, channel : Channels \cup {Nothing},
         todo : SUBSET Errands, now : Errands \cup {Nothing}, seq : Nat, free : BOOLEAN,
         sent : SUBSET [errand : Errands, seq : Nat]]

ASSUME NothingAssumption == Nothing \notin Jobs /\ Nothing \notin Errands /\ Nothing \notin Channels

TypeOK ==
  /\ pins \subseteq Stored /\ letters \subseteq Stored /\ late \subseteq Stored
  /\ today \in Nat /\ pressed \in Nat /\ clock \in Nat
  /\ channel \in Channels \cup {Nothing}
  /\ nextOut \in [Member -> Nat]
  /\ job \in [Job -> Jobs \cup {Nothing}]
  /\ nextIn \in [Member -> Nat]
  /\ got \in [Member -> SUBSET Bodies]
  /\ nextPost \in [Member -> [Epoch -> Nat]]
  /\ kept \in [Member -> SUBSET [at : Nat, epoch : Nat, seq : Nat]]
  /\ outcome \in [Member -> {"failed", "doubtful", "sent"}]
  /\ owed \in [Member -> Nat]

-----------------------------------------------------------------------------
(* The channel, as the books have it.                                      *)

NewChannel(who, key) == [members |-> who, epoch |-> 0, key |-> key, nextOut |-> 0, posts |-> {}]

\* Mutant: those who leave are taken off the list, and the key stays.
RemoveKeepingKey(c, gone, key) == [c EXCEPT !.members = @ \ gone]

\* removeMembers.
RemoveMembers(c, gone, key) ==
  IF c.members \cap gone = {} THEN c
  ELSE [members |-> c.members \ gone, epoch |-> c.epoch + 1, key |-> key, nextOut |-> 0,
        posts |-> c.posts]

AddMembers(c, added) == [c EXCEPT !.members = @ \cup added]

\* addOwnPost.
AddOwnPost(c, at, epoch, seq) ==
  [c EXCEPT !.posts = @ \cup {[at |-> at, epoch |-> epoch, seq |-> seq, seen |-> {}]},
            !.nextOut = IF epoch = c.epoch THEN Larger(@, seq + 1) ELSE @]

\* The post markSeen finds: the first one in the slot.
PostAt(c, epoch, seq) ==
  CHOOSE p \in c.posts :
    /\ p.epoch = epoch /\ p.seq = seq
    /\ \A q \in c.posts : q.epoch = epoch /\ q.seq = seq => p.at <= q.at

-----------------------------------------------------------------------------
(* The business's jobs.                                                    *)

Idle(j) == job[j] = Nothing

\* snapshot is the channel the job is about, as the job will leave it.
Press(j, kind, snapshot, todo) ==
  /\ Idle(j)
  /\ pressed < Presses
  /\ pressed' = pressed + 1
  /\ job' = [job EXCEPT ![j] = [kind |-> kind, channel |-> snapshot, todo |-> todo,
                                 now |-> Nothing, seq |-> 0, free |-> FALSE, sent |-> {}]]
  /\ UNCHANGED <<pins, today, business, clock, letters, late, members, history>>

\* create.  A second one would be a channel of its own.
Create(j, who) ==
  LET c == NewChannel(who, pressed + 1)
  IN  /\ channel = Nothing
      /\ \A i \in Job : ~Idle(i) => job[i].kind = "text"
      /\ who # {}
      /\ Press(j, "people", c, {KeyTo(m, c, nextOut, 1) : m \in who})

\* saveMembers: those who leave are told first, then those who stay get the new key,
\* then those who are new to the channel get it.
SaveMembers(j, want) ==
  /\ channel # Nothing
  /\ LET gone  == channel.members \ want
         added == want \ channel.members
         less  == RemoveMembers(channel, gone, pressed + 1)
         more  == AddMembers(less, added)
     IN  Press(j, "people", more,
           (IF gone = {} THEN {}
            ELSE {LeftTo(m, less, nextOut) : m \in gone}
                 \cup {KeyTo(m, less, nextOut, 2) : m \in less.members})
           \cup {KeyTo(m, more, nextOut, 3) : m \in added})

\* post.
Post(j) ==
  /\ channel # Nothing
  /\ channel.members # {}
  /\ Press(j, "post", channel,
       {Errand(PostsUnder(channel.key), Body("post", channel.epoch, channel.key),
               channel.nextOut, 1, "mailbox")})

\* An ordinary message to one member: send in Conversation.tsx.
Write(j, m) ==
  Press(j, "text", Nothing,
    {Errand(ThreadOf(m), Body("text", 0, 0), nextOut[m], 1, "chain")})

AtWork(j) == ~Idle(j) /\ job[j].now # Nothing

\* The job takes up its next send.
Begin(j, e) ==
  /\ ~Idle(j)
  /\ job[j].now = Nothing
  /\ e \in job[j].todo
  /\ \A f \in job[j].todo : e.turn <= f.turn
  /\ clock' = clock + 1
  /\ job' = [job EXCEPT ![j].todo = @ \ {e},
                        ![j].now  = [e EXCEPT !.body.at = clock + 1],
                        ![j].seq  = e.from,
                        ![j].free = FALSE]
  /\ UNCHANGED <<pins, today, business, pressed, letters, late, members, history>>

LettersAt(slot) == {x \in letters : x.slot = slot}

\* A letter box knows the letters sent, the relay its pins.
IsTaken(e, seq) ==
  IF e.by = "chain" THEN LettersAt(Slot(e.box, seq)) # {} ELSE Taken(Slot(e.box, seq))

\* The slot is looked at: taken, and the next one is tried, or free.
Look(j) ==
  /\ AtWork(j)
  /\ ~job[j].free
  /\ LET e == job[j].now
         n == job[j].seq
     IN  IF IsTaken(e, n)
         THEN n + 1 < e.from + MaxTaken /\ job' = [job EXCEPT ![j].seq = n + 1]
         ELSE job' = [job EXCEPT ![j].free = TRUE]
  /\ UNCHANGED <<pins, today, business, pressed, clock, letters, late, members, history>>

\* A send that fails, or seems to: sendChannelKey goes on with the next one and the
\* screen names whoever was not reached, a post or a message ends with an error.
GiveUp(j) ==
  /\ outcome' = [m \in Member |->
                   IF job[j].now.body.type = "key" /\ job[j].now.box = ThreadOf(m)
                   THEN "failed" ELSE outcome[m]]
  /\ job' = [job EXCEPT ![j] = IF @.kind = "people" THEN [@ EXCEPT !.now = Nothing]
                               ELSE Nothing]

\* The call fails before anything is stored, or no slot is left to try.
Fail(j) ==
  /\ AtWork(j)
  /\ GiveUp(j)
  /\ UNCHANGED <<pins, today, business, pressed, clock, letters, late, members, owed>>

\* It goes on chain, or to the relay.
Store(e, seq) ==
  IF e.by = "chain"
  THEN /\ letters' = letters \cup {Pinned(Slot(e.box, seq), e.body, Undated)}
       /\ UNCHANGED pins
  ELSE /\ Deliver(Slot(e.box, seq), e.body, Undated)
       /\ UNCHANGED letters

\* It is stored, and the answer says so.
Sent(j) ==
  /\ AtWork(j)
  /\ job[j].free
  /\ Store(job[j].now, job[j].seq)
  /\ job' = [job EXCEPT ![j].now  = Nothing,
                        ![j].sent = @ \cup {[errand |-> job[j].now, seq |-> job[j].seq]}]
  /\ outcome' = [m \in Member |->
                   IF job[j].now.body.type = "key" /\ job[j].now.box = ThreadOf(m)
                   THEN IF owed[m] = 0 THEN "sent" ELSE "doubtful"
                   ELSE outcome[m]]
  /\ owed' = [m \in Member |->
                IF job[j].now.box = ThreadOf(m) /\ owed[m] > 0 THEN owed[m] - 1 ELSE owed[m]]
  /\ UNCHANGED <<today, business, pressed, clock, late, members>>

\* The answer is lost, or does not come in time: it may still be stored.
Unheard(j) ==
  /\ AtWork(j)
  /\ job[j].free
  /\ late' = late \cup {Pinned(Slot(job[j].now.box, job[j].seq), job[j].now.body, Undated)}
  /\ GiveUp(j)
  /\ owed' = [m \in Member |-> IF job[j].now.box = ThreadOf(m) THEN owed[m] + 1 ELSE owed[m]]
  /\ UNCHANGED <<pins, today, business, pressed, clock, letters, members>>

\* Then it is, beside whatever the slot holds by now, or it is lost after all.
Land(x) ==
  /\ late' = late \ {x}
  /\ \/ UNCHANGED <<pins, letters>>
     \/ x.body.type = "text" /\ letters' = letters \cup {x} /\ UNCHANGED pins
     \/ x.body.type # "text" /\ pins' = pins \cup {x} /\ UNCHANGED letters
  /\ UNCHANGED <<today, business, job, pressed, clock, members, history>>

\* Mutant: the threads are not moved past what went out.
OutsUnmoved(sent) == nextOut

\* keepSent, and addToThread for an ordinary message.  A job has one message for a member
\* at most.
Outs(sent) ==
  [m \in Member |->
     LET mine == {s \in sent : s.errand.box = ThreadOf(m)}
     IN  IF mine = {} THEN nextOut[m]
         ELSE Larger(nextOut[m], (CHOOSE s \in mine : TRUE).seq + 1)]

\* Mutant: a post is kept under the slot its send began with.
SavedAtStart(j) ==
  CASE job[j].kind = "people" -> job[j].channel
    [] job[j].kind = "post"   ->
         LET s == CHOOSE t \in job[j].sent : TRUE
             c == IF channel = Nothing THEN job[j].channel ELSE channel
         IN  AddOwnPost(c, s.errand.body.at, s.errand.body.epoch, s.errand.from)
    [] OTHER -> channel

\* What the job writes: the members as it left them, over whatever is there; a post
\* added to what is there.
Saved(j) ==
  CASE job[j].kind = "people" -> job[j].channel
    [] job[j].kind = "post"   ->
         LET s == CHOOSE t \in job[j].sent : TRUE
             c == IF channel = Nothing THEN job[j].channel ELSE channel
         IN  AddOwnPost(c, s.errand.body.at, s.errand.body.epoch, s.seq)
    [] OTHER -> channel

\* The update that ends a job.
Save(j) ==
  /\ ~Idle(j)
  /\ job[j].now = Nothing
  /\ job[j].todo = {}
  /\ channel' = Saved(j)
  /\ nextOut' = Outs(job[j].sent)
  /\ job' = [job EXCEPT ![j] = Nothing]
  /\ UNCHANGED <<pins, today, pressed, clock, letters, late, members, history>>

\* The tab is closed, or the books are locked: nothing is written.
Close(j) ==
  /\ ~Idle(j)
  /\ job' = [job EXCEPT ![j] = Nothing]
  /\ UNCHANGED <<pins, today, business, pressed, clock, letters, late, members, history>>

ReceiptSlot(m, epoch, seq) == Slot(SeenBy(m, epoch), seq)

\* awaitingSeen, and the receipts that are there.
Heard ==
  {w \in [m : channel.members, epoch : Epoch, seq : 0..clock] :
     /\ \E p \in channel.posts : p.epoch = w.epoch /\ p.seq = w.seq /\ w.m \notin p.seen
     /\ Taken(ReceiptSlot(w.m, w.epoch, w.seq))}

ReceiptsOf(heard) == {p \in pins : \E w \in heard : p.slot = ReceiptSlot(w.m, w.epoch, w.seq)}

\* checkSeen: marks what a check heard, before it broke off if it did; then the receipts
\* are dropped, or some are not.
CheckSeen(heard) ==
  /\ heard # {}
  /\ channel' = [channel EXCEPT !.posts =
       {[p EXCEPT !.seen = @ \cup {w.m : w \in {v \in heard :
                                      p = PostAt(channel, v.epoch, v.seq)}}] : p \in @}]
  /\ \E dropped \in SUBSET ReceiptsOf(heard) : pins' = pins \ dropped
  /\ UNCHANGED <<today, nextOut, job, pressed, clock, letters, late, members, history>>

-----------------------------------------------------------------------------
(* The members' checks.                                                    *)

KeyMessages(m, epoch) == {b \in got[m] : b.type = "key" /\ b.epoch = epoch}

Opens(m, epoch) == KeyMessages(m, epoch) # {}

\* applyChannelMessage over the thread, in the order its messages were written: the last
\* key of a number counts.
KeyOf(m, epoch) ==
  (CHOOSE b \in KeyMessages(m, epoch) : \A c \in KeyMessages(m, epoch) : c.at <= b.at).key

\* lettersThenMailbox; without Shield, the mailbox alone.
Found(slot, shield) == IF shield /\ LettersAt(slot) # {} THEN LettersAt(slot) ELSE PinsAt(slot)

\* readThread: one message is kept, then its pin is dropped, if the call succeeds.
ReadThread(m, shield, dropping) ==
  LET slot == Slot(ThreadOf(m), nextIn[m])
  IN  /\ \E x \in Found(slot, shield) : got' = [got EXCEPT ![m] = @ \cup {x.body}]
      /\ nextIn' = [nextIn EXCEPT ![m] = @ + 1]
      /\ IF dropping THEN Drop(slot) ELSE UNCHANGED pins
      /\ UNCHANGED <<today, business, job, pressed, clock, letters, late, nextPost, kept, history>>

\* sendReceipt: once for a slot, a courtesy that may fail, or come late.
Receipt(m, epoch, seq) ==
  LET slot == ReceiptSlot(m, epoch, seq)
  IN  \/ UNCHANGED late
      \/ ~Taken(slot) /\ late' = late \cup {Pinned(slot, Body("seen", epoch, 0), today + KeepDays)}

\* Mutant: a post is dropped once it is kept, as a message is.
ReadPostDropping(m, epoch) ==
  /\ Opens(m, epoch)
  /\ LET slot == Slot(PostsUnder(KeyOf(m, epoch)), nextPost[m][epoch])
     IN  \E x \in PinsAt(slot) :
           /\ kept' = [kept EXCEPT ![m] = @ \cup {[at |-> x.body.at, epoch |-> epoch,
                                                  seq |-> slot.seq]}]
           /\ pins' = pins \ {x}
  /\ nextPost' = [nextPost EXCEPT ![m][epoch] = @ + 1]
  /\ UNCHANGED <<today, business, job, pressed, clock, letters, late, nextIn, got, history>>

\* readChannel: one post is kept, its pin stays, a receipt goes out.
ReadPost(m, epoch) ==
  /\ Opens(m, epoch)
  /\ LET seq == nextPost[m][epoch]
     IN  /\ \E x \in PinsAt(Slot(PostsUnder(KeyOf(m, epoch)), seq)) :
              kept' = [kept EXCEPT ![m] = @ \cup {[at |-> x.body.at, epoch |-> epoch, seq |-> seq]}]
         /\ Receipt(m, epoch, seq)
  /\ nextPost' = [nextPost EXCEPT ![m][epoch] = @ + 1]
  /\ UNCHANGED <<pins, today, business, job, pressed, clock, letters, nextIn, got, history>>

-----------------------------------------------------------------------------
Init ==
  /\ RelayInit
  /\ channel = Nothing
  /\ nextOut = [m \in Member |-> 0]
  /\ job = [j \in Job |-> Nothing]
  /\ pressed = 0
  /\ clock = 0
  /\ letters = {}
  /\ late = {}
  /\ nextIn = [m \in Member |-> 0]
  /\ got = [m \in Member |-> {}]
  /\ nextPost = [m \in Member |-> [e \in Epoch |-> 0]]
  /\ kept = [m \in Member |-> {}]
  /\ outcome = [m \in Member |-> "failed"]
  /\ owed = [m \in Member |-> 0]

Change(j) == \E who \in SUBSET Member : Create(j, who) \/ SaveMembers(j, who)

Start(j) == Change(j) \/ Post(j) \/ \E m \in Member : Write(j, m)

Work(j) == (\E e \in job[j].todo : Begin(j, e)) \/ Look(j) \/ Fail(j) \/ Sent(j) \/ Unheard(j) \/ Save(j)

Seeing == channel # Nothing /\ \E heard \in SUBSET Heard : CheckSeen(heard)

Reading(m) ==
  \/ \E shield, dropping \in BOOLEAN : ReadThread(m, shield, dropping)
  \/ \E epoch \in Epoch : ReadPost(m, epoch)

RelayWorks ==
  \/ (Sweep \/ NextDay)
     /\ UNCHANGED <<business, job, pressed, clock, letters, late, members, history>>
  \/ \E x \in late : Land(x)

Next ==
  \/ \E j \in Job : Start(j) \/ (~Idle(j) /\ Work(j)) \/ Close(j)
  \/ Seeing
  \/ \E m \in Member : Reading(m)
  \/ RelayWorks

Spec == Init /\ [][Next]_vars

\* Hurried use: nobody leaves a screen at work, so one thing is done at a time, to its
\* end.  Calls may still fail, with or without effect.
AllIdle == \A j \in Job : Idle(j)

HurriedNext ==
  \/ \E j \in Job : (AllIdle /\ Start(j)) \/ (~Idle(j) /\ Work(j))
  \/ AllIdle /\ Seeing
  \/ \E m \in Member : Reading(m)
  \/ RelayWorks

HurriedSpec == Init /\ [][HurriedNext]_vars

\* Orderly use: what is more, a post that ended in an error is given the time to come
\* before the next one is made.
NoPostLate == \A x \in late : x.body.type # "post"

OrderlyStart(j) ==
  AllIdle /\ (Change(j) \/ (NoPostLate /\ Post(j)) \/ \E m \in Member : Write(j, m))

OrderlyNext ==
  \/ \E j \in Job : OrderlyStart(j) \/ (~Idle(j) /\ Work(j))
  \/ AllIdle /\ Seeing
  \/ \E m \in Member : Reading(m)
  \/ RelayWorks

OrderlySpec == Init /\ [][OrderlyNext]_vars

-----------------------------------------------------------------------------
(* Properties.                                                             *)

\* What is pinned, or still may be.
AllPins == pins \cup late

\* The keys somebody has, or has on the way.
Given(m) == {b.key : b \in {x \in got[m] : x.type = "key"}}
            \cup {p.body.key : p \in {x \in AllPins : x.slot.box = ThreadOf(m) /\ x.body.type = "key"}}

\* Whoever is not in the channel when a post goes out has never been given its key: what
\* somebody was taken out of, in whatever order people came and went, stays closed to them
\* (Channel.tsx: "Taking someone out gives the channel a new key, so they can't read
\* what's posted after").
OnlyMembersRead ==
  [][\A p \in AllPins' \ AllPins : p.body.type = "post" =>
       \A m \in Member : p.body.key \in Given(m) => m \in channel.members]_vars

HasKey(m) == Opens(m, channel.epoch) /\ KeyOf(m, channel.epoch) = channel.key

\* A check of the thread comes to the pin, slot by slot.
Reaches(m, p) ==
  /\ p.slot.box = ThreadOf(m)
  /\ p.slot.seq >= nextIn[m]
  /\ LettersAt(p.slot) = {}
  /\ \A n \in nextIn[m]..p.slot.seq :
       Taken(Slot(ThreadOf(m), n)) \/ LettersAt(Slot(ThreadOf(m), n)) # {}

\* A check will come to the channel's key.
WillHaveKey(m) ==
  \/ HasKey(m)
  \/ \E p \in pins : /\ p.body.type = "key"
                     /\ p.body.epoch = channel.epoch
                     /\ p.body.key = channel.key
                     /\ Reaches(m, p)

\* Every member has the channel's key or will come to it, if the relay took the last send
\* of it to them and their thread had made up for every answer lost before: then the slot
\* is one nothing else was or will be put in, in front of the reader, without a gap.
KeyReaches ==
  AllIdle /\ channel # Nothing =>
    \A m \in channel.members : outcome[m] = "sent" => WillHaveKey(m)

\* What the code says of it: whoever is not named as not reached got the key
\* (sendChannelKey: "One failure doesn't stop the rest; the result says who got it").  It
\* does not hold: after a lost answer the next send may fall behind the reader.
ResultSaysWhoGotIt ==
  AllIdle /\ channel # Nothing =>
    \A m \in channel.members : outcome[m] # "failed" => WillHaveKey(m)

HasPost(m, at) == \E q \in kept[m] : q.at = at

\* Nobody who can open a post has passed it by, and no empty slot is in front of it,
\* whatever failed in between (readChannel: "Reads every new post of one channel, under each
\* key it was given, from the next unread slot to the first empty one").
PostsReach ==
  \A m \in Member, epoch \in Epoch : Opens(m, epoch) =>
    \A p \in pins : p.slot.box = PostsUnder(KeyOf(m, epoch)) =>
      \/ HasPost(m, p.body.at)
      \/ /\ p.slot.seq >= nextPost[m][epoch]
         /\ \A n \in nextPost[m][epoch]..p.slot.seq : Taken(Slot(p.slot.box, n))

\* Who is shown to have seen a post has it, however receipts are lost, swept or read twice
\* (books/channels.ts: "the business sees who has seen each post").
SeenIsTrue ==
  channel # Nothing => \A p \in channel.posts : \A m \in p.seen : HasPost(m, p.at)
=============================================================================
