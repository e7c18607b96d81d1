--------------------------- MODULE ChannelsProofs ---------------------------
(***************************************************************************)
(* What holds of an announcement channel in orderly use, for any number of *)
(* members, presses and failures: everything has its type, whoever is      *)
(* taken out stays out (OnlyMembersRead), who is shown to have seen a post *)
(* has it (SeenIsTrue), no post is passed by (PostsReach), and whoever the *)
(* relay took the last send of the key for, their thread having made up    *)
(* for every answer lost, has the key or will come to it (KeyReaches).     *)
(*                                                                         *)
(* Three invariants stand on IInv: KeyInv, a key has one number; PostInv,  *)
(* posts stand one to a slot without a gap, and receipts are true;         *)
(* ThreadInv, a thread has no gap between its reader and the business's    *)
(* number, nothing is further beyond that than answers were lost, and each *)
(* key sent is behind its reader or alone in a slot in front of them.      *)
(***************************************************************************)
EXTENDS Channels, FiniteSetTheorems, TLAPS

-----------------------------------------------------------------------------
(* The invariant.                                                          *)

SendsOf(j) == job[j].todo \cup {e \in {job[j].now} : e # Nothing}

OneAtATime == \A i, j \in Job : ~Idle(i) /\ ~Idle(j) => i = j

\* No key above the last one made is anywhere.
KeysNumbered ==
  /\ \A m \in Member : \A k \in Given(m) : k <= pressed
  /\ channel # Nothing => channel.key <= pressed
  /\ \A j \in Job : ~Idle(j) /\ job[j].kind = "people" => job[j].channel.key <= pressed

\* Whoever has been given the key of c, is a member of it.
Closed(c) == \A m \in Member : c.key \in Given(m) => m \in c.members

PeopleJob(j) ==
  /\ job[j].channel \in Channels
  /\ Closed(job[j].channel)
  /\ \A e \in SendsOf(j) :
       /\ e.by = "mailbox"
       /\ e.body.type \in {"key", "left"}
       /\ e.body.type = "key" => /\ e.body.key = job[j].channel.key
                                 /\ \E m \in job[j].channel.members : e.box = ThreadOf(m)

PostJob(j) ==
  /\ channel # Nothing
  /\ SendsOf(j) = {} => job[j].sent # {}
  /\ \A e \in SendsOf(j) : /\ e.by = "mailbox"
                           /\ e.body.type = "post"
                           /\ e.body.key = channel.key

TextJob(j) == \A e \in SendsOf(j) : e.by = "chain" /\ e.body.type = "text"

JobsSound ==
  \A j \in Job : ~Idle(j) =>
    /\ job[j].kind = "people" => PeopleJob(j)
    /\ job[j].kind = "post" => PostJob(j)
    /\ job[j].kind = "text" => TextJob(j)

LettersAreTexts == \A x \in letters : x.body.type = "text"

\* While the list of members is being changed, somebody has the key that is not on it yet.
ListIsClosed ==
  (\A j \in Job : Idle(j) \/ job[j].kind # "people") /\ channel # Nothing => Closed(channel)

IInv == TypeOK /\ OneAtATime /\ KeysNumbered /\ JobsSound /\ LettersAreTexts /\ ListIsClosed

-----------------------------------------------------------------------------
(* Types.                                                                  *)

USE KeepAssumption

\* What is written for a thread or for the wall of posts is an errand.
LEMMA ErrandTypes ==
  ASSUME NEW box \in Boxes, NEW type \in {"key", "left", "text", "post", "seen"},
         NEW epoch \in Nat, NEW key \in Nat, NEW from \in Nat, NEW turn \in 1..3,
         NEW by \in {"mailbox", "chain"}
  PROVE  Errand(box, Body(type, epoch, key), from, turn, by) \in Errands
BY DEF Errand, Body, Errands, Bodies

LEMMA BoxTypes ==
  /\ \A m \in Member : ThreadOf(m) \in Boxes
  /\ \A k \in Nat : PostsUnder(k) \in Boxes
  /\ \A m \in Member, e \in Nat : SeenBy(m, e) \in Boxes
BY DEF Boxes, ThreadOf, PostsUnder, SeenBy

\* A press writes a job, and nothing else.
LEMMA PressTyped ==
  ASSUME TypeOK, NEW j \in Job, NEW kind \in {"people", "post", "text"},
         NEW snapshot \in Channels \cup {Nothing}, NEW todo \in SUBSET Errands,
         Press(j, kind, snapshot, todo)
  PROVE  TypeOK'
<1>1. [kind |-> kind, channel |-> snapshot, todo |-> todo, now |-> Nothing,
       seq |-> 0, free |-> FALSE, sent |-> {}] \in Jobs
  BY DEF Jobs
<1>2. job' \in [Job -> Jobs \cup {Nothing}]
  BY <1>1 DEF TypeOK, Press
<1>. QED  BY <1>2 DEF TypeOK, Press, business, members, history

\* What the operations on the list make of a channel.
LEMMA RemoveTyped ==
  ASSUME NEW c \in Channels, NEW gone \in SUBSET Member, NEW key \in Nat
  PROVE  /\ RemoveMembers(c, gone, key) \in Channels
         /\ RemoveMembers(c, gone, key).members = c.members \ gone
         /\ c.members \cap gone = {} => RemoveMembers(c, gone, key) = c
         /\ c.members \cap gone # {} => RemoveMembers(c, gone, key).key = key
<1>1. CASE c.members \cap gone = {}
  <2>1. RemoveMembers(c, gone, key) = c
    BY <1>1 DEF RemoveMembers
  <2>2. c.members = c.members \ gone
    BY <1>1
  <2>. QED  BY <2>1, <2>2, <1>1
<1>2. CASE c.members \cap gone # {}
  <2>1. RemoveMembers(c, gone, key) =
          [members |-> c.members \ gone, epoch |-> c.epoch + 1, key |-> key, nextOut |-> 0,
           posts |-> c.posts]
    BY <1>2 DEF RemoveMembers
  <2>2. c.members \ gone \in SUBSET Member /\ c.epoch + 1 \in Nat /\ c.posts \in SUBSET Posts
    BY DEF Channels
  <2>. QED  BY <2>1, <2>2, <1>2 DEF Channels
<1>. QED  BY <1>1, <1>2

LEMMA AddTyped ==
  ASSUME NEW c \in Channels, NEW added \in SUBSET Member
  PROVE  /\ AddMembers(c, added) \in Channels
         /\ AddMembers(c, added).members = c.members \cup added
         /\ AddMembers(c, added).key = c.key
BY DEF AddMembers, Channels

LEMMA AddPostTyped ==
  ASSUME NEW c \in Channels, NEW at \in Nat, NEW epoch \in Nat, NEW seq \in Nat
  PROVE  /\ AddOwnPost(c, at, epoch, seq) \in Channels
         /\ AddOwnPost(c, at, epoch, seq).members = c.members
         /\ AddOwnPost(c, at, epoch, seq).key = c.key
<1>1. [at |-> at, epoch |-> epoch, seq |-> seq, seen |-> {}] \in Posts
  BY DEF Posts
<1>2. Larger(c.nextOut, seq + 1) \in Nat
  BY DEF Larger, Channels
<1>. QED  BY <1>1, <1>2 DEF AddOwnPost, Channels

\* The channel a new press makes.
LEMMA NewTyped ==
  ASSUME NEW who \in SUBSET Member, NEW key \in Nat
  PROVE  /\ NewChannel(who, key) \in Channels
         /\ NewChannel(who, key).members = who
         /\ NewChannel(who, key).key = key
BY DEF NewChannel, Channels

\* Messages about a channel's key.
LEMMA KeyErrands ==
  ASSUME TypeOK, NEW c \in Channels, NEW m \in Member, NEW turn \in 1..3
  PROVE  /\ KeyTo(m, c, nextOut, turn) \in Errands
         /\ LeftTo(m, c, nextOut) \in Errands
         /\ KeyTo(m, c, nextOut, turn).by = "mailbox"
         /\ KeyTo(m, c, nextOut, turn).box = ThreadOf(m)
         /\ KeyTo(m, c, nextOut, turn).body.type = "key"
         /\ KeyTo(m, c, nextOut, turn).body.key = c.key
         /\ LeftTo(m, c, nextOut).by = "mailbox"
         /\ LeftTo(m, c, nextOut).body.type = "left"
<1>1. c.epoch \in Nat /\ c.key \in Nat /\ nextOut[m] \in Nat
  BY DEF TypeOK, Channels
<1>2. ThreadOf(m) \in Boxes
  BY BoxTypes
<1>3. /\ Errand(ThreadOf(m), Body("key", c.epoch, c.key), nextOut[m], turn, "mailbox") \in Errands
      /\ Errand(ThreadOf(m), Body("left", c.epoch, c.key), nextOut[m], 1, "mailbox") \in Errands
  BY <1>1, <1>2, ErrandTypes
<1>. QED  BY <1>3 DEF KeyTo, LeftTo, Errand, Body

\* A job at work is one of the jobs there are.
LEMMA JobTyped ==
  ASSUME TypeOK, NEW j \in Job, ~Idle(j)
  PROVE  job[j] \in Jobs
BY DEF TypeOK, Idle

\* What a send is once it is dated.
LEMMA DatedTyped ==
  ASSUME TypeOK, NEW e \in Errands
  PROVE  /\ [e EXCEPT !.body.at = clock + 1] \in Errands
         /\ [e EXCEPT !.body.at = clock + 1].box = e.box
         /\ [e EXCEPT !.body.at = clock + 1].by = e.by
         /\ [e EXCEPT !.body.at = clock + 1].body.type = e.body.type
         /\ [e EXCEPT !.body.at = clock + 1].body.key = e.body.key
<1>1. clock + 1 \in Nat
  BY DEF TypeOK
<1>2. [e.body EXCEPT !.at = clock + 1] \in Bodies
  BY <1>1 DEF Errands, Bodies
<1>3. e.body \in Bodies
  BY DEF Errands
<1>4. /\ [e.body EXCEPT !.at = clock + 1].type = e.body.type
      /\ [e.body EXCEPT !.at = clock + 1].key = e.body.key
  BY <1>3 DEF Bodies
<1>5. [e EXCEPT !.body.at = clock + 1] = [e EXCEPT !.body = [e.body EXCEPT !.at = clock + 1]]
  OBVIOUS
<1>. QED  BY <1>2, <1>4, <1>5 DEF Errands

LEMMA BeginTyped ==
  ASSUME TypeOK, NEW j \in Job, NEW e, Begin(j, e)
  PROVE  TypeOK'
<1>1. job[j] \in Jobs /\ e \in Errands
  BY JobTyped DEF Begin, Jobs
<1>. DEFINE dated == [e EXCEPT !.body.at = clock + 1]
<1>2. dated \in Errands
  BY <1>1, DatedTyped
<1>. HIDE DEF dated
<1>3. e.from \in Nat /\ job[j].todo \ {e} \in SUBSET Errands
  BY <1>1 DEF Jobs, Errands
<1>4. job' = [job EXCEPT ![j].todo = @ \ {e}, ![j].now = dated,
                         ![j].seq = e.from, ![j].free = FALSE]
  BY DEF Begin, dated
<1>5. job' \in [Job -> Jobs \cup {Nothing}]
  BY <1>1, <1>2, <1>3, <1>4 DEF TypeOK, Jobs
<1>6. clock' \in Nat
  BY DEF Begin, TypeOK
<1>. QED  BY <1>5, <1>6 DEF TypeOK, Begin, business, members, history

LEMMA LookTyped ==
  ASSUME TypeOK, NEW j \in Job, Look(j)
  PROVE  TypeOK'
<1>1. job[j] \in Jobs
  BY JobTyped DEF Look, AtWork
<1>2. job[j].seq + 1 \in Nat
  BY <1>1 DEF Jobs
<1>3. \/ job' = [job EXCEPT ![j].seq = job[j].seq + 1]
      \/ job' = [job EXCEPT ![j].free = TRUE]
  BY DEF Look
<1>4. [job[j] EXCEPT !.seq = @ + 1] \in Jobs /\ [job[j] EXCEPT !.free = TRUE] \in Jobs
  BY <1>1, <1>2 DEF Jobs
<1>5. job' \in [Job -> Jobs \cup {Nothing}]
  BY <1>3, <1>4 DEF TypeOK
<1>. QED  BY <1>5 DEF TypeOK, Look, business, members, history

\* A send that is given up leaves the rest of the job, or ends it.
LEMMA GiveUpTyped ==
  ASSUME TypeOK, NEW j \in Job, AtWork(j), GiveUp(j)
  PROVE  /\ job' \in [Job -> Jobs \cup {Nothing}]
         /\ outcome' \in [Member -> {"failed", "doubtful", "sent"}]
<1>1. job[j] \in Jobs
  BY JobTyped DEF AtWork
<1>2. [job[j] EXCEPT !.now = Nothing] \in Jobs
  BY <1>1 DEF Jobs
<1>3. job' \in [Job -> Jobs \cup {Nothing}]
  BY <1>2 DEF TypeOK, GiveUp
<1>4. outcome' \in [Member -> {"failed", "doubtful", "sent"}]
  BY DEF TypeOK, GiveUp
<1>. QED  BY <1>3, <1>4

LEMMA FailTyped ==
  ASSUME TypeOK, NEW j \in Job, Fail(j)
  PROVE  TypeOK'
<1>1. AtWork(j) /\ GiveUp(j)
  BY DEF Fail
<1>. QED  BY <1>1, GiveUpTyped DEF TypeOK, Fail, business, members, history

\* What a job stores.
NewPin(e, seq) == Pinned(Slot(e.box, seq), e.body, Undated)

LEMMA StoreTyped ==
  ASSUME TypeOK, NEW e \in Errands, NEW seq \in Nat
  PROVE  /\ NewPin(e, seq) \in Stored
         /\ Store(e, seq) => pins' \subseteq Stored /\ letters' \subseteq Stored
<1>1. e.box \in Boxes /\ e.body \in Bodies
  BY DEF Errands
<1>2. NewPin(e, seq) \in Stored
  BY <1>1 DEF NewPin, Pinned, Slot, Stored, Slots
<1>. QED  BY <1>2 DEF Store, Deliver, NewPin, TypeOK

\* What a job is sending.
LEMMA NowTyped ==
  ASSUME TypeOK, NEW j \in Job, AtWork(j)
  PROVE  job[j] \in Jobs /\ job[j].now \in Errands /\ job[j].seq \in Nat
<1>1. job[j] \in Jobs
  BY JobTyped DEF AtWork
<1>. QED  BY <1>1 DEF AtWork, Jobs

LEMMA SentTyped ==
  ASSUME TypeOK, NEW j \in Job, Sent(j)
  PROVE  TypeOK'
<1>. DEFINE new == [errand |-> job[j].now, seq |-> job[j].seq]
<1>1. AtWork(j) /\ Store(job[j].now, job[j].seq)
  BY DEF Sent
<1>2. job[j] \in Jobs /\ job[j].now \in Errands /\ job[j].seq \in Nat
  BY <1>1, NowTyped
<1>3. new \in [errand : Errands, seq : Nat]
  BY <1>2
<1>. HIDE DEF new
<1>4. job' = [job EXCEPT ![j].now = Nothing, ![j].sent = @ \cup {new}]
  BY DEF Sent, new
<1>5. job' \in [Job -> Jobs \cup {Nothing}]
  BY <1>2, <1>3, <1>4 DEF TypeOK, Jobs
<1>6. pins' \subseteq Stored /\ letters' \subseteq Stored
  BY <1>1, <1>2, StoreTyped
<1>7. outcome' \in [Member -> {"failed", "doubtful", "sent"}]
  BY DEF TypeOK, Sent
<1>8. owed' \in [Member -> Nat]
  BY DEF TypeOK, Sent
<1>. QED  BY <1>5, <1>6, <1>7, <1>8 DEF TypeOK, Sent, business, members

LEMMA UnheardTyped ==
  ASSUME TypeOK, NEW j \in Job, Unheard(j)
  PROVE  TypeOK'
<1>1. AtWork(j) /\ GiveUp(j)
  BY DEF Unheard
<1>2. job[j].now \in Errands /\ job[j].seq \in Nat
  BY <1>1, NowTyped
<1>3. late' \subseteq Stored
  BY <1>2, StoreTyped DEF Unheard, NewPin, TypeOK
<1>4. owed' \in [Member -> Nat]
  BY DEF TypeOK, Unheard
<1>. QED  BY <1>1, <1>3, <1>4, GiveUpTyped DEF TypeOK, Unheard, business, members

\* What a job saves: a channel with the members and the key of the job's channel, or of the
\* one that is there.
LEMMA SavedTyped ==
  ASSUME TypeOK, JobsSound, NEW j \in Job, Save(j)
  PROVE  /\ job[j].kind = "people" => Saved(j) = job[j].channel /\ Saved(j) \in Channels
         /\ job[j].kind = "post" => /\ channel \in Channels
                                    /\ Saved(j) \in Channels
                                    /\ Saved(j).members = channel.members
                                    /\ Saved(j).key = channel.key
         /\ job[j].kind = "text" => Saved(j) = channel
<1>1. ~Idle(j) /\ job[j] \in Jobs /\ SendsOf(j) = {}
  BY JobTyped DEF Save, SendsOf
<1>2. CASE job[j].kind = "people"
  BY <1>1, <1>2 DEF Saved, JobsSound, PeopleJob
<1>3. CASE job[j].kind = "post"
  <2>. DEFINE s == CHOOSE t \in job[j].sent : TRUE
  <2>1. channel # Nothing /\ channel \in Channels /\ job[j].sent # {}
    BY <1>1, <1>3 DEF JobsSound, PostJob, TypeOK
  <2>2. s \in [errand : Errands, seq : Nat]
    BY <1>1, <2>1 DEF Jobs
  <2>3. s.errand.body.at \in Nat /\ s.errand.body.epoch \in Nat /\ s.seq \in Nat
    BY <2>2 DEF Errands, Bodies
  <2>4. Saved(j) = AddOwnPost(channel, s.errand.body.at, s.errand.body.epoch, s.seq)
    BY <1>3, <2>1 DEF Saved
  <2>. HIDE DEF s
  <2>5. PICK at \in Nat, epoch \in Nat, seq \in Nat : Saved(j) = AddOwnPost(channel, at, epoch, seq)
    BY <2>3, <2>4
  <2>6. /\ AddOwnPost(channel, at, epoch, seq) \in Channels
        /\ AddOwnPost(channel, at, epoch, seq).members = channel.members
        /\ AddOwnPost(channel, at, epoch, seq).key = channel.key
    BY <2>1, AddPostTyped
  <2>. QED  BY <1>3, <2>1, <2>5, <2>6
<1>. QED  BY <1>1, <1>2, <1>3 DEF Saved, Jobs

LEMMA SaveTyped ==
  ASSUME TypeOK, JobsSound, NEW j \in Job, Save(j)
  PROVE  TypeOK'
<1>1. ~Idle(j) /\ job[j] \in Jobs
  BY JobTyped DEF Save
<1>2. channel' \in Channels \cup {Nothing}
  BY <1>1, SavedTyped DEF Save, Jobs, TypeOK
<1>3. nextOut' \in [Member -> Nat]
  <2>1. ASSUME NEW m \in Member
        PROVE  Outs(job[j].sent)[m] \in Nat
    <3>. DEFINE mine == {s \in job[j].sent : s.errand.box = ThreadOf(m)}
                s    == CHOOSE t \in mine : TRUE
    <3>1. nextOut[m] \in Nat
      BY DEF TypeOK
    <3>2. Outs(job[j].sent)[m] = IF mine = {} THEN nextOut[m] ELSE Larger(nextOut[m], s.seq + 1)
      BY DEF Outs
    <3>3. mine # {} => s.seq + 1 \in Nat
      BY <1>1 DEF Jobs
    <3>. HIDE DEF mine, s
    <3>. QED  BY <3>1, <3>2, <3>3 DEF Larger
  <2>2. nextOut' = [m \in Member |-> Outs(job[j].sent)[m]]
    BY DEF Save, Outs
  <2>. QED  BY <2>1, <2>2
<1>4. job' \in [Job -> Jobs \cup {Nothing}]
  BY DEF TypeOK, Save
<1>. QED  BY <1>2, <1>3, <1>4 DEF TypeOK, Save, members, history

\* A check of receipts leaves the list and the key.
LEMMA CheckSeenTyped ==
  ASSUME TypeOK, channel # Nothing, NEW heard \in SUBSET Heard, CheckSeen(heard)
  PROVE  /\ TypeOK'
         /\ channel' \in Channels
         /\ channel'.members = channel.members
         /\ channel'.key = channel.key
         /\ pins' \subseteq pins
<1>. DEFINE marked == {[p EXCEPT !.seen = @ \cup {w.m : w \in {v \in heard :
                                      p = PostAt(channel, v.epoch, v.seq)}}] : p \in channel.posts}
<1>1. channel \in Channels
  BY DEF TypeOK
<1>2. \A w \in heard : w.m \in Member
  BY <1>1 DEF Heard, Channels
<1>3. ASSUME NEW p \in Posts
      PROVE  [p EXCEPT !.seen = @ \cup {w.m : w \in {v \in heard :
                                      p = PostAt(channel, v.epoch, v.seq)}}] \in Posts
  <2>. DEFINE seers == {w.m : w \in {v \in heard : p = PostAt(channel, v.epoch, v.seq)}}
  <2>1. seers \subseteq Member
    BY <1>2
  <2>. HIDE DEF seers
  <2>2. [p EXCEPT !.seen = @ \cup seers] \in Posts
    BY <2>1 DEF Posts
  <2>. QED  BY <2>2 DEF seers
<1>4. channel.posts \subseteq Posts
  BY <1>1 DEF Channels
<1>5. marked \subseteq Posts
  BY <1>3, <1>4
<1>6. channel' = [channel EXCEPT !.posts = marked]
  BY DEF CheckSeen
<1>. HIDE DEF marked
<1>7. /\ channel' \in Channels
      /\ channel'.members = channel.members
      /\ channel'.key = channel.key
  BY <1>1, <1>5, <1>6 DEF Channels
<1>8. pins' \subseteq pins
  BY DEF CheckSeen
<1>. QED  BY <1>7, <1>8 DEF TypeOK, CheckSeen, members, history

LEMMA ReadThreadTyped ==
  ASSUME TypeOK, NEW m \in Member, NEW shield \in BOOLEAN, NEW dropping \in BOOLEAN,
         ReadThread(m, shield, dropping)
  PROVE  TypeOK' /\ pins' \subseteq pins
<1>. DEFINE slot == Slot(ThreadOf(m), nextIn[m])
<1>1. PICK x \in Found(slot, shield) : got' = [got EXCEPT ![m] = @ \cup {x.body}]
  BY DEF ReadThread
<1>2. x \in pins \cup letters
  BY <1>1 DEF Found, LettersAt, PinsAt
<1>3. x.body \in Bodies
  BY <1>2 DEF TypeOK, Stored
<1>4. got' \in [Member -> SUBSET Bodies]
  BY <1>1, <1>3 DEF TypeOK
<1>5. nextIn' \in [Member -> Nat]
  BY DEF ReadThread, TypeOK
<1>6. pins' \subseteq pins
  BY DEF ReadThread, Drop
<1>. QED  BY <1>4, <1>5, <1>6 DEF TypeOK, ReadThread, business, history

LEMMA ReadPostTyped ==
  ASSUME TypeOK, NEW m \in Member, NEW epoch \in Epoch, ReadPost(m, epoch)
  PROVE  /\ TypeOK'
         /\ pins' = pins
         /\ \A p \in late' \ late : p.body.type = "seen"
<1>. DEFINE seq  == nextPost[m][epoch]
            box  == PostsUnder(KeyOf(m, epoch))
<1>1. epoch \in Nat /\ seq \in Nat
  BY PressesAssumption DEF TypeOK, Epoch
<1>2. PICK x \in PinsAt(Slot(box, seq)) :
        kept' = [kept EXCEPT ![m] = @ \cup {[at |-> x.body.at, epoch |-> epoch, seq |-> seq]}]
  BY DEF ReadPost
<1>3. x.body.at \in Nat
  BY <1>2 DEF PinsAt, TypeOK, Stored, Bodies
<1>4. [at |-> x.body.at, epoch |-> epoch, seq |-> seq] \in [at : Nat, epoch : Nat, seq : Nat]
  BY <1>1, <1>3
<1>. DEFINE new == Pinned(ReceiptSlot(m, epoch, seq), Body("seen", epoch, 0), today + KeepDays)
<1>5. new \in Stored /\ new.body.type = "seen"
  BY <1>1, BoxTypes DEF ReceiptSlot, Slot, Slots, Body, Bodies, Pinned, Stored, TypeOK
<1>6. pins' = pins /\ (late' = late \/ late' = late \cup {new})
  BY DEF ReadPost, Receipt
<1>7. nextPost' \in [Member -> [Epoch -> Nat]]
  <2>1. [nextPost[m] EXCEPT ![epoch] = @ + 1] \in [Epoch -> Nat]
    BY <1>1 DEF TypeOK
  <2>2. nextPost' = [nextPost EXCEPT ![m] = [nextPost[m] EXCEPT ![epoch] = @ + 1]]
    BY DEF ReadPost
  <2>. QED  BY <2>1, <2>2 DEF TypeOK
<1>. HIDE DEF new, seq, box
<1>8. kept' \in [Member -> SUBSET [at : Nat, epoch : Nat, seq : Nat]]
  BY <1>2, <1>4 DEF TypeOK
<1>9. late' \subseteq Stored /\ \A p \in late' \ late : p.body.type = "seen"
  BY <1>5, <1>6 DEF TypeOK
<1>. QED  BY <1>6, <1>7, <1>8, <1>9 DEF TypeOK, ReadPost, business, history

LEMMA RelayTyped ==
  ASSUME TypeOK, RelayWorks
  PROVE  /\ TypeOK'
         /\ AllPins' \subseteq AllPins
         /\ \A x \in letters' : x \in letters \/ x.body.type = "text"
<1>1. ASSUME NEW x \in late, Land(x)
      PROVE  /\ TypeOK'
             /\ AllPins' \subseteq AllPins
             /\ \A y \in letters' : y \in letters \/ y.body.type = "text"
  <2>1. /\ pins' \subseteq pins \cup {x}
        /\ letters' = letters \/ (letters' = letters \cup {x} /\ x.body.type = "text")
        /\ late' = late \ {x}
    BY <1>1 DEF Land
  <2>. QED  BY <1>1, <2>1 DEF TypeOK, AllPins, Land, business, members, history
<1>2. ASSUME Sweep \/ NextDay, UNCHANGED <<business, job, pressed, clock, letters, late, members, history>>
      PROVE  TypeOK' /\ AllPins' \subseteq AllPins /\ letters' = letters
  BY <1>2 DEF TypeOK, AllPins, Sweep, NextDay, business, members, history
<1>. QED  BY <1>1, <1>2 DEF RelayWorks

-----------------------------------------------------------------------------
(* Who is given a key.                                                     *)

LEMMA GivenKeys ==
  ASSUME NEW m, NEW k
  PROVE  /\ k \in Given(m) <=>
              \/ \E b \in got[m] : b.type = "key" /\ b.key = k
              \/ \E p \in AllPins : p.slot.box = ThreadOf(m) /\ p.body.type = "key" /\ p.body.key = k
         /\ k \in Given(m)' <=>
              \/ \E b \in got'[m] : b.type = "key" /\ b.key = k
              \/ \E p \in AllPins' : p.slot.box = ThreadOf(m) /\ p.body.type = "key" /\ p.body.key = k
BY DEF Given

\* A thread is one member's.
LEMMA OneThread ==
  ASSUME NEW m \in Member, NEW n \in Member, ThreadOf(m) = ThreadOf(n)
  PROVE  m = n
BY DEF ThreadOf

\* What a job stores gives nobody a key but whoever it is for.
LEMMA StoreGives ==
  ASSUME NEW e \in Errands, NEW seq \in Nat, AllPins' \subseteq AllPins \cup {NewPin(e, seq)},
         got' = got, NEW m \in Member, NEW k \in Given(m)'
  PROVE  k \in Given(m) \/ (e.box = ThreadOf(m) /\ e.body.type = "key" /\ e.body.key = k)
<1>1. NewPin(e, seq).slot.box = e.box /\ NewPin(e, seq).body = e.body
  BY DEF NewPin, Pinned, Slot
<1>. QED  BY <1>1, GivenKeys

\* Somebody who reads a message had its key on the way.
LEMMA ReadingGives ==
  ASSUME TypeOK, LettersAreTexts, NEW n \in Member, NEW shield \in BOOLEAN,
         NEW dropping \in BOOLEAN, ReadThread(n, shield, dropping),
         NEW m \in Member, NEW k \in Given(m)'
  PROVE  k \in Given(m)
<1>1. PICK x \in Found(Slot(ThreadOf(n), nextIn[n]), shield) :
        got' = [got EXCEPT ![n] = @ \cup {x.body}]
  BY DEF ReadThread
<1>2. AllPins' \subseteq AllPins
  BY ReadThreadTyped DEF AllPins, ReadThread
<1>3. (x \in AllPins /\ x.slot.box = ThreadOf(n)) \/ x \in letters
  BY <1>1 DEF Found, LettersAt, PinsAt, Slot, AllPins
<1>4. x \in letters => x.body.type = "text"
  BY DEF LettersAreTexts
<1>5. x.body.type = "key" => x.body.key \in Given(n)
  BY <1>3, <1>4, GivenKeys
<1>6. \A b \in got'[m] : b \in got[m] \/ (m = n /\ b = x.body)
  <2>1. got \in [Member -> SUBSET Bodies]
    BY DEF TypeOK
  <2>2. got'[m] = IF m = n THEN got[n] \cup {x.body} ELSE got[m]
    BY <1>1, <2>1
  <2>. QED  BY <2>2
<1>. QED  BY <1>2, <1>5, <1>6, GivenKeys

-----------------------------------------------------------------------------
(* The invariant holds at the start, and every step keeps it.              *)

LEMMA InitSound ==
  ASSUME Init
  PROVE  IInv
<1>1. TypeOK
  BY PressesAssumption DEF Init, RelayInit, TypeOK, Epoch
<1>2. \A j \in Job : Idle(j)
  BY DEF Init, Idle
<1>3. \A m \in Member : Given(m) = {}
  BY DEF Init, RelayInit, Given, AllPins
<1>. QED  BY <1>1, <1>2, <1>3
          DEF IInv, Init, OneAtATime, KeysNumbered, JobsSound, LettersAreTexts, ListIsClosed

\* A press keeps it, when what the job has to do is sound.
LEMMA PressKeeps ==
  ASSUME IInv, AllIdle, NEW j \in Job, NEW kind \in {"people", "post", "text"},
         NEW snapshot \in Channels \cup {Nothing}, NEW todo \in SUBSET Errands,
         Press(j, kind, snapshot, todo),
         kind = "people" =>
           /\ snapshot \in Channels
           /\ snapshot.key <= pressed + 1
           /\ Closed(snapshot)
           /\ \A e \in todo :
                /\ e.by = "mailbox"
                /\ e.body.type \in {"key", "left"}
                /\ e.body.type = "key" => /\ e.body.key = snapshot.key
                                          /\ \E m \in snapshot.members : e.box = ThreadOf(m),
         kind = "post" =>
           /\ channel # Nothing
           /\ todo # {}
           /\ \A e \in todo : e.by = "mailbox" /\ e.body.type = "post" /\ e.body.key = channel.key,
         kind = "text" => \A e \in todo : e.by = "chain" /\ e.body.type = "text"
  PROVE  IInv'
<1>. DEFINE new == [kind |-> kind, channel |-> snapshot, todo |-> todo, now |-> Nothing,
                    seq |-> 0, free |-> FALSE, sent |-> {}]
<1>1. TypeOK'
  BY PressTyped DEF IInv
<1>2. job \in [Job -> Jobs \cup {Nothing}] /\ pressed \in Nat
  BY DEF IInv, TypeOK
<1>3. /\ job'[j] = new
      /\ \A i \in Job : i # j => Idle(i)'
  BY <1>2 DEF Press, AllIdle, Idle
<1>4. /\ pressed' = pressed + 1
      /\ channel' = channel
      /\ letters' = letters
      /\ \A m \in Member : Given(m)' = Given(m)
  BY DEF Press, business, members, Given, AllPins
<1>5. SendsOf(j)' = todo
  BY <1>3 DEF SendsOf
<1>6. OneAtATime'
  BY <1>3 DEF OneAtATime
<1>7. KeysNumbered'
  <2>1. \A m \in Member : \A k \in Given(m)' : k <= pressed'
    <3>. SUFFICES ASSUME NEW m \in Member, NEW k \in Given(m)
                  PROVE  k <= pressed + 1
      BY <1>4
    <3>1. k \in Nat
      BY GivenKeys DEF IInv, TypeOK, Stored, Bodies, AllPins
    <3>. QED  BY <1>2, <3>1 DEF IInv, KeysNumbered
  <2>2. channel' # Nothing => channel'.key <= pressed'
    <3>1. channel # Nothing => channel.key \in Nat
      BY DEF IInv, TypeOK, Channels
    <3>. QED  BY <1>2, <1>4, <3>1 DEF IInv, KeysNumbered
  <2>3. \A i \in Job : ~Idle(i)' /\ job'[i].kind = "people" => job'[i].channel.key <= pressed'
    BY <1>3, <1>4
  <2>. QED  BY <2>1, <2>2, <2>3 DEF KeysNumbered
<1>8. JobsSound'
  <2>1. kind = "people" => PeopleJob(j)'
    BY <1>3, <1>4, <1>5 DEF PeopleJob, Closed
  <2>2. kind = "post" => PostJob(j)'
    BY <1>4, <1>5 DEF PostJob
  <2>3. kind = "text" => TextJob(j)'
    BY <1>5 DEF TextJob
  <2>. QED  BY <1>3, <2>1, <2>2, <2>3 DEF JobsSound
<1>9. LettersAreTexts'
  BY <1>4 DEF IInv, LettersAreTexts
<1>10. ListIsClosed'
  <2>1. channel # Nothing => Closed(channel)
    BY DEF IInv, ListIsClosed, AllIdle
  <2>. QED  BY <1>4, <2>1 DEF ListIsClosed, Closed
<1>. QED  BY <1>1, <1>6, <1>7, <1>8, <1>9, <1>10 DEF IInv

\* So does a step of a job at work that takes up one of its sends, goes on with it, ends it
\* or ends with it.
LEMMA WorkKeeps ==
  ASSUME IInv, TypeOK', NEW j \in Job, ~Idle(j),
         \A i \in Job : i # j => job'[i] = job[i],
         pressed' = pressed, channel' = channel,
         \A x \in letters' : x.body.type = "text",
         \A m \in Member : \A k \in Given(m)' :
           \/ k \in Given(m)
           \/ /\ job[j].kind = "people"
              /\ k = job[j].channel.key
              /\ m \in job[j].channel.members,
         \/ job'[j] = Nothing /\ job[j].kind # "people"
         \/ /\ job'[j] # Nothing
            /\ job'[j].kind = job[j].kind
            /\ job'[j].channel = job[j].channel
            /\ \A f \in SendsOf(j)' : \E e \in SendsOf(j) :
                 f.box = e.box /\ f.by = e.by /\ f.body.type = e.body.type /\ f.body.key = e.body.key
            /\ job[j].kind = "post" /\ SendsOf(j)' = {} => job'[j].sent # {}
  PROVE  IInv'
<1>1. \A i \in Job : i # j => Idle(i) /\ Idle(i)'
  BY DEF IInv, OneAtATime, Idle
<1>2. OneAtATime'
  BY <1>1 DEF OneAtATime
<1>3. job[j] \in Jobs
  BY JobTyped DEF IInv
<1>4. job[j].kind = "people" => PeopleJob(j)
  BY DEF IInv, JobsSound
<1>5. KeysNumbered'
  <2>1. \A m \in Member : \A k \in Given(m)' : k <= pressed'
    <3>1. ASSUME NEW m \in Member, NEW k \in Given(m)
          PROVE  k <= pressed
      BY DEF IInv, KeysNumbered
    <3>2. job[j].kind = "people" => job[j].channel.key <= pressed
      BY DEF IInv, KeysNumbered
    <3>. QED  BY <3>1, <3>2
  <2>2. channel' # Nothing => channel'.key <= pressed'
    BY DEF IInv, KeysNumbered
  <2>3. \A i \in Job : ~Idle(i)' /\ job'[i].kind = "people" => job'[i].channel.key <= pressed'
    BY <1>1 DEF IInv, KeysNumbered, Idle
  <2>. QED  BY <2>1, <2>2, <2>3 DEF KeysNumbered
<1>6. JobsSound'
  <2>. SUFFICES ASSUME ~Idle(j)'
                PROVE  /\ job'[j].kind = "people" => PeopleJob(j)'
                       /\ job'[j].kind = "post" => PostJob(j)'
                       /\ job'[j].kind = "text" => TextJob(j)'
    BY <1>1 DEF JobsSound
  <2>1. /\ job'[j].kind = job[j].kind
        /\ job'[j].channel = job[j].channel
        /\ \A f \in SendsOf(j)' : \E e \in SendsOf(j) :
             f.box = e.box /\ f.by = e.by /\ f.body.type = e.body.type /\ f.body.key = e.body.key
        /\ job[j].kind = "post" /\ SendsOf(j)' = {} => job'[j].sent # {}
    BY DEF Idle
  <2>2. CASE job[j].kind = "people"
    <3>1. Closed(job[j].channel)'
      BY <1>4, <2>1, <2>2 DEF PeopleJob, Closed
    <3>2. PeopleJob(j)
      BY <1>4, <2>2
    <3>3. PeopleJob(j)'
      BY <2>1, <3>1, <3>2 DEF PeopleJob
    <3>. QED  BY <2>1, <2>2, <3>3
  <2>3. CASE job[j].kind = "post"
    <3>1. PostJob(j)
      BY <2>3 DEF IInv, JobsSound
    <3>2. PostJob(j)'
      BY <2>1, <2>3, <3>1 DEF PostJob
    <3>. QED  BY <2>1, <2>3, <3>2
  <2>4. CASE job[j].kind = "text"
    <3>1. TextJob(j)
      BY <2>4 DEF IInv, JobsSound
    <3>2. TextJob(j)'
      BY <2>1, <3>1 DEF TextJob
    <3>. QED  BY <2>1, <2>4, <3>2
  <2>. QED  BY <1>3, <2>2, <2>3, <2>4 DEF Jobs
<1>7. LettersAreTexts'
  BY DEF LettersAreTexts
<1>8. ListIsClosed'
  <2>1. CASE job[j].kind = "people"
    BY <2>1 DEF ListIsClosed, Idle
  <2>2. CASE job[j].kind # "people"
    <3>1. channel # Nothing => Closed(channel)
      BY <1>1, <2>2 DEF IInv, ListIsClosed
    <3>. QED  BY <2>2, <3>1 DEF ListIsClosed, Closed
  <2>. QED  BY <2>1, <2>2
<1>. QED  BY <1>2, <1>5, <1>6, <1>7, <1>8 DEF IInv

\* And so does a step that leaves the jobs, and gives nobody a key they had not on the way.
LEMMA RestKeeps ==
  ASSUME IInv, TypeOK', job' = job, pressed' = pressed,
         \A x \in letters' : x \in letters \/ x.body.type = "text",
         \A m \in Member : \A k \in Given(m)' : k \in Given(m),
         \/ channel' = channel
         \/ /\ AllIdle
            /\ channel # Nothing
            /\ channel'.members = channel.members
            /\ channel'.key = channel.key
  PROVE  IInv'
<1>1. OneAtATime'
  BY DEF IInv, OneAtATime, Idle
<1>2. KeysNumbered'
  BY DEF IInv, KeysNumbered, Idle
<1>3. JobsSound'
  <2>. SUFFICES ASSUME NEW j \in Job, ~Idle(j)
                PROVE  /\ job[j].kind = "people" => PeopleJob(j)'
                       /\ job[j].kind = "post" => PostJob(j)'
                       /\ job[j].kind = "text" => TextJob(j)'
    BY DEF JobsSound, Idle
  <2>1. channel' = channel
    BY DEF AllIdle
  <2>2. SendsOf(j)' = SendsOf(j)
    BY DEF SendsOf
  <2>3. job[j].kind = "people" => PeopleJob(j)'
    BY <2>2 DEF IInv, JobsSound, PeopleJob, Closed
  <2>4. job[j].kind = "post" => PostJob(j)'
    BY <2>1, <2>2 DEF IInv, JobsSound, PostJob
  <2>5. job[j].kind = "text" => TextJob(j)'
    BY <2>2 DEF IInv, JobsSound, TextJob
  <2>. QED  BY <2>3, <2>4, <2>5
<1>4. LettersAreTexts'
  BY DEF IInv, LettersAreTexts
<1>5. ListIsClosed'
  BY DEF IInv, ListIsClosed, Closed, Idle, AllIdle
<1>. QED  BY <1>1, <1>2, <1>3, <1>4, <1>5 DEF IInv

LEMMA CreateKeeps ==
  ASSUME IInv, AllIdle, NEW j \in Job, NEW who \in SUBSET Member, Create(j, who)
  PROVE  IInv'
<1>. DEFINE c    == NewChannel(who, pressed + 1)
            todo == {KeyTo(m, c, nextOut, 1) : m \in who}
<1>1. TypeOK /\ pressed \in Nat /\ pressed + 1 \in Nat
  BY DEF IInv, TypeOK
<1>2. c \in Channels /\ c.members = who /\ c.key = pressed + 1
  BY <1>1, NewTyped
<1>3. Press(j, "people", c, todo)
  BY DEF Create
<1>. HIDE DEF c
<1>4. \A m \in who : /\ KeyTo(m, c, nextOut, 1) \in Errands
                     /\ KeyTo(m, c, nextOut, 1).by = "mailbox"
                     /\ KeyTo(m, c, nextOut, 1).box = ThreadOf(m)
                     /\ KeyTo(m, c, nextOut, 1).body.type = "key"
                     /\ KeyTo(m, c, nextOut, 1).body.key = c.key
  BY <1>1, <1>2, KeyErrands
<1>5. \A e \in todo : /\ e \in Errands
                      /\ e.by = "mailbox"
                      /\ e.body.type \in {"key", "left"}
                      /\ e.body.type = "key" => /\ e.body.key = c.key
                                                /\ \E m \in c.members : e.box = ThreadOf(m)
  BY <1>2, <1>4
<1>6. Closed(c)
  BY <1>1, <1>2 DEF Closed, IInv, KeysNumbered
<1>. HIDE DEF todo
<1>7. todo \in SUBSET Errands
  BY <1>5
<1>. QED  BY <1>1, <1>2, <1>3, <1>5, <1>6, <1>7, PressKeeps

LEMMA SaveMembersKeeps ==
  ASSUME IInv, AllIdle, NEW j \in Job, NEW want \in SUBSET Member, SaveMembers(j, want)
  PROVE  IInv'
<1>. DEFINE gone  == channel.members \ want
            added == want \ channel.members
            less  == RemoveMembers(channel, gone, pressed + 1)
            more  == AddMembers(less, added)
            todo  == (IF gone = {} THEN {}
                      ELSE {LeftTo(m, less, nextOut) : m \in gone}
                           \cup {KeyTo(m, less, nextOut, 2) : m \in less.members})
                     \cup {KeyTo(m, more, nextOut, 3) : m \in added}
<1>1. TypeOK /\ pressed \in Nat /\ pressed + 1 \in Nat
  BY DEF IInv, TypeOK
<1>2. channel # Nothing /\ channel \in Channels
  BY <1>1 DEF SaveMembers, TypeOK
<1>3. Press(j, "people", more, todo)
  BY DEF SaveMembers
<1>4. gone \in SUBSET Member /\ added \in SUBSET Member /\ gone = channel.members \cap gone
  BY <1>2 DEF Channels
<1>5. /\ less \in Channels
      /\ less.members \subseteq Member
      /\ gone = {} => less = channel
      /\ gone # {} => less.key = pressed + 1
  <2>1. ASSUME NEW g \in SUBSET Member, NEW k \in Nat
        PROVE  /\ RemoveMembers(channel, g, k) \in Channels
               /\ channel.members \cap g = {} => RemoveMembers(channel, g, k) = channel
               /\ channel.members \cap g # {} => RemoveMembers(channel, g, k).key = k
    BY <1>2, RemoveTyped
  <2>. HIDE DEF gone
  <2>2. /\ less \in Channels
        /\ channel.members \cap gone = {} => less = channel
        /\ channel.members \cap gone # {} => less.key = pressed + 1
    BY <1>1, <1>4, <2>1
  <2>3. less.members \subseteq Member
    BY <2>2 DEF Channels
  <2>. QED  BY <1>4, <2>2, <2>3
<1>. HIDE DEF less
<1>6. more \in Channels /\ more.members = less.members \cup added /\ more.key = less.key
  BY <1>4, <1>5, AddTyped
<1>. HIDE DEF more
<1>7. more.key <= pressed + 1 /\ Closed(more)
  <2>1. CASE gone = {}
    <3>1. channel.key <= pressed /\ channel.key \in Nat /\ Closed(channel)
      BY <1>2 DEF IInv, KeysNumbered, ListIsClosed, AllIdle, Channels
    <3>2. more.key = channel.key /\ channel.members \subseteq more.members
      BY <1>5, <1>6, <2>1
    <3>. QED  BY <1>1, <3>1, <3>2 DEF Closed
  <2>2. CASE gone # {}
    BY <1>1, <1>5, <1>6, <2>2 DEF Closed, IInv, KeysNumbered
  <2>. QED  BY <2>1, <2>2
<1>. HIDE DEF gone, added
<1>8. ASSUME NEW e \in todo
      PROVE  /\ e \in Errands
             /\ e.by = "mailbox"
             /\ e.body.type \in {"key", "left"}
             /\ e.body.type = "key" => /\ e.body.key = more.key
                                       /\ \E m \in more.members : e.box = ThreadOf(m)
  <2>1. CASE \E m \in gone : e = LeftTo(m, less, nextOut)
    <3>1. PICK m \in gone : e = LeftTo(m, less, nextOut)
      BY <2>1
    <3>2. e \in Errands /\ e.by = "mailbox" /\ e.body.type = "left"
      BY <1>1, <1>4, <1>5, <3>1, KeyErrands
    <3>. QED  BY <3>2
  <2>2. CASE \E m \in less.members : e = KeyTo(m, less, nextOut, 2)
    <3>1. PICK m \in less.members : e = KeyTo(m, less, nextOut, 2)
      BY <2>2
    <3>2. /\ e \in Errands /\ e.by = "mailbox" /\ e.body.type = "key"
          /\ e.body.key = less.key /\ e.box = ThreadOf(m)
      BY <1>1, <1>5, <3>1, KeyErrands
    <3>. QED  BY <1>6, <3>2
  <2>3. CASE \E m \in added : e = KeyTo(m, more, nextOut, 3)
    <3>1. PICK m \in added : e = KeyTo(m, more, nextOut, 3)
      BY <2>3
    <3>2. /\ e \in Errands /\ e.by = "mailbox" /\ e.body.type = "key"
          /\ e.body.key = more.key /\ e.box = ThreadOf(m)
      BY <1>1, <1>4, <1>6, <3>1, KeyErrands
    <3>. QED  BY <1>6, <3>2
  <2>. QED  BY <2>1, <2>2, <2>3
<1>9. todo \in SUBSET Errands
  BY <1>8
<1>. HIDE DEF todo
<1>. QED  BY <1>1, <1>3, <1>6, <1>7, <1>8, <1>9, PressKeeps

LEMMA PostKeeps ==
  ASSUME IInv, AllIdle, NEW j \in Job, Post(j)
  PROVE  IInv'
<1>. DEFINE e == Errand(PostsUnder(channel.key), Body("post", channel.epoch, channel.key),
                        channel.nextOut, 1, "mailbox")
<1>1. TypeOK /\ channel # Nothing /\ channel \in Channels
  BY DEF IInv, TypeOK, Post
<1>2. channel.key \in Nat /\ channel.epoch \in Nat /\ channel.nextOut \in Nat
  BY <1>1 DEF Channels
<1>3. e \in Errands
  BY <1>2, BoxTypes, ErrandTypes
<1>4. e.by = "mailbox" /\ e.body.type = "post" /\ e.body.key = channel.key
  BY DEF Errand, Body
<1>5. Press(j, "post", channel, {e})
  BY DEF Post
<1>. HIDE DEF e
<1>6. {e} \in SUBSET Errands
  BY <1>3
<1>. QED  BY <1>1, <1>4, <1>5, <1>6, PressKeeps

LEMMA WriteKeeps ==
  ASSUME IInv, AllIdle, NEW j \in Job, NEW m \in Member, Write(j, m)
  PROVE  IInv'
<1>. DEFINE e == Errand(ThreadOf(m), Body("text", 0, 0), nextOut[m], 1, "chain")
<1>1. nextOut[m] \in Nat
  BY DEF IInv, TypeOK
<1>2. e \in Errands
  BY <1>1, BoxTypes, ErrandTypes
<1>3. e.by = "chain" /\ e.body.type = "text"
  BY DEF Errand, Body
<1>4. Press(j, "text", Nothing, {e})
  BY DEF Write
<1>. HIDE DEF e
<1>5. {e} \in SUBSET Errands
  BY <1>2
<1>. QED  BY <1>3, <1>4, <1>5, PressKeeps

LEMMA BeginKeeps ==
  ASSUME IInv, NEW j \in Job, NEW e, Begin(j, e)
  PROVE  IInv'
<1>. DEFINE dated == [e EXCEPT !.body.at = clock + 1]
<1>1. TypeOK /\ TypeOK' /\ ~Idle(j) /\ job[j] \in Jobs
  BY BeginTyped, JobTyped DEF IInv, Begin
<1>2. e \in SendsOf(j) /\ e \in Errands
  BY <1>1 DEF Begin, SendsOf, Jobs
<1>3. /\ dated.box = e.box
      /\ dated.by = e.by
      /\ dated.body.type = e.body.type
      /\ dated.body.key = e.body.key
      /\ dated \in Errands
  BY <1>1, <1>2, DatedTyped
<1>. HIDE DEF dated
<1>4. job' = [job EXCEPT ![j].todo = @ \ {e}, ![j].now = dated,
                         ![j].seq = e.from, ![j].free = FALSE]
  BY DEF Begin, dated
<1>5. /\ job'[j].todo = job[j].todo \ {e}
      /\ job'[j].now = dated
      /\ job'[j].kind = job[j].kind
      /\ job'[j].channel = job[j].channel
      /\ \A i \in Job : i # j => job'[i] = job[i]
  BY <1>1, <1>4 DEF TypeOK, Jobs
<1>6. job'[j] # Nothing /\ dated \in SendsOf(j)'
  <2>1. e.from \in Nat /\ job[j].todo \ {e} \in SUBSET Errands
    BY <1>1, <1>2 DEF Jobs, Errands
  <2>2. job'[j] \in Jobs
    BY <1>1, <1>3, <1>4, <2>1 DEF TypeOK, Jobs
  <2>. QED  BY <1>3, <1>5, <2>2, NothingAssumption DEF SendsOf
<1>7. \A f \in SendsOf(j)' : f \in SendsOf(j) \/ f = dated
  BY <1>5 DEF SendsOf
<1>8. /\ pressed' = pressed /\ channel' = channel /\ letters' = letters
      /\ \A m \in Member : Given(m)' = Given(m)
  BY DEF Begin, business, members, Given, AllPins
<1>. QED  BY <1>1, <1>2, <1>3, <1>5, <1>6, <1>7, <1>8, WorkKeeps DEF IInv, LettersAreTexts

LEMMA LookKeeps ==
  ASSUME IInv, NEW j \in Job, Look(j)
  PROVE  IInv'
<1>1. TypeOK /\ TypeOK' /\ ~Idle(j) /\ job[j] \in Jobs
  BY LookTyped, JobTyped DEF IInv, Look, AtWork
<1>2. \/ job' = [job EXCEPT ![j].seq = job[j].seq + 1]
      \/ job' = [job EXCEPT ![j].free = TRUE]
  BY DEF Look
<1>3. /\ job'[j].todo = job[j].todo
      /\ job'[j].now = job[j].now
      /\ job'[j].kind = job[j].kind
      /\ job'[j].channel = job[j].channel
      /\ job'[j].sent = job[j].sent
      /\ \A i \in Job : i # j => job'[i] = job[i]
  BY <1>1, <1>2 DEF TypeOK, Jobs
<1>4. job'[j] # Nothing
  <2>1. job[j].seq + 1 \in Nat
    BY <1>1 DEF Jobs
  <2>2. [job[j] EXCEPT !.seq = job[j].seq + 1] \in Jobs /\ [job[j] EXCEPT !.free = TRUE] \in Jobs
    BY <1>1, <2>1 DEF Jobs
  <2>3. job'[j] \in Jobs
    BY <1>1, <1>2, <2>2 DEF TypeOK
  <2>. QED  BY <2>3, NothingAssumption
<1>5. SendsOf(j)' = SendsOf(j)
  BY <1>3 DEF SendsOf
<1>6. job[j].kind = "post" /\ SendsOf(j) = {} => job[j].sent # {}
  BY <1>1 DEF IInv, JobsSound, PostJob
<1>7. /\ pressed' = pressed /\ channel' = channel /\ letters' = letters
      /\ \A m \in Member : Given(m)' = Given(m)
  BY DEF Look, business, members, Given, AllPins
<1>. QED  BY <1>1, <1>3, <1>4, <1>5, <1>6, <1>7, WorkKeeps DEF IInv, LettersAreTexts

\* What is left of a job whose send is given up.
LEMMA GiveUpLeaves ==
  ASSUME IInv, NEW j \in Job, AtWork(j), GiveUp(j)
  PROVE  /\ \A i \in Job : i # j => job'[i] = job[i]
         /\ job[j].kind # "people" => job'[j] = Nothing
         /\ job[j].kind = "people" => /\ job'[j] # Nothing
                                      /\ job'[j].kind = job[j].kind
                                      /\ job'[j].channel = job[j].channel
                                      /\ SendsOf(j)' \subseteq SendsOf(j)
<1>1. job[j] \in Jobs /\ job \in [Job -> Jobs \cup {Nothing}]
  BY JobTyped DEF IInv, AtWork, TypeOK
<1>2. [job[j] EXCEPT !.now = Nothing] \in Jobs
  BY <1>1 DEF Jobs
<1>3. /\ [job[j] EXCEPT !.now = Nothing].kind = job[j].kind
      /\ [job[j] EXCEPT !.now = Nothing].channel = job[j].channel
      /\ [job[j] EXCEPT !.now = Nothing].todo = job[j].todo
      /\ [job[j] EXCEPT !.now = Nothing].now = Nothing
  BY <1>1 DEF Jobs
<1>4. /\ \A i \in Job : i # j => job'[i] = job[i]
      /\ job[j].kind # "people" => job'[j] = Nothing
      /\ job[j].kind = "people" => job'[j] = [job[j] EXCEPT !.now = Nothing]
  BY <1>1 DEF GiveUp
<1>5. CASE job[j].kind # "people"
  BY <1>4, <1>5
<1>6. CASE job[j].kind = "people"
  <2>1. /\ job'[j] # Nothing
        /\ job'[j].kind = job[j].kind
        /\ job'[j].channel = job[j].channel
        /\ job'[j].todo = job[j].todo
        /\ job'[j].now = Nothing
    BY <1>2, <1>3, <1>4, <1>6, NothingAssumption
  <2>2. SendsOf(j)' \subseteq SendsOf(j)
    BY <2>1 DEF SendsOf
  <2>. QED  BY <1>4, <1>6, <2>1, <2>2
<1>. QED  BY <1>5, <1>6

LEMMA FailKeeps ==
  ASSUME IInv, NEW j \in Job, Fail(j)
  PROVE  IInv'
<1>1. TypeOK /\ TypeOK' /\ ~Idle(j) /\ AtWork(j) /\ GiveUp(j)
  BY FailTyped DEF IInv, Fail, AtWork
<1>2. /\ pressed' = pressed /\ channel' = channel /\ letters' = letters
      /\ \A m \in Member : Given(m)' = Given(m)
  BY DEF Fail, business, members, Given, AllPins
<1>. QED  BY <1>1, <1>2, GiveUpLeaves, WorkKeeps DEF IInv, LettersAreTexts

\* What a job stores is for those it may be for.
LEMMA StoreSound ==
  ASSUME IInv, NEW j \in Job, AtWork(j), got' = got,
         AllPins' \subseteq AllPins \cup {NewPin(job[j].now, job[j].seq)},
         letters' = letters \/ Store(job[j].now, job[j].seq)
  PROVE  /\ \A x \in letters' : x.body.type = "text"
         /\ \A m \in Member : \A k \in Given(m)' :
              \/ k \in Given(m)
              \/ /\ job[j].kind = "people"
                 /\ k = job[j].channel.key
                 /\ m \in job[j].channel.members
<1>. DEFINE e == job[j].now
<1>1. TypeOK /\ ~Idle(j) /\ job[j] \in Jobs /\ e \in Errands /\ job[j].seq \in Nat
  BY NowTyped DEF IInv, AtWork
<1>2. e \in SendsOf(j)
  BY DEF AtWork, SendsOf
<1>3. /\ job[j].kind = "people" => PeopleJob(j)
      /\ job[j].kind = "post" => PostJob(j)
      /\ job[j].kind = "text" => TextJob(j)
  BY <1>1 DEF IInv, JobsSound
<1>4. job[j].kind \in {"people", "post", "text"}
  BY <1>1 DEF Jobs
<1>5. e.by = "chain" => e.body.type = "text"
  BY <1>2, <1>3, <1>4 DEF PeopleJob, PostJob, TextJob
<1>6. \A x \in letters' : x.body.type = "text"
  BY <1>5 DEF Store, Pinned, IInv, LettersAreTexts
<1>7. ASSUME NEW m \in Member, NEW k \in Given(m)', k \notin Given(m)
      PROVE  /\ job[j].kind = "people"
             /\ k = job[j].channel.key
             /\ m \in job[j].channel.members
  <2>1. e.box = ThreadOf(m) /\ e.body.type = "key" /\ e.body.key = k
    BY <1>1, <1>7, StoreGives
  <2>2. job[j].kind = "people" /\ PeopleJob(j)
    BY <1>2, <1>3, <1>4, <2>1 DEF PostJob, TextJob
  <2>3. k = job[j].channel.key
    BY <1>2, <2>1, <2>2 DEF PeopleJob
  <2>4. PICK n \in job[j].channel.members : e.box = ThreadOf(n)
    BY <1>2, <2>1, <2>2 DEF PeopleJob
  <2>5. n \in Member
    BY <2>2 DEF PeopleJob, Channels
  <2>6. n = m
    BY <2>1, <2>4, <2>5, OneThread
  <2>. QED  BY <2>2, <2>3, <2>6
<1>. QED  BY <1>6, <1>7

LEMMA SentKeeps ==
  ASSUME IInv, NEW j \in Job, Sent(j)
  PROVE  IInv'
<1>. DEFINE new == [errand |-> job[j].now, seq |-> job[j].seq]
<1>1. TypeOK /\ TypeOK' /\ ~Idle(j) /\ AtWork(j) /\ job[j] \in Jobs
  BY SentTyped, JobTyped DEF IInv, Sent, AtWork
<1>2. /\ job' = [job EXCEPT ![j].now = Nothing, ![j].sent = @ \cup {new}]
      /\ new \in [errand : Errands, seq : Nat]
  BY <1>1, NowTyped DEF Sent
<1>. HIDE DEF new
<1>3. /\ job'[j].todo = job[j].todo
      /\ job'[j].now = Nothing
      /\ job'[j].kind = job[j].kind
      /\ job'[j].channel = job[j].channel
      /\ new \in job'[j].sent
      /\ \A i \in Job : i # j => job'[i] = job[i]
  BY <1>1, <1>2 DEF TypeOK, Jobs
<1>4. job'[j] # Nothing
  <2>1. job'[j] = [job[j] EXCEPT !.now = Nothing, !.sent = @ \cup {new}]
    BY <1>1, <1>2 DEF TypeOK
  <2>2. job[j] \in Jobs => [job[j] EXCEPT !.now = Nothing, !.sent = @ \cup {new}] \in Jobs
    BY <1>2 DEF Jobs
  <2>. QED  BY <1>1, <2>1, <2>2, NothingAssumption
<1>5. SendsOf(j)' \subseteq SendsOf(j)
  BY <1>3 DEF SendsOf
<1>6. pressed' = pressed /\ channel' = channel /\ got' = got
  BY DEF Sent, business, members, history
<1>7. /\ Store(job[j].now, job[j].seq)
      /\ AllPins' \subseteq AllPins \cup {NewPin(job[j].now, job[j].seq)}
  BY DEF Sent, Store, Deliver, NewPin, AllPins
<1>. QED  BY <1>1, <1>3, <1>4, <1>5, <1>6, <1>7, StoreSound, WorkKeeps

LEMMA UnheardKeeps ==
  ASSUME IInv, NEW j \in Job, Unheard(j)
  PROVE  IInv'
<1>1. TypeOK' /\ ~Idle(j) /\ AtWork(j) /\ GiveUp(j)
  BY UnheardTyped DEF IInv, Unheard, AtWork
<1>2. /\ pressed' = pressed /\ channel' = channel /\ got' = got /\ letters' = letters
      /\ AllPins' \subseteq AllPins \cup {NewPin(job[j].now, job[j].seq)}
  BY DEF Unheard, business, members, NewPin, AllPins
<1>. QED  BY <1>1, <1>2, StoreSound, GiveUpLeaves, WorkKeeps

\* What a job of the members saves, and a post saved, leave the list closed.
LEMMA SaveKeeps ==
  ASSUME IInv, NEW j \in Job, Save(j)
  PROVE  IInv'
<1>1. TypeOK /\ TypeOK' /\ JobsSound /\ ~Idle(j) /\ job[j] \in Jobs
  BY SaveTyped, JobTyped DEF IInv, Save
<1>2. \A i \in Job : Idle(i)' /\ (i # j => Idle(i))
  BY <1>1 DEF IInv, OneAtATime, Save, Idle, TypeOK
<1>3. /\ pressed' = pressed /\ letters' = letters /\ channel' = Saved(j)
      /\ \A m \in Member : Given(m)' = Given(m)
  BY DEF Save, members, Given, AllPins
<1>4. channel' # Nothing => channel'.key <= pressed /\ Closed(channel')
  <2>1. CASE job[j].kind = "people"
    <3>1. channel' = job[j].channel
      BY <1>1, <1>3, <2>1, SavedTyped
    <3>2. job[j].channel.key <= pressed /\ PeopleJob(j)
      BY <1>1, <2>1 DEF IInv, KeysNumbered, JobsSound
    <3>. QED  BY <3>1, <3>2 DEF PeopleJob
  <2>2. CASE job[j].kind # "people"
    <3>1. channel # Nothing => channel.key <= pressed /\ Closed(channel)
      BY <1>2, <2>2 DEF IInv, KeysNumbered, ListIsClosed
    <3>2. CASE job[j].kind = "post"
      <4>1. channel # Nothing
        BY <1>1, <3>2 DEF JobsSound, PostJob
      <4>2. channel'.members = channel.members /\ channel'.key = channel.key
        BY <1>1, <1>3, <3>2, SavedTyped
      <4>. QED  BY <3>1, <4>1, <4>2 DEF Closed
    <3>3. CASE job[j].kind = "text"
      BY <1>1, <1>3, <3>1, <3>3, SavedTyped
    <3>. QED  BY <1>1, <2>2, <3>2, <3>3 DEF Jobs
  <2>. QED  BY <2>1, <2>2
<1>5. OneAtATime'
  BY <1>2 DEF OneAtATime
<1>6. KeysNumbered'
  BY <1>2, <1>3, <1>4 DEF IInv, KeysNumbered
<1>7. JobsSound'
  BY <1>2 DEF JobsSound
<1>8. LettersAreTexts'
  BY <1>3 DEF IInv, LettersAreTexts
<1>9. ListIsClosed'
  <2>1. channel' # Nothing => \A m \in Member : channel'.key \in Given(m)' => m \in channel'.members
    BY <1>3, <1>4 DEF Closed
  <2>. QED  BY <2>1 DEF ListIsClosed, Closed
<1>. QED  BY <1>1, <1>5, <1>6, <1>7, <1>8, <1>9 DEF IInv

\* Steps that only take pins away give nobody anything.
LEMMA FewerPins ==
  ASSUME AllPins' \subseteq AllPins, got' = got, NEW m \in Member, NEW k \in Given(m)'
  PROVE  k \in Given(m)
BY GivenKeys

LEMMA SeeingKeeps ==
  ASSUME IInv, AllIdle, Seeing
  PROVE  IInv'
<1>1. PICK heard \in SUBSET Heard : CheckSeen(heard)
  BY DEF Seeing
<1>2. channel # Nothing
  BY DEF Seeing
<1>3. /\ TypeOK'
      /\ channel'.members = channel.members
      /\ channel'.key = channel.key
      /\ AllPins' \subseteq AllPins
  BY <1>1, <1>2, CheckSeenTyped DEF IInv, CheckSeen, AllPins
<1>4. job' = job /\ pressed' = pressed /\ letters' = letters /\ got' = got
  BY <1>1 DEF CheckSeen, members
<1>. QED  BY <1>2, <1>3, <1>4, FewerPins, RestKeeps

\* A post that is read adds a receipt at most.
LEMMA ReadPostKeeps ==
  ASSUME IInv, NEW n \in Member, NEW epoch \in Epoch, ReadPost(n, epoch)
  PROVE  IInv'
<1>1. TypeOK' /\ \A p \in AllPins' \ AllPins : p.body.type = "seen"
  BY ReadPostTyped DEF IInv, AllPins
<1>2. /\ job' = job /\ pressed' = pressed /\ letters' = letters /\ got' = got
      /\ channel' = channel
  BY DEF ReadPost, business
<1>3. \A m \in Member : \A k \in Given(m)' : k \in Given(m)
  BY <1>1, <1>2, GivenKeys
<1>. QED  BY <1>1, <1>2, <1>3, RestKeeps

LEMMA ReadingKeeps ==
  ASSUME IInv, NEW n \in Member, Reading(n)
  PROVE  IInv'
<1>1. ASSUME NEW shield \in BOOLEAN, NEW dropping \in BOOLEAN, ReadThread(n, shield, dropping)
      PROVE  IInv'
  <2>1. TypeOK'
    BY <1>1, ReadThreadTyped DEF IInv
  <2>2. job' = job /\ pressed' = pressed /\ letters' = letters /\ channel' = channel
    BY <1>1 DEF ReadThread, business
  <2>3. \A m \in Member : \A k \in Given(m)' : k \in Given(m)
    BY <1>1, ReadingGives DEF IInv
  <2>. QED  BY <2>1, <2>2, <2>3, RestKeeps
<1>. QED  BY <1>1, ReadPostKeeps DEF Reading

LEMMA RelayKeeps ==
  ASSUME IInv, RelayWorks
  PROVE  IInv'
<1>1. /\ TypeOK' /\ AllPins' \subseteq AllPins
      /\ \A x \in letters' : x \in letters \/ x.body.type = "text"
  BY RelayTyped DEF IInv
<1>2. job' = job /\ pressed' = pressed /\ got' = got /\ channel' = channel
  BY DEF RelayWorks, Land, business, members
<1>. QED  BY <1>1, <1>2, FewerPins, RestKeeps

LEMMA NextKeeps ==
  ASSUME IInv, [OrderlyNext]_vars
  PROVE  IInv'
<1>1. ASSUME NEW j \in Job, OrderlyStart(j)
      PROVE  IInv'
  BY <1>1, CreateKeeps, SaveMembersKeeps, PostKeeps, WriteKeeps DEF OrderlyStart, Change
<1>2. ASSUME NEW j \in Job, Work(j)
      PROVE  IInv'
  BY <1>2, BeginKeeps, LookKeeps, FailKeeps, SentKeeps, UnheardKeeps, SaveKeeps DEF Work
<1>3. CASE UNCHANGED vars
  <2>1. TypeOK'
    BY <1>3 DEF IInv, TypeOK, vars
  <2>2. /\ job' = job /\ pressed' = pressed /\ letters' = letters /\ channel' = channel
        /\ AllPins' = AllPins /\ got' = got
    BY <1>3 DEF vars, AllPins
  <2>. QED  BY <2>1, <2>2, FewerPins, RestKeeps
<1>. QED  BY <1>1, <1>2, <1>3, SeeingKeeps, ReadingKeeps, RelayKeeps DEF OrderlyNext

-----------------------------------------------------------------------------
(* What IInv shows.                                                        *)

\* In orderly use, whatever fails and however often members come and go, the invariant
\* holds: one job at a time (the screens of app/work and chain/Channel.tsx), no key
\* above the last one made, and a list of members that names everybody who was ever given
\* the channel's key.
THEOREM OrderlySound == OrderlySpec => []IInv
<1>1. Init => IInv
  BY InitSound
<1>2. IInv /\ [OrderlyNext]_vars => IInv'
  BY NextKeeps
<1>. QED  BY <1>1, <1>2, PTL DEF OrderlySpec

\* Books, jobs, pins and what members have keep their types (books/channels.ts, the types
\* of packages/mailbox/src/client.ts).
THEOREM OrderlyTyped == OrderlySpec => []TypeOK
<1>1. IInv => TypeOK
  BY DEF IInv
<1>. QED  BY <1>1, OrderlySound, PTL

\* Of all steps only a job's send of a post puts a post onto the relay.
LEMMA OnlySendsPost ==
  ASSUME IInv, [OrderlyNext]_vars, NEW p \in AllPins' \ AllPins, p.body.type = "post"
  PROVE  \E j \in Job : /\ ~Idle(j)
                        /\ job[j].kind = "post"
                        /\ p.body.key = channel.key
<1>1. ASSUME NEW j \in Job, AtWork(j), p = NewPin(job[j].now, job[j].seq)
      PROVE  ~Idle(j) /\ job[j].kind = "post" /\ p.body.key = channel.key
  <2>. DEFINE e == job[j].now
  <2>1. ~Idle(j) /\ e \in SendsOf(j) /\ job[j] \in Jobs
    BY <1>1, JobTyped DEF AtWork, SendsOf, IInv
  <2>2. p.body = e.body
    BY <1>1 DEF NewPin, Pinned
  <2>3. /\ job[j].kind = "people" => PeopleJob(j)
        /\ job[j].kind = "post" => PostJob(j)
        /\ job[j].kind = "text" => TextJob(j)
    BY <2>1 DEF IInv, JobsSound
  <2>4. job[j].kind \in {"people", "post", "text"}
    BY <2>1 DEF Jobs
  <2>. QED  BY <2>1, <2>2, <2>3, <2>4 DEF PeopleJob, PostJob, TextJob
<1>2. ASSUME NEW j \in Job, OrderlyStart(j)
      PROVE  FALSE
  BY <1>2 DEF OrderlyStart, Change, Create, SaveMembers, Post, Write, Press, AllPins
<1>3. ASSUME NEW j \in Job, Work(j)
      PROVE  AtWork(j) /\ p = NewPin(job[j].now, job[j].seq)
  BY <1>3 DEF Work, Begin, Look, Fail, Sent, Unheard, Save, Store, Deliver, NewPin, AllPins
<1>4. ~Seeing
  BY CheckSeenTyped DEF Seeing, CheckSeen, IInv, AllPins
<1>5. ASSUME NEW m \in Member, Reading(m)
      PROVE  FALSE
  <2>1. ASSUME NEW shield \in BOOLEAN, NEW dropping \in BOOLEAN, ReadThread(m, shield, dropping)
        PROVE  FALSE
    BY <2>1, ReadThreadTyped DEF IInv, ReadThread, AllPins
  <2>2. ASSUME NEW epoch \in Epoch, ReadPost(m, epoch)
        PROVE  FALSE
    BY <2>2, ReadPostTyped DEF IInv, AllPins
  <2>. QED  BY <1>5, <2>1, <2>2 DEF Reading
<1>6. ~RelayWorks
  BY RelayTyped DEF IInv
<1>7. AllPins' # AllPins
  OBVIOUS
<1>8. PICK j \in Job : Work(j)
  BY <1>2, <1>4, <1>5, <1>6, <1>7 DEF OrderlyNext, vars, AllPins
<1>. QED  BY <1>1, <1>3, <1>8

\* Whoever is not in the channel when a post goes out has never been given its key, for any
\* members and any order in which they come and go (Channel.tsx, saveMembers; books/
\* channels.ts, removeMembers): orderly use has no window in which a post is sealed with a
\* key that somebody outside has.
THEOREM OrderlyClosed == OrderlySpec => OnlyMembersRead
<1>1. IInv /\ [OrderlyNext]_vars =>
        [\A p \in AllPins' \ AllPins : p.body.type = "post" =>
           \A m \in Member : p.body.key \in Given(m) => m \in channel.members]_vars
  <2>. SUFFICES ASSUME IInv, [OrderlyNext]_vars, NEW p \in AllPins' \ AllPins, p.body.type = "post",
                       NEW m \in Member, p.body.key \in Given(m)
                PROVE  m \in channel.members
    OBVIOUS
  <2>1. PICK j \in Job : ~Idle(j) /\ job[j].kind = "post" /\ p.body.key = channel.key
    BY OnlySendsPost
  <2>2. channel # Nothing
    BY <2>1 DEF IInv, JobsSound, PostJob
  <2>3. \A i \in Job : Idle(i) \/ job[i].kind # "people"
    BY <2>1 DEF IInv, OneAtATime
  <2>. QED  BY <2>1, <2>2, <2>3 DEF IInv, ListIsClosed, Closed
<1>. QED  BY <1>1, OrderlySound, PTL DEF OrderlySpec, OnlyMembersRead

-----------------------------------------------------------------------------
(* What a step does to the job it is of.                                   *)

PeopleAtWork(j) == ~Idle(j) /\ job[j].kind = "people"

LEMMA BeginDoes ==
  ASSUME TypeOK, NEW j \in Job, NEW e, Begin(j, e)
  PROVE  /\ job[j] \in Jobs /\ e \in job[j].todo /\ e \in Errands /\ job[j].now = Nothing
         /\ job'[j] \in Jobs /\ job'[j] # Nothing
         /\ \A i \in Job : i # j => job'[i] = job[i]
         /\ job'[j].kind = job[j].kind
         /\ job'[j].channel = job[j].channel
         /\ job'[j].sent = job[j].sent
         /\ job'[j].todo = job[j].todo \ {e}
         /\ job'[j].seq = e.from
         /\ job'[j].free = FALSE
         /\ job'[j].now \in Errands /\ job'[j].now # Nothing
         /\ job'[j].now.box = e.box
         /\ job'[j].now.by = e.by
         /\ job'[j].now.from = e.from
         /\ job'[j].now.body.type = e.body.type
         /\ job'[j].now.body.key = e.body.key
         /\ job'[j].now.body.epoch = e.body.epoch
<1>1. job[j] \in Jobs /\ e \in job[j].todo /\ job[j].now = Nothing
  BY JobTyped DEF Begin
<1>2. e \in Errands /\ e.from \in Nat /\ job[j].todo \ {e} \in SUBSET Errands
  BY <1>1 DEF Jobs, Errands
<1>. DEFINE dated == [e EXCEPT !.body.at = clock + 1]
<1>3. /\ dated \in Errands
      /\ dated.box = e.box
      /\ dated.by = e.by
      /\ dated.body.type = e.body.type
      /\ dated.body.key = e.body.key
  BY <1>2, DatedTyped
<1>4. dated.from = e.from
  BY <1>2 DEF Errands
<1>5. dated.body.epoch = e.body.epoch
  <2>1. e.body \in Bodies
    BY <1>2 DEF Errands
  <2>2. [e.body EXCEPT !.at = clock + 1].epoch = e.body.epoch
    BY <2>1 DEF Bodies
  <2>3. dated = [e EXCEPT !.body = [e.body EXCEPT !.at = clock + 1]]
    OBVIOUS
  <2>. QED  BY <1>2, <2>2, <2>3 DEF Errands
<1>6. job' = [job EXCEPT ![j].todo = @ \ {e}, ![j].now = dated,
                         ![j].seq = e.from, ![j].free = FALSE]
  BY DEF Begin
<1>. HIDE DEF dated
<1>7. /\ job'[j].todo = job[j].todo \ {e}
      /\ job'[j].now = dated
      /\ job'[j].kind = job[j].kind
      /\ job'[j].channel = job[j].channel
      /\ job'[j].sent = job[j].sent
      /\ job'[j].seq = e.from
      /\ job'[j].free = FALSE
      /\ \A i \in Job : i # j => job'[i] = job[i]
  BY <1>1, <1>6 DEF TypeOK, Jobs
<1>8. job'[j] \in Jobs
  BY <1>1, <1>2, <1>3, <1>6 DEF TypeOK, Jobs
<1>9. job'[j] # Nothing /\ dated # Nothing
  BY <1>3, <1>8, NothingAssumption
<1>. QED  BY <1>1, <1>2, <1>3, <1>4, <1>5, <1>7, <1>8, <1>9

LEMMA LookDoes ==
  ASSUME TypeOK, NEW j \in Job, Look(j)
  PROVE  /\ AtWork(j) /\ job[j] \in Jobs
         /\ job'[j] \in Jobs /\ job'[j] # Nothing
         /\ \A i \in Job : i # j => job'[i] = job[i]
         /\ job'[j].kind = job[j].kind
         /\ job'[j].channel = job[j].channel
         /\ job'[j].sent = job[j].sent
         /\ job'[j].todo = job[j].todo
         /\ job'[j].now = job[j].now
         /\ \/ /\ IsTaken(job[j].now, job[j].seq)
               /\ job'[j].seq = job[j].seq + 1
               /\ job'[j].free = FALSE
            \/ /\ ~IsTaken(job[j].now, job[j].seq)
               /\ job'[j].seq = job[j].seq
<1>1. job[j] \in Jobs /\ AtWork(j) /\ job[j].free = FALSE
  BY JobTyped DEF Look, AtWork, Jobs
<1>2. job[j].seq + 1 \in Nat
  BY <1>1 DEF Jobs
<1>3. \/ IsTaken(job[j].now, job[j].seq) /\ job' = [job EXCEPT ![j].seq = job[j].seq + 1]
      \/ ~IsTaken(job[j].now, job[j].seq) /\ job' = [job EXCEPT ![j].free = TRUE]
  BY DEF Look
<1>4. [job[j] EXCEPT !.seq = @ + 1] \in Jobs /\ [job[j] EXCEPT !.free = TRUE] \in Jobs
  BY <1>1, <1>2 DEF Jobs
<1>5. job'[j] \in Jobs
  BY <1>3, <1>4 DEF TypeOK
<1>6. /\ job'[j].todo = job[j].todo
      /\ job'[j].now = job[j].now
      /\ job'[j].kind = job[j].kind
      /\ job'[j].channel = job[j].channel
      /\ job'[j].sent = job[j].sent
      /\ \A i \in Job : i # j => job'[i] = job[i]
      /\ \/ /\ IsTaken(job[j].now, job[j].seq)
            /\ job'[j].seq = job[j].seq + 1
            /\ job'[j].free = FALSE
         \/ /\ ~IsTaken(job[j].now, job[j].seq)
            /\ job'[j].seq = job[j].seq
  BY <1>1, <1>3 DEF TypeOK, Jobs
<1>. QED  BY <1>1, <1>5, <1>6, NothingAssumption

\* A send that is given up.
LEMMA GiveUpDoes ==
  ASSUME TypeOK, NEW j \in Job, AtWork(j), GiveUp(j)
  PROVE  /\ job[j] \in Jobs
         /\ \A i \in Job : i # j => job'[i] = job[i]
         /\ job[j].kind # "people" => job'[j] = Nothing
         /\ job[j].kind = "people" => /\ job'[j] \in Jobs /\ job'[j] # Nothing
                                      /\ job'[j].kind = job[j].kind
                                      /\ job'[j].channel = job[j].channel
                                      /\ job'[j].sent = job[j].sent
                                      /\ job'[j].todo = job[j].todo
                                      /\ job'[j].now = Nothing
<1>1. job[j] \in Jobs /\ job \in [Job -> Jobs \cup {Nothing}]
  BY JobTyped DEF AtWork, TypeOK
<1>2. [job[j] EXCEPT !.now = Nothing] \in Jobs
  BY <1>1 DEF Jobs
<1>3. /\ [job[j] EXCEPT !.now = Nothing].kind = job[j].kind
      /\ [job[j] EXCEPT !.now = Nothing].channel = job[j].channel
      /\ [job[j] EXCEPT !.now = Nothing].todo = job[j].todo
      /\ [job[j] EXCEPT !.now = Nothing].sent = job[j].sent
      /\ [job[j] EXCEPT !.now = Nothing].now = Nothing
  BY <1>1 DEF Jobs
<1>4. /\ \A i \in Job : i # j => job'[i] = job[i]
      /\ job[j].kind # "people" => job'[j] = Nothing
      /\ job[j].kind = "people" => job'[j] = [job[j] EXCEPT !.now = Nothing]
  BY <1>1 DEF GiveUp
<1>. QED  BY <1>1, <1>2, <1>3, <1>4, NothingAssumption

LEMMA SentDoes ==
  ASSUME TypeOK, NEW j \in Job, Sent(j)
  PROVE  /\ AtWork(j) /\ job[j] \in Jobs /\ job[j].free
         /\ Store(job[j].now, job[j].seq)
         /\ job'[j] \in Jobs /\ job'[j] # Nothing
         /\ \A i \in Job : i # j => job'[i] = job[i]
         /\ job'[j].kind = job[j].kind
         /\ job'[j].channel = job[j].channel
         /\ job'[j].todo = job[j].todo
         /\ job'[j].now = Nothing
         /\ job'[j].sent = job[j].sent \cup {[errand |-> job[j].now, seq |-> job[j].seq]}
<1>. DEFINE new == [errand |-> job[j].now, seq |-> job[j].seq]
<1>1. AtWork(j) /\ job[j] \in Jobs /\ job[j].free /\ Store(job[j].now, job[j].seq)
  BY JobTyped DEF Sent, AtWork
<1>2. new \in [errand : Errands, seq : Nat]
  BY <1>1, NowTyped
<1>3. job' = [job EXCEPT ![j].now = Nothing, ![j].sent = @ \cup {new}]
  BY DEF Sent
<1>. HIDE DEF new
<1>4. job'[j] \in Jobs
  BY <1>1, <1>2, <1>3 DEF TypeOK, Jobs
<1>5. /\ job'[j].todo = job[j].todo
      /\ job'[j].now = Nothing
      /\ job'[j].kind = job[j].kind
      /\ job'[j].channel = job[j].channel
      /\ job'[j].sent = job[j].sent \cup {new}
      /\ \A i \in Job : i # j => job'[i] = job[i]
  BY <1>1, <1>3 DEF TypeOK, Jobs
<1>. QED  BY <1>1, <1>4, <1>5, NothingAssumption DEF new

\* A job that has just been pressed.
LEMMA PressDoes ==
  ASSUME TypeOK, NEW j \in Job, NEW kind \in {"people", "post", "text"},
         NEW snapshot \in Channels \cup {Nothing}, NEW todo \in SUBSET Errands,
         Press(j, kind, snapshot, todo)
  PROVE  /\ Idle(j) /\ job'[j] # Nothing
         /\ \A i \in Job : i # j => job'[i] = job[i]
         /\ job'[j].kind = kind
         /\ job'[j].channel = snapshot
         /\ job'[j].todo = todo
         /\ job'[j].now = Nothing
         /\ job'[j].sent = {}
         /\ pressed' = pressed + 1
         /\ pins' = pins /\ letters' = letters /\ channel' = channel /\ nextOut' = nextOut
         /\ clock' = clock /\ today' = today /\ nextIn' = nextIn /\ got' = got
         /\ nextPost' = nextPost /\ kept' = kept
         /\ late' = late /\ AllPins' = AllPins /\ outcome' = outcome /\ owed' = owed
<1>. DEFINE new == [kind |-> kind, channel |-> snapshot, todo |-> todo, now |-> Nothing,
                    seq |-> 0, free |-> FALSE, sent |-> {}]
<1>1. new \in Jobs
  BY DEF Jobs
<1>2. new # Nothing
  BY <1>1, NothingAssumption
<1>. QED  BY <1>2 DEF Press, TypeOK, business, members, history, AllPins

-----------------------------------------------------------------------------
(* Keys and their numbers.                                                 *)

\* Somewhere key k stands next to the number e.
Numbered(k, e) ==
  \/ channel # Nothing /\ channel.key = k /\ channel.epoch = e
  \/ \E j \in Job : PeopleAtWork(j) /\ job[j].channel.key = k /\ job[j].channel.epoch = e
  \/ \E m \in Member : \E b \in got[m] : b.type = "key" /\ b.key = k /\ b.epoch = e
  \/ \E p \in AllPins : p.body.type \in {"key", "post"} /\ p.body.key = k /\ p.body.epoch = e

\* A key has one number, and a number one key.
OneKey ==
  \A k, l, e, f \in Nat : Numbered(k, e) /\ Numbered(l, f) => (k = l <=> e = f)

\* No number is above the one of the channel, or of the change that is being made to it.
NumbersSoFar ==
  \A k, e \in Nat : Numbered(k, e) =>
    /\ k <= pressed
    /\ \/ channel # Nothing /\ e <= channel.epoch
       \/ \E j \in Job : PeopleAtWork(j) /\ e <= job[j].channel.epoch

\* What is pinned, or may be yet, is in the box it belongs to.
InPlace(p) ==
  /\ p.slot.box[1] = "thread" => p.body.type \in {"key", "left", "text"} /\ p.until = Undated
  /\ p.slot.box[1] = "posts" => /\ p.body.type = "post"
                                /\ p.slot.box = PostsUnder(p.body.key)
                                /\ p.until = Undated
  /\ p.slot.box[1] = "seen" => p.body.type = "seen"

PinsInPlace == \A p \in AllPins : InPlace(p)

\* What a job has to send goes there, under the number of its key.
SendsInPlace(j) ==
  /\ job[j].kind = "people" =>
       /\ channel # Nothing => channel.epoch <= job[j].channel.epoch
       /\ \A e \in SendsOf(j) : /\ \E m \in Member : e.box = ThreadOf(m)
                                /\ e.body.type = "key" => e.body.epoch = job[j].channel.epoch
  /\ job[j].kind = "post" =>
       \A e \in SendsOf(j) : e.box = PostsUnder(channel.key) /\ e.body.epoch = channel.epoch
  /\ job[j].kind = "text" => \A e \in SendsOf(j) : \E m \in Member : e.box = ThreadOf(m)

KeyInv ==
  /\ OneKey /\ NumbersSoFar /\ PinsInPlace
  /\ \A j \in Job : ~Idle(j) => SendsInPlace(j)

LEMMA BoxKinds ==
  /\ \A m \in Member : ThreadOf(m)[1] = "thread"
  /\ \A k \in Nat : PostsUnder(k)[1] = "posts"
  /\ \A m \in Member, e \in Nat : SeenBy(m, e)[1] = "seen"
  /\ \A box \in Boxes : box[1] \in {"thread", "posts", "seen"}
BY DEF ThreadOf, PostsUnder, SeenBy, Boxes

LEMMA NumberedTyped ==
  ASSUME IInv, NEW k, NEW e, Numbered(k, e)
  PROVE  k \in Nat /\ e \in Nat
<1>1. TypeOK
  BY DEF IInv
<1>2. CASE channel # Nothing /\ channel.key = k /\ channel.epoch = e
  BY <1>1, <1>2 DEF TypeOK, Channels
<1>3. CASE \E j \in Job : PeopleAtWork(j) /\ job[j].channel.key = k /\ job[j].channel.epoch = e
  BY <1>3 DEF IInv, JobsSound, PeopleJob, PeopleAtWork, Channels
<1>4. CASE \E m \in Member : \E b \in got[m] : b.type = "key" /\ b.key = k /\ b.epoch = e
  BY <1>1, <1>4 DEF TypeOK, Bodies
<1>5. CASE \E p \in AllPins : p.body.type \in {"key", "post"} /\ p.body.key = k /\ p.body.epoch = e
  BY <1>1, <1>5 DEF TypeOK, AllPins, Stored, Bodies
<1>. QED  BY <1>2, <1>3, <1>4, <1>5 DEF Numbered

\* A step that puts no key next to a number where none was keeps what is said of them.
LEMMA NumbersKeep ==
  ASSUME IInv, OneKey, NumbersSoFar, pressed' = pressed,
         \A k, e \in Nat : Numbered(k, e)' => Numbered(k, e),
         channel # Nothing =>
           \/ channel' # Nothing /\ channel.epoch <= channel'.epoch /\ channel'.epoch \in Nat
           \/ \E j \in Job : PeopleAtWork(j)' /\ job'[j].channel \in Channels
                             /\ channel.epoch <= job'[j].channel.epoch,
         \A i \in Job : PeopleAtWork(i) =>
           \/ channel' # Nothing /\ job[i].channel.epoch <= channel'.epoch /\ channel'.epoch \in Nat
           \/ \E j \in Job : PeopleAtWork(j)' /\ job'[j].channel \in Channels
                             /\ job[i].channel.epoch <= job'[j].channel.epoch
  PROVE  OneKey' /\ NumbersSoFar'
<1>1. OneKey'
  BY DEF OneKey
<1>2. ASSUME NEW k \in Nat, NEW e \in Nat, Numbered(k, e)'
      PROVE  /\ k <= pressed'
             /\ \/ channel' # Nothing /\ e <= channel'.epoch
                \/ \E j \in Job : PeopleAtWork(j)' /\ e <= job'[j].channel.epoch
  <2>1. Numbered(k, e)
    BY <1>2
  <2>2. CASE channel # Nothing /\ e <= channel.epoch
    <3>1. channel.epoch \in Nat
      BY <2>2 DEF IInv, TypeOK, Channels
    <3>. QED  BY <2>1, <2>2, <3>1 DEF NumbersSoFar, Channels
  <2>3. ASSUME NEW i \in Job, PeopleAtWork(i), e <= job[i].channel.epoch
        PROVE  \/ channel' # Nothing /\ e <= channel'.epoch
               \/ \E j \in Job : PeopleAtWork(j)' /\ e <= job'[j].channel.epoch
    <3>1. job[i].channel.epoch \in Nat
      BY <2>3 DEF IInv, JobsSound, PeopleJob, PeopleAtWork, Channels
    <3>. QED  BY <2>3, <3>1 DEF Channels
  <2>4. /\ k <= pressed
        /\ \/ channel # Nothing /\ e <= channel.epoch
           \/ \E j \in Job : PeopleAtWork(j) /\ e <= job[j].channel.epoch
    BY <2>1 DEF NumbersSoFar
  <2>. QED  BY <2>2, <2>3, <2>4
<1>. QED  BY <1>1, <1>2 DEF NumbersSoFar

LEMMA KeyInit ==
  ASSUME Init
  PROVE  KeyInv
<1>1. \A j \in Job : Idle(j)
  BY DEF Init, Idle
<1>2. \A k, e \in Nat : ~Numbered(k, e)
  BY <1>1 DEF Init, RelayInit, Numbered, AllPins, PeopleAtWork
<1>3. PinsInPlace
  BY DEF Init, RelayInit, PinsInPlace, AllPins
<1>. QED  BY <1>1, <1>2, <1>3 DEF KeyInv, OneKey, NumbersSoFar

\* A press.
LEMMA KeyPress ==
  ASSUME IInv, IInv', KeyInv, AllIdle, NEW j \in Job, NEW kind \in {"people", "post", "text"},
         NEW snapshot \in Channels \cup {Nothing}, NEW todo \in SUBSET Errands,
         Press(j, kind, snapshot, todo),
         kind = "people" =>
           /\ channel # Nothing => channel.epoch <= snapshot.epoch
           /\ \/ /\ channel # Nothing
                 /\ snapshot.key = channel.key
                 /\ snapshot.epoch = channel.epoch
              \/ /\ snapshot.key = pressed + 1
                 /\ channel # Nothing => channel.epoch < snapshot.epoch
           /\ \A e \in todo : /\ \E m \in Member : e.box = ThreadOf(m)
                              /\ e.body.type = "key" => e.body.epoch = snapshot.epoch,
         kind = "post" =>
           \A e \in todo : e.box = PostsUnder(channel.key) /\ e.body.epoch = channel.epoch,
         kind = "text" => \A e \in todo : \E m \in Member : e.box = ThreadOf(m)
  PROVE  KeyInv'
<1>0. TypeOK /\ pressed \in Nat
  BY DEF IInv, TypeOK
<1>1. /\ job'[j] # Nothing
      /\ \A i \in Job : i # j => job'[i] = job[i]
      /\ job'[j].kind = kind /\ job'[j].channel = snapshot
      /\ job'[j].todo = todo /\ job'[j].now = Nothing
      /\ pressed' = pressed + 1 /\ pressed \in Nat
      /\ pins' = pins /\ late' = late /\ channel' = channel /\ got' = got
  BY <1>0, PressDoes
<1>1a. AllPins' = AllPins
  BY <1>1 DEF AllPins
<1>2. \A i \in Job : i # j => Idle(i)'
  BY <1>1 DEF AllIdle, Idle
<1>3. \A i \in Job : ~PeopleAtWork(i)
  BY DEF AllIdle, PeopleAtWork
<1>4. SendsOf(j)' = todo
  BY <1>1 DEF SendsOf
<1>5. PinsInPlace' /\ \A i \in Job : ~Idle(i)' => SendsInPlace(i)'
  BY <1>1, <1>2, <1>4, <1>1a DEF KeyInv, PinsInPlace, InPlace, SendsInPlace
<1>6. \A k, e \in Nat : Numbered(k, e)' =>
        Numbered(k, e) \/ (kind = "people" /\ k = snapshot.key /\ e = snapshot.epoch)
  BY <1>1, <1>2, <1>1a DEF Numbered, PeopleAtWork
<1>7. \A k, e \in Nat : Numbered(k, e) => k <= pressed /\ channel # Nothing /\ e <= channel.epoch
  BY <1>3 DEF KeyInv, NumbersSoFar
<1>8. channel # Nothing => channel.epoch \in Nat /\ channel.key \in Nat /\ Numbered(channel.key, channel.epoch)
  BY DEF IInv, TypeOK, Channels, Numbered
<1>9. kind = "people" => snapshot.epoch \in Nat /\ PeopleAtWork(j)'
  <2>. SUFFICES ASSUME kind = "people"
                PROVE  snapshot.epoch \in Nat /\ PeopleAtWork(j)'
    OBVIOUS
  <2>1. PeopleAtWork(j)'
    BY <1>1 DEF PeopleAtWork, Idle
  <2>2. job'[j].channel \in Channels
    BY <2>1 DEF IInv, JobsSound, PeopleJob, PeopleAtWork
  <2>. QED  BY <1>1, <2>1, <2>2 DEF Channels
<1>10. ASSUME NEW k \in Nat, NEW l \in Nat, NEW e \in Nat, NEW f \in Nat,
              Numbered(k, e)', Numbered(l, f)'
       PROVE  k = l <=> e = f
  <2>1. CASE Numbered(k, e) /\ Numbered(l, f)
    BY <2>1 DEF KeyInv, OneKey
  <2>2. ASSUME NEW a \in Nat, NEW x \in Nat, Numbered(a, x), kind = "people"
        PROVE  a = snapshot.key <=> x = snapshot.epoch
    <3>1. a <= pressed /\ channel # Nothing /\ x <= channel.epoch
      BY <1>7, <2>2
    <3>2. CASE snapshot.key = channel.key /\ snapshot.epoch = channel.epoch
      BY <1>8, <2>2, <3>1, <3>2 DEF KeyInv, OneKey
    <3>3. CASE snapshot.key = pressed + 1 /\ channel.epoch < snapshot.epoch
      BY <1>1, <1>8, <1>9, <2>2, <3>1, <3>3
    <3>. QED  BY <2>2, <3>1, <3>2, <3>3
  <2>. QED  BY <1>6, <1>10, <2>1, <2>2
<1>11. ASSUME NEW k \in Nat, NEW e \in Nat, Numbered(k, e)'
       PROVE  /\ k <= pressed'
              /\ \/ channel' # Nothing /\ e <= channel'.epoch
                 \/ \E i \in Job : PeopleAtWork(i)' /\ e <= job'[i].channel.epoch
  <2>1. CASE Numbered(k, e)
    BY <1>1, <1>7, <2>1
  <2>2. CASE kind = "people" /\ k = snapshot.key /\ e = snapshot.epoch
    <3>1. k <= pressed + 1
      BY <1>1, <1>7, <1>8, <2>2
    <3>2. PeopleAtWork(j)' /\ e <= job'[j].channel.epoch
      BY <1>1, <1>9, <2>2
    <3>. QED  BY <1>1, <3>1, <3>2
  <2>. QED  BY <1>6, <1>11, <2>1, <2>2
<1>12. OneKey'
  BY <1>10 DEF OneKey
<1>13. NumbersSoFar'
  BY <1>11 DEF NumbersSoFar
<1>. QED  BY <1>5, <1>12, <1>13 DEF KeyInv

\* A step of a job at work, which may store what the job sends.
LEMMA KeyWork ==
  ASSUME IInv, IInv', KeyInv, NEW j \in Job, ~Idle(j),
         \A i \in Job : i # j => job'[i] = job[i],
         pressed' = pressed, channel' = channel, got' = got,
         \A p \in AllPins' \ AllPins :
           /\ p.until = Undated
           /\ \E e \in SendsOf(j) : p.slot.box = e.box /\ p.body = e.body,
         \/ job'[j] = Nothing /\ job[j].kind # "people"
         \/ /\ job'[j] # Nothing
            /\ job'[j].kind = job[j].kind
            /\ job'[j].channel = job[j].channel
            /\ \A f \in SendsOf(j)' : \E e \in SendsOf(j) :
                 /\ f.box = e.box
                 /\ f.body.type = e.body.type
                 /\ f.body.epoch = e.body.epoch
  PROVE  KeyInv'
<1>1. \A i \in Job : i # j => Idle(i) /\ Idle(i)'
  BY DEF IInv, OneAtATime, Idle
<1>2. job[j] \in Jobs /\ SendsInPlace(j)
  BY JobTyped DEF IInv, KeyInv
<1>3. /\ job[j].kind = "people" => PeopleJob(j)
      /\ job[j].kind = "post" => PostJob(j)
      /\ job[j].kind = "text" => TextJob(j)
  BY DEF IInv, JobsSound
<1>4. job[j].kind \in {"people", "post", "text"}
  BY <1>2 DEF Jobs
<1>5. ASSUME NEW p \in AllPins' \ AllPins
      PROVE  /\ InPlace(p)
             /\ p.body.type \in {"key", "post"} => Numbered(p.body.key, p.body.epoch)
  <2>1. PICK e \in SendsOf(j) : p.slot.box = e.box /\ p.body = e.body
    BY <1>5
  <2>2. p.until = Undated
    BY <1>5
  <2>3. CASE job[j].kind = "people"
    <3>1. PICK m \in Member : p.slot.box = ThreadOf(m)
      BY <1>2, <2>1, <2>3 DEF SendsInPlace
    <3>2. p.body.type \in {"key", "left"}
      BY <1>3, <2>1, <2>3 DEF PeopleJob
    <3>3. p.body.type = "key" =>
            p.body.key = job[j].channel.key /\ p.body.epoch = job[j].channel.epoch
      BY <1>2, <1>3, <2>1, <2>3 DEF PeopleJob, SendsInPlace
    <3>4. p.slot.box[1] = "thread"
      BY <3>1, BoxKinds
    <3>5. PeopleAtWork(j)
      BY <2>3 DEF PeopleAtWork
    <3>. QED  BY <2>2, <3>2, <3>3, <3>4, <3>5 DEF InPlace, Numbered
  <2>4. CASE job[j].kind = "post"
    <3>1. channel # Nothing /\ p.body.type = "post" /\ p.body.key = channel.key
      BY <1>3, <2>1, <2>4 DEF PostJob
    <3>2. p.slot.box = PostsUnder(channel.key) /\ p.body.epoch = channel.epoch
      BY <1>2, <2>1, <2>4 DEF SendsInPlace
    <3>3. channel.key \in Nat
      BY <3>1 DEF IInv, TypeOK, Channels
    <3>4. p.slot.box[1] = "posts"
      BY <3>2, <3>3, BoxKinds
    <3>. QED  BY <2>2, <3>1, <3>2, <3>4 DEF InPlace, Numbered
  <2>5. CASE job[j].kind = "text"
    <3>1. PICK m \in Member : p.slot.box = ThreadOf(m)
      BY <1>2, <2>1, <2>5 DEF SendsInPlace
    <3>2. p.body.type = "text"
      BY <1>3, <2>1, <2>5 DEF TextJob
    <3>3. p.slot.box[1] = "thread"
      BY <3>1, BoxKinds
    <3>. QED  BY <2>2, <3>2, <3>3 DEF InPlace
  <2>. QED  BY <1>4, <2>3, <2>4, <2>5
<1>6. \A k, e \in Nat : Numbered(k, e)' => Numbered(k, e)
  <2>. SUFFICES ASSUME NEW k \in Nat, NEW e \in Nat, Numbered(k, e)'
                PROVE  Numbered(k, e)
    OBVIOUS
  <2>1. CASE channel' # Nothing /\ channel'.key = k /\ channel'.epoch = e
    BY <2>1 DEF Numbered
  <2>2. CASE \E i \in Job : PeopleAtWork(i)' /\ job'[i].channel.key = k /\ job'[i].channel.epoch = e
    BY <1>1, <2>2 DEF Numbered, PeopleAtWork, Idle
  <2>3. CASE \E m \in Member : \E b \in got'[m] : b.type = "key" /\ b.key = k /\ b.epoch = e
    BY <2>3 DEF Numbered
  <2>4. CASE \E p \in AllPins' : p.body.type \in {"key", "post"} /\ p.body.key = k /\ p.body.epoch = e
    BY <1>5, <2>4 DEF Numbered
  <2>. QED  BY <2>1, <2>2, <2>3, <2>4 DEF Numbered
<1>7. PeopleAtWork(j) =>
        PeopleAtWork(j)' /\ job'[j].channel = job[j].channel /\ job[j].channel \in Channels
  BY <1>3 DEF PeopleAtWork, Idle, PeopleJob
<1>8. channel # Nothing => channel.epoch \in Nat
  BY DEF IInv, TypeOK, Channels
<1>9. \A i \in Job : PeopleAtWork(i) =>
        \E n \in Job : /\ PeopleAtWork(n)' /\ job'[n].channel \in Channels
                      /\ job[i].channel.epoch <= job'[n].channel.epoch
  BY <1>1, <1>7 DEF PeopleAtWork, Channels
<1>10. OneKey' /\ NumbersSoFar'
  BY <1>6, <1>8, <1>9, NumbersKeep DEF KeyInv
<1>11. PinsInPlace'
  BY <1>5 DEF KeyInv, PinsInPlace, InPlace
<1>12. ~Idle(j)' => SendsInPlace(j)'
  <2>. SUFFICES ASSUME ~Idle(j)'
                PROVE  SendsInPlace(j)'
    OBVIOUS
  <2>1. /\ job'[j].kind = job[j].kind
        /\ job'[j].channel = job[j].channel
        /\ \A f \in SendsOf(j)' : \E e \in SendsOf(j) :
             f.box = e.box /\ f.body.type = e.body.type /\ f.body.epoch = e.body.epoch
    BY DEF Idle
  <2>. QED  BY <1>2, <2>1 DEF SendsInPlace
<1>. QED  BY <1>1, <1>10, <1>11, <1>12 DEF KeyInv

\* A step that is not of a job.
LEMMA KeyRest ==
  ASSUME IInv, IInv', KeyInv, job' = job, pressed' = pressed,
         \A p \in AllPins' \ AllPins : InPlace(p) /\ p.body.type = "seen",
         \A m \in Member : \A b \in got'[m] \ got[m] : b.type = "key" =>
           \E p \in AllPins : p.body = b,
         \/ channel' = channel
         \/ /\ AllIdle
            /\ channel # Nothing /\ channel' # Nothing
            /\ channel'.epoch = channel.epoch
            /\ channel'.key = channel.key
  PROVE  KeyInv'
<1>1. \A k, e \in Nat : Numbered(k, e)' => Numbered(k, e)
  <2>. SUFFICES ASSUME NEW k \in Nat, NEW e \in Nat, Numbered(k, e)'
                PROVE  Numbered(k, e)
    OBVIOUS
  <2>1. CASE channel' # Nothing /\ channel'.key = k /\ channel'.epoch = e
    BY <2>1 DEF Numbered
  <2>2. CASE \E i \in Job : PeopleAtWork(i)' /\ job'[i].channel.key = k /\ job'[i].channel.epoch = e
    BY <2>2 DEF Numbered, PeopleAtWork, Idle
  <2>3. CASE \E m \in Member : \E b \in got'[m] : b.type = "key" /\ b.key = k /\ b.epoch = e
    BY <2>3 DEF Numbered
  <2>4. CASE \E p \in AllPins' : p.body.type \in {"key", "post"} /\ p.body.key = k /\ p.body.epoch = e
    BY <2>4 DEF Numbered
  <2>. QED  BY <2>1, <2>2, <2>3, <2>4 DEF Numbered
<1>2. channel # Nothing =>
        channel' # Nothing /\ channel.epoch \in Nat /\ channel'.epoch = channel.epoch
  BY DEF IInv, TypeOK, Channels
<1>3. \A i \in Job : PeopleAtWork(i) => PeopleAtWork(i)' /\ job'[i].channel = job[i].channel
                                        /\ job[i].channel \in Channels
  BY DEF PeopleAtWork, Idle, IInv, JobsSound, PeopleJob
<1>4. \A i \in Job : PeopleAtWork(i) =>
        \E n \in Job : /\ PeopleAtWork(n)' /\ job'[n].channel \in Channels
                      /\ job[i].channel.epoch <= job'[n].channel.epoch
  BY <1>3 DEF Channels
<1>5. OneKey' /\ NumbersSoFar'
  BY <1>1, <1>2, <1>4, NumbersKeep DEF KeyInv
<1>6. PinsInPlace'
  BY DEF KeyInv, PinsInPlace, InPlace
<1>7. ASSUME NEW j \in Job, ~Idle(j)'
      PROVE  SendsInPlace(j)'
  <2>1. ~Idle(j) /\ channel' = channel /\ SendsOf(j)' = SendsOf(j)
    BY <1>7 DEF Idle, AllIdle, SendsOf
  <2>. QED  BY <2>1 DEF KeyInv, SendsInPlace
<1>. QED  BY <1>5, <1>6, <1>7 DEF KeyInv

LEMMA KeyCreate ==
  ASSUME IInv, IInv', KeyInv, AllIdle, NEW j \in Job, NEW who \in SUBSET Member, Create(j, who)
  PROVE  KeyInv'
<1>. DEFINE c    == NewChannel(who, pressed + 1)
            todo == {KeyTo(m, c, nextOut, 1) : m \in who}
<1>1. TypeOK /\ pressed + 1 \in Nat /\ channel = Nothing
  BY DEF IInv, TypeOK, Create
<1>2. c \in Channels /\ c.key = pressed + 1
  BY <1>1, NewTyped
<1>3. Press(j, "people", c, todo)
  BY DEF Create
<1>. HIDE DEF c
<1>4. \A m \in who : KeyTo(m, c, nextOut, 1) \in Errands
  BY <1>1, <1>2, KeyErrands
<1>5. \A e \in todo : /\ e \in Errands
                      /\ \E m \in Member : e.box = ThreadOf(m)
                      /\ e.body.epoch = c.epoch
  BY <1>4 DEF KeyTo, Errand, Body
<1>6. todo \in SUBSET Errands
  BY <1>5
<1>. HIDE DEF todo
<1>. QED  BY <1>1, <1>2, <1>3, <1>5, <1>6, KeyPress

\* What the screen of the members makes of the channel, and what it sends to whom: those
\* who leave are told, those who stay and those who are new get the key.
Alteration(j, want, more, gone, added, todo) ==
  /\ channel # Nothing /\ channel \in Channels
  /\ gone = channel.members \ want
  /\ added = want \ channel.members
  /\ Press(j, "people", more, todo)
  /\ more.members = (channel.members \ gone) \cup added
  /\ more.posts = channel.posts
  /\ gone = {} => /\ more.key = channel.key
                  /\ more.epoch = channel.epoch
                  /\ more.nextOut = channel.nextOut
  /\ gone # {} => /\ more.key = pressed + 1
                  /\ more.epoch = channel.epoch + 1
                  /\ more.nextOut = 0
  /\ todo = (IF gone = {} THEN {}
             ELSE {LeftTo(m, more, nextOut) : m \in gone}
                  \cup {KeyTo(m, more, nextOut, 2) : m \in channel.members \ gone})
            \cup {KeyTo(m, more, nextOut, 3) : m \in added}

LEMMA MembersSends ==
  ASSUME IInv, NEW j \in Job, NEW want \in SUBSET Member, SaveMembers(j, want)
  PROVE  \E more \in Channels, gone \in SUBSET Member, added \in SUBSET Member,
            todo \in SUBSET Errands : Alteration(j, want, more, gone, added, todo)
<1>. DEFINE gone  == channel.members \ want
            added == want \ channel.members
            less  == RemoveMembers(channel, gone, pressed + 1)
            more  == AddMembers(less, added)
            LEFT  == {LeftTo(m, less, nextOut) : m \in gone}
            STAY  == {KeyTo(m, less, nextOut, 2) : m \in less.members}
            NEWS  == {KeyTo(m, more, nextOut, 3) : m \in added}
            todo  == (IF gone = {} THEN {} ELSE LEFT \cup STAY) \cup NEWS
<1>1. TypeOK /\ pressed + 1 \in Nat
  BY DEF IInv, TypeOK
<1>2. channel # Nothing /\ channel \in Channels
  BY <1>1 DEF SaveMembers, TypeOK
<1>3. Press(j, "people", more, todo)
  BY DEF SaveMembers
<1>4. /\ gone \in SUBSET Member /\ added \in SUBSET Member
      /\ gone = {} <=> channel.members \cap gone = {}
  <2>1. channel.members \cap gone = gone
    OBVIOUS
  <2>2. channel.members \in SUBSET Member
    BY <1>2 DEF Channels
  <2>. QED  BY <2>1, <2>2
<1>5. /\ less \in Channels
      /\ less.members = channel.members \ gone
  <2>1. ASSUME NEW g \in SUBSET Member, NEW k \in Nat
        PROVE  /\ RemoveMembers(channel, g, k) \in Channels
               /\ RemoveMembers(channel, g, k).members = channel.members \ g
    BY <1>2, RemoveTyped
  <2>. HIDE DEF gone
  <2>. QED  BY <1>1, <1>4, <2>1
<1>6. /\ less.posts = channel.posts
      /\ gone = {} => less.key = channel.key /\ less.epoch = channel.epoch
                      /\ less.nextOut = channel.nextOut
      /\ gone # {} => less.key = pressed + 1 /\ less.epoch = channel.epoch + 1
                      /\ less.nextOut = 0
  <2>1. gone = {} => less = channel
    BY <1>4 DEF RemoveMembers
  <2>2. gone # {} => less = [members |-> channel.members \ gone, epoch |-> channel.epoch + 1,
                             key |-> pressed + 1, nextOut |-> 0, posts |-> channel.posts]
    BY <1>4 DEF RemoveMembers
  <2>. HIDE DEF less, gone
  <2>. QED  BY <2>1, <2>2
<1>. HIDE DEF less
<1>7. /\ more \in Channels
      /\ more.members = less.members \cup added
      /\ more.key = less.key
      /\ more.epoch = less.epoch
      /\ more.nextOut = less.nextOut
      /\ more.posts = less.posts
  BY <1>4, <1>5, AddTyped DEF AddMembers, Channels
<1>. HIDE DEF more
<1>8. \A m \in Member : /\ LeftTo(m, less, nextOut) \in Errands
                        /\ LeftTo(m, less, nextOut) = LeftTo(m, more, nextOut)
                        /\ KeyTo(m, less, nextOut, 2) \in Errands
                        /\ KeyTo(m, less, nextOut, 2) = KeyTo(m, more, nextOut, 2)
                        /\ KeyTo(m, more, nextOut, 3) \in Errands
  <2>. TAKE m \in Member
  <2>1. LeftTo(m, less, nextOut) = LeftTo(m, more, nextOut)
    BY <1>7 DEF LeftTo
  <2>2. KeyTo(m, less, nextOut, 2) = KeyTo(m, more, nextOut, 2)
    BY <1>7 DEF KeyTo
  <2>. QED  BY <1>1, <1>5, <1>7, <2>1, <2>2, KeyErrands
<1>9. less.members \subseteq Member
  BY <1>5 DEF Channels
<1>. HIDE DEF gone, added
<1>10. LEFT = {LeftTo(m, more, nextOut) : m \in gone} /\ LEFT \in SUBSET Errands
  BY <1>4, <1>8
<1>11. /\ STAY = {KeyTo(m, more, nextOut, 2) : m \in channel.members \ gone}
       /\ STAY \in SUBSET Errands
  BY <1>5, <1>8, <1>9
<1>12. NEWS \in SUBSET Errands
  BY <1>4, <1>8
<1>. HIDE DEF LEFT, STAY
<1>13. /\ todo \in SUBSET Errands
       /\ todo = (IF gone = {} THEN {}
                  ELSE {LeftTo(m, more, nextOut) : m \in gone}
                       \cup {KeyTo(m, more, nextOut, 2) : m \in channel.members \ gone})
                 \cup {KeyTo(m, more, nextOut, 3) : m \in added}
  BY <1>10, <1>11, <1>12
<1>14. gone = channel.members \ want /\ added = want \ channel.members
  BY DEF gone, added
<1>15. more.members = (channel.members \ gone) \cup added
  BY <1>5, <1>7
<1>16. /\ more.posts = channel.posts
       /\ gone = {} => more.key = channel.key /\ more.epoch = channel.epoch
                       /\ more.nextOut = channel.nextOut
       /\ gone # {} => more.key = pressed + 1 /\ more.epoch = channel.epoch + 1
                       /\ more.nextOut = 0
  BY <1>6, <1>7
<1>. HIDE DEF todo
<1>17. Alteration(j, want, more, gone, added, todo)
  BY <1>2, <1>3, <1>13, <1>14, <1>15, <1>16 DEF Alteration
<1>. QED  BY <1>4, <1>7, <1>13, <1>17

LEMMA KeySaveMembers ==
  ASSUME IInv, IInv', KeyInv, AllIdle, NEW j \in Job, NEW want \in SUBSET Member,
         SaveMembers(j, want)
  PROVE  KeyInv'
<1>1. PICK more \in Channels, gone \in SUBSET Member, added \in SUBSET Member,
           todo \in SUBSET Errands : Alteration(j, want, more, gone, added, todo)
  BY MembersSends
<1>2. \A m \in Member, turn \in 1..3 :
        /\ KeyTo(m, more, nextOut, turn).box = ThreadOf(m)
        /\ KeyTo(m, more, nextOut, turn).body.epoch = more.epoch
        /\ LeftTo(m, more, nextOut).box = ThreadOf(m)
        /\ LeftTo(m, more, nextOut).body.epoch = more.epoch
  BY DEF KeyTo, LeftTo, Errand, Body
<1>3. channel.members \subseteq Member /\ channel.epoch \in Nat
  BY <1>1 DEF Alteration, Channels
<1>4. \A e \in todo : /\ \E m \in Member : e.box = ThreadOf(m)
                      /\ e.body.epoch = more.epoch
  <2>. SUFFICES ASSUME NEW e \in todo
                PROVE  /\ \E m \in Member : e.box = ThreadOf(m)
                       /\ e.body.epoch = more.epoch
    OBVIOUS
  <2>1. PICK m \in Member : \/ e = LeftTo(m, more, nextOut)
                           \/ e = KeyTo(m, more, nextOut, 2)
                           \/ e = KeyTo(m, more, nextOut, 3)
    BY <1>1, <1>3 DEF Alteration
  <2>. QED  BY <1>2, <2>1
<1>5. channel.epoch <= more.epoch
  BY <1>1, <1>3 DEF Alteration
<1>6. \/ more.key = channel.key /\ more.epoch = channel.epoch
      \/ more.key = pressed + 1 /\ channel.epoch < more.epoch
  BY <1>1, <1>3 DEF Alteration
<1>7. Press(j, "people", more, todo) /\ channel # Nothing
  BY <1>1 DEF Alteration
<1>. QED  BY <1>4, <1>5, <1>6, <1>7, KeyPress

LEMMA KeyPost ==
  ASSUME IInv, IInv', KeyInv, AllIdle, NEW j \in Job, Post(j)
  PROVE  KeyInv'
<1>. DEFINE e == Errand(PostsUnder(channel.key), Body("post", channel.epoch, channel.key),
                        channel.nextOut, 1, "mailbox")
<1>1. TypeOK /\ channel # Nothing /\ channel \in Channels
  BY DEF IInv, TypeOK, Post
<1>2. channel.key \in Nat /\ channel.epoch \in Nat /\ channel.nextOut \in Nat
  BY <1>1 DEF Channels
<1>3. e \in Errands
  BY <1>2, BoxTypes, ErrandTypes
<1>4. e.box = PostsUnder(channel.key) /\ e.body.epoch = channel.epoch
  BY DEF Errand, Body
<1>5. Press(j, "post", channel, {e})
  BY DEF Post
<1>. HIDE DEF e
<1>6. {e} \in SUBSET Errands
  BY <1>3
<1>. QED  BY <1>1, <1>4, <1>5, <1>6, KeyPress

LEMMA KeyWrite ==
  ASSUME IInv, IInv', KeyInv, AllIdle, NEW j \in Job, NEW m \in Member, Write(j, m)
  PROVE  KeyInv'
<1>. DEFINE e == Errand(ThreadOf(m), Body("text", 0, 0), nextOut[m], 1, "chain")
<1>1. nextOut[m] \in Nat
  BY DEF IInv, TypeOK
<1>2. e \in Errands
  BY <1>1, BoxTypes, ErrandTypes
<1>3. e.box = ThreadOf(m)
  BY DEF Errand, Body
<1>4. Press(j, "text", Nothing, {e})
  BY DEF Write
<1>. HIDE DEF e
<1>5. {e} \in SUBSET Errands
  BY <1>2
<1>. QED  BY <1>3, <1>4, <1>5, KeyPress

\* What a job stores, or leaves behind, is what it has at hand.
LEMMA StoreIs ==
  ASSUME NEW j \in Job, AtWork(j), Sent(j) \/ Unheard(j)
  PROVE  \A p \in AllPins' \ AllPins :
           /\ p = NewPin(job[j].now, job[j].seq)
           /\ job[j].now \in SendsOf(j)
           /\ p.until = Undated
           /\ p.slot = Slot(job[j].now.box, job[j].seq)
           /\ p.slot.box = job[j].now.box
           /\ p.slot.seq = job[j].seq
           /\ p.body = job[j].now.body
BY DEF AtWork, SendsOf, Sent, Unheard, Store, Deliver, NewPin, Pinned, Slot, AllPins

LEMMA KeyWorks ==
  ASSUME IInv, IInv', KeyInv, NEW j \in Job, ~Idle(j), Work(j)
  PROVE  KeyInv'
<1>0. TypeOK
  BY DEF IInv
<1>1. ASSUME NEW e \in job[j].todo, Begin(j, e)
      PROVE  KeyInv'
  <2>1. AllPins' = AllPins /\ pressed' = pressed /\ channel' = channel /\ got' = got
    BY <1>1 DEF Begin, business, members, AllPins
  <2>2. e \in SendsOf(j)
    BY DEF SendsOf
  <2>3. \A f \in SendsOf(j)' : f \in SendsOf(j) \/ f = job'[j].now
    BY <1>0, <1>1, BeginDoes DEF SendsOf
  <2>4. \A f \in SendsOf(j)' : \E g \in SendsOf(j) :
          f.box = g.box /\ f.body.type = g.body.type /\ f.body.epoch = g.body.epoch
    <3>1. /\ job'[j].now.box = e.box
          /\ job'[j].now.body.type = e.body.type
          /\ job'[j].now.body.epoch = e.body.epoch
      BY <1>0, <1>1, BeginDoes
    <3>. QED  BY <2>2, <2>3, <3>1
  <2>5. /\ \A i \in Job : i # j => job'[i] = job[i]
        /\ job'[j] # Nothing /\ job'[j].kind = job[j].kind /\ job'[j].channel = job[j].channel
    BY <1>0, <1>1, BeginDoes
  <2>. QED  BY <2>1, <2>4, <2>5, KeyWork
<1>2. ASSUME Look(j)
      PROVE  KeyInv'
  <2>1. AllPins' = AllPins /\ pressed' = pressed /\ channel' = channel /\ got' = got
    BY <1>2 DEF Look, business, members, AllPins
  <2>2. /\ \A i \in Job : i # j => job'[i] = job[i]
        /\ job'[j] # Nothing /\ job'[j].kind = job[j].kind /\ job'[j].channel = job[j].channel
        /\ SendsOf(j)' = SendsOf(j)
    BY <1>0, <1>2, LookDoes DEF SendsOf
  <2>. QED  BY <2>1, <2>2, KeyWork
<1>3. ASSUME AtWork(j), GiveUp(j), pressed' = pressed, channel' = channel, got' = got,
             \A p \in AllPins' \ AllPins :
               p.until = Undated /\ p.slot.box = job[j].now.box /\ p.body = job[j].now.body
      PROVE  KeyInv'
  <2>1. job[j].now \in SendsOf(j)
    BY <1>3 DEF AtWork, SendsOf
  <2>2. /\ \A i \in Job : i # j => job'[i] = job[i]
        /\ job[j].kind # "people" => job'[j] = Nothing
        /\ job[j].kind = "people" =>
             /\ job'[j] # Nothing /\ job'[j].kind = job[j].kind
             /\ job'[j].channel = job[j].channel
             /\ SendsOf(j)' \subseteq SendsOf(j)
    BY <1>0, <1>3, GiveUpDoes DEF SendsOf
  <2>. QED  BY <1>3, <2>1, <2>2, KeyWork
<1>4. ASSUME Fail(j)
      PROVE  KeyInv'
  BY <1>3, <1>4 DEF Fail, business, members, AllPins
<1>5. ASSUME Unheard(j)
      PROVE  KeyInv'
  <2>1. AtWork(j) /\ GiveUp(j) /\ pressed' = pressed /\ channel' = channel /\ got' = got
    BY <1>5 DEF Unheard, business, members
  <2>. QED  BY <1>3, <1>5, <2>1, StoreIs
<1>6. ASSUME Sent(j)
      PROVE  KeyInv'
  <2>1. pressed' = pressed /\ channel' = channel /\ got' = got
    BY <1>6 DEF Sent, business, members
  <2>2. /\ AtWork(j)
        /\ \A i \in Job : i # j => job'[i] = job[i]
        /\ job'[j] # Nothing /\ job'[j].kind = job[j].kind /\ job'[j].channel = job[j].channel
        /\ SendsOf(j)' \subseteq SendsOf(j)
    BY <1>0, <1>6, SentDoes DEF SendsOf
  <2>. QED  BY <1>6, <2>1, <2>2, StoreIs, KeyWork
<1>7. ASSUME Save(j)
      PROVE  KeyInv'
  <2>1. /\ \A i \in Job : Idle(i)' /\ (i # j => Idle(i))
        /\ AllPins' = AllPins /\ pressed' = pressed /\ got' = got /\ channel' = Saved(j)
        /\ job[j] \in Jobs
    BY <1>0, <1>7, JobTyped DEF IInv, OneAtATime, Save, Idle, TypeOK, members, AllPins
  <2>2. /\ job[j].kind = "people" =>
             /\ channel' = job[j].channel /\ job[j].channel \in Channels
             /\ PeopleAtWork(j)
             /\ channel # Nothing => channel.epoch <= channel'.epoch
        /\ job[j].kind = "post" => /\ channel # Nothing /\ channel' \in Channels
                                   /\ channel'.key = channel.key
                                   /\ channel'.epoch = channel.epoch
        /\ job[j].kind = "text" => channel' = channel
    <3>1. job[j].kind = "people" =>
             channel' = job[j].channel /\ job[j].channel \in Channels
      BY <1>0, <1>7, <2>1, SavedTyped DEF IInv
    <3>2. job[j].kind = "people" /\ channel # Nothing => channel.epoch <= job[j].channel.epoch
      BY DEF KeyInv, SendsInPlace
    <3>3. job[j].kind = "text" => channel' = channel
      BY <1>0, <1>7, <2>1, SavedTyped DEF IInv
    <3>4. job[j].kind = "post" => channel # Nothing /\ channel' \in Channels
                                  /\ channel'.key = channel.key
      BY <1>0, <1>7, <2>1, SavedTyped DEF IInv, JobsSound, PostJob
    <3>5. job[j].kind = "post" => channel'.epoch = channel.epoch
      <4>1. ASSUME channel # Nothing, job[j].kind = "post"
            PROVE  \E at, epoch, seq : Saved(j) = AddOwnPost(channel, at, epoch, seq)
        BY <4>1 DEF Saved
      <4>2. \A c \in Channels : \A at, epoch, seq : AddOwnPost(c, at, epoch, seq).epoch = c.epoch
        BY DEF AddOwnPost, Channels
      <4>3. channel # Nothing => channel \in Channels
        BY <1>0 DEF TypeOK
      <4>. QED  BY <2>1, <3>4, <4>1, <4>2, <4>3
    <3>. QED  BY <3>1, <3>2, <3>3, <3>4, <3>5 DEF PeopleAtWork
  <2>3. job[j].kind \in {"people", "post", "text"}
    BY <2>1 DEF Jobs
  <2>4. \A i \in Job : ~PeopleAtWork(i)' /\ (PeopleAtWork(i) => i = j)
    BY <2>1 DEF PeopleAtWork
  <2>5. \A k, e \in Nat : Numbered(k, e)' => Numbered(k, e)
    BY <2>1, <2>2, <2>3, <2>4 DEF Numbered
  <2>6. channel # Nothing => channel' # Nothing /\ channel.epoch <= channel'.epoch
                             /\ channel'.epoch \in Nat
    <3>1. channel # Nothing => channel \in Channels
      BY <1>0 DEF TypeOK
    <3>2. \A c \in Channels : c # Nothing
      BY NothingAssumption
    <3>. QED  BY <2>2, <2>3, <3>1 , <3>2 DEF Channels
  <2>7. PeopleAtWork(j) => channel' # Nothing /\ job[j].channel.epoch <= channel'.epoch
                           /\ channel'.epoch \in Nat
    BY <2>2, NothingAssumption DEF PeopleAtWork, Channels
  <2>8. OneKey' /\ NumbersSoFar'
    BY <2>1, <2>4, <2>5, <2>6, <2>7, NumbersKeep DEF KeyInv
  <2>. QED  BY <2>1, <2>8 DEF KeyInv, PinsInPlace, InPlace
<1>. QED  BY <1>1, <1>2, <1>4, <1>5, <1>6, <1>7 DEF Work

\* What a check of receipts changes.
LEMMA CheckSeenDoes ==
  ASSUME TypeOK, channel # Nothing, NEW heard \in SUBSET Heard, CheckSeen(heard)
  PROVE  /\ channel \in Channels /\ channel' \in Channels
         /\ channel' # Nothing
         /\ channel'.members = channel.members
         /\ channel'.key = channel.key
         /\ channel'.epoch = channel.epoch
         /\ channel'.nextOut = channel.nextOut
         /\ \A q \in channel'.posts : \E p \in channel.posts :
              /\ q.epoch = p.epoch /\ q.seq = p.seq /\ q.at = p.at
              /\ \A m \in q.seen : \/ m \in p.seen
                                   \/ \E w \in heard : w.m = m /\ p = PostAt(channel, w.epoch, w.seq)
         /\ \A p \in pins \ pins' : \E w \in heard : p.slot = ReceiptSlot(w.m, w.epoch, w.seq)
         /\ pins' \subseteq pins
         /\ AllPins' \subseteq AllPins
         /\ UNCHANGED <<nextOut, job, pressed, clock, letters, late, nextIn, got, nextPost, kept,
                        outcome, owed>>
<1>. DEFINE seers(p) == {w.m : w \in {v \in heard : p = PostAt(channel, v.epoch, v.seq)}}
            marked   == {[p EXCEPT !.seen = @ \cup seers(p)] : p \in channel.posts}
<1>1. channel \in Channels /\ channel' \in Channels /\ pins' \subseteq pins
  BY CheckSeenTyped DEF TypeOK
<1>2. channel' = [channel EXCEPT !.posts = marked]
  BY DEF CheckSeen
<1>3. ASSUME NEW q \in marked
      PROVE  \E p \in channel.posts :
              /\ q.epoch = p.epoch /\ q.seq = p.seq /\ q.at = p.at
              /\ \A m \in q.seen : \/ m \in p.seen
                                   \/ \E w \in heard : w.m = m /\ p = PostAt(channel, w.epoch, w.seq)
  <2>1. PICK p \in channel.posts : q = [p EXCEPT !.seen = @ \cup seers(p)]
    BY <1>3
  <2>2. \A m \in seers(p) : \E w \in heard : w.m = m /\ p = PostAt(channel, w.epoch, w.seq)
    OBVIOUS
  <2>3. p \in Posts
    BY <1>1 DEF Channels
  <2>. HIDE DEF seers
  <2>4. q.epoch = p.epoch /\ q.seq = p.seq /\ q.at = p.at /\ q.seen = p.seen \cup seers(p)
    BY <2>1, <2>3 DEF Posts
  <2>. QED  BY <2>2, <2>4
<1>. HIDE DEF marked
<1>4. /\ channel'.members = channel.members
      /\ channel'.key = channel.key
      /\ channel'.epoch = channel.epoch
      /\ channel'.nextOut = channel.nextOut
      /\ channel'.posts = marked
  BY <1>1, <1>2 DEF Channels
<1>5. \A p \in pins \ pins' : \E w \in heard : p.slot = ReceiptSlot(w.m, w.epoch, w.seq)
  BY DEF CheckSeen, ReceiptsOf
<1>. QED  BY <1>1, <1>3, <1>4, <1>5, NothingAssumption DEF CheckSeen, members, history, AllPins

\* What a read of the thread changes.
LEMMA ReadThreadDoes ==
  ASSUME TypeOK, NEW m \in Member, NEW shield \in BOOLEAN, NEW dropping \in BOOLEAN,
         ReadThread(m, shield, dropping)
  PROVE  /\ \E x \in Found(Slot(ThreadOf(m), nextIn[m]), shield) : got'[m] = got[m] \cup {x.body}
         /\ \A n \in Member : n # m => got'[n] = got[n] /\ nextIn'[n] = nextIn[n]
         /\ nextIn[m] \in Nat /\ nextIn'[m] = nextIn[m] + 1
         /\ pins' \subseteq pins
         /\ \A p \in pins \ pins' : p.slot = Slot(ThreadOf(m), nextIn[m])
         /\ AllPins' \subseteq AllPins
         /\ UNCHANGED <<channel, nextOut, job, pressed, clock, letters, late, nextPost, kept,
                        outcome, owed>>
<1>1. PICK x \in Found(Slot(ThreadOf(m), nextIn[m]), shield) :
        got' = [got EXCEPT ![m] = @ \cup {x.body}]
  BY DEF ReadThread
<1>2. got'[m] = got[m] \cup {x.body} /\ \A n \in Member : n # m => got'[n] = got[n]
  BY <1>1 DEF TypeOK
<1>3. nextIn' = [nextIn EXCEPT ![m] = @ + 1]
  BY DEF ReadThread
<1>4. /\ nextIn[m] \in Nat /\ nextIn'[m] = nextIn[m] + 1
      /\ \A n \in Member : n # m => nextIn'[n] = nextIn[n]
  BY <1>3 DEF TypeOK
<1>5. pins' \subseteq pins /\ \A p \in pins \ pins' : p.slot = Slot(ThreadOf(m), nextIn[m])
  BY DEF ReadThread, Drop, PinsAt
<1>. QED  BY <1>1, <1>2, <1>4, <1>5 DEF ReadThread, business, history, AllPins

\* What a read of a post changes.
LEMMA ReadPostDoes ==
  ASSUME TypeOK, NEW m \in Member, NEW epoch \in Epoch, ReadPost(m, epoch)
  PROVE  /\ Opens(m, epoch) /\ epoch \in Nat /\ nextPost[m][epoch] \in Nat
         /\ \E x \in PinsAt(Slot(PostsUnder(KeyOf(m, epoch)), nextPost[m][epoch])) :
              kept'[m] = kept[m] \cup {[at |-> x.body.at, epoch |-> epoch,
                                       seq |-> nextPost[m][epoch]]}
         /\ \A n \in Member : n # m => kept'[n] = kept[n] /\ nextPost'[n] = nextPost[n]
         /\ \A e \in Epoch : nextPost'[m][e] = IF e = epoch THEN nextPost[m][e] + 1
                                               ELSE nextPost[m][e]
         /\ \/ late' = late
            \/ /\ ~Taken(ReceiptSlot(m, epoch, nextPost[m][epoch]))
               /\ late' = late \cup {Pinned(ReceiptSlot(m, epoch, nextPost[m][epoch]),
                                            Body("seen", epoch, 0), today + KeepDays)}
         /\ UNCHANGED <<pins, channel, nextOut, job, pressed, clock, letters, nextIn, got,
                        outcome, owed>>
<1>. DEFINE seq  == nextPost[m][epoch]
            slot == Slot(PostsUnder(KeyOf(m, epoch)), seq)
<1>1. epoch \in Nat /\ seq \in Nat
  BY PressesAssumption DEF TypeOK, Epoch
<1>2. PICK x \in PinsAt(slot) :
        kept' = [kept EXCEPT ![m] = @ \cup {[at |-> x.body.at, epoch |-> epoch, seq |-> seq]}]
  BY DEF ReadPost
<1>3. nextPost' = [nextPost EXCEPT ![m] = [nextPost[m] EXCEPT ![epoch] = @ + 1]]
  BY DEF ReadPost
<1>4. /\ \A n \in Member : n # m => nextPost'[n] = nextPost[n]
      /\ \A e \in Epoch : nextPost'[m][e] = IF e = epoch THEN nextPost[m][e] + 1
                                            ELSE nextPost[m][e]
  BY <1>3 DEF TypeOK
<1>. HIDE DEF slot
<1>5. /\ kept'[m] = kept[m] \cup {[at |-> x.body.at, epoch |-> epoch, seq |-> seq]}
      /\ \A n \in Member : n # m => kept'[n] = kept[n]
  BY <1>2 DEF TypeOK
<1>6. \/ late' = late
      \/ /\ ~Taken(ReceiptSlot(m, epoch, seq))
         /\ late' = late \cup {Pinned(ReceiptSlot(m, epoch, seq), Body("seen", epoch, 0),
                                      today + KeepDays)}
  BY DEF ReadPost, Receipt
<1>. QED  BY <1>1, <1>2, <1>4, <1>5, <1>6 DEF ReadPost, business, history, slot

LEMMA KeyNext ==
  IInv /\ IInv' /\ KeyInv /\ [OrderlyNext]_vars => KeyInv'
<1>. SUFFICES ASSUME IInv, IInv', KeyInv, [OrderlyNext]_vars
              PROVE  KeyInv'
  OBVIOUS
<1>0. TypeOK
  BY DEF IInv
<1>1. ASSUME NEW j \in Job, OrderlyStart(j)
      PROVE  KeyInv'
  BY <1>1, KeyCreate, KeySaveMembers, KeyPost, KeyWrite DEF OrderlyStart, Change
<1>2. CASE AllIdle /\ Seeing
  <2>1. PICK heard \in SUBSET Heard : CheckSeen(heard)
    BY <1>2 DEF Seeing
  <2>2. channel # Nothing
    BY <1>2 DEF Seeing
  <2>. QED  BY <1>0, <1>2, <2>1, <2>2, CheckSeenDoes, KeyRest
<1>3. ASSUME NEW m \in Member, NEW shield \in BOOLEAN, NEW dropping \in BOOLEAN,
             ReadThread(m, shield, dropping)
      PROVE  KeyInv'
  <2>1. PICK x \in Found(Slot(ThreadOf(m), nextIn[m]), shield) : got'[m] = got[m] \cup {x.body}
    BY <1>0, <1>3, ReadThreadDoes
  <2>2. x \in AllPins \/ x.body.type = "text"
    BY <2>1 DEF Found, LettersAt, PinsAt, IInv, LettersAreTexts, AllPins
  <2>3. \A n \in Member : \A b \in got'[n] \ got[n] : b.type = "key" => \E p \in AllPins : p.body = b
    BY <1>0, <1>3, <2>1, <2>2, ReadThreadDoes
  <2>4. AllPins' \subseteq AllPins /\ job' = job /\ pressed' = pressed /\ channel' = channel
    BY <1>0, <1>3, ReadThreadDoes
  <2>. QED  BY <2>3, <2>4, KeyRest
<1>4. ASSUME NEW m \in Member, NEW epoch \in Epoch, ReadPost(m, epoch)
      PROVE  KeyInv'
  <2>. DEFINE r == Pinned(ReceiptSlot(m, epoch, nextPost[m][epoch]), Body("seen", epoch, 0),
                          today + KeepDays)
  <2>1. epoch \in Nat /\ AllPins' \subseteq AllPins \cup {r}
    BY <1>0, <1>4, ReadPostDoes DEF AllPins
  <2>2. r.slot.box = SeenBy(m, epoch) /\ r.body.type = "seen"
    BY DEF Pinned, ReceiptSlot, Slot, Body
  <2>. HIDE DEF r
  <2>3. InPlace(r)
    BY <2>1, <2>2, BoxKinds DEF InPlace
  <2>4. job' = job /\ pressed' = pressed /\ channel' = channel /\ got' = got
    BY <1>0, <1>4, ReadPostDoes
  <2>. QED  BY <2>1, <2>2, <2>3, <2>4, KeyRest
<1>5. CASE RelayWorks
  <2>1. /\ AllPins' \subseteq AllPins
        /\ job' = job /\ pressed' = pressed /\ channel' = channel /\ got' = got
    BY <1>0, <1>5, RelayTyped DEF RelayWorks, Land, business, members
  <2>. QED  BY <2>1, KeyRest
<1>6. CASE UNCHANGED vars
  BY <1>6, KeyRest DEF vars, AllPins
<1>. QED  BY <1>1, <1>2, <1>3, <1>4, <1>5, <1>6, KeyWorks DEF OrderlyNext, Reading

-----------------------------------------------------------------------------
(* Posts, who has read them, and receipts.                                 *)

\* Some post of that number is on the relay, in the slot seq, written when at says.
PostPin(p, epoch, seq, at) ==
  /\ p.body.type = "post"
  /\ p.body.epoch = epoch
  /\ p.slot.seq = seq
  /\ p.body.at = at

Posted(epoch, seq, at) == \E p \in pins : PostPin(p, epoch, seq, at)

\* Posts stand one to a slot.
OnePin ==
  \A p, q \in pins :
    p.body.type = "post" /\ q.body.type = "post" /\ p.slot = q.slot => p = q

\* No empty slot is in front of a post.
NoHoles ==
  \A p \in pins : p.body.type = "post" => \A n \in 0..p.slot.seq : Taken(Slot(p.slot.box, n))

\* A post that may still come is the only one, goes into a free slot behind taken ones, and
\* nothing is posted until it has come or is lost.
LatePosts ==
  \A p \in late : p.body.type = "post" =>
    /\ ~Taken(p.slot)
    /\ \A n \in Nat : n < p.slot.seq => Taken(Slot(p.slot.box, n))
    /\ \A q \in late : q.body.type = "post" => q = p
    /\ \A j \in Job : ~Idle(j) => job[j].kind # "post"

\* What the books have of the posts of c is true: each is on the relay, whoever is marked
\* has it, and the slots that have been counted are taken.
ChannelSound(c) ==
  /\ \A q \in c.posts : /\ Posted(q.epoch, q.seq, q.at)
                        /\ \A m \in q.seen : HasPost(m, q.at)
  /\ \A n \in Nat : n < c.nextOut => Taken(Slot(PostsUnder(c.key), n))

\* The job at work on c.
WorkSound(j) ==
  /\ job[j].kind = "people" => ChannelSound(job[j].channel)
  /\ job[j].kind = "post" =>
       /\ \A e \in SendsOf(j) : e.from = channel.nextOut
       /\ AtWork(j) => \A n \in Nat :
            job[j].now.from <= n /\ n < job[j].seq => Taken(Slot(job[j].now.box, n))
       /\ \A s \in job[j].sent : Posted(s.errand.body.epoch, s.seq, s.errand.body.at)
       /\ AtWork(j) /\ job[j].free => ~Taken(Slot(job[j].now.box, job[j].seq))

KeptSound == \A m \in Member : \A q \in kept[m] : Posted(q.epoch, q.seq, q.at)

ReceiptsTrue ==
  \A p \in AllPins : \A m \in Member, e \in Nat : p.slot.box = SeenBy(m, e) =>
    \E q \in kept[m] : q.epoch = e /\ q.seq = p.slot.seq

ReadSoFar ==
  \A m \in Member, e \in Epoch, n \in Nat : n < nextPost[m][e] =>
    \E q \in kept[m] : q.epoch = e /\ q.seq = n

GotFinite == \A m \in Member : IsFiniteSet(got[m])

PostInv ==
  /\ OnePin /\ NoHoles /\ LatePosts
  /\ channel # Nothing => ChannelSound(channel)
  /\ \A j \in Job : ~Idle(j) => WorkSound(j)
  /\ KeptSound /\ ReceiptsTrue /\ ReadSoFar /\ GotFinite

\* A finite set of messages that is not empty has a last one.
LEMMA LastOne ==
  ASSUME NEW S, IsFiniteSet(S), S # {}, \A b \in S : b.at \in Nat
  PROVE  \E b \in S : \A c \in S : c.at <= b.at
<1>. DEFINE Bad == {T \in SUBSET S : T # {} /\ ~\E b \in T : \A c \in T : c.at <= b.at}
<1>1. SUFFICES Bad = {}
  BY <1>1
<1>2. SUFFICES ASSUME Bad # {}
               PROVE  FALSE
  OBVIOUS
<1>3. IsWellFoundedOn(StrictSubsetOrdering(S), FiniteSubsetsOf(S))
  BY FS_StrictSubsetOrderingWellFounded
<1>4. FiniteSubsetsOf(S) = SUBSET S
  BY FS_FiniteSubsetsOfFinite
<1>5. Bad \subseteq FiniteSubsetsOf(S)
  BY <1>4
<1>6. PICK T \in Bad : \A U \in Bad : ~(<<U, T>> \in StrictSubsetOrdering(S))
  <2>. HIDE DEF Bad
  <2>. QED  BY <1>2, <1>3, <1>5, WFMin
<1>7. PICK x \in T : TRUE
  OBVIOUS
<1>8. T \ {x} \notin Bad
  <2>1. <<T \ {x}, T>> \in StrictSubsetOrdering(S)
    BY <1>7 DEF StrictSubsetOrdering
  <2>. QED  BY <1>6, <2>1
<1>9. CASE T \ {x} = {}
  <2>1. \A c \in T : c.at <= x.at
    BY <1>7, <1>9
  <2>. QED  BY <1>7, <2>1
<1>10. CASE T \ {x} # {}
  <2>1. PICK b \in T \ {x} : \A c \in T \ {x} : c.at <= b.at
    BY <1>8, <1>10
  <2>2. x.at \in Nat /\ b.at \in Nat /\ \A c \in T : c.at \in Nat
    BY <1>7
  <2>3. CASE x.at <= b.at
    <3>1. \A c \in T : c.at <= b.at
      BY <2>1, <2>3
    <3>. QED  BY <2>1, <3>1
  <2>4. CASE b.at <= x.at
    <3>1. \A c \in T : c.at <= x.at
      BY <2>1, <2>2, <2>4
    <3>. QED  BY <1>7, <3>1
  <2>. QED  BY <2>2, <2>3, <2>4
<1>. QED  BY <1>9, <1>10

\* Who opens a channel's posts of some number has a key that goes by it.
LEMMA KeyOfIs ==
  ASSUME IInv, GotFinite, NEW m \in Member, NEW epoch, Opens(m, epoch)
  PROVE  /\ KeyOf(m, epoch) \in Nat
         /\ Numbered(KeyOf(m, epoch), epoch)
         /\ \E b \in got[m] : b.type = "key" /\ b.epoch = epoch /\ b.key = KeyOf(m, epoch)
<1>. DEFINE S == KeyMessages(m, epoch)
            k == CHOOSE b \in S : \A c \in S : c.at <= b.at
<1>1. S \subseteq got[m] /\ got[m] \subseteq Bodies /\ S # {}
  BY DEF KeyMessages, IInv, TypeOK, Opens
<1>2. IsFiniteSet(S)
  BY <1>1, FS_Subset DEF GotFinite
<1>3. \A b \in S : b.at \in Nat
  BY <1>1 DEF Bodies
<1>4. k \in S
  <2>1. \E b \in S : \A c \in S : c.at <= b.at
    <3>. HIDE DEF S
    <3>. QED  BY <1>1, <1>2, <1>3, LastOne
  <2>. QED  BY <2>1
<1>5. KeyOf(m, epoch) = k.key
  BY DEF KeyOf
<1>6. k \in got[m] /\ k.type = "key" /\ k.epoch = epoch /\ k.key \in Nat
  <2>. HIDE DEF k
  <2>. QED  BY <1>1, <1>4 DEF KeyMessages, Bodies
<1>. HIDE DEF k
<1>. QED  BY <1>5, <1>6 DEF Numbered

\* Posts stand where their number and their slot say, and nowhere else.
LEMMA PostPlace ==
  ASSUME IInv, KeyInv, NEW p \in AllPins, p.body.type = "post"
  PROVE  /\ p.slot.box = PostsUnder(p.body.key)
         /\ p.slot.box[1] = "posts"
         /\ p.slot = Slot(p.slot.box, p.slot.seq)
         /\ p.until = Undated
         /\ Numbered(p.body.key, p.body.epoch)
         /\ p.body.key \in Nat /\ p.body.epoch \in Nat /\ p.slot.seq \in Nat /\ p.body.at \in Nat
<1>1. p \in Stored
  BY DEF IInv, TypeOK, AllPins
<1>2. p.slot.box \in Boxes /\ p.slot = [box |-> p.slot.box, seq |-> p.slot.seq]
  BY <1>1 DEF Stored, Slots
<1>3. p.slot.box[1] = "posts"
  BY <1>2, BoxKinds DEF KeyInv, PinsInPlace, InPlace, AllPins
<1>. QED  BY <1>1, <1>2, <1>3 DEF KeyInv, PinsInPlace, InPlace, Slot, Numbered, Stored, Slots, Bodies

LEMMA SamePost ==
  ASSUME IInv, KeyInv, OnePin, NEW p \in pins, NEW q \in pins,
         p.body.type = "post", q.body.type = "post",
         p.body.epoch = q.body.epoch, p.slot.seq = q.slot.seq
  PROVE  p = q
<1>1. p.body.key = q.body.key
  BY PostPlace DEF KeyInv, OneKey, AllPins
<1>2. p.slot = q.slot
  BY <1>1, PostPlace DEF AllPins
<1>. QED  BY <1>2 DEF OnePin

LEMMA OneAt ==
  ASSUME IInv, KeyInv, OnePin, NEW epoch, NEW seq, NEW a, NEW b,
         Posted(epoch, seq, a), Posted(epoch, seq, b)
  PROVE  a = b
BY SamePost DEF Posted, PostPin

\* A pin under the key somebody has for a number, is a post of that number.
LEMMA UnderKey ==
  ASSUME IInv, KeyInv, GotFinite, NEW m \in Member, NEW epoch \in Epoch, Opens(m, epoch),
         NEW p \in pins, p.slot.box = PostsUnder(KeyOf(m, epoch))
  PROVE  p.body.type = "post" /\ p.body.epoch = epoch
<1>1. KeyOf(m, epoch) \in Nat /\ Numbered(KeyOf(m, epoch), epoch) /\ epoch \in Nat
  BY KeyOfIs, PressesAssumption DEF Epoch
<1>2. p.slot.box[1] = "posts"
  BY <1>1, BoxKinds
<1>3. p.body.type = "post" /\ p.slot.box = PostsUnder(p.body.key)
  BY <1>2 DEF KeyInv, PinsInPlace, InPlace, AllPins
<1>4. p.body.key = KeyOf(m, epoch)
  BY <1>3 DEF PostsUnder
<1>. QED  BY <1>1, <1>3, <1>4, PostPlace DEF KeyInv, OneKey, AllPins

LEMMA PostsGrow ==
  ASSUME IInv, KeyInv,
         \A p \in pins : p.body.type = "post" => p \in pins',
         \A m \in Member : kept[m] \subseteq kept'[m]
  PROVE  /\ \A epoch, seq, at : Posted(epoch, seq, at) => Posted(epoch, seq, at)'
         /\ \A k \in Nat : \A n : Taken(Slot(PostsUnder(k), n)) => Taken(Slot(PostsUnder(k), n))'
         /\ \A c \in Channels : ChannelSound(c) => ChannelSound(c)'
<1>1. \A epoch, seq, at : Posted(epoch, seq, at) => Posted(epoch, seq, at)'
  BY DEF Posted, PostPin
<1>2. ASSUME NEW k \in Nat, NEW n, Taken(Slot(PostsUnder(k), n))
      PROVE  Taken(Slot(PostsUnder(k), n))'
  <2>1. PICK p \in pins : p.slot = Slot(PostsUnder(k), n)
    BY <1>2 DEF Taken, PinsAt
  <2>2. p.slot.box[1] = "posts"
    BY <2>1, BoxKinds DEF Slot
  <2>3. p \in pins'
    BY <2>2 DEF KeyInv, PinsInPlace, InPlace, AllPins
  <2>. QED  BY <2>1, <2>3 DEF Taken, PinsAt
<1>3. ASSUME NEW m \in Member, NEW at, HasPost(m, at)
      PROVE  HasPost(m, at)'
  BY <1>3 DEF HasPost
<1>4. ASSUME NEW c \in Channels, ChannelSound(c)
      PROVE  ChannelSound(c)'
  <2>1. c.key \in Nat /\ \A q \in c.posts : q.seen \subseteq Member
    BY DEF Channels, Posts
  <2>2. \A q \in c.posts : /\ Posted(q.epoch, q.seq, q.at)'
                           /\ \A m \in q.seen : HasPost(m, q.at)'
    BY <1>1, <1>3, <1>4, <2>1 DEF ChannelSound
  <2>3. \A n \in Nat : n < c.nextOut => Taken(Slot(PostsUnder(c.key), n))'
    BY <1>2, <1>4, <2>1 DEF ChannelSound
  <2>. QED  BY <2>2, <2>3 DEF ChannelSound
<1>. QED  BY <1>1, <1>2, <1>4

\* What is said of pins and of what members have is kept by a step that takes no post away
\* and adds one pin at most, a post to a slot that was free.
LEMMA PinsKeep ==
  ASSUME IInv, KeyInv, PostInv,
         \A p \in pins : p.body.type = "post" => p \in pins',
         \A m \in Member : kept[m] \subseteq kept'[m],
         \A p \in pins' \ pins : p.body.type = "post" => ~Taken(p.slot),
         \A p, q \in pins' \ pins : p = q,
         \A p \in pins' \ pins : p.body.type = "post" =>
           \A n \in 0..p.slot.seq : Taken(Slot(p.slot.box, n))',
         \A p \in AllPins' \ AllPins : \A m \in Member, e \in Nat : p.slot.box = SeenBy(m, e) =>
           \E q \in kept'[m] : q.epoch = e /\ q.seq = p.slot.seq,
         \A m \in Member : \A q \in kept'[m] \ kept[m] : Posted(q.epoch, q.seq, q.at)
  PROVE  OnePin' /\ NoHoles' /\ KeptSound' /\ ReceiptsTrue'
<1>1. /\ \A epoch, seq, at : Posted(epoch, seq, at) => Posted(epoch, seq, at)'
      /\ \A k \in Nat : \A n : Taken(Slot(PostsUnder(k), n)) => Taken(Slot(PostsUnder(k), n))'
  BY PostsGrow
<1>2. OnePin'
  <2>1. \A p \in pins, q \in pins' \ pins : q.body.type = "post" => p.slot # q.slot
    BY DEF Taken, PinsAt
  <2>. QED  BY <2>1 DEF OnePin, PostInv
<1>3. NoHoles'
  <2>1. ASSUME NEW p \in pins, p.body.type = "post", NEW n \in 0..p.slot.seq
        PROVE  Taken(Slot(p.slot.box, n))'
    <3>1. Taken(Slot(p.slot.box, n))
      BY <2>1 DEF PostInv, NoHoles
    <3>2. p.slot.box = PostsUnder(p.body.key) /\ p.body.key \in Nat
      BY <2>1, PostPlace DEF AllPins
    <3>. QED  BY <1>1, <3>1, <3>2
  <2>. QED  BY <2>1 DEF NoHoles
<1>4. KeptSound'
  BY <1>1 DEF PostInv, KeptSound
<1>5. ReceiptsTrue'
  <2>1. ASSUME NEW p \in AllPins, NEW m \in Member, NEW e \in Nat, p.slot.box = SeenBy(m, e)
        PROVE  \E q \in kept'[m] : q.epoch = e /\ q.seq = p.slot.seq
    BY <2>1 DEF PostInv, ReceiptsTrue
  <2>. QED  BY <2>1 DEF ReceiptsTrue
<1>. QED  BY <1>2, <1>3, <1>4, <1>5

\* A post that may still come stays what it is, if nothing is posted and no post comes.
LEMMA LateStay ==
  ASSUME IInv, KeyInv, PostInv,
         \A p \in pins : p.body.type = "post" => p \in pins',
         \A p \in late' : p.body.type = "post" => p \in late,
         \A p \in pins' \ pins : p.slot.box[1] = "posts" => NoPostLate',
         \A j \in Job : ~Idle(j)' /\ job'[j].kind = "post" =>
           NoPostLate' \/ (~Idle(j) /\ job[j].kind = "post")
  PROVE  LatePosts'
<1>. SUFFICES ASSUME NEW p \in late', p.body.type = "post"
              PROVE  /\ ~Taken(p.slot)'
                     /\ \A n \in Nat : n < p.slot.seq => Taken(Slot(p.slot.box, n))'
                     /\ \A q \in late' : q.body.type = "post" => q = p
                     /\ \A j \in Job : ~Idle(j)' => job'[j].kind # "post"
  BY DEF LatePosts
<1>1. p \in late /\ p \in AllPins /\ ~NoPostLate'
  BY DEF AllPins, NoPostLate
<1>2. /\ ~Taken(p.slot)
      /\ \A n \in Nat : n < p.slot.seq => Taken(Slot(p.slot.box, n))
      /\ \A q \in late : q.body.type = "post" => q = p
      /\ \A j \in Job : ~Idle(j) => job[j].kind # "post"
  BY <1>1 DEF PostInv, LatePosts
<1>3. p.slot.box = PostsUnder(p.body.key) /\ p.slot.box[1] = "posts" /\ p.body.key \in Nat
  BY <1>1, PostPlace
<1>4. \A q \in pins' : q.slot # p.slot
  BY <1>1, <1>2, <1>3 DEF Taken, PinsAt
<1>5. \A n \in Nat : n < p.slot.seq => \E q \in pins' : q.slot = Slot(p.slot.box, n)
  <2>. SUFFICES ASSUME NEW n \in Nat, n < p.slot.seq
                PROVE  \E q \in pins' : q.slot = Slot(p.slot.box, n)
    OBVIOUS
  <2>1. PICK q \in pins : q.slot = Slot(p.slot.box, n)
    BY <1>2 DEF Taken, PinsAt
  <2>2. q.body.type = "post"
    BY <1>3, <2>1 DEF KeyInv, PinsInPlace, InPlace, AllPins, Slot
  <2>. QED  BY <2>1, <2>2
<1>. QED  BY <1>1, <1>2, <1>4, <1>5 DEF Taken, PinsAt

LEMMA PostInit ==
  ASSUME Init
  PROVE  PostInv
<1>1. \A j \in Job : Idle(j)
  BY DEF Init, Idle
<1>2. GotFinite
  BY FS_EmptySet DEF Init, GotFinite
<1>3. ReadSoFar
  BY DEF Init, ReadSoFar
<1>. QED  BY <1>1, <1>2, <1>3
          DEF Init, RelayInit, PostInv, OnePin, NoHoles, LatePosts, KeptSound, ReceiptsTrue, AllPins

\* Steps that leave the pins and what members have.
LEMMA SamePins ==
  ASSUME IInv, KeyInv, PostInv, pins' = pins, late' = late,
         kept' = kept, nextPost' = nextPost, got' = got
  PROVE  /\ OnePin' /\ NoHoles' /\ KeptSound' /\ ReceiptsTrue' /\ ReadSoFar' /\ GotFinite'
         /\ \A epoch, seq, at : Posted(epoch, seq, at) => Posted(epoch, seq, at)'
         /\ \A slot : Taken(slot)' = Taken(slot)
         /\ \A c \in Channels : ChannelSound(c) => ChannelSound(c)'
<1>1. OnePin' /\ NoHoles' /\ KeptSound' /\ ReceiptsTrue'
  BY PinsKeep DEF AllPins
<1>2. ReadSoFar' /\ GotFinite'
  BY DEF PostInv, ReadSoFar, GotFinite
<1>3. \A slot : Taken(slot)' = Taken(slot)
  BY DEF Taken, PinsAt
<1>. QED  BY <1>1, <1>2, <1>3, PostsGrow

LEMMA PostPress ==
  ASSUME IInv, KeyInv, PostInv, AllIdle, NEW j \in Job,
         NEW kind \in {"people", "post", "text"},
         NEW snapshot \in Channels \cup {Nothing}, NEW todo \in SUBSET Errands,
         Press(j, kind, snapshot, todo),
         kind = "people" => snapshot \in Channels /\ ChannelSound(snapshot),
         kind = "post" => NoPostLate /\ \A e \in todo : e.from = channel.nextOut
  PROVE  PostInv'
<1>0. TypeOK
  BY DEF IInv
<1>1. /\ job'[j] # Nothing
      /\ \A i \in Job : i # j => job'[i] = job[i]
      /\ job'[j].kind = kind /\ job'[j].channel = snapshot
      /\ job'[j].todo = todo /\ job'[j].now = Nothing /\ job'[j].sent = {}
      /\ pins' = pins /\ late' = late /\ channel' = channel /\ kept' = kept
      /\ nextPost' = nextPost /\ got' = got
  BY <1>0, PressDoes
<1>2. \A i \in Job : i # j => Idle(i)'
  BY <1>1 DEF AllIdle, Idle
<1>3. /\ OnePin' /\ NoHoles' /\ KeptSound' /\ ReceiptsTrue' /\ ReadSoFar' /\ GotFinite'
      /\ \A c \in Channels : ChannelSound(c) => ChannelSound(c)'
  BY <1>1, SamePins
<1>4. channel' # Nothing => ChannelSound(channel)'
  <2>1. channel # Nothing => channel \in Channels /\ ChannelSound(channel)
    BY <1>0 DEF TypeOK, PostInv
  <2>2. channel # Nothing => \E c \in Channels : c = channel /\ c = channel' /\ ChannelSound(c)'
    BY <1>1, <1>3, <2>1
  <2>. QED  BY <1>1, <2>2
<1>5. WorkSound(j)'
  <2>1. kind = "people" => ChannelSound(job[j].channel)'
    <3>1. kind = "people" => \E c \in Channels : c = job'[j].channel /\ ChannelSound(c)'
      BY <1>1, <1>3
    <3>. QED  BY <3>1
  <2>2. SendsOf(j)' = todo /\ ~AtWork(j)'
    BY <1>1 DEF SendsOf, AtWork
  <2>. QED  BY <1>1, <2>1, <2>2 DEF WorkSound
<1>6. LatePosts'
  <2>1. \A i \in Job : ~Idle(i)' /\ job'[i].kind = "post" => NoPostLate'
    BY <1>1, <1>2 DEF NoPostLate
  <2>. QED  BY <1>1, <2>1, LateStay
<1>. QED  BY <1>2, <1>3, <1>4, <1>5, <1>6 DEF PostInv

\* Posts that go out under the channel's own number stand under its own key.
LEMMA OwnPost ==
  ASSUME IInv, KeyInv, channel # Nothing, NEW p \in pins, p.body.type = "post",
         p.body.epoch = channel.epoch
  PROVE  p.body.key = channel.key
<1>1. channel.key \in Nat /\ channel.epoch \in Nat /\ Numbered(channel.key, channel.epoch)
  BY DEF IInv, TypeOK, Channels, Numbered
<1>. QED  BY <1>1, PostPlace DEF KeyInv, OneKey, AllPins

\* What is said of the job at work is kept, when its channel's state is as before, ...
LEMMA JobsKeep ==
  ASSUME IInv, KeyInv, PostInv, channel' = channel, NEW j \in Job, ~Idle(j),
         \A i \in Job : i # j => job'[i] = job[i],
         \A p \in pins : p.body.type = "post" => p \in pins',
         \A m \in Member : kept[m] \subseteq kept'[m],
         ~Idle(j)' => WorkSound(j)'
  PROVE  /\ \A i \in Job : ~Idle(i)' => WorkSound(i)'
         /\ channel' # Nothing => ChannelSound(channel)'
<1>1. \A i \in Job : i # j => Idle(i) /\ Idle(i)'
  BY DEF IInv, OneAtATime, Idle
<1>2. channel # Nothing => channel \in Channels /\ ChannelSound(channel)
  BY DEF IInv, TypeOK, PostInv
<1>3. channel # Nothing => \E c \in Channels : c = channel' /\ ChannelSound(c)'
  BY <1>2, PostsGrow
<1>. QED  BY <1>1, <1>3

\* The posts a job has sent, and the slots it has stepped over, stay.
LEMMA WorkKeep ==
  ASSUME IInv, KeyInv, PostInv, channel' = channel, NEW j \in Job, ~Idle(j), ~Idle(j)',
         \A p \in pins : p.body.type = "post" => p \in pins',
         \A m \in Member : kept[m] \subseteq kept'[m],
         job'[j].kind = job[j].kind, job'[j].channel = job[j].channel,
         \A f \in SendsOf(j)' : \E e \in SendsOf(j) : f.from = e.from,
         \A s \in job'[j].sent : s \in job[j].sent \/ Posted(s.errand.body.epoch, s.seq, s.errand.body.at)',
         AtWork(j)' /\ job[j].kind = "post" => \A n \in Nat :
           job'[j].now.from <= n /\ n < job'[j].seq => Taken(Slot(job[j].now.box, n))',
         AtWork(j)' /\ job'[j].free /\ job[j].kind = "post" =>
           ~Taken(Slot(job[j].now.box, job[j].seq))'
  PROVE  WorkSound(j)'
<1>1. WorkSound(j)
  BY DEF PostInv
<1>2. job[j].kind = "people" => ChannelSound(job[j].channel)'
  <2>1. job[j].kind = "people" => job[j].channel \in Channels /\ ChannelSound(job[j].channel)
    BY <1>1 DEF WorkSound, IInv, JobsSound, PeopleJob
  <2>2. job[j].kind = "people" => \E c \in Channels : c = job'[j].channel /\ ChannelSound(c)'
    BY <2>1, PostsGrow
  <2>. QED  BY <2>2
<1>3. job[j].kind = "post" => \A s \in job'[j].sent : Posted(s.errand.body.epoch, s.seq, s.errand.body.at)'
  <2>1. job[j].kind = "post" => \A s \in job[j].sent : Posted(s.errand.body.epoch, s.seq, s.errand.body.at)
    BY <1>1 DEF WorkSound
  <2>. QED  BY <2>1, PostsGrow
<1>4. job[j].kind = "post" => \A e \in SendsOf(j)' : e.from = channel'.nextOut
  BY <1>1 DEF WorkSound
<1>. QED  BY <1>2, <1>3, <1>4 DEF WorkSound

LEMMA PostCreate ==
  ASSUME IInv, KeyInv, PostInv, AllIdle, NEW j \in Job, NEW who \in SUBSET Member, Create(j, who)
  PROVE  PostInv'
<1>. DEFINE c    == NewChannel(who, pressed + 1)
            todo == {KeyTo(m, c, nextOut, 1) : m \in who}
<1>1. TypeOK /\ pressed + 1 \in Nat
  BY DEF IInv, TypeOK
<1>2. c \in Channels
  BY <1>1, NewTyped
<1>3. Press(j, "people", c, todo)
  BY DEF Create
<1>4. ChannelSound(c)
  BY DEF ChannelSound, NewChannel
<1>. HIDE DEF c
<1>5. todo \in SUBSET Errands
  BY <1>1, <1>2, KeyErrands
<1>. HIDE DEF todo
<1>. QED  BY <1>2, <1>3, <1>4, <1>5, PostPress

LEMMA PostSaveMembers ==
  ASSUME IInv, KeyInv, PostInv, AllIdle, NEW j \in Job, NEW want \in SUBSET Member,
         SaveMembers(j, want)
  PROVE  PostInv'
<1>1. PICK more \in Channels, gone \in SUBSET Member, added \in SUBSET Member,
           todo \in SUBSET Errands : Alteration(j, want, more, gone, added, todo)
  BY MembersSends
<1>2. Press(j, "people", more, todo) /\ channel # Nothing
  BY <1>1 DEF Alteration
<1>3. ChannelSound(channel)
  BY <1>2 DEF PostInv
<1>4. \/ more.posts = channel.posts /\ more.key = channel.key /\ more.nextOut = channel.nextOut
      \/ more.posts = channel.posts /\ more.nextOut = 0
  BY <1>1 DEF Alteration
<1>5. ChannelSound(more)
  BY <1>3, <1>4 DEF ChannelSound
<1>. QED  BY <1>2, <1>5, PostPress

LEMMA PostPost ==
  ASSUME IInv, KeyInv, PostInv, AllIdle, NoPostLate, NEW j \in Job, Post(j)
  PROVE  PostInv'
<1>. DEFINE e == Errand(PostsUnder(channel.key), Body("post", channel.epoch, channel.key),
                        channel.nextOut, 1, "mailbox")
<1>1. TypeOK /\ channel # Nothing /\ channel \in Channels
  BY DEF IInv, TypeOK, Post
<1>2. channel.key \in Nat /\ channel.epoch \in Nat /\ channel.nextOut \in Nat
  BY <1>1 DEF Channels
<1>3. e \in Errands
  BY <1>2, BoxTypes, ErrandTypes
<1>4. e.from = channel.nextOut
  BY DEF Errand
<1>5. Press(j, "post", channel, {e})
  BY DEF Post
<1>. HIDE DEF e
<1>6. {e} \in SUBSET Errands
  BY <1>3
<1>. QED  BY <1>1, <1>4, <1>5, <1>6, PostPress

LEMMA PostWrite ==
  ASSUME IInv, KeyInv, PostInv, AllIdle, NEW j \in Job, NEW m \in Member, Write(j, m)
  PROVE  PostInv'
<1>. DEFINE e == Errand(ThreadOf(m), Body("text", 0, 0), nextOut[m], 1, "chain")
<1>1. nextOut[m] \in Nat
  BY DEF IInv, TypeOK
<1>2. e \in Errands
  BY <1>1, BoxTypes, ErrandTypes
<1>3. Press(j, "text", Nothing, {e})
  BY DEF Write
<1>. HIDE DEF e
<1>4. {e} \in SUBSET Errands
  BY <1>2
<1>. QED  BY <1>3, <1>4, PostPress

LEMMA PostBegin ==
  ASSUME IInv, KeyInv, PostInv, NEW j \in Job, NEW e, Begin(j, e)
  PROVE  PostInv'
<1>0. TypeOK
  BY DEF IInv
<1>1. /\ pins' = pins /\ late' = late /\ kept' = kept /\ nextPost' = nextPost
      /\ got' = got /\ channel' = channel
  BY DEF Begin, business, members
<1>2. ~Idle(j) /\ e \in job[j].todo
  BY <1>0, BeginDoes DEF Begin
<1>3. /\ ~Idle(j)'
      /\ \A i \in Job : i # j => job'[i] = job[i]
      /\ job'[j].kind = job[j].kind /\ job'[j].channel = job[j].channel
      /\ job'[j].sent = job[j].sent
      /\ job'[j].seq = e.from /\ job'[j].free = FALSE
      /\ job'[j].now.from = e.from /\ e.from \in Nat
  BY ZenonT(40), <1>0, BeginDoes DEF Idle, Errands
<1>4. \A f \in SendsOf(j)' : \E g \in SendsOf(j) : f.from = g.from
  <2>1. e \in SendsOf(j)
    BY <1>2 DEF SendsOf
  <2>2. \A f \in SendsOf(j)' : f \in SendsOf(j) \/ f = job'[j].now
    BY <1>0, BeginDoes DEF SendsOf
  <2>. QED  BY <1>3, <2>1, <2>2
<1>5. WorkSound(j)'
  BY <1>1, <1>2, <1>3, <1>4, WorkKeep
<1>6. LatePosts'
  BY <1>1, <1>2, <1>3, LateStay DEF Idle
<1>. QED  BY <1>1, <1>2, <1>3, <1>5, <1>6, SamePins, JobsKeep DEF PostInv

LEMMA PostLook ==
  ASSUME IInv, KeyInv, PostInv, NEW j \in Job, Look(j)
  PROVE  PostInv'
<1>0. TypeOK
  BY DEF IInv
<1>1. /\ pins' = pins /\ late' = late /\ kept' = kept /\ nextPost' = nextPost
      /\ got' = got /\ channel' = channel
  BY DEF Look, business, members
<1>2. /\ ~Idle(j) /\ ~Idle(j)' /\ AtWork(j) /\ job[j] \in Jobs
      /\ \A i \in Job : i # j => job'[i] = job[i]
      /\ job'[j].kind = job[j].kind /\ job'[j].channel = job[j].channel
      /\ job'[j].sent = job[j].sent
      /\ job'[j].now = job[j].now
      /\ SendsOf(j)' = SendsOf(j)
      /\ \/ /\ IsTaken(job[j].now, job[j].seq)
            /\ job'[j].seq = job[j].seq + 1
            /\ job'[j].free = FALSE
         \/ /\ ~IsTaken(job[j].now, job[j].seq)
            /\ job'[j].seq = job[j].seq
  BY <1>0, LookDoes DEF Idle, AtWork, SendsOf
<1>3. /\ OnePin' /\ NoHoles' /\ KeptSound' /\ ReceiptsTrue' /\ ReadSoFar' /\ GotFinite'
      /\ \A slot : Taken(slot)' = Taken(slot)
  BY <1>1, SamePins
<1>4. job[j].seq \in Nat /\ job[j].now \in SendsOf(j) /\ WorkSound(j)
  BY <1>2 DEF Jobs, AtWork, SendsOf, PostInv
<1>5. job[j].kind = "post" => job[j].now.by # "chain"
  BY <1>2, <1>4 DEF IInv, JobsSound, PostJob
<1>6. job[j].kind = "post" => \A n \in Nat :
        job'[j].now.from <= n /\ n < job'[j].seq => Taken(Slot(job[j].now.box, n))
  <2>. SUFFICES ASSUME job[j].kind = "post", NEW n \in Nat, job[j].now.from <= n, n < job'[j].seq
                PROVE  Taken(Slot(job[j].now.box, n))
    BY <1>2
  <2>1. CASE n < job[j].seq
    BY <1>2, <1>4, <2>1 DEF WorkSound
  <2>2. CASE n = job[j].seq
    BY <1>2, <1>4, <1>5, <2>2 DEF IsTaken
  <2>. QED  BY <1>2, <1>4, <2>1, <2>2
<1>7. job'[j].free /\ job[j].kind = "post" => ~Taken(Slot(job[j].now.box, job'[j].seq))
  BY <1>2, <1>5 DEF IsTaken
<1>8. WorkSound(j)'
  <2>1. /\ \A p \in pins : p.body.type = "post" => p \in pins'
        /\ \A m \in Member : kept[m] \subseteq kept'[m]
        /\ \A f \in SendsOf(j)' : \E e \in SendsOf(j) : f.from = e.from
    BY <1>1, <1>2
  <2>2. AtWork(j)' /\ job[j].kind = "post" => \A n \in Nat :
          job'[j].now.from <= n /\ n < job'[j].seq => Taken(Slot(job[j].now.box, n))'
    <3>1. \A n : Slot(job[j].now.box, n)' = Slot(job[j].now.box, n)
      BY <1>2
    <3>. QED  BY <1>3, <1>6, <3>1
  <2>3. AtWork(j)' /\ job'[j].free /\ job[j].kind = "post" =>
          ~Taken(Slot(job[j].now.box, job[j].seq))'
    BY <1>2, <1>3, <1>7
  <2>. QED  BY <1>1, <1>2, <2>1, <2>2, <2>3, WorkKeep
<1>9. LatePosts'
  BY <1>1, <1>2, LateStay DEF Idle
<1>. QED  BY <1>1, <1>2, <1>3, <1>8, <1>9, JobsKeep DEF PostInv

\* What a job has at hand, and the slot it has found for it.
LEMMA AtHand ==
  ASSUME IInv, KeyInv, PostInv, NEW j \in Job, AtWork(j)
  PROVE  /\ ~Idle(j) /\ job[j] \in Jobs /\ job[j].now \in Errands /\ job[j].seq \in Nat
         /\ WorkSound(j)
         /\ job[j].now.body.type = "post" <=> job[j].kind = "post"
         /\ job[j].kind # "post" => job[j].now.box[1] = "thread"
         /\ job[j].kind = "post" =>
              /\ job[j].now.box[1] = "posts" /\ job[j].now.by # "chain"
              /\ job[j].free => ~Taken(Slot(job[j].now.box, job[j].seq))
              /\ \A n \in Nat : n < job[j].seq => Taken(Slot(job[j].now.box, n))
              /\ NoPostLate
<1>. DEFINE e == job[j].now
<1>1. /\ ~Idle(j) /\ job[j] \in Jobs /\ e \in Errands /\ job[j].seq \in Nat
      /\ e \in SendsOf(j)
  BY NowTyped DEF IInv, AtWork, SendsOf
<1>2. /\ WorkSound(j) /\ SendsInPlace(j)
      /\ job[j].kind = "people" => PeopleJob(j)
      /\ job[j].kind = "post" => PostJob(j)
      /\ job[j].kind = "text" => TextJob(j)
  BY <1>1 DEF PostInv, KeyInv, IInv, JobsSound
<1>3. job[j].kind \in {"people", "post", "text"}
  BY <1>1 DEF Jobs
<1>. HIDE DEF e
<1>4. job[j].kind # "post" => e.box[1] = "thread" /\ e.body.type # "post"
  <2>1. job[j].kind # "post" => \E m \in Member : e.box = ThreadOf(m)
    BY <1>1, <1>2, <1>3 DEF SendsInPlace
  <2>2. job[j].kind # "post" => e.body.type # "post"
    BY <1>1, <1>2, <1>3 DEF PeopleJob, TextJob
  <2>. QED  BY <2>1, <2>2, BoxKinds
<1>5. ASSUME job[j].kind = "post"
      PROVE  /\ e.body.type = "post" /\ e.by # "chain" /\ e.box[1] = "posts"
             /\ \A n \in Nat : n < job[j].seq => Taken(Slot(e.box, n))
             /\ NoPostLate
  <2>1. channel # Nothing /\ e.by = "mailbox" /\ e.body.type = "post"
    BY <1>1, <1>2, <1>5 DEF PostJob
  <2>2. e.box = PostsUnder(channel.key) /\ e.from = channel.nextOut
    BY <1>1, <1>2, <1>5 DEF SendsInPlace, WorkSound
  <2>3. ChannelSound(channel) /\ channel.nextOut \in Nat /\ channel.key \in Nat
    BY <2>1 DEF PostInv, IInv, TypeOK, Channels
  <2>4. ASSUME NEW n \in Nat, n < job[j].seq
        PROVE  Taken(Slot(e.box, n))
    <3>1. CASE n < channel.nextOut
      BY <2>2, <2>3, <3>1 DEF ChannelSound
    <3>2. CASE channel.nextOut <= n
      BY <1>2, <1>5, <2>2, <2>4, <3>2 DEF WorkSound, e
    <3>. QED  BY <2>3, <3>1, <3>2
  <2>5. NoPostLate
    BY <1>1, <1>5 DEF PostInv, LatePosts, NoPostLate
  <2>. QED  BY <2>1, <2>2, <2>3, <2>4, <2>5, BoxKinds
<1>6. job[j].kind = "post" /\ job[j].free => ~Taken(Slot(e.box, job[j].seq))
  BY <1>2 DEF WorkSound, e
<1>. QED  BY <1>1, <1>2, <1>4, <1>5, <1>6 DEF e

\* A post that a job puts on the relay goes into a free slot, behind the posts that are there.
LEMMA StoreKeeps ==
  ASSUME IInv, KeyInv, PostInv, NEW j \in Job, AtWork(j), job[j].free,
         Store(job[j].now, job[j].seq),
         kept' = kept, nextPost' = nextPost, got' = got, late' = late
  PROVE  /\ pins \subseteq pins'
         /\ OnePin' /\ NoHoles' /\ KeptSound' /\ ReceiptsTrue' /\ ReadSoFar' /\ GotFinite'
         /\ job[j].kind = "post" =>
              \E p \in pins' : PostPin(p, job[j].now.body.epoch, job[j].seq, job[j].now.body.at)
         /\ \A p \in pins' \ pins : p.slot.box[1] = "posts" => NoPostLate
<1>. DEFINE e   == job[j].now
            new == NewPin(e, job[j].seq)
<1>1. /\ job[j] \in Jobs /\ e \in Errands /\ job[j].seq \in Nat
      /\ e.body.type = "post" <=> job[j].kind = "post"
      /\ e.box[1] \in {"thread", "posts"}
      /\ job[j].kind # "post" => e.box[1] = "thread"
      /\ job[j].kind = "post" => /\ e.by # "chain" /\ NoPostLate
                                 /\ ~Taken(Slot(e.box, job[j].seq))
                                 /\ \A n \in Nat : n < job[j].seq => Taken(Slot(e.box, n))
  BY AtHand
<1>2. /\ e.by = "chain" => pins' = pins
      /\ e.by # "chain" => pins' = pins \cup {new}
  BY DEF Store, Deliver, NewPin
<1>3. new.slot = Slot(e.box, job[j].seq) /\ new.slot.box = e.box /\ new.slot.seq = job[j].seq
      /\ new.body = e.body
  BY DEF NewPin, Pinned, Slot
<1>. HIDE DEF new, e
<1>4. \A p \in pins' \ pins : p = new /\ e.by # "chain"
  BY <1>2
<1>5. pins \subseteq pins'
  BY <1>2
<1>6. OnePin' /\ NoHoles' /\ KeptSound' /\ ReceiptsTrue'
  <2>1. \A p \in pins' \ pins : p.body.type = "post" => ~Taken(p.slot)
    BY <1>1, <1>3, <1>4
  <2>2. ASSUME NEW p \in pins' \ pins, p.body.type = "post", NEW n \in 0..p.slot.seq
        PROVE  \E q \in pins' : q.slot = Slot(p.slot.box, n)
    <3>1. p = new /\ job[j].kind = "post"
      BY <1>1, <1>3, <1>4, <2>2
    <3>2. CASE n < job[j].seq
      <4>1. Taken(Slot(e.box, n))
        BY <1>1, <3>1, <3>2
      <4>. QED  BY <1>3, <1>5, <3>1, <4>1 DEF Taken, PinsAt
    <3>3. CASE n = job[j].seq
      BY <1>3, <3>1, <3>3
    <3>. QED  BY <1>1, <1>3, <2>2, <3>1, <3>2, <3>3
  <2>3. \A p \in pins' \ pins : p.body.type = "post" =>
           \A n \in 0..p.slot.seq : Taken(Slot(p.slot.box, n))'
    BY <2>2 DEF Taken, PinsAt
  <2>4. \A p \in AllPins' \ AllPins : \A m \in Member, f \in Nat : p.slot.box # SeenBy(m, f)
    <3>1. \A p \in AllPins' \ AllPins : p = new
      BY <1>4 DEF AllPins
    <3>. QED  BY <1>1, <1>3, <3>1, BoxKinds
  <2>. QED  BY <1>4, <1>5, <2>1, <2>3, <2>4, PinsKeep
<1>7. ReadSoFar' /\ GotFinite'
  BY DEF PostInv, ReadSoFar, GotFinite
<1>8. job[j].kind = "post" =>
         \E p \in pins' : PostPin(p, job[j].now.body.epoch, job[j].seq, job[j].now.body.at)
  <2>1. job[j].kind = "post" => PostPin(new, job[j].now.body.epoch, job[j].seq, job[j].now.body.at)
    BY <1>1, <1>3 DEF PostPin, e
  <2>. QED  BY <1>1, <1>2, <2>1
<1>9. \A p \in pins' \ pins : p.slot.box[1] = "posts" => NoPostLate
  BY <1>1, <1>3, <1>4
<1>. QED  BY <1>5, <1>6, <1>7, <1>8, <1>9

LEMMA PostSent ==
  ASSUME IInv, KeyInv, PostInv, NEW j \in Job, Sent(j)
  PROVE  PostInv'
<1>0. TypeOK
  BY DEF IInv
<1>1. /\ kept' = kept /\ nextPost' = nextPost /\ got' = got /\ channel' = channel
      /\ late' = late
  BY DEF Sent, business, members
<1>2. /\ ~Idle(j) /\ ~Idle(j)' /\ AtWork(j) /\ job[j].free
      /\ Store(job[j].now, job[j].seq)
      /\ \A i \in Job : i # j => job'[i] = job[i]
      /\ job'[j].kind = job[j].kind /\ job'[j].channel = job[j].channel
      /\ job'[j].sent = job[j].sent \cup {[errand |-> job[j].now, seq |-> job[j].seq]}
      /\ job'[j].now = Nothing
      /\ SendsOf(j)' \subseteq SendsOf(j)
  BY <1>0, SentDoes DEF Idle, AtWork, SendsOf
<1>3. /\ pins \subseteq pins'
      /\ OnePin' /\ NoHoles' /\ KeptSound' /\ ReceiptsTrue' /\ ReadSoFar' /\ GotFinite'
      /\ job[j].kind = "post" =>
           \E p \in pins' : PostPin(p, job[j].now.body.epoch, job[j].seq, job[j].now.body.at)
      /\ \A p \in pins' \ pins : p.slot.box[1] = "posts" => NoPostLate
  BY <1>1, <1>2, StoreKeeps
<1>4. WorkSound(j)'
  <2>1. ~AtWork(j)'
    BY <1>2 DEF AtWork
  <2>2. WorkSound(j)
    BY <1>2 DEF PostInv
  <2>3. /\ \A epoch, seq, at : Posted(epoch, seq, at) => Posted(epoch, seq, at)'
        /\ \A c \in Channels : ChannelSound(c) => ChannelSound(c)'
    BY <1>1, <1>3, PostsGrow
  <2>4. job[j].kind = "post" =>
          \A s \in job'[j].sent : Posted(s.errand.body.epoch, s.seq, s.errand.body.at)'
    <3>1. ASSUME job[j].kind = "post", NEW s \in job'[j].sent
          PROVE  \E p \in pins' : PostPin(p, s.errand.body.epoch, s.seq, s.errand.body.at)
      BY <1>2, <1>3, <2>2, <3>1 DEF WorkSound, Posted
    <3>. QED  BY <3>1 DEF Posted
  <2>5. job[j].kind = "people" => ChannelSound(job[j].channel)'
    <3>1. job[j].kind = "people" => job[j].channel \in Channels /\ ChannelSound(job[j].channel)
      BY <1>2, <2>2 DEF WorkSound, IInv, JobsSound, PeopleJob
    <3>2. job[j].kind = "people" => \E c \in Channels : c = job'[j].channel /\ ChannelSound(c)'
      BY <1>2, <2>3, <3>1
    <3>. QED  BY <3>2
  <2>6. job[j].kind = "post" => \A e \in SendsOf(j)' : e.from = channel'.nextOut
    BY <1>1, <1>2, <2>2 DEF WorkSound
  <2>. QED  BY <1>2, <2>1, <2>4, <2>5, <2>6 DEF WorkSound
<1>5. LatePosts'
  <2>1. NoPostLate' <=> NoPostLate
    BY <1>1 DEF NoPostLate
  <2>. QED  BY <1>1, <1>2, <1>3, <2>1, LateStay DEF Idle
<1>. QED  BY <1>1, <1>2, <1>3, <1>4, <1>5, JobsKeep DEF PostInv

\* What is left of a job whose send is given up.
LEMMA GivenUpSound ==
  ASSUME IInv, KeyInv, PostInv, NEW j \in Job, AtWork(j), GiveUp(j),
         pins \subseteq pins', kept' = kept, channel' = channel,
         OnePin', NoHoles', LatePosts', KeptSound', ReceiptsTrue', ReadSoFar', GotFinite'
  PROVE  PostInv'
<1>0. TypeOK /\ ~Idle(j) /\ WorkSound(j)
  BY DEF IInv, AtWork, PostInv
<1>1. /\ \A i \in Job : i # j => job'[i] = job[i]
      /\ job[j].kind # "people" => Idle(j)'
      /\ job[j].kind = "people" => /\ job'[j].kind = job[j].kind
                                   /\ job'[j].channel = job[j].channel
                                   /\ job'[j].now = Nothing
  BY <1>0, GiveUpDoes DEF Idle
<1>2. job[j].kind = "people" => ChannelSound(job[j].channel)'
  <2>1. job[j].kind = "people" => job[j].channel \in Channels /\ ChannelSound(job[j].channel)
    BY <1>0 DEF WorkSound, IInv, JobsSound, PeopleJob
  <2>2. job[j].kind = "people" => \E c \in Channels : c = job'[j].channel /\ ChannelSound(c)'
    BY <1>1, <2>1, PostsGrow
  <2>. QED  BY <2>2
<1>3. ~Idle(j)' => WorkSound(j)'
  BY <1>1, <1>2 DEF WorkSound, AtWork
<1>. QED  BY <1>0, <1>1, <1>3, JobsKeep DEF PostInv

LEMMA PostFail ==
  ASSUME IInv, KeyInv, PostInv, NEW j \in Job, Fail(j)
  PROVE  PostInv'
<1>0. TypeOK
  BY DEF IInv
<1>1. /\ AtWork(j) /\ GiveUp(j)
      /\ pins' = pins /\ late' = late /\ kept' = kept /\ nextPost' = nextPost
      /\ got' = got /\ channel' = channel
  BY DEF Fail, business, members
<1>2. /\ \A i \in Job : i # j => job'[i] = job[i]
      /\ ~Idle(j)' => job'[j].kind = job[j].kind /\ ~Idle(j)
  BY <1>0, <1>1, GiveUpDoes DEF Idle, AtWork
<1>3. LatePosts'
  BY <1>1, <1>2, LateStay DEF Idle
<1>. QED  BY <1>1, <1>3, SamePins, GivenUpSound

LEMMA PostUnheard ==
  ASSUME IInv, KeyInv, PostInv, NEW j \in Job, Unheard(j)
  PROVE  PostInv'
<1>. DEFINE new == NewPin(job[j].now, job[j].seq)
<1>0. TypeOK
  BY DEF IInv
<1>1. /\ AtWork(j) /\ job[j].free /\ GiveUp(j)
      /\ pins' = pins /\ late' = late \cup {new}
      /\ kept' = kept /\ nextPost' = nextPost /\ got' = got /\ channel' = channel
  BY DEF Unheard, business, members, NewPin
<1>2. new.slot = Slot(job[j].now.box, job[j].seq) /\ new.slot.box = job[j].now.box
      /\ new.slot.seq = job[j].seq /\ new.body = job[j].now.body
  BY DEF NewPin, Pinned, Slot
<1>. HIDE DEF new
<1>3. /\ ~Idle(j) /\ \A i \in Job : i # j => job'[i] = job[i]
      /\ ~Idle(j)' => job'[j].kind = job[j].kind /\ job[j].kind = "people"
  BY <1>0, <1>1, GiveUpDoes DEF Idle, AtWork
<1>4. \A p \in AllPins' \ AllPins : \A m \in Member, f \in Nat : p.slot.box # SeenBy(m, f)
  <2>1. \A p \in AllPins' \ AllPins : p = new
    BY <1>1 DEF AllPins
  <2>. QED  BY <1>1, <1>2, <2>1, AtHand, BoxKinds
<1>5. OnePin' /\ NoHoles' /\ KeptSound' /\ ReceiptsTrue'
  BY <1>1, <1>4, PinsKeep
<1>6. ReadSoFar' /\ GotFinite'
  BY <1>1 DEF PostInv, ReadSoFar, GotFinite
<1>7. LatePosts'
  <2>1. CASE job[j].kind = "post"
    <3>1. /\ ~Taken(new.slot)
          /\ \A n \in Nat : n < new.slot.seq => Taken(Slot(new.slot.box, n))
          /\ NoPostLate
      BY <1>1, <1>2, <2>1, AtHand
    <3>2. \A i \in Job : Idle(i)'
      BY <1>3, <2>1 DEF IInv, OneAtATime, Idle
    <3>3. \A p \in late' : p.body.type = "post" => p = new
      BY <1>1, <3>1 DEF NoPostLate
    <3>. QED  BY <1>1, <3>1, <3>2, <3>3 DEF LatePosts, Taken, PinsAt
  <2>2. CASE job[j].kind # "post"
    <3>1. \A p \in late' : p.body.type = "post" => p \in late
      BY <1>1, <1>2, <2>2, AtHand
    <3>. QED  BY <1>1, <1>3, <3>1, LateStay DEF Idle
  <2>. QED  BY <2>1, <2>2
<1>. QED  BY <1>1, <1>5, <1>6, <1>7, GivenUpSound

\* What the books have of a post once it is added to them.
LEMMA AddedSound ==
  ASSUME IInv, KeyInv, PostInv, channel # Nothing,
         NEW at \in Nat, NEW epoch \in Nat, NEW seq \in Nat, Posted(epoch, seq, at)
  PROVE  ChannelSound(AddOwnPost(channel, at, epoch, seq))
<1>. DEFINE new == [at |-> at, epoch |-> epoch, seq |-> seq, seen |-> {}]
            c   == AddOwnPost(channel, at, epoch, seq)
<1>1. channel \in Channels /\ ChannelSound(channel)
  BY DEF IInv, TypeOK, PostInv
<1>2. /\ c.posts = channel.posts \cup {new}
      /\ c.key = channel.key
      /\ c.nextOut = IF epoch = channel.epoch THEN Larger(channel.nextOut, seq + 1)
                     ELSE channel.nextOut
  BY <1>1 DEF AddOwnPost, Channels
<1>. HIDE DEF c
<1>3. \A q \in c.posts : Posted(q.epoch, q.seq, q.at) /\ \A m \in q.seen : HasPost(m, q.at)
  BY <1>1, <1>2 DEF ChannelSound
<1>4. ASSUME NEW n \in Nat, n < c.nextOut
      PROVE  Taken(Slot(PostsUnder(c.key), n))
  <2>1. CASE n < channel.nextOut
    BY <1>1, <1>2, <2>1 DEF ChannelSound
  <2>2. CASE epoch = channel.epoch /\ n < seq + 1
    <3>1. PICK p \in pins : PostPin(p, epoch, seq, at)
      BY DEF Posted
    <3>2. p.slot.box = PostsUnder(channel.key)
      BY <2>2, <3>1, OwnPost, PostPlace DEF PostPin, AllPins
    <3>. QED  BY <1>2, <2>2, <3>1, <3>2 DEF PostInv, NoHoles, PostPin
  <2>. QED  BY <1>2, <1>4, <2>1, <2>2 DEF Larger
<1>. QED  BY <1>3, <1>4 DEF ChannelSound, c

LEMMA PostSave ==
  ASSUME IInv, KeyInv, PostInv, NEW j \in Job, Save(j)
  PROVE  PostInv'
<1>0. TypeOK /\ JobsSound /\ ~Idle(j) /\ WorkSound(j) /\ job[j] \in Jobs
  BY JobTyped DEF IInv, PostInv, Save
<1>1. /\ pins' = pins /\ late' = late /\ kept' = kept /\ nextPost' = nextPost
      /\ got' = got /\ channel' = Saved(j)
  BY DEF Save, members
<1>2. \A i \in Job : Idle(i)'
  BY <1>0 DEF IInv, OneAtATime, Save, Idle, TypeOK
<1>3. channel' # Nothing => Saved(j) \in Channels /\ ChannelSound(Saved(j))
  <2>1. CASE job[j].kind = "people"
    <3>1. Saved(j) = job[j].channel /\ Saved(j) \in Channels
      BY <1>0, <2>1, SavedTyped
    <3>. QED  BY <1>0, <2>1, <3>1 DEF WorkSound
  <2>2. CASE job[j].kind = "post"
    <3>. DEFINE s == CHOOSE t \in job[j].sent : TRUE
    <3>1. SendsOf(j) = {} /\ channel # Nothing
      BY <1>0, <2>2 DEF Save, SendsOf, JobsSound, PostJob
    <3>2. s \in job[j].sent
      BY <1>0, <2>2, <3>1 DEF JobsSound, PostJob
    <3>3. s \in [errand : Errands, seq : Nat]
      BY <1>0, <3>2 DEF Jobs
    <3>4. s.errand.body.at \in Nat /\ s.errand.body.epoch \in Nat /\ s.seq \in Nat
      BY <3>3 DEF Errands, Bodies
    <3>5. Posted(s.errand.body.epoch, s.seq, s.errand.body.at)
      BY <1>0, <2>2, <3>2 DEF WorkSound
    <3>6. Saved(j) = AddOwnPost(channel, s.errand.body.at, s.errand.body.epoch, s.seq)
      BY <2>2, <3>1 DEF Saved
    <3>. HIDE DEF s
    <3>7. ChannelSound(Saved(j))
      BY <3>1, <3>4, <3>5, <3>6, AddedSound
    <3>. QED  BY <1>0, <2>2, <3>7, SavedTyped
  <2>3. CASE job[j].kind = "text"
    BY <1>0, <1>1, <2>3, SavedTyped DEF PostInv, TypeOK
  <2>. QED  BY <1>0, <2>1, <2>2, <2>3 DEF Jobs
<1>4. channel' # Nothing => ChannelSound(channel)'
  <2>1. channel' # Nothing => \E c \in Channels : c = channel' /\ ChannelSound(c)'
    BY <1>1, <1>3, SamePins
  <2>. QED  BY <2>1
<1>5. LatePosts'
  BY <1>1, <1>2, LateStay
<1>. QED  BY <1>1, <1>2, <1>4, <1>5, SamePins DEF PostInv

\* What is said of the job at work, and of the channel, by a step of somebody else.
LEMMA OthersKeep ==
  ASSUME IInv, KeyInv, PostInv, channel' = channel, job' = job,
         \A p \in pins : p.body.type = "post" => p \in pins',
         \A p \in pins' \ pins : p.slot.box[1] = "posts" =>
           \A j \in Job : ~Idle(j) => job[j].kind # "post",
         \A m \in Member : kept[m] \subseteq kept'[m]
  PROVE  /\ \A j \in Job : ~Idle(j)' => WorkSound(j)'
         /\ channel' # Nothing => ChannelSound(channel)'
<1>1. ASSUME NEW j \in Job, ~Idle(j)
      PROVE  WorkSound(j)'
  <2>0. job[j] \in Jobs /\ WorkSound(j) /\ ~Idle(j)'
    BY <1>1, JobTyped DEF IInv, PostInv, Idle
  <2>1. /\ job'[j] = job[j] /\ SendsOf(j)' = SendsOf(j)
        /\ AtWork(j)' => AtWork(j)
        /\ \A n : Slot(job[j].now.box, n)' = Slot(job[j].now.box, n)
    BY DEF SendsOf, AtWork, Idle
  <2>2. AtWork(j) => job[j].now \in SendsOf(j) /\ job[j].now \in Errands /\ job[j].seq \in Nat
    BY <1>1, NowTyped DEF AtWork, SendsOf, IInv
  <2>3. AtWork(j) /\ job[j].kind = "post" => \A n \in Nat :
          job[j].now.from <= n /\ n < job[j].seq => \E p \in pins' : p.slot = Slot(job[j].now.box, n)
    <3>. SUFFICES ASSUME AtWork(j), job[j].kind = "post", NEW n \in Nat,
                         job[j].now.from <= n, n < job[j].seq
                  PROVE  \E p \in pins' : p.slot = Slot(job[j].now.box, n)
      OBVIOUS
    <3>1. PICK p \in pins : p.slot = Slot(job[j].now.box, n)
      BY <2>0 DEF WorkSound, Taken, PinsAt
    <3>2. job[j].now.box = PostsUnder(channel.key) /\ channel.key \in Nat
      BY <1>1, <2>2 DEF KeyInv, SendsInPlace, IInv, TypeOK, JobsSound, PostJob, Channels
    <3>3. p.slot.box[1] = "posts"
      BY <3>1, <3>2, BoxKinds DEF Slot
    <3>. QED  BY <3>1, <3>3 DEF KeyInv, PinsInPlace, InPlace, AllPins
  <2>4. AtWork(j) /\ job[j].free /\ job[j].kind = "post" =>
          \A p \in pins' : p.slot # Slot(job[j].now.box, job[j].seq)
    <3>. SUFFICES ASSUME AtWork(j), job[j].free, job[j].kind = "post",
                         NEW p \in pins', p.slot = Slot(job[j].now.box, job[j].seq)
                  PROVE  FALSE
      OBVIOUS
    <3>1. p \notin pins
      BY <2>0 DEF WorkSound, Taken, PinsAt
    <3>2. p.slot.box[1] # "posts"
      BY <1>1, <3>1
    <3>. QED  BY <3>2, AtHand DEF Slot
  <2>5. AtWork(j)' /\ job[j].kind = "post" => \A n \in Nat :
          job'[j].now.from <= n /\ n < job'[j].seq => Taken(Slot(job[j].now.box, n))'
    BY <2>1, <2>3 DEF Taken, PinsAt
  <2>6. AtWork(j)' /\ job'[j].free /\ job[j].kind = "post" =>
          ~Taken(Slot(job[j].now.box, job[j].seq))'
    BY <2>1, <2>4 DEF Taken, PinsAt
  <2>. QED  BY <1>1, <2>0, <2>1, <2>5, <2>6, WorkKeep
<1>2. channel # Nothing => channel \in Channels /\ ChannelSound(channel)
  BY DEF IInv, TypeOK, PostInv
<1>3. channel # Nothing => \E c \in Channels : c = channel' /\ ChannelSound(c)'
  BY <1>2, PostsGrow
<1>. QED  BY <1>1, <1>3 DEF Idle

\* Whoever a check marks has the post: the receipt that was heard is true.
LEMMA MarkedHas ==
  ASSUME IInv, KeyInv, PostInv, channel # Nothing, NEW w \in Heard
  PROVE  HasPost(w.m, PostAt(channel, w.epoch, w.seq).at)
<1>. DEFINE Right(p) == /\ p.epoch = w.epoch /\ p.seq = w.seq
                        /\ \A q \in channel.posts : q.epoch = w.epoch /\ q.seq = w.seq => p.at <= q.at
            mark == PostAt(channel, w.epoch, w.seq)
<1>1. channel \in Channels /\ ChannelSound(channel)
  BY DEF IInv, TypeOK, PostInv
<1>2. /\ w.m \in Member /\ w.epoch \in Epoch
      /\ \E p \in channel.posts : p.epoch = w.epoch /\ p.seq = w.seq
      /\ Taken(ReceiptSlot(w.m, w.epoch, w.seq))
  BY <1>1 DEF Heard, Channels
<1>3. \E p \in channel.posts : Right(p)
  <2>1. PICK p \in channel.posts : p.epoch = w.epoch /\ p.seq = w.seq
    BY <1>2
  <2>2. \A q \in channel.posts : q.epoch = w.epoch /\ q.seq = w.seq => p.at = q.at
    BY <1>1, <2>1, OneAt DEF ChannelSound, PostInv
  <2>3. p.at \in Nat
    BY <1>1, <2>1 DEF Channels, Posts
  <2>. QED  BY <2>1, <2>2, <2>3
<1>4. mark \in channel.posts /\ mark.epoch = w.epoch /\ mark.seq = w.seq
  BY <1>3 DEF PostAt
<1>. HIDE DEF mark
<1>5. PICK p \in pins : p.slot = ReceiptSlot(w.m, w.epoch, w.seq)
  BY <1>2 DEF Taken, PinsAt
<1>6. p.slot.box = SeenBy(w.m, w.epoch) /\ p.slot.seq = w.seq /\ w.epoch \in Nat
  BY <1>2, <1>5, PressesAssumption DEF ReceiptSlot, Slot, Epoch
<1>7. PICK q \in kept[w.m] : q.epoch = w.epoch /\ q.seq = w.seq
  BY <1>2, <1>5, <1>6 DEF PostInv, ReceiptsTrue, AllPins
<1>8. Posted(w.epoch, w.seq, q.at) /\ Posted(w.epoch, w.seq, mark.at)
  BY <1>1, <1>2, <1>4, <1>7 DEF PostInv, KeptSound, ChannelSound
<1>9. q.at = mark.at
  BY <1>8, OneAt DEF PostInv
<1>. QED  BY <1>7, <1>9 DEF HasPost, mark

LEMMA PostSeeing ==
  ASSUME IInv, KeyInv, PostInv, AllIdle, channel # Nothing, NEW heard \in SUBSET Heard,
         CheckSeen(heard)
  PROVE  PostInv'
<1>0. TypeOK
  BY DEF IInv
<1>1. /\ channel \in Channels /\ channel' \in Channels
      /\ channel'.key = channel.key /\ channel'.nextOut = channel.nextOut
      /\ \A q \in channel'.posts : \E p \in channel.posts :
              /\ q.epoch = p.epoch /\ q.seq = p.seq /\ q.at = p.at
              /\ \A m \in q.seen : \/ m \in p.seen
                                   \/ \E w \in heard : w.m = m /\ p = PostAt(channel, w.epoch, w.seq)
      /\ \A p \in pins \ pins' : \E w \in heard : p.slot = ReceiptSlot(w.m, w.epoch, w.seq)
      /\ pins' \subseteq pins /\ late' = late
      /\ job' = job /\ got' = got /\ nextPost' = nextPost /\ kept' = kept
  BY <1>0, CheckSeenDoes
<1>2. \A p \in pins : p.body.type = "post" => p \in pins'
  <2>. SUFFICES ASSUME NEW p \in pins, p.body.type = "post", p \notin pins'
                PROVE  FALSE
    OBVIOUS
  <2>1. PICK w \in heard : p.slot = ReceiptSlot(w.m, w.epoch, w.seq)
    BY <1>1
  <2>2. w.m \in Member /\ w.epoch \in Nat
    BY <1>1, PressesAssumption DEF Heard, Channels, Epoch
  <2>3. p.slot.box = SeenBy(w.m, w.epoch)
    BY <2>1 DEF ReceiptSlot, Slot
  <2>. QED  BY <2>2, <2>3, PostPlace, BoxKinds DEF AllPins
<1>3. OnePin' /\ NoHoles' /\ KeptSound' /\ ReceiptsTrue'
  BY <1>1, <1>2, PinsKeep DEF AllPins
<1>4. ReadSoFar' /\ GotFinite'
  BY <1>1 DEF PostInv, ReadSoFar, GotFinite
<1>5. /\ \A epoch, seq, at : Posted(epoch, seq, at) => Posted(epoch, seq, at)'
      /\ \A k \in Nat : \A n : Taken(Slot(PostsUnder(k), n)) => Taken(Slot(PostsUnder(k), n))'
  BY <1>1, <1>2, PostsGrow
<1>6. \A m, at : HasPost(m, at) => HasPost(m, at)'
  BY <1>1 DEF HasPost
<1>7. ChannelSound(channel)
  BY DEF PostInv
<1>8. ASSUME NEW c \in Channels, c = channel'
      PROVE  ChannelSound(c)'
  <2>1. ASSUME NEW q \in c.posts
        PROVE  Posted(q.epoch, q.seq, q.at)' /\ \A m \in q.seen : HasPost(m, q.at)'
    <3>1. PICK p \in channel.posts :
              /\ q.epoch = p.epoch /\ q.seq = p.seq /\ q.at = p.at
              /\ \A m \in q.seen : \/ m \in p.seen
                                   \/ \E w \in heard : w.m = m /\ p = PostAt(channel, w.epoch, w.seq)
      BY <1>1, <1>8, <2>1
    <3>2. Posted(q.epoch, q.seq, q.at) /\ \A m \in p.seen : HasPost(m, q.at)
      BY <1>7, <3>1 DEF ChannelSound
    <3>3. \A m \in q.seen : HasPost(m, q.at)
      <4>1. ASSUME NEW w \in heard, p = PostAt(channel, w.epoch, w.seq)
            PROVE  HasPost(w.m, q.at)
        BY <3>1, <4>1, MarkedHas
      <4>. QED  BY <3>1, <3>2, <4>1
    <3>. QED  BY <1>5, <1>6, <3>2, <3>3
  <2>2. \A n \in Nat : n < c.nextOut => Taken(Slot(PostsUnder(c.key), n))'
    <3>1. c.key = channel.key /\ c.nextOut = channel.nextOut /\ channel.key \in Nat
      BY <1>1, <1>8 DEF Channels
    <3>2. \A n \in Nat : n < c.nextOut => Taken(Slot(PostsUnder(c.key), n))
      BY <1>7, <3>1 DEF ChannelSound
    <3>. QED  BY <1>5, <3>1, <3>2
  <2>. QED  BY <2>1, <2>2 DEF ChannelSound
<1>9. ChannelSound(channel)'
  <2>1. \E c \in Channels : c = channel' /\ ChannelSound(c)'
    BY <1>1, <1>8
  <2>. QED  BY <2>1
<1>10. \A j \in Job : Idle(j)'
  BY <1>1 DEF AllIdle, Idle
<1>11. LatePosts'
  BY <1>1, <1>2, <1>10, LateStay
<1>. QED  BY <1>3, <1>4, <1>9, <1>10, <1>11 DEF PostInv

LEMMA PostReadThread ==
  ASSUME IInv, KeyInv, PostInv, NEW m \in Member, NEW shield \in BOOLEAN,
         NEW dropping \in BOOLEAN, ReadThread(m, shield, dropping)
  PROVE  PostInv'
<1>0. TypeOK
  BY DEF IInv
<1>1. PICK x \in Found(Slot(ThreadOf(m), nextIn[m]), shield) : got'[m] = got[m] \cup {x.body}
  BY <1>0, ReadThreadDoes
<1>2. /\ \A n \in Member : n # m => got'[n] = got[n]
      /\ pins' \subseteq pins
      /\ \A p \in pins \ pins' : p.slot = Slot(ThreadOf(m), nextIn[m])
      /\ channel' = channel /\ job' = job /\ nextPost' = nextPost /\ kept' = kept
      /\ late' = late
  BY <1>0, ReadThreadDoes
<1>3. \A p \in pins : p.body.type = "post" => p \in pins'
  <2>. SUFFICES ASSUME NEW p \in pins, p.body.type = "post", p \notin pins'
                PROVE  FALSE
    OBVIOUS
  <2>1. p.slot.box = ThreadOf(m)
    BY <1>2 DEF Slot
  <2>. QED  BY <2>1, PostPlace, BoxKinds DEF AllPins
<1>4. OnePin' /\ NoHoles' /\ KeptSound' /\ ReceiptsTrue'
  BY <1>2, <1>3, PinsKeep DEF AllPins
<1>5. GotFinite'
  <2>1. IsFiniteSet(got[m]) /\ IsFiniteSet(got[m] \cup {x.body})
    BY FS_AddElement DEF PostInv, GotFinite
  <2>. QED  BY <1>1, <1>2, <2>1 DEF PostInv, GotFinite
<1>6. ReadSoFar'
  BY <1>2 DEF PostInv, ReadSoFar
<1>7. LatePosts'
  BY <1>2, <1>3, LateStay DEF Idle
<1>. QED  BY <1>2, <1>3, <1>4, <1>5, <1>6, <1>7, OthersKeep DEF PostInv

LEMMA PostReadPost ==
  ASSUME IInv, KeyInv, PostInv, NEW m \in Member, NEW epoch \in Epoch, ReadPost(m, epoch)
  PROVE  PostInv'
<1>. DEFINE seq == nextPost[m][epoch]
            r == Pinned(ReceiptSlot(m, epoch, seq), Body("seen", epoch, 0), today + KeepDays)
<1>0. TypeOK
  BY DEF IInv
<1>1. PICK x \in PinsAt(Slot(PostsUnder(KeyOf(m, epoch)), seq)) :
        kept'[m] = kept[m] \cup {[at |-> x.body.at, epoch |-> epoch, seq |-> seq]}
  BY <1>0, ReadPostDoes
<1>2. /\ Opens(m, epoch) /\ epoch \in Nat /\ seq \in Nat
      /\ \A n \in Member : n # m => kept'[n] = kept[n] /\ nextPost'[n] = nextPost[n]
      /\ \A e \in Epoch : nextPost'[m][e] = IF e = epoch THEN seq + 1 ELSE nextPost[m][e]
      /\ pins' = pins /\ (late' = late \/ late' = late \cup {r})
      /\ channel' = channel /\ job' = job /\ got' = got
  BY <1>0, ReadPostDoes
<1>3. /\ r.slot = ReceiptSlot(m, epoch, seq) /\ r.slot.box = SeenBy(m, epoch) /\ r.slot.seq = seq
      /\ r.body.type = "seen"
  BY DEF Pinned, ReceiptSlot, Slot, Body
<1>. HIDE DEF r, seq
<1>4. x \in pins /\ x.slot.box = PostsUnder(KeyOf(m, epoch)) /\ x.slot.seq = seq
  BY <1>1 DEF PinsAt, Slot
<1>5. x.body.type = "post" /\ x.body.epoch = epoch
  BY <1>2, <1>4, UnderKey DEF PostInv
<1>6. Posted(epoch, seq, x.body.at)
  BY <1>4, <1>5 DEF Posted, PostPin
<1>7. /\ \A n \in Member : kept[n] \subseteq kept'[n]
      /\ \A n \in Member : \A q \in kept'[n] \ kept[n] : Posted(q.epoch, q.seq, q.at)
      /\ \E q \in kept'[m] : q.epoch = epoch /\ q.seq = seq
  <2>. DEFINE k == [at |-> x.body.at, epoch |-> epoch, seq |-> seq]
  <2>1. kept'[m] = kept[m] \cup {k} /\ \A n \in Member : n # m => kept'[n] = kept[n]
    BY <1>1, <1>2
  <2>2. k.at = x.body.at /\ k.epoch = epoch /\ k.seq = seq
    OBVIOUS
  <2>. HIDE DEF k
  <2>3. Posted(k.epoch, k.seq, k.at)
    BY <1>6, <2>2
  <2>4. \A n \in Member : kept[n] \subseteq kept'[n]
    BY <2>1
  <2>5. \A n \in Member : \A q \in kept'[n] \ kept[n] : q = k
    BY <2>1
  <2>. QED  BY <2>1, <2>2, <2>3, <2>4, <2>5
<1>8. \A p \in AllPins' \ AllPins : p = r
  BY <1>2 DEF AllPins
<1>9. \A p \in AllPins' \ AllPins : \A n \in Member, e \in Nat : p.slot.box = SeenBy(n, e) =>
        \E q \in kept'[n] : q.epoch = e /\ q.seq = p.slot.seq
  BY <1>3, <1>7, <1>8 DEF SeenBy
<1>10. OnePin' /\ NoHoles' /\ KeptSound' /\ ReceiptsTrue'
  BY <1>2, <1>7, <1>9, PinsKeep
<1>11. ReadSoFar'
  <2>1. ASSUME NEW n \in Member, NEW e \in Epoch, NEW k \in Nat, k < nextPost'[n][e]
        PROVE  \E q \in kept'[n] : q.epoch = e /\ q.seq = k
    <3>1. CASE n = m /\ e = epoch /\ k = seq
      BY <1>7, <3>1
    <3>2. CASE k < nextPost[n][e]
      BY <1>7, <3>2 DEF PostInv, ReadSoFar
    <3>. QED  BY <1>2, <2>1, <3>1, <3>2 DEF seq
  <2>. QED  BY <2>1 DEF ReadSoFar
<1>12. GotFinite'
  BY <1>2 DEF PostInv, GotFinite
<1>13. LatePosts'
  <2>1. \A p \in late' : p.body.type = "post" => p \in late
    BY <1>2, <1>3
  <2>. QED  BY <1>2, <2>1, LateStay DEF Idle
<1>. QED  BY <1>2, <1>7, <1>10, <1>11, <1>12, <1>13, OthersKeep DEF PostInv

LEMMA PostRelay ==
  ASSUME IInv, KeyInv, PostInv, RelayWorks
  PROVE  PostInv'
<1>1. /\ channel' = channel /\ job' = job /\ got' = got /\ nextPost' = nextPost /\ kept' = kept
      /\ \A p \in pins \ pins' : p.until # Undated
      /\ late' \subseteq late /\ AllPins' \subseteq AllPins
  BY RelayTyped DEF RelayWorks, Sweep, NextDay, Land, Expired, business, members, IInv
<1>2. \A p \in pins : p.body.type = "post" => p \in pins'
  BY <1>1, PostPlace DEF AllPins
<1>3. /\ \A p \in pins' \ pins : p \in late \ late'
      /\ \A p, q \in pins' \ pins : p = q
  BY DEF RelayWorks, Sweep, NextDay, Land
<1>4. ASSUME NEW p \in pins' \ pins, p.body.type = "post"
      PROVE  /\ ~Taken(p.slot)
             /\ \A n \in 0..p.slot.seq : \E q \in pins' : q.slot = Slot(p.slot.box, n)
             /\ NoPostLate'
             /\ \A j \in Job : ~Idle(j) => job[j].kind # "post"
  <2>1. p \in late /\ p \notin late' /\ p \in AllPins
    BY <1>3 DEF AllPins
  <2>2. /\ ~Taken(p.slot)
        /\ \A n \in Nat : n < p.slot.seq => Taken(Slot(p.slot.box, n))
        /\ \A q \in late : q.body.type = "post" => q = p
        /\ \A j \in Job : ~Idle(j) => job[j].kind # "post"
    BY <1>4, <2>1 DEF PostInv, LatePosts
  <2>3. p.slot = Slot(p.slot.box, p.slot.seq) /\ p.slot.seq \in Nat
        /\ p.slot.box = PostsUnder(p.body.key) /\ p.slot.box[1] = "posts" /\ p.body.key \in Nat
    BY <1>4, <2>1, PostPlace
  <2>4. ASSUME NEW n \in 0..p.slot.seq
        PROVE  \E q \in pins' : q.slot = Slot(p.slot.box, n)
    <3>1. CASE n = p.slot.seq
      BY <2>3, <3>1
    <3>2. CASE n < p.slot.seq
      <4>1. PICK q \in pins : q.slot = Slot(p.slot.box, n)
        BY <2>2, <2>3, <3>2 DEF Taken, PinsAt
      <4>2. q.body.type = "post"
        BY <2>3, <4>1 DEF KeyInv, PinsInPlace, InPlace, AllPins, Slot
      <4>. QED  BY <1>2, <4>1, <4>2
    <3>. QED  BY <2>3, <3>1, <3>2
  <2>5. NoPostLate'
    BY <1>1, <2>1, <2>2 DEF NoPostLate
  <2>. QED  BY <2>2, <2>4, <2>5
<1>5. \A p \in pins' \ pins : p.slot.box[1] = "posts" => p.body.type = "post"
  BY <1>3 DEF KeyInv, PinsInPlace, InPlace, AllPins
<1>6. OnePin' /\ NoHoles' /\ KeptSound' /\ ReceiptsTrue'
  <2>1. \A p \in pins' \ pins : p.body.type = "post" =>
          \A n \in 0..p.slot.seq : Taken(Slot(p.slot.box, n))'
    BY <1>4 DEF Taken, PinsAt
  <2>. QED  BY <1>1, <1>2, <1>3, <1>4, <2>1, PinsKeep
<1>7. ReadSoFar' /\ GotFinite'
  BY <1>1 DEF PostInv, ReadSoFar, GotFinite
<1>8. LatePosts'
  BY <1>1, <1>2, <1>4, <1>5, LateStay DEF Idle
<1>9. /\ \A j \in Job : ~Idle(j)' => WorkSound(j)'
      /\ channel' # Nothing => ChannelSound(channel)'
  BY <1>1, <1>2, <1>4, <1>5, OthersKeep
<1>. QED  BY <1>6, <1>7, <1>8, <1>9 DEF PostInv

LEMMA PostNext ==
  IInv /\ KeyInv /\ PostInv /\ [OrderlyNext]_vars => PostInv'
<1>. SUFFICES ASSUME IInv, KeyInv, PostInv, [OrderlyNext]_vars
              PROVE  PostInv'
  OBVIOUS
<1>1. ASSUME NEW j \in Job, OrderlyStart(j)
      PROVE  PostInv'
  BY <1>1, PostCreate, PostSaveMembers, PostPost, PostWrite DEF OrderlyStart, Change
<1>2. ASSUME NEW j \in Job, ~Idle(j), Work(j)
      PROVE  PostInv'
  BY <1>2, PostBegin, PostLook, PostFail, PostSent, PostUnheard, PostSave DEF Work
<1>3. CASE AllIdle /\ Seeing
  BY <1>3, PostSeeing DEF Seeing
<1>4. ASSUME NEW m \in Member, Reading(m)
      PROVE  PostInv'
  BY <1>4, PostReadThread, PostReadPost DEF Reading
<1>5. CASE UNCHANGED vars
  <2>1. /\ channel' = channel /\ job' = job /\ pins' = pins /\ late' = late /\ got' = got
        /\ nextPost' = nextPost /\ kept' = kept
    BY <1>5 DEF vars
  <2>2. /\ OnePin' /\ NoHoles' /\ KeptSound' /\ ReceiptsTrue' /\ ReadSoFar' /\ GotFinite'
    BY <2>1, SamePins
  <2>3. LatePosts'
    BY <2>1, LateStay DEF Idle
  <2>. QED  BY <2>1, <2>2, <2>3, OthersKeep DEF PostInv
<1>. QED  BY <1>1, <1>2, <1>3, <1>4, <1>5, PostRelay DEF OrderlyNext

\* Of all the keys in books, jobs, threads and posts, each goes by one number and each number
\* stands for one key, and neither is above the last one given out (books/channels.ts,
\* removeMembers: the epoch goes up with every new key); what is on the relay or on its way
\* there, and what a job has left to send, is in the box it is for.
THEOREM OrderlyKeys == OrderlySpec => []KeyInv
<1>1. Init => KeyInv
  BY KeyInit
<1>. QED  BY <1>1, OrderlySound, KeyNext, PTL DEF OrderlySpec

\* Posts stand one to a slot and without a gap before them, one that was given up on and may
\* still come is the only one and would come into the next slot, what the books count as sent
\* is sent, what members have kept is what stands there, and there is a receipt only of what
\* is kept (chain/channels.ts, postToChannel and readChannel; books/channels.ts, addOwnPost).
THEOREM OrderlyPosts == OrderlySpec => []PostInv
<1>1. Init => PostInv
  BY PostInit
<1>. QED  BY <1>1, OrderlySound, OrderlyKeys, PostNext, PTL DEF OrderlySpec

\* Who is shown to have seen a post has it (books/channels.ts, markSeen; app/work's receipts),
\* for any members, however receipts are lost, swept or read twice.
THEOREM OrderlySeen == OrderlySpec => []SeenIsTrue
<1>1. PostInv => SeenIsTrue
  BY DEF PostInv, SeenIsTrue, ChannelSound
<1>. QED  BY <1>1, OrderlyPosts, PTL

\* A reader has kept what is in the slots behind them.
LEMMA PostsAreKept ==
  IInv /\ KeyInv /\ PostInv => PostsReach
<1>. SUFFICES ASSUME IInv, KeyInv, PostInv, NEW m \in Member, NEW epoch \in Epoch,
                     Opens(m, epoch), NEW p \in pins, p.slot.box = PostsUnder(KeyOf(m, epoch))
              PROVE  \/ HasPost(m, p.body.at)
                     \/ /\ p.slot.seq >= nextPost[m][epoch]
                        /\ \A n \in nextPost[m][epoch]..p.slot.seq : Taken(Slot(p.slot.box, n))
  BY DEF PostsReach
<1>1. p.body.type = "post" /\ p.body.epoch = epoch /\ p.slot.seq \in Nat
  BY UnderKey, PostPlace DEF PostInv, AllPins
<1>2. nextPost[m][epoch] \in Nat
  BY DEF IInv, TypeOK
<1>3. CASE p.slot.seq < nextPost[m][epoch]
  <2>1. PICK q \in kept[m] : q.epoch = epoch /\ q.seq = p.slot.seq
    BY <1>1, <1>3 DEF PostInv, ReadSoFar
  <2>2. Posted(epoch, p.slot.seq, q.at) /\ Posted(epoch, p.slot.seq, p.body.at)
    BY <1>1, <2>1 DEF PostInv, KeptSound, Posted, PostPin
  <2>3. q.at = p.body.at
    BY <2>2, OneAt DEF PostInv
  <2>. QED  BY <2>1, <2>3 DEF HasPost
<1>4. CASE p.slot.seq >= nextPost[m][epoch]
  BY <1>1, <1>2, <1>4 DEF PostInv, NoHoles
<1>. QED  BY <1>1, <1>2, <1>3, <1>4

\* No reader with its key passes a post by, and no empty slot is in front of one, whatever
\* failed in between (chain/channels.ts, readChannel: a check stops at the first empty slot).
THEOREM OrderlyPostsReach == OrderlySpec => []PostsReach
BY OrderlySound, OrderlyKeys, OrderlyPosts, PostsAreKept, PTL

(* The threads, and the keys that travel in them.                          *)

Stands(m, n) == Taken(Slot(ThreadOf(m), n)) \/ LettersAt(Slot(ThreadOf(m), n)) # {}

\* m's thread has no gap between its reader and top.
Filled(m, top) == \A n \in Nat : nextIn[m] <= n /\ n < top => Stands(m, n)

\* What is stored, or may be yet.
Sealed == AllPins \cup letters

\* Neither the reader of m's thread nor anything in it is beyond end.
Within(m, end) ==
  /\ nextIn[m] <= end
  /\ \A x \in Sealed : x.slot.box = ThreadOf(m) => x.slot.seq < end

\* m's thread up to top; what answers were lost of may be further on.
LogOf(m, top) == Filled(m, top) /\ Within(m, top + owed[m])

\* m has the key of that number, or it stands in front of the reader and below top, in a
\* slot with nothing else in it, now or later.
KeyKnown(m, epoch, top) ==
  \/ \E b \in got[m] : b.type = "key" /\ b.epoch = epoch
  \/ \E p \in pins : /\ p.slot.box = ThreadOf(m)
                     /\ p.slot.seq >= nextIn[m]
                     /\ p.slot.seq < top
                     /\ p.body.type = "key" /\ p.body.epoch = epoch
                     /\ \A x \in Sealed : x.slot = p.slot => x = p

SentTo(j, m) == {s \in job[j].sent : s.errand.box = ThreadOf(m)}

\* The next slot of m's thread, with what the job at work has put there.
Top(j, m) == IF SentTo(j, m) = {} THEN nextOut[m] ELSE (CHOOSE s \in SentTo(j, m) : TRUE).seq + 1

\* Where the job at work is in m's thread.
PlaceOf(j, m) ==
  /\ nextOut[m] <= job[j].seq /\ job[j].seq <= nextOut[m] + owed[m]
  /\ Filled(m, job[j].seq)
  /\ SentTo(j, m) = {}
  /\ \A e \in job[j].todo : e.box # ThreadOf(m)

ThreadOfJob(j, m) ==
  /\ LogOf(m, Top(j, m))
  /\ \A s \in SentTo(j, m) : nextOut[m] <= s.seq
  /\ \A e \in job[j].todo : e.box = ThreadOf(m) => e.from = nextOut[m] /\ SentTo(j, m) = {}
  /\ \A e, f \in job[j].todo : e.box = ThreadOf(m) /\ f.box = ThreadOf(m) => e = f
  /\ AtWork(j) /\ job[j].now.box = ThreadOf(m) => PlaceOf(j, m)

\* A post or a message is one send.
OneSend(j) ==
  /\ \A e, f \in job[j].todo : e = f
  /\ job[j].todo # {} => job[j].sent = {}
  /\ AtWork(j) => job[j].todo = {} /\ job[j].sent = {}

KeySentTo(j, m) == \E e \in SendsOf(j) : e.box = ThreadOf(m) /\ e.body.type = "key"

ThreadInv ==
  /\ AllIdle => \A m \in Member : LogOf(m, nextOut[m])
  /\ \A j \in Job : ~Idle(j) =>
       /\ \A m \in Member : ThreadOfJob(j, m)
       /\ job[j].kind # "people" => OneSend(j)
       /\ job[j].kind = "people" => \A m \in job[j].channel.members : outcome[m] = "sent" =>
            KeyKnown(m, job[j].channel.epoch, Top(j, m)) \/ KeySentTo(j, m)
  /\ channel # Nothing /\ (\A j \in Job : ~PeopleAtWork(j)) =>
       \A m \in channel.members : outcome[m] = "sent" => KeyKnown(m, channel.epoch, nextOut[m])

\* A step that reads nothing of m's thread and takes nothing from it.
ThreadStays(m) ==
  /\ nextIn'[m] = nextIn[m] /\ got[m] \subseteq got'[m]
  /\ \A p \in pins : p.slot.box = ThreadOf(m) => p \in pins'
  /\ letters \subseteq letters'

NothingNew(m) == \A x \in Sealed' \ Sealed : x.slot.box # ThreadOf(m)

\* What is known of m's thread stays known.
Remains(m) ==
  /\ \A top \in Nat : Filled(m, top) => Filled(m, top)'
  /\ \A top \in Nat : LogOf(m, top) => LogOf(m, top)'
  /\ \A epoch : \A top \in Nat : KeyKnown(m, epoch, top) => KeyKnown(m, epoch, top)'

LEMMA SealedTyped ==
  ASSUME TypeOK, NEW x \in Sealed
  PROVE  x.slot \in Slots /\ x.slot.seq \in Nat /\ x.slot = Slot(x.slot.box, x.slot.seq)
<1>1. x \in Stored
  BY DEF Sealed, AllPins, TypeOK
<1>. QED  BY <1>1 DEF Stored, Slots, Slot

LEMMA StandsKeeps ==
  ASSUME NEW m, NEW n, ThreadStays(m), Stands(m, n)
  PROVE  Stands(m, n)'
<1>1. Taken(Slot(ThreadOf(m), n)) => Taken(Slot(ThreadOf(m), n))'
  BY DEF Taken, PinsAt, Slot, ThreadStays
<1>2. LettersAt(Slot(ThreadOf(m), n)) # {} => LettersAt(Slot(ThreadOf(m), n))' # {}
  BY DEF LettersAt, ThreadStays
<1>. QED  BY <1>1, <1>2 DEF Stands

LEMMA FilledKeeps ==
  ASSUME NEW m, NEW top, ThreadStays(m), Filled(m, top)
  PROVE  Filled(m, top)'
<1>1. \A n : Stands(m, n) => Stands(m, n)'
  BY StandsKeeps
<1>2. nextIn'[m] = nextIn[m]
  BY DEF ThreadStays
<1>. QED  BY <1>1, <1>2 DEF Filled

\* One more at the end.
LEMMA FilledGrows ==
  ASSUME TypeOK, NEW m \in Member, NEW top \in Nat, Filled(m, top), ThreadStays(m),
         \E x \in pins' \cup letters' : x.slot = Slot(ThreadOf(m), top)
  PROVE  Filled(m, top + 1)'
<1>1. nextIn[m] \in Nat /\ nextIn'[m] = nextIn[m]
  BY DEF ThreadStays, TypeOK
<1>2. Filled(m, top)'
  BY FilledKeeps
<1>3. Stands(m, top)'
  BY DEF Stands, Taken, PinsAt, LettersAt
<1>4. ASSUME NEW n \in Nat, nextIn'[m] <= n, n < top + 1
      PROVE  Stands(m, n)'
  <2>1. CASE n = top
    BY <1>3, <2>1
  <2>2. CASE n < top
    BY <1>2, <1>4, <2>2 DEF Filled
  <2>. QED  BY <1>4, <2>1, <2>2
<1>. QED  BY <1>4 DEF Filled

LEMMA WithinKeeps ==
  ASSUME TypeOK, NEW m \in Member, NEW end \in Nat, NEW later \in Nat, end <= later,
         Within(m, end), nextIn'[m] = nextIn[m],
         \A x \in Sealed' \ Sealed : x.slot.box = ThreadOf(m) => x.slot.seq < later
  PROVE  Within(m, later)'
<1>1. nextIn'[m] <= later
  BY DEF Within, TypeOK
<1>2. ASSUME NEW x \in Sealed', x.slot.box = ThreadOf(m)
      PROVE  x.slot.seq < later
  <2>1. CASE x \in Sealed
    BY <1>2, <2>1, SealedTyped DEF Within
  <2>2. CASE x \notin Sealed
    BY <1>2, <2>2
  <2>. QED  BY <2>1, <2>2
<1>. QED  BY <1>1, <1>2 DEF Within

LEMMA KnownKeeps ==
  ASSUME TypeOK, NEW m, NEW epoch, NEW top \in Nat, NEW later \in Nat, top <= later,
         KeyKnown(m, epoch, top), ThreadStays(m),
         \A x \in Sealed' \ Sealed : x.slot.box = ThreadOf(m) => x.slot.seq >= top
  PROVE  KeyKnown(m, epoch, later)'
<1>1. CASE \E b \in got[m] : b.type = "key" /\ b.epoch = epoch
  BY <1>1 DEF KeyKnown, ThreadStays
<1>2. ASSUME NEW p \in pins, p.slot.box = ThreadOf(m), p.slot.seq >= nextIn[m],
             p.slot.seq < top, p.body.type = "key", p.body.epoch = epoch,
             \A x \in Sealed : x.slot = p.slot => x = p
      PROVE  KeyKnown(m, epoch, later)'
  <2>1. p \in pins' /\ p.slot.seq >= nextIn'[m]
    BY <1>2 DEF ThreadStays
  <2>2. p.slot.seq \in Nat
    BY SealedTyped DEF Sealed, AllPins
  <2>3. p.slot.seq < later
    BY <1>2, <2>2
  <2>4. ASSUME NEW x \in Sealed', x.slot = p.slot
        PROVE  x = p
    <3>1. CASE x \in Sealed
      BY <1>2, <2>4, <3>1
    <3>2. CASE x \notin Sealed
      BY <1>2, <2>2, <2>4, <3>2
    <3>. QED  BY <3>1, <3>2
  <2>. QED  BY <1>2, <2>1, <2>3, <2>4 DEF KeyKnown
<1>. QED  BY <1>1, <1>2 DEF KeyKnown

LEMMA QuietKeeps ==
  ASSUME TypeOK, NEW m \in Member, ThreadStays(m), NothingNew(m), owed'[m] = owed[m]
  PROVE  Remains(m)
<1>1. nextIn'[m] = nextIn[m] /\ owed[m] \in Nat
  BY DEF ThreadStays, TypeOK
<1>2. ASSUME NEW top \in Nat, LogOf(m, top)
      PROVE  LogOf(m, top)'
  <2>1. Filled(m, top)'
    BY <1>2, FilledKeeps DEF LogOf
  <2>2. ASSUME NEW end \in Nat, Within(m, end)
        PROVE  Within(m, end)'
    BY <1>1, <2>2, WithinKeeps DEF NothingNew
  <2>3. \E end : end = top + owed'[m] /\ Within(m, end)'
    BY <1>1, <1>2, <2>2 DEF LogOf
  <2>4. Within(m, top + owed[m])'
    BY <2>3
  <2>. QED  BY <2>1, <2>4 DEF LogOf
<1>3. \A epoch : \A top \in Nat : KeyKnown(m, epoch, top) => KeyKnown(m, epoch, top)'
  BY KnownKeeps DEF NothingNew
<1>. QED  BY <1>2, <1>3, FilledKeeps DEF Remains

LEMMA TopTyped ==
  ASSUME TypeOK, NEW j \in Job, ~Idle(j), NEW m \in Member, ThreadOfJob(j, m)
  PROVE  Top(j, m) \in Nat /\ nextOut[m] \in Nat /\ nextOut[m] <= Top(j, m)
<1>1. nextOut[m] \in Nat /\ job[j] \in Jobs
  BY JobTyped DEF TypeOK
<1>2. ASSUME NEW s \in SentTo(j, m)
      PROVE  s.seq \in Nat /\ nextOut[m] <= s.seq
  BY <1>1 DEF SentTo, Jobs, ThreadOfJob
<1>3. SentTo(j, m) # {} => (CHOOSE s \in SentTo(j, m) : TRUE) \in SentTo(j, m)
  OBVIOUS
<1>. QED  BY <1>1, <1>2, <1>3 DEF Top

LEMMA ThreadInit ==
  ASSUME Init
  PROVE  ThreadInv
<1>1. \A j \in Job : Idle(j)
  BY DEF Init, Idle
<1>2. \A m \in Member : LogOf(m, nextOut[m])
  BY DEF Init, RelayInit, LogOf, Filled, Within, Sealed, AllPins
<1>. QED  BY <1>1, <1>2 DEF Init, ThreadInv

LEMMA ThreadPress ==
  ASSUME IInv, ThreadInv, AllIdle, NEW j \in Job,
         NEW kind \in {"people", "post", "text"},
         NEW snapshot \in Channels \cup {Nothing}, NEW todo \in SUBSET Errands,
         Press(j, kind, snapshot, todo),
         \A m \in Member : \A e \in todo : e.box = ThreadOf(m) => e.from = nextOut[m],
         \A m \in Member : \A e, f \in todo : e.box = ThreadOf(m) /\ f.box = ThreadOf(m) => e = f,
         kind # "people" => \A e, f \in todo : e = f,
         kind = "people" => /\ snapshot.members \subseteq Member
                            /\ \A m \in snapshot.members : outcome[m] = "sent" =>
                                 \/ KeyKnown(m, snapshot.epoch, nextOut[m])
                                 \/ \E e \in todo : e.box = ThreadOf(m) /\ e.body.type = "key"
  PROVE  ThreadInv'
<1>0. TypeOK /\ \A m \in Member : nextOut[m] \in Nat
  BY DEF IInv, TypeOK
<1>1. /\ job'[j] # Nothing
      /\ \A i \in Job : i # j => job'[i] = job[i]
      /\ job'[j].kind = kind /\ job'[j].channel = snapshot
      /\ job'[j].todo = todo /\ job'[j].now = Nothing /\ job'[j].sent = {}
      /\ pins' = pins /\ channel' = channel /\ letters' = letters /\ nextOut' = nextOut
      /\ nextIn' = nextIn /\ got' = got /\ AllPins' = AllPins
      /\ outcome' = outcome /\ owed' = owed
  BY <1>0, PressDoes
<1>2. /\ ~Idle(j)' /\ ~AllIdle' /\ \A i \in Job : i # j => Idle(i)'
      /\ \A i \in Job : ~PeopleAtWork(i)
  BY <1>1 DEF AllIdle, Idle, PeopleAtWork
<1>3. \A m \in Member : Remains(m)
  BY <1>0, <1>1, QuietKeeps DEF ThreadStays, NothingNew, Sealed
<1>4. \A m \in Member : SentTo(j, m)' = {} /\ Top(j, m)' = nextOut[m]
  BY <1>1 DEF SentTo, Top
<1>5. ASSUME NEW m \in Member
      PROVE  ThreadOfJob(j, m)'
  <2>1. LogOf(m, nextOut[m])
    BY DEF ThreadInv
  <2>2. \E top : top = Top(j, m)' /\ LogOf(m, top)'
    BY <1>0, <1>3, <1>4, <2>1 DEF Remains
  <2>3. LogOf(m, Top(j, m))'
    BY <2>2
  <2>4. ~AtWork(j)'
    BY <1>1 DEF AtWork
  <2>. QED  BY <1>1, <1>4, <2>3, <2>4 DEF ThreadOfJob
<1>6. OneSend(j)' \/ kind = "people"
  BY <1>1 DEF OneSend, AtWork
<1>7. ASSUME kind = "people", NEW m \in snapshot.members, outcome'[m] = "sent"
      PROVE  KeyKnown(m, job[j].channel.epoch, Top(j, m))' \/ KeySentTo(j, m)'
  <2>0. m \in Member
    BY <1>7
  <2>1. SendsOf(j)' = todo
    BY <1>1 DEF SendsOf
  <2>2. CASE KeyKnown(m, snapshot.epoch, nextOut[m])
    <3>1. \E epoch, top : /\ epoch = job'[j].channel.epoch /\ top = Top(j, m)'
                          /\ KeyKnown(m, epoch, top)'
      BY <1>0, <1>1, <1>3, <1>4, <2>0, <2>2 DEF Remains
    <3>. QED  BY <3>1
  <2>3. CASE \E e \in todo : e.box = ThreadOf(m) /\ e.body.type = "key"
    BY <2>1, <2>3 DEF KeySentTo
  <2>. QED  BY <1>1, <1>7, <2>2, <2>3
<1>8. ASSUME channel' # Nothing, NEW m \in channel'.members, outcome'[m] = "sent"
      PROVE  KeyKnown(m, channel.epoch, nextOut[m])'
  <2>1. KeyKnown(m, channel.epoch, nextOut[m]) /\ m \in Member
    BY <1>0, <1>1, <1>2, <1>8 DEF ThreadInv, TypeOK, Channels
  <2>2. \E epoch, top : epoch = channel'.epoch /\ top = nextOut'[m] /\ KeyKnown(m, epoch, top)'
    BY <1>0, <1>1, <1>3, <2>1 DEF Remains
  <2>. QED  BY <2>2
<1>. QED  BY <1>1, <1>2, <1>5, <1>6, <1>7, <1>8 DEF ThreadInv

LEMMA ThreadsApart ==
  ASSUME NEW m \in Member, NEW n \in Member, ThreadOf(m) = ThreadOf(n)
  PROVE  m = n
BY DEF ThreadOf

LEMMA ErrandIs ==
  ASSUME NEW m, NEW c, NEW outs, NEW turn
  PROVE  /\ KeyTo(m, c, outs, turn).box = ThreadOf(m)
         /\ KeyTo(m, c, outs, turn).from = outs[m]
         /\ KeyTo(m, c, outs, turn).body.type = "key"
         /\ LeftTo(m, c, outs).box = ThreadOf(m)
         /\ LeftTo(m, c, outs).from = outs[m]
BY DEF KeyTo, LeftTo, Errand, Body

LEMMA ThreadCreate ==
  ASSUME IInv, ThreadInv, AllIdle, NEW j \in Job, NEW who \in SUBSET Member, Create(j, who)
  PROVE  ThreadInv'
<1>. DEFINE c    == NewChannel(who, pressed + 1)
            todo == {KeyTo(m, c, nextOut, 1) : m \in who}
<1>1. TypeOK /\ pressed + 1 \in Nat
  BY DEF IInv, TypeOK
<1>2. c \in Channels /\ c.members = who
  BY <1>1, NewTyped DEF NewChannel
<1>3. Press(j, "people", c, todo)
  BY DEF Create
<1>. HIDE DEF c
<1>4. todo \in SUBSET Errands
  BY <1>1, <1>2, KeyErrands
<1>5. \A e \in todo : \E n \in who : e = KeyTo(n, c, nextOut, 1)
  OBVIOUS
<1>6. \A n \in who : \E e \in todo : e = KeyTo(n, c, nextOut, 1)
  OBVIOUS
<1>. HIDE DEF todo
<1>7. \A m \in Member : \A e \in todo : e.box = ThreadOf(m) => e = KeyTo(m, c, nextOut, 1)
  <2>. SUFFICES ASSUME NEW m \in Member, NEW e \in todo, e.box = ThreadOf(m)
                PROVE  e = KeyTo(m, c, nextOut, 1)
    OBVIOUS
  <2>1. PICK n \in who : e = KeyTo(n, c, nextOut, 1)
    BY <1>5
  <2>2. m = n
    BY <2>1, ErrandIs, ThreadsApart
  <2>. QED  BY <2>1, <2>2
<1>8. \A m \in Member : \A e \in todo : e.box = ThreadOf(m) => e.from = nextOut[m]
  BY <1>7, ErrandIs
<1>9. \A m \in Member : \A e, f \in todo : e.box = ThreadOf(m) /\ f.box = ThreadOf(m) => e = f
  BY <1>7
<1>10. \A m \in c.members : \E e \in todo : e.box = ThreadOf(m) /\ e.body.type = "key"
  BY <1>2, <1>6, ErrandIs
<1>11. c.members \subseteq Member
  BY <1>2
<1>. QED  BY <1>2, <1>3, <1>4, <1>8, <1>9, <1>10, <1>11, ThreadPress

LEMMA ThreadSaveMembers ==
  ASSUME IInv, ThreadInv, AllIdle, NEW j \in Job, NEW want \in SUBSET Member,
         SaveMembers(j, want)
  PROVE  ThreadInv'
<1>1. PICK more \in Channels, gone \in SUBSET Member, added \in SUBSET Member,
           todo \in SUBSET Errands : Alteration(j, want, more, gone, added, todo)
  BY MembersSends
<1>2. /\ channel # Nothing /\ channel \in Channels
      /\ Press(j, "people", more, todo)
      /\ gone = channel.members \ want /\ added = want \ channel.members
      /\ more.members = (channel.members \ gone) \cup added
      /\ gone = {} => more.epoch = channel.epoch
      /\ todo = (IF gone = {} THEN {}
                 ELSE {LeftTo(m, more, nextOut) : m \in gone}
                      \cup {KeyTo(m, more, nextOut, 2) : m \in channel.members \ gone})
                \cup {KeyTo(m, more, nextOut, 3) : m \in added}
  BY <1>1 DEF Alteration
<1>3. channel.members \subseteq Member /\ more.members \subseteq Member
  BY <1>2 DEF Channels
<1>. DEFINE Due(m, e) == \/ m \in gone /\ e = LeftTo(m, more, nextOut)
                         \/ m \in channel.members \ gone /\ e = KeyTo(m, more, nextOut, 2)
                         \/ m \in added /\ e = KeyTo(m, more, nextOut, 3)
<1>4. \A e \in todo : \E n \in Member : Due(n, e)
  <2>. SUFFICES ASSUME NEW e \in todo
                PROVE  \E n \in Member : Due(n, e)
    OBVIOUS
  <2>1. \/ \E n \in gone : e = LeftTo(n, more, nextOut)
        \/ \E n \in channel.members \ gone : e = KeyTo(n, more, nextOut, 2)
        \/ \E n \in added : e = KeyTo(n, more, nextOut, 3)
    BY <1>2
  <2>. QED  BY <1>3, <2>1
<1>5. ASSUME NEW m \in Member, NEW e \in todo, e.box = ThreadOf(m)
      PROVE  Due(m, e)
  <2>1. PICK n \in Member : Due(n, e)
    BY <1>4
  <2>2. e.box = ThreadOf(n)
    BY <2>1, ErrandIs
  <2>3. m = n
    BY <1>5, <2>2, ThreadsApart
  <2>. QED  BY <2>1, <2>3
<1>6. \A m \in Member : \A e \in todo : e.box = ThreadOf(m) => e.from = nextOut[m]
  <2>1. ASSUME NEW m \in Member, NEW e, Due(m, e)
        PROVE  e.from = nextOut[m]
    <3>1. CASE e = LeftTo(m, more, nextOut)
      BY <3>1, ErrandIs
    <3>2. CASE \E turn : e = KeyTo(m, more, nextOut, turn)
      BY <3>2, ErrandIs
    <3>. QED  BY <2>1, <3>1, <3>2
  <2>2. \A m \in Member : \A e \in todo : e.box = ThreadOf(m) => Due(m, e)
    BY <1>5
  <2>. HIDE DEF Due
  <2>. QED  BY <2>1, <2>2
<1>7. \A m \in Member : \A e, f \in todo : e.box = ThreadOf(m) /\ f.box = ThreadOf(m) => e = f
  <2>. DEFINE Mine(m) == IF m \in gone THEN LeftTo(m, more, nextOut)
                         ELSE IF m \in channel.members THEN KeyTo(m, more, nextOut, 2)
                         ELSE KeyTo(m, more, nextOut, 3)
  <2>1. gone \subseteq channel.members /\ \A m \in added : m \notin channel.members
    BY <1>2
  <2>2. \A m \in Member : \A e : Due(m, e) => e = Mine(m)
    BY <2>1
  <2>3. \A m \in Member : \A e \in todo : e.box = ThreadOf(m) => Due(m, e)
    BY <1>5
  <2>. HIDE DEF Mine, Due
  <2>. QED  BY <2>2, <2>3
<1>8. ASSUME NEW m \in more.members, outcome[m] = "sent"
      PROVE  \/ KeyKnown(m, more.epoch, nextOut[m])
             \/ \E e \in todo : e.box = ThreadOf(m) /\ e.body.type = "key"
  <2>1. CASE gone = {} /\ m \in channel.members
    <3>1. \A i \in Job : ~PeopleAtWork(i)
      BY DEF AllIdle, PeopleAtWork
    <3>2. \A n \in channel.members : outcome[n] = "sent" => KeyKnown(n, channel.epoch, nextOut[n])
      BY <1>2, <3>1 DEF ThreadInv
    <3>3. more.epoch = channel.epoch
      BY <1>2, <2>1
    <3>. QED  BY <1>8, <2>1, <3>2, <3>3
  <2>2. CASE gone # {} /\ m \in channel.members \ gone
    <3>1. KeyTo(m, more, nextOut, 2) \in todo
      BY <1>2, <2>2
    <3>. QED  BY <3>1, ErrandIs
  <2>3. CASE m \in added
    <3>1. KeyTo(m, more, nextOut, 3) \in todo
      BY <1>2, <2>3
    <3>. QED  BY <3>1, ErrandIs
  <2>. QED  BY <1>2, <1>8, <2>1, <2>2, <2>3
<1>. QED  BY <1>2, <1>3, <1>6, <1>7, <1>8, ThreadPress

LEMMA ThreadPost ==
  ASSUME IInv, ThreadInv, AllIdle, NEW j \in Job, Post(j)
  PROVE  ThreadInv'
<1>. DEFINE e == Errand(PostsUnder(channel.key), Body("post", channel.epoch, channel.key),
                        channel.nextOut, 1, "mailbox")
<1>1. TypeOK /\ channel # Nothing /\ channel \in Channels
  BY DEF IInv, TypeOK, Post
<1>2. channel.key \in Nat /\ channel.epoch \in Nat /\ channel.nextOut \in Nat
  BY <1>1 DEF Channels
<1>3. e \in Errands
  BY <1>2, BoxTypes, ErrandTypes
<1>4. e.box = PostsUnder(channel.key)
  BY DEF Errand
<1>5. Press(j, "post", channel, {e})
  BY DEF Post
<1>. HIDE DEF e
<1>6. {e} \in SUBSET Errands
  BY <1>3
<1>7. \A m \in Member : e.box # ThreadOf(m)
  BY <1>2, <1>4, BoxKinds
<1>. QED  BY <1>1, <1>5, <1>6, <1>7, ThreadPress

LEMMA ThreadWrite ==
  ASSUME IInv, ThreadInv, AllIdle, NEW j \in Job, NEW m \in Member, Write(j, m)
  PROVE  ThreadInv'
<1>. DEFINE e == Errand(ThreadOf(m), Body("text", 0, 0), nextOut[m], 1, "chain")
<1>1. nextOut[m] \in Nat
  BY DEF IInv, TypeOK
<1>2. e \in Errands
  BY <1>1, BoxTypes, ErrandTypes
<1>3. e.box = ThreadOf(m) /\ e.from = nextOut[m]
  BY DEF Errand
<1>4. Press(j, "text", Nothing, {e})
  BY DEF Write
<1>. HIDE DEF e
<1>5. {e} \in SUBSET Errands
  BY <1>2
<1>6. \A n \in Member : e.box = ThreadOf(n) => n = m
  BY <1>3, ThreadsApart
<1>. QED  BY <1>3, <1>4, <1>5, <1>6, ThreadPress

\* A step of a job that keeps at work, and stores nothing.
LEMMA ThreadWork ==
  ASSUME IInv, ThreadInv, NEW j \in Job, ~Idle(j), ~Idle(j)',
         \A i \in Job : i # j => job'[i] = job[i],
         job'[j].kind = job[j].kind, job'[j].channel = job[j].channel, job'[j].sent = job[j].sent,
         pins' = pins, letters' = letters, late' = late, nextOut' = nextOut, nextIn' = nextIn,
         got' = got, channel' = channel, outcome' = outcome, owed' = owed,
         \A e \in job'[j].todo : e \in job[j].todo,
         \A m \in job[j].channel.members : KeySentTo(j, m) => KeySentTo(j, m)',
         \A m \in Member : AtWork(j)' /\ job'[j].now.box = ThreadOf(m) => PlaceOf(j, m)',
         job[j].kind # "people" => OneSend(j)'
  PROVE  ThreadInv'
<1>0. TypeOK
  BY DEF IInv
<1>1. \A i \in Job : i # j => Idle(i) /\ Idle(i)'
  BY DEF IInv, OneAtATime, Idle
<1>2. \A m \in Member : Remains(m)
  BY <1>0, QuietKeeps DEF ThreadStays, NothingNew, Sealed, AllPins
<1>3. ASSUME NEW m \in Member
      PROVE  /\ ThreadOfJob(j, m)
             /\ SentTo(j, m)' = SentTo(j, m) /\ Top(j, m)' = Top(j, m)
             /\ Top(j, m) \in Nat /\ nextOut[m] \in Nat
  <2>1. ThreadOfJob(j, m)
    BY DEF ThreadInv
  <2>2. SentTo(j, m)' = SentTo(j, m)
    BY DEF SentTo
  <2>. QED  BY <1>0, <2>1, <2>2, TopTyped DEF Top
<1>4. ASSUME NEW m \in Member
      PROVE  ThreadOfJob(j, m)'
  <2>1. \E top : top = Top(j, m)' /\ LogOf(m, top)'
    BY <1>2, <1>3 DEF ThreadOfJob, Remains
  <2>2. LogOf(m, Top(j, m))'
    BY <2>1
  <2>. QED  BY <1>3, <2>2 DEF ThreadOfJob
<1>5. ASSUME job[j].kind = "people", NEW m \in job[j].channel.members, outcome[m] = "sent"
      PROVE  KeyKnown(m, job[j].channel.epoch, Top(j, m))' \/ KeySentTo(j, m)'
  <2>1. KeyKnown(m, job[j].channel.epoch, Top(j, m)) \/ KeySentTo(j, m)
    BY <1>5 DEF ThreadInv
  <2>2. m \in Member
    BY <1>5 DEF IInv, JobsSound, PeopleJob, Channels
  <2>3. CASE KeyKnown(m, job[j].channel.epoch, Top(j, m))
    <3>1. \E epoch, top : /\ epoch = job'[j].channel.epoch /\ top = Top(j, m)'
                          /\ KeyKnown(m, epoch, top)'
      BY <1>2, <1>3, <2>2, <2>3 DEF Remains
    <3>. QED  BY <3>1
  <2>. QED  BY <1>5, <2>1, <2>3
<1>6. ASSUME channel' # Nothing, job[j].kind # "people", NEW m \in channel'.members,
             outcome'[m] = "sent"
      PROVE  KeyKnown(m, channel.epoch, nextOut[m])'
  <2>1. m \in Member /\ KeyKnown(m, channel.epoch, nextOut[m])
    BY <1>0, <1>1, <1>6 DEF ThreadInv, PeopleAtWork, TypeOK, Channels
  <2>2. \E epoch, top : epoch = channel'.epoch /\ top = nextOut'[m] /\ KeyKnown(m, epoch, top)'
    BY <1>2, <1>3, <2>1 DEF Remains
  <2>. QED  BY <2>2
<1>7. PeopleAtWork(j)' <=> job[j].kind = "people"
  BY DEF PeopleAtWork
<1>. QED  BY <1>1, <1>4, <1>5, <1>6, <1>7 DEF ThreadInv, AllIdle

LEMMA ThreadBegin ==
  ASSUME IInv, ThreadInv, NEW j \in Job, NEW e, Begin(j, e)
  PROVE  ThreadInv'
<1>0. TypeOK
  BY DEF IInv
<1>1. /\ pins' = pins /\ letters' = letters /\ late' = late /\ nextOut' = nextOut
      /\ nextIn' = nextIn /\ got' = got /\ channel' = channel /\ outcome' = outcome
      /\ owed' = owed
  BY DEF Begin, business, members, history
<1>2. ~Idle(j) /\ e \in job[j].todo
  BY <1>0, BeginDoes DEF Begin
<1>3. /\ ~Idle(j)'
      /\ \A i \in Job : i # j => job'[i] = job[i]
      /\ job'[j].kind = job[j].kind /\ job'[j].channel = job[j].channel
      /\ job'[j].sent = job[j].sent
      /\ job'[j].todo = job[j].todo \ {e}
      /\ job'[j].seq = e.from
      /\ job'[j].now # Nothing /\ job'[j].now.box = e.box
      /\ job'[j].now.body.type = e.body.type
      /\ job[j].now = Nothing
  BY <1>0, BeginDoes DEF Idle
<1>4. ASSUME NEW m \in Member, job'[j].now.box = ThreadOf(m)
      PROVE  PlaceOf(j, m)'
  <2>1. ThreadOfJob(j, m) /\ nextOut[m] \in Nat /\ owed[m] \in Nat
    BY <1>0, <1>2 DEF ThreadInv, TypeOK
  <2>2. e.box = ThreadOf(m)
    BY <1>3, <1>4
  <2>3. /\ e.from = nextOut[m] /\ SentTo(j, m) = {}
        /\ \A f \in job[j].todo : f.box = ThreadOf(m) => e = f
    BY <1>2, <2>1, <2>2 DEF ThreadOfJob
  <2>4. Filled(m, nextOut[m])
    BY <2>1, <2>3 DEF ThreadOfJob, Top, LogOf
  <2>5. ThreadStays(m)
    BY <1>1 DEF ThreadStays
  <2>6. \E top : top = job'[j].seq /\ Filled(m, top)'
    BY <1>3, <2>3, <2>4, <2>5, FilledKeeps
  <2>7. Filled(m, job[j].seq)'
    BY <2>6
  <2>8. SentTo(j, m)' = {}
    BY <1>3, <2>3 DEF SentTo
  <2>. QED  BY <1>1, <1>3, <2>1, <2>3, <2>7, <2>8 DEF PlaceOf
<1>5. \A m : KeySentTo(j, m) => KeySentTo(j, m)'
  BY <1>3 DEF KeySentTo, SendsOf
<1>6. job[j].kind # "people" => OneSend(j)'
  BY <1>2, <1>3 DEF ThreadInv, OneSend
<1>. QED  BY <1>1, <1>2, <1>3, <1>4, <1>5, <1>6, ThreadWork

LEMMA ThreadLook ==
  ASSUME IInv, ThreadInv, NEW j \in Job, Look(j)
  PROVE  ThreadInv'
<1>0. TypeOK
  BY DEF IInv
<1>1. /\ pins' = pins /\ letters' = letters /\ late' = late /\ nextOut' = nextOut
      /\ nextIn' = nextIn /\ got' = got /\ channel' = channel /\ outcome' = outcome
      /\ owed' = owed
  BY DEF Look, business, members, history
<1>2. /\ ~Idle(j) /\ ~Idle(j)' /\ AtWork(j) /\ AtWork(j)' /\ job[j] \in Jobs
      /\ \A i \in Job : i # j => job'[i] = job[i]
      /\ job'[j].kind = job[j].kind /\ job'[j].channel = job[j].channel
      /\ job'[j].sent = job[j].sent
      /\ job'[j].todo = job[j].todo
      /\ job'[j].now = job[j].now
      /\ \/ IsTaken(job[j].now, job[j].seq) /\ job'[j].seq = job[j].seq + 1
         \/ job'[j].seq = job[j].seq
  BY <1>0, LookDoes DEF Idle, AtWork
<1>3. ASSUME NEW m \in Member, job[j].now.box = ThreadOf(m)
      PROVE  PlaceOf(j, m)'
  <2>1. ThreadOfJob(j, m) /\ nextOut[m] \in Nat /\ owed[m] \in Nat /\ job[j].seq \in Nat
    BY <1>0, <1>2 DEF ThreadInv, TypeOK, Jobs
  <2>2. PlaceOf(j, m)
    BY <1>2, <1>3, <2>1 DEF ThreadOfJob
  <2>3. ThreadStays(m)
    BY <1>1 DEF ThreadStays
  <2>4. /\ nextOut[m] <= job'[j].seq /\ job'[j].seq <= nextOut[m] + owed[m]
        /\ \E top : top = job'[j].seq /\ Filled(m, top)'
    <3>1. CASE job'[j].seq = job[j].seq
      BY <2>2, <2>3, <3>1, FilledKeeps DEF PlaceOf
    <3>2. CASE IsTaken(job[j].now, job[j].seq) /\ job'[j].seq = job[j].seq + 1
      <4>1. PICK x \in pins \cup letters : x.slot = Slot(ThreadOf(m), job[j].seq)
        BY <1>3, <3>2 DEF IsTaken, Taken, PinsAt, LettersAt
      <4>2. x \in Sealed /\ x.slot.box = ThreadOf(m) /\ x.slot.seq = job[j].seq
        BY <4>1 DEF Sealed, AllPins, Slot
      <4>3. Within(m, nextOut[m] + owed[m])
        BY <2>1, <2>2 DEF PlaceOf, ThreadOfJob, LogOf, Top
      <4>4. job[j].seq < nextOut[m] + owed[m]
        BY <4>2, <4>3 DEF Within
      <4>5. \A top \in Nat : Filled(m, top) /\ top = job[j].seq => Filled(m, top + 1)'
        BY <1>0, <1>1, <2>3, <4>1, FilledGrows
      <4>6. \E top \in Nat : top = job[j].seq /\ Filled(m, top)
        BY <2>1, <2>2 DEF PlaceOf
      <4>7. \E top : top = job'[j].seq /\ Filled(m, top)'
        BY <3>2, <4>5, <4>6
      <4>. QED  BY <2>1, <2>2, <3>2, <4>4, <4>7 DEF PlaceOf
    <3>. QED  BY <1>2, <3>1, <3>2
  <2>5. Filled(m, job[j].seq)'
    BY <2>4
  <2>6. SentTo(j, m)' = {}
    BY <1>2, <2>2 DEF SentTo, PlaceOf
  <2>. QED  BY <1>1, <1>2, <2>2, <2>4, <2>5, <2>6 DEF PlaceOf
<1>4. \A m : KeySentTo(j, m) => KeySentTo(j, m)'
  BY <1>2 DEF KeySentTo, SendsOf
<1>5. job[j].kind # "people" => OneSend(j)'
  BY <1>2 DEF ThreadInv, OneSend
<1>. QED  BY <1>1, <1>2, <1>3, <1>4, <1>5, ThreadWork

\* What a job stores stands at the end of the thread it is for.
LEMMA StoreAdds ==
  ASSUME IInv, ThreadInv, NEW j \in Job, Sent(j), NEW m \in Member
  PROVE  /\ ThreadStays(m)
         /\ job[j].now.box # ThreadOf(m) => NothingNew(m) /\ Remains(m)
         /\ job[j].now.box = ThreadOf(m) =>
              /\ PlaceOf(j, m)
              /\ \E top : top = job[j].seq + 1 /\ LogOf(m, top)'
              /\ \A epoch : KeyKnown(m, epoch, nextOut[m]) =>
                   \E top : top = job[j].seq + 1 /\ KeyKnown(m, epoch, top)'
              /\ job[j].kind = "people" /\ job[j].now.body.type = "key" /\ owed[m] = 0 =>
                   \E epoch, top : /\ epoch = job[j].now.body.epoch /\ top = job[j].seq + 1
                                   /\ KeyKnown(m, epoch, top)'
<1>. DEFINE e == job[j].now
            new == Pinned(Slot(e.box, job[j].seq), e.body, Undated)
<1>0. /\ TypeOK /\ ~Idle(j) /\ AtWork(j) /\ nextOut[m] \in Nat /\ owed[m] \in Nat
      /\ job[j].seq \in Nat /\ ThreadOfJob(j, m) /\ e \in SendsOf(j)
  BY NowTyped DEF IInv, TypeOK, AtWork, ThreadInv, SendsOf, Sent
<1>1. /\ e.by = "chain" => pins' = pins /\ letters' = letters \cup {new}
      /\ e.by # "chain" => pins' = pins \cup {new} /\ letters' = letters
      /\ late' = late /\ nextIn' = nextIn /\ got' = got
  BY DEF Store, Deliver, Sent, members
<1>2. new.slot = Slot(e.box, job[j].seq) /\ new.slot.box = e.box /\ new.slot.seq = job[j].seq
      /\ new.body = e.body
  BY DEF Pinned, Slot
<1>3. owed'[m] = IF e.box = ThreadOf(m) /\ owed[m] > 0 THEN owed[m] - 1 ELSE owed[m]
  BY DEF Sent
<1>. HIDE DEF new, e
<1>4. ThreadStays(m)
  BY <1>1 DEF ThreadStays
<1>5. \A x \in Sealed' \ Sealed : x = new
  BY <1>1 DEF Sealed, AllPins
<1>6. e.box # ThreadOf(m) => NothingNew(m)
  BY <1>2, <1>5 DEF NothingNew
<1>7. e.box # ThreadOf(m) => Remains(m)
  BY <1>0, <1>3, <1>4, <1>6, QuietKeeps
<1>8. ASSUME e.box = ThreadOf(m)
      PROVE  /\ PlaceOf(j, m)
             /\ \E top : top = job[j].seq + 1 /\ LogOf(m, top)'
             /\ \A epoch : KeyKnown(m, epoch, nextOut[m]) =>
                  \E top : top = job[j].seq + 1 /\ KeyKnown(m, epoch, top)'
             /\ job[j].kind = "people" /\ e.body.type = "key" /\ owed[m] = 0 =>
                  \E epoch, top : /\ epoch = e.body.epoch /\ top = job[j].seq + 1
                                  /\ KeyKnown(m, epoch, top)'
  <2>1. PlaceOf(j, m)
    BY <1>0, <1>8 DEF ThreadOfJob, e
  <2>2. /\ Within(m, nextOut[m] + owed[m]) /\ Filled(m, job[j].seq)
        /\ nextOut[m] <= job[j].seq /\ job[j].seq <= nextOut[m] + owed[m]
    BY <1>0, <2>1 DEF ThreadOfJob, LogOf, Top, PlaceOf
  <2>. DEFINE top == job[j].seq + 1
              end == top + owed'[m]
  <2>3. top \in Nat /\ end \in Nat /\ nextOut[m] + owed[m] <= end /\ nextOut[m] <= top
        /\ job[j].seq < end /\ job[j].seq < top
    BY <1>0, <1>3, <1>8, <2>2
  <2>4. \A x \in Sealed' \ Sealed : x.slot.seq = job[j].seq
    BY <1>2, <1>5
  <2>5. ASSUME NEW later \in Nat, later = end
        PROVE  Within(m, later)'
    BY <1>0, <1>1, <2>2, <2>3, <2>4, <2>5, WithinKeeps
  <2>6. ASSUME NEW n \in Nat, n = job[j].seq
        PROVE  Filled(m, n + 1)'
    <3>1. \E x \in pins' \cup letters' : x.slot = Slot(ThreadOf(m), n)
      BY <1>1, <1>2, <1>8, <2>6
    <3>. QED  BY <1>0, <1>4, <2>2, <2>6, <3>1, FilledGrows
  <2>7. ASSUME NEW t, t = top
        PROVE  LogOf(m, t)'
    <3>1. Filled(m, t)'
      BY <1>0, <2>6, <2>7
    <3>2. \E later : later = t + owed'[m] /\ Within(m, later)'
      BY <2>3, <2>5, <2>7
    <3>3. Within(m, t + owed[m])'
      BY <3>2
    <3>. QED  BY <3>1, <3>3 DEF LogOf
  <2>8. ASSUME NEW epoch, KeyKnown(m, epoch, nextOut[m]), NEW t \in Nat, t = top
        PROVE  KeyKnown(m, epoch, t)'
    <3>1. \A x \in Sealed' \ Sealed : x.slot.seq >= nextOut[m]
      BY <1>0, <2>2, <2>4
    <3>. QED  BY <1>0, <1>4, <2>3, <2>8, <3>1, KnownKeeps
  <2>9. ASSUME job[j].kind = "people", e.body.type = "key", owed[m] = 0, NEW epoch,
               epoch = e.body.epoch, NEW t \in Nat, t = top
        PROVE  KeyKnown(m, epoch, t)'
    <3>1. pins' = pins \cup {new} /\ letters' = letters
      BY <1>0, <1>1, <2>9 DEF IInv, JobsSound, PeopleJob
    <3>2. job[j].seq = nextOut[m] /\ Within(m, nextOut[m])
      BY <1>0, <2>2, <2>9
    <3>3. new \in pins' /\ new.slot.box = ThreadOf(m) /\ new.slot.seq = nextOut[m]
      BY <1>2, <1>8, <3>1, <3>2
    <3>4. new.slot.seq >= nextIn'[m] /\ new.slot.seq < t
      BY <1>0, <1>1, <2>9, <3>2, <3>3 DEF Within, TypeOK
    <3>5. \A x \in Sealed : x.slot # new.slot
      BY <1>0, <3>2, <3>3 DEF Within
    <3>6. \A x \in Sealed' : x.slot = new.slot => x = new
      BY <1>5, <3>5
    <3>. QED  BY <1>2, <2>9, <3>3, <3>4, <3>6 DEF KeyKnown
  <2>10. \E t : t = top /\ LogOf(m, t)'
    BY <2>7
  <2>11. \A epoch : KeyKnown(m, epoch, nextOut[m]) => \E t : t = top /\ KeyKnown(m, epoch, t)'
    BY <2>3, <2>8
  <2>12. job[j].kind = "people" /\ e.body.type = "key" /\ owed[m] = 0 =>
           \E epoch, t : epoch = e.body.epoch /\ t = top /\ KeyKnown(m, epoch, t)'
    BY <2>3, <2>9
  <2>. QED  BY <2>1, <2>10, <2>11, <2>12
<1>. QED  BY <1>4, <1>6, <1>7, <1>8 DEF e

\* Who a job at work sends something to, is sent nothing else of it.
LEMMA SentTops ==
  ASSUME TypeOK, NEW j \in Job, Sent(j), NEW m \in Member, ThreadOfJob(j, m)
  PROVE  /\ job[j].now.box # ThreadOf(m) => SentTo(j, m)' = SentTo(j, m) /\ Top(j, m)' = Top(j, m)
         /\ job[j].now.box = ThreadOf(m) =>
              /\ SentTo(j, m) = {} /\ Top(j, m) = nextOut[m]
              /\ Top(j, m)' = job[j].seq + 1
              /\ \A s \in SentTo(j, m)' : s.seq = job[j].seq
<1>. DEFINE s == [errand |-> job[j].now, seq |-> job[j].seq]
<1>1. /\ AtWork(j) /\ job'[j].sent = job[j].sent \cup {s}
      /\ nextOut' = nextOut
  BY SentDoes DEF Sent, business
<1>2. s.errand.box = job[j].now.box /\ s.seq = job[j].seq
  OBVIOUS
<1>. HIDE DEF s
<1>3. SentTo(j, m)' = IF job[j].now.box = ThreadOf(m) THEN SentTo(j, m) \cup {s} ELSE SentTo(j, m)
  BY <1>1, <1>2 DEF SentTo
<1>4. CASE job[j].now.box # ThreadOf(m)
  BY <1>1, <1>3, <1>4 DEF Top
<1>5. CASE job[j].now.box = ThreadOf(m)
  <2>1. SentTo(j, m) = {}
    BY <1>1, <1>5 DEF ThreadOfJob, PlaceOf
  <2>2. SentTo(j, m)' = {s}
    BY <1>3, <1>5, <2>1
  <2>3. (CHOOSE t \in SentTo(j, m)' : TRUE) = s
    BY <2>2
  <2>4. Top(j, m)' = job[j].seq + 1
    BY <1>2, <2>2, <2>3 DEF Top
  <2>. QED  BY <1>2, <1>5, <2>1, <2>2, <2>4 DEF Top
<1>. QED  BY <1>4, <1>5

LEMMA StoreSeq ==
  ASSUME NEW j \in Job, Sent(j)
  PROVE  \A x \in Sealed' \ Sealed : x.slot.seq = job[j].seq
BY DEF Sent, Store, Deliver, Sealed, AllPins, Pinned, Slot

LEMMA ThreadSent ==
  ASSUME IInv, KeyInv, ThreadInv, NEW j \in Job, Sent(j)
  PROVE  ThreadInv'
<1>0. TypeOK
  BY DEF IInv
<1>1. nextOut' = nextOut /\ channel' = channel
  BY DEF Sent, business
<1>2. /\ ~Idle(j) /\ ~Idle(j)' /\ AtWork(j) /\ ~AtWork(j)' /\ job[j] \in Jobs
      /\ \A i \in Job : i # j => job'[i] = job[i]
      /\ job'[j].kind = job[j].kind /\ job'[j].channel = job[j].channel
      /\ job'[j].todo = job[j].todo /\ job'[j].now = Nothing
  BY <1>0, SentDoes DEF Idle, AtWork
<1>3. \A i \in Job : i # j => Idle(i) /\ Idle(i)'
  BY <1>2 DEF IInv, OneAtATime, Idle
<1>4. ASSUME NEW m \in Member
      PROVE  /\ ThreadOfJob(j, m) /\ nextOut[m] \in Nat /\ Top(j, m) \in Nat
             /\ job[j].seq \in Nat
             /\ job[j].now.box # ThreadOf(m) =>
                  SentTo(j, m)' = SentTo(j, m) /\ Top(j, m)' = Top(j, m)
             /\ job[j].now.box = ThreadOf(m) =>
                  /\ SentTo(j, m) = {} /\ Top(j, m) = nextOut[m]
                  /\ Top(j, m)' = job[j].seq + 1
                  /\ \A s \in SentTo(j, m)' : s.seq = job[j].seq
                  /\ PlaceOf(j, m)
  <2>1. ThreadOfJob(j, m)
    BY <1>2 DEF ThreadInv
  <2>. QED  BY <1>0, <1>2, <2>1, SentTops, TopTyped DEF ThreadOfJob, Jobs
<1>5. ASSUME NEW m \in Member
      PROVE  ThreadOfJob(j, m)'
  <2>1. \E top : top = Top(j, m)' /\ LogOf(m, top)'
    <3>1. CASE job[j].now.box = ThreadOf(m)
      BY <1>4, <3>1, StoreAdds
    <3>2. CASE job[j].now.box # ThreadOf(m)
      <4>1. Remains(m)
        BY <3>2, StoreAdds
      <4>. QED  BY <1>4, <3>2, <4>1 DEF ThreadOfJob, Remains
    <3>. QED  BY <3>1, <3>2
  <2>2. LogOf(m, Top(j, m))'
    BY <2>1
  <2>3. \A s \in SentTo(j, m)' : nextOut'[m] <= s.seq
    BY <1>1, <1>4 DEF ThreadOfJob, PlaceOf
  <2>4. \A e \in job'[j].todo : e.box = ThreadOf(m) => e.from = nextOut'[m] /\ SentTo(j, m)' = {}
    BY <1>1, <1>2, <1>4 DEF ThreadOfJob, PlaceOf
  <2>5. \A e, f \in job'[j].todo : e.box = ThreadOf(m) /\ f.box = ThreadOf(m) => e = f
    BY <1>2, <1>4 DEF ThreadOfJob
  <2>. QED  BY <1>2, <2>2, <2>3, <2>4, <2>5 DEF ThreadOfJob
<1>6. job[j].kind # "people" => OneSend(j)'
  BY <1>2 DEF ThreadInv, OneSend
<1>7. ASSUME NEW m \in Member, NEW epoch
      PROVE  KeyKnown(m, epoch, Top(j, m)) => \E top : top = Top(j, m)' /\ KeyKnown(m, epoch, top)'
  <2>1. CASE job[j].now.box = ThreadOf(m)
    BY <1>4, <2>1, StoreAdds
  <2>2. CASE job[j].now.box # ThreadOf(m)
    <3>1. Remains(m)
      BY <2>2, StoreAdds
    <3>. QED  BY <1>4, <2>2, <3>1 DEF Remains
  <2>. QED  BY <2>1, <2>2
<1>8. ASSUME job[j].kind = "people", NEW m \in job[j].channel.members, outcome'[m] = "sent"
      PROVE  KeyKnown(m, job[j].channel.epoch, Top(j, m))' \/ KeySentTo(j, m)'
  <2>1. m \in Member
    BY <1>2, <1>8 DEF IInv, JobsSound, PeopleJob, Channels
  <2>2. outcome'[m] = IF job[j].now.body.type = "key" /\ job[j].now.box = ThreadOf(m)
                      THEN IF owed[m] = 0 THEN "sent" ELSE "doubtful" ELSE outcome[m]
    BY <2>1 DEF Sent
  <2>3. CASE job[j].now.box = ThreadOf(m) /\ job[j].now.body.type = "key"
    <3>1. job[j].now.body.epoch = job[j].channel.epoch
      BY <1>2, <1>8, <2>3 DEF KeyInv, SendsInPlace, SendsOf, AtWork
    <3>2. owed[m] = 0
      BY <1>8, <2>2, <2>3
    <3>3. \E epoch, top : /\ epoch = job'[j].channel.epoch /\ top = Top(j, m)'
                          /\ KeyKnown(m, epoch, top)'
      BY <1>2, <1>4, <1>8, <2>1, <2>3, <3>1, <3>2, StoreAdds
    <3>. QED  BY <3>3
  <2>4. CASE ~(job[j].now.box = ThreadOf(m) /\ job[j].now.body.type = "key")
    <3>1. outcome[m] = "sent"
      BY <1>8, <2>2, <2>4
    <3>2. KeyKnown(m, job[j].channel.epoch, Top(j, m)) \/ KeySentTo(j, m)
      BY <1>2, <1>8, <3>1 DEF ThreadInv
    <3>3. CASE KeyKnown(m, job[j].channel.epoch, Top(j, m))
      <4>1. \E epoch, top : /\ epoch = job'[j].channel.epoch /\ top = Top(j, m)'
                            /\ KeyKnown(m, epoch, top)'
        BY <1>2, <1>7, <2>1, <3>3
      <4>. QED  BY <4>1
    <3>4. CASE KeySentTo(j, m)
      BY <1>2, <2>4, <3>4 DEF KeySentTo, SendsOf
    <3>. QED  BY <3>2, <3>3, <3>4
  <2>. QED  BY <2>3, <2>4
<1>9. ASSUME channel' # Nothing, job[j].kind # "people", NEW m \in channel'.members,
             outcome'[m] = "sent"
      PROVE  KeyKnown(m, channel.epoch, nextOut[m])'
  <2>1. m \in Member
    BY <1>0, <1>1, <1>9 DEF TypeOK, Channels
  <2>2. outcome[m] = "sent"
    <3>1. \A e \in SendsOf(j) : e.body.type # "key"
      BY <1>2, <1>9 DEF IInv, JobsSound, PostJob, TextJob, Jobs
    <3>2. job[j].now.body.type # "key"
      BY <1>2, <3>1 DEF SendsOf, AtWork
    <3>. QED  BY <1>9, <2>1, <3>2 DEF Sent
  <2>3. KeyKnown(m, channel.epoch, nextOut[m])
    BY <1>1, <1>3, <1>9, <2>2 DEF ThreadInv, PeopleAtWork
  <2>4. \A x \in Sealed' \ Sealed : x.slot.box = ThreadOf(m) => x.slot.seq >= nextOut[m]
    <3>1. CASE job[j].now.box = ThreadOf(m)
      <4>1. nextOut[m] <= job[j].seq
        BY <1>4, <2>1, <3>1 DEF PlaceOf
      <4>2. \A x \in Sealed' \ Sealed : x.slot.seq = job[j].seq
        BY StoreSeq
      <4>. QED  BY <1>4, <2>1, <4>1, <4>2
    <3>2. CASE job[j].now.box # ThreadOf(m)
      BY <2>1, <3>2, StoreAdds DEF NothingNew
    <3>. QED  BY <3>1, <3>2
  <2>5. ThreadStays(m) /\ nextOut[m] \in Nat
    BY <1>4, <2>1, StoreAdds
  <2>6. \E epoch, top : epoch = channel'.epoch /\ top = nextOut'[m] /\ KeyKnown(m, epoch, top)'
    BY <1>0, <1>1, <2>3, <2>4, <2>5, KnownKeeps
  <2>. QED  BY <2>6
<1>10. PeopleAtWork(j)' <=> job[j].kind = "people"
  BY <1>2 DEF PeopleAtWork
<1>. QED  BY <1>2, <1>3, <1>5, <1>6, <1>8, <1>9, <1>10 DEF ThreadInv, AllIdle

\* A send that is given up, for whatever may come of it.
LEMMA ThreadGivenUp ==
  ASSUME IInv, ThreadInv, NEW j \in Job, AtWork(j), GiveUp(j),
         nextOut' = nextOut, channel' = channel,
         \A m \in Member :
           /\ job[j].now.box # ThreadOf(m) => Remains(m)
           /\ LogOf(m, nextOut[m]) => \E top : top = nextOut[m] /\ LogOf(m, top)'
           /\ \A epoch : KeyKnown(m, epoch, nextOut[m]) =>
                \E top : top = nextOut[m] /\ KeyKnown(m, epoch, top)'
  PROVE  ThreadInv'
<1>0. TypeOK /\ ~Idle(j)
  BY DEF IInv, AtWork
<1>1. /\ \A i \in Job : i # j => job'[i] = job[i]
      /\ job[j].kind # "people" => job'[j] = Nothing
      /\ job[j].kind = "people" => /\ ~Idle(j)'
                                   /\ job'[j].kind = job[j].kind
                                   /\ job'[j].channel = job[j].channel
                                   /\ job'[j].sent = job[j].sent
                                   /\ job'[j].todo = job[j].todo
                                   /\ job'[j].now = Nothing
  BY <1>0, GiveUpDoes DEF Idle
<1>2. \A i \in Job : i # j => Idle(i) /\ Idle(i)'
  BY <1>0, <1>1 DEF IInv, OneAtATime, Idle
<1>3. \A m \in Member : outcome'[m] = "sent" =>
        /\ outcome[m] = "sent"
        /\ ~(job[j].now.body.type = "key" /\ job[j].now.box = ThreadOf(m))
  BY DEF GiveUp
<1>4. ASSUME NEW m \in Member
      PROVE  /\ ThreadOfJob(j, m) /\ Top(j, m) \in Nat /\ nextOut[m] \in Nat
             /\ job[j].now.box = ThreadOf(m) => SentTo(j, m) = {} /\ Top(j, m) = nextOut[m]
  <2>1. ThreadOfJob(j, m)
    BY <1>0 DEF ThreadInv
  <2>. QED  BY <1>0, <2>1, TopTyped DEF ThreadOfJob, PlaceOf, Top
<1>5. ASSUME NEW m \in Member
      PROVE  /\ LogOf(m, Top(j, m)) => \E top : top = Top(j, m) /\ LogOf(m, top)'
             /\ \A epoch : KeyKnown(m, epoch, Top(j, m)) =>
                  \E top : top = Top(j, m) /\ KeyKnown(m, epoch, top)'
  BY <1>4 DEF Remains
<1>6. ASSUME job[j].kind = "people"
      PROVE  ThreadInv'
  <2>0. \A m \in Member : SentTo(j, m)' = SentTo(j, m) /\ Top(j, m)' = Top(j, m)
    <3>. SUFFICES ASSUME NEW m \in Member
                  PROVE  SentTo(j, m)' = SentTo(j, m) /\ Top(j, m)' = Top(j, m)
      OBVIOUS
    <3>1. job'[j].sent = job[j].sent
      BY <1>1, <1>6
    <3>2. SentTo(j, m)' = SentTo(j, m)
      BY <3>1 DEF SentTo
    <3>. QED  BY <3>2 DEF Top
  <2>1. ASSUME NEW m \in Member
        PROVE  ThreadOfJob(j, m)'
    <3>1. \E top : top = Top(j, m)' /\ LogOf(m, top)'
      BY <1>4, <1>5, <2>0 DEF ThreadOfJob
    <3>2. LogOf(m, Top(j, m))'
      BY <3>1
    <3>3. ~AtWork(j)'
      BY <1>1, <1>6 DEF AtWork
    <3>4. ThreadOfJob(j, m)
      BY <1>4
    <3>. QED  BY <1>1, <1>6, <2>0, <3>2, <3>3, <3>4 DEF ThreadOfJob
  <2>2. ASSUME NEW m \in job[j].channel.members, outcome'[m] = "sent"
        PROVE  KeyKnown(m, job[j].channel.epoch, Top(j, m))' \/ KeySentTo(j, m)'
    <3>1. m \in Member
      BY <1>0, <1>6 DEF IInv, JobsSound, PeopleJob, Channels
    <3>2. KeyKnown(m, job[j].channel.epoch, Top(j, m)) \/ KeySentTo(j, m)
      BY <1>0, <1>3, <1>6, <2>2, <3>1 DEF ThreadInv
    <3>3. CASE KeyKnown(m, job[j].channel.epoch, Top(j, m))
      <4>1. \E epoch, top : /\ epoch = job'[j].channel.epoch /\ top = Top(j, m)'
                            /\ KeyKnown(m, epoch, top)'
        BY <1>1, <1>5, <1>6, <2>0, <3>1, <3>3
      <4>. QED  BY <4>1
    <3>4. CASE KeySentTo(j, m)
      BY <1>1, <1>3, <1>6, <2>2, <3>1, <3>4 DEF KeySentTo, SendsOf
    <3>. QED  BY <3>2, <3>3, <3>4
  <2>3. PeopleAtWork(j)'
    BY <1>1, <1>6 DEF PeopleAtWork
  <2>. QED  BY <1>1, <1>2, <1>6, <2>1, <2>2, <2>3 DEF ThreadInv, AllIdle
<1>7. ASSUME job[j].kind # "people"
      PROVE  ThreadInv'
  <2>1. \A i \in Job : Idle(i)'
    BY <1>1, <1>2, <1>7 DEF Idle
  <2>2. ASSUME NEW m \in Member
        PROVE  LogOf(m, nextOut[m])'
    <3>1. OneSend(j)
      BY <1>0, <1>7 DEF ThreadInv
    <3>2. Top(j, m) = nextOut[m]
      BY <3>1 DEF OneSend, SentTo, Top
    <3>3. \E top : top = nextOut'[m] /\ LogOf(m, top)'
      BY <1>4, <1>5, <3>2 DEF ThreadOfJob
    <3>. QED  BY <3>3
  <2>3. ASSUME channel' # Nothing, NEW m \in channel'.members, outcome'[m] = "sent"
        PROVE  KeyKnown(m, channel.epoch, nextOut[m])'
    <3>1. m \in Member
      BY <1>0, <2>3 DEF TypeOK, Channels
    <3>2. KeyKnown(m, channel.epoch, nextOut[m])
      BY <1>2, <1>3, <1>7, <2>3, <3>1 DEF ThreadInv, PeopleAtWork
    <3>3. \E epoch, top : epoch = channel'.epoch /\ top = nextOut'[m] /\ KeyKnown(m, epoch, top)'
      BY <3>1, <3>2
    <3>. QED  BY <3>3
  <2>. QED  BY <2>1, <2>2, <2>3 DEF ThreadInv
<1>. QED  BY <1>6, <1>7

LEMMA ThreadFail ==
  ASSUME IInv, ThreadInv, NEW j \in Job, Fail(j)
  PROVE  ThreadInv'
<1>0. TypeOK /\ \A m \in Member : nextOut[m] \in Nat
  BY DEF IInv, TypeOK
<1>1. /\ AtWork(j) /\ GiveUp(j)
      /\ nextOut' = nextOut /\ channel' = channel /\ pins' = pins /\ letters' = letters
      /\ late' = late /\ nextIn' = nextIn /\ got' = got /\ owed' = owed
  BY DEF Fail, business, members
<1>2. \A m \in Member : Remains(m)
  BY <1>0, <1>1, QuietKeeps DEF ThreadStays, NothingNew, Sealed, AllPins
<1>3. \A m \in Member :
        /\ LogOf(m, nextOut[m]) => \E top : top = nextOut[m] /\ LogOf(m, top)'
        /\ \A epoch : KeyKnown(m, epoch, nextOut[m]) =>
             \E top : top = nextOut[m] /\ KeyKnown(m, epoch, top)'
  BY <1>0, <1>2 DEF Remains
<1>. QED  BY <1>1, <1>2, <1>3, ThreadGivenUp

LEMMA ThreadUnheard ==
  ASSUME IInv, ThreadInv, NEW j \in Job, Unheard(j)
  PROVE  ThreadInv'
<1>. DEFINE e   == job[j].now
            new == Pinned(Slot(e.box, job[j].seq), e.body, Undated)
<1>0. TypeOK /\ ~Idle(j) /\ \A m \in Member : nextOut[m] \in Nat /\ owed[m] \in Nat
  BY DEF IInv, TypeOK, Unheard, AtWork
<1>1. /\ AtWork(j) /\ GiveUp(j) /\ job[j].seq \in Nat
      /\ nextOut' = nextOut /\ channel' = channel /\ nextIn' = nextIn /\ got' = got
      /\ pins' = pins /\ letters' = letters
  BY <1>0, NowTyped DEF Unheard, business, members
<1>2. /\ \A x \in Sealed' \ Sealed : x = new
      /\ new.slot.box = e.box /\ new.slot.seq = job[j].seq
  BY DEF Unheard, Sealed, AllPins, Pinned, Slot
<1>3. \A m \in Member : owed'[m] = IF e.box = ThreadOf(m) THEN owed[m] + 1 ELSE owed[m]
  BY DEF Unheard
<1>. HIDE DEF new, e
<1>4. ASSUME NEW m \in Member
      PROVE  /\ e.box # ThreadOf(m) => Remains(m)
             /\ LogOf(m, nextOut[m]) => \E top : top = nextOut[m] /\ LogOf(m, top)'
             /\ \A epoch : KeyKnown(m, epoch, nextOut[m]) =>
                  \E top : top = nextOut[m] /\ KeyKnown(m, epoch, top)'
  <2>1. ThreadStays(m)
    BY <1>1 DEF ThreadStays
  <2>2. CASE e.box # ThreadOf(m)
    <3>1. Remains(m)
      BY <1>0, <1>2, <1>3, <2>1, <2>2, QuietKeeps DEF NothingNew
    <3>. QED  BY <1>0, <3>1 DEF Remains
  <2>3. CASE e.box = ThreadOf(m)
    <3>1. PlaceOf(j, m)
      BY <1>0, <1>1, <2>3 DEF ThreadInv, ThreadOfJob, e
    <3>2. nextOut[m] <= job[j].seq /\ job[j].seq <= nextOut[m] + owed[m]
      BY <3>1 DEF PlaceOf
    <3>3. \A x \in Sealed' \ Sealed : x.slot.seq = job[j].seq
      BY <1>2
    <3>4. ASSUME LogOf(m, nextOut[m]), NEW top, top = nextOut[m]
          PROVE  LogOf(m, top)'
      <4>1. Filled(m, top)'
        BY <2>1, <3>4, FilledKeeps DEF LogOf
      <4>2. ASSUME NEW later \in Nat, later = nextOut[m] + owed[m] + 1
            PROVE  Within(m, later)'
        <5>1. Within(m, nextOut[m] + owed[m])
          BY <3>4 DEF LogOf
        <5>2. \A x \in Sealed' \ Sealed : x.slot.seq < later
          BY <1>0, <1>1, <3>2, <3>3, <4>2
        <5>. QED  BY <1>0, <1>1, <4>2, <5>1, <5>2, WithinKeeps
      <4>3. \E later : later = top + owed'[m] /\ Within(m, later)'
        BY <1>0, <1>3, <2>3, <3>4, <4>2
      <4>4. Within(m, top + owed[m])'
        BY <4>3
      <4>. QED  BY <4>1, <4>4 DEF LogOf
    <3>5. \A epoch : KeyKnown(m, epoch, nextOut[m]) =>
            \E top : top = nextOut[m] /\ KeyKnown(m, epoch, top)'
      <4>1. \A x \in Sealed' \ Sealed : x.slot.seq >= nextOut[m]
        BY <1>0, <1>1, <3>2, <3>3
      <4>. QED  BY <1>0, <2>1, <4>1, KnownKeeps
    <3>. QED  BY <2>3, <3>4, <3>5
  <2>. QED  BY <2>2, <2>3
<1>. QED  BY <1>1, <1>4, ThreadGivenUp DEF e

\* keepSent moves a thread past what has gone out in it.
LEMMA OutsAre ==
  ASSUME TypeOK, NEW j \in Job, ~Idle(j), NEW m \in Member, ThreadOfJob(j, m)
  PROVE  Outs(job[j].sent)[m] = Top(j, m)
<1>. DEFINE s == CHOOSE t \in SentTo(j, m) : TRUE
<1>1. nextOut[m] \in Nat /\ job[j] \in Jobs
  BY JobTyped DEF TypeOK
<1>2. Outs(job[j].sent)[m] = IF SentTo(j, m) = {} THEN nextOut[m] ELSE Larger(nextOut[m], s.seq + 1)
  BY DEF Outs, SentTo
<1>3. SentTo(j, m) # {} => s \in SentTo(j, m)
  OBVIOUS
<1>4. Top(j, m) = IF SentTo(j, m) = {} THEN nextOut[m] ELSE s.seq + 1
  BY DEF Top
<1>. HIDE DEF s
<1>5. SentTo(j, m) # {} => s.seq \in Nat /\ nextOut[m] <= s.seq
  BY <1>1, <1>3 DEF ThreadOfJob, SentTo, Jobs
<1>. QED  BY <1>1, <1>2, <1>4, <1>5 DEF Larger

LEMMA ThreadSave ==
  ASSUME IInv, ThreadInv, NEW j \in Job, Save(j)
  PROVE  ThreadInv'
<1>0. TypeOK /\ ~Idle(j) /\ job[j] \in Jobs /\ SendsOf(j) = {}
  BY JobTyped DEF IInv, Save, SendsOf
<1>1. /\ pins' = pins /\ letters' = letters /\ late' = late /\ nextIn' = nextIn /\ got' = got
      /\ channel' = Saved(j) /\ nextOut' = Outs(job[j].sent) /\ outcome' = outcome
      /\ owed' = owed
  BY DEF Save, members, history
<1>2. /\ \A i \in Job : Idle(i)' /\ (i # j => Idle(i))
  BY <1>0 DEF IInv, OneAtATime, Save, Idle, TypeOK
<1>3. \A m \in Member : Remains(m) /\ ThreadStays(m) /\ NothingNew(m)
  BY <1>0, <1>1, QuietKeeps DEF ThreadStays, NothingNew, Sealed, AllPins
<1>4. ASSUME NEW m \in Member
      PROVE  /\ ThreadOfJob(j, m) /\ nextOut'[m] = Top(j, m) /\ Top(j, m) \in Nat
             /\ nextOut[m] \in Nat /\ nextOut[m] <= nextOut'[m]
  <2>1. ThreadOfJob(j, m)
    BY <1>0 DEF ThreadInv
  <2>. QED  BY <1>0, <1>1, <2>1, OutsAre, TopTyped
<1>5. ASSUME NEW m \in Member
      PROVE  LogOf(m, nextOut[m])'
  <2>1. \E top : top = nextOut'[m] /\ LogOf(m, top)'
    BY <1>3, <1>4 DEF ThreadOfJob, Remains
  <2>. QED  BY <2>1
<1>6. channel' # Nothing =>
        /\ channel' \in Channels
        /\ \A m \in channel'.members : outcome[m] = "sent" =>
             KeyKnown(m, channel'.epoch, nextOut[m]) \/ KeyKnown(m, channel'.epoch, Top(j, m))
  <2>1. CASE job[j].kind = "people"
    <3>1. Saved(j) = job[j].channel /\ Saved(j) \in Channels
      BY <1>0, <2>1, SavedTyped DEF IInv, Save
    <3>2. \A m : ~KeySentTo(j, m)
      BY <1>0 DEF KeySentTo
    <3>3. \A m \in job[j].channel.members : outcome[m] = "sent" =>
            KeyKnown(m, job[j].channel.epoch, Top(j, m))
      BY <1>0, <2>1, <3>2 DEF ThreadInv
    <3>. QED  BY <1>1, <3>1, <3>3
  <2>2. ASSUME job[j].kind # "people", channel # Nothing
        PROVE  \A m \in channel.members : outcome[m] = "sent" =>
                 KeyKnown(m, channel.epoch, nextOut[m])
    <3>1. \A i \in Job : ~PeopleAtWork(i)
      BY <1>2, <2>2 DEF PeopleAtWork
    <3>. QED  BY <2>2, <3>1 DEF ThreadInv
  <2>3. CASE job[j].kind = "post"
    <3>1. channel # Nothing /\ channel \in Channels /\ Saved(j) \in Channels
      BY <1>0, <2>3, SavedTyped DEF IInv, JobsSound, PostJob, TypeOK, Save
    <3>2. \E at, epoch, seq : Saved(j) = AddOwnPost(channel, at, epoch, seq)
      BY <2>3, <3>1 DEF Saved
    <3>3. Saved(j).members = channel.members /\ Saved(j).epoch = channel.epoch
      BY <3>1, <3>2 DEF AddOwnPost, Channels
    <3>. QED  BY <1>1, <2>2, <2>3, <3>1, <3>3
  <2>4. CASE job[j].kind = "text"
    <3>1. channel' = channel
      BY <1>0, <1>1, <2>4, SavedTyped DEF IInv, Save
    <3>. QED  BY <1>0, <2>2, <2>4, <3>1 DEF TypeOK
  <2>. QED  BY <1>0, <2>1, <2>3, <2>4 DEF Jobs
<1>7. ASSUME channel' # Nothing, NEW m \in channel'.members, outcome'[m] = "sent"
      PROVE  KeyKnown(m, channel.epoch, nextOut[m])'
  <2>1. m \in Member
    BY <1>6, <1>7 DEF Channels
  <2>2. \/ KeyKnown(m, channel'.epoch, nextOut[m])
        \/ KeyKnown(m, channel'.epoch, Top(j, m))
    BY <1>1, <1>6, <1>7
  <2>3. \A epoch : \A top, later \in Nat :
          top <= later /\ KeyKnown(m, epoch, top) => KeyKnown(m, epoch, later)'
    BY <1>0, <1>3, <2>1, KnownKeeps DEF NothingNew
  <2>4. nextOut'[m] \in Nat /\ nextOut'[m] <= nextOut'[m]
    BY <1>4, <2>1
  <2>5. \E epoch, later : /\ epoch = channel'.epoch /\ later = nextOut'[m]
                          /\ KeyKnown(m, epoch, later)'
    BY <1>4, <2>1, <2>2, <2>3, <2>4
  <2>. QED  BY <2>5
<1>. QED  BY <1>2, <1>5, <1>7 DEF ThreadInv

\* A step that no job takes, and that loses nothing of a thread.
LEMMA ThreadRest ==
  ASSUME IInv, ThreadInv, job' = job, nextOut' = nextOut, outcome' = outcome, owed' = owed,
         channel = Nothing => channel' = Nothing,
         channel # Nothing => channel'.members = channel.members /\ channel'.epoch = channel.epoch,
         \A m \in Member : Remains(m)
  PROVE  ThreadInv'
<1>0. TypeOK /\ \A m \in Member : nextOut[m] \in Nat /\ owed[m] \in Nat
  BY DEF IInv, TypeOK
<1>1. /\ \A j \in Job : /\ Idle(j)' = Idle(j) /\ AtWork(j)' = AtWork(j)
                        /\ PeopleAtWork(j)' = PeopleAtWork(j) /\ SendsOf(j)' = SendsOf(j)
                        /\ OneSend(j)' = OneSend(j)
      /\ AllIdle' = AllIdle
  BY DEF Idle, AtWork, PeopleAtWork, SendsOf, AllIdle, OneSend
<1>2. ASSUME AllIdle, NEW m \in Member
      PROVE  LogOf(m, nextOut[m])'
  <2>1. LogOf(m, nextOut[m])
    BY <1>2 DEF ThreadInv
  <2>2. \E top : top = nextOut'[m] /\ LogOf(m, top)'
    BY <1>0, <2>1 DEF Remains
  <2>. QED  BY <2>2
<1>3. ASSUME NEW j \in Job, ~Idle(j), NEW m \in Member
      PROVE  /\ ThreadOfJob(j, m) /\ Top(j, m) \in Nat
             /\ SentTo(j, m)' = SentTo(j, m) /\ Top(j, m)' = Top(j, m)
  <2>1. ThreadOfJob(j, m)
    BY <1>3 DEF ThreadInv
  <2>2. SentTo(j, m)' = SentTo(j, m)
    BY DEF SentTo
  <2>3. Top(j, m)' = Top(j, m)
    BY <2>2 DEF Top
  <2>. QED  BY <1>0, <1>3, <2>1, <2>2, <2>3, TopTyped
<1>4. ASSUME NEW j \in Job, ~Idle(j), NEW m \in Member
      PROVE  ThreadOfJob(j, m)'
  <2>1. \E top : top = Top(j, m)' /\ LogOf(m, top)'
    BY <1>3, <1>4 DEF ThreadOfJob, Remains
  <2>2. LogOf(m, Top(j, m))'
    BY <2>1
  <2>3. PlaceOf(j, m) => PlaceOf(j, m)'
    <3>1. job[j].seq \in Nat
      BY <1>0, <1>4, JobTyped DEF Jobs
    <3>2. Filled(m, job[j].seq) => \E top : top = job'[j].seq /\ Filled(m, top)'
      BY <3>1 DEF Remains
    <3>3. Filled(m, job[j].seq) => Filled(m, job[j].seq)'
      BY <3>2
    <3>. QED  BY <1>3, <1>4, <3>3 DEF PlaceOf
  <2>4. ThreadOfJob(j, m)
    BY <1>3, <1>4
  <2>. QED  BY <1>1, <1>3, <1>4, <2>2, <2>3, <2>4 DEF ThreadOfJob
<1>5. ASSUME NEW j \in Job, ~Idle(j), job[j].kind = "people", NEW m \in job[j].channel.members,
             outcome[m] = "sent"
      PROVE  KeyKnown(m, job[j].channel.epoch, Top(j, m))' \/ KeySentTo(j, m)'
  <2>1. m \in Member
    BY <1>5 DEF IInv, JobsSound, PeopleJob, Channels
  <2>2. KeyKnown(m, job[j].channel.epoch, Top(j, m)) \/ KeySentTo(j, m)
    BY <1>5 DEF ThreadInv
  <2>3. CASE KeyKnown(m, job[j].channel.epoch, Top(j, m))
    <3>1. \E epoch, top : /\ epoch = job'[j].channel.epoch /\ top = Top(j, m)'
                          /\ KeyKnown(m, epoch, top)'
      BY <1>3, <1>5, <2>1, <2>3 DEF Remains
    <3>. QED  BY <3>1
  <2>4. CASE KeySentTo(j, m)
    BY <1>1, <2>4 DEF KeySentTo
  <2>. QED  BY <2>2, <2>3, <2>4
<1>6. ASSUME channel' # Nothing, \A j \in Job : ~PeopleAtWork(j), NEW m \in channel'.members,
             outcome[m] = "sent"
      PROVE  KeyKnown(m, channel.epoch, nextOut[m])'
  <2>1. channel # Nothing /\ m \in channel.members /\ m \in Member
    BY <1>0, <1>6 DEF TypeOK, Channels
  <2>2. KeyKnown(m, channel.epoch, nextOut[m])
    BY <1>6, <2>1 DEF ThreadInv
  <2>3. \E epoch, top : epoch = channel'.epoch /\ top = nextOut'[m] /\ KeyKnown(m, epoch, top)'
    BY <1>0, <2>1, <2>2 DEF Remains
  <2>. QED  BY <2>3
<1>. QED  BY <1>1, <1>2, <1>4, <1>5, <1>6 DEF ThreadInv

LEMMA ThreadSeeing ==
  ASSUME IInv, ThreadInv, channel # Nothing, NEW heard \in SUBSET Heard, CheckSeen(heard)
  PROVE  ThreadInv'
<1>0. TypeOK
  BY DEF IInv
<1>1. /\ channel \in Channels
      /\ channel'.members = channel.members /\ channel'.epoch = channel.epoch
      /\ \A p \in pins \ pins' : \E w \in heard : p.slot = ReceiptSlot(w.m, w.epoch, w.seq)
      /\ AllPins' \subseteq AllPins
      /\ UNCHANGED <<nextOut, job, letters, nextIn, got, outcome, owed>>
  BY <1>0, CheckSeenDoes
<1>2. ASSUME NEW p \in pins, NEW m \in Member, p.slot.box = ThreadOf(m), p \notin pins'
      PROVE  FALSE
  <2>1. PICK w \in heard : p.slot = ReceiptSlot(w.m, w.epoch, w.seq)
    BY <1>1, <1>2
  <2>2. w.m \in Member /\ w.epoch \in Nat
    BY <1>1, PressesAssumption DEF Heard, Channels, Epoch
  <2>3. p.slot.box = SeenBy(w.m, w.epoch)
    BY <2>1 DEF ReceiptSlot, Slot
  <2>. QED  BY <1>2, <2>2, <2>3, BoxKinds
<1>3. \A m \in Member : ThreadStays(m) /\ NothingNew(m)
  BY <1>1, <1>2 DEF ThreadStays, NothingNew, Sealed
<1>4. \A m \in Member : Remains(m)
  BY <1>0, <1>1, <1>3, QuietKeeps
<1>. QED  BY <1>1, <1>4, ThreadRest

LEMMA ThreadReadThread ==
  ASSUME IInv, ThreadInv, NEW n \in Member, NEW shield \in BOOLEAN,
         NEW dropping \in BOOLEAN, ReadThread(n, shield, dropping)
  PROVE  ThreadInv'
<1>. DEFINE slot == Slot(ThreadOf(n), nextIn[n])
<1>0. TypeOK /\ owed[n] \in Nat
  BY DEF IInv, TypeOK
<1>1. PICK x \in Found(slot, shield) : got'[n] = got[n] \cup {x.body}
  BY <1>0, ReadThreadDoes
<1>2. /\ \A m \in Member : m # n => got'[m] = got[m] /\ nextIn'[m] = nextIn[m]
      /\ nextIn[n] \in Nat /\ nextIn'[n] = nextIn[n] + 1
      /\ pins' \subseteq pins /\ AllPins' \subseteq AllPins
      /\ \A p \in pins \ pins' : p.slot = slot
      /\ UNCHANGED <<channel, nextOut, job, letters, outcome, owed>>
  BY <1>0, ReadThreadDoes
<1>3. /\ x \in Sealed /\ x.slot = slot /\ slot.box = ThreadOf(n) /\ slot.seq = nextIn[n]
      /\ Sealed' \subseteq Sealed
  BY <1>2 DEF Found, LettersAt, PinsAt, Slot, Sealed, AllPins
<1>4. ASSUME NEW m \in Member, m # n
      PROVE  Remains(m)
  <2>1. \A p \in pins : p.slot.box = ThreadOf(m) => p \in pins'
    BY <1>2, <1>3, <1>4, ThreadsApart
  <2>2. ThreadStays(m) /\ NothingNew(m)
    BY <1>2, <1>3, <1>4, <2>1 DEF ThreadStays, NothingNew
  <2>. QED  BY <1>0, <1>2, <2>2, QuietKeeps
<1>5. ASSUME NEW top \in Nat, Filled(n, top)
      PROVE  Filled(n, top)'
  <2>1. ASSUME NEW k \in Nat, nextIn'[n] <= k, k < top
        PROVE  Stands(n, k)'
    <3>1. Stands(n, k) /\ k # nextIn[n]
      BY <1>2, <1>5, <2>1 DEF Filled
    <3>2. CASE Taken(Slot(ThreadOf(n), k))
      <4>1. PICK p \in pins : p.slot = Slot(ThreadOf(n), k)
        BY <3>2 DEF Taken, PinsAt
      <4>2. p.slot.seq = k
        BY <4>1 DEF Slot
      <4>3. p \in pins'
        BY <1>2, <1>3, <3>1, <4>2
      <4>. QED  BY <4>1, <4>3 DEF Taken, PinsAt, Stands
    <3>. QED  BY <1>2, <3>1, <3>2 DEF LettersAt, Stands
  <2>. QED  BY <2>1 DEF Filled
<1>6. ASSUME NEW top \in Nat, LogOf(n, top)
      PROVE  LogOf(n, top)'
  <2>1. Filled(n, top)'
    BY <1>5, <1>6 DEF LogOf
  <2>2. nextIn[n] < top + owed[n]
    BY <1>3, <1>6 DEF LogOf, Within
  <2>3. nextIn'[n] <= top + owed'[n]
    BY <1>0, <1>2, <2>2
  <2>4. \A y \in Sealed' : y.slot.box = ThreadOf(n) => y.slot.seq < top + owed'[n]
    BY <1>2, <1>3, <1>6 DEF LogOf, Within
  <2>. QED  BY <2>1, <2>3, <2>4 DEF LogOf, Within
<1>7. ASSUME NEW epoch, NEW top \in Nat, KeyKnown(n, epoch, top)
      PROVE  KeyKnown(n, epoch, top)'
  <2>1. CASE \E b \in got[n] : b.type = "key" /\ b.epoch = epoch
    BY <1>1, <2>1 DEF KeyKnown
  <2>2. ASSUME NEW p \in pins, p.slot.box = ThreadOf(n), p.slot.seq >= nextIn[n],
               p.slot.seq < top, p.body.type = "key", p.body.epoch = epoch,
               \A y \in Sealed : y.slot = p.slot => y = p
        PROVE  KeyKnown(n, epoch, top)'
    <3>1. p \in Sealed /\ p.slot.seq \in Nat /\ p.slot = Slot(p.slot.box, p.slot.seq)
      BY <1>0, SealedTyped DEF Sealed, AllPins
    <3>2. CASE p.slot.seq = nextIn[n]
      <4>1. x = p
        BY <1>3, <2>2, <3>1, <3>2
      <4>. QED  BY <1>1, <2>2, <4>1 DEF KeyKnown
    <3>3. CASE p.slot.seq > nextIn[n]
      <4>1. p \in pins' /\ p.slot.seq >= nextIn'[n]
        BY <1>2, <1>3, <3>1, <3>3
      <4>. QED  BY <1>3, <2>2, <4>1 DEF KeyKnown
    <3>. QED  BY <1>2, <2>2, <3>1, <3>2, <3>3
  <2>. QED  BY <1>7, <2>1, <2>2 DEF KeyKnown
<1>8. \A m \in Member : Remains(m)
  BY <1>4, <1>5, <1>6, <1>7 DEF Remains
<1>. QED  BY <1>2, <1>8, ThreadRest

LEMMA ThreadReadPost ==
  ASSUME IInv, ThreadInv, NEW n \in Member, NEW epoch \in Epoch, ReadPost(n, epoch)
  PROVE  ThreadInv'
<1>. DEFINE r == Pinned(ReceiptSlot(n, epoch, nextPost[n][epoch]), Body("seen", epoch, 0),
                        today + KeepDays)
<1>0. TypeOK
  BY DEF IInv
<1>1. /\ epoch \in Nat /\ (late' = late \/ late' = late \cup {r})
      /\ UNCHANGED <<pins, channel, nextOut, job, letters, nextIn, got, outcome, owed>>
  BY <1>0, ReadPostDoes
<1>2. r.slot.box = SeenBy(n, epoch)
  BY DEF Pinned, ReceiptSlot, Slot
<1>. HIDE DEF r
<1>3. \A m \in Member : r.slot.box # ThreadOf(m)
  BY <1>1, <1>2, BoxKinds
<1>4. \A m \in Member : ThreadStays(m) /\ NothingNew(m)
  BY <1>1, <1>3 DEF ThreadStays, NothingNew, Sealed, AllPins
<1>5. \A m \in Member : Remains(m)
  BY <1>0, <1>1, <1>4, QuietKeeps
<1>. QED  BY <1>1, <1>5, ThreadRest

\* What lands was counted when it was given up on.
LEMMA ThreadRelay ==
  ASSUME IInv, KeyInv, ThreadInv, RelayWorks
  PROVE  ThreadInv'
<1>0. TypeOK
  BY DEF IInv
<1>1. /\ UNCHANGED <<channel, nextOut, job, nextIn, got, outcome, owed>>
      /\ letters \subseteq letters'
      /\ \A x \in letters' \ letters : x \in late
      /\ AllPins' \subseteq AllPins
      /\ \A p \in pins \ pins' : p.until # Undated
  BY <1>0, RelayTyped DEF RelayWorks, Sweep, NextDay, Land, Expired, business, members, history
<1>2. \A m \in Member : \A p \in pins : p.slot.box = ThreadOf(m) => p \in pins'
  BY <1>1, BoxKinds DEF KeyInv, PinsInPlace, InPlace, AllPins
<1>3. \A m \in Member : ThreadStays(m) /\ NothingNew(m)
  BY <1>1, <1>2 DEF ThreadStays, NothingNew, Sealed, AllPins
<1>4. \A m \in Member : Remains(m)
  BY <1>0, <1>1, <1>3, QuietKeeps
<1>. QED  BY <1>1, <1>4, ThreadRest

LEMMA ThreadNext ==
  IInv /\ KeyInv /\ ThreadInv /\ [OrderlyNext]_vars => ThreadInv'
<1>. SUFFICES ASSUME IInv, KeyInv, ThreadInv, [OrderlyNext]_vars
              PROVE  ThreadInv'
  OBVIOUS
<1>1. ASSUME NEW j \in Job, OrderlyStart(j)
      PROVE  ThreadInv'
  BY <1>1, ThreadCreate, ThreadSaveMembers, ThreadPost, ThreadWrite DEF OrderlyStart, Change
<1>2. ASSUME NEW j \in Job, ~Idle(j), Work(j)
      PROVE  ThreadInv'
  BY <1>2, ThreadBegin, ThreadLook, ThreadFail, ThreadSent, ThreadUnheard, ThreadSave DEF Work
<1>3. CASE AllIdle /\ Seeing
  BY <1>3, ThreadSeeing DEF Seeing
<1>4. ASSUME NEW m \in Member, Reading(m)
      PROVE  ThreadInv'
  BY <1>4, ThreadReadThread, ThreadReadPost DEF Reading
<1>5. CASE UNCHANGED vars
  <2>0. TypeOK
    BY DEF IInv
  <2>1. /\ UNCHANGED <<channel, nextOut, job, letters, nextIn, got, outcome, owed>>
        /\ \A m \in Member : ThreadStays(m) /\ NothingNew(m)
    BY <1>5 DEF vars, ThreadStays, NothingNew, Sealed, AllPins
  <2>2. \A m \in Member : Remains(m)
    BY <2>0, <2>1, QuietKeeps
  <2>. QED  BY <2>1, <2>2, ThreadRest
<1>. QED  BY <1>1, <1>2, <1>3, <1>4, <1>5, ThreadRelay DEF OrderlyNext

\* The business's number of the next slot of a thread is one the member's reader gets to
\* without a gap, and nothing in the thread, or on its way there, is further beyond it than
\* there are lost answers not made up for.  Whoever a job's send of the key was taken by the
\* relay for, their thread having made up for all of them, has it, or it stands in front of
\* them in a slot that nothing else is or will be in (chain/channels.ts, sendChannelKey;
\* keepSent in chain/Channel.tsx).
THEOREM OrderlyThreads == OrderlySpec => []ThreadInv
<1>1. Init => ThreadInv
  BY ThreadInit
<1>. QED  BY <1>1, OrderlySound, OrderlyKeys, ThreadNext, PTL DEF OrderlySpec

\* Who knows the channel's number, has the channel's key or will come to it.
LEMMA KeysReach ==
  IInv /\ KeyInv /\ PostInv /\ ThreadInv => KeyReaches
<1>. SUFFICES ASSUME IInv, KeyInv, PostInv, ThreadInv, AllIdle, channel # Nothing,
                     NEW m \in channel.members, outcome[m] = "sent"
              PROVE  WillHaveKey(m)
  BY DEF KeyReaches
<1>1. /\ channel \in Channels /\ m \in Member
      /\ channel.key \in Nat /\ channel.epoch \in Nat /\ Numbered(channel.key, channel.epoch)
  BY DEF IInv, TypeOK, Channels, Numbered
<1>2. KeyKnown(m, channel.epoch, nextOut[m])
  <2>1. \A j \in Job : ~PeopleAtWork(j)
    BY DEF AllIdle, PeopleAtWork
  <2>. QED  BY <2>1 DEF ThreadInv
<1>3. Filled(m, nextOut[m]) /\ nextOut[m] \in Nat /\ nextIn[m] \in Nat
  BY <1>1 DEF ThreadInv, LogOf, IInv, TypeOK
<1>4. CASE \E b \in got[m] : b.type = "key" /\ b.epoch = channel.epoch
  <2>1. Opens(m, channel.epoch)
    BY <1>4 DEF Opens, KeyMessages
  <2>2. KeyOf(m, channel.epoch) \in Nat /\ Numbered(KeyOf(m, channel.epoch), channel.epoch)
    BY <1>1, <2>1, KeyOfIs DEF PostInv
  <2>3. KeyOf(m, channel.epoch) = channel.key
    BY <1>1, <2>2 DEF KeyInv, OneKey
  <2>. QED  BY <2>1, <2>3 DEF HasKey, WillHaveKey
<1>5. ASSUME NEW p \in pins, p.slot.box = ThreadOf(m), p.slot.seq >= nextIn[m],
             p.slot.seq < nextOut[m], p.body.type = "key", p.body.epoch = channel.epoch,
             \A x \in Sealed : x.slot = p.slot => x = p
      PROVE  p.body.key = channel.key /\ Reaches(m, p)
  <2>1. p.body.key \in Nat /\ p.slot.seq \in Nat
    BY DEF IInv, TypeOK, Stored, Slots, Bodies
  <2>2. Numbered(p.body.key, channel.epoch)
    BY <1>5 DEF Numbered, AllPins
  <2>3. p.body.key = channel.key
    BY <1>1, <2>1, <2>2 DEF KeyInv, OneKey
  <2>4. \A n \in nextIn[m]..p.slot.seq :
          Taken(Slot(ThreadOf(m), n)) \/ LettersAt(Slot(ThreadOf(m), n)) # {}
    BY <1>3, <1>5, <2>1 DEF Filled, Stands
  <2>5. LettersAt(p.slot) = {}
    <3>1. \A x \in letters : x.body.type = "text"
      BY DEF IInv, LettersAreTexts
    <3>. QED  BY <1>5, <3>1 DEF LettersAt, Sealed
  <2>. QED  BY <1>5, <2>3, <2>4, <2>5 DEF Reaches
<1>. QED  BY <1>2, <1>4, <1>5 DEF KeyKnown, WillHaveKey

\* Every member the relay took the last send of the channel's key for, their thread having
\* made up for every answer lost before, has the key or will come to it slot by slot
\* (chain/channels.ts, sendChannelKey), for any members and any run of changes, posts,
\* messages, failures, lost answers and late landings, as long as no screen is left at work.
THEOREM OrderlyKeyReaches == OrderlySpec => []KeyReaches
BY OrderlySound, OrderlyKeys, OrderlyPosts, OrderlyThreads, KeysReach, PTL
=============================================================================
