--------------------------- MODULE LettersProofs ----------------------------
(***************************************************************************)
(* What holds of letters whatever is lost, sent twice or broken off:       *)
(* slots fill up without a gap, and the reader passes over none of them.   *)
(*                                                                         *)
(* A send only names a slot all of whose predecessors are filled (its      *)
(* first slot is the sender's counter, and it steps over filled ones), and *)
(* the counter only passes a slot that is filled.  A scan is never ahead   *)
(* of the receiver's counter, and the letters it fetched stay on chain.    *)
(*                                                                         *)
(* In orderly use, the slots are besides a log between the two ends.       *)
(***************************************************************************)
EXTENDS Letters, Sequences, FunctionTheorems, FiniteSetTheorems, TLAPS

Filled(n) == \A m \in Nat : m < n => LettersAt(m) # {}

AskedBySend  == \A s \in Send : shield[s] # "none" => send[s] # Nothing
LookingFirst == \A s \in Send : At(s, "looking") => shield[s] = "none"
SlotsFilled  == \A s \in Send : send[s] # Nothing => Filled(send[s].slot)
SentFilled   == \A s \in Send : At(s, "sent") => LettersAt(send[s].slot) # {}

SenderInv == LookingFirst /\ SlotsFilled /\ SentFilled /\ Filled(next)

NotAhead    == \A c \in Scan : scan[c] # Nothing => scan[c].at <= nextIn
BoxArrived  == \A c \in Scan : Loaded(c) => \A s \in scan[c].box : OnChain(s)
PassedRead  ==
  \A m \in Nat : m < nextIn =>
    /\ LettersAt(m) # {}
    /\ (\E e \in kept : e[1] = m) \/ DocsAt(m) \ Readable # {}
KeptArrived == \A e \in kept : e[2] \in DocsAt(e[1]) \cap Readable

ReceiverInv == NotAhead /\ BoxArrived /\ PassedRead /\ KeptArrived

-----------------------------------------------------------------------------
LEMMA Constants ==
  /\ Send \subseteq Nat
  /\ Readable \subseteq Doc
  /\ Nothing \notin Nat /\ Nothing \notin Sends /\ Nothing \notin Scans
BY PressesAssumption, ReadableAssumption, NothingAssumption DEF Send

USE DEF Kinds, Stages, Fates

\* A send that has begun, and one that changes its slot or stage only.
LEMMA SendsType ==
  ASSUME NEW x \in Sends
  PROVE  /\ x.doc \in Doc /\ x.from \in Nat /\ x.slot \in Nat /\ x.stage \in Stages
         /\ \A st \in Stages : [x EXCEPT !.stage = st] \in Sends
         /\ \A n \in Nat : [x EXCEPT !.slot = n] \in Sends
BY DEF Sends

\* What a change of stage leaves of the sends.
LEMMA Becoming ==
  ASSUME TypeOK, NEW s \in Send, NEW st \in Stages, send[s] # Nothing, Becomes(s, st)
  PROVE  /\ send' \in [Send -> Sends \cup {Nothing}]
         /\ \A t \in Send : send[t] # Nothing =>
              /\ send'[t] # Nothing
              /\ send'[t].doc = send[t].doc /\ send'[t].from = send[t].from
              /\ send'[t].slot = send[t].slot
              /\ t # s => send'[t].stage = send[t].stage
         /\ \A t \in Send : send[t] = Nothing => send'[t] = Nothing
         /\ send'[s].stage = st
<1>1. send[s] \in Sends
  BY DEF TypeOK
<1>2. [send[s] EXCEPT !.stage = st] \in Sends
  BY <1>1, SendsType
<1>3. /\ [send[s] EXCEPT !.stage = st].doc = send[s].doc
      /\ [send[s] EXCEPT !.stage = st].from = send[s].from
      /\ [send[s] EXCEPT !.stage = st].slot = send[s].slot
      /\ [send[s] EXCEPT !.stage = st].stage = st
  BY <1>1 DEF Sends
<1>4. send' = [send EXCEPT ![s] = [send[s] EXCEPT !.stage = st]]
  BY DEF Becomes
<1>. QED  BY <1>2, <1>3, <1>4, Constants DEF TypeOK

\* What stepping over a taken slot leaves of them.
LEMMA Stepping ==
  ASSUME TypeOK, NEW s \in Send, StepOver(s)
  PROVE  /\ send' \in [Send -> Sends \cup {Nothing}]
         /\ \A t \in Send : send[t] # Nothing =>
              /\ send'[t] # Nothing
              /\ send'[t].doc = send[t].doc /\ send'[t].from = send[t].from
              /\ send'[t].stage = send[t].stage
              /\ t # s => send'[t].slot = send[t].slot
         /\ \A t \in Send : send[t] = Nothing => send'[t] = Nothing
         /\ send'[s].slot = send[s].slot + 1
<1>1. send[s] \in Sends
  BY DEF TypeOK, StepOver, At
<1>2. send[s].slot + 1 \in Nat
  BY <1>1 DEF Sends
<1>3. [send[s] EXCEPT !.slot = send[s].slot + 1] \in Sends
  BY <1>1, <1>2, SendsType
<1>4. /\ [send[s] EXCEPT !.slot = send[s].slot + 1].doc = send[s].doc
      /\ [send[s] EXCEPT !.slot = send[s].slot + 1].from = send[s].from
      /\ [send[s] EXCEPT !.slot = send[s].slot + 1].stage = send[s].stage
      /\ [send[s] EXCEPT !.slot = send[s].slot + 1].slot = send[s].slot + 1
  BY <1>1 DEF Sends
<1>5. send' = [send EXCEPT ![s] = [send[s] EXCEPT !.slot = send[s].slot + 1]]
  BY DEF StepOver
<1>. QED  BY <1>1, <1>3, <1>4, <1>5, Constants DEF TypeOK

\* What the start of a send leaves of them.
LEMMA Beginning ==
  ASSUME TypeOK, NEW s \in Send, NEW d \in Doc, Begin(s, d)
  PROVE  /\ send' \in [Send -> Sends \cup {Nothing}]
         /\ send[s] = Nothing /\ send'[s] # Nothing
         /\ send'[s].doc = d /\ send'[s].from = next
         /\ send'[s].slot = next /\ send'[s].stage = "looking"
         /\ \A t \in Send : t # s => send'[t] = send[t]
<1> DEFINE x == [doc |-> d, from |-> next, slot |-> next, stage |-> "looking"]
<1>1. x \in Sends
  BY DEF Sends, TypeOK
<1>2. x.doc = d /\ x.from = next /\ x.slot = next /\ x.stage = "looking"
  OBVIOUS
<1>3. send[s] = Nothing /\ send' = [send EXCEPT ![s] = x]
  BY DEF Begin
<1> HIDE DEF x
<1>. QED  BY <1>1, <1>2, <1>3, Constants DEF TypeOK


TypeInv == TypeOK /\ AskedBySend

LEMMA InitType == Init => TypeInv
BY Constants DEF Init, TypeInv, TypeOK, AskedBySend

LEMMA NextType == TypeInv /\ [Next]_vars => TypeInv'
<1> SUFFICES ASSUME TypeInv, [Next]_vars PROVE TypeInv'
  OBVIOUS
<1>0. TypeOK
  BY DEF TypeInv
<1> USE DEF TypeInv, TypeOK, AskedBySend, sender, receiver
<1>1. ASSUME NEW s \in Send, NEW d \in Doc, Begin(s, d) PROVE TypeInv'
  BY <1>0, <1>1, Beginning DEF Begin
<1>2. ASSUME NEW s \in Send, NEW f \in Fates, Fate(s, f)
      PROVE  /\ shield' \in [Send -> Fates]
             /\ \A t \in Send : t # s => shield'[t] = shield[t]
  BY <1>2 DEF Fate
<1>3. ASSUME NEW s \in Send, FindTaken(s) PROVE TypeInv'
  BY <1>0, <1>3, Becoming DEF FindTaken, At
<1>4. ASSUME NEW s \in Send, StepOver(s) PROVE TypeInv'
  BY <1>0, <1>4, Stepping DEF StepOver
<1>5. ASSUME NEW s \in Send, NoFreeSlot(s) PROVE TypeInv'
  BY <1>0, <1>5, Becoming DEF NoFreeSlot, At
<1>6. ASSUME NEW s \in Send, Ask(s) PROVE TypeInv'
  BY <1>0, <1>6, <1>2, Becoming DEF Ask, At
<1>7. ASSUME NEW s \in Send, SeeAccepted(s) PROVE TypeInv'
  BY <1>0, <1>7, Becoming DEF SeeAccepted, At
<1>8. ASSUME NEW s \in Send, SeeRejected(s) PROVE TypeInv'
  BY <1>0, <1>8, Becoming DEF SeeRejected, At
<1>9. ASSUME NEW s \in Send, GiveUp(s) PROVE TypeInv'
  BY <1>0, <1>9, Becoming DEF GiveUp, Busy
<1>10. ASSUME NEW s \in Send, Record(s) PROVE TypeInv'
  <2>1. send[s] \in Sends
    BY <1>10 DEF Record, At
  <2>2. send[s].slot \in Nat /\ send[s].doc \in Doc
    BY <2>1, SendsType
  <2>3. next' \in Nat
    BY <1>10, <2>2 DEF Record, Advance
  <2>4. record' \in [Doc -> Nat \cup {Nothing}]
    BY <1>10, <2>2 DEF Record
  <2>. QED  BY <1>0, <1>10, <2>3, <2>4, Becoming DEF Record, At
<1>11. ASSUME NEW s \in Send, ShieldTakes(s) PROVE TypeInv'
  <2>1. CASE At(s, "asking")
    BY <1>0, <1>11, <1>2, <2>1, Becoming DEF ShieldTakes, At
  <2>2. CASE ~At(s, "asking")
    BY <1>11, <1>2, <2>2 DEF ShieldTakes
  <2>. QED  BY <2>1, <2>2
<1>12. ASSUME NEW s \in Send, ShieldRefuses(s) PROVE TypeInv'
  BY <1>0, <1>12, <1>2, Becoming DEF ShieldRefuses
<1>13. ASSUME NEW s \in Send, NetworkDecides(s) PROVE TypeInv'
  BY <1>13, <1>2 DEF NetworkDecides
<1>14. ASSUME NEW c \in Scan, ScanBegin(c) PROVE TypeInv'
  BY <1>14 DEF ScanBegin, Scans
<1>15. ASSUME NEW c \in Scan, ScanLoad(c) PROVE TypeInv'
  <2>1. PICK box \in SUBSET Send : scan' = [scan EXCEPT ![c].loaded = TRUE, ![c].box = box]
    BY <1>15 DEF ScanLoad
  <2>2. scan' = [scan EXCEPT ![c] = [[scan[c] EXCEPT !.loaded = TRUE] EXCEPT !.box = box]]
    BY <1>15, <2>1 DEF ScanLoad
  <2>3. [[scan[c] EXCEPT !.loaded = TRUE] EXCEPT !.box = box] \in Scans
    BY <1>15 DEF ScanLoad, Scans
  <2>. QED  BY <1>15, <2>2, <2>3 DEF ScanLoad
<1>16. ASSUME NEW c \in Scan, Loaded(c), MovesOn(c)
       PROVE  /\ scan[c].at \in Nat
              /\ scan' \in [Scan -> Scans \cup {Nothing}]
              /\ PastIn(scan[c].at) \in Nat
  BY <1>16 DEF Loaded, MovesOn, Scans, PastIn
<1>17. ASSUME NEW c \in Scan, ScanKeep(c) PROVE TypeInv'
  <2>1. PICK s \in Found(c) : kept' = WithKept(scan[c].at, send[s].doc) /\ send[s].doc \in Readable
    BY <1>17 DEF ScanKeep
  <2>2. /\ scan[c].at \in Nat
        /\ scan' \in [Scan -> Scans \cup {Nothing}]
        /\ PastIn(scan[c].at) \in Nat
    BY <1>17, <1>16 DEF ScanKeep
  <2>3. kept' \in SUBSET (Nat \X Doc)
    BY <2>1, <2>2, Constants DEF WithKept
  <2>. QED  BY <1>17, <2>2, <2>3 DEF ScanKeep
<1>18. ASSUME NEW c \in Scan, ScanSkip(c) PROVE TypeInv'
  BY <1>18, <1>16 DEF ScanSkip
<1>19. ASSUME NEW c \in Scan, ScanEnd(c) PROVE TypeInv'
  BY <1>19 DEF ScanEnd
<1>20. ASSUME NEW c \in Scan, ScanStop(c) PROVE TypeInv'
  BY <1>20 DEF ScanStop
<1>21. CASE UNCHANGED vars
  BY <1>21 DEF vars
<1>. QED
  BY <1>1, <1>3, <1>4, <1>5, <1>6, <1>7, <1>8, <1>9, <1>10, <1>11, <1>12, <1>13, <1>14, <1>15,
     <1>17, <1>18, <1>19, <1>20, <1>21 DEF Next, SendStep, ScanStep

\* Type correctness of the letters, and no request without a send.
THEOREM AlwaysTypeOK == Spec => []TypeOK
<1>1. TypeInv => TypeOK
  BY DEF TypeInv
<1>. QED  BY <1>1, InitType, NextType, PTL DEF Spec

-----------------------------------------------------------------------------
(* The sender and the chain.                                                 *)

\* A send keeps its document, and its slot from the moment Shield is asked.
SendsKept ==
  \A t \in Send : send[t] # Nothing =>
    /\ send'[t] # Nothing
    /\ send'[t].doc = send[t].doc
    /\ shield[t] # "none" => send'[t].slot = send[t].slot

\* A letter on chain stays there.
LettersKept == \A t \in Send : OnChain(t) => OnChain(t)'

LEMMA StepKeeps ==
  ASSUME TypeInv, LookingFirst, [Next]_vars
  PROVE  SendsKept /\ LettersKept
<1>0. TypeOK
  BY DEF TypeInv
<1> USE DEF SendsKept, LettersKept, OnChain, sender, receiver
<1>2. ASSUME NEW s \in Send, NEW f \in Fates, Fate(s, f)
      PROVE  \A t \in Send : t # s => shield'[t] = shield[t]
  BY <1>0, <1>2 DEF Fate, TypeOK
<1>1. ASSUME NEW s \in Send, NEW d \in Doc, Begin(s, d) PROVE SendsKept /\ LettersKept
  BY <1>0, <1>1, Beginning DEF Begin
<1>3. ASSUME NEW s \in Send, FindTaken(s) PROVE SendsKept /\ LettersKept
  BY <1>0, <1>3, Becoming DEF FindTaken, At
<1>4. ASSUME NEW s \in Send, StepOver(s) PROVE SendsKept /\ LettersKept
  <2>1. shield[s] = "none" /\ shield' = shield
    BY <1>4 DEF StepOver, LookingFirst
  <2>. QED  BY <1>0, <1>4, <2>1, Stepping
<1>5. ASSUME NEW s \in Send, NoFreeSlot(s) PROVE SendsKept /\ LettersKept
  BY <1>0, <1>5, Becoming DEF NoFreeSlot, At
<1>6. ASSUME NEW s \in Send, Ask(s) PROVE SendsKept /\ LettersKept
  <2>1. shield[s] = "none"
    BY <1>6 DEF Ask, LookingFirst
  <2>. QED  BY <1>0, <1>6, <1>2, <2>1, Becoming DEF Ask, At
<1>7. ASSUME NEW s \in Send, SeeAccepted(s) PROVE SendsKept /\ LettersKept
  BY <1>0, <1>7, Becoming DEF SeeAccepted, At
<1>8. ASSUME NEW s \in Send, SeeRejected(s) PROVE SendsKept /\ LettersKept
  BY <1>0, <1>8, Becoming DEF SeeRejected, At
<1>9. ASSUME NEW s \in Send, GiveUp(s) PROVE SendsKept /\ LettersKept
  BY <1>0, <1>9, Becoming DEF GiveUp, Busy
<1>10. ASSUME NEW s \in Send, Record(s) PROVE SendsKept /\ LettersKept
  BY <1>0, <1>10, Becoming DEF Record, At
<1>11. ASSUME NEW s \in Send, ShieldTakes(s) PROVE SendsKept /\ LettersKept
  <2>1. LettersKept
    BY <1>11, <1>2 DEF ShieldTakes
  <2>2. CASE At(s, "asking")
    BY <1>0, <1>11, <2>1, <2>2, Becoming DEF ShieldTakes, At
  <2>3. CASE ~At(s, "asking")
    BY <1>11, <2>1, <2>3 DEF ShieldTakes
  <2>. QED  BY <2>2, <2>3
<1>12. ASSUME NEW s \in Send, ShieldRefuses(s) PROVE SendsKept /\ LettersKept
  <2>1. LettersKept
    BY <1>12, <1>2 DEF ShieldRefuses
  <2>2. send[s] # Nothing
    BY <1>12 DEF ShieldRefuses, TypeInv, AskedBySend
  <2>. QED  BY <1>0, <1>12, <2>1, <2>2, Becoming DEF ShieldRefuses
<1>13. ASSUME NEW s \in Send, NetworkDecides(s) PROVE SendsKept /\ LettersKept
  BY <1>13, <1>2 DEF NetworkDecides
<1>14. CASE UNCHANGED <<send, shield>>
  BY <1>14
<1>15. ASSUME NEW c \in Scan, ScanStep(c) PROVE UNCHANGED <<send, shield>>
  BY <1>15 DEF ScanStep, ScanBegin, ScanLoad, ScanKeep, ScanSkip, ScanEnd, ScanStop
<1>. QED
  BY <1>1, <1>3, <1>4, <1>5, <1>6, <1>7, <1>8, <1>9, <1>10, <1>11, <1>12, <1>13, <1>14, <1>15
     DEF Next, SendStep, vars

\* So what is under a slot stays there, and filled slots stay filled.
LEMMA SlotsGrow ==
  ASSUME TypeInv, SendsKept, LettersKept, NEW n \in Nat
  PROVE  /\ LettersAt(n) \subseteq LettersAt(n)'
         /\ DocsAt(n) \subseteq DocsAt(n)'
         /\ Filled(n) => Filled(n)'
<1>1. ASSUME NEW m \in Nat PROVE LettersAt(m) \subseteq LettersAt(m)'
  BY DEF LettersAt, OnChain, SendsKept, LettersKept, TypeInv, AskedBySend
<1>2. \A s \in LettersAt(n) : send'[s].doc = send[s].doc
  BY DEF LettersAt, OnChain, SendsKept, TypeInv, AskedBySend
<1>3. DocsAt(n) \subseteq DocsAt(n)'
  BY <1>1, <1>2 DEF DocsAt
<1>4. Filled(n) => Filled(n)'
  BY <1>1 DEF Filled
<1>. QED  BY <1>1, <1>3, <1>4

LEMMA FilledNext ==
  ASSUME NEW n \in Nat, Filled(n), LettersAt(n) # {}
  PROVE  Filled(n + 1)
BY DEF Filled

LEMMA InitSender == Init => SenderInv
BY DEF Init, SenderInv, LookingFirst, SlotsFilled, SentFilled, At, Filled

LEMMA NextSender ==
  ASSUME TypeInv, SenderInv, [Next]_vars
  PROVE  SenderInv'
<1>0. /\ TypeOK
      /\ \A t \in Send : send[t] # Nothing => send[t].slot \in Nat
      /\ next \in Nat
  BY DEF TypeInv, TypeOK, Sends
<1>a. SendsKept /\ LettersKept
  BY StepKeeps DEF SenderInv
<1>b. /\ \A n \in Nat : Filled(n) => Filled(n)'
      /\ \A n \in Nat : LettersAt(n) # {} => LettersAt(n)' # {}
  BY <1>a, SlotsGrow
<1>c. ASSUME NEW s \in Send, NEW st \in Stages, Becomes(s, st), send[s] # Nothing, st # "looking",
             st = "sent" => LettersAt(send[s].slot) # {},
             \A t \in Send : t # s => shield'[t] = shield[t]
      PROVE  LookingFirst' /\ SlotsFilled' /\ SentFilled'
  <2>1. LookingFirst'
    BY <1>0, <1>c, Becoming DEF SenderInv, LookingFirst, At
  <2>2. ASSUME NEW t \in Send, send'[t] # Nothing
        PROVE  send[t] # Nothing /\ send'[t].slot = send[t].slot /\ send[t].slot \in Nat
    BY <1>0, <1>c, <2>2, Becoming
  <2>3. SlotsFilled'
    <3> SUFFICES ASSUME NEW t \in Send, send'[t] # Nothing, NEW m \in Nat, m < send'[t].slot
                 PROVE  LettersAt(m)' # {}
      BY DEF SlotsFilled, Filled
    <3>1. LettersAt(m) # {}
      BY <2>2 DEF SenderInv, SlotsFilled, Filled
    <3>. QED  BY <1>b, <3>1
  <2>4. SentFilled'
    <3> SUFFICES ASSUME NEW t \in Send, send'[t] # Nothing, send'[t].stage = "sent"
                 PROVE  LettersAt(send[t].slot)' # {}
      BY DEF SentFilled, At
    <3>1. LettersAt(send[t].slot) # {}
      BY <1>0, <1>c, <2>2, Becoming DEF SenderInv, SentFilled, At
    <3>2. PICK n \in Nat : n = send[t].slot /\ n = send'[t].slot
      BY <2>2
    <3>. QED  BY <1>b, <3>1, <3>2
  <2>. QED  BY <2>1, <2>3, <2>4
<1>d. UNCHANGED next => Filled(next)'
  <2> SUFFICES ASSUME next' = next, NEW m \in Nat, m < next PROVE LettersAt(m)' # {}
    BY DEF Filled
  <2>. QED  BY <1>b DEF SenderInv, Filled
<1> USE DEF sender, receiver
<1>1. ASSUME NEW s \in Send, NEW d \in Doc, Begin(s, d) PROVE SenderInv'
  <2>1. shield' = shield /\ next' = next
    BY <1>1 DEF Begin
  <2>2. LookingFirst'
    BY <1>0, <1>1, <2>1, Beginning DEF SenderInv, LookingFirst, At, TypeInv, AskedBySend
  <2>3. SlotsFilled'
    <3> SUFFICES ASSUME NEW t \in Send, send'[t] # Nothing, NEW m \in Nat, m < send'[t].slot
                 PROVE  LettersAt(m)' # {}
      BY DEF SlotsFilled, Filled
    <3>1. LettersAt(m) # {}
      BY <1>0, <1>1, Beginning DEF SenderInv, SlotsFilled, Filled
    <3>. QED  BY <1>b, <3>1
  <2>4. SentFilled'
    <3> SUFFICES ASSUME NEW t \in Send, send'[t] # Nothing, send'[t].stage = "sent"
                 PROVE  LettersAt(send[t].slot)' # {}
      BY DEF SentFilled, At
    <3>1. send[t] # Nothing /\ send'[t] = send[t]
      BY <1>0, <1>1, Beginning
    <3>2. LettersAt(send[t].slot) # {}
      BY <3>1 DEF SenderInv, SentFilled, At
    <3>3. PICK n \in Nat : n = send[t].slot /\ n = send'[t].slot
      BY <1>0, <3>1
    <3>. QED  BY <1>b, <3>2, <3>3
  <2>. QED  BY <1>d, <2>1, <2>2, <2>3, <2>4 DEF SenderInv
<1>3. ASSUME NEW s \in Send, FindTaken(s) PROVE SenderInv'
  BY <1>3, <1>c, <1>d DEF FindTaken, At, SenderInv
<1>4. ASSUME NEW s \in Send, StepOver(s) PROVE SenderInv'
  <2>1. /\ shield' = shield /\ next' = next
        /\ send[s] # Nothing /\ LettersAt(send[s].slot) # {}
        /\ At(s, "looking")
    BY <1>4 DEF StepOver, At
  <2>2. LookingFirst'
    BY <1>0, <1>4, <2>1, Stepping DEF SenderInv, LookingFirst, At
  <2>3. SlotsFilled'
    <3> SUFFICES ASSUME NEW t \in Send, send'[t] # Nothing, NEW m \in Nat, m < send'[t].slot
                 PROVE  LettersAt(m)' # {}
      BY DEF SlotsFilled, Filled
    <3>1. CASE t = s
      <4>1. m < send[s].slot \/ m = send[s].slot
        BY <1>0, <1>4, <2>1, <3>1, Stepping
      <4>2. LettersAt(m) # {}
        BY <2>1, <4>1 DEF SenderInv, SlotsFilled, Filled
      <4>. QED  BY <1>b, <4>2
    <3>2. CASE t # s
      <4>1. LettersAt(m) # {}
        BY <1>0, <1>4, <3>2, Stepping DEF SenderInv, SlotsFilled, Filled
      <4>. QED  BY <1>b, <4>1
    <3>. QED  BY <3>1, <3>2
  <2>4. SentFilled'
    <3> SUFFICES ASSUME NEW t \in Send, send'[t] # Nothing, send'[t].stage = "sent"
                 PROVE  LettersAt(send[t].slot)' # {}
      BY DEF SentFilled, At
    <3>1. t # s /\ send[t] # Nothing /\ send'[t].slot = send[t].slot /\ send[t].stage = "sent"
      BY <1>0, <1>4, <2>1, Stepping DEF At
    <3>2. LettersAt(send[t].slot) # {}
      BY <3>1 DEF SenderInv, SentFilled, At
    <3>3. PICK n \in Nat : n = send[t].slot /\ n = send'[t].slot
      BY <1>0, <3>1
    <3>. QED  BY <1>b, <3>2, <3>3
  <2>. QED  BY <1>d, <2>1, <2>2, <2>3, <2>4 DEF SenderInv
<1>5. ASSUME NEW s \in Send, NoFreeSlot(s) PROVE SenderInv'
  BY <1>5, <1>c, <1>d DEF NoFreeSlot, At, SenderInv
<1>6. ASSUME NEW s \in Send, Ask(s) PROVE SenderInv'
  <2>1. \A t \in Send : t # s => shield'[t] = shield[t]
    BY <1>6 DEF Ask, Fate, TypeInv, TypeOK
  <2>. QED  BY <1>6, <1>c, <1>d, <2>1 DEF Ask, At, SenderInv
<1>7. ASSUME NEW s \in Send, SeeAccepted(s) PROVE SenderInv'
  <2>1. LettersAt(send[s].slot) # {}
    BY <1>7 DEF SeeAccepted, LettersAt, OnChain
  <2>. QED  BY <1>7, <1>c, <1>d, <2>1 DEF SeeAccepted, At, SenderInv
<1>8. ASSUME NEW s \in Send, SeeRejected(s) PROVE SenderInv'
  BY <1>8, <1>c, <1>d DEF SeeRejected, At, SenderInv
<1>9. ASSUME NEW s \in Send, GiveUp(s) PROVE SenderInv'
  BY <1>9, <1>c, <1>d DEF GiveUp, Busy, SenderInv
<1>10. ASSUME NEW s \in Send, Record(s) PROVE SenderInv'
  <2>1. /\ send[s] # Nothing /\ Becomes(s, "over") /\ shield' = shield
        /\ next' = Advance(send[s].slot) /\ send[s].slot \in Nat
    BY <1>0, <1>10 DEF Record, At
  <2>2. LettersAt(send[s].slot) # {} /\ Filled(send[s].slot)
    BY <1>10, <2>1 DEF SenderInv, SentFilled, SlotsFilled, Record
  <2>3. Filled(next)'
    <3> SUFFICES ASSUME NEW m \in Nat, m < next' PROVE LettersAt(m)' # {}
      BY DEF Filled
    <3>1. m < next \/ m < send[s].slot \/ m = send[s].slot
      BY <1>0, <2>1 DEF Advance
    <3>2. LettersAt(m) # {}
      BY <2>2, <3>1 DEF SenderInv, Filled
    <3>. QED  BY <1>b, <3>2
  <2>. QED  BY <1>c, <2>1, <2>3 DEF SenderInv
<1>11. ASSUME NEW s \in Send, UNCHANGED <<send, next>>,
              \A t \in Send : shield[t] = "none" => shield'[t] = "none"
       PROVE  SenderInv'
  <2>1. LookingFirst'
    BY <1>11 DEF SenderInv, LookingFirst, At
  <2>2. SlotsFilled'
    BY <1>0, <1>b, <1>11 DEF SenderInv, SlotsFilled, Filled
  <2>3. SentFilled'
    <3> SUFFICES ASSUME NEW t \in Send, send[t] # Nothing, send[t].stage = "sent"
                 PROVE  LettersAt(send[t].slot)' # {}
      BY <1>11 DEF SentFilled, At
    <3>1. LettersAt(send[t].slot) # {}
      BY DEF SenderInv, SentFilled, At
    <3>2. PICK n \in Nat : n = send[t].slot /\ n = send'[t].slot
      BY <1>0, <1>11
    <3>. QED  BY <1>b, <3>1, <3>2
  <2>. QED  BY <1>d, <1>11, <2>1, <2>2, <2>3 DEF SenderInv
<1>12. ASSUME NEW s \in Send, ShieldTakes(s) PROVE SenderInv'
  <2>1. /\ \A t \in Send : t # s => shield'[t] = shield[t]
        /\ shield[s] = "asked"
    BY <1>12 DEF ShieldTakes, Fate, TypeInv, TypeOK
  <2>2. CASE At(s, "asking")
    BY <1>12, <1>c, <1>d, <2>1, <2>2 DEF ShieldTakes, At, SenderInv
  <2>3. CASE ~At(s, "asking")
    BY <1>12, <1>11, <2>1, <2>3 DEF ShieldTakes
  <2>. QED  BY <2>2, <2>3
<1>13. ASSUME NEW s \in Send, ShieldRefuses(s) PROVE SenderInv'
  <2>1. /\ \A t \in Send : t # s => shield'[t] = shield[t]
        /\ send[s] # Nothing
    BY <1>13 DEF ShieldRefuses, Fate, TypeInv, TypeOK, AskedBySend
  <2>. QED  BY <1>13, <1>c, <1>d, <2>1 DEF ShieldRefuses, SenderInv
<1>14. ASSUME NEW s \in Send, NetworkDecides(s) PROVE SenderInv'
  <2>1. /\ \A t \in Send : t # s => shield'[t] = shield[t]
        /\ shield[s] = "taken"
    BY <1>14 DEF NetworkDecides, Fate, TypeInv, TypeOK
  <2>. QED  BY <1>14, <1>11, <2>1 DEF NetworkDecides
<1>15. CASE UNCHANGED <<send, shield, next>>
  <2>1. LookingFirst' /\ SentFilled' /\ SlotsFilled' /\ Filled(next)'
    BY <1>15 DEF SenderInv, LookingFirst, SentFilled, SlotsFilled, Filled, At, LettersAt, OnChain
  <2>. QED  BY <2>1 DEF SenderInv
<1>16. ASSUME NEW c \in Scan, ScanStep(c) PROVE UNCHANGED <<send, shield, next>>
  BY <1>16 DEF ScanStep, ScanBegin, ScanLoad, ScanKeep, ScanSkip, ScanEnd, ScanStop
<1>. QED
  BY <1>1, <1>3, <1>4, <1>5, <1>6, <1>7, <1>8, <1>9, <1>10, <1>12, <1>13, <1>14, <1>15, <1>16
     DEF Next, SendStep, vars

LEMMA SenderNoGap == TypeInv /\ SenderInv => NoGap
<1> SUFFICES ASSUME TypeInv, SenderInv, NEW s \in Send, OnChain(s), NEW m \in 0..send[s].slot
             PROVE  LettersAt(m) # {}
  BY DEF NoGap
<1>1. send[s] # Nothing /\ send[s].slot \in Nat
  BY DEF TypeInv, TypeOK, AskedBySend, OnChain, Sends
<1>2. CASE m < send[s].slot
  BY <1>1, <1>2 DEF SenderInv, SlotsFilled, Filled
<1>3. CASE m = send[s].slot
  BY <1>3 DEF LettersAt
<1>. QED  BY <1>1, <1>2, <1>3

\* The slots in use follow each other without a gap, whatever is lost, refused or sent
\* twice (nextSeq, bumpSeq, and the step over taken slots in postToThread).
THEOREM AlwaysNoGap == Spec => []NoGap
<1>1. Init => TypeInv /\ SenderInv
  BY InitType, InitSender
<1>2. TypeInv /\ SenderInv /\ [Next]_vars => (TypeInv /\ SenderInv)'
  BY NextType, NextSender
<1>3. TypeInv /\ SenderInv => NoGap
  BY SenderNoGap
<1>. QED  BY <1>1, <1>2, <1>3, PTL DEF Spec

-----------------------------------------------------------------------------
(* The receiver.                                                             *)

\* Storing a document loses no slot and adds none but its own.
LEMMA WithKeptSlots ==
  ASSUME NEW n \in Nat, NEW d \in Doc
  PROVE  /\ WithKept(n, d) \subseteq kept \cup {<<n, d>>}
         /\ \E e \in WithKept(n, d) : e[1] = n
         /\ \A e \in kept : \E f \in WithKept(n, d) : f[1] = e[1]
<1> DEFINE p == <<n, d>>
<1>0. p[1] = n
  OBVIOUS
<1>1. CASE WithKept(n, d) = kept \cup {p}
  <2>1. WithKept(n, d) \subseteq kept \cup {<<n, d>>} /\ p \in WithKept(n, d)
    BY <1>1
  <2>2. \A e \in kept : e \in WithKept(n, d) \/ e[1] = n
    BY <1>1
  <2> HIDE DEF p
  <2>3. \E e \in WithKept(n, d) : e[1] = n
    BY <1>0, <2>1
  <2>. QED  BY <2>1, <2>2, <2>3
<1>2. CASE ~(kind = "thread" \/ \A e \in kept : e[1] # n) /\ kind = "paystub"
  BY <1>2 DEF WithKept
<1>3. CASE WithKept(n, d) = {e \in kept : e[1] # n} \cup {p}
  <2>1. WithKept(n, d) \subseteq kept \cup {<<n, d>>} /\ p \in WithKept(n, d)
    BY <1>3
  <2>2. \A e \in kept : e \in WithKept(n, d) \/ e[1] = n
    BY <1>3
  <2> HIDE DEF p
  <2>3. \E e \in WithKept(n, d) : e[1] = n
    BY <1>0, <2>1
  <2>. QED  BY <2>1, <2>2, <2>3
<1>4. \/ WithKept(n, d) = kept \cup {p}
      \/ ~(kind = "thread" \/ \A e \in kept : e[1] # n) /\ kind = "paystub"
      \/ WithKept(n, d) = {e \in kept : e[1] # n} \cup {p}
  BY DEF WithKept
<1>. QED  BY <1>1, <1>2, <1>3, <1>4

LEMMA InitReceiver == Init => ReceiverInv
BY Constants DEF Init, ReceiverInv, NotAhead, BoxArrived, PassedRead, KeptArrived, Loaded

LEMMA NextReceiver ==
  ASSUME TypeInv, SenderInv, ReceiverInv, [Next]_vars
  PROVE  ReceiverInv'
<1>0. /\ kept \subseteq Nat \X Doc /\ nextIn \in Nat
      /\ \A c \in Scan : scan[c] # Nothing => scan[c].at \in Nat /\ scan[c].box \subseteq Send
      /\ scan \in [Scan -> Scans \cup {Nothing}]
      /\ \A s \in Send : send[s] # Nothing => send[s].doc \in Doc
  BY DEF TypeInv, TypeOK, Scans, Sends
<1>a. SendsKept /\ LettersKept
  BY StepKeeps DEF SenderInv
<1>b. \A n \in Nat : /\ LettersAt(n) # {} => LettersAt(n)' # {}
                     /\ DocsAt(n) \subseteq DocsAt(n)'
  BY <1>a, SlotsGrow
<1>c. \A m \in Nat : m < nextIn =>
        /\ LettersAt(m)' # {}
        /\ (\E e \in kept : e[1] = m) \/ DocsAt(m)' \ Readable # {}
  BY <1>b DEF ReceiverInv, PassedRead
<1>d. \A e \in kept : e[2] \in DocsAt(e[1])' \cap Readable
  BY <1>0, <1>b DEF ReceiverInv, KeptArrived
<1>e. ASSUME NEW c \in Scan, Loaded(c), NEW s \in scan[c].box PROVE OnChain(s)'
  BY <1>0, <1>a, <1>e DEF ReceiverInv, BoxArrived, LettersKept, Loaded
<1>f. UNCHANGED <<nextIn, kept>> => PassedRead' /\ KeptArrived'
  BY <1>c, <1>d DEF PassedRead, KeptArrived
<1>1. CASE UNCHANGED receiver
  <2>1. NotAhead' /\ BoxArrived'
    BY <1>1, <1>e DEF receiver, ReceiverInv, NotAhead, BoxArrived, Loaded
  <2>. QED  BY <1>1, <1>f, <2>1 DEF receiver, ReceiverInv
<1>2. ASSUME NEW c \in Scan, ScanBegin(c) PROVE ReceiverInv'
  <2>1. scan'[c] = [at |-> nextIn, loaded |-> FALSE, box |-> {}]
    BY <1>0, <1>2 DEF ScanBegin
  <2>2. NotAhead' /\ BoxArrived'
    BY <1>0, <1>2, <1>e, <2>1 DEF ScanBegin, ReceiverInv, NotAhead, BoxArrived, Loaded
  <2>. QED  BY <1>2, <1>f, <2>2 DEF ScanBegin, ReceiverInv
<1>3. ASSUME NEW c \in Scan, ScanLoad(c) PROVE ReceiverInv'
  <2>1. PICK box \in SUBSET Send :
          /\ FirstOfEach(box)
          /\ scan' = [scan EXCEPT ![c].loaded = TRUE, ![c].box = box]
    BY <1>3 DEF ScanLoad
  <2>2. scan[c] \in Scans
    BY <1>0, <1>3 DEF ScanLoad
  <2>3. scan'[c].at = scan[c].at /\ scan'[c].box = box
    BY <1>0, <2>1, <2>2 DEF Scans
  <2>4. \A x \in Scan : x # c => scan'[x] = scan[x]
    BY <1>0, <2>1
  <2>5. \A s \in box : OnChain(s)'
    BY <1>a, <2>1 DEF FirstOfEach, LettersKept
  <2>6. NotAhead' /\ BoxArrived'
    BY <1>3, <1>e, <2>2, <2>3, <2>4, <2>5
       DEF ScanLoad, ReceiverInv, NotAhead, BoxArrived, Loaded
  <2>. QED  BY <1>3, <1>f, <2>6 DEF ScanLoad, ReceiverInv
<1>4. ASSUME NEW c \in Scan, Loaded(c), MovesOn(c), nextIn' = PastIn(scan[c].at)
      PROVE  /\ NotAhead' /\ BoxArrived'
             /\ scan[c].at \in Nat /\ nextIn <= nextIn'
             /\ \A m \in Nat : m < nextIn' => m < nextIn \/ m = scan[c].at
  <2>1. scan[c] \in Scans /\ scan[c].at \in Nat /\ scan[c].at <= nextIn
    BY <1>0, <1>4 DEF Loaded, ReceiverInv, NotAhead
  <2>2. /\ scan'[c].at = scan[c].at + 1 /\ scan'[c].box = scan[c].box
        /\ \A x \in Scan : x # c => scan'[x] = scan[x]
    BY <1>0, <1>4, <2>1 DEF MovesOn, Scans
  <2>3. /\ nextIn' \in Nat /\ nextIn <= nextIn' /\ scan[c].at + 1 <= nextIn'
        /\ \A m \in Nat : m < nextIn' => m < nextIn \/ m = scan[c].at
    BY <1>0, <1>4, <2>1 DEF PastIn
  <2>4. NotAhead'
    BY <1>0, <2>2, <2>3 DEF ReceiverInv, NotAhead
  <2>5. BoxArrived'
    BY <1>4, <1>e, <2>2 DEF BoxArrived, Loaded
  <2>. QED  BY <2>1, <2>3, <2>4, <2>5
<1>5. ASSUME NEW c \in Scan, Loaded(c), NEW s \in Found(c)
      PROVE  /\ s \in LettersAt(scan[c].at) /\ send[s].doc \in DocsAt(scan[c].at)
             /\ send[s].doc \in Doc
  <2>1. s \in Send /\ OnChain(s) /\ send[s].slot = scan[c].at
    BY <1>0, <1>5 DEF Found, Loaded, ReceiverInv, BoxArrived
  <2>. QED  BY <1>0, <2>1 DEF LettersAt, DocsAt, TypeInv, AskedBySend, OnChain
<1>6. ASSUME NEW c \in Scan, ScanKeep(c) PROVE ReceiverInv'
  <2>1. /\ NotAhead' /\ BoxArrived' /\ scan[c].at \in Nat
        /\ \A m \in Nat : m < nextIn' => m < nextIn \/ m = scan[c].at
    BY <1>4, <1>6 DEF ScanKeep
  <2>2. PICK s \in Found(c) : send[s].doc \in Readable /\ kept' = WithKept(scan[c].at, send[s].doc)
    BY <1>6 DEF ScanKeep
  <2>3. /\ LettersAt(scan[c].at) # {} /\ send[s].doc \in DocsAt(scan[c].at) /\ send[s].doc \in Doc
    BY <1>5, <1>6, <2>2 DEF ScanKeep
  <2>4. PICK n \in Nat : n = scan[c].at
    BY <2>1
  <2>5. /\ kept' \subseteq kept \cup {<<n, send[s].doc>>}
        /\ \E e \in kept' : e[1] = n
        /\ \A e \in kept : \E f \in kept' : f[1] = e[1]
    BY <2>2, <2>3, <2>4, WithKeptSlots
  <2>6. LettersAt(n)' # {} /\ send[s].doc \in DocsAt(n)' /\ send[s].doc \in Readable
    BY <1>b, <2>2, <2>3, <2>4
  <2>7. PassedRead'
    <3> SUFFICES ASSUME NEW m \in Nat, m < nextIn'
                 PROVE  /\ LettersAt(m)' # {}
                        /\ (\E e \in kept' : e[1] = m) \/ DocsAt(m)' \ Readable # {}
      BY DEF PassedRead
    <3>. QED  BY <1>c, <2>1, <2>4, <2>5, <2>6
  <2>8. KeptArrived'
    <3> SUFFICES ASSUME NEW e \in kept' PROVE e[2] \in DocsAt(e[1])' \cap Readable
      BY DEF KeptArrived
    <3>1. CASE e \in kept
      BY <1>d, <3>1
    <3>2. CASE e = <<n, send[s].doc>>
      <4>1. e[1] = n /\ e[2] = send[s].doc
        BY <3>2
      <4>. QED  BY <2>6, <4>1
    <3>. QED  BY <2>5, <3>1, <3>2
  <2>. QED  BY <2>1, <2>7, <2>8 DEF ReceiverInv
<1>7. ASSUME NEW c \in Scan, ScanSkip(c) PROVE ReceiverInv'
  <2>1. /\ NotAhead' /\ BoxArrived' /\ scan[c].at \in Nat
        /\ \A m \in Nat : m < nextIn' => m < nextIn \/ m = scan[c].at
    BY <1>4, <1>7 DEF ScanSkip
  <2>2. PICK s \in Found(c) : send[s].doc \notin Readable
    BY <1>7 DEF ScanSkip
  <2>3. LettersAt(scan[c].at) # {} /\ send[s].doc \in DocsAt(scan[c].at)
    BY <1>5, <1>7, <2>2 DEF ScanSkip
  <2>4. PICK n \in Nat : n = scan[c].at
    BY <2>1
  <2>5. LettersAt(n)' # {} /\ DocsAt(n)' \ Readable # {}
    BY <1>b, <2>2, <2>3, <2>4
  <2>6. PassedRead'
    <3> SUFFICES ASSUME NEW m \in Nat, m < nextIn'
                 PROVE  /\ LettersAt(m)' # {}
                        /\ (\E e \in kept' : e[1] = m) \/ DocsAt(m)' \ Readable # {}
      BY DEF PassedRead
    <3>. QED  BY <1>7, <1>c, <2>1, <2>4, <2>5 DEF ScanSkip
  <2>7. KeptArrived'
    BY <1>7, <1>d DEF ScanSkip, KeptArrived
  <2>. QED  BY <2>1, <2>6, <2>7 DEF ReceiverInv
<1>8. ASSUME NEW c \in Scan, ScanEnd(c) \/ ScanStop(c) PROVE ReceiverInv'
  <2>1. UNCHANGED <<nextIn, kept>> /\ \A x \in Scan : scan'[x] = IF x = c THEN Nothing ELSE scan[x]
    BY <1>0, <1>8 DEF ScanEnd, ScanStop
  <2>2. NotAhead' /\ BoxArrived'
    BY <1>e, <2>1 DEF ReceiverInv, NotAhead, BoxArrived, Loaded
  <2>. QED  BY <1>f, <2>1, <2>2 DEF ReceiverInv
<1>9. ASSUME NEW s \in Send, NEW d \in Doc, Begin(s, d) PROVE UNCHANGED receiver
  BY <1>9 DEF Begin
<1>10. ASSUME NEW s \in Send, SendStep(s) PROVE UNCHANGED receiver
  BY <1>10 DEF SendStep, FindTaken, StepOver, NoFreeSlot, Ask, SeeAccepted, SeeRejected, GiveUp, Record,
               ShieldTakes, ShieldRefuses, NetworkDecides
<1>11. CASE UNCHANGED vars
  BY <1>1, <1>11 DEF vars, receiver
<1>. QED
  BY <1>1, <1>2, <1>3, <1>6, <1>7, <1>8, <1>9, <1>10, <1>11 DEF Next, ScanStep

\* Below the receiver's counter every slot has a letter, kept unless it cannot be read, and
\* what is kept came from its slot (scanPaystubs, scanHours, readThread).
THEOREM AlwaysReadInOrder == Spec => []ReadInOrder
<1> DEFINE Inv == TypeInv /\ SenderInv /\ ReceiverInv
<1>1. Init => Inv
  BY InitType, InitSender, InitReceiver
<1>2. Inv /\ [Next]_vars => Inv'
  BY NextType, NextSender, NextReceiver
<1>3. Inv => ReadInOrder
  <2>1. TypeInv => \A m \in 0..(nextIn - 1) : m \in Nat /\ m < nextIn
    BY DEF TypeInv, TypeOK
  <2>. QED  BY <2>1 DEF ReceiverInv, PassedRead, KeptArrived, ReadInOrder
<1> HIDE DEF Inv
<1>. QED  BY <1>1, <1>2, <1>3, PTL DEF Spec

-----------------------------------------------------------------------------
(* In orderly use the slots are a log.                                       *)
(*                                                                         *)
(* What may come to one slot is one document.  A send that begins is of the *)
(* document of all that are loose; whatever reaches the slots from its      *)
(* first one on, while it is at work, was loose when it began or is at work *)
(* with it.                                                                 *)

\* Shield was asked for the letter, and it is on chain or may get there.
Live(s) == shield[s] \in {"asked", "taken", "accepted"}

LooseAlike == \A s, t \in Send : Loose(s) /\ Loose(t) => send[s].doc = send[t].doc
StepsUp    == \A s \in Send : send[s] # Nothing => send[s].from <= send[s].slot
BusyAlike  ==
  \A s, t \in Send :
    Busy(s) /\ Live(t) /\ send[t].slot >= send[s].from => send[t].doc = send[s].doc
SlotAlike  ==
  \A s, t \in Send :
    Live(s) /\ Live(t) /\ send[t].slot = send[s].slot => send[t].doc = send[s].doc

DocInv == LooseAlike /\ StepsUp /\ BusyAlike /\ SlotAlike

KeptBelow == \A e \in kept : e[1] < nextIn

\* What a step other than Begin does to the sends: only one at work moves on, or gets
\* Shield to be asked.
GoesOn ==
  /\ next' >= next
  /\ \A t \in Send : send'[t] # Nothing =>
       /\ send[t] # Nothing
       /\ send'[t].doc = send[t].doc /\ send'[t].from = send[t].from
       /\ \/ send'[t].slot = send[t].slot
          \/ Busy(t) /\ shield[t] = "none" /\ shield'[t] = "none" /\ send'[t].slot = send[t].slot + 1
       /\ Busy(t)' => Busy(t)
       /\ Live(t)' => Live(t) \/ Busy(t)

LEMMA StepGoesOn ==
  ASSUME TypeInv, SenderInv, NEW s \in Send, SendStep(s)
  PROVE  GoesOn
<1>0. TypeOK /\ next \in Nat
  BY DEF TypeInv, TypeOK
<1> USE DEF GoesOn, Busy, Live, sender
<1>a. ASSUME NEW f \in Fates, Fate(s, f)
      PROVE  shield'[s] = f /\ \A t \in Send : t # s => shield'[t] = shield[t]
  BY <1>0, <1>a DEF Fate, TypeOK
<1>b. ASSUME NEW st \in Stages, send[s] # Nothing, Becomes(s, st), st # "over" => Busy(s)
      PROVE  \A t \in Send : send'[t] # Nothing =>
               /\ send[t] # Nothing
               /\ send'[t].doc = send[t].doc /\ send'[t].from = send[t].from
               /\ send'[t].slot = send[t].slot
               /\ Busy(t)' => Busy(t)
  BY <1>0, <1>b, Becoming
<1>1. CASE FindTaken(s) \/ NoFreeSlot(s) \/ SeeAccepted(s) \/ SeeRejected(s) \/ GiveUp(s)
  BY <1>0, <1>b, <1>1 DEF FindTaken, NoFreeSlot, SeeAccepted, SeeRejected, GiveUp, At
<1>2. CASE StepOver(s)
  <2>1. shield[s] = "none" /\ shield' = shield /\ Busy(s) /\ next' = next
    BY <1>2 DEF StepOver, SenderInv, LookingFirst, At
  <2>. QED  BY <1>0, <1>2, <2>1, Stepping
<1>3. CASE Ask(s)
  <2>1. Busy(s) /\ next' = next /\ Becomes(s, "asking") /\ Fate(s, "asked")
    BY <1>3 DEF Ask, At
  <2>. QED  BY <1>0, <1>a, <1>b, <2>1
<1>4. CASE Record(s)
  <2>1. /\ send[s] # Nothing /\ Becomes(s, "over") /\ shield' = shield
        /\ next' = Advance(send[s].slot) /\ send[s].slot \in Nat
    BY <1>0, <1>4 DEF Record, At, TypeOK, Sends
  <2>2. next' >= next
    BY <1>0, <2>1 DEF Advance
  <2>. QED  BY <1>b, <2>1, <2>2
<1>5. CASE ShieldTakes(s)
  <2>1. shield[s] = "asked" /\ Fate(s, "taken") /\ next' = next
    BY <1>5 DEF ShieldTakes
  <2>2. CASE At(s, "asking")
    BY <1>0, <1>a, <1>b, <1>5, <2>1, <2>2 DEF ShieldTakes, At
  <2>3. CASE ~At(s, "asking")
    BY <1>0, <1>a, <1>5, <2>1, <2>3 DEF ShieldTakes
  <2>. QED  BY <2>2, <2>3
<1>6. CASE ShieldRefuses(s)
  <2>1. /\ send[s] # Nothing /\ Becomes(s, "over") /\ Fate(s, "lost") /\ next' = next
    BY <1>6 DEF ShieldRefuses, TypeInv, AskedBySend
  <2>. QED  BY <1>0, <1>a, <1>b, <2>1
<1>7. CASE NetworkDecides(s)
  <2>1. shield[s] = "taken" /\ UNCHANGED <<send, next>>
    BY <1>7 DEF NetworkDecides
  <2>2. \A t \in Send : t # s => shield'[t] = shield[t]
    BY <1>7, <1>a DEF NetworkDecides
  <2>. QED  BY <1>0, <2>1, <2>2
<1>. QED  BY <1>1, <1>2, <1>3, <1>4, <1>5, <1>6, <1>7 DEF SendStep

LEMMA GoingOnKeepsDocs ==
  ASSUME TypeInv, TypeInv', DocInv, GoesOn
  PROVE  DocInv'
<1>0. /\ next \in Nat /\ next' \in Nat /\ next' >= next
      /\ \A t \in Send : send[t] # Nothing => send[t].slot \in Nat /\ send[t].from \in Nat
      /\ \A t \in Send : Live(t) => send[t] # Nothing
  BY DEF TypeInv, TypeOK, Sends, AskedBySend, Live, GoesOn
<1>1. ASSUME NEW t \in Send, Loose(t)' PROVE Loose(t) /\ send'[t].doc = send[t].doc
  <2>1. /\ send[t] # Nothing /\ send[t].slot \in Nat
        /\ send'[t].doc = send[t].doc
        /\ Busy(t)' => Busy(t)
        /\ Live(t)' => Live(t) \/ Busy(t)
        /\ send'[t].slot = send[t].slot \/ Busy(t)
    BY <1>0, <1>1 DEF GoesOn, Loose
  <2>. QED  BY <1>0, <1>1, <2>1 DEF Loose, Live
<1>2. LooseAlike'
  BY <1>1 DEF DocInv, LooseAlike
<1>3. StepsUp'
  BY <1>0 DEF DocInv, StepsUp, GoesOn
<1>4. ASSUME NEW t \in Send, Live(t)', send'[t] # Nothing
      PROVE  /\ send'[t].doc = send[t].doc /\ send'[t].slot = send[t].slot
             /\ send[t] # Nothing /\ (Live(t) \/ (Loose(t) /\ Busy(t)))
  <2>1. shield'[t] # "none"
    BY <1>4 DEF Live
  <2>. QED  BY <1>4, <2>1 DEF GoesOn, Loose
<1>5. ASSUME NEW t \in Send, Busy(t)'
      PROVE  /\ send'[t].doc = send[t].doc /\ send'[t].from = send[t].from
             /\ Busy(t) /\ Loose(t)
  BY <1>5 DEF GoesOn, Busy, Loose
<1>6. \A t \in Send : Live(t)' => send'[t] # Nothing
  BY DEF TypeInv, AskedBySend, Live
<1>7. BusyAlike'
  BY <1>4, <1>5, <1>6 DEF DocInv, BusyAlike, LooseAlike
<1>8. SlotAlike'
  BY <1>0, <1>4, <1>6 DEF DocInv, SlotAlike, BusyAlike, LooseAlike, StepsUp
<1>. QED  BY <1>2, <1>3, <1>7, <1>8 DEF DocInv

LEMMA BeginKeepsDocs ==
  ASSUME TypeInv, DocInv, NEW s \in Send, NEW d \in Doc, OrderlyBegin(s, d)
  PROVE  DocInv'
<1>0. /\ TypeOK /\ next \in Nat
      /\ \A t \in Send : send[t] # Nothing => send[t].slot \in Nat /\ send[t].from \in Nat
      /\ \A t \in Send : Live(t) => send[t] # Nothing
  BY DEF TypeInv, TypeOK, Sends, AskedBySend, Live
<1>1. Begin(s, d) /\ shield' = shield /\ next' = next
  BY DEF OrderlyBegin, Begin, sender
<1>2. /\ send[s] = Nothing /\ send'[s] # Nothing /\ send'[s].doc = d
      /\ send'[s].from = next /\ send'[s].slot = next
      /\ \A t \in Send : t # s => send'[t] = send[t]
  BY <1>0, <1>1, Beginning
<1>3. ~Live(s)
  BY <1>0, <1>2
<1>4. \A t \in Send : Live(t)' <=> Live(t)
  BY <1>1 DEF Live
<1>5. ASSUME NEW t \in Send, Loose(t)' PROVE send'[t].doc = d
  <2>1. CASE t = s
    BY <1>2, <2>1
  <2>2. CASE t # s
    <3>1. Loose(t)
      BY <1>1, <1>2, <1>5, <2>2 DEF Loose, Busy
    <3>. QED  BY <1>2, <2>2, <3>1 DEF OrderlyBegin
  <2>. QED  BY <2>1, <2>2
<1>6. LooseAlike'
  BY <1>5 DEF LooseAlike
<1>7. StepsUp'
  <2> SUFFICES ASSUME NEW t \in Send, send'[t] # Nothing PROVE send'[t].from <= send'[t].slot
    BY DEF StepsUp
  <2>. QED  BY <1>0, <1>2 DEF DocInv, StepsUp
<1>8. BusyAlike'
  <2> SUFFICES ASSUME NEW r \in Send, NEW t \in Send, Busy(r)', Live(t), send'[t].slot >= send'[r].from
               PROVE  send'[t].doc = send'[r].doc
    BY <1>4 DEF BusyAlike
  <2>1. t # s /\ send'[t] = send[t] /\ send[t] # Nothing
    BY <1>0, <1>2, <1>3
  <2>2. CASE r = s
    <3>1. Loose(t)
      BY <1>2, <2>1, <2>2 DEF Loose, Live
    <3>. QED  BY <1>2, <2>1, <2>2, <3>1 DEF OrderlyBegin
  <2>3. CASE r # s
    <3>1. send'[r] = send[r] /\ Busy(r)
      BY <1>2, <2>3 DEF Busy
    <3>. QED  BY <2>1, <3>1 DEF DocInv, BusyAlike
  <2>. QED  BY <2>2, <2>3
<1>9. SlotAlike'
  BY <1>2, <1>3, <1>4 DEF DocInv, SlotAlike
<1>. QED  BY <1>6, <1>7, <1>8, <1>9 DEF DocInv

LEMMA InitDocs == Init => DocInv /\ KeptBelow
BY DEF Init, DocInv, LooseAlike, StepsUp, BusyAlike, SlotAlike, Loose, Busy, Live, KeptBelow

LEMMA NextDocs ==
  ASSUME TypeInv, TypeInv', SenderInv, DocInv, [OrderlyNext]_vars
  PROVE  DocInv'
<1>1. ASSUME NEW s \in Send, NEW d \in Doc, OrderlyBegin(s, d) PROVE DocInv'
  BY <1>1, BeginKeepsDocs
<1>2. ASSUME NEW s \in Send, SendStep(s) PROVE DocInv'
  BY <1>2, StepGoesOn, GoingOnKeepsDocs
<1>3. CASE UNCHANGED <<next, send, shield>>
  BY <1>3 DEF DocInv, LooseAlike, StepsUp, BusyAlike, SlotAlike, Loose, Busy, Live
<1>4. ASSUME NEW c \in Scan, ScanStep(c) PROVE UNCHANGED <<next, send, shield>>
  BY <1>4 DEF ScanStep, ScanBegin, ScanLoad, ScanKeep, ScanSkip, ScanEnd, ScanStop, sender
<1>. QED  BY <1>1, <1>2, <1>3, <1>4 DEF OrderlyNext, vars

LEMMA NextKeptBelow ==
  ASSUME TypeInv, ReceiverInv, KeptBelow, [Next]_vars
  PROVE  KeptBelow'
<1>0. /\ nextIn \in Nat /\ kept \subseteq Nat \X Doc
      /\ \A c \in Scan : Loaded(c) => scan[c].at \in Nat /\ scan[c].at <= nextIn /\ scan[c].box \subseteq Send
  BY DEF TypeInv, TypeOK, Scans, Loaded, ReceiverInv, NotAhead
<1>1. ASSUME NEW c \in Scan, ScanKeep(c) PROVE KeptBelow'
  <2>1. PICK s \in Found(c) : kept' = WithKept(scan[c].at, send[s].doc)
    BY <1>1 DEF ScanKeep
  <2>2. kept' \subseteq kept \cup {<<scan[c].at, send[s].doc>>}
    BY <2>1 DEF WithKept
  <2>3. nextIn' = PastIn(scan[c].at) /\ Loaded(c)
    BY <1>1 DEF ScanKeep
  <2>4. nextIn' \in Nat /\ nextIn <= nextIn' /\ scan[c].at < nextIn'
    BY <1>0, <2>3 DEF PastIn
  <2> SUFFICES ASSUME NEW e \in kept' PROVE e[1] < nextIn'
    BY DEF KeptBelow
  <2>5. CASE e \in kept
    <3>1. e[1] \in Nat /\ e[1] < nextIn
      BY <1>0, <2>5 DEF KeptBelow
    <3>. QED  BY <1>0, <2>4, <3>1
  <2>6. CASE e = <<scan[c].at, send[s].doc>>
    BY <2>4, <2>6
  <2>. QED  BY <2>2, <2>5, <2>6
<1>2. ASSUME NEW c \in Scan, ScanSkip(c) PROVE KeptBelow'
  <2>1. nextIn' = PastIn(scan[c].at) /\ Loaded(c) /\ kept' = kept
    BY <1>2 DEF ScanSkip
  <2>2. nextIn' \in Nat /\ nextIn <= nextIn'
    BY <1>0, <2>1 DEF PastIn
  <2>3. \A e \in kept : e[1] \in Nat
    BY <1>0
  <2>. QED  BY <1>0, <2>1, <2>2, <2>3 DEF KeptBelow
<1>3. CASE UNCHANGED <<nextIn, kept>>
  BY <1>3 DEF KeptBelow
<1>4. ASSUME NEW c \in Scan, ScanStep(c), ~ScanKeep(c), ~ScanSkip(c) PROVE UNCHANGED <<nextIn, kept>>
  BY <1>4 DEF ScanStep, ScanBegin, ScanLoad, ScanEnd, ScanStop
<1>5. ASSUME NEW s \in Send, SendStep(s) \/ \E d \in Doc : Begin(s, d) PROVE UNCHANGED <<nextIn, kept>>
  BY <1>5 DEF SendStep, Begin, FindTaken, StepOver, NoFreeSlot, Ask, SeeAccepted, SeeRejected, GiveUp,
              Record, ShieldTakes, ShieldRefuses, NetworkDecides, receiver
<1>. QED  BY <1>1, <1>2, <1>3, <1>4, <1>5 DEF Next, vars

OrderlyInv == TypeInv /\ SenderInv /\ ReceiverInv /\ DocInv /\ KeptBelow

LEMMA OrderlyIsNext == [OrderlyNext]_vars => [Next]_vars
BY DEF OrderlyNext, OrderlyBegin, Next

LEMMA NextOrderly == OrderlyInv /\ [OrderlyNext]_vars => OrderlyInv'
BY OrderlyIsNext, NextType, NextSender, NextReceiver, NextDocs, NextKeptBelow DEF OrderlyInv

\* In orderly use a slot is one document's, and so are all that may still come to it.
THEOREM OrderlySound == OrderlySpec => []OrderlyInv
<1>1. Init => OrderlyInv
  BY InitType, InitSender, InitReceiver, InitDocs DEF OrderlyInv
<1>. QED  BY <1>1, NextOrderly, PTL DEF OrderlySpec

-----------------------------------------------------------------------------
(* The log: as many slots as are in use, each with its document.             *)

Log == [i \in 1..Cardinality(Slots) |-> DocAt(i - 1)]

\* They are the first so many.
SlotsFollow ==
  /\ Cardinality(Slots) \in Nat /\ IsFiniteSet(Slots)
  /\ Slots = 0..(Cardinality(Slots) - 1)
  /\ \A n : n \in Slots <=> n \in Nat /\ LettersAt(n) # {}

OneDocument ==
  \A n \in Nat : LettersAt(n) # {} => DocAt(n) \in Doc /\ DocsAt(n) = {DocAt(n)}

LEMMA SlotsInUse ==
  ASSUME TypeInv, SenderInv
  PROVE  SlotsFollow
<1> USE DEF SlotsFollow
<1> DEFINE S == {t \in Send : OnChain(t)}
           f == [s \in S |-> send[s].slot]
           k == Cardinality(Slots)
<1>0. \A s \in S : send[s] # Nothing /\ send[s].slot \in Nat
  BY DEF TypeInv, TypeOK, AskedBySend, OnChain, Sends
<1>1. \A n : n \in Slots <=> n \in Nat /\ LettersAt(n) # {}
  BY <1>0 DEF Slots, LettersAt
<1>2. IsFiniteSet(S)
  <2>1. IsFiniteSet(Send)
    BY PressesAssumption, FS_Interval DEF Send
  <2>. QED  BY <2>1, FS_Subset
<1>3. f \in Surjection(S, Slots)
  BY DEF Surjection, Slots
<1>4. IsFiniteSet(Slots) /\ k \in Nat
  BY <1>2, <1>3, FS_Surjection, FS_CardinalityType
<1>5. ASSUME NEW n \in Slots PROVE n \in 0..(k - 1)
  <2>1. n \in Nat
    BY <1>1
  <2>2. \A m \in 0..n : m \in Slots
    <3>1. PICK s \in Send : OnChain(s) /\ send[s].slot = n
      BY DEF Slots
    <3>2. \A m \in 0..n : LettersAt(m) # {}
      BY <3>1, SenderNoGap DEF NoGap
    <3>. QED  BY <1>1, <2>1, <3>2
  <2>3. Cardinality(0..n) = n + 1
    BY <2>1, FS_Interval
  <2>4. Cardinality(0..n) <= k
    BY <1>4, <2>2, FS_Subset
  <2>. QED  BY <1>4, <2>1, <2>3, <2>4
<1>6. IsFiniteSet(0..(k - 1)) /\ Cardinality(0..(k - 1)) = k
  <2>1. k - 1 \in Int
    BY <1>4
  <2>2. IsFiniteSet(0..(k - 1)) /\ Cardinality(0..(k - 1)) = IF 0 > k - 1 THEN 0 ELSE (k - 1) - 0 + 1
    BY <2>1, FS_Interval
  <2>. QED  BY <1>4, <2>2
<1>7. Slots = 0..(k - 1)
  <2>1. Slots \in SUBSET (0..(k - 1))
    BY <1>5
  <2>. QED  BY <1>6, <2>1, FS_Subset
<1>. QED  BY <1>1, <1>4, <1>7

LEMMA SlotsHaveOne ==
  ASSUME TypeInv, DocInv
  PROVE  OneDocument
<1> SUFFICES ASSUME NEW n \in Nat, LettersAt(n) # {}
             PROVE  DocAt(n) \in Doc /\ DocsAt(n) = {DocAt(n)}
  BY DEF OneDocument
<1>1. PICK s \in LettersAt(n) : TRUE
  OBVIOUS
<1>2. send[s].doc \in Doc /\ send[s].doc \in DocsAt(n)
  BY DEF LettersAt, DocsAt, OnChain, TypeInv, TypeOK, AskedBySend, Sends
<1>3. \A t \in LettersAt(n) : send[t].doc = send[s].doc
  BY DEF LettersAt, OnChain, DocInv, SlotAlike, Live
<1>4. DocsAt(n) = {send[s].doc}
  BY <1>3 DEF DocsAt
<1>. QED  BY <1>2, <1>4 DEF DocAt

LEMMA OrderlySlots == OrderlyInv => SlotsFollow /\ OneDocument
BY SlotsInUse, SlotsHaveOne DEF OrderlyInv

\* What is in the log stays as it is.
LEMMA LogStays ==
  ASSUME OrderlyInv, OrderlyInv', [Next]_vars
  PROVE  \A n \in Slots : n \in Slots' /\ DocAt(n)' = DocAt(n)
<1> SUFFICES ASSUME NEW n \in Slots PROVE n \in Slots' /\ DocAt(n)' = DocAt(n)
  OBVIOUS
<1>0. SlotsFollow /\ OneDocument /\ SlotsFollow' /\ OneDocument'
  BY OrderlySlots, PTL
<1>1. n \in Nat /\ LettersAt(n) # {}
  BY <1>0 DEF SlotsFollow
<1>2. LettersAt(n) \subseteq LettersAt(n)' /\ DocsAt(n) \subseteq DocsAt(n)'
  BY <1>1, StepKeeps, SlotsGrow DEF OrderlyInv, SenderInv
<1>3. DocsAt(n) = {DocAt(n)} /\ DocsAt(n)' = {DocAt(n)'}
  BY <1>0, <1>1, <1>2 DEF OneDocument
<1>4. n \in Slots'
  BY <1>0, <1>1, <1>2 DEF SlotsFollow
<1>. QED  BY <1>2, <1>3, <1>4

\* Unless the chain takes a letter, there is nothing new in it.
LEMMA LogUnchanged ==
  ASSUME OrderlyInv, OrderlyInv', [Next]_vars, \A s \in Send : OnChain(s)' => OnChain(s)
  PROVE  Log' = Log
<1>1. \A s \in Send : OnChain(s) => OnChain(s)' /\ send'[s].slot = send[s].slot
  BY StepKeeps DEF OrderlyInv, SenderInv, SendsKept, LettersKept, TypeInv, AskedBySend, OnChain
<1>2. Slots' = Slots
  BY <1>1 DEF Slots
<1>3. \A i \in 1..Cardinality(Slots) : i - 1 \in Slots
  BY OrderlySlots DEF SlotsFollow
<1>. QED  BY <1>2, <1>3, LogStays DEF Log

\* Acceptance of a letter appends its document, or finds it in its slot already.
LEMMA AcceptanceIsWrite ==
  ASSUME OrderlyInv, OrderlyInv', [Next]_vars, NEW s \in Send, NetworkDecides(s)
  PROVE  Log' = Log \/ Log' = Append(Log, send[s].doc)
<1> DEFINE k == Cardinality(Slots)
           n == send[s].slot
<1>0. SlotsFollow /\ OneDocument /\ SlotsFollow' /\ OneDocument'
  BY OrderlySlots, PTL
<1>1. /\ send' = send /\ shield[s] = "taken"
      /\ send[s] # Nothing /\ n \in Nat /\ send[s].doc \in Doc
      /\ \A t \in Send : t # s => shield'[t] = shield[t]
  BY DEF NetworkDecides, Fate, OrderlyInv, TypeInv, TypeOK, AskedBySend, Sends
<1>2. CASE ~OnChain(s)'
  <2>1. \A t \in Send : OnChain(t)' => OnChain(t)
    BY <1>1, <1>2 DEF OnChain
  <2>. QED  BY <2>1, LogUnchanged
<1>3. CASE OnChain(s)'
  <2>1. \A t \in Send : OnChain(t)' <=> t = s \/ OnChain(t)
    BY <1>1, <1>3 DEF OnChain
  <2>2. Slots' = Slots \cup {n}
    BY <1>1, <2>1 DEF Slots
  <2>3. \A m \in Slots : DocAt(m)' = DocAt(m)
    BY LogStays
  <2>4. \A i \in 1..k : i - 1 \in Slots
    BY <1>0 DEF SlotsFollow
  <2>5. CASE n \in Slots
    <3>1. Slots' = Slots
      BY <2>2, <2>5
    <3>. QED  BY <2>3, <2>4, <3>1 DEF Log
  <2>6. CASE n \notin Slots
    <3>1. Cardinality(Slots') = k + 1
      BY <1>0, <2>2, <2>6, FS_AddElement DEF SlotsFollow
    <3>2. k \in Nat /\ n \notin 0..(k - 1)
      BY <1>0, <2>6 DEF SlotsFollow
    <3>3. n = k
      <4>1. Slots' = 0..((k + 1) - 1)
        BY <1>0, <3>1 DEF SlotsFollow
      <4>2. n \in 0..((k + 1) - 1)
        BY <2>2, <4>1
      <4>. QED  BY <1>1, <3>2, <4>2
    <3>4. ASSUME NEW m \in Nat, m = n PROVE DocAt(m)' = send[s].doc
      <4>1. s \in LettersAt(m)'
        BY <1>1, <1>3, <3>4 DEF LettersAt
      <4>2. send[s].doc \in DocsAt(m)'
        BY <1>1, <4>1 DEF DocsAt
      <4>3. DocsAt(m)' = {DocAt(m)'}
        BY <1>0, <4>1 DEF OneDocument
      <4>. QED  BY <4>2, <4>3
    <3>5. Log' = [i \in 1..(k + 1) |-> DocAt(i - 1)']
      BY <3>1 DEF Log
    <3>6. \A m \in Slots : DocAt(m) \in Doc
      BY <1>0 DEF SlotsFollow, OneDocument
    <3>7. Log \in Seq(Doc) /\ Len(Log) = k
      <4>1. Log \in [1..k -> Doc]
        BY <2>4, <3>6 DEF Log
      <4>. QED  BY <3>2, <4>1
    <3>8. Append(Log, send[s].doc) = [i \in 1..(k + 1) |-> IF i = k + 1 THEN send[s].doc ELSE Log[i]]
      BY <1>1, <3>7
    <3>9. \A i \in 1..(k + 1) : DocAt(i - 1)' = IF i = k + 1 THEN send[s].doc ELSE Log[i]
      <4> SUFFICES ASSUME NEW i \in 1..(k + 1)
                   PROVE  DocAt(i - 1)' = IF i = k + 1 THEN send[s].doc ELSE Log[i]
        OBVIOUS
      <4>1. CASE i = k + 1
        <5>1. i - 1 = n /\ i - 1 \in Nat
          BY <3>2, <3>3, <4>1
        <5>. QED  BY <3>4, <4>1, <5>1
      <4>2. CASE i # k + 1
        <5>1. i \in 1..k
          BY <3>2, <4>2
        <5>. QED  BY <2>3, <2>4, <4>2, <5>1 DEF Log
      <4>. QED  BY <4>1, <4>2
    <3>. QED  BY <3>5, <3>8, <3>9
  <2>. QED  BY <2>5, <2>6
<1>. QED  BY <1>2, <1>3

\* What is written into the sender's books is in the log.
LEMMA RecordIsConfirm ==
  ASSUME OrderlyInv, OrderlyInv', NEW s \in Send, Record(s)
  PROVE  \E d \in Doc : AsLog!Confirm(d)
<1> DEFINE n == send[s].slot
           d == send[s].doc
<1>0. SlotsFollow /\ OneDocument
  BY OrderlySlots
<1>1. /\ At(s, "sent") /\ record' = [record EXCEPT ![d] = n]
      /\ UNCHANGED <<kind, shield, receiver>>
      /\ n \in Nat /\ d \in Doc
  BY DEF Record, At, OrderlyInv, TypeInv, TypeOK, Sends
<1>2. LettersAt(n) # {}
  BY <1>1 DEF OrderlyInv, SenderInv, SentFilled
<1>3. d \in DocsAt(n)
  <2>1. PICK t \in LettersAt(n) : TRUE
    BY <1>2
  <2>2. Busy(s) /\ Live(t) /\ send[t].slot >= send[s].from /\ t \in Send
    BY <1>1, <2>1 DEF Busy, At, Live, LettersAt, OnChain, OrderlyInv, DocInv, StepsUp
  <2>3. send[t].doc = d
    BY <2>2 DEF OrderlyInv, DocInv, BusyAlike
  <2>. QED  BY <2>1, <2>3 DEF DocsAt
<1>4. DocAt(n) = d
  BY <1>0, <1>1, <1>2, <1>3 DEF OneDocument
<1>5. n \in Slots
  BY <1>0, <1>1, <1>2 DEF SlotsFollow
<1>6. n + 1 \in 1..Cardinality(Slots) /\ (n + 1) - 1 = n
  BY <1>0, <1>1, <1>5 DEF SlotsFollow
<1>7. Len(Log) = Cardinality(Slots) /\ Log[n + 1] = d
  <2>1. Log[n + 1] = d
    BY <1>4, <1>6 DEF Log
  <2>2. Len(Log) = Cardinality(Slots)
    BY <1>0 DEF Log, SlotsFollow
  <2>. QED  BY <2>1, <2>2
<1>8. Log' = Log
  <2>1. [Next]_vars
    BY DEF Next, SendStep
  <2>2. \A t \in Send : OnChain(t)' => OnChain(t)
    BY <1>1 DEF OnChain
  <2>. QED  BY <2>1, <2>2, LogUnchanged
<1>. QED
  BY <1>1, <1>6, <1>7, <1>8 DEF AsLog!Confirm, Log, receiver
\* The letter a check takes up is the entry of the log its slot names.
LEMMA LetterIsEntry ==
  ASSUME OrderlyInv, NEW c \in Scan, Loaded(c), NEW s \in Found(c)
  PROVE  LET n == scan[c].at IN
         /\ n \in Nat /\ n <= nextIn /\ nextIn \in Nat
         /\ DocsAt(n) = {send[s].doc}
         /\ n < Len(Log) /\ Log[n + 1] = send[s].doc
<1> DEFINE n == scan[c].at
<1>0. SlotsFollow /\ OneDocument
  BY OrderlySlots
<1>1. n \in Nat /\ n <= nextIn /\ nextIn \in Nat /\ s \in Send /\ OnChain(s) /\ send[s].slot = n
  BY DEF Loaded, Found, OrderlyInv, TypeInv, TypeOK, Scans, ReceiverInv, NotAhead, BoxArrived
<1>2. s \in LettersAt(n) /\ send[s].doc \in DocsAt(n)
  BY <1>1 DEF LettersAt, DocsAt
<1>3. DocsAt(n) = {DocAt(n)} /\ DocAt(n) = send[s].doc
  BY <1>0, <1>1, <1>2 DEF OneDocument
<1>4. n + 1 \in 1..Cardinality(Slots) /\ (n + 1) - 1 = n
  BY <1>0, <1>1, <1>2 DEF SlotsFollow
<1>5. Len(Log) = Cardinality(Slots)
  BY <1>0 DEF Log, SlotsFollow
<1>6. Log[n + 1] = DocAt(n)
  BY <1>4 DEF Log
<1>. QED  BY <1>1, <1>3, <1>4, <1>5, <1>6

\* A letter taken up is the next entry read, unless another check has read it before.
LEMMA TakingUpIsRead ==
  ASSUME OrderlyInv, OrderlyInv', NEW c \in Scan, ScanKeep(c) \/ ScanSkip(c)
  PROVE  AsLog!Read \/ UNCHANGED <<Log, record, nextIn, kept>>
<1> DEFINE n == scan[c].at
<1>1. Log' = Log /\ record' = record
  <2>1. [Next]_vars
    BY DEF Next, ScanStep
  <2>2. UNCHANGED <<send, shield, record>>
    BY DEF ScanKeep, ScanSkip, sender
  <2>3. \A t \in Send : OnChain(t)' => OnChain(t)
    BY <2>2 DEF OnChain
  <2>. QED  BY <2>1, <2>2, <2>3, LogUnchanged
<1>2. nextIn' = PastIn(n) /\ Loaded(c)
  BY DEF ScanKeep, ScanSkip
<1>3. PICK s \in Found(c) :
        \/ send[s].doc \in Readable /\ kept' = WithKept(n, send[s].doc)
        \/ send[s].doc \notin Readable /\ kept' = kept
  BY DEF ScanKeep, ScanSkip
<1> DEFINE d == send[s].doc
<1>4. /\ n \in Nat /\ n <= nextIn /\ nextIn \in Nat
      /\ DocsAt(n) = {d} /\ n < Len(Log) /\ Log[n + 1] = d
  BY <1>2, LetterIsEntry
<1>5. kept \subseteq Nat \X Doc /\ \A e \in kept : e[1] < nextIn /\ e[2] \in DocsAt(e[1])
  BY DEF OrderlyInv, TypeInv, TypeOK, KeptBelow, ReceiverInv, KeptArrived
<1>6. CASE n = nextIn
  <2>1. nextIn' = nextIn + 1
    BY <1>2, <1>4, <1>6 DEF PastIn
  <2>2. \A e \in kept : e[1] # n
    BY <1>4, <1>5, <1>6
  <2>3. kept' = kept \cup {e \in {<<nextIn, Log[nextIn + 1]>>} : e[2] \in Readable}
    <3>1. CASE d \in Readable
      <4>1. kept' = kept \cup {<<n, d>>}
        BY <1>3, <2>2, <3>1 DEF WithKept
      <4>. QED  BY <1>4, <1>6, <3>1, <4>1
    <3>2. CASE d \notin Readable
      BY <1>3, <1>4, <1>6, <3>2
    <3>. QED  BY <3>1, <3>2
  <2>4. nextIn < Len(Log)
    BY <1>4, <1>6
  <2>. QED  BY <1>1, <2>1, <2>3, <2>4 DEF AsLog!Read, Log
<1>7. CASE n # nextIn
  <2>1. nextIn' = nextIn /\ n < nextIn
    BY <1>2, <1>4, <1>7 DEF PastIn
  <2>2. CASE d \in Readable
    <3>1. \A e \in kept : e[1] = n => e = <<n, d>>
      BY <1>4, <1>5
    <3>2. DocsAt(n) \ Readable = {}
      BY <1>4, <2>2
    <3>3. \E e \in kept : e[1] = n
      BY <1>4, <2>1, <3>2 DEF OrderlyInv, ReceiverInv, PassedRead
    <3>4. <<n, d>> \in kept
      BY <3>1, <3>3
    <3>5. kept' = WithKept(n, d)
      BY <1>3, <2>2
    <3>6. kept' = kept
      BY <3>1, <3>4, <3>5 DEF WithKept
    <3>. QED  BY <1>1, <2>1, <3>6
  <2>3. CASE d \notin Readable
    BY <1>1, <1>3, <2>1, <2>3
  <2>. QED  BY <2>2, <2>3
<1>. QED  BY <1>6, <1>7

\* Every other step leaves the log, the record and the reader as they are.
LEMMA OtherStepsKeepLog ==
  ASSUME OrderlyInv, OrderlyInv', [OrderlyNext]_vars,
         \A s \in Send : ~NetworkDecides(s) /\ ~Record(s),
         \A c \in Scan : ~ScanKeep(c) /\ ~ScanSkip(c)
  PROVE  UNCHANGED <<Log, record, nextIn, kept>>
<1>1. /\ UNCHANGED <<record, nextIn, kept>>
      /\ \A t \in Send : OnChain(t)' => OnChain(t)
  <2> USE DEF OnChain
  <2>0. shield \in [Send -> Fates]
    BY DEF OrderlyInv, TypeInv, TypeOK
  <2>1. ASSUME NEW s \in Send, NEW d \in Doc, OrderlyBegin(s, d) PROVE <1>1!:
    BY <2>1 DEF OrderlyBegin, Begin, sender, receiver
  <2>2. ASSUME NEW s \in Send, Ask(s) \/ ShieldTakes(s) \/ ShieldRefuses(s) PROVE <1>1!:
    BY <2>0, <2>2 DEF Ask, ShieldTakes, ShieldRefuses, Fate, sender, receiver
  <2>3. ASSUME NEW s \in Send,
               FindTaken(s) \/ StepOver(s) \/ NoFreeSlot(s) \/ SeeAccepted(s) \/ SeeRejected(s) \/ GiveUp(s)
        PROVE  <1>1!:
    BY <2>3 DEF FindTaken, StepOver, NoFreeSlot, SeeAccepted, SeeRejected, GiveUp, sender, receiver
  <2>4. ASSUME NEW c \in Scan, ScanStep(c) PROVE <1>1!:
    BY <2>4 DEF ScanStep, ScanBegin, ScanLoad, ScanEnd, ScanStop, sender
  <2>5. CASE UNCHANGED vars
    BY <2>5 DEF vars
  <2>. QED  BY <2>1, <2>2, <2>3, <2>4, <2>5 DEF OrderlyNext, SendStep
<1>2. [Next]_vars
  BY OrderlyIsNext
<1>. QED  BY <1>1, <1>2, LogUnchanged

\* At the start the log is empty.
LEMMA InitIsEmptyLog == Init => AsLog!Init
<1> SUFFICES ASSUME Init PROVE AsLog!Init
  OBVIOUS
<1>1. Slots = {}
  BY DEF Init, Slots, OnChain
<1>2. Cardinality(Slots) = 0
  BY <1>1, FS_EmptySet
<1>3. Log = <<>>
  BY <1>2 DEF Log
<1>. QED  BY <1>3 DEF Init, AsLog!Init, Log

\* In orderly use the letters are a log between the two ends: each slot is one document's,
\* written at the end, confirmed in the sender's books only once it is there, and taken up
\* by the reader once and in order, whatever is lost, broken off or tried again.
THEOREM OrderlyImplementsLog == OrderlySpec => LogSpec
<1>1. ASSUME OrderlyInv, OrderlyInv', [OrderlyNext]_vars
      PROVE  [AsLog!Next]_<<Log, record, nextIn, kept>>
  <2>0. [Next]_vars
    BY <1>1, OrderlyIsNext
  <2>1. ASSUME NEW s \in Send, NetworkDecides(s)
        PROVE  AsLog!Next \/ UNCHANGED <<Log, record, nextIn, kept>>
    <3>1. Log' = Log \/ Log' = Append(Log, send[s].doc)
      BY <1>1, <2>0, <2>1, AcceptanceIsWrite
    <3>2. UNCHANGED <<record, nextIn, kept>>
      BY <2>1 DEF NetworkDecides, sender, receiver
    <3>3. send[s].doc \in Doc
      BY <1>1, <2>1 DEF OrderlyInv, TypeInv, TypeOK, AskedBySend, Sends, NetworkDecides
    <3>4. Log' = Append(Log, send[s].doc) => AsLog!Write(send[s].doc)
      BY <3>2 DEF AsLog!Write, Log
    <3>. QED  BY <3>1, <3>2, <3>3, <3>4 DEF AsLog!Next
  <2>2. ASSUME NEW s \in Send, Record(s)
        PROVE  AsLog!Next
    BY <1>1, <2>2, RecordIsConfirm DEF AsLog!Next
  <2>3. ASSUME NEW c \in Scan, ScanKeep(c) \/ ScanSkip(c)
        PROVE  AsLog!Next \/ UNCHANGED <<Log, record, nextIn, kept>>
    BY <1>1, <2>3, TakingUpIsRead DEF AsLog!Next
  <2>. QED  BY <1>1, <2>1, <2>2, <2>3, OtherStepsKeepLog
<1>. QED  BY <1>1, InitIsEmptyLog, OrderlySound, PTL DEF OrderlySpec, LogSpec, AsLog!Spec, Log
=============================================================================
