--------------------------- MODULE PayQueueProofs ---------------------------
(***************************************************************************)
(* Proofs, for any set of workers and any set of queues, of what PayQueue  *)
(* keeps under every mishap (BooksSound) and of what an attended run keeps *)
(* besides (AttendedInv).                                                  *)
(***************************************************************************)
EXTENDS PayQueueInv, SequenceTheorems, TLAPS

\* What an element of a queue of updates is once the first one has been taken off.
LEMMA TailElements ==
  ASSUME NEW S, NEW s \in Seq(S), s # <<>>
  PROVE  /\ Tail(s) \in Seq(S)
         /\ Len(s) \in Nat /\ Len(s) >= 1
         /\ Len(Tail(s)) = Len(s) - 1
         /\ Tail(s) = <<>> <=> Len(s) = 1
         /\ \A i \in DOMAIN Tail(s) : i + 1 \in DOMAIN s /\ Tail(s)[i] = s[i + 1]
  <1>1. Tail(s) \in Seq(S) /\ Len(Tail(s)) = Len(s) - 1 /\ Len(s) \in Nat
    BY HeadTailProperties
  <1>2. Len(s) # 0
    BY EmptySeq
  <1>3. Tail(s) = <<>> <=> Len(s) = 1
    <2>1. \A r \in Seq(S) : r = <<>> <=> Len(r) = 0
      BY EmptySeq
    <2>2. Tail(s) = <<>> <=> Len(Tail(s)) = 0
      BY <1>1, <2>1, Zenon
    <2>3. QED
      BY <1>1, <2>2
  <1>4. \A i \in DOMAIN Tail(s) : i + 1 \in DOMAIN s /\ Tail(s)[i] = s[i + 1]
    <2>1. DOMAIN s = 1 .. Len(s) /\ DOMAIN Tail(s) = 1 .. Len(s) - 1
      BY <1>1, LenProperties
    <2>2. \A i \in 1 .. Len(s) - 1 : Tail(s)[i] = s[i + 1]
      BY <1>1, HeadTailProperties
    <2>3. QED
      BY <1>1, <2>1, <2>2
  <1>5. QED
    BY <1>1, <1>2, <1>3, <1>4

\* What an element of a queue of updates is once one more has joined it.
LEMMA AppendElements ==
  ASSUME NEW S, NEW s \in Seq(S), NEW e \in S
  PROVE  /\ Append(s, e) \in Seq(S)
         /\ Len(Append(s, e)) = Len(s) + 1
         /\ Append(s, e) # <<>>
         /\ Append(s, e)[Len(s) + 1] = e
         /\ \A i \in DOMAIN s : Append(s, e)[i] = s[i]
         /\ DOMAIN Append(s, e) = 1 .. Len(s) + 1
         /\ DOMAIN s = 1 .. Len(s)
  OBVIOUS

\* The head of a queue of updates is its first element.
LEMMA HeadElement ==
  ASSUME NEW S, NEW s \in Seq(S), s # <<>>
  PROVE  Head(s) = s[1] /\ 1 \in DOMAIN s /\ Head(s) \in S
  OBVIOUS

\* An outcome joins its worker's queue and leaves every other queue alone.
LEMMA EmitAppends ==
  ASSUME TypeOK, NEW w \in Worker, NEW s \in Settlement, Emit(w, s)
  PROVE  /\ writes' \in [Worker -> Seq(Settlement)]
         /\ writes'[w] = Append(writes[w], s)
         /\ \A v \in Worker : v # w => writes'[v] = writes[v]
         /\ \A v \in Worker : \A i \in DOMAIN writes'[v] :
              \/ i \in DOMAIN writes[v] /\ writes'[v][i] = writes[v][i]
              \/ v = w /\ writes'[v][i] = s
  <1>1. writes[w] \in Seq(Settlement)
    BY DEF TypeOK
  <1>2. writes' = [writes EXCEPT ![w] = Append(writes[w], s)]
    BY DEF Emit
  <1>3. Append(writes[w], s) \in Seq(Settlement)
    BY <1>1
  <1>4. \A v \in Worker : v # w => writes'[v] = writes[v]
    BY <1>2 DEF TypeOK
  <1>5. writes'[w] = Append(writes[w], s)
    BY <1>2 DEF TypeOK
  <1>6. writes' \in [Worker -> Seq(Settlement)]
    BY <1>2, <1>3 DEF TypeOK
  <1>7. ASSUME NEW i \in DOMAIN writes'[w], i \notin DOMAIN writes[w]
        PROVE  writes'[w][i] = s
    BY <1>1, <1>5, <1>7, AppendElements
  <1>8. ASSUME NEW i \in DOMAIN writes[w]
        PROVE  writes'[w][i] = writes[w][i]
    BY <1>1, <1>5, AppendElements
  <1>9. QED
    BY <1>4, <1>5, <1>6, <1>7, <1>8

\* The initial books, empty queues and untouched transfers are sound.
LEMMA InitBooksSound == Init => BooksSound
  <1> SUFFICES ASSUME Init PROVE BooksSound
    OBVIOUS
  <1>1. TypeOK
    BY DEF Init, TypeOK, Unsent, Settlement, Transfer, Stages, Fates
  <1>2. WatchesOwnWorker /\ AsksOnce
    BY DEF Init, WatchesOwnWorker, AsksOnce, Transfer
  <1>3. \A w \in Worker : Sound(w, books[w])
    BY DEF Init, Sound, Unsent
  <1>4. \A w \in Worker : \A i \in DOMAIN writes[w] : FALSE
    BY DEF Init
  <1>5. QED
    BY <1>1, <1>2, <1>3, <1>4 DEF BooksSound

\* A step of a queue that emits a sound outcome for its worker keeps BooksSound,
\* whatever final stage it leaves the worker in.
LEMMA EmitKeepsBooksSound ==
  ASSUME BooksSound, NEW q \in Queue, NEW w \in Worker,
         NEW s \in Settlement, Sound(w, s),
         NEW st \in {"watching", "done"},
         NEW ref \in (Queue \X {w}) \cup {NoTransfer},
         st = "watching" => ref # NoTransfer,
         Goto(q, w, st), Emit(w, s),
         watch' = [watch EXCEPT ![<<q, w>>] = ref],
         UNCHANGED <<books, unlocked, panel, phase, chain>>
  PROVE  BooksSound'
  <1>1. <<q, w>> \in Transfer
    BY DEF Transfer
  <1>2. /\ writes' \in [Worker -> Seq(Settlement)]
        /\ \A v \in Worker : \A i \in DOMAIN writes'[v] :
              \/ i \in DOMAIN writes[v] /\ writes'[v][i] = writes[v][i]
              \/ v = w /\ writes'[v][i] = s
    BY EmitAppends DEF BooksSound
  <1>3. TypeOK'
    BY <1>1, <1>2 DEF BooksSound, TypeOK, Goto, Stages, Transfer
  <1>4. WatchesOwnWorker'
    BY <1>1 DEF BooksSound, WatchesOwnWorker, TypeOK, Goto, Transfer
  <1>5. AsksOnce'
    BY <1>1 DEF BooksSound, AsksOnce, TypeOK, Goto, Transfer
  <1>6. \A v \in Worker : Sound(v, books[v])'
    BY DEF BooksSound, Sound
  <1>7. \A v \in Worker : \A i \in DOMAIN writes'[v] : Sound(v, writes[v][i])'
    BY SMTT(20), <1>2 DEF BooksSound, Sound
  <1>8. QED
    BY <1>3, <1>4, <1>5, <1>6, <1>7 DEF BooksSound

\* Every step, mishaps included, is one of these.
LEMMA NextCases ==
  ASSUME [Next]_vars
  PROVE  \/ \E q \in Queue : Start(q) \/ PlanFails(q) \/ PlanMade(q) \/ Finish(q)
         \/ \E q \in Queue, w \in Worker :
              \/ Resume(q, w) \/ SendBroken(q, w) \/ AskWallet(q, w)
              \/ ReferenceReturned(q, w) \/ RefusalReturned(q, w)
              \/ SeeAccepted(q, w) \/ SeeRejected(q, w) \/ NoAnswerInTime(q, w)
              \/ AcceptedWithoutId(q, w) \/ Settle(q, w) \/ ExplorerFails(q, w)
         \/ \E w \in Worker : ApplyWrite(w) \/ WriteFails(w)
         \/ Environment
         \/ Reload \/ Lock \/ Unlock \/ Leave
         \/ UNCHANGED vars
  BY DEF Next, AttendedNext, QueueStep, Unattended, GivesUp, LosesUpdate,
         SafeReload, SafeLock

\* The environment only ever moves a transfer on from "asked" or "taken".
LEMMA EnvironmentMoves ==
  ASSUME TypeOK, Environment
  PROVE  /\ UNCHANGED <<books, writes, unlocked, panel, phase, stage, watch>>
         /\ \E t \in Transfer, fate \in {"refused", "taken", "rejected", "accepted"} :
              /\ chain[t] \in {"asked", "taken"}
              /\ fate \in {"refused", "taken"} => chain[t] = "asked"
              /\ chain' = [chain EXCEPT ![t] = fate]
  BY DEF Environment, WalletTakes, WalletRefuses, NetworkAccepts, NetworkRejects, Becomes

\* BooksSound is inductive.
LEMMA StepBooksSound ==
  ASSUME BooksSound, [Next]_vars
  PROVE  BooksSound'
  <1> USE DEF BooksSound
  <1> DEFINE Pairs == \A q \in Queue, w \in Worker : <<q, w>> \in Transfer
  <1>0. Pairs /\ \A t \in Transfer : t[1] \in Queue /\ t[2] \in Worker /\ t = <<t[1], t[2]>>
    BY DEF Transfer
  <1>1. ASSUME NEW q \in Queue, Start(q)
        PROVE  BooksSound'
    <2>1. TypeOK'
      BY <1>0, <1>1 DEF Start, TypeOK, InFlight, Settlement, Stages
    <2>2. WatchesOwnWorker'
      BY <1>0, <1>1 DEF Start, WatchesOwnWorker, InFlight, Sound, TypeOK, Transfer
    <2>3. AsksOnce'
      BY <1>0, <1>1 DEF Start, AsksOnce, TypeOK
    <2>4. QED
      BY <1>1, <2>1, <2>2, <2>3 DEF Start, Sound
  <1>2. ASSUME NEW q \in Queue, PlanFails(q) \/ PlanMade(q) \/ Finish(q)
        PROVE  BooksSound'
    <2>a. stage' \in [Transfer -> Stages]
      BY <1>2 DEF PlanFails, PlanMade, Finish, TypeOK, Stages
    <2>b. /\ phase' \in [Queue -> {"unused", "planning", "running", "over"}]
          /\ panel' \in Queue \cup {NoQueue}
      BY <1>2 DEF PlanFails, PlanMade, Finish, TypeOK
    <2>c. UNCHANGED <<books, writes, unlocked, watch, chain>>
      BY <1>2 DEF PlanFails, PlanMade, Finish
    <2>1. TypeOK'
      BY <2>a, <2>b, <2>c DEF TypeOK
    <2>d. \A t \in Transfer : stage'[t] = stage[t] \/ stage'[t] = "none"
      BY <1>2 DEF PlanFails, PlanMade, Finish, TypeOK
    <2>2. WatchesOwnWorker'
      BY <1>0, <2>c, <2>d DEF WatchesOwnWorker
    <2>3. AsksOnce'
      BY <1>0, <1>2 DEF PlanFails, PlanMade, Finish, AsksOnce, TypeOK
    <2>4. QED
      BY <1>2, <2>1, <2>2, <2>3 DEF PlanFails, PlanMade, Finish, Sound
  <1>3. ASSUME NEW q \in Queue, NEW w \in Worker, Resume(q, w)
        PROVE  BooksSound'
    <2>1. watch[<<q, w>>] \in Queue \X {w}
      BY <1>3 DEF Resume, WatchesOwnWorker
    <2>2. Sound(w, Sent(watch[<<q, w>>])) /\ Sent(watch[<<q, w>>]) \in Settlement
      BY <2>1 DEF Sound, Sent, Settlement, Transfer
    <2>3. watch' = [watch EXCEPT ![<<q, w>>] = watch[<<q, w>>]]
      BY <1>3, <1>0 DEF Resume, TypeOK
    <2>4. QED
      BY <1>3, <2>1, <2>2, <2>3, EmitKeepsBooksSound DEF Resume
  <1>4. ASSUME NEW q \in Queue, NEW w \in Worker,
               \/ SendBroken(q, w) \/ RefusalReturned(q, w) \/ SeeRejected(q, w)
               \/ NoAnswerInTime(q, w) \/ AcceptedWithoutId(q, w) \/ ExplorerFails(q, w)
        PROVE  BooksSound'
    <2>1. Sound(w, Failed) /\ Failed \in Settlement
      BY DEF Sound, Failed, Settlement
    <2>2. watch' = [watch EXCEPT ![<<q, w>>] = watch[<<q, w>>]]
      BY <1>4, <1>0 DEF SendBroken, RefusalReturned, SeeRejected, NoAnswerInTime,
                        AcceptedWithoutId, ExplorerFails, TypeOK
    <2>3. watch[<<q, w>>] \in (Queue \X {w}) \cup {NoTransfer}
      BY DEF WatchesOwnWorker
    <2>4. /\ Goto(q, w, "done") /\ Emit(w, Failed)
          /\ UNCHANGED <<books, unlocked, panel, phase, chain>>
      BY <1>4 DEF SendBroken, RefusalReturned, SeeRejected, NoAnswerInTime,
                  AcceptedWithoutId, ExplorerFails
    <2>5. QED
      BY <2>1, <2>2, <2>3, <2>4, EmitKeepsBooksSound
  <1>5. ASSUME NEW q \in Queue, NEW w \in Worker, AskWallet(q, w)
        PROVE  BooksSound'
    <2>1. TypeOK'
      BY <1>0, <1>5 DEF AskWallet, Goto, TypeOK, Stages, Fates
    <2>2. chain[<<q, w>>] = "none"
      BY <1>5 DEF AskWallet, AtStage, AsksOnce
    <2>3. \A p \in Queue, v \in Worker :
            chain[<<p, v>>] = "accepted" => chain'[<<p, v>>] = "accepted"
      BY <1>0, <1>5, <2>2 DEF AskWallet, TypeOK
    <2>a. /\ UNCHANGED watch
          /\ \A p \in Queue, v \in Worker :
               stage'[<<p, v>>] = stage[<<p, v>>] \/ stage'[<<p, v>>] = "approving"
      BY <1>0, <1>5 DEF AskWallet, Goto, TypeOK
    <2>4. WatchesOwnWorker'
      <3> SUFFICES ASSUME NEW p \in Queue, NEW v \in Worker
                   PROVE  /\ watch'[<<p, v>>] \in (Queue \X {v}) \cup {NoTransfer}
                          /\ stage'[<<p, v>>] \in {"watching", "confirming"}
                               => watch'[<<p, v>>] # NoTransfer
                          /\ stage'[<<p, v>>] = "confirming"
                               => chain'[watch'[<<p, v>>]] = "accepted"
        BY DEF WatchesOwnWorker
      <3>1. watch[<<p, v>>] # NoTransfer =>
              \E r \in Queue : watch[<<p, v>>] = <<r, v>>
        BY DEF WatchesOwnWorker
      <3>2. QED
        BY <2>3, <2>a, <3>1 DEF WatchesOwnWorker
    <2>5. AsksOnce'
      BY <1>0, <1>5 DEF AskWallet, AtStage, Goto, AsksOnce, TypeOK
    <2>6. \A v \in Worker : /\ Sound(v, books[v])'
                            /\ \A i \in DOMAIN writes'[v] : Sound(v, writes[v][i])'
      BY <1>5, <2>3 DEF AskWallet, Sound
    <2>7. QED
      BY <2>1, <2>4, <2>5, <2>6
  <1>6. ASSUME NEW q \in Queue, NEW w \in Worker, ReferenceReturned(q, w)
        PROVE  BooksSound'
    <2>1. Sound(w, Sent(<<q, w>>)) /\ Sent(<<q, w>>) \in Settlement
      BY DEF Sound, Sent, Settlement, Transfer
    <2>2. <<q, w>> \in Queue \X {w} /\ <<q, w>> # NoTransfer
      BY NoTransferAssumption
    <2>3. QED
      BY <1>6, <2>1, <2>2, EmitKeepsBooksSound DEF ReferenceReturned
  <1>7. ASSUME NEW q \in Queue, NEW w \in Worker, SeeAccepted(q, w)
        PROVE  BooksSound'
    <2>1. TypeOK'
      BY <1>0, <1>7 DEF SeeAccepted, Goto, TypeOK, Stages
    <2>2. WatchesOwnWorker'
      <3> SUFFICES ASSUME NEW r \in Queue, NEW v \in Worker
                   PROVE  /\ watch[<<r, v>>]' \in (Queue \X {v}) \cup {NoTransfer}
                          /\ stage[<<r, v>>]' \in {"watching", "confirming"} =>
                               watch[<<r, v>>]' # NoTransfer
                          /\ stage[<<r, v>>]' = "confirming" =>
                               chain[watch[<<r, v>>]]' = "accepted"
        BY DEF WatchesOwnWorker
      <3>1. watch' = watch /\ chain' = chain
        BY <1>7 DEF SeeAccepted
      <3>2. CASE <<r, v>> = <<q, w>>
        <4>1. stage[<<q, w>>] = "watching" /\ chain[watch[<<q, w>>]] = "accepted"
          BY <1>7 DEF SeeAccepted, AtStage
        <4>2. QED
          BY <3>1, <3>2, <4>1 DEF WatchesOwnWorker
      <3>3. CASE <<r, v>> # <<q, w>>
        <4>1. stage[<<r, v>>]' = stage[<<r, v>>]
          BY <1>0, <1>7, <3>3 DEF SeeAccepted, Goto, TypeOK
        <4>2. QED
          BY <3>1, <4>1 DEF WatchesOwnWorker
      <3>4. QED
        BY <3>2, <3>3
    <2>3. AsksOnce'
      BY <1>0, <1>7 DEF SeeAccepted, AtStage, Goto, AsksOnce, TypeOK
    <2>4. QED
      BY <1>7, <2>1, <2>2, <2>3 DEF SeeAccepted, Sound
  <1>8. ASSUME NEW q \in Queue, NEW w \in Worker, Settle(q, w)
        PROVE  BooksSound'
    <2>1. watch[<<q, w>>] \in Queue \X {w} /\ chain[watch[<<q, w>>]] = "accepted"
      BY <1>8 DEF Settle, AtStage, WatchesOwnWorker
    <2>2. Sound(w, Settled(watch[<<q, w>>])) /\ Settled(watch[<<q, w>>]) \in Settlement
      BY <2>1, NoTransferAssumption DEF Sound, Settled, Settlement, Transfer
    <2>3. watch' = [watch EXCEPT ![<<q, w>>] = watch[<<q, w>>]]
      BY <1>8, <1>0 DEF Settle, TypeOK
    <2>4. QED
      BY <1>8, <2>1, <2>2, <2>3, EmitKeepsBooksSound DEF Settle
  <1>9. ASSUME NEW w \in Worker, ApplyWrite(w) \/ WriteFails(w)
        PROVE  BooksSound'
    <2>1. writes[w] \in Seq(Settlement) /\ writes[w] # <<>>
      BY <1>9 DEF TypeOK, ApplyWrite, WriteFails
    <2>2. /\ writes' = [writes EXCEPT ![w] = Tail(writes[w])]
          /\ UNCHANGED <<unlocked, panel, phase, stage, watch, chain>>
          /\ books' = books \/ books' = [books EXCEPT ![w] = SettleTo(books[w], Head(writes[w]))]
      BY <1>9 DEF ApplyWrite, WriteFails
    <2>3. Head(writes[w]) \in Settlement /\ Sound(w, Head(writes[w]))
      BY <2>1, HeadElement
    <2>4. TypeOK'
      BY <2>1, <2>2, <2>3, TailElements DEF TypeOK, SettleTo
    <2>5. WatchesOwnWorker' /\ AsksOnce'
      BY <2>2 DEF WatchesOwnWorker, AsksOnce
    <2>6. \A v \in Worker : Sound(v, books[v])'
      BY ZenonT(40), <2>2, <2>3 DEF TypeOK, SettleTo, Sound
    <2>7. \A v \in Worker : \A i \in DOMAIN writes'[v] : Sound(v, writes'[v][i])
      <3>1. \A i \in DOMAIN writes'[w] : Sound(w, writes'[w][i])
        <4>1. writes'[w] = Tail(writes[w])
          BY <2>2 DEF TypeOK
        <4>2. QED
          BY <4>1, <2>1, TailElements
      <3>2. \A v \in Worker : v # w => writes'[v] = writes[v]
        BY <2>2 DEF TypeOK
      <3>3. QED
        BY <3>1, <3>2
    <2>8. \A v \in Worker : \A i \in DOMAIN writes'[v] : Sound(v, writes[v][i])'
      BY <2>2, <2>7 DEF Sound
    <2>9. QED
      BY <2>4, <2>5, <2>6, <2>8
  <1>10. ASSUME Environment
         PROVE  BooksSound'
    <2>1. PICK t \in Transfer, fate \in {"refused", "taken", "rejected", "accepted"} :
            /\ chain[t] \in {"asked", "taken"}
            /\ chain' = [chain EXCEPT ![t] = fate]
      BY <1>10, EnvironmentMoves
    <2>2. UNCHANGED <<books, writes, unlocked, panel, phase, stage, watch>>
      BY <1>10, EnvironmentMoves
    <2>3. \A p \in Queue, v \in Worker :
            chain[<<p, v>>] = "accepted" => chain'[<<p, v>>] = "accepted"
      BY <1>0, <2>1 DEF TypeOK
    <2>4. TypeOK'
      BY <2>1, <2>2 DEF TypeOK, Fates
    <2>5. WatchesOwnWorker'
      <3> SUFFICES ASSUME NEW p \in Queue, NEW v \in Worker,
                          stage[<<p, v>>] = "confirming"
                   PROVE  chain'[watch[<<p, v>>]] = "accepted"
        BY <2>2 DEF WatchesOwnWorker
      <3>1. PICK r \in Queue : watch[<<p, v>>] = <<r, v>>
        BY DEF WatchesOwnWorker
      <3>2. QED
        BY <2>3, <3>1 DEF WatchesOwnWorker
    <2>6. AsksOnce'
      BY <1>0, <2>1, <2>2 DEF AsksOnce, TypeOK
    <2>7. \A v \in Worker : /\ Sound(v, books[v])'
                            /\ \A i \in DOMAIN writes'[v] : Sound(v, writes[v][i])'
      BY <2>2, <2>3 DEF Sound
    <2>8. QED
      BY <2>4, <2>5, <2>6, <2>7
  <1>11. ASSUME Reload
         PROVE  BooksSound'
    <2>a. /\ writes' \in [Worker -> Seq(Settlement)]
          /\ panel' \in Queue \cup {NoQueue}
          /\ UNCHANGED <<books, watch, chain>>
      BY <1>11 DEF Reload
    <2>d. unlocked' \in BOOLEAN
      BY <1>11, Zenon DEF Reload
    <2>b. phase' \in [Queue -> {"unused", "planning", "running", "over"}]
      BY <1>11 DEF Reload, TypeOK
    <2>c. stage' \in [Transfer -> Stages]
      BY <1>11 DEF Reload, TypeOK, Stages
    <2>1. TypeOK'
      BY <2>a, <2>b, <2>c, <2>d DEF TypeOK
    <2>2. WatchesOwnWorker' /\ AsksOnce'
      BY <1>0, <1>11 DEF Reload, WatchesOwnWorker, AsksOnce, Live, TypeOK
    <2>3. \A v \in Worker : /\ Sound(v, books[v])'
                            /\ \A i \in DOMAIN writes'[v] : Sound(v, writes[v][i])'
      BY <1>11 DEF Reload, Sound
    <2>4. QED
      BY <2>1, <2>2, <2>3
  <1>12. ASSUME Lock \/ Unlock \/ Leave \/ UNCHANGED vars
         PROVE  BooksSound'
    <2>1. UNCHANGED <<books, writes, phase, stage, watch, chain>>
      BY <1>12 DEF Lock, Unlock, Leave, vars
    <2>2. unlocked' \in BOOLEAN
      BY <1>12, Zenon DEF Lock, Unlock, Leave, vars, TypeOK
    <2>3. panel' \in Queue \cup {NoQueue}
      BY <1>12 DEF Lock, Unlock, Leave, vars, TypeOK
    <2>4. TypeOK'
      BY <2>1, <2>2, <2>3 DEF TypeOK
    <2>5. WatchesOwnWorker' /\ AsksOnce'
      BY <2>1 DEF WatchesOwnWorker, AsksOnce
    <2>6. \A v \in Worker : /\ Sound(v, books[v])'
                            /\ \A i \in DOMAIN writes'[v] : Sound(v, writes[v][i])'
      BY <2>1 DEF Sound
    <2>7. QED
      BY <2>4, <2>5, <2>6
  <1>13. QED
    BY NextCases, <1>1, <1>2, <1>3, <1>4, <1>5, <1>6, <1>7, <1>8, <1>9, <1>10, <1>11, <1>12

\* Under every mishap the books, and the outcomes on their way into them, are sound.
THEOREM AlwaysSound == Spec => []BooksSound
  BY InitBooksSound, StepBooksSound, PTL DEF Spec

\* The type invariant, for every Worker and Queue.
THEOREM AlwaysTypeOK == Spec => []TypeOK
  <1>1. BooksSound => TypeOK
    BY DEF BooksSound
  <1>2. QED
    BY <1>1, AlwaysSound, PTL

\* What the books show as settled was paid to that worker by the transfer it names.
THEOREM AlwaysSettledWasPaid == Spec => []SettledWasPaid
  <1>1. BooksSound => SettledWasPaid
    BY DEF BooksSound, SettledWasPaid, Sound
  <1>2. QED
    BY <1>1, AlwaysSound, PTL

\* No step changes a settled paycheck: updates reach it only through SettleTo.
THEOREM AlwaysFinal == Spec => SettledIsFinal
  <1>1. ASSUME TypeOK, [Next]_vars
        PROVE  [\A w \in Worker : books[w].status = "settled" => books'[w] = books[w]]_vars
    <2>1. \/ UNCHANGED books
          \/ \E w \in Worker : ApplyWrite(w)
      BY ZenonT(40), <1>1, NextCases DEF Start, PlanFails, PlanMade, Finish, Resume, SendBroken,
           AskWallet, ReferenceReturned, RefusalReturned, SeeAccepted, SeeRejected,
           NoAnswerInTime, AcceptedWithoutId, Settle, ExplorerFails, WriteFails,
           Environment, WalletTakes, WalletRefuses, NetworkAccepts, NetworkRejects,
           Becomes, Reload, Lock, Unlock, Leave, vars
    <2>2. QED
      BY <1>1, <2>1 DEF ApplyWrite, SettleTo, TypeOK
  <1>2. QED
    BY <1>1, AlwaysTypeOK, PTL DEF Spec, SettledIsFinal

-----------------------------------------------------------------------------
(* Attended runs.                                                          *)

\* Every step of an attended run is one of these, and is a step of Next.
LEMMA AttendedCases ==
  ASSUME [AttendedNext]_vars
  PROVE  /\ [Next]_vars
         /\ \/ \E q \in Queue : Start(q) \/ PlanFails(q) \/ PlanMade(q) \/ Finish(q)
            \/ \E q \in Queue, w \in Worker :
                 \/ Resume(q, w) \/ SendBroken(q, w) \/ AskWallet(q, w)
                 \/ ReferenceReturned(q, w) \/ RefusalReturned(q, w)
                 \/ SeeAccepted(q, w) \/ SeeRejected(q, w) \/ Settle(q, w)
            \/ \E w \in Worker : ApplyWrite(w)
            \/ Environment
            \/ SafeReload \/ SafeLock \/ Unlock
            \/ UNCHANGED vars
  BY DEF AttendedNext, QueueStep, Next

\* An attended run is a run.
LEMMA AttendedIsSound == AttendedSpec => []BooksSound
  <1>1. [AttendedNext]_vars => [Next]_vars
    BY AttendedCases
  <1>2. QED
    BY <1>1, InitBooksSound, StepBooksSound, PTL DEF AttendedSpec

\* An outcome that joins the queue becomes the last word on its worker.
LEMMA EmitLatest ==
  ASSUME TypeOK, NEW w \in Worker, NEW s \in Settlement, Emit(w, s), UNCHANGED books
  PROVE  /\ Latest(w)' = s
         /\ \A v \in Worker : v # w => Latest(v)' = Latest(v)
  <1>1. writes[w] \in Seq(Settlement)
    BY DEF TypeOK
  <1>2. /\ writes'[w] = Append(writes[w], s)
        /\ \A v \in Worker : v # w => writes'[v] = writes[v]
    BY EmitAppends
  <1>3. QED
    BY <1>1, <1>2, AppendElements DEF Latest

\* Applying an update does not change the last word: only a settled paycheck would
\* refuse it, and nothing is queued behind a settled outcome.
LEMMA ApplyLatest ==
  ASSUME TypeOK, SettledComesLast, NEW w \in Worker, ApplyWrite(w)
  PROVE  \A v \in Worker : Latest(v)' = Latest(v)
  <1>1. writes[w] \in Seq(Settlement) /\ writes[w] # <<>>
    BY DEF TypeOK, ApplyWrite
  <1>2. /\ writes'[w] = Tail(writes[w])
        /\ books'[w] = SettleTo(books[w], Head(writes[w]))
        /\ \A v \in Worker : v # w => writes'[v] = writes[v] /\ books'[v] = books[v]
    BY DEF TypeOK, ApplyWrite
  <1>3. books'[w] = writes[w][1]
    BY <1>1, <1>2, HeadElement DEF SettleTo, SettledComesLast
  <1>4. CASE Len(writes[w]) = 1
    <2>1. writes'[w] = <<>>
      BY <1>1, <1>2, <1>4, TailElements
    <2>2. QED
      BY <1>1, <1>2, <1>3, <1>4, <2>1 DEF Latest
  <1>5. CASE Len(writes[w]) > 1
    <2>1. /\ writes'[w] # <<>>
          /\ Len(writes'[w]) = Len(writes[w]) - 1
          /\ writes'[w][Len(writes'[w])] = writes[w][Len(writes[w])]
      <3>0. /\ Tail(writes[w]) = <<>> <=> Len(writes[w]) = 1
            /\ Len(Tail(writes[w])) = Len(writes[w]) - 1
            /\ Tail(writes[w]) \in Seq(Settlement)
            /\ Len(writes[w]) \in Nat
        BY <1>1, TailElements, Zenon
      <3>b. Len(writes[w]) # 1
        BY <1>5, <3>0
      <3>1. /\ Tail(writes[w]) # <<>>
            /\ Len(Tail(writes[w])) = Len(writes[w]) - 1
            /\ Tail(writes[w]) \in Seq(Settlement)
            /\ Len(writes[w]) \in Nat
        BY <3>0, <3>b, Zenon
      <3>a. Len(writes[w]) - 1 \in DOMAIN Tail(writes[w])
        BY <1>5, <3>1, LenProperties
      <3>2. Tail(writes[w])[Len(writes[w]) - 1] = writes[w][Len(writes[w])]
        <4>1. \A i \in DOMAIN Tail(writes[w]) : Tail(writes[w])[i] = writes[w][i + 1]
          BY <1>1, TailElements
        <4>2. (Len(writes[w]) - 1) + 1 = Len(writes[w])
          BY <3>1
        <4>3. QED
          BY <3>a, <4>1, <4>2
      <3>3. QED
        BY <1>2, <3>1, <3>2
    <2>2. QED
      BY <1>1, <1>2, <2>1 DEF Latest
  <1>6. QED
    BY <1>1, <1>4, <1>5, TailElements

\* In an attended run one queue at most has unanswered workers.
LEMMA OneUnanswered ==
  ASSUME OneLiveQueue, NEW p \in Queue, NEW q \in Queue, NEW v \in Worker, NEW w \in Worker,
         Unanswered(<<p, v>>), Unanswered(<<q, w>>)
  PROVE  p = q
  BY DEF OneLiveQueue, Transfer

\* What AttendedInv adds to BooksSound.
AttendedOnly ==
  OneLiveQueue /\ EveryTransferKnown /\ NoRival /\ PollsWhatTheBooksSay /\ SettledComesLast

\* A queue that emits an outcome for w keeps AttendedOnly when the outcome names
\* every transfer that may yet pay w, and settles only what was noted as sent.
LEMMA EmitKeepsAttended ==
  ASSUME BooksSound, AttendedOnly, NEW q \in Queue, NEW w \in Worker,
         NEW s \in Settlement, NEW st \in {"watching", "done"}, NEW ref,
         Unanswered(<<q, w>>),
         st = "watching" => s = Sent(ref),
         \A p \in Queue : MayPay(<<p, w>>) => s.ref = <<p, w>>,
         s.status = "settled" => st = "done" /\ Latest(w) = Sent(s.ref),
         Goto(q, w, st), Emit(w, s),
         watch' = [watch EXCEPT ![<<q, w>>] = ref],
         UNCHANGED <<books, unlocked, panel, phase, chain>>
  PROVE  AttendedOnly'
  <1> USE DEF AttendedOnly
  <1>1. /\ \A p \in Queue, v \in Worker : <<p, v>> \in Transfer
        /\ \A t \in Transfer : t[1] \in Queue /\ t[2] \in Worker /\ t = <<t[1], t[2]>>
    BY DEF Transfer
  <1>2. TypeOK
    BY DEF BooksSound
  <1>3. /\ Latest(w)' = s
        /\ \A v \in Worker : v # w => Latest(v)' = Latest(v)
    BY <1>2, EmitLatest
  <1>4. /\ stage'[<<q, w>>] = st
        /\ watch'[<<q, w>>] = ref
        /\ \A t \in Transfer : t # <<q, w>> => stage'[t] = stage[t] /\ watch'[t] = watch[t]
    BY <1>1, <1>2 DEF Goto, TypeOK
  <1>5. \A t \in Transfer : Unanswered(t)' => Unanswered(t)
    BY <1>4 DEF Unanswered
  <1>6. OneLiveQueue'
    BY <1>4, <1>5 DEF OneLiveQueue, Live
  <1>7. EveryTransferKnown'
    BY <1>1, <1>3, <1>4 DEF EveryTransferKnown, MayPay
  <1>8. NoRival'
    BY ZenonT(40), <1>1, <1>4 DEF NoRival, MayPay
  <1>9. PollsWhatTheBooksSay'
    <2> SUFFICES ASSUME NEW p \in Queue, NEW v \in Worker,
                        Unanswered(<<p, v>>)', stage'[<<p, v>>] # "approving",
                        watch'[<<p, v>>] # NoTransfer
                 PROVE  Latest(v)' = Sent(watch'[<<p, v>>])
      BY DEF PollsWhatTheBooksSay, Sent
    <2>1. Unanswered(<<p, v>>)
      BY <1>1, <1>5
    <2>2. p = q
      BY <2>1, OneUnanswered
    <2>3. CASE v = w
      BY <1>3, <1>4, <2>2, <2>3 DEF Unanswered
    <2>4. CASE v # w
      BY <1>1, <1>3, <1>4, <2>1, <2>4 DEF PollsWhatTheBooksSay
    <2>5. QED
      BY <2>3, <2>4
  <1>10. SettledComesLast'
    <2>1. /\ writes[w] \in Seq(Settlement)
          /\ writes'[w] = Append(writes[w], s)
          /\ \A v \in Worker : v # w => writes'[v] = writes[v]
      BY <1>2, EmitAppends DEF TypeOK
    <2>2. Latest(w).status # "settled"
      BY DEF SettledComesLast
    <2>3. books[w].status # "settled"
      BY <2>2 DEF SettledComesLast, Latest
    <2>4. \A i \in DOMAIN writes[w] : writes[w][i].status # "settled"
      BY <2>1, <2>2 DEF SettledComesLast, Latest
    <2>5. \A p \in Queue : Unanswered(<<p, w>>)' => s.status # "settled"
      <3> SUFFICES ASSUME NEW p \in Queue, Unanswered(<<p, w>>)'
                   PROVE  s.status # "settled"
        OBVIOUS
      <3>1. p = q
        BY <1>1, <1>5, OneUnanswered
      <3>2. st = "watching"
        BY <1>4, <3>1 DEF Unanswered
      <3>3. QED
        BY <3>2
    <2>6. ASSUME NEW i \in DOMAIN writes'[w], writes'[w][i].status = "settled"
          PROVE  /\ i = Len(writes'[w])
                 /\ i = 1 => books[w] = Sent(writes'[w][i].ref)
                 /\ i > 1 => writes'[w][i-1] = Sent(writes'[w][i].ref)
      <3>1. i = Len(writes[w]) + 1 /\ writes'[w][i] = s /\ i = Len(writes'[w])
        BY <2>1, <2>4, <2>6, AppendElements
      <3>2. Latest(w) = Sent(s.ref)
        BY <2>6, <3>1
      <3>3. i = 1 => books[w] = Sent(s.ref)
        BY <2>1, <3>1, <3>2 DEF Latest
      <3>4. i > 1 => writes'[w][i-1] = Sent(s.ref)
        BY <2>1, <3>1, <3>2, AppendElements DEF Latest
      <3>5. QED
        BY <3>1, <3>3, <3>4
    <2>7. ASSUME NEW v \in Worker, v # w
          PROVE  /\ books'[v].status = "settled" => writes'[v] = <<>>
                 /\ \A p \in Queue : Unanswered(<<p, v>>)' => Latest(v)'.status # "settled"
                 /\ \A i \in DOMAIN writes'[v] :
                      writes'[v][i].status = "settled" =>
                        /\ i = Len(writes'[v])
                        /\ i = 1 => books'[v] = Sent(writes'[v][i].ref)
                        /\ i > 1 => writes'[v][i-1] = Sent(writes'[v][i].ref)
      BY <1>1, <1>3, <1>5, <2>1, <2>7 DEF SettledComesLast
    <2>8. QED
      BY SMTT(20), <1>3, <2>3, <2>5, <2>6, <2>7 DEF SettledComesLast, Sent
  <1>11. QED
    BY <1>6, <1>7, <1>8, <1>9, <1>10

\* An empty queue of updates holds nothing.
LEMMA NothingQueued ==
  ASSUME NEW s, s = <<>>
  PROVE  DOMAIN s = {}
  OBVIOUS

\* Nothing is sent, queued or live at first.
LEMMA InitAttended == Init => AttendedOnly
  <1> SUFFICES ASSUME Init PROVE AttendedOnly
    OBVIOUS
  <1>1. OneLiveQueue
    BY DEF Init, OneLiveQueue, Live, Unanswered
  <1>2. EveryTransferKnown
    BY DEF Init, EveryTransferKnown, MayPay, Transfer
  <1>3. NoRival
    BY DEF Init, NoRival, Transfer
  <1>4. PollsWhatTheBooksSay
    BY DEF Init, PollsWhatTheBooksSay, Unanswered, Transfer
  <1>5. SettledComesLast
    <2>1. \A w \in Worker : books[w].status # "settled" /\ writes[w] = <<>>
      BY DEF Init, Unsent
    <2>2. \A q \in Queue, w \in Worker : ~Unanswered(<<q, w>>)
      BY DEF Init, Unanswered, Transfer
    <2>3. \A w \in Worker : DOMAIN writes[w] = {}
      BY <2>1, NothingQueued
    <2>4. QED
      BY <2>1, <2>2, <2>3 DEF SettledComesLast
  <1>6. QED
    BY <1>1, <1>2, <1>3, <1>4, <1>5 DEF AttendedOnly

\* The step of a queue that emits an outcome, in an attended run.
LEMMA OutcomeKeepsAttended ==
  ASSUME BooksSound, AttendedOnly, NEW q \in Queue, NEW w \in Worker,
         \/ Resume(q, w) \/ SendBroken(q, w) \/ ReferenceReturned(q, w)
         \/ RefusalReturned(q, w) \/ SeeRejected(q, w) \/ Settle(q, w)
  PROVE  AttendedOnly'
  <1> USE DEF AttendedOnly
  <1> DEFINE ref == watch[<<q, w>>]
  <1>1. <<q, w>> \in Transfer /\ Live(q)
    BY DEF Transfer, Resume, SendBroken, ReferenceReturned, RefusalReturned,
           SeeRejected, Settle, AtStage, Live
  <1>2. watch = [watch EXCEPT ![<<q, w>>] = ref]
    BY <1>1 DEF BooksSound, TypeOK
  <1>3. Unanswered(<<q, w>>)
    BY DEF Resume, SendBroken, ReferenceReturned, RefusalReturned, SeeRejected,
           Settle, AtStage, Unanswered
  <1>4. \A p \in Queue : MayPay(<<p, w>>) =>
          \/ p = q /\ stage[<<q, w>>] = "approving"
          \/ Latest(w).ref = <<p, w>>
    <2> SUFFICES ASSUME NEW p \in Queue, MayPay(<<p, w>>), stage[<<p, w>>] = "approving"
                 PROVE  p = q
      BY DEF EveryTransferKnown
    <2>1. Unanswered(<<p, w>>)
      BY DEF Unanswered
    <2>2. QED
      BY <1>3, <2>1, OneUnanswered
  <1>5. ASSUME stage[<<q, w>>] # "approving", ref # NoTransfer
        PROVE  Latest(w) = Sent(ref) /\ Sent(ref).ref = ref /\ Sent(ref) \in Settlement
    <2>1. ref \in Transfer
      BY <1>5 DEF BooksSound, WatchesOwnWorker, Transfer
    <2>2. QED
      BY <1>3, <1>5, <2>1 DEF PollsWhatTheBooksSay, Sent, Settlement
  <1>6. CASE Resume(q, w)
    <2>1. stage[<<q, w>>] = "planned" /\ ref # NoTransfer
      BY <1>6 DEF Resume, AtStage
    <2>2. \A p \in Queue : MayPay(<<p, w>>) => Sent(ref).ref = <<p, w>>
      BY <1>4, <1>5, <2>1
    <2>3. Sent(ref).status # "settled" /\ Sent(ref) \in Settlement
      BY <1>5, <2>1 DEF Sent
    <2>4. QED
      BY <1>2, <1>3, <1>6, <2>2, <2>3, EmitKeepsAttended DEF Resume
  <1>7. CASE SendBroken(q, w) \/ RefusalReturned(q, w) \/ SeeRejected(q, w)
    <2>1. \A p \in Queue : ~MayPay(<<p, w>>)
      <3>1. CASE SendBroken(q, w)
        BY <3>1 DEF SendBroken, AtStage, NoRival
      <3>2. CASE RefusalReturned(q, w)
        <4>1. stage[<<q, w>>] = "approving" /\ ~MayPay(<<q, w>>)
          BY <3>2 DEF RefusalReturned, AtStage, MayPay
        <4>2. QED
          BY <4>1 DEF NoRival
      <3>3. CASE SeeRejected(q, w)
        <4>1. stage[<<q, w>>] = "watching" /\ ~MayPay(ref)
          BY <3>3 DEF SeeRejected, AtStage, MayPay
        <4>2. ref # NoTransfer
          BY <4>1 DEF BooksSound, WatchesOwnWorker
        <4>3. QED
          BY <1>4, <1>5, <4>1, <4>2
      <3>4. QED
        BY <1>7, <3>1, <3>2, <3>3
    <2>2. Failed \in Settlement /\ Failed.status # "settled"
      BY DEF Failed, Settlement
    <2>3. /\ Goto(q, w, "done") /\ Emit(w, Failed)
          /\ UNCHANGED <<books, unlocked, panel, phase, watch, chain>>
      BY <1>7 DEF SendBroken, RefusalReturned, SeeRejected
    <2>4. QED
      BY <1>2, <1>3, <2>1, <2>2, <2>3, EmitKeepsAttended
  <1>8. CASE ReferenceReturned(q, w)
    <2>1. \A p \in Queue : MayPay(<<p, w>>) => Sent(<<q, w>>).ref = <<p, w>>
      BY <1>8 DEF ReferenceReturned, AtStage, NoRival, Sent
    <2>2. Sent(<<q, w>>) \in Settlement /\ Sent(<<q, w>>).status # "settled"
      BY <1>1 DEF Sent, Settlement
    <2>3. QED
      BY <1>3, <1>8, <2>1, <2>2, EmitKeepsAttended DEF ReferenceReturned
  <1>9. CASE Settle(q, w)
    <2>1. stage[<<q, w>>] = "confirming"
      BY <1>9 DEF Settle, AtStage
    <2>2. ref # NoTransfer
      BY <2>1 DEF BooksSound, WatchesOwnWorker
    <2>3. /\ Settled(ref).ref = ref /\ Settled(ref) \in Settlement
          /\ Latest(w) = Sent(Settled(ref).ref)
      BY <1>5, <2>1, <2>2 DEF Settled, Settlement, Sent
    <2>4. \A p \in Queue : MayPay(<<p, w>>) => Settled(ref).ref = <<p, w>>
      BY <1>4, <1>5, <2>1, <2>2, <2>3
    <2>5. QED
      BY <1>2, <1>3, <1>9, <2>3, <2>4, EmitKeepsAttended DEF Settle
  <1>10. QED
    BY <1>6, <1>7, <1>8, <1>9

\* The steps that leave the books, the queue of updates and the transfers alone.
LEMMA QuietKeepsAttended ==
  ASSUME BooksSound, AttendedOnly, UNCHANGED <<books, writes, watch, chain>>,
         \A t \in Transfer :
            \/ stage'[t] = stage[t]
            \/ stage[t] # "approving" /\ stage'[t] \in {"none", "done"},
         \A t \in Transfer : Unanswered(t)' => Live(t[1])',
         \A q \in Queue : Live(q)' => Live(q) /\ panel' = q,
         \A t \in Transfer : phase'[t[1]] = "planning" => phase[t[1]] = "planning"
  PROVE  AttendedOnly'
  <1> USE DEF AttendedOnly
  <1>1. \A q \in Queue, w \in Worker : <<q, w>> \in Transfer
    BY DEF Transfer
  <1>2. \A w \in Worker : Latest(w)' = Latest(w)
    BY DEF Latest
  <1>3. OneLiveQueue'
    BY DEF OneLiveQueue
  <1>4. \A t \in Transfer : Unanswered(t)' => Unanswered(t) /\ stage'[t] = stage[t]
    BY DEF Unanswered
  <1>5. NoRival'
    BY <1>1 DEF NoRival, MayPay
  <1>6. PollsWhatTheBooksSay'
    BY <1>1, <1>2, <1>4 DEF PollsWhatTheBooksSay
  <1>7. SettledComesLast'
    BY <1>1, <1>2, <1>4 DEF SettledComesLast
  <1>8. EveryTransferKnown'
    BY <1>1, <1>2 DEF EveryTransferKnown, MayPay
  <1>9. QED
    BY <1>3, <1>5, <1>6, <1>7, <1>8

\* The press of the button: no queue is live and nothing is queued, so what may
\* yet pay a worker is on the paycheck, and is polled instead of planned.
LEMMA StartKeepsAttended ==
  ASSUME BooksSound, AttendedOnly, NEW q \in Queue, Start(q)
  PROVE  AttendedOnly'
  <1> USE DEF AttendedOnly
  <1>1. /\ \A p \in Queue, w \in Worker : <<p, w>> \in Transfer
        /\ \A t \in Transfer : t[1] \in Queue /\ t[2] \in Worker /\ t = <<t[1], t[2]>>
    BY DEF Transfer
  <1>2. TypeOK
    BY DEF BooksSound
  <1>3. \A p \in Queue : ~Live(p)
    BY NoQueueAssumption DEF Start, OneLiveQueue
  <1>4. \A t \in Transfer : ~Unanswered(t)
    BY <1>1, <1>3 DEF OneLiveQueue
  <1>5. \A w \in Worker : Latest(w) = books[w] /\ Latest(w)' = books[w]
    BY DEF Start, Latest
  <1>6. \A p \in Queue, w \in Worker : MayPay(<<p, w>>) => books[w].ref = <<p, w>>
    BY <1>1, <1>4, <1>5 DEF EveryTransferKnown, Unanswered
  <1>7. /\ \A p \in Queue, w \in Worker :
             stage'[<<p, w>>] = IF p = q /\ Outstanding(w) THEN "planned" ELSE stage[<<p, w>>]
        /\ \A w \in Worker : Outstanding(w) => watch'[<<q, w>>] = InFlight(w)
        /\ UNCHANGED <<books, writes, chain>>
    BY <1>1 DEF Start
  <1>8. \A p \in Queue, w \in Worker :
          Unanswered(<<p, w>>)' => p = q /\ Outstanding(w) /\ stage'[<<p, w>>] = "planned"
    BY <1>1, <1>4, <1>7 DEF Unanswered
  <1>9. OneLiveQueue'
    <2>1. panel' = q /\ \A p \in Queue : Live(p)' <=> p = q
      BY <1>2, <1>3 DEF Start, Live, TypeOK
    <2>2. \A t \in Transfer : stage'[t] # "approving"
      <3>1. ASSUME NEW t \in Transfer, stage'[t] = "approving"
            PROVE  FALSE
        BY <1>1, <1>8, <3>1 DEF Unanswered
      <3>2. QED
        BY <3>1
    <2>3. QED
      BY <1>1, <1>8, <2>1, <2>2 DEF OneLiveQueue
  <1>10. EveryTransferKnown'
    BY <1>5, <1>6, <1>7 DEF EveryTransferKnown, MayPay
  <1>11. \A w \in Worker :
           Outstanding(w) /\ InFlight(w) = NoTransfer => books[w].ref = NoTransfer
    BY <1>2 DEF Outstanding, InFlight, BooksSound, Sound, TypeOK, Settlement
  <1>12. NoRival'
    <2> SUFFICES ASSUME NEW p \in Queue, NEW w \in Worker, NEW r \in Queue,
                        stage'[<<p, w>>] \in {"planned", "approving"},
                        stage'[<<p, w>>] = "planned" => watch'[<<p, w>>] = NoTransfer
                 PROVE  ~MayPay(<<r, w>>)
      BY <1>7 DEF NoRival, MayPay
    <2>1. p = q /\ Outstanding(w) /\ stage'[<<p, w>>] = "planned"
      BY <1>8 DEF Unanswered
    <2>2. books[w].ref = NoTransfer
      BY <1>7, <1>11, <2>1
    <2>3. QED
      BY <1>1, <1>6, <2>2, NoTransferAssumption DEF Transfer
  <1>13. PollsWhatTheBooksSay'
    <2> SUFFICES ASSUME NEW p \in Queue, NEW w \in Worker,
                        Unanswered(<<p, w>>)', watch'[<<p, w>>] # NoTransfer
                 PROVE  Latest(w)' = Sent(watch'[<<p, w>>])
      BY DEF PollsWhatTheBooksSay, Sent
    <2>1. p = q /\ Outstanding(w)
      BY <1>8
    <2>2. books[w].status = "pending" /\ watch'[<<p, w>>] = books[w].ref
      BY <1>7, <2>1 DEF InFlight
    <2>3. QED
      BY <1>2, <1>5, <2>2 DEF TypeOK, Settlement, Sent
  <1>14. SettledComesLast'
    <2>1. \A w \in Worker : writes[w] = <<>> /\ DOMAIN writes[w] = {}
      BY NothingQueued DEF Start
    <2>2. QED
      BY <1>5, <1>7, <1>8, <2>1 DEF SettledComesLast, Outstanding
  <1>15. QED
    BY <1>9, <1>10, <1>12, <1>13, <1>14

\* Asking Shield: nothing may pay the worker yet, and nobody else is asking.
LEMMA AskKeepsAttended ==
  ASSUME BooksSound, AttendedOnly, NEW q \in Queue, NEW w \in Worker, AskWallet(q, w)
  PROVE  AttendedOnly'
  <1> USE DEF AttendedOnly
  <1>1. /\ \A p \in Queue, v \in Worker : <<p, v>> \in Transfer
        /\ \A t \in Transfer : t[1] \in Queue /\ t[2] \in Worker /\ t = <<t[1], t[2]>>
    BY DEF Transfer
  <1>2. /\ stage[<<q, w>>] = "planned" /\ watch[<<q, w>>] = NoTransfer
        /\ stage'[<<q, w>>] = "approving"
        /\ \A t \in Transfer : t # <<q, w>> => stage'[t] = stage[t] /\ chain'[t] = chain[t]
        /\ phase[q] = "running"
        /\ UNCHANGED <<books, writes, unlocked, panel, phase, watch>>
    BY <1>1 DEF AskWallet, AtStage, Goto, BooksSound, TypeOK
  <1>3. \A t \in Transfer : Unanswered(t)' <=> Unanswered(t)
    BY <1>2 DEF Unanswered
  <1>4. \A v \in Worker : Latest(v)' = Latest(v)
    BY <1>2 DEF Latest
  <1>5. OneLiveQueue'
    BY <1>1, <1>2, <1>3 DEF OneLiveQueue, Live
  <1>6. EveryTransferKnown'
    BY <1>1, <1>2, <1>4 DEF EveryTransferKnown, MayPay
  <1>7. \A p \in Queue : ~MayPay(<<p, w>>)
    BY <1>2 DEF NoRival
  <1>8. NoRival'
    <2> SUFFICES ASSUME NEW p \in Queue, NEW v \in Worker, NEW r \in Queue,
                        \/ /\ stage'[<<p, v>>] = "planned"
                           /\ watch'[<<p, v>>] = NoTransfer
                        \/ stage'[<<p, v>>] = "approving" /\ r # p
                 PROVE  ~MayPay(<<r, v>>)'
      BY DEF NoRival
    <2>1. CASE v # w
      BY <1>1, <1>2, <2>1 DEF NoRival, MayPay
    <2>2. CASE v = w
      <3>1. Unanswered(<<p, w>>) /\ Unanswered(<<q, w>>)
        BY <1>1, <1>2, <1>3, <2>2 DEF Unanswered
      <3>2. p = q
        BY <3>1, OneUnanswered
      <3>3. r # q
        BY <1>2, <2>2, <3>2
      <3>4. QED
        BY <1>1, <1>2, <1>7, <2>2, <3>3 DEF MayPay
    <2>3. QED
      BY <2>1, <2>2
  <1>9. PollsWhatTheBooksSay'
    BY <1>1, <1>2, <1>3, <1>4 DEF PollsWhatTheBooksSay
  <1>10. SettledComesLast'
    BY <1>1, <1>2, <1>3, <1>4 DEF SettledComesLast
  <1>11. QED
    BY <1>5, <1>6, <1>8, <1>9, <1>10

\* The wallet's acceptance changes only how far the queue is.
LEMMA AcceptedKeepsAttended ==
  ASSUME BooksSound, AttendedOnly, NEW q \in Queue, NEW w \in Worker, SeeAccepted(q, w)
  PROVE  AttendedOnly'
  <1> USE DEF AttendedOnly
  <1>1. /\ \A p \in Queue, v \in Worker : <<p, v>> \in Transfer
        /\ \A t \in Transfer : t[1] \in Queue /\ t[2] \in Worker /\ t = <<t[1], t[2]>>
    BY DEF Transfer
  <1>2. /\ stage[<<q, w>>] = "watching" /\ stage'[<<q, w>>] = "confirming"
        /\ \A t \in Transfer : t # <<q, w>> => stage'[t] = stage[t]
        /\ UNCHANGED <<books, writes, unlocked, panel, phase, watch, chain>>
    BY <1>1 DEF SeeAccepted, AtStage, Goto, BooksSound, TypeOK
  <1>3. \A t \in Transfer : Unanswered(t)' <=> Unanswered(t)
    BY <1>2 DEF Unanswered
  <1>4. \A v \in Worker : Latest(v)' = Latest(v)
    BY <1>2 DEF Latest
  <1>5. OneLiveQueue'
    BY <1>2, <1>3 DEF OneLiveQueue, Live
  <1>6. EveryTransferKnown' /\ NoRival'
    BY <1>1, <1>2, <1>4 DEF EveryTransferKnown, NoRival, MayPay
  <1>7. PollsWhatTheBooksSay' /\ SettledComesLast'
    BY <1>1, <1>2, <1>3, <1>4 DEF PollsWhatTheBooksSay, SettledComesLast
  <1>8. QED
    BY <1>5, <1>6, <1>7

\* The plan fails or is made, the run ends, the books are locked or unlocked.
LEMMA QuietSteps ==
  ASSUME BooksSound, AttendedOnly,
         \/ \E q \in Queue : PlanFails(q) \/ PlanMade(q) \/ Finish(q)
         \/ SafeLock \/ Unlock \/ UNCHANGED vars
  PROVE  AttendedOnly'
  <1> USE DEF AttendedOnly
  <1>1. /\ \A p \in Queue, v \in Worker : <<p, v>> \in Transfer
        /\ \A t \in Transfer : t[1] \in Queue /\ t[2] \in Worker /\ t = <<t[1], t[2]>>
    BY DEF Transfer
  <1>2. /\ \A q \in Queue : Live(q) => panel = q
        /\ \A t \in Transfer : Unanswered(t) => Live(t[1])
        /\ \A t \in Transfer : phase[t[1]] = "planning" => stage[t] # "approving"
    BY DEF OneLiveQueue
  <1>3. ASSUME NEW q \in Queue, PlanFails(q)
        PROVE  AttendedOnly'
    <2>1. /\ UNCHANGED <<books, writes, watch, chain>>
          /\ \A t \in Transfer : stage'[t] = IF t[1] = q THEN "none" ELSE stage[t]
          /\ \A p \in Queue : phase'[p] = IF p = q THEN "over" ELSE phase[p]
          /\ phase[q] = "planning"
      BY <1>3 DEF PlanFails, BooksSound, TypeOK
    <2>2. panel = q /\ \A p \in Queue : Live(p) => p = q
      BY <1>2, <2>1 DEF Live
    <2>3. \A p \in Queue : ~Live(p)'
      BY <2>1, <2>2 DEF Live
    <2>4. \A t \in Transfer : ~Unanswered(t)'
      BY <1>1, <1>2, <2>1, <2>2 DEF Unanswered
    <2>5. \A t \in Transfer :
             \/ stage'[t] = stage[t]
             \/ stage[t] # "approving" /\ stage'[t] \in {"none", "done"}
      BY <1>2, <2>1
    <2>6. QED
      BY <1>1, <2>1, <2>3, <2>4, <2>5, QuietKeepsAttended
  <1>4. ASSUME NEW q \in Queue, PlanMade(q)
        PROVE  AttendedOnly'
    <2>1. /\ UNCHANGED <<books, writes, watch, chain, stage, panel>>
          /\ \A p \in Queue : phase'[p] = IF p = q THEN "running" ELSE phase[p]
          /\ phase[q] = "planning"
      BY <1>4 DEF PlanMade, BooksSound, TypeOK
    <2>2. \A p \in Queue : Live(p)' <=> Live(p)
      BY <2>1 DEF Live
    <2>3. \A t \in Transfer : Unanswered(t)' => Live(t[1])'
      BY <1>1, <1>2, <2>1, <2>2 DEF Unanswered
    <2>4. QED
      BY <1>1, <1>2, <2>1, <2>2, <2>3, QuietKeepsAttended
  <1>5. ASSUME NEW q \in Queue, Finish(q)
        PROVE  AttendedOnly'
    <2>1. /\ UNCHANGED <<books, writes, watch, chain, stage>>
          /\ \A p \in Queue : phase'[p] = IF p = q THEN "over" ELSE phase[p]
          /\ phase[q] = "running"
          /\ \A w \in Worker : stage[<<q, w>>] \in {"none", "done"}
      BY <1>5 DEF Finish, BooksSound, TypeOK
    <2>2. panel = q /\ \A p \in Queue : Live(p) => p = q
      BY <1>2, <2>1 DEF Live
    <2>3. \A p \in Queue : ~Live(p)'
      BY <2>1, <2>2 DEF Live
    <2>4. \A t \in Transfer : ~Unanswered(t)'
      BY <1>1, <1>2, <2>1, <2>2 DEF Unanswered
    <2>5. QED
      BY <1>1, <2>1, <2>3, <2>4, QuietKeepsAttended
  <1>6. ASSUME SafeLock \/ Unlock \/ UNCHANGED vars
        PROVE  AttendedOnly'
    <2>1. UNCHANGED <<books, writes, watch, chain, stage, phase>>
      BY <1>6 DEF SafeLock, Lock, Unlock, vars
    <2>2. UNCHANGED panel \/ \A q \in Queue : ~Live(q)
      BY <1>6 DEF SafeLock, Lock, Unlock, vars
    <2>3. \A q \in Queue : Live(q)' <=> Live(q)
      BY <2>1 DEF Live
    <2>4. \A t \in Transfer : Unanswered(t)' => Live(t[1])'
      BY <1>1, <1>2, <2>1, <2>3 DEF Unanswered
    <2>5. QED
      BY <1>2, <2>1, <2>2, <2>3, <2>4, QuietKeepsAttended
  <1>7. QED
    BY <1>3, <1>4, <1>5, <1>6

\* The environment never makes a transfer that could not pay pay after all.
LEMMA EnvironmentKeepsAttended ==
  ASSUME BooksSound, AttendedOnly, Environment
  PROVE  AttendedOnly'
  <1> USE DEF AttendedOnly
  <1>1. /\ \A p \in Queue, v \in Worker : <<p, v>> \in Transfer
        /\ UNCHANGED <<books, writes, unlocked, panel, phase, stage, watch>>
    BY EnvironmentMoves DEF Transfer, BooksSound
  <1>2. PICK t \in Transfer, fate \in {"refused", "taken", "rejected", "accepted"} :
          /\ chain[t] \in {"asked", "taken"}
          /\ chain' = [chain EXCEPT ![t] = fate]
    BY EnvironmentMoves DEF BooksSound
  <1>3. \A u \in Transfer : MayPay(u)' => MayPay(u)
    BY <1>2 DEF MayPay, BooksSound, TypeOK
  <1>4. (\A v \in Worker : Latest(v)' = Latest(v)) /\ \A u \in Transfer : Unanswered(u)' <=> Unanswered(u)
    BY <1>1 DEF Latest, Unanswered
  <1>5. OneLiveQueue'
    BY <1>1, <1>4 DEF OneLiveQueue, Live
  <1>6. EveryTransferKnown'
    BY <1>1, <1>3, <1>4 DEF EveryTransferKnown
  <1>7. NoRival'
    BY <1>1, <1>3 DEF NoRival
  <1>8. PollsWhatTheBooksSay' /\ SettledComesLast'
    BY <1>1, <1>4 DEF PollsWhatTheBooksSay, SettledComesLast
  <1>9. QED
    BY <1>5, <1>6, <1>7, <1>8

\* An update reaches the books: the last word on its worker stays what it was.
LEMMA ApplyKeepsAttended ==
  ASSUME BooksSound, AttendedOnly, NEW w \in Worker, ApplyWrite(w)
  PROVE  AttendedOnly'
  <1> USE DEF AttendedOnly
  <1>1. /\ \A p \in Queue, v \in Worker : <<p, v>> \in Transfer
        /\ UNCHANGED <<unlocked, panel, phase, stage, watch, chain>>
        /\ \A u \in Transfer : Unanswered(u)' <=> Unanswered(u)
    BY DEF Transfer, ApplyWrite, Unanswered
  <1>2. \A v \in Worker : Latest(v)' = Latest(v)
    BY ApplyLatest DEF BooksSound
  <1>3. OneLiveQueue'
    BY <1>1 DEF OneLiveQueue, Live
  <1>4. EveryTransferKnown' /\ NoRival' /\ PollsWhatTheBooksSay'
    BY <1>1, <1>2 DEF EveryTransferKnown, NoRival, PollsWhatTheBooksSay, MayPay
  <1>5. SettledComesLast'
    <2>1. writes[w] \in Seq(Settlement) /\ writes[w] # <<>>
      BY DEF BooksSound, TypeOK, ApplyWrite
    <2>2. /\ writes'[w] = Tail(writes[w])
          /\ books'[w] = SettleTo(books[w], Head(writes[w]))
          /\ \A v \in Worker : v # w => writes'[v] = writes[v] /\ books'[v] = books[v]
      BY DEF BooksSound, TypeOK, ApplyWrite
    <2>3. books'[w] = writes[w][1] /\ 1 \in DOMAIN writes[w]
      BY <2>1, <2>2, HeadElement DEF SettleTo, SettledComesLast
    <2>4. books'[w].status = "settled" => Len(writes[w]) = 1
      BY <2>3 DEF SettledComesLast
    <2>5. books'[w].status = "settled" => writes'[w] = <<>>
      BY <2>1, <2>2, <2>4, TailElements, Zenon
    <2>6. ASSUME NEW i \in DOMAIN writes'[w], writes'[w][i].status = "settled"
          PROVE  /\ i = Len(writes'[w])
                 /\ i = 1 => books'[w] = Sent(writes'[w][i].ref)
                 /\ i > 1 => writes'[w][i-1] = Sent(writes'[w][i].ref)
      <3>1. /\ i \in Nat /\ i >= 1
            /\ i + 1 \in DOMAIN writes[w] /\ writes'[w][i] = writes[w][i + 1]
            /\ Len(writes'[w]) = Len(writes[w]) - 1
        BY <2>1, <2>2, TailElements, LenProperties
      <3>2. i + 1 = Len(writes[w]) /\ writes[w][i] = Sent(writes'[w][i].ref)
        <4>1. /\ i + 1 = Len(writes[w])
              /\ i + 1 > 1 => writes[w][(i + 1) - 1] = Sent(writes[w][i + 1].ref)
          BY <2>6, <3>1 DEF SettledComesLast
        <4>2. QED
          BY <3>1, <4>1
      <3>3. i > 1 => writes'[w][i - 1] = writes[w][i]
        <4>1. \A j \in DOMAIN writes'[w] : writes'[w][j] = writes[w][j + 1]
          BY <2>1, <2>2, TailElements
        <4>2. DOMAIN writes'[w] = 1 .. Len(writes'[w])
          BY <2>1, <2>2, TailElements, LenProperties
        <4>3. i > 1 => i - 1 \in DOMAIN writes'[w] /\ (i - 1) + 1 = i
          BY <3>1, <4>2
        <4>4. QED
          BY <4>1, <4>3
      <3>4. QED
        BY <2>3, <3>1, <3>2, <3>3
    <2>7. \A q \in Queue, v \in Worker :
            Unanswered(<<q, v>>)' => Latest(v)'.status # "settled"
      BY <1>1, <1>2 DEF SettledComesLast
    <2>8. ASSUME NEW v \in Worker, v # w
          PROVE  /\ books'[v].status = "settled" => writes'[v] = <<>>
                 /\ \A i \in DOMAIN writes'[v] :
                      writes'[v][i].status = "settled" =>
                        /\ i = Len(writes'[v])
                        /\ i = 1 => books'[v] = Sent(writes'[v][i].ref)
                        /\ i > 1 => writes'[v][i-1] = Sent(writes'[v][i].ref)
      BY <2>2, <2>8 DEF SettledComesLast
    <2>9. QED
      BY <2>5, <2>6, <2>7, <2>8 DEF SettledComesLast, Sent
  <1>6. QED
    BY <1>3, <1>4, <1>5

\* A reload with every id in the books: what may yet pay a worker is on the
\* paycheck itself, at worst as sent where the queue of updates had it as settled.
LEMMA ReloadKeepsAttended ==
  ASSUME BooksSound, AttendedOnly, SafeReload
  PROVE  AttendedOnly'
  <1> USE DEF AttendedOnly
  <1>1. /\ \A p \in Queue, v \in Worker : <<p, v>> \in Transfer
        /\ \A t \in Transfer : t[1] \in Queue /\ t[2] \in Worker /\ t = <<t[1], t[2]>>
    BY DEF Transfer
  <1>2. /\ EveryIdIsWritten
        /\ \A w \in Worker : writes'[w] = <<>>
        /\ \A q \in Queue : ~Live(q)'
        /\ \A t \in Transfer : ~Unanswered(t)'
        /\ UNCHANGED <<books, watch, chain>>
    BY <1>1 DEF SafeReload, Reload, Live, Unanswered, OneLiveQueue
  <1>3. \A w \in Worker : Latest(w)' = books[w] /\ DOMAIN writes'[w] = {}
    BY <1>2, NothingQueued DEF Latest
  <1>4. ASSUME NEW q \in Queue, NEW w \in Worker, MayPay(<<q, w>>)
        PROVE  books[w].ref = <<q, w>>
    <2>1. Latest(w).ref = <<q, w>> /\ <<q, w>> # NoTransfer
      BY <1>1, <1>2, <1>4, NoTransferAssumption
         DEF EveryTransferKnown, EveryIdIsWritten, Transfer
    <2>2. CASE writes[w] = <<>>
      BY <2>1, <2>2 DEF Latest
    <2>3. CASE writes[w] # <<>>
      <3> DEFINE n == Len(writes[w])
      <3>1. writes[w] \in Seq(Settlement) /\ n \in Nat /\ n >= 1 /\ DOMAIN writes[w] = 1 .. n
        BY <2>3, TailElements, LenProperties DEF BooksSound, TypeOK
      <3>2. n \in DOMAIN writes[w] /\ Latest(w) = writes[w][n] /\ writes[w][n] \in Settlement
        BY <2>3, <3>1 DEF Latest
      <3>3. writes[w][n].status = "settled"
        <4>1. writes[w][n].status # "pending"
          BY <1>2, <3>2 DEF EveryIdIsWritten
        <4>a. writes[w][n].ref = <<q, w>>
          BY <2>1, <3>2
        <4>b. Sound(w, writes[w][n])
          BY <3>2 DEF BooksSound
        <4>2. writes[w][n].status # "failed"
          BY <2>1, <4>a, <4>b DEF Sound
        <4>3. QED
          BY <3>2, <4>1, <4>2 DEF Settlement
      <3>4. n = 1
        <4>1. ASSUME n > 1 PROVE FALSE
          <5>1. writes[w][n - 1] = Sent(writes[w][n].ref)
            BY <3>2, <3>3, <4>1 DEF SettledComesLast
          <5>2. n - 1 \in DOMAIN writes[w]
            BY <3>1, <4>1
          <5>3. writes[w][n - 1].status = "pending"
            BY <5>1 DEF Sent
          <5>4. QED
            BY <1>2, <5>2, <5>3 DEF EveryIdIsWritten
        <4>2. n \in Nat /\ n >= 1
          BY <3>1
        <4> HIDE DEF n
        <4>3. QED
          BY <4>1, <4>2
      <3>5. books[w] = Sent(writes[w][n].ref)
        BY <3>2, <3>3, <3>4 DEF SettledComesLast
      <3>6. QED
        BY <2>1, <3>2, <3>5 DEF Sent
    <2>4. QED
      BY <2>2, <2>3
  <1>5. OneLiveQueue'
    BY <1>1, <1>2 DEF OneLiveQueue, Live
  <1>6. EveryTransferKnown'
    BY <1>2, <1>3, <1>4 DEF EveryTransferKnown, MayPay
  <1>7. NoRival' /\ PollsWhatTheBooksSay'
    BY <1>1, <1>2 DEF NoRival, PollsWhatTheBooksSay, Unanswered
  <1>8. SettledComesLast'
    BY <1>1, <1>2, <1>3 DEF SettledComesLast
  <1>9. QED
    BY <1>5, <1>6, <1>7, <1>8

\* AttendedInv is inductive.
LEMMA StepAttended ==
  ASSUME AttendedInv, [AttendedNext]_vars
  PROVE  AttendedInv'
  <1>1. BooksSound /\ AttendedOnly
    BY DEF AttendedInv, AttendedOnly
  <1>2. BooksSound'
    BY <1>1, AttendedCases, StepBooksSound
  <1>3. AttendedOnly'
    BY <1>1, AttendedCases, QuietSteps, StartKeepsAttended, OutcomeKeepsAttended,
       AskKeepsAttended, AcceptedKeepsAttended, ApplyKeepsAttended,
       EnvironmentKeepsAttended, ReloadKeepsAttended
  <1>4. QED
    BY <1>2, <1>3 DEF AttendedInv, AttendedOnly

\* At every moment of an attended run, each transfer that may yet pay is in the
\* books or on Shield's screen, and no other one is asked for meanwhile.
THEOREM AlwaysAttended == AttendedSpec => []AttendedInv
  <1>1. Init => AttendedInv
    BY InitBooksSound, InitAttended DEF AttendedInv, AttendedOnly
  <1>2. QED
    BY <1>1, StepAttended, PTL DEF AttendedSpec

\* Of all the transfers asked for on a worker's behalf one at most may yet pay.
LEMMA OneMayPay ==
  ASSUME AttendedInv, NEW w \in Worker, NEW p \in Queue, NEW q \in Queue,
         MayPay(<<p, w>>), MayPay(<<q, w>>)
  PROVE  p = q
  <1>1. CASE stage[<<p, w>>] = "approving" \/ stage[<<q, w>>] = "approving"
    BY <1>1 DEF AttendedInv, NoRival
  <1>2. CASE stage[<<p, w>>] # "approving" /\ stage[<<q, w>>] # "approving"
    <2>1. Latest(w).ref = <<p, w>> /\ Latest(w).ref = <<q, w>>
      BY <1>2 DEF AttendedInv, EveryTransferKnown
    <2>2. QED
      BY <2>1
  <1>3. QED
    BY <1>1, <1>2

\* Nobody is paid twice in an attended run.
THEOREM AttendedPaysOnce == AttendedSpec => []PaidOnce
  <1>1. AttendedInv => PaidOnce
    BY OneMayPay DEF PaidOnce, MayPay
  <1>2. QED
    BY <1>1, AlwaysAttended, PTL

-----------------------------------------------------------------------------
(* A failure is written last, and only of a worker no transfer can still pay. *)

Failing(w) == \E i \in DOMAIN writes[w] : writes[w][i].status = "failed"

FailedIsOver ==
  \A w \in Worker : Failing(w) =>
    \A q \in Queue : ~Unanswered(<<q, w>>) /\ ~MayPay(<<q, w>>)

\* A step that gives nobody an outcome, a prompt or a plan.
LEMMA QuietKeepsFailed ==
  ASSUME FailedIsOver,
         \A w \in Worker : Failing(w)' => Failing(w),
         \A q \in Queue, w \in Worker :
           /\ Unanswered(<<q, w>>)' => Unanswered(<<q, w>>)
           /\ MayPay(<<q, w>>)' => MayPay(<<q, w>>) \/ Unanswered(<<q, w>>)
  PROVE  FailedIsOver'
  BY DEF FailedIsOver

\* An outcome: the queue is done with a worker it reports as failed, and what may yet
\* pay him would be the last word on him.
LEMMA OutcomeKeepsFailed ==
  ASSUME AttendedInv, AttendedInv', FailedIsOver, NEW q \in Queue, NEW w \in Worker,
         \/ Resume(q, w) \/ SendBroken(q, w) \/ ReferenceReturned(q, w)
         \/ RefusalReturned(q, w) \/ SeeRejected(q, w) \/ Settle(q, w)
  PROVE  FailedIsOver'
  <1>1. /\ TypeOK /\ TypeOK' /\ OneLiveQueue
        /\ \A p \in Queue, v \in Worker : <<p, v>> \in Transfer
    BY DEF AttendedInv, BooksSound, Transfer
  <1>2. /\ UNCHANGED <<books, chain>>
        /\ Unanswered(<<q, w>>)
    BY DEF Resume, SendBroken, ReferenceReturned, RefusalReturned, SeeRejected, Settle,
           AtStage, Unanswered
  <1>3. PICK s \in Settlement, st \in {"watching", "done"} :
          /\ Emit(w, s) /\ Goto(q, w, st)
          /\ s.status = "failed" => st = "done" /\ s.ref = NoTransfer
    <2>1. watch[<<q, w>>] \in Transfer \cup {NoTransfer}
      BY <1>1 DEF TypeOK
    <2>2. /\ Failed \in Settlement /\ Failed.ref = NoTransfer
          /\ \A t \in Transfer \cup {NoTransfer} :
               /\ Sent(t) \in Settlement /\ Settled(t) \in Settlement
               /\ Sent(t).status # "failed" /\ Settled(t).status # "failed"
      BY DEF Failed, Sent, Settled, Settlement
    <2>3. QED
      BY <1>1, <2>1, <2>2 DEF Resume, SendBroken, ReferenceReturned, RefusalReturned,
         SeeRejected, Settle
  <1>4. \A p \in Queue, v \in Worker :
          stage'[<<p, v>>] = IF <<p, v>> = <<q, w>> THEN st ELSE stage[<<p, v>>]
    BY <1>1, <1>3 DEF Goto, TypeOK
  <1>5. \A p \in Queue, v \in Worker : Unanswered(<<p, v>>)' => Unanswered(<<p, v>>)
    BY <1>2, <1>4 DEF Unanswered
  <1>6. /\ \A v \in Worker : v # w => writes'[v] = writes[v]
        /\ \A i \in DOMAIN writes'[w] :
             \/ i \in DOMAIN writes[w] /\ writes'[w][i] = writes[w][i]
             \/ writes'[w][i] = s
    BY <1>1, <1>3, EmitAppends
  <1>7. ~Failing(w)
    BY <1>2 DEF FailedIsOver
  <1>8. ASSUME Failing(w)', NEW p \in Queue PROVE ~Unanswered(<<p, w>>)' /\ ~MayPay(<<p, w>>)'
    <2>1. s.status = "failed"
      BY <1>6, <1>7, <1>8 DEF Failing
    <2>2. ~Unanswered(<<p, w>>)'
      <3>1. Unanswered(<<p, w>>)' => p = q
        BY <1>1, <1>2, <1>5, OneUnanswered
      <3>2. ~Unanswered(<<q, w>>)'
        BY <1>3, <1>4, <2>1 DEF Unanswered
      <3>3. QED
        BY <3>1, <3>2
    <2>3. Latest(w)' = s /\ s.ref = NoTransfer
      BY <1>1, <1>2, <1>3, <2>1, EmitLatest
    <2>4. MayPay(<<p, w>>)' => stage'[<<p, w>>] = "approving" \/ Latest(w)'.ref = <<p, w>>
      BY DEF AttendedInv, EveryTransferKnown
    <2>5. QED
      BY <1>1, <2>2, <2>3, <2>4, NoTransferAssumption DEF Unanswered, Transfer
  <1>9. ASSUME NEW v \in Worker, v # w, Failing(v)', NEW p \in Queue
        PROVE  ~Unanswered(<<p, v>>)' /\ ~MayPay(<<p, v>>)'
    BY <1>2, <1>5, <1>6, <1>9 DEF FailedIsOver, Failing, MayPay
  <1>10. QED
    BY <1>8, <1>9 DEF FailedIsOver

\* Every step of an attended run.
LEMMA StepKeepsFailed ==
  ASSUME AttendedInv, AttendedInv', FailedIsOver, [AttendedNext]_vars
  PROVE  FailedIsOver'
  <1>1. /\ TypeOK
        /\ \A p \in Queue, v \in Worker : <<p, v>> \in Transfer
    BY DEF AttendedInv, BooksSound, Transfer
  <1>2. ASSUME NEW q \in Queue, Start(q) PROVE FailedIsOver'
    <2>1. \A w \in Worker : writes'[w] = <<>>
      BY <1>2 DEF Start
    <2>2. \A w \in Worker : DOMAIN writes'[w] = {}
      BY <2>1, NothingQueued
    <2>3. QED
      BY <2>2 DEF FailedIsOver, Failing
  <1>3. ASSUME NEW q \in Queue, NEW w \in Worker, AskWallet(q, w) PROVE FailedIsOver'
    <2>1. /\ UNCHANGED writes /\ Unanswered(<<q, w>>)
          /\ stage' = [stage EXCEPT ![<<q, w>>] = "approving"]
          /\ chain' = [chain EXCEPT ![<<q, w>>] = "asked"]
      BY <1>3 DEF AskWallet, AtStage, Goto, Unanswered
    <2>2. QED
      BY <1>1, <2>1, QuietKeepsFailed DEF Failing, Unanswered, MayPay, TypeOK
  <1>4. ASSUME NEW q \in Queue, NEW w \in Worker, SeeAccepted(q, w) PROVE FailedIsOver'
    <2>1. /\ UNCHANGED <<writes, chain>> /\ Unanswered(<<q, w>>)
          /\ stage' = [stage EXCEPT ![<<q, w>>] = "confirming"]
      BY <1>4 DEF SeeAccepted, AtStage, Goto, Unanswered
    <2>2. QED
      BY <1>1, <2>1, QuietKeepsFailed DEF Failing, Unanswered, MayPay, TypeOK
  <1>5. ASSUME NEW q \in Queue, PlanFails(q) \/ PlanMade(q) \/ Finish(q) PROVE FailedIsOver'
    <2>1. /\ UNCHANGED <<writes, chain>>
          /\ \A t \in Transfer : stage'[t] = stage[t] \/ stage'[t] = "none"
      BY <1>1, <1>5 DEF PlanFails, PlanMade, Finish, TypeOK
    <2>2. QED
      BY <1>1, <2>1, QuietKeepsFailed DEF Failing, Unanswered, MayPay
  <1>6. ASSUME SafeLock \/ Unlock \/ UNCHANGED vars PROVE FailedIsOver'
    <2>1. UNCHANGED <<writes, chain, stage>>
      BY <1>6 DEF SafeLock, Lock, Unlock, vars
    <2>2. QED
      BY <2>1, QuietKeepsFailed DEF Failing, Unanswered, MayPay
  <1>7. ASSUME SafeReload PROVE FailedIsOver'
    <2>1. \A w \in Worker : writes'[w] = <<>>
      BY <1>7 DEF SafeReload, Reload
    <2>2. \A w \in Worker : DOMAIN writes'[w] = {}
      BY <2>1, NothingQueued
    <2>3. QED
      BY <2>2 DEF FailedIsOver, Failing
  <1>8. ASSUME Environment PROVE FailedIsOver'
    <2>1. UNCHANGED <<writes, stage>>
      BY <1>1, <1>8, EnvironmentMoves
    <2>2. PICK t \in Transfer, fate \in {"refused", "taken", "rejected", "accepted"} :
            chain[t] \in {"asked", "taken"} /\ chain' = [chain EXCEPT ![t] = fate]
      BY <1>1, <1>8, EnvironmentMoves
    <2>3. \A u \in Transfer : MayPay(u)' => MayPay(u)
      BY <1>1, <2>2 DEF MayPay, TypeOK
    <2>4. QED
      BY <1>1, <2>1, <2>3, QuietKeepsFailed DEF Failing, Unanswered
  <1>9. ASSUME NEW w \in Worker, ApplyWrite(w) PROVE FailedIsOver'
    <2>1. /\ writes[w] \in Seq(Settlement) /\ writes[w] # <<>>
          /\ writes'[w] = Tail(writes[w])
          /\ \A v \in Worker : v # w => writes'[v] = writes[v]
          /\ UNCHANGED <<chain, stage>>
      BY <1>1, <1>9 DEF ApplyWrite, TypeOK
    <2>2. \A i \in DOMAIN writes'[w] : i + 1 \in DOMAIN writes[w] /\ writes'[w][i] = writes[w][i + 1]
      BY <2>1, TailElements
    <2>3. \A v \in Worker : Failing(v)' => Failing(v)
      BY ZenonT(40), <2>1, <2>2 DEF Failing
    <2>4. QED
      BY <2>1, <2>3, QuietKeepsFailed DEF Unanswered, MayPay
  <1>10. QED
    BY <1>2, <1>3, <1>4, <1>5, <1>6, <1>7, <1>8, <1>9, AttendedCases, OutcomeKeepsFailed

\* In an attended run nobody whose paycheck turns failed has been paid, or can be by a
\* transfer asked for before: Retry is safe.
THEOREM AttendedFailedWasNotPaid == AttendedSpec => FailedWasNotPaid
  <1>1. Init => FailedIsOver
    <2>1. Init => \A w \in Worker : writes[w] = <<>>
      BY DEF Init
    <2>2. QED
      BY <2>1, NothingQueued DEF FailedIsOver, Failing
  <1>2. AttendedInv /\ AttendedInv' /\ FailedIsOver /\ [AttendedNext]_vars => FailedIsOver'
    BY StepKeepsFailed
  <1>3. AttendedInv /\ FailedIsOver /\ [AttendedNext]_vars
          => [\A w \in Worker :
                books[w].status # "failed" /\ books'[w].status = "failed"
                  => \A q \in Queue : chain[<<q, w>>] # "accepted"]_vars
    <2> SUFFICES ASSUME AttendedInv, FailedIsOver, [AttendedNext]_vars, NEW w \in Worker,
                        books[w].status # "failed", books'[w].status = "failed", NEW q \in Queue
                 PROVE  chain[<<q, w>>] # "accepted"
      OBVIOUS
    <2>1. TypeOK
      BY DEF AttendedInv, BooksSound
    <2>2. UNCHANGED books \/ \E v \in Worker : ApplyWrite(v)
      BY ZenonT(40), AttendedCases DEF Start, PlanFails, PlanMade, Finish, Resume, SendBroken,
         AskWallet, ReferenceReturned, RefusalReturned, SeeAccepted, SeeRejected, Settle,
         Environment, WalletTakes, WalletRefuses, NetworkAccepts, NetworkRejects, Becomes,
         SafeReload, Reload, SafeLock, Lock, Unlock, vars
    <2>3. /\ writes[w] \in Seq(Settlement) /\ writes[w] # <<>>
          /\ books'[w] = SettleTo(books[w], Head(writes[w]))
      BY <2>1, <2>2 DEF ApplyWrite, TypeOK
    <2>4. 1 \in DOMAIN writes[w] /\ writes[w][1].status = "failed"
      BY <2>3, HeadElement DEF SettleTo
    <2>5. QED
      BY <2>4 DEF FailedIsOver, Failing, MayPay
  <1>4. QED
    BY <1>1, <1>2, <1>3, AlwaysAttended, PTL DEF AttendedSpec, FailedWasNotPaid

-----------------------------------------------------------------------------
(* An attended run implements Payment.                                     *)

PaidBy   == [w \in Worker |-> {q \in Queue : chain[<<q, w>>] = "accepted"}]
Recorded == [w \in Worker |-> {q \in Queue : books[w] = Settled(<<q, w>>)}]

\* The network's acceptance is the payment; it is the first one of its worker.
LEMMA AcceptanceIsPay ==
  ASSUME AttendedInv, AttendedInv', NEW q \in Queue, NEW w \in Worker,
         NetworkAccepts(<<q, w>>)
  PROVE  Payments!Pay(w, q)
  <1>1. /\ chain[<<q, w>>] = "taken" /\ chain'[<<q, w>>] = "accepted"
        /\ \A p \in Queue, v \in Worker :
             <<p, v>> # <<q, w>> => chain'[<<p, v>>] = chain[<<p, v>>]
        /\ UNCHANGED books
    BY DEF NetworkAccepts, Becomes, AttendedInv, BooksSound, TypeOK, Transfer
  <1>2. \A p \in Queue : p # q => chain[<<p, w>>] # "accepted"
    BY <1>1, OneMayPay DEF MayPay
  <1>3. PaidBy[w] = {}
    BY <1>1, <1>2 DEF PaidBy
  <1>4. PaidBy' = [PaidBy EXCEPT ![w] = {q}]
    <2>1. {p \in Queue : chain'[<<p, w>>] = "accepted"} = {q}
      BY <1>1, <1>2
    <2>2. \A v \in Worker : v # w =>
            {p \in Queue : chain'[<<p, v>>] = "accepted"}
              = {p \in Queue : chain[<<p, v>>] = "accepted"}
      BY <1>1
    <2>3. QED
      BY <2>1, <2>2 DEF PaidBy
  <1>5. Recorded' = Recorded
    BY <1>1 DEF Recorded, Settled
  <1>6. QED
    BY <1>3, <1>4, <1>5 DEF Payments!Pay, PaidBy, Recorded

\* An update that settles a paycheck records the payment; any other one records
\* nothing.
LEMMA ApplyIsRecord ==
  ASSUME AttendedInv, AttendedInv', NEW w \in Worker, ApplyWrite(w)
  PROVE  Payments!Record(w) \/ UNCHANGED <<PaidBy, Recorded>>
  <1>1. /\ UNCHANGED chain
        /\ books'[w] = SettleTo(books[w], Head(writes[w]))
        /\ \A v \in Worker : v # w => books'[v] = books[v]
    BY DEF ApplyWrite, AttendedInv, BooksSound, TypeOK
  <1>2. PaidBy' = PaidBy
    BY <1>1 DEF PaidBy
  <1>3. \A v \in Worker : v # w =>
          {q \in Queue : books'[v] = Settled(<<q, v>>)}
            = {q \in Queue : books[v] = Settled(<<q, v>>)}
    BY <1>1
  <1>4. CASE books'[w] = books[w]
    <2>1. Recorded' = Recorded
      BY <1>3, <1>4 DEF Recorded, Settled
    <2>2. QED
      BY <1>2, <2>1
  <1>5. CASE books'[w] # books[w]
    <2>1. books[w].status # "settled"
      BY <1>1, <1>5 DEF SettleTo
    <2>2. \A q \in Queue : books[w] # Settled(<<q, w>>)
      BY <2>1 DEF Settled
    <2>3. Recorded[w] = {}
      BY <2>2 DEF Recorded
    <2>4. CASE books'[w].status # "settled"
      <3>1. {q \in Queue : books'[w] = Settled(<<q, w>>)}
              = {q \in Queue : books[w] = Settled(<<q, w>>)}
        BY <2>2, <2>4 DEF Settled
      <3>2. Recorded' = Recorded
        BY <1>3, <3>1 DEF Recorded, Settled
      <3>3. QED
        BY <1>2, <3>2
    <2>5. CASE books'[w].status = "settled"
      <3>1. books'[w] \in Settlement /\ Sound(w, books[w])'
        BY DEF AttendedInv, BooksSound, TypeOK, Settlement, Transfer
      <3>2. PICK q \in Queue : books'[w].ref = <<q, w>> /\ chain'[<<q, w>>] = "accepted"
        BY <2>5, <3>1 DEF Sound
      <3>3. books'[w] = Settled(<<q, w>>)
        BY <2>5, <3>1, <3>2 DEF Settled, Settlement
      <3>4. \A p \in Queue : books'[w] = Settled(<<p, w>>) <=> p = q
        BY <3>3 DEF Settled
      <3>5. \A p \in Queue : chain[<<p, w>>] = "accepted" <=> p = q
        BY <1>1, <3>2, OneMayPay DEF MayPay
      <3>6. PaidBy[w] = {q} /\ {p \in Queue : books'[w] = Settled(<<p, w>>)} = {q}
        BY <3>4, <3>5 DEF PaidBy
      <3>7. Recorded' = [Recorded EXCEPT ![w] = {q}]
        BY <1>3, <3>6 DEF Recorded, Settled
      <3>8. QED
        BY <1>2, <2>3, <3>6, <3>7 DEF Payments!Record, PaidBy, Recorded
    <2>6. QED
      BY <2>4, <2>5
  <1>6. QED
    BY <1>4, <1>5

\* Every other step is invisible in Payment.
LEMMA OtherStepsStutter ==
  ASSUME AttendedInv, UNCHANGED books,
         \/ UNCHANGED chain
         \/ \E q \in Queue, w \in Worker : AskWallet(q, w)
         \/ \E t \in Transfer : WalletTakes(t) \/ WalletRefuses(t) \/ NetworkRejects(t)
  PROVE  UNCHANGED <<PaidBy, Recorded>>
  <1>1. \A q \in Queue, w \in Worker : <<q, w>> \in Transfer
    BY DEF Transfer
  <1> DEFINE SameAccepted == \A q \in Queue, w \in Worker :
               chain'[<<q, w>>] = "accepted" <=> chain[<<q, w>>] = "accepted"
  <1>2. SameAccepted
    <2>1. CASE UNCHANGED chain
      BY <2>1
    <2>2. ASSUME NEW q \in Queue, NEW w \in Worker, AskWallet(q, w)
          PROVE  SameAccepted
      <3>1. /\ chain[<<q, w>>] = "none"
            /\ chain' = [chain EXCEPT ![<<q, w>>] = "asked"]
        BY <2>2 DEF AskWallet, AtStage, AttendedInv, BooksSound, AsksOnce
      <3>2. QED
        BY <1>1, <3>1 DEF AttendedInv, BooksSound, TypeOK
    <2>3. ASSUME NEW t \in Transfer, WalletTakes(t) \/ WalletRefuses(t) \/ NetworkRejects(t)
          PROVE  SameAccepted
      <3>1. PICK fate \in {"refused", "taken", "rejected"} :
              /\ chain[t] \in {"asked", "taken"}
              /\ chain' = [chain EXCEPT ![t] = fate]
        BY <2>3 DEF WalletTakes, WalletRefuses, NetworkRejects, Becomes
      <3>2. QED
        BY <1>1, <3>1 DEF AttendedInv, BooksSound, TypeOK
    <2>4. QED
      BY <2>1, <2>2, <2>3
  <1>3. PaidBy' = PaidBy
    BY <1>2 DEF PaidBy
  <1>4. Recorded' = Recorded
    BY DEF Recorded, Settled
  <1>5. QED
    BY <1>3, <1>4

\* The pay queue, in an attended run, does what Payment promises.
THEOREM AttendedImplementsPayment == AttendedSpec => PaymentSpec
  <1>1. Init => Payments!Init
    BY DEF Init, Payments!Init, Unsent, Settled, Transfer
  <1>2. ASSUME AttendedInv, AttendedInv', [AttendedNext]_vars
        PROVE  [Payments!Next]_<<PaidBy, Recorded>>
    <2>1. ASSUME NEW t \in Transfer, NetworkAccepts(t)
          PROVE  Payments!Next
      <3>1. PICK q \in Queue, w \in Worker : t = <<q, w>>
        BY DEF Transfer
      <3>2. Payments!Pay(w, q)
        BY <1>2, <2>1, <3>1, AcceptanceIsPay
      <3>3. QED
        BY <3>2 DEF Payments!Next
    <2>2. ASSUME NEW w \in Worker, ApplyWrite(w)
          PROVE  Payments!Next \/ UNCHANGED <<PaidBy, Recorded>>
      BY <1>2, <2>2, ApplyIsRecord DEF Payments!Next
    <2>3. \/ \E t \in Transfer : NetworkAccepts(t)
          \/ \E w \in Worker : ApplyWrite(w)
          \/ /\ UNCHANGED books
             /\ \/ UNCHANGED chain
                \/ \E q \in Queue, w \in Worker : AskWallet(q, w)
                \/ \E t \in Transfer : WalletTakes(t) \/ WalletRefuses(t) \/ NetworkRejects(t)
      BY ZenonT(40), <1>2, AttendedCases DEF Start, PlanFails, PlanMade, Finish, Resume, SendBroken,
         AskWallet, ReferenceReturned, RefusalReturned, SeeAccepted, SeeRejected, Settle,
         Environment, WalletTakes, WalletRefuses, NetworkRejects, Becomes,
         SafeReload, Reload, SafeLock, Lock, Unlock, vars
    <2>4. QED
      BY <1>2, <2>1, <2>2, <2>3, OtherStepsStutter
  <1>3. QED
    BY <1>1, <1>2, AlwaysAttended, PTL
       DEF AttendedSpec, PaymentSpec, Payments!Spec, PaidBy, Recorded

=============================================================================
