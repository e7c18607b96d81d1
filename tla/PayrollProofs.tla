---------------------------- MODULE PayrollProofs ---------------------------
(***************************************************************************)
(* What people are paid for, from the punches of a shift to the records    *)
(* that pay them: the hours of a week and the weeks sent (Hours), the pay  *)
(* runs and what they take (PayRun), and which record of the account pays  *)
(* whom (TransferPlan).                                                    *)
(***************************************************************************)
EXTENDS Hours, PayRun, TransferPlan, FiniteSums

-----------------------------------------------------------------------------
(***************************************************************************)
(* However long the calendar and whatever its days are: an edit of a punch *)
(* stays within its shift, the weeks show all the time that was worked and *)
(* nothing else, and a business that was told of a week has the week that  *)
(* was sent.                                                               *)
(*                                                                         *)
(* ClockInv: clock-ins and clock-outs take turns, whatever was edited or   *)
(* removed. Each entry of a week is then an interval of its own of the     *)
(* time on the clock, and the lengths of the entries of a week add up to   *)
(* the time worked in it (SumGroups); what a sheet shows is less by what   *)
(* is cut off the minutes of each entry.                                   *)
(*                                                                         *)
(* SentInv: of two letters of one slot that are there or may still come,   *)
(* both say the same; what was marked sent is in its slot, and what the    *)
(* business keeps was in the slot it read.                                 *)
(***************************************************************************)

-----------------------------------------------------------------------------
(* Hours: the calendar.                                                    *)

Midnight(d) == DayStart[d]

LEMMA DaysAre ==
  /\ Len(DayStart) \in Nat /\ Len(DayStart) > 1 /\ DOMAIN DayStart = 1..Len(DayStart)
  /\ \A d \in 1..Len(DayStart) : DayStart[d] \in Nat
  /\ DayStart[1] = 0
  /\ \A d \in Day : d \in 1..Len(DayStart) /\ d + 1 \in 1..Len(DayStart)
  /\ Minute \in Nat /\ Minute > 0
<1>1. DayStart \in Seq(Nat)
  BY DaysAssumption
<1>2. Len(DayStart) \in Nat /\ DOMAIN DayStart = 1..Len(DayStart)
      /\ \A d \in 1..Len(DayStart) : DayStart[d] \in Nat
  BY <1>1
<1>. QED  BY <1>2, DaysAssumption DEF Day

\* Later midnights are later.
LEMMA DaysGrow ==
  ASSUME NEW i \in 1..Len(DayStart), NEW j \in 1..Len(DayStart), i < j
  PROVE  DayStart[i] < DayStart[j]
<1>. DEFINE N == Len(DayStart)
            Bad == {k \in 1..N : i < k /\ ~(DayStart[i] < DayStart[k])}
            same == [k \in Bad |-> k]
<1>1. N \in Nat /\ \A k \in 1..N : DayStart[k] \in Nat
  BY DaysAre
<1>2. \A k \in 1..N : k > 1 => DayStart[k - 1] < DayStart[k]
  BY DaysAre, DaysAssumption DEF Increasing
<1>3. Bad = {}
  <2>. SUFFICES ASSUME Bad # {} PROVE FALSE
    OBVIOUS
  <2>1. IsFiniteSet(Bad)
    <3>1. IsFiniteSet(1..N) /\ Bad \subseteq 1..N
      BY <1>1, FS_Interval
    <3>. QED  BY <3>1, FS_Subset
  <2>2. IntOn(Bad, same) /\ \A k \in Bad : same[k] = k
    BY <1>1 DEF IntOn
  <2>3. PICK k \in Bad : \A m \in Bad : same[k] <= same[m]
    <3>. HIDE DEF Bad, same
    <3>. QED  BY <2>1, <2>2, HasLeast
  <2>4. k \in 1..N /\ i < k /\ ~(DayStart[i] < DayStart[k]) /\ \A m \in Bad : k <= m
    BY <2>2, <2>3
  <2>5. k - 1 \in 1..N /\ i <= k - 1 /\ k > 1 /\ k \in Nat /\ i \in Nat
    BY <1>1, <2>4
  <2>6. k - 1 \notin Bad
    BY <2>4, <2>5
  <2>7. DayStart[i] <= DayStart[k - 1]
    <3>1. CASE i = k - 1
      BY <1>1, <3>1
    <3>2. CASE i # k - 1
      <4>1. i < k - 1
        BY <2>5, <3>2
      <4>2. DayStart[i] < DayStart[k - 1]
        BY <2>5, <2>6, <4>1
      <4>3. DayStart[i] \in Nat /\ DayStart[k - 1] \in Nat
        BY <1>1, <2>5
      <4>. HIDE DEF N, Bad, same
      <4>. QED  BY <4>2, <4>3
    <3>. QED  BY <3>1, <3>2
  <2>8. DayStart[k - 1] < DayStart[k]
    BY <1>2, <2>4, <2>5
  <2>. QED  BY <1>1, <2>4, <2>5, <2>7, <2>8
<1>. QED  BY <1>3

LEMMA DaysOrdered ==
  ASSUME NEW i \in 1..Len(DayStart), NEW j \in 1..Len(DayStart), i <= j
  PROVE  DayStart[i] <= DayStart[j]
<1>1. i = j \/ i < j
  BY DaysAre
<1>2. DayStart[i] \in Nat /\ DayStart[j] \in Nat
  BY DaysAre
<1>. QED  BY <1>1, <1>2, DaysGrow

\* Every instant has one date.
LEMMA DateIs ==
  ASSUME NEW t \in Instant
  PROVE  /\ t \in Nat
         /\ DateOf(t) \in Day
         /\ DayStart[DateOf(t)] <= t /\ t < DayStart[DateOf(t) + 1]
         /\ \A d \in Day : DayStart[d] <= t /\ t < DayStart[d + 1] => d = DateOf(t)
<1>. DEFINE N == Len(DayStart)
            late == {e \in 1..N : t < DayStart[e]}
            same == [e \in late |-> e]
<1>1. N \in Nat /\ N > 1 /\ \A k \in 1..N : DayStart[k] \in Nat
  BY DaysAre
<1>2. t \in Nat /\ t < DayStart[N]
  BY <1>1 DEF Instant
<1>3. \E d \in Day : DayStart[d] <= t /\ t < DayStart[d + 1]
  <2>1. IsFiniteSet(late) /\ late # {}
    <3>1. IsFiniteSet(1..N)
      BY <1>1, FS_Interval
    <3>2. late \subseteq 1..N /\ N \in late
      BY <1>1, <1>2
    <3>. QED  BY <3>1, <3>2, FS_Subset
  <2>2. IntOn(late, same) /\ \A e \in late : same[e] = e
    BY <1>1 DEF IntOn
  <2>3. PICK e \in late : \A f \in late : same[e] <= same[f]
    <3>. HIDE DEF late, same
    <3>. QED  BY <2>1, <2>2, HasLeast
  <2>4. e \in 1..N /\ t < DayStart[e] /\ \A f \in late : e <= f
    BY <2>2, <2>3
  <2>5. e # 1
    BY <1>2, <2>4, DaysAre
  <2>6. e - 1 \in 1..N /\ e - 1 \in Day /\ e - 1 \notin late /\ (e - 1) + 1 = e
    BY <1>1, <2>4, <2>5 DEF Day
  <2>7. DayStart[e - 1] <= t
    BY <1>1, <1>2, <2>6
  <2>. QED  BY <2>4, <2>6, <2>7
<1>4. DateOf(t) \in Day /\ DayStart[DateOf(t)] <= t /\ t < DayStart[DateOf(t) + 1]
  BY <1>3 DEF DateOf
<1>5. ASSUME NEW d \in Day, NEW e \in Day, DayStart[d] <= t, t < DayStart[d + 1],
             DayStart[e] <= t, t < DayStart[e + 1]
      PROVE  ~(d < e)
  <2>. SUFFICES ASSUME d < e PROVE FALSE
    OBVIOUS
  <2>1. d + 1 \in 1..N /\ e \in 1..N /\ d + 1 <= e
    BY DaysAre DEF Day
  <2>2. DayStart[d + 1] <= DayStart[e] /\ DayStart[d + 1] \in Nat /\ DayStart[e] \in Nat
    BY <1>1, <2>1, DaysOrdered
  <2>. QED  BY <1>2, <1>5, <2>2
<1>6. \A d \in Day : DayStart[d] <= t /\ t < DayStart[d + 1] => d = DateOf(t)
  <2>. TAKE d \in Day
  <2>1. d \in Nat /\ DateOf(t) \in Nat
    BY <1>4 DEF Day
  <2>2. DayStart[d] <= t /\ t < DayStart[d + 1] => ~(d < DateOf(t)) /\ ~(DateOf(t) < d)
    BY <1>4, <1>5
  <2>. QED  BY <2>1, <2>2
<1>. QED  BY <1>2, <1>4, <1>6

LEMMA DatesGrow ==
  ASSUME NEW t \in Instant, NEW u \in Instant, t <= u
  PROVE  DateOf(t) <= DateOf(u)
<1>1. /\ t \in Nat /\ u \in Nat /\ DateOf(t) \in Day /\ DateOf(u) \in Day
      /\ DayStart[DateOf(t)] <= t /\ u < DayStart[DateOf(u) + 1]
  BY DateIs
<1>. SUFFICES ASSUME DateOf(u) < DateOf(t) PROVE FALSE
  BY <1>1 DEF Day
<1>. DEFINE d == DateOf(t)
            e == DateOf(u)
<1>2. /\ e + 1 \in 1..Len(DayStart) /\ d \in 1..Len(DayStart) /\ e + 1 <= d
  BY <1>1, DaysAre DEF Day
<1>. HIDE DEF d, e
<1>3. DayStart[e + 1] <= DayStart[d] /\ DayStart[e + 1] \in Nat /\ DayStart[d] \in Nat
  BY <1>2, DaysOrdered, DaysAre
<1>4. DayStart[d] <= t /\ u < DayStart[e + 1]
  BY <1>1 DEF d, e
<1>. QED  BY <1>1, <1>3, <1>4

-----------------------------------------------------------------------------
(* Hours: punches in time order.                                           *)

\* Punches as the file has them.
AreGood(ps) == ps \subseteq Punch /\ IsFiniteSet(ps) /\ Alternate(ps)

LEMMA PunchesAre ==
  ASSUME NEW ps, AreGood(ps)
  PROVE  /\ \A p \in ps : p.at \in Instant /\ p.at \in Nat /\ p.kind \in {"in", "out"}
         /\ \A p, q \in ps : p.at = q.at => p = q
         /\ \A p : IsFiniteSet(Earlier(ps, p)) /\ Cardinality(Earlier(ps, p)) \in Nat
         /\ \A p \in ps : p.kind = "in" <=> Cardinality(Earlier(ps, p)) % 2 = 0
<1>1. \A p \in ps : p.at \in Instant /\ p.kind \in {"in", "out"}
  BY DEF AreGood, Punch
<1>2. \A t \in Instant : t \in Nat
  BY DateIs
<1>3. \A p : IsFiniteSet(Earlier(ps, p)) /\ Cardinality(Earlier(ps, p)) \in Nat
  <2>. TAKE p
  <2>1. Earlier(ps, p) \subseteq ps /\ IsFiniteSet(ps)
    BY DEF Earlier, AreGood
  <2>2. IsFiniteSet(Earlier(ps, p))
    BY <2>1, FS_Subset
  <2>. QED  BY <2>2, FS_CardinalityType
<1>. QED  BY <1>1, <1>2, <1>3 DEF AreGood, Alternate

LEMMA OneMore ==
  ASSUME NEW S, IsFiniteSet(S), NEW x, x \notin S
  PROVE  /\ Cardinality(S) \in Nat /\ Cardinality(S \cup {x}) = Cardinality(S) + 1
         /\ (Cardinality(S \cup {x}) % 2 = 0) <=> ~(Cardinality(S) % 2 = 0)
         /\ (Cardinality(S \cup {x}) % 2 = 1) <=> (Cardinality(S) % 2 = 0)
<1>1. Cardinality(S) \in Nat /\ Cardinality(S \cup {x}) = Cardinality(S) + 1
  BY FS_AddElement, FS_CardinalityType
<1>2. \A n \in Nat : /\ ((n + 1) % 2 = 0) <=> ~(n % 2 = 0)
                     /\ ((n + 1) % 2 = 1) <=> (n % 2 = 0)
  OBVIOUS
<1>. QED  BY <1>1, <1>2

\* The punch next to one in time is of the other kind, and it is next to no other.
LEMMA Follows ==
  ASSUME NEW ps, AreGood(ps), NEW p \in ps, NEW f \in Following(ps, p)
  PROVE  /\ f \in ps /\ p.at < f.at
         /\ \A r \in ps : ~(p.at < r.at /\ r.at < f.at)
         /\ p.kind = "in" <=> f.kind = "out"
         /\ \A q \in ps : f \in Following(ps, q) => p = q
<1>1. f \in ps /\ p.at < f.at /\ \A r \in ps : ~(p.at < r.at /\ r.at < f.at)
  BY PunchesAre DEF Following, Later, Earlier
<1>2. \A r \in ps : r.at < f.at <=> r.at < p.at \/ r = p
  BY <1>1, PunchesAre
<1>3. Earlier(ps, f) = Earlier(ps, p) \cup {p}
  BY <1>1, <1>2 DEF Earlier
<1>4. p \notin Earlier(ps, p) /\ IsFiniteSet(Earlier(ps, p))
  BY PunchesAre DEF Earlier
<1>5. (Cardinality(Earlier(ps, f)) % 2 = 0) <=> ~(Cardinality(Earlier(ps, p)) % 2 = 0)
  BY <1>3, <1>4, OneMore
<1>6. p.kind = "in" <=> f.kind = "out"
  BY <1>1, <1>5, PunchesAre
<1>7. ASSUME NEW q \in ps, f \in Following(ps, q) PROVE p = q
  <2>1. q.at < f.at /\ ~(q.at < p.at /\ p.at < f.at)
    BY <1>7, PunchesAre DEF Following, Later, Earlier
  <2>. QED  BY <1>1, <2>1, PunchesAre
<1>. QED  BY <1>1, <1>6, <1>7

\* What has others between two punches, or after one, is what follows it.
LEMMA FollowingIs ==
  ASSUME NEW ps, NEW p, NEW f
  PROVE  f \in Following(ps, p)
           <=> /\ f \in ps /\ f.at > p.at
               /\ \A r \in ps : ~(r.at > p.at /\ r.at < f.at)
BY DEF Following, Later, Earlier

\* Of two punches that alternate with the same others, one is clocked in the place of the other.
LEMMA SamePlace ==
  ASSUME NEW rest, NEW p, NEW q, p \notin rest, q \notin rest,
         AreGood(rest \cup {p}), AreGood(rest \cup {q})
  PROVE  \A r \in rest : r.at > p.at <=> r.at > q.at
<1>. SUFFICES ASSUME NEW r \in rest PROVE r.at > p.at <=> r.at > q.at
  OBVIOUS
<1>. DEFINE P == rest \cup {p}
            Q == rest \cup {q}
            E == Earlier(rest, r)
<1>1. IsFiniteSet(E) /\ p \notin E /\ q \notin E
  <2>1. E \subseteq Earlier(P, r)
    BY DEF Earlier
  <2>2. IsFiniteSet(Earlier(P, r))
    BY PunchesAre
  <2>. QED  BY <2>1, <2>2, FS_Subset DEF Earlier
<1>2. /\ r.kind = "in" <=> Cardinality(Earlier(P, r)) % 2 = 0
      /\ r.kind = "in" <=> Cardinality(Earlier(Q, r)) % 2 = 0
  BY PunchesAre
<1>3. /\ r.at > p.at => Earlier(P, r) = E \cup {p}
      /\ ~(r.at > p.at) => Earlier(P, r) = E
  <2>1. p \in P /\ r \in P /\ p.at \in Nat /\ r.at \in Nat
    BY PunchesAre
  <2>. QED  BY <2>1 DEF Earlier
<1>4. /\ r.at > q.at => Earlier(Q, r) = E \cup {q}
      /\ ~(r.at > q.at) => Earlier(Q, r) = E
  <2>1. q \in Q /\ r \in Q /\ q.at \in Nat /\ r.at \in Nat
    BY PunchesAre
  <2>. QED  BY <2>1 DEF Earlier
<1>5. /\ (Cardinality(E \cup {p}) % 2 = 0) <=> ~(Cardinality(E) % 2 = 0)
      /\ (Cardinality(E \cup {q}) % 2 = 0) <=> ~(Cardinality(E) % 2 = 0)
  BY <1>1, OneMore
<1>. HIDE DEF E, P, Q
<1>. QED  BY <1>2, <1>3, <1>4, <1>5

\* A punch that alternates with others, which do without it, is the last.
LEMMA ComesLast ==
  ASSUME NEW rest, NEW p, p \notin rest, AreGood(rest), AreGood(rest \cup {p})
  PROVE  \A r \in rest : r.at < p.at
<1>. SUFFICES ASSUME NEW r \in rest PROVE r.at < p.at
  OBVIOUS
<1>. DEFINE P == rest \cup {p}
            E == Earlier(rest, r)
<1>1. /\ p \in P /\ r \in P /\ p.at \in Nat /\ r.at \in Nat /\ r.at # p.at
      /\ r.kind = "in" <=> Cardinality(Earlier(P, r)) % 2 = 0
      /\ r.kind = "in" <=> Cardinality(E) % 2 = 0
      /\ IsFiniteSet(E) /\ p \notin E
  BY PunchesAre DEF Earlier
<1>2. r.at > p.at => Earlier(P, r) = E \cup {p}
  BY <1>1 DEF Earlier
<1>3. (Cardinality(E \cup {p}) % 2 = 0) <=> ~(Cardinality(E) % 2 = 0)
  BY <1>1, OneMore
<1>. HIDE DEF E, P
<1>. QED  BY <1>1, <1>2, <1>3

-----------------------------------------------------------------------------
(* Hours: an edit touches one shift.                                       *)

LEMMA AtMostOne ==
  ASSUME NEW S, \A x, y \in S : x = y
  PROVE  Cardinality(S) <= 1
<1>1. CASE S = {}
  BY <1>1, FS_EmptySet
<1>2. CASE S # {}
  <2>1. PICK x \in S : TRUE
    BY <1>2
  <2>2. S = {x}
    BY <2>1
  <2>. QED  BY <2>2, FS_Singleton
<1>. QED  BY <1>1, <1>2

\* In Clocked(A) and not in Clocked(B) is what has another end in B, or is not there.
LEMMA ClockedLess ==
  ASSUME NEW A, NEW B, NEW s \in Clocked(A) \ Clocked(B)
  PROVE  \E r \in A : /\ r.kind = "in" /\ s = <<r, Following(A, r)>>
                      /\ r \in B => Following(A, r) # Following(B, r)
<1>1. PICK r \in A : r.kind = "in" /\ s = <<r, Following(A, r)>>
  BY DEF Clocked
<1>2. ASSUME r \in B, Following(A, r) = Following(B, r) PROVE FALSE
  BY <1>1, <1>2 DEF Clocked
<1>. QED  BY <1>1, <1>2

\* A punch at another time, with the others as they are.
LEMMA MovedLocal ==
  ASSUME NEW rest, NEW p, NEW q, p \notin rest, q \notin rest, p.kind = q.kind,
         AreGood(rest \cup {p}), AreGood(rest \cup {q})
  PROVE  Cardinality(Clocked(rest \cup {p}) \ Clocked(rest \cup {q})) <= 1
<1>. DEFINE P == rest \cup {p}
            Q == rest \cup {q}
<1>1. \A r \in rest : r.at > p.at <=> r.at > q.at
  BY SamePlace
<1>2. /\ \A r \in P : r.at \in Nat
      /\ \A r \in Q : r.at \in Nat
      /\ \A r \in rest : r.at # p.at /\ r.at # q.at
  BY PunchesAre
<1>3. ASSUME NEW r \in rest, r.kind = "in", p \notin Following(P, r)
      PROVE  Following(P, r) = Following(Q, r)
  <2>1. q \notin Following(Q, r)
    <3>. SUFFICES ASSUME q \in Following(Q, r) PROVE FALSE
      OBVIOUS
    <3>1. q.at > r.at /\ \A s \in rest : ~(s.at > r.at /\ s.at < q.at)
      BY FollowingIs
    <3>2. p.at > r.at /\ \A s \in rest : ~(s.at > r.at /\ s.at < p.at)
      BY <1>1, <1>2, <3>1
    <3>3. \A s \in P : ~(s.at > r.at /\ s.at < p.at)
      BY <1>2, <3>2
    <3>. QED  BY <1>3, <3>2, <3>3, FollowingIs
  <2>2. ASSUME NEW f \in rest PROVE f \in Following(P, r) <=> f \in Following(Q, r)
    <3>1. (p.at > r.at /\ p.at < f.at) <=> (q.at > r.at /\ q.at < f.at)
      BY <1>1, <1>2
    <3>. QED  BY <3>1, FollowingIs
  <2>3. Following(P, r) \subseteq rest
    BY <1>3, FollowingIs
  <2>4. Following(Q, r) \subseteq rest
    BY <2>1, FollowingIs
  <2>. QED  BY <2>2, <2>3, <2>4
<1>4. ASSUME NEW s \in Clocked(P) \ Clocked(Q)
      PROVE  \E r \in P : /\ s = <<r, Following(P, r)>> /\ r.kind = "in"
                          /\ r = p \/ p \in Following(P, r)
  <2>1. PICK r \in P : /\ r.kind = "in" /\ s = <<r, Following(P, r)>>
                       /\ r \in Q => Following(P, r) # Following(Q, r)
    BY ClockedLess
  <2>. QED  BY <1>3, <2>1
<1>5. ASSUME NEW s \in Clocked(P) \ Clocked(Q), NEW z \in Clocked(P) \ Clocked(Q)
      PROVE  s = z
  <2>1. PICK r \in P : /\ s = <<r, Following(P, r)>> /\ r.kind = "in"
                       /\ r = p \/ p \in Following(P, r)
    BY <1>4
  <2>2. PICK w \in P : /\ z = <<w, Following(P, w)>> /\ w.kind = "in"
                       /\ w = p \/ p \in Following(P, w)
    BY <1>4
  <2>3. r = w
    <3>1. CASE p.kind = "in"
      BY <2>1, <2>2, <3>1, Follows
    <3>2. CASE p.kind # "in"
      BY <2>1, <2>2, <3>2, Follows
    <3>. QED  BY <3>1, <3>2
  <2>. QED  BY <2>1, <2>2, <2>3
<1>. QED  BY <1>5, AtMostOne

\* One more punch, which comes last.
LEMMA AddedLocal ==
  ASSUME NEW rest, NEW p, p \notin rest, AreGood(rest), AreGood(rest \cup {p})
  PROVE  /\ Cardinality(Clocked(rest \cup {p}) \ Clocked(rest)) <= 1
         /\ Cardinality(Clocked(rest) \ Clocked(rest \cup {p})) <= 1
<1>. DEFINE P == rest \cup {p}
<1>1. \A r \in rest : r.at < p.at /\ r.at \in Nat /\ p.at \in Nat
  BY ComesLast, PunchesAre
<1>2. ASSUME NEW r \in rest, p \notin Following(P, r)
      PROVE  Following(P, r) = Following(rest, r)
  <2>1. ASSUME NEW f \in rest PROVE f \in Following(P, r) <=> f \in Following(rest, r)
    <3>1. ~(p.at > r.at /\ p.at < f.at)
      BY <1>1
    <3>. QED  BY <3>1, FollowingIs
  <2>2. Following(P, r) \subseteq rest /\ Following(rest, r) \subseteq rest
    BY <1>2, FollowingIs
  <2>. QED  BY <2>1, <2>2
<1>3. ASSUME NEW s \in Clocked(P) \ Clocked(rest)
      PROVE  \E r \in P : /\ s = <<r, Following(P, r)>> /\ r.kind = "in"
                          /\ r = p \/ p \in Following(P, r)
  <2>1. PICK r \in P : /\ r.kind = "in" /\ s = <<r, Following(P, r)>>
                       /\ r \in rest => Following(P, r) # Following(rest, r)
    BY ClockedLess
  <2>. QED  BY <1>2, <2>1
<1>4. ASSUME NEW s \in Clocked(rest) \ Clocked(P)
      PROVE  \E r \in rest : s = <<r, Following(rest, r)>> /\ p \in Following(P, r)
  <2>1. PICK r \in rest : /\ r.kind = "in" /\ s = <<r, Following(rest, r)>>
                          /\ r \in P => Following(rest, r) # Following(P, r)
    BY ClockedLess
  <2>. QED  BY <1>2, <2>1
<1>5. ASSUME NEW s \in Clocked(P) \ Clocked(rest), NEW z \in Clocked(P) \ Clocked(rest)
      PROVE  s = z
  <2>1. PICK r \in P : /\ s = <<r, Following(P, r)>> /\ r.kind = "in"
                       /\ r = p \/ p \in Following(P, r)
    BY <1>3
  <2>2. PICK w \in P : /\ z = <<w, Following(P, w)>> /\ w.kind = "in"
                       /\ w = p \/ p \in Following(P, w)
    BY <1>3
  <2>3. r = w
    <3>1. CASE p.kind = "in"
      BY <2>1, <2>2, <3>1, Follows
    <3>2. CASE p.kind # "in"
      BY <2>1, <2>2, <3>2, Follows
    <3>. QED  BY <3>1, <3>2
  <2>. QED  BY <2>1, <2>2, <2>3
<1>6. ASSUME NEW s \in Clocked(rest) \ Clocked(P), NEW z \in Clocked(rest) \ Clocked(P)
      PROVE  s = z
  <2>1. PICK r \in rest : s = <<r, Following(rest, r)>> /\ p \in Following(P, r)
    BY <1>4
  <2>2. PICK w \in rest : z = <<w, Following(rest, w)>> /\ p \in Following(P, w)
    BY <1>4
  <2>3. r \in P /\ w \in P
    OBVIOUS
  <2>4. r = w
    BY <2>1, <2>2, <2>3, Follows
  <2>. QED  BY <2>1, <2>2, <2>4
<1>7. Cardinality(Clocked(P) \ Clocked(rest)) <= 1
  BY <1>5, AtMostOne
<1>8. Cardinality(Clocked(rest) \ Clocked(P)) <= 1
  BY <1>6, AtMostOne
<1>. QED  BY <1>7, <1>8

\* A clock-in and the clock-out that follows it are gone.
LEMMA RemovedLocal ==
  ASSUME NEW ps, AreGood(ps), NEW p \in ps, p.kind = "in",
         AreGood((ps \ {p}) \ Following(ps, p))
  PROVE  /\ Cardinality(Clocked((ps \ {p}) \ Following(ps, p)) \ Clocked(ps)) <= 1
         /\ Cardinality(Clocked(ps) \ Clocked((ps \ {p}) \ Following(ps, p))) <= 1
<1>. DEFINE left == (ps \ {p}) \ Following(ps, p)
<1>1. \A r \in ps : r.at \in Nat
  BY PunchesAre
<1>2. \A f \in Following(ps, p) : f \in ps /\ f.kind = "out" /\ f.at > p.at
  <2>. TAKE f \in Following(ps, p)
  <2>1. f \in ps /\ p.at < f.at /\ (p.kind = "in" <=> f.kind = "out")
    BY Follows
  <2>. QED  BY <1>1, <2>1
<1>3. ASSUME NEW r \in left, r.kind = "in" PROVE Following(ps, r) = Following(left, r)
  <2>1. r \in ps /\ r # p
    OBVIOUS
  <2>2. ASSUME NEW f \in Following(ps, r) PROVE f \in Following(left, r)
    <3>1. f \in ps /\ f.kind = "out"
      BY <1>3, <2>1, <2>2, Follows
    <3>2. f \notin Following(ps, p)
      BY <2>1, <2>2, Follows
    <3>3. f \in left
      BY <1>3, <3>1, <3>2
    <3>. QED  BY <2>1, <3>3, FollowingIs
  <2>3. ASSUME NEW f \in Following(left, r) PROVE f \in Following(ps, r)
    <3>1. f \in left /\ f.at > r.at /\ \A s \in left : ~(s.at > r.at /\ s.at < f.at)
      BY FollowingIs
    <3>2. ASSUME p.at > r.at, p.at < f.at PROVE FALSE
      <4>1. \A s \in ps : ~(s.at > r.at /\ s.at < p.at)
        <5>. SUFFICES ASSUME NEW s \in ps, s.at > r.at, s.at < p.at PROVE FALSE
          OBVIOUS
        <5>1. s # p /\ s \notin Following(ps, p)
          BY <1>1, <1>2
        <5>2. s \in left /\ s.at < f.at
          BY <1>1, <3>1, <3>2, <5>1
        <5>. QED  BY <3>1, <5>2
      <4>2. p \in Following(ps, r)
        BY <3>2, <4>1, FollowingIs
      <4>. QED  BY <1>3, <2>1, <4>2, Follows
    <3>3. ASSUME NEW s \in Following(ps, p), s.at > r.at, s.at < f.at PROVE FALSE
      <4>1. s \in ps /\ p.at < s.at /\ ~(p.at < r.at /\ r.at < s.at)
        BY <2>1, Follows
      <4>2. p.at # r.at
        BY <2>1, PunchesAre
      <4>3. p.at > r.at /\ p.at < f.at
        BY <1>1, <2>1, <3>1, <3>3, <4>1, <4>2
      <4>. QED  BY <3>2, <4>3
    <3>4. \A s \in ps : ~(s.at > r.at /\ s.at < f.at)
      BY <3>1, <3>2, <3>3
    <3>. QED  BY <3>1, <3>4, FollowingIs
  <2>. QED  BY <2>2, <2>3
<1>4. ASSUME NEW s \in Clocked(left) \ Clocked(ps) PROVE FALSE
  <2>1. PICK r \in left : /\ r.kind = "in" /\ s = <<r, Following(left, r)>>
                          /\ r \in ps => Following(left, r) # Following(ps, r)
    BY ClockedLess
  <2>. QED  BY <1>3, <2>1
<1>5. ASSUME NEW s \in Clocked(ps) \ Clocked(left) PROVE s = <<p, Following(ps, p)>>
  <2>1. PICK r \in ps : /\ r.kind = "in" /\ s = <<r, Following(ps, r)>>
                        /\ r \in left => Following(ps, r) # Following(left, r)
    BY ClockedLess
  <2>2. r \notin left
    BY <1>3, <2>1
  <2>3. r = p
    BY <1>2, <2>1, <2>2
  <2>. QED  BY <2>1, <2>3
<1>6. Cardinality(Clocked(left) \ Clocked(ps)) <= 1
  BY <1>4, AtMostOne
<1>7. Cardinality(Clocked(ps) \ Clocked(left)) <= 1
  BY <1>5, AtMostOne
<1>. QED  BY <1>6, <1>7

-----------------------------------------------------------------------------
(* Hours: the punches through every step.                                  *)

ClockInv ==
  /\ now \in Instant /\ active \in BOOLEAN
  /\ AreGood(punches) /\ Cardinality(punches) <= MaxPunches

AnyNext == ClockNext \/ SendNext \/ \E w \in Week : Press(w)

LEMMA ClockStays ==
  ASSUME ClockInv, UNCHANGED clock
  PROVE  ClockInv'
BY DEF ClockInv, clock

LEMMA SendLeavesClock ==
  ASSUME SendNext \/ \E w \in Week : Press(w)
  PROVE  UNCHANGED clock
BY DEF SendNext, FindTaken, Ask, SeeAccepted, GiveUp, Record, Keep, NetworkDecides, Press, clock

LEMMA InstantsAre == 0 \in Instant /\ \A t \in Instant : t \in Nat
<1>1. DayStart[Len(DayStart)] \in Nat /\ DayStart[Len(DayStart)] > 0
  <2>1. 1 \in 1..Len(DayStart) /\ Len(DayStart) \in 1..Len(DayStart) /\ 1 < Len(DayStart)
    BY DaysAre
  <2>2. DayStart[1] < DayStart[Len(DayStart)]
    BY <2>1, DaysGrow
  <2>. QED  BY <2>1, <2>2, DaysAre
<1>. QED  BY <1>1, DateIs DEF Instant

\* A clock-in or clock-out is the last punch there is.
LEMMA ClockInOutKeeps ==
  ASSUME ClockInv, ClockInOut
  PROVE  /\ ClockInv'
         /\ Cardinality(Clocked(punches) \ Clocked(punches)') <= 1
         /\ Cardinality(Clocked(punches)' \ Clocked(punches)) <= 1
<1>. DEFINE p == [at |-> now, kind |-> IF IsOpen(punches) THEN "out" ELSE "in"]
<1>1. /\ punches' = punches \cup {p} /\ Alternate(punches \cup {p})
      /\ now' = now /\ active' = active
      /\ Cardinality(punches) < MaxPunches
      /\ p \notin punches /\ p \in Punch
  BY DEF ClockInOut, NewPunches, ClockInv, Punch
<1>. HIDE DEF p
<1>2. /\ IsFiniteSet(punches) /\ Cardinality(punches) \in Nat
      /\ IsFiniteSet(punches \cup {p}) /\ Cardinality(punches \cup {p}) = Cardinality(punches) + 1
  BY <1>1, FS_AddElement, FS_CardinalityType DEF ClockInv, AreGood
<1>3. AreGood(punches) /\ AreGood(punches \cup {p})
  BY <1>1, <1>2 DEF ClockInv, AreGood
<1>4. ClockInv'
  BY <1>1, <1>2, <1>3, HoursBounds DEF ClockInv
<1>5. Clocked(punches)' = Clocked(punches \cup {p})
  BY <1>1 DEF Clocked, Following, Later, Earlier
<1>. QED  BY <1>1, <1>3, <1>4, <1>5, AddedLocal

LEMMA UpdatePunchKeeps ==
  ASSUME ClockInv, NEW p \in punches, NEW t \in Instant, UpdatePunch(p, t)
  PROVE  /\ ClockInv'
         /\ Cardinality(Clocked(punches) \ Clocked(punches)') <= 1
         /\ Cardinality(Clocked(punches)' \ Clocked(punches)) <= 1
<1>. DEFINE rest == punches \ {p}
            q == [p EXCEPT !.at = t]
<1>1. p \in Punch /\ p.kind \in {"in", "out"}
  BY DEF ClockInv, AreGood, Punch
<1>2. q \in Punch /\ q.kind = p.kind /\ q.at = t
  BY <1>1 DEF Punch
<1>3. /\ punches' = rest \cup {q} /\ Alternate(rest \cup {q})
      /\ now' = now /\ active' = active
      /\ q \notin rest /\ p \notin rest /\ rest \cup {p} = punches
  BY <1>2 DEF UpdatePunch, NewPunches
<1>. HIDE DEF q
<1>4. /\ IsFiniteSet(punches) /\ IsFiniteSet(rest) /\ IsFiniteSet(rest \cup {q})
      /\ Cardinality(rest \cup {q}) = Cardinality(punches)
  <2>1. IsFiniteSet(punches)
    BY DEF ClockInv, AreGood
  <2>2. IsFiniteSet(rest) /\ Cardinality(rest) = Cardinality(punches) - 1
    BY <2>1, FS_RemoveElement
  <2>3. IsFiniteSet(rest \cup {q}) /\ Cardinality(rest \cup {q}) = Cardinality(rest) + 1
    BY <1>3, <2>2, FS_AddElement
  <2>4. Cardinality(punches) \in Nat
    BY <2>1, FS_CardinalityType
  <2>. QED  BY <2>1, <2>2, <2>3, <2>4
<1>5. AreGood(rest \cup {p}) /\ AreGood(rest \cup {q})
  BY <1>2, <1>3, <1>4 DEF ClockInv, AreGood
<1>6. ClockInv'
  BY <1>3, <1>4, <1>5 DEF ClockInv
<1>7. Clocked(punches)' = Clocked(rest \cup {q}) /\ Clocked(punches) = Clocked(rest \cup {p})
  BY <1>3 DEF Clocked, Following, Later, Earlier
<1>. HIDE DEF rest
<1>8. Cardinality(Clocked(rest \cup {p}) \ Clocked(rest \cup {q})) <= 1
  BY <1>2, <1>3, <1>5, MovedLocal
<1>9. Cardinality(Clocked(rest \cup {q}) \ Clocked(rest \cup {p})) <= 1
  BY <1>2, <1>3, <1>5, MovedLocal
<1>. QED  BY <1>6, <1>7, <1>8, <1>9

LEMMA RemovePunchKeeps ==
  ASSUME ClockInv, NEW p \in punches, RemovePunch(p)
  PROVE  /\ ClockInv'
         /\ Cardinality(Clocked(punches) \ Clocked(punches)') <= 1
         /\ Cardinality(Clocked(punches)' \ Clocked(punches)) <= 1
<1>. DEFINE rest == punches \ {p}
            left == Without(punches, p)
<1>1. /\ punches' = left /\ Alternate(left) /\ p.kind = "in" /\ now' = now /\ active' = active
      /\ p \notin rest /\ rest \cup {p} = punches
  BY DEF RemovePunch, NewPunches
<1>2. left = IF Alternate(rest) THEN rest ELSE rest \ Following(punches, p)
  BY <1>1 DEF Without
<1>3. left \subseteq punches /\ IsFiniteSet(punches) /\ punches \subseteq Punch
  BY <1>2 DEF ClockInv, AreGood
<1>4. IsFiniteSet(left) /\ Cardinality(left) <= Cardinality(punches)
      /\ Cardinality(left) \in Nat /\ Cardinality(punches) \in Nat
  BY <1>3, FS_Subset, FS_CardinalityType
<1>5. AreGood(left) /\ AreGood(punches)
  BY <1>1, <1>3, <1>4 DEF ClockInv, AreGood
<1>6. ClockInv'
  BY <1>1, <1>4, <1>5, HoursBounds DEF ClockInv
<1>7. Clocked(punches)' = Clocked(left)
  BY <1>1 DEF Clocked, Following, Later, Earlier
<1>8. CASE Alternate(rest)
  <2>1. left = rest
    BY <1>2, <1>8
  <2>. HIDE DEF rest, left
  <2>. QED  BY <1>1, <1>5, <1>6, <1>7, <2>1, AddedLocal
<1>9. CASE ~Alternate(rest)
  <2>1. left = (punches \ {p}) \ Following(punches, p)
    BY <1>2, <1>9
  <2>. HIDE DEF left
  <2>. QED  BY <1>1, <1>5, <1>6, <1>7, <2>1, RemovedLocal
<1>. QED  BY <1>8, <1>9

LEMMA ClockInitOK == HoursInit => ClockInv
<1>. SUFFICES ASSUME HoursInit PROVE ClockInv
  OBVIOUS
<1>1. punches = {} /\ now = 0 /\ active = TRUE
  BY DEF HoursInit
<1>2. IsFiniteSet(punches) /\ Cardinality(punches) = 0
  BY <1>1, FS_EmptySet
<1>. QED  BY <1>1, <1>2, InstantsAre, HoursBounds DEF ClockInv, AreGood, Alternate

LEMMA ClockNextKeeps ==
  ASSUME ClockInv, [AnyNext]_hoursVars
  PROVE  /\ ClockInv'
         /\ now' = now /\ active' = active =>
              /\ Cardinality(Clocked(punches) \ Clocked(punches)') <= 1
              /\ Cardinality(Clocked(punches)' \ Clocked(punches)) <= 1
<1>1. ASSUME UNCHANGED punches
      PROVE  /\ Cardinality(Clocked(punches) \ Clocked(punches)') <= 1
             /\ Cardinality(Clocked(punches)' \ Clocked(punches)) <= 1
  <2>1. Clocked(punches)' = Clocked(punches)
    BY <1>1 DEF Clocked, Following, Later, Earlier
  <2>2. Cardinality({}) <= 1
    BY FS_EmptySet
  <2>3. Clocked(punches) \ Clocked(punches)' = {} /\ Clocked(punches)' \ Clocked(punches) = {}
    BY <2>1
  <2>. QED  BY <2>2, <2>3
<1>2. CASE UNCHANGED clock
  BY <1>1, <1>2, ClockStays DEF clock
<1>3. CASE Tick
  <2>1. now' \in Instant /\ UNCHANGED <<active, punches>>
    BY <1>3 DEF Tick
  <2>2. ClockInv'
    BY <2>1 DEF ClockInv
  <2>. QED  BY <1>1, <2>1, <2>2
<1>4. CASE CheckOffers
  <2>1. active' \in BOOLEAN /\ UNCHANGED <<now, punches>>
    BY <1>4 DEF CheckOffers, ClockInv
  <2>2. ClockInv'
    BY <2>1 DEF ClockInv
  <2>. QED  BY <1>1, <2>1, <2>2
<1>5. CASE ClockInOut
  BY <1>5, ClockInOutKeeps
<1>6. ASSUME NEW p \in punches, RemovePunch(p) \/ \E t \in Instant : UpdatePunch(p, t)
      PROVE  /\ ClockInv'
             /\ Cardinality(Clocked(punches) \ Clocked(punches)') <= 1
             /\ Cardinality(Clocked(punches)' \ Clocked(punches)) <= 1
  BY <1>6, RemovePunchKeeps, UpdatePunchKeeps
<1>7. CASE ClockNext
  BY <1>3, <1>4, <1>5, <1>6, <1>7 DEF ClockNext
<1>8. CASE UNCHANGED hoursVars
  BY <1>2, <1>8 DEF hoursVars
<1>. QED  BY <1>2, <1>7, <1>8, SendLeavesClock DEF AnyNext

\* Punches alternate, whatever is clocked, edited or removed.
LEMMA ClockInvariant == HoursSpec => []ClockInv
<1>1. HoursInit => ClockInv
  BY ClockInitOK
<1>2. ClockInv /\ [HoursNext]_hoursVars => ClockInv'
  BY ClockNextKeeps DEF HoursNext, AnyNext
<1>. QED  BY <1>1, <1>2, PTL DEF HoursSpec

\* An edit or a removal touches one shift, of all that were ever clocked.
THEOREM EditsTouchOneShift == HoursSpec => EditsAreLocal
<1>1. ClockInv /\ [HoursNext]_hoursVars =>
        [now' = now /\ active' = active =>
           /\ Cardinality(Clocked(punches) \ Clocked(punches)') <= 1
           /\ Cardinality(Clocked(punches)' \ Clocked(punches)) <= 1]_hoursVars
  BY ClockNextKeeps DEF HoursNext, AnyNext
<1>. QED  BY <1>1, ClockInvariant, PTL DEF HoursSpec, EditsAreLocal

-----------------------------------------------------------------------------
(* Hours: shifts and the instants they cover.                              *)

LEMMA MaxOfTwo ==
  ASSUME NEW a \in Int, NEW b \in Int
  PROVE  Max({a, b}) = IF a >= b THEN a ELSE b
<1>. DEFINE m == IF a >= b THEN a ELSE b
<1>1. m \in {a, b} /\ \A y \in {a, b} : m >= y
  OBVIOUS
<1>2. \A x \in {a, b} : (\A y \in {a, b} : x >= y) => x = m
  OBVIOUS
<1>. QED  BY <1>1, <1>2 DEF Max

LEMMA MinOfTwo ==
  ASSUME NEW a \in Int, NEW b \in Int
  PROVE  Min({a, b}) = IF a <= b THEN a ELSE b
<1>. DEFINE m == IF a <= b THEN a ELSE b
<1>1. m \in {a, b} /\ \A y \in {a, b} : m <= y
  OBVIOUS
<1>2. \A x \in {a, b} : (\A y \in {a, b} : x <= y) => x = m
  OBVIOUS
<1>. QED  BY <1>1, <1>2 DEF Min

\* A punch that nothing follows is the last.
LEMMA NoneFollows ==
  ASSUME NEW ps, AreGood(ps), NEW p \in ps, Following(ps, p) = {}
  PROVE  Later(ps, p) = {}
<1>. SUFFICES ASSUME Later(ps, p) # {} PROVE FALSE
  OBVIOUS
<1>. DEFINE S == Later(ps, p)
            at == [q \in S |-> q.at]
<1>1. IsFiniteSet(S) /\ S \subseteq ps
  BY FS_Subset DEF Later, AreGood
<1>2. IntOn(S, at) /\ \A q \in S : at[q] = q.at
  BY <1>1, PunchesAre DEF IntOn
<1>3. PICK f \in S : \A q \in S : at[f] <= at[q]
  <2>. HIDE DEF S, at
  <2>. QED  BY <1>1, <1>2, HasLeast DEF S
<1>4. f \in S /\ f \in ps /\ \A q \in S : ~(q.at < f.at)
  BY <1>1, <1>2, <1>3, PunchesAre
<1>5. f \in Following(ps, p)
  BY <1>4 DEF Following, Later, Earlier
<1>. QED  BY <1>5

\* A shift goes on until the next punch or, without one, until now but not past its day.
LEMMA EndIs ==
  ASSUME NEW ps, AreGood(ps), NEW p \in ps, now \in Instant
  PROVE  LET end == EndOfShift(ps, p)
         IN  /\ end \in Nat /\ p.at <= end /\ end <= DayStart[Len(DayStart)]
             /\ Following(ps, p) # {} => \E f \in Following(ps, p) : end = f.at
             /\ Following(ps, p) = {} =>
                  \A t \in Nat : p.at <= t =>
                    (t < end <=> t < now /\ t < DayStart[DateOf(p.at) + 1])
<1>. DEFINE end == EndOfShift(ps, p)
            N == Len(DayStart)
            midnight == DayStart[DateOf(p.at) + 1]
<1>1. /\ p.at \in Instant /\ p.at \in Nat /\ now \in Nat
      /\ DateOf(p.at) \in Day /\ p.at < midnight
  BY PunchesAre, DateIs
<1>2. midnight \in Nat /\ midnight <= DayStart[N] /\ DayStart[N] \in Nat
  <2>1. /\ DateOf(p.at) + 1 \in 1..N /\ N \in 1..N /\ DateOf(p.at) + 1 <= N
        /\ N \in Nat /\ \A d \in 1..N : DayStart[d] \in Nat
    BY <1>1, DaysAre
  <2>. QED  BY <2>1, DaysOrdered
<1>3. \A t \in Instant : t < DayStart[N]
  BY <1>2 DEF Instant
<1>4. CASE Following(ps, p) # {}
  <2>1. PICK f \in Following(ps, p) : end = f.at
    BY <1>4 DEF EndOfShift
  <2>2. f \in ps /\ p.at < f.at
    BY Follows
  <2>3. f.at \in Instant /\ f.at \in Nat
    BY <2>2, PunchesAre
  <2>4. end \in Nat /\ p.at <= end /\ end <= DayStart[N]
    BY <1>1, <1>2, <1>3, <2>1, <2>2, <2>3
  <2>. QED  BY <1>4, <2>1, <2>4
<1>5. CASE Following(ps, p) = {}
  <2>1. end = Max({p.at, Min({now, midnight})})
    BY <1>5 DEF EndOfShift
  <2>. HIDE DEF end, midnight
  <2>2. Min({now, midnight}) = IF now <= midnight THEN now ELSE midnight
    BY <1>1, <1>2, MinOfTwo
  <2>3. Min({now, midnight}) \in Nat
    BY <1>1, <1>2, <2>2
  <2>4. end = IF p.at >= Min({now, midnight}) THEN p.at ELSE Min({now, midnight})
    BY <1>1, <2>1, <2>3, MaxOfTwo
  <2>5. p.at < DayStart[N]
    BY <1>1, <1>3
  <2>. DEFINE m == Min({now, midnight})
  <2>6. /\ end \in Nat /\ p.at <= end /\ end <= DayStart[N]
        /\ \A t \in Nat : p.at <= t => (t < end <=> t < now /\ t < midnight)
    <3>1. m = (IF now <= midnight THEN now ELSE midnight) /\ m \in Nat
          /\ end = (IF p.at >= m THEN p.at ELSE m)
      BY <2>2, <2>3, <2>4
    <3>2. m <= DayStart[N] /\ \A t \in Nat : t < m <=> t < now /\ t < midnight
      <4>. HIDE DEF m, N
      <4>. QED  BY <1>1, <1>2, <3>1
    <3>3. end \in Nat /\ p.at <= end /\ end <= DayStart[N]
      <4>. HIDE DEF m, N
      <4>. QED  BY <1>1, <1>2, <2>5, <3>1, <3>2
    <3>4. \A t \in Nat : p.at <= t => (t < end <=> t < m)
      <4>. HIDE DEF m, N
      <4>. QED  BY <1>1, <3>1
    <3>. HIDE DEF m
    <3>. QED  BY <3>2, <3>3, <3>4
  <2>7. p.at <= end /\ \A t \in Nat : p.at <= t => (t < end <=> t < now /\ t < midnight)
    BY <2>6
  <2>. QED  BY <1>5, <2>6, <2>7 DEF end, midnight
<1>. QED  BY <1>4, <1>5

\* t lies in the shift that starts with p.
Covers(ps, p, t) == p \in ps /\ p.kind = "in" /\ p.at <= t /\ t < EndOfShift(ps, p)

\* Between a clock-in and the end of its shift there is no other punch.
LEMMA AloneInShift ==
  ASSUME NEW ps, AreGood(ps), now \in Instant, NEW t \in Nat, NEW p, Covers(ps, p, t)
  PROVE  \A r \in ps : r.at <= t <=> r = p \/ r.at < p.at
<1>. SUFFICES ASSUME NEW r \in ps PROVE r.at <= t <=> r = p \/ r.at < p.at
  OBVIOUS
<1>1. /\ p \in ps /\ p.at <= t /\ t < EndOfShift(ps, p) /\ EndOfShift(ps, p) \in Nat
      /\ p.at \in Nat /\ r.at \in Nat
      /\ r.at = p.at => r = p
  BY EndIs, PunchesAre DEF Covers
<1>2. CASE Following(ps, p) # {}
  <2>1. PICK f \in Following(ps, p) : EndOfShift(ps, p) = f.at
    BY <1>1, <1>2, EndIs
  <2>2. ~(p.at < r.at /\ r.at < f.at)
    BY <1>1, Follows
  <2>. QED  BY <1>1, <2>1, <2>2
<1>3. CASE Following(ps, p) = {}
  <2>1. ~(r.at > p.at)
    BY <1>1, <1>3, NoneFollows DEF Later
  <2>. QED  BY <1>1, <2>1
<1>. QED  BY <1>2, <1>3

LEMMA OneCovers ==
  ASSUME NEW ps, AreGood(ps), now \in Instant, NEW t \in Nat,
         NEW p, Covers(ps, p, t), NEW q, Covers(ps, q, t)
  PROVE  p = q
<1>1. p \in ps /\ q \in ps /\ p.at <= t /\ q.at <= t
  BY DEF Covers
<1>2. p = q \/ p.at < q.at
  BY <1>1, AloneInShift
<1>3. p = q \/ q.at < p.at
  BY <1>1, AloneInShift
<1>4. p.at \in Nat /\ q.at \in Nat
  BY <1>1, PunchesAre
<1>. QED  BY <1>2, <1>3, <1>4

\* A person is on the clock in their shifts, and only then.
LEMMA CoveredIsWorked ==
  ASSUME ClockInv, NEW t \in Instant
  PROVE  OnTheClock(t) <=> \E p \in punches : Covers(punches, p, t)
<1>. DEFINE past == {r \in punches : r.at <= t}
<1>1. AreGood(punches) /\ now \in Instant /\ IsFiniteSet(punches) /\ IsFiniteSet(past)
      /\ t \in Nat /\ now \in Nat
  BY FS_Subset, DateIs DEF ClockInv, AreGood
<1>2. ASSUME NEW p \in punches, Covers(punches, p, t) PROVE OnTheClock(t)
  <2>1. \A r \in punches : r.at <= t <=> r = p \/ r.at < p.at
    BY <1>1, <1>2, AloneInShift
  <2>2. past = Earlier(punches, p) \cup {p}
    BY <2>1 DEF Earlier
  <2>3. p \notin Earlier(punches, p) /\ IsFiniteSet(Earlier(punches, p))
        /\ Cardinality(Earlier(punches, p)) % 2 = 0 /\ p.at \in Nat /\ p.at \in Instant
    BY <1>1, <1>2, PunchesAre DEF Covers, Earlier
  <2>4. Cardinality(past) % 2 = 1
    BY <2>2, <2>3, OneMore
  <2>5. ASSUME past = punches
        PROVE  t < now /\ p \in past /\ Later(past, p) = {} /\ DateOf(p.at) = DateOf(t)
    <3>1. Later(punches, p) = {}
      BY <1>1, <2>1, <2>3, <2>5, PunchesAre DEF Later
    <3>2. Following(punches, p) = {}
      BY <3>1 DEF Following
    <3>3. p.at <= t /\ t < now /\ t < DayStart[DateOf(p.at) + 1]
      BY <1>1, <1>2, <3>2, EndIs DEF Covers
    <3>4. DateOf(p.at) \in Day /\ DayStart[DateOf(p.at)] <= t
      <4>1. DateOf(p.at) \in Day /\ DayStart[DateOf(p.at)] <= p.at
        BY <2>3, DateIs
      <4>2. DayStart[DateOf(p.at)] \in Nat
        BY <4>1, DaysAre
      <4>. QED  BY <1>1, <2>3, <3>3, <4>1, <4>2
    <3>5. DateOf(p.at) = DateOf(t)
      BY <3>3, <3>4, DateIs
    <3>. QED  BY <2>2, <2>5, <3>1, <3>3, <3>5
  <2>. QED  BY <2>4, <2>5 DEF OnTheClock
<1>3. ASSUME OnTheClock(t) PROVE \E p \in punches : Covers(punches, p, t)
  <2>1. /\ Cardinality(past) % 2 = 1
        /\ past = punches => /\ t < now
                             /\ \E p \in past : Later(past, p) = {} /\ DateOf(p.at) = DateOf(t)
    BY <1>3 DEF OnTheClock
  <2>2. past # {}
    <3>. SUFFICES ASSUME past = {} PROVE FALSE
      OBVIOUS
    <3>1. Cardinality(past) = 0
      BY FS_EmptySet
    <3>. HIDE DEF past
    <3>. QED  BY <2>1, <3>1
  <2>3. PICK p \in past : \A r \in past : r.at <= p.at
    <3>. DEFINE back == [r \in past |-> -r.at]
    <3>1. IntOn(past, back) /\ \A r \in past : r.at \in Nat /\ back[r] = -r.at
      BY <1>1, PunchesAre DEF IntOn
    <3>2. PICK p \in past : \A r \in past : back[p] <= back[r]
      <4>. HIDE DEF past, back
      <4>. QED  BY <1>1, <2>2, <3>1, HasLeast
    <3>3. \A r \in past : r.at <= p.at
      <4>. HIDE DEF past, back
      <4>. QED  BY <3>1, <3>2
    <3>. QED  BY <3>2, <3>3
  <2>4. p \in punches /\ p.at <= t /\ p.at \in Nat
    BY <1>1, <2>3, PunchesAre
  <2>5. past = Earlier(punches, p) \cup {p}
    <3>1. \A r \in punches : r.at <= t <=> r = p \/ r.at < p.at
      BY <1>1, <2>3, <2>4, PunchesAre
    <3>. QED  BY <3>1, <2>4 DEF Earlier
  <2>6. Cardinality(Earlier(punches, p)) % 2 = 0
    <3>1. p \notin Earlier(punches, p) /\ IsFiniteSet(Earlier(punches, p))
      BY <1>1, <2>4, PunchesAre DEF Earlier
    <3>. HIDE DEF past
    <3>. QED  BY <2>1, <2>5, <3>1, OneMore
  <2>7. p.kind = "in"
    BY <1>1, <2>4, <2>6, PunchesAre
  <2>8. t < EndOfShift(punches, p)
    <3>1. CASE Following(punches, p) # {}
      <4>1. PICK f \in Following(punches, p) : EndOfShift(punches, p) = f.at
        BY <1>1, <2>4, <3>1, EndIs
      <4>2. f \in punches /\ p.at < f.at /\ f.at \in Nat
        BY <1>1, <2>4, Follows, PunchesAre
      <4>3. f \notin past
        BY <2>3, <2>4, <4>2
      <4>. QED  BY <1>1, <4>1, <4>2, <4>3
    <3>2. CASE Following(punches, p) = {}
      <4>1. Later(punches, p) = {}
        BY <1>1, <2>4, <3>2, NoneFollows
      <4>2. past = punches
        <5>1. \A r \in punches : r.at <= p.at
          BY <1>1, <2>4, <4>1, PunchesAre DEF Later
        <5>. QED  BY <1>1, <2>4, <5>1, PunchesAre
      <4>3. PICK q \in past : Later(past, q) = {} /\ DateOf(q.at) = DateOf(t)
        BY <2>1, <4>2
      <4>4. p = q
        BY <1>1, <2>3, <2>4, <4>1, <4>2, <4>3, PunchesAre DEF Later
      <4>5. t < DayStart[DateOf(p.at) + 1] /\ t < now
        BY <2>1, <4>2, <4>3, <4>4, DateIs
      <4>. QED  BY <1>1, <2>4, <3>2, <4>5, EndIs
    <3>. QED  BY <3>1, <3>2
  <2>. QED  BY <2>4, <2>7, <2>8 DEF Covers
<1>. QED  BY <1>2, <1>3

\* The part of a shift that falls on a day.
LEMMA PieceIs ==
  ASSUME NEW ps, AreGood(ps), now \in Instant, NEW p \in ps, NEW s \in Pieces(ps, p)
  PROVE  /\ s.date \in Day /\ s.in \in Nat /\ s.out \in Nat /\ s.in <= s.out
         /\ MinutesOf(s) \in Nat
         /\ \A t \in Nat : s.in <= t /\ t < s.out
              <=> /\ p.at <= t /\ t < EndOfShift(ps, p)
                  /\ DayStart[s.date] <= t /\ t < DayStart[s.date + 1]
         /\ \A z \in Pieces(ps, p) : z.date = s.date => z = s
<1>. DEFINE end == EndOfShift(ps, p)
<1>1. PICK d \in Day :
        /\ DateOf(p.at) <= d
        /\ d = DateOf(p.at) \/ DayStart[d] < end
        /\ s = [date |-> d, in |-> Max({p.at, DayStart[d]}), out |-> Min({end, DayStart[d + 1]})]
  BY DEF Pieces
<1>2. /\ p.at \in Instant /\ p.at \in Nat /\ end \in Nat /\ p.at <= end
      /\ DateOf(p.at) \in Day /\ DayStart[DateOf(p.at)] <= p.at
      /\ p.at < DayStart[DateOf(p.at) + 1]
  BY PunchesAre, EndIs, DateIs
<1>3. /\ DayStart[d] \in Nat /\ DayStart[d + 1] \in Nat /\ DayStart[d] < DayStart[d + 1]
      /\ DayStart[DateOf(p.at) + 1] <= DayStart[d + 1]
      /\ DayStart[DateOf(p.at) + 1] \in Nat
  <2>1. /\ d \in 1..Len(DayStart) /\ d + 1 \in 1..Len(DayStart) /\ d < d + 1
        /\ DateOf(p.at) + 1 \in 1..Len(DayStart) /\ DateOf(p.at) + 1 <= d + 1
    BY <1>1, <1>2, DaysAre DEF Day
  <2>. QED  BY <2>1, DaysAre, DaysGrow, DaysOrdered
<1>. HIDE DEF end
<1>4. /\ s.date = d
      /\ s.in = IF p.at >= DayStart[d] THEN p.at ELSE DayStart[d]
      /\ s.out = IF end <= DayStart[d + 1] THEN end ELSE DayStart[d + 1]
  BY <1>1, <1>2, <1>3, MaxOfTwo, MinOfTwo
<1>5. d = DateOf(p.at) => DayStart[d] <= p.at
  BY <1>2
<1>6. /\ s.in \in Nat /\ s.out \in Nat /\ s.in <= s.out
      /\ \A t \in Nat : s.in <= t /\ t < s.out
           <=> p.at <= t /\ t < end /\ DayStart[d] <= t /\ t < DayStart[d + 1]
  BY <1>1, <1>2, <1>3, <1>4, <1>5
<1>7. MinutesOf(s) \in Nat
  <2>1. Minute \in Nat /\ Minute > 0
    BY DaysAre
  <2>2. \A n \in Nat : n \div Minute \in Nat
    BY <2>1
  <2>3. s.out - s.in \in Nat
    BY <1>6
  <2>. QED  BY <2>2, <2>3 DEF MinutesOf, WholeMinutes
<1>8. ASSUME NEW z \in Pieces(ps, p), z.date = s.date PROVE z = s
  <2>1. PICK e \in Day :
          z = [date |-> e, in |-> Max({p.at, DayStart[e]}), out |-> Min({end, DayStart[e + 1]})]
    BY DEF Pieces, end
  <2>2. e = d
    BY <1>4, <1>8, <2>1
  <2>. QED  BY <1>1, <2>1, <2>2
<1>9. s.date \in Day
  BY <1>4
<1>. QED  BY <1>4, <1>6, <1>7, <1>8, <1>9 DEF end

\* Every instant of a shift is in the part of its day.
LEMMA PieceOf ==
  ASSUME NEW ps, AreGood(ps), now \in Instant, NEW t \in Instant, NEW p, Covers(ps, p, t)
  PROVE  \E s \in Pieces(ps, p) : s.date = DateOf(t) /\ s.in <= t /\ t < s.out
<1>. DEFINE end == EndOfShift(ps, p)
            d == DateOf(t)
            s == [date |-> d, in |-> Max({p.at, DayStart[d]}), out |-> Min({end, DayStart[d + 1]})]
<1>1. /\ p \in ps /\ p.at <= t /\ t < end /\ p.at \in Instant
      /\ t \in Nat /\ d \in Day /\ DayStart[d] <= t /\ t < DayStart[d + 1]
      /\ DateOf(p.at) <= d /\ end \in Nat
  BY PunchesAre, DateIs, DatesGrow, EndIs DEF Covers
<1>2. d = DateOf(p.at) \/ DayStart[d] < end
  <2>1. DayStart[d] \in Nat
    BY <1>1, DaysAre
  <2>. QED  BY <1>1, <2>1
<1>3. s \in Pieces(ps, p)
  BY <1>1, <1>2 DEF Pieces
<1>4. s.date = d
  OBVIOUS
<1>. HIDE DEF s
<1>5. s.in <= t /\ t < s.out
  BY <1>1, <1>3, <1>4, PieceIs
<1>. QED  BY <1>3, <1>4, <1>5

LEMMA EntriesAre ==
  ASSUME NEW ps, AreGood(ps), now \in Instant, NEW w
  PROVE  /\ IsFiniteSet(Entries(ps, w))
         /\ \A s \in Entries(ps, w) :
              /\ WeekOf(s.date) = w
              /\ \E p \in ps : p.kind = "in" /\ s \in Pieces(ps, p)
<1>. DEFINE ins == {q \in ps : q.kind = "in"}
            all == {Pieces(ps, p) : p \in ins}
<1>1. IsFiniteSet(ins)
  BY FS_Subset DEF AreGood
<1>2. IsFiniteSet(all)
  <2>. DEFINE f == [p \in ins |-> Pieces(ps, p)]
  <2>1. f \in Surjection(ins, all)
    BY DEF Surjection
  <2>. QED  BY <1>1, <2>1, FS_Surjection
<1>3. ASSUME NEW p \in ins PROVE IsFiniteSet(Pieces(ps, p))
  <2>. DEFINE S == {e \in Day : /\ DateOf(p.at) <= e
                                /\ e = DateOf(p.at) \/ DayStart[e] < EndOfShift(ps, p)}
              f == [d \in S |-> [date |-> d, in |-> Max({p.at, DayStart[d]}),
                                 out |-> Min({EndOfShift(ps, p), DayStart[d + 1]})]]
  <2>1. IsFiniteSet(S)
    <3>1. IsFiniteSet(Day)
      BY DaysAre, FS_Interval DEF Day
    <3>. QED  BY <3>1, FS_Subset
  <2>2. f \in Surjection(S, Pieces(ps, p))
    <3>1. Pieces(ps, p) = {f[d] : d \in S}
      BY DEF Pieces
    <3>. HIDE DEF f, S
    <3>2. DOMAIN f = S /\ f = [d \in S |-> f[d]]
      BY DEF f
    <3>. QED  BY <3>1, <3>2 DEF Surjection
  <2>. QED  BY <2>1, <2>2, FS_Surjection
<1>4. \A T \in all : IsFiniteSet(T)
  BY <1>3
<1>5. IsFiniteSet(UNION all)
  <2>. HIDE DEF all
  <2>. QED  BY <1>2, <1>4, FS_UNION
<1>6. Entries(ps, w) \subseteq UNION all
  BY DEF Entries, Shifts
<1>7. IsFiniteSet(Entries(ps, w))
  BY <1>5, <1>6, FS_Subset
<1>8. \A s \in Entries(ps, w) :
        /\ WeekOf(s.date) = w
        /\ \E p \in ps : p.kind = "in" /\ s \in Pieces(ps, p)
  BY DEF Entries, Shifts
<1>. QED  BY <1>7, <1>8

LEMMA WeekMinutesIs ==
  ASSUME NEW ps, AreGood(ps), now \in Instant, NEW w
  PROVE  WeekMinutes(ps, w) \in Nat
<1>. DEFINE E == Entries(ps, w)
            f == [s \in E |-> MinutesOf(s)]
<1>1. IsFiniteSet(E) /\ \A s \in E : f[s] \in Nat
  BY EntriesAre, PieceIs
<1>2. [s \in E |-> f[s]] = [s \in E |-> MinutesOf(s)]
  OBVIOUS
<1>3. WeekMinutes(ps, w) = Over(E, f)
  BY <1>2 DEF WeekMinutes, Over
<1>. HIDE DEF f, E
<1>. QED  BY <1>1, <1>3, SumNat

-----------------------------------------------------------------------------
(* Every instant of a week that was worked is in one entry of the week, and *)
(* what an entry is long is its minutes and less than one more.             *)

Worked(w) == {t \in Instant : OnTheClock(t) /\ WeekOf(DateOf(t)) = w}

\* The instants of an entry are those worked while it lasts.
LEMMA EntryIsWorked ==
  ASSUME ClockInv, NEW w, NEW s \in Entries(punches, w), NEW t \in Nat, s.in <= t, t < s.out
  PROVE  /\ t \in Worked(w)
         /\ \A z \in Entries(punches, w) : z.in <= t /\ t < z.out => z = s
<1>1. AreGood(punches) /\ now \in Instant
  BY DEF ClockInv
<1>2. PICK p \in punches : p.kind = "in" /\ s \in Pieces(punches, p)
  BY <1>1, EntriesAre
<1>3. /\ s.date \in Day /\ p.at <= t /\ t < EndOfShift(punches, p)
      /\ DayStart[s.date] <= t /\ t < DayStart[s.date + 1]
  BY <1>1, <1>2, PieceIs
<1>4. t \in Instant
  <2>1. /\ s.date + 1 \in 1..Len(DayStart) /\ s.date + 1 <= Len(DayStart)
        /\ Len(DayStart) \in 1..Len(DayStart)
    BY <1>3, DaysAre
  <2>2. DayStart[s.date + 1] <= DayStart[Len(DayStart)]
    BY <2>1, DaysOrdered
  <2>3. DayStart[s.date + 1] \in Nat /\ DayStart[Len(DayStart)] \in Nat
    BY <2>1, DaysAre
  <2>. QED  BY <1>3, <2>2, <2>3 DEF Instant
<1>5. DateOf(t) = s.date
  BY <1>3, <1>4, DateIs
<1>6. Covers(punches, p, t)
  BY <1>2, <1>3 DEF Covers
<1>7. OnTheClock(t) /\ WeekOf(DateOf(t)) = w
  BY <1>1, <1>4, <1>5, <1>6, CoveredIsWorked, EntriesAre
<1>8. ASSUME NEW z \in Entries(punches, w), z.in <= t, t < z.out PROVE z = s
  <2>1. PICK q \in punches : q.kind = "in" /\ z \in Pieces(punches, q)
    BY <1>1, EntriesAre
  <2>2. /\ z.date \in Day /\ q.at <= t /\ t < EndOfShift(punches, q)
        /\ DayStart[z.date] <= t /\ t < DayStart[z.date + 1]
    BY <1>1, <1>8, <2>1, PieceIs
  <2>3. Covers(punches, q, t)
    BY <2>1, <2>2 DEF Covers
  <2>4. q = p
    BY <1>1, <1>6, <2>3, OneCovers
  <2>5. z.date = s.date
    BY <1>4, <1>5, <2>2, DateIs
  <2>. QED  BY <1>1, <1>2, <2>1, <2>4, <2>5, PieceIs
<1>. QED  BY <1>4, <1>7, <1>8 DEF Worked

LEMMA WorkedHasEntry ==
  ASSUME ClockInv, NEW w, NEW t \in Worked(w)
  PROVE  \E s \in Entries(punches, w) : s.in <= t /\ t < s.out
<1>1. AreGood(punches) /\ now \in Instant /\ t \in Instant /\ WeekOf(DateOf(t)) = w
  BY DEF ClockInv, Worked
<1>2. PICK p \in punches : Covers(punches, p, t)
  BY <1>1, CoveredIsWorked DEF Worked
<1>3. PICK s \in Pieces(punches, p) : s.date = DateOf(t) /\ s.in <= t /\ t < s.out
  BY <1>1, <1>2, PieceOf
<1>4. s \in Entries(punches, w)
  BY <1>1, <1>2, <1>3 DEF Entries, Shifts, Covers
<1>. QED  BY <1>3, <1>4

\* The entries of a week, put end to end, are the time worked in it.
LEMMA EntriesAddUp ==
  ASSUME ClockInv, NEW w
  PROVE  /\ IsFiniteSet(Worked(w))
         /\ Over(Entries(punches, w), [s \in Entries(punches, w) |-> s.out - s.in])
            = Cardinality(Worked(w))
<1>. DEFINE E == Entries(punches, w)
            W == Worked(w)
            long  == [s \in E |-> s.out - s.in]
            one   == [t \in W |-> 1]
            key   == [t \in W |-> CHOOSE s \in E : s.in <= t /\ t < s.out]
            group == [s \in E |-> s.in..(s.out - 1)]
<1>1. AreGood(punches) /\ now \in Instant
  BY DEF ClockInv
<1>2. IsFiniteSet(E) /\ \A s \in E : s.in \in Nat /\ s.out \in Nat /\ s.in <= s.out
  BY <1>1, EntriesAre, PieceIs
<1>3. IsFiniteSet(W) /\ \A t \in W : t \in Nat
  <2>1. 0 \in Int /\ DayStart[Len(DayStart)] - 1 \in Int
    BY DaysAre
  <2>2. IsFiniteSet(Instant)
    BY <2>1, FS_Interval DEF Instant
  <2>3. W \subseteq Instant
    BY DEF Worked
  <2>. HIDE DEF W
  <2>. QED  BY <2>2, <2>3, FS_Subset, DateIs
<1>4. \A s \in E : \A t \in Nat : s.in <= t /\ t < s.out
        => t \in W /\ \A z \in E : z.in <= t /\ t < z.out => z = s
  BY EntryIsWorked
<1>5. \A t \in W : \E s \in E : s.in <= t /\ t < s.out
  BY WorkedHasEntry
<1>. HIDE DEF E, W
<1>6. \A t \in W : key[t] \in E /\ key[t].in <= t /\ t < key[t].out
  BY <1>5
<1>7. ASSUME NEW s \in E
      PROVE  /\ \A t : t \in group[s] <=> t \in W /\ key[t] = s
             /\ long[s] = Over(group[s], one)
  <2>1. \A t : t \in group[s] <=> t \in Nat /\ s.in <= t /\ t < s.out
    BY <1>2
  <2>2. ASSUME NEW t PROVE t \in group[s] <=> t \in W /\ key[t] = s
    <3>1. CASE t \in group[s]
      <4>1. t \in Nat /\ t \in W /\ \A z \in E : z.in <= t /\ t < z.out => z = s
        BY <1>4, <2>1, <3>1
      <4>. QED  BY <1>6, <3>1, <4>1
    <3>2. CASE t \in W /\ key[t] = s
      BY <1>3, <1>6, <2>1, <3>2
    <3>. QED  BY <3>1, <3>2
  <2>3. IsFiniteSet(group[s]) /\ Cardinality(group[s]) = s.out - s.in
    <3>1. s.in \in Int /\ s.out - 1 \in Int
      BY <1>2
    <3>2. /\ IsFiniteSet(s.in..(s.out - 1))
          /\ Cardinality(s.in..(s.out - 1)) =
               IF s.in > s.out - 1 THEN 0 ELSE (s.out - 1) - s.in + 1
      BY <3>1, FS_Interval
    <3>3. Cardinality(s.in..(s.out - 1)) = s.out - s.in
      BY <1>2, <3>2
    <3>. QED  BY <3>2, <3>3
  <2>4. Over(group[s], one) = Cardinality(group[s])
    <3>1. \A t \in group[s] : one[t] = 1
      BY <2>2
    <3>. HIDE DEF one, group
    <3>. QED  BY <2>3, <3>1, CountIsSum
  <2>. QED  BY <2>2, <2>3, <2>4
<1>8. IntOn(W, one) /\ Over(W, one) = Cardinality(W)
  <2>1. \A t \in W : one[t] = 1
    OBVIOUS
  <2>. HIDE DEF one
  <2>. QED  BY <1>3, <2>1, CountIsSum DEF IntOn
<1>9. Over(E, long) = Over(W, one)
  <2>. HIDE DEF one, key, group, long
  <2>. QED  BY <1>2, <1>3, <1>6, <1>7, <1>8, SumGroups
<1>. QED  BY <1>3, <1>8, <1>9 DEF E, W

LEMMA WholeAndRest ==
  ASSUME NEW n \in Nat
  PROVE  /\ n \div Minute \in Nat
         /\ n - Minute * (n \div Minute) \in 0..(Minute - 1)
<1>1. Minute \in Nat /\ Minute > 0
  BY DaysAre
<1>. QED  BY <1>1

(* What a week shows is the time worked in it but for the seconds of each    *)
(* entry (hours.ts: shiftsOf, weekMinutes, buildTimesheet).                  *)
LEMMA WeekAddsUp ==
  ASSUME ClockInv, NEW w
  PROVE  LET visible == Minute * WeekMinutes(punches, w)
         IN  /\ visible <= Cardinality(Worked(w))
             /\ Cardinality(Worked(w)) <= visible + (Minute - 1) * Cardinality(Entries(punches, w))
<1>. DEFINE E == Entries(punches, w)
            long  == [s \in E |-> s.out - s.in]
            whole == [s \in E |-> MinutesOf(s)]
            visible == [s \in E |-> Minute * whole[s]]
            rest  == [s \in E |-> long[s] - visible[s]]
            one   == [s \in E |-> 1]
            most  == [s \in E |-> (Minute - 1) * one[s]]
            room  == [s \in E |-> most[s] - rest[s]]
<1>1. AreGood(punches) /\ now \in Instant /\ Minute \in Nat /\ Minute > 0
  BY DaysAre DEF ClockInv
<1>2. IsFiniteSet(E)
  BY <1>1, EntriesAre
<1>3. ASSUME NEW s \in E
      PROVE  /\ long[s] \in Nat /\ whole[s] \in Nat /\ visible[s] = Minute * whole[s]
             /\ rest[s] = long[s] - visible[s] /\ rest[s] \in 0..(Minute - 1)
             /\ one[s] = 1 /\ most[s] = (Minute - 1) * one[s]
             /\ room[s] = most[s] - rest[s]
  <2>1. s.in \in Nat /\ s.out \in Nat /\ s.in <= s.out
    BY <1>1, EntriesAre, PieceIs
  <2>2. s.out - s.in \in Nat
    BY <2>1
  <2>3. MinutesOf(s) = (s.out - s.in) \div Minute
    BY DEF MinutesOf, WholeMinutes
  <2>4. (s.out - s.in) \div Minute \in Nat
        /\ (s.out - s.in) - Minute * ((s.out - s.in) \div Minute) \in 0..(Minute - 1)
    BY <2>2, WholeAndRest
  <2>. QED  BY <2>2, <2>3, <2>4
<1>. HIDE DEF E, long, whole, visible, rest, one, most, room
<1>4. \A s \in E : /\ visible[s] \in Int /\ rest[s] \in Nat /\ rest[s] <= Minute - 1
                   /\ most[s] = Minute - 1 /\ most[s] \in Int /\ room[s] \in Nat
  BY <1>1, <1>3
<1>5. IntOn(E, long) /\ IntOn(E, whole) /\ IntOn(E, visible) /\ IntOn(E, rest)
      /\ IntOn(E, one) /\ IntOn(E, most)
  BY <1>3, <1>4 DEF IntOn
<1>6. Over(E, visible) = Minute * Over(E, whole)
  BY <1>1, <1>2, <1>3, <1>5, SumTimes
<1>7. Over(E, rest) = Over(E, long) - Over(E, visible) /\ Over(E, rest) \in Nat
  BY <1>2, <1>3, <1>4, <1>5, SumDifference, SumNat
<1>8. Over(E, most) = (Minute - 1) * Over(E, one)
  BY <1>1, <1>2, <1>3, <1>5, SumTimes
<1>9. Over(E, room) = Over(E, most) - Over(E, rest) /\ Over(E, room) \in Nat
  BY <1>2, <1>3, <1>4, <1>5, SumDifference, SumNat
<1>10. Over(E, one) = Cardinality(E)
  BY <1>2, <1>3, CountIsSum
<1>11. Over(E, long) = Cardinality(Worked(w))
  BY EntriesAddUp DEF E, long
<1>12. Over(E, whole) = WeekMinutes(punches, w)
  <2>1. [s \in E |-> whole[s]] = [s \in E |-> MinutesOf(s)]
    BY DEF whole
  <2>. QED  BY <2>1 DEF WeekMinutes, Over, E
<1>13. /\ Over(E, long) \in Int /\ Over(E, visible) \in Int /\ Over(E, most) \in Int
       /\ Over(E, rest) \in Int /\ Over(E, room) \in Int
  BY <1>2, <1>5, <1>7, <1>9, SumParts
<1>14. Over(E, visible) <= Over(E, long) /\ Over(E, long) <= Over(E, visible) + Over(E, most)
  BY <1>7, <1>9, <1>13
<1>. QED  BY <1>6, <1>8, <1>10, <1>11, <1>12, <1>14 DEF E

(* Whatever was clocked, edited and removed, every week has the time worked  *)
(* in it, once, but for the seconds (hours.ts: shiftsOf, buildTimesheet).    *)
THEOREM WeeksShowWhatWasWorked == HoursSpec => []WeeksAddUp
<1>1. ClockInv => WeeksAddUp
  BY WeekAddsUp DEF WeeksAddUp, Worked
<1>. QED  BY <1>1, ClockInvariant, PTL

-----------------------------------------------------------------------------
(* Hours: what is kept of the weeks that were sent.                        *)

PostTypes ==
  /\ next \in Nat
  /\ sent \in [Week -> [slot : Nat, minutes : Nat] \cup {Nothing}]
  /\ letters \in Seq(Letter) /\ Len(letters) <= Presses
  /\ stage \in {"none", "looking", "waiting", "sent"}
  /\ nextIn \in Nat
  /\ DOMAIN kept = 0..(nextIn - 1) /\ \A n \in DOMAIN kept : kept[n] \in Sheet

\* A letter that may be on chain, and the one of a press that got that far.
Live(i) ==
  \/ letters[i].fate \in {"asked", "accepted"}
  \/ i = Last /\ stage \in {"looking", "sent"}

\* Of the letters that may hold a slot no two differ, and what either side shows is in one
\* that does hold it.
SentInv ==
  /\ stage # "none" => Last > 0
  /\ stage = "looking" => letters[Last].fate = "none"
  /\ stage = "sent" => At(letters[Last].slot) # {}
  /\ \A i, j \in DOMAIN letters :
       Live(i) /\ Live(j) /\ letters[i].slot = letters[j].slot => letters[i].sheet = letters[j].sheet
  /\ \A w \in Week : sent[w] # Nothing =>
       \E i \in At(sent[w].slot) : letters[i].sheet = [week |-> w, minutes |-> sent[w].minutes]
  /\ \A n \in 0..(nextIn - 1) : \E i \in At(n) : kept[n] = letters[i].sheet

PostInv == PostTypes /\ (stage # "none" => Last > 0)

LEMMA LettersAre ==
  ASSUME PostTypes
  PROVE  /\ Last \in Nat /\ DOMAIN letters = 1..Last
         /\ \A i \in 1..Last :
              /\ letters[i] \in Letter /\ letters[i].slot \in Nat
              /\ letters[i].sheet \in Sheet /\ letters[i].sheet.week \in Week
              /\ letters[i].sheet.minutes \in Nat
<1>1. Last \in Nat /\ DOMAIN letters = 1..Last /\ \A i \in 1..Last : letters[i] \in Letter
  BY DEF PostTypes, Last
<1>. QED  BY <1>1 DEF Letter, Sheet

LEMMA FateIs ==
  ASSUME PostTypes, NEW i \in 1..Last, NEW f \in {"none", "asked", "accepted", "lost"}, Fate(i, f)
  PROVE  /\ letters' \in Seq(Letter) /\ Last' = Last
         /\ \A j \in 1..Last :
              /\ letters'[j].slot = letters[j].slot /\ letters'[j].sheet = letters[j].sheet
              /\ letters'[j].fate = IF j = i THEN f ELSE letters[j].fate
<1>. DEFINE new == [letters[i] EXCEPT !.fate = f]
<1>1. /\ letters \in Seq(Letter) /\ Last = Len(letters) /\ Last \in Nat
      /\ \A j \in 1..Last : letters[j] \in Letter
  BY LettersAre DEF PostTypes, Last
<1>2. letters' = [letters EXCEPT ![i] = new]
  BY DEF Fate
<1>3. new \in Letter /\ new.slot = letters[i].slot /\ new.sheet = letters[i].sheet /\ new.fate = f
  BY <1>1 DEF Letter
<1>. HIDE DEF new
<1>4. letters' \in Seq(Letter) /\ Len(letters') = Len(letters)
  BY <1>1, <1>2, <1>3
<1>5. \A j \in 1..Last : letters'[j] = IF j = i THEN new ELSE letters[j]
  BY <1>1, <1>2
<1>. QED  BY <1>1, <1>3, <1>4, <1>5 DEF Last

LEMMA PressIs ==
  ASSUME ClockInv, PostTypes, NEW w \in Week, Press(w)
  PROVE  /\ letters' \in Seq(Letter) /\ Last' = Last + 1 /\ Last' <= Presses
         /\ \A j \in 1..Last : letters'[j] = letters[j]
         /\ letters'[Last + 1] = [sheet |-> [week |-> w, minutes |-> WeekMinutes(punches, w)],
                                  slot |-> next, fate |-> "none"]
<1>. DEFINE new == [sheet |-> [week |-> w, minutes |-> WeekMinutes(punches, w)],
                    slot |-> next, fate |-> "none"]
<1>1. new \in Letter
  <2>1. WeekMinutes(punches, w) \in Nat
    BY WeekMinutesIs DEF ClockInv
  <2>. QED  BY <2>1 DEF Letter, Sheet, PostTypes
<1>2. letters' = Append(letters, new) /\ letters \in Seq(Letter) /\ Last < Presses
  BY DEF Press, PostTypes
<1>. HIDE DEF new
<1>3. letters' \in Seq(Letter) /\ Len(letters') = Len(letters) + 1
      /\ letters'[Len(letters) + 1] = new /\ \A j \in 1..Len(letters) : letters'[j] = letters[j]
  BY <1>1, <1>2
<1>4. Len(letters) \in Nat /\ Len(letters) < Presses /\ Presses \in Nat
  BY <1>2, HoursBounds DEF Last
<1>. QED  BY <1>3, <1>4 DEF Last, new

LEMMA PostInitOK == HoursInit => PostInv /\ SentInv
<1>. SUFFICES ASSUME HoursInit PROVE PostInv /\ SentInv
  OBVIOUS
<1>. USE DEF HoursInit
<1>1. /\ letters = <<>> /\ letters \in Seq(Letter) /\ Len(letters) = 0 /\ Presses \in Nat
      /\ DOMAIN letters = {}
  BY HoursBounds
<1>2. DOMAIN kept = {} /\ 0..(nextIn - 1) = {}
  OBVIOUS
<1>3. PostTypes
  BY <1>1, <1>2 DEF PostTypes
<1>4. \A w \in Week : sent[w] = Nothing
  OBVIOUS
<1>5. SentInv
  BY <1>1, <1>2, <1>4 DEF SentInv
<1>. QED  BY <1>3, <1>5 DEF PostInv

LEMMA PostNextKeeps ==
  ASSUME ClockInv, PostInv, AnyNext \/ UNCHANGED hoursVars
  PROVE  PostInv'
<1>. USE DEF PostInv
<1>1. CASE UNCHANGED <<post, business>>
  BY <1>1 DEF PostTypes, Last, post, business
<1>2. ClockNext => UNCHANGED <<post, business>>
  BY DEF ClockNext, Tick, CheckOffers, ClockInOut, NewPunches, UpdatePunch, RemovePunch
<1>3. UNCHANGED hoursVars => UNCHANGED <<post, business>>
  BY DEF hoursVars
<1>4. CASE FindTaken \/ SeeAccepted \/ GiveUp
  BY <1>4 DEF FindTaken, SeeAccepted, GiveUp, Becomes, PostTypes, Last, business
<1>5. ASSUME NEW i \in 1..Last, NEW f \in {"asked", "accepted", "lost"}, Fate(i, f),
             stage' \in {"none", "looking", "waiting", "sent"}, Last > 0,
             UNCHANGED <<clock, next, sent, business>>
      PROVE  PostInv'
  <2>1. letters' \in Seq(Letter) /\ Last' = Last
    BY <1>5, FateIs
  <2>. QED  BY <1>5, <2>1 DEF PostTypes, Last, business
<1>6. CASE Ask
  <2>1. Last > 0 /\ Last \in 1..Last /\ Fate(Last, "asked")
    BY <1>6, LettersAre DEF Ask
  <2>. QED  BY <1>5, <1>6, <2>1 DEF Ask, Becomes
<1>7. ASSUME NEW i \in DOMAIN letters, NetworkDecides(i) PROVE PostInv'
  <2>1. PICK f \in {"accepted", "lost"} : Fate(i, f)
    BY <1>7 DEF NetworkDecides
  <2>2. i \in 1..Last /\ Last > 0
    BY LettersAre
  <2>. QED  BY <1>5, <1>7, <2>1, <2>2 DEF NetworkDecides, PostTypes
<1>8. CASE Record
  <2>. DEFINE l == letters[Last]
              at == [slot |-> l.slot, minutes |-> l.sheet.minutes]
  <2>1. Last > 0 /\ Last \in 1..Last
    BY <1>8, LettersAre DEF Record
  <2>2. l.slot \in Nat /\ l.sheet.week \in Week /\ l.sheet.minutes \in Nat
    BY <2>1, LettersAre
  <2>3. next' \in Nat
    <3>1. next' = Max({next, l.slot + 1}) /\ next \in Nat /\ l.slot + 1 \in Nat
      BY <1>8, <2>2 DEF Record, Advance, PostTypes
    <3>. QED  BY <3>1, MaxOfTwo
  <2>4. sent' \in [Week -> [slot : Nat, minutes : Nat] \cup {Nothing}]
    <3>1. at \in [slot : Nat, minutes : Nat] /\ sent' = [sent EXCEPT ![l.sheet.week] = at]
      BY <1>8, <2>2 DEF Record
    <3>. HIDE DEF at, l
    <3>. QED  BY <2>2, <3>1 DEF PostTypes
  <2>. QED  BY <1>8, <2>3, <2>4 DEF Record, Becomes, PostTypes, Last, business
<1>9. CASE Keep
  <2>1. PICK i \in At(nextIn) :
          kept' = [n \in 0..nextIn |-> IF n = nextIn THEN letters[i].sheet ELSE kept[n]]
    BY <1>9 DEF Keep
  <2>2. letters[i].sheet \in Sheet
    BY <2>1, LettersAre DEF At
  <2>3. nextIn' = nextIn + 1 /\ nextIn \in Nat /\ UNCHANGED post
    BY <1>9 DEF Keep, PostTypes
  <2>4. DOMAIN kept' = 0..(nextIn' - 1) /\ \A n \in DOMAIN kept' : kept'[n] \in Sheet
    <3>1. 0..nextIn = 0..(nextIn' - 1) /\ DOMAIN kept' = 0..nextIn
      BY <2>1, <2>3
    <3>2. \A n \in 0..nextIn : n = nextIn \/ n \in DOMAIN kept
      BY <2>3 DEF PostTypes
    <3>. QED  BY <2>1, <2>2, <3>1, <3>2 DEF PostTypes
  <2>. QED  BY <2>3, <2>4 DEF PostTypes, Last, post
<1>10. ASSUME NEW w \in Week, Press(w) PROVE PostInv'
  <2>1. letters' \in Seq(Letter) /\ Last' = Last + 1 /\ Last' <= Presses
    BY <1>10, PressIs
  <2>2. Last \in Nat
    BY LettersAre
  <2>. QED  BY <1>10, <2>1, <2>2 DEF Press, Becomes, PostTypes, Last, business
<1>. QED  BY <1>1, <1>2, <1>3, <1>4, <1>6, <1>7, <1>8, <1>9, <1>10 DEF AnyNext, SendNext

\* What was said of the letters is still so of the letters there were before.
LettersStay ==
  /\ Last <= Last'
  /\ \A j \in 1..Last : /\ letters'[j].slot = letters[j].slot /\ letters'[j].sheet = letters[j].sheet
                        /\ letters[j].fate = "accepted" => letters'[j].fate = "accepted"

LEMMA AtGrows ==
  ASSUME PostTypes, PostTypes', LettersStay, NEW n, NEW i \in At(n)
  PROVE  i \in At(n)' /\ i \in 1..Last /\ letters'[i].sheet = letters[i].sheet
<1>1. DOMAIN letters = 1..Last /\ Last \in Nat
  BY LettersAre
<1>2. Last' \in Nat /\ DOMAIN letters' = 1..Last'
  BY DEF PostTypes, Last
<1>. QED  BY <1>1, <1>2 DEF At, LettersStay

LEMMA SentShownStays ==
  ASSUME PostTypes, PostTypes', SentInv, LettersStay, sent' = sent
  PROVE  \A w \in Week : sent'[w] # Nothing =>
           \E i \in At(sent[w].slot)' : letters'[i].sheet = [week |-> w, minutes |-> sent'[w].minutes]
<1>. SUFFICES ASSUME NEW w \in Week, sent'[w] # Nothing
     PROVE  \E i \in At(sent[w].slot)' : letters'[i].sheet = [week |-> w, minutes |-> sent'[w].minutes]
  OBVIOUS
<1>. DEFINE n == sent[w].slot
<1>1. PICK i \in At(n) : letters[i].sheet = [week |-> w, minutes |-> sent[w].minutes]
  BY DEF SentInv
<1>2. sent'[w] = sent[w] /\ sent'[w].slot = n
  OBVIOUS
<1>3. \E m : m = n
  OBVIOUS
<1>4. PICK m : m = n
  BY <1>3
<1>5. i \in At(m)' /\ letters'[i].sheet = letters[i].sheet
  BY <1>1, <1>4, AtGrows
<1>. QED  BY <1>1, <1>2, <1>4, <1>5 DEF At

LEMMA KeptStays ==
  ASSUME PostTypes, PostTypes', SentInv, LettersStay, nextIn' = nextIn, kept' = kept
  PROVE  \A n \in 0..(nextIn' - 1) : \E i \in At(n)' : kept'[n] = letters'[i].sheet
<1>. SUFFICES ASSUME NEW n \in 0..(nextIn - 1)
     PROVE  \E i \in At(n)' : kept[n] = letters'[i].sheet
  OBVIOUS
<1>1. PICK i \in At(n) : kept[n] = letters[i].sheet
  BY DEF SentInv
<1>. QED  BY <1>1, AtGrows

\* If no letter comes to life, none comes to differ.
LEMMA FewerLive ==
  ASSUME PostTypes, SentInv, LettersStay, Last' = Last, \A i \in 1..Last : Live(i)' => Live(i)
  PROVE  \A i, j \in 1..Last' :
           Live(i)' /\ Live(j)' /\ letters'[i].slot = letters'[j].slot => letters'[i].sheet = letters'[j].sheet
<1>1. DOMAIN letters = 1..Last
  BY LettersAre
<1>. QED  BY <1>1 DEF SentInv, LettersStay

LEMMA SentNextKeeps ==
  ASSUME ClockInv, PostInv, PostInv', SentInv, SteadyNext \/ UNCHANGED hoursVars
  PROVE  SentInv'
<1>. USE DEF PostInv
<1>0. /\ DOMAIN letters = 1..Last /\ Last \in Nat /\ Last' \in Nat /\ DOMAIN letters' = 1..Last'
      /\ nextIn \in Nat
  BY LettersAre DEF PostTypes, Last
<1>1. CASE UNCHANGED <<post, business>>
  BY <1>1 DEF SentInv, Live, At, Last, post, business
<1>2. ClockNext => UNCHANGED <<post, business>>
  BY DEF ClockNext, Tick, CheckOffers, ClockInOut, NewPunches, UpdatePunch, RemovePunch
<1>3. UNCHANGED hoursVars => UNCHANGED <<post, business>>
  BY DEF hoursVars
<1>4. ASSUME LettersStay, Last' = Last, \A i \in 1..Last : Live(i)' => Live(i),
             stage' # "none" => stage # "none",
             stage' = "looking" => letters'[Last].fate = "none",
             stage' = "sent" => At(letters[Last].slot)' # {},
             sent' = sent, UNCHANGED business
      PROVE  SentInv'
  <2>1. nextIn' = nextIn /\ kept' = kept
    BY <1>4 DEF business
  <2>2. stage' # "none" => Last' > 0
    BY <1>4 DEF SentInv
  <2>. QED
    BY <1>0, <1>4, <2>1, <2>2, SentShownStays, KeptStays, FewerLive DEF SentInv
<1>5. CASE FindTaken \/ SeeAccepted \/ GiveUp
  <2>1. letters' = letters /\ sent' = sent /\ UNCHANGED business /\ Last' = Last
        /\ stage' \in {"sent", "none"} /\ stage # "none"
    BY <1>5 DEF FindTaken, SeeAccepted, GiveUp, Becomes, Last
  <2>2. LettersStay
    BY <1>0, <2>1 DEF LettersStay
  <2>3. stage' = "sent" => At(letters[Last].slot)' # {} /\ Live(Last)
    <3>1. CASE FindTaken
      BY <2>1, <3>1 DEF FindTaken, At, Live
    <3>2. CASE SeeAccepted
      <4>1. Last > 0
        BY <2>1 DEF SentInv
      <4>2. Last \in At(letters[Last].slot)
        BY <1>0, <3>2, <4>1 DEF SeeAccepted, At
      <4>. QED  BY <2>1, <3>2, <4>2 DEF SeeAccepted, At, Live
    <3>3. CASE GiveUp
      BY <3>3 DEF GiveUp, Becomes
    <3>. QED  BY <1>5, <3>1, <3>2, <3>3
  <2>4. \A i \in 1..Last : Live(i)' => Live(i)
    BY <2>1, <2>3 DEF Live
  <2>. QED  BY <1>4, <2>1, <2>2, <2>3, <2>4
<1>6. ASSUME NEW i \in 1..Last, NEW f \in {"asked", "accepted", "lost"}, Fate(i, f),
             letters[i].fate = "asked" \/ (i = Last /\ stage = "looking"),
             stage' = stage \/ (stage # "none" /\ stage' = "waiting"),
             stage' # "looking" \/ i # Last, sent' = sent, UNCHANGED business
      PROVE  SentInv'
  <2>1. /\ Last' = Last
        /\ \A j \in 1..Last :
              /\ letters'[j].slot = letters[j].slot /\ letters'[j].sheet = letters[j].sheet
              /\ letters'[j].fate = IF j = i THEN f ELSE letters[j].fate
    BY <1>6, FateIs
  <2>2. letters[i].fate # "accepted"
    BY <1>6 DEF SentInv
  <2>3. LettersStay
    BY <1>0, <2>1, <2>2 DEF LettersStay
  <2>4. \A j \in 1..Last : Live(j)' => Live(j)
    BY <1>6, <2>1 DEF Live
  <2>5. stage' = "sent" => At(letters[Last].slot)' # {}
    <3>. SUFFICES ASSUME stage' = "sent" PROVE At(letters[Last].slot)' # {}
      OBVIOUS
    <3>1. stage = "sent" /\ Last > 0 /\ Last \in 1..Last
      BY <1>0, <1>6 DEF SentInv
    <3>2. PICK j \in At(letters[Last].slot) : TRUE
      BY <3>1 DEF SentInv
    <3>3. \A n : n = letters[Last].slot => j \in At(n)'
      BY <2>3, <3>2, AtGrows
    <3>. QED  BY <2>1, <3>1, <3>3 DEF At
  <2>6. stage' = "looking" => letters'[Last].fate = "none"
    <3>1. stage # "none" => Last \in 1..Last
      BY <1>0 DEF SentInv
    <3>. QED  BY <1>6, <2>1, <3>1 DEF SentInv
  <2>. QED  BY <1>4, <1>6, <2>1, <2>3, <2>4, <2>5, <2>6
<1>7. CASE Ask
  <2>1. stage = "looking" /\ Last > 0 /\ Last \in 1..Last
    BY <1>0, <1>7 DEF Ask, SentInv
  <2>. QED  BY <1>6, <1>7, <2>1 DEF Ask, Becomes

<1>8. ASSUME NEW i \in DOMAIN letters, NetworkDecides(i) PROVE SentInv'
  <2>1. PICK f \in {"accepted", "lost"} : Fate(i, f)
    BY <1>8 DEF NetworkDecides
  <2>2. letters[i].fate = "asked" /\ i \in 1..Last /\ UNCHANGED <<sent, stage, business>>
    BY <1>0, <1>8 DEF NetworkDecides
  <2>3. stage' # "looking" \/ i # Last
    BY <2>2 DEF SentInv
  <2>. QED  BY <1>6, <2>1, <2>2, <2>3
<1>9. CASE Record
  <2>. DEFINE l == letters[Last]
              week == l.sheet.week
  <2>1. /\ letters' = letters /\ Last' = Last /\ UNCHANGED business /\ stage = "sent"
        /\ stage' = "none" /\ Last \in 1..Last
        /\ sent' = [sent EXCEPT ![week] = [slot |-> l.slot, minutes |-> l.sheet.minutes]]
    BY <1>0, <1>9 DEF Record, Becomes, Last, SentInv
  <2>2. LettersStay
    BY <1>0, <2>1 DEF LettersStay
  <2>3. \A i \in 1..Last : Live(i)' => Live(i)
    BY <2>1 DEF Live
  <2>4. \A n \in 0..(nextIn' - 1) : \E i \in At(n)' : kept'[n] = letters'[i].sheet
    BY <2>1, <2>2, KeptStays DEF business
  <2>5. ASSUME NEW w \in Week, sent'[w] # Nothing
        PROVE  \E i \in At(sent[w].slot)' :
                 letters'[i].sheet = [week |-> w, minutes |-> sent'[w].minutes]
    <3>1. sent \in [Week -> [slot : Nat, minutes : Nat] \cup {Nothing}] /\ week \in Week
          /\ l.sheet \in Sheet
      BY <2>1, LettersAre DEF PostTypes
    <3>2. CASE w = week
      <4>1. sent'[w] = [slot |-> l.slot, minutes |-> l.sheet.minutes]
        BY <2>1, <3>1, <3>2
      <4>2. PICK i \in At(l.slot) : TRUE
        BY <2>1 DEF SentInv
      <4>3. i \in 1..Last /\ letters[i].fate = "accepted" /\ letters[i].slot = l.slot
        BY <1>0, <4>2 DEF At
      <4>4. Live(i) /\ Live(Last)
        BY <2>1, <4>3 DEF Live
      <4>5. letters[i].sheet = l.sheet
        BY <1>0, <2>1, <4>3, <4>4 DEF SentInv
      <4>6. l.sheet = [week |-> w, minutes |-> sent'[w].minutes]
        BY <3>1, <3>2, <4>1 DEF Sheet
      <4>. QED  BY <1>0, <2>1, <4>1, <4>3, <4>5, <4>6 DEF At
    <3>3. CASE w # week
      <4>1. sent'[w] = sent[w]
        BY <2>1, <3>1, <3>3
      <4>2. PICK i \in At(sent[w].slot) :
              letters[i].sheet = [week |-> w, minutes |-> sent[w].minutes]
        BY <2>5, <4>1 DEF SentInv
      <4>. QED  BY <2>1, <4>1, <4>2 DEF At
    <3>. QED  BY <3>2, <3>3
  <2>. QED  BY <1>0, <2>1, <2>2, <2>3, <2>4, <2>5, FewerLive DEF SentInv
<1>10. CASE Keep
  <2>1. PICK i \in At(nextIn) :
          kept' = [n \in 0..nextIn |-> IF n = nextIn THEN letters[i].sheet ELSE kept[n]]
    BY <1>10 DEF Keep
  <2>2. nextIn' = nextIn + 1 /\ UNCHANGED <<next, sent, letters, stage>> /\ Last' = Last
    BY <1>10 DEF Keep, post, Last
  <2>3. ASSUME NEW n \in 0..(nextIn' - 1)
        PROVE  \E j \in At(n) : kept'[n] = letters[j].sheet
    <3>1. n \in 0..nextIn /\ (n = nextIn \/ n \in 0..(nextIn - 1))
      BY <1>0, <2>2
    <3>2. CASE n = nextIn
      BY <2>1, <3>1, <3>2
    <3>3. CASE n # nextIn
      BY <2>1, <3>1, <3>3 DEF SentInv
    <3>. QED  BY <3>2, <3>3
  <2>4. \A n : At(n)' = At(n)
    BY <2>2 DEF At
  <2>. QED  BY <2>2, <2>3, <2>4 DEF SentInv, Live, At
<1>11. ASSUME NEW w \in Week, Press(w), SameHours(w) PROVE SentInv'
  <2>. DEFINE new == Last + 1
              sheet == [week |-> w, minutes |-> WeekMinutes(punches, w)]
  <2>1. /\ Last' = new /\ \A j \in 1..Last : letters'[j] = letters[j]
        /\ letters'[new] = [sheet |-> sheet, slot |-> next, fate |-> "none"]
    BY <1>11, PressIs
  <2>2. stage = "none" /\ stage' = "looking" /\ sent' = sent /\ UNCHANGED business
    BY <1>11 DEF Press, Becomes
  <2>3. LettersStay
    BY <1>0, <2>1 DEF LettersStay
  <2>4. ASSUME NEW i \in 1..new, Live(i)', i # new
        PROVE  i \in 1..Last /\ Live(i) /\ letters[i].fate \in {"asked", "accepted"}
    <3>1. i \in 1..Last
      BY <1>0, <2>4
    <3>2. letters'[i] = letters[i] /\ i # Last'
      BY <2>1, <2>4, <3>1
    <3>. QED  BY <2>4, <3>1, <3>2 DEF Live
  <2>5. \A i \in 1..Last : letters[i].fate \in {"asked", "accepted"} /\ letters[i].slot = next
          => letters[i].sheet = sheet
    <3>1. next >= next
      BY DEF PostTypes
    <3>2. \A i \in 1..Last : letters[i].fate \in {"asked", "accepted"} /\ letters[i].slot = next
            => Loose(i)
      BY <3>1 DEF Loose
    <3>. QED  BY <1>0, <1>11, <3>2 DEF SameHours
  <2>. HIDE DEF sheet
  <2>6. letters'[new].slot = next /\ letters'[new].sheet = sheet /\ letters'[new].fate = "none"
    BY <2>1
  <2>7. \A i, j \in 1..new :
          Live(i)' /\ Live(j)' /\ letters'[i].slot = letters'[j].slot
          => letters'[i].sheet = letters'[j].sheet
    BY <1>0, <2>1, <2>4, <2>5, <2>6 DEF SentInv
  <2>8. nextIn' = nextIn /\ kept' = kept
    BY <2>2 DEF business
  <2>. HIDE DEF new
  <2>9. new > 0
    BY <1>0 DEF new
  <2>. QED
    BY <1>0, <2>1, <2>2, <2>3, <2>6, <2>7, <2>8, <2>9, SentShownStays, KeptStays DEF SentInv
<1>. QED
  BY <1>1, <1>2, <1>3, <1>5, <1>7, <1>8, <1>9, <1>10, <1>11 DEF SteadyNext, SendNext

LEMMA SteadyInvariant == SteadySpec => [](ClockInv /\ PostInv /\ SentInv)
<1>1. HoursInit => ClockInv /\ PostInv /\ SentInv
  BY ClockInitOK, PostInitOK
<1>2. ClockInv /\ PostInv /\ SentInv /\ [SteadyNext]_hoursVars => (ClockInv /\ PostInv /\ SentInv)'
  <2>. SUFFICES ASSUME ClockInv, PostInv, SentInv, [SteadyNext]_hoursVars
       PROVE  ClockInv' /\ PostInv' /\ SentInv'
    OBVIOUS
  <2>1. AnyNext \/ UNCHANGED hoursVars
    BY DEF SteadyNext, AnyNext
  <2>2. ClockInv' /\ PostInv'
    BY <2>1, ClockNextKeeps, PostNextKeeps
  <2>. QED  BY <2>2, SentNextKeeps
<1>. QED  BY <1>1, <1>2, PTL DEF SteadySpec

(* While a letter that was sent may still arrive, only the same week with    *)
(* the same hours is sent again: then what the file shows as sent is what    *)
(* the business keeps (timesheet.ts, SendTimesheet.tsx, scanHours).          *)
THEOREM SentHoursArrive == SteadySpec => []SentIsWhatArrived
<1>1. ClockInv /\ PostInv /\ SentInv => SentIsWhatArrived
  <2>. SUFFICES ASSUME PostInv, SentInv, NEW w \in Week, sent[w] # Nothing, sent[w].slot < nextIn
       PROVE  kept[sent[w].slot] = [week |-> w, minutes |-> sent[w].minutes]
    BY DEF SentIsWhatArrived
  <2>. DEFINE n == sent[w].slot
  <2>1. n \in 0..(nextIn - 1)
    <3>1. n \in Nat /\ nextIn \in Nat
      BY DEF PostInv, PostTypes
    <3>. QED  BY <3>1
  <2>2. PICK i \in At(n) : letters[i].sheet = [week |-> w, minutes |-> sent[w].minutes]
    BY DEF SentInv
  <2>3. PICK j \in At(n) : kept[n] = letters[j].sheet
    BY <2>1 DEF SentInv
  <2>4. letters[i].sheet = letters[j].sheet
    BY DEF SentInv, At, Live
  <2>. QED  BY <2>2, <2>3, <2>4
<1>. QED  BY <1>1, SteadyInvariant, PTL

LEMMA PostInvariant == HoursSpec => [](ClockInv /\ PostInv)
<1>1. HoursInit => ClockInv /\ PostInv
  BY ClockInitOK, PostInitOK
<1>2. ClockInv /\ PostInv /\ [HoursNext]_hoursVars => (ClockInv /\ PostInv)'
  BY ClockNextKeeps, PostNextKeeps DEF HoursNext, AnyNext
<1>. QED  BY <1>1, <1>2, PTL DEF HoursSpec

\* The types of the punches, of the letters and of what either side keeps.
THEOREM HoursTypes == HoursSpec => []HoursTypeOK
<1>1. ClockInv /\ PostInv => HoursTypeOK
  BY DEF ClockInv, AreGood, PostInv, PostTypes, HoursTypeOK
<1>. QED  BY <1>1, PostInvariant, PTL

\* Steady use is use: what every use keeps, it keeps.
LEMMA SteadyIsUse == SteadySpec => HoursSpec
<1>1. [SteadyNext]_hoursVars => [HoursNext]_hoursVars
  BY DEF SteadyNext, HoursNext
<1>. QED  BY <1>1, PTL DEF SteadySpec, HoursSpec

-----------------------------------------------------------------------------
(***************************************************************************)
(* What holds of posted pay runs however many there are: a paystub is      *)
(* rebuilt as it was posted, nobody is paid again on a day without the     *)
(* question having been asked, everything has its type, and Social         *)
(* Security keeps within its annual maximum.                               *)
(*                                                                         *)
(* A run is only ever added at the end, and of one that is there only the  *)
(* settlement changes: what yearToDate counts before a run stays what it   *)
(* was.  What a page knew of the runs there were when it looked holds      *)
(* until it posts: a failed payment is remembered when it is tried again.  *)
(*                                                                         *)
(* Up to there the sums of the year are taken as they come.  That they are *)
(* amounts, and that one paycheck more adds what it takes, needs sums over *)
(* finite sets: a run posted in the order of its day counts all that the   *)
(* year has taken, and takes no more than is left.                         *)
(***************************************************************************)

IsPaycheck(p) ==
  /\ p = [draft |-> p.draft, paystub |-> p.paystub, status |-> p.status, failed |-> p.failed]
  /\ p.failed \in BOOLEAN

IsRun(run) ==
  /\ run = [date |-> run.date, mode |-> run.mode, asked |-> run.asked,
            checked |-> run.checked, paychecks |-> run.paychecks]
  /\ run.paychecks = [w \in DOMAIN run.paychecks |-> run.paychecks[w]]
  /\ \A w \in DOMAIN run.paychecks : IsPaycheck(run.paychecks[w])

IsPage(p) ==
  p = [date |-> p.date, mode |-> p.mode, hours |-> p.hours, asked |-> p.asked,
       checked |-> p.checked]

\* The one that asks and those handed on.
Pages == {form} \cup {posts[i] : i \in DOMAIN posts}

Shape ==
  /\ Len(runs) \in Nat /\ DOMAIN runs = 1..Len(runs) /\ (\E S : runs \in Seq(S))
  /\ \A r \in DOMAIN runs : IsRun(runs[r]) /\ runs[r].checked \in 0..(r - 1)
  /\ \E S : posts \in Seq(S)
  /\ \A p \in Pages : IsPage(p) /\ p.checked \in 0..Len(runs)

\* A paystub says what the year was before its run.
PaystubsSayTheYear ==
  \A r \in DOMAIN runs : \A w \in DOMAIN runs[r].paychecks : \A date :
    date = runs[r].date =>
      LET p == runs[r].paychecks[w]
      IN  p.paystub = PaystubDocument([rate |-> p.paystub.rate], p.draft,
                                      YearToDate(Before(r), w, date))

\* A failed payment is remembered.
FailedIsKept ==
  \A r \in DOMAIN runs : \A w \in DOMAIN runs[r].paychecks :
    runs[r].paychecks[w].status = "failed" => runs[r].paychecks[w].failed

\* What a page knows of a second payment still holds when it posts.
Knows(p) ==
  \A w \in DOMAIN p.hours : \A r \in SamePay(w, p.date) \cap 1..p.checked :
    /\ w \in DOMAIN p.asked
    /\ Repeat(r, w, p.asked[w]) => runs[r].paychecks[w].failed

PagesHaveAsked == \A p \in Pages : Knows(p)

AskedInv == FailedIsKept /\ PagesHaveAsked /\ RepeatsWereAsked

-----------------------------------------------------------------------------
(* The two ways the runs change.                                           *)

\* What was posted stays, but for how it is paid.
Keeps ==
  /\ DOMAIN runs \subseteq DOMAIN runs'
  /\ \A r \in DOMAIN runs :
       /\ runs'[r].date = runs[r].date
       /\ runs'[r].asked = runs[r].asked
       /\ runs'[r].checked = runs[r].checked
       /\ DOMAIN runs'[r].paychecks = DOMAIN runs[r].paychecks
       /\ \A w \in DOMAIN runs[r].paychecks :
            /\ runs'[r].paychecks[w].draft = runs[r].paychecks[w].draft
            /\ runs'[r].paychecks[w].paystub = runs[r].paychecks[w].paystub

\* What Submit fills in, and what Confirm leaves of it.
Filled(date, mode, hours) ==
  LET askAbout == {w \in DOMAIN hours : SamePay(w, date) # {}}
      gross    == [w \in DOMAIN hours |-> GrossFor(team[w].terms, hours[w])]
  IN  [date |-> date, mode |-> mode, hours |-> hours,
       asked |-> [w \in askAbout |-> gross[w]], checked |-> Len(runs)]

StillHere == {w \in DOMAIN form.hours \cap DOMAIN team : team[w].active}

Confirmed ==
  [form EXCEPT !.hours = [w \in StillHere |-> form.hours[w]],
               !.asked = [w \in StillHere \cap DOMAIN form.asked |-> form.asked[w]]]

\* The pages after a step: no new one but those.
Older(S) == S \subseteq Pages \cup {Closed}

LEMMA AppendPages ==
  ASSUME NEW S, posts \in Seq(S), NEW p, posts' = Append(posts, p), form' \in {form, Closed}
  PROVE  /\ posts' \in Seq(S \cup {p})
         /\ Older(Pages' \ {p})
         /\ Len(posts') = Len(posts) + 1
<1>1. posts \in Seq(S \cup {p}) /\ p \in S \cup {p}
  OBVIOUS
<1>2. /\ posts' \in Seq(S \cup {p}) /\ Len(posts') = Len(posts) + 1
      /\ \A i \in DOMAIN posts' : posts'[i] = p \/ (i \in DOMAIN posts /\ posts'[i] = posts[i])
  BY <1>1
<1>. QED  BY <1>2 DEF Older, Pages

LEMMA TailPages ==
  ASSUME NEW S, posts \in Seq(S), posts # <<>>, posts' = Tail(posts), UNCHANGED form
  PROVE  /\ posts' \in Seq(S)
         /\ Older(Pages')
         /\ Len(posts') = Len(posts) - 1
         /\ Head(posts) \in Pages
<1>1. /\ posts' \in Seq(S) /\ Len(posts') = Len(posts) - 1
      /\ \A i \in DOMAIN posts' : i + 1 \in DOMAIN posts /\ posts'[i] = posts[i + 1]
      /\ Head(posts) = posts[1] /\ 1 \in DOMAIN posts
  OBVIOUS
<1>. QED  BY <1>1 DEF Older, Pages

LEMMA ClosedPages ==
  ASSUME form' \in {form, Closed}, UNCHANGED posts
  PROVE  Older(Pages')
BY DEF Older, Pages

\* A page is the form's or handed on; one that is new was filled in or confirmed.
LEMMA NewPages ==
  ASSUME Shape, Next
  PROVE  /\ \E S : posts' \in Seq(S)
         /\ \/ Older(Pages')
            \/ \E date \in Date, mode \in Mode, hours \in PartOf(DOMAIN team, Hours) :
                 Submit(date, mode, hours) /\ Older(Pages' \ {Filled(date, mode, hours)})
            \/ Confirm /\ Older(Pages' \ {Confirmed})
<1>1. PICK S : posts \in Seq(S)
  BY DEF Shape
<1>2. CASE UNCHANGED posts /\ form' \in {form, Closed}
  BY <1>1, <1>2, ClosedPages
<1>3. CASE PostPayRun \/ PostFails
  BY <1>1, <1>3, TailPages DEF PostPayRun, PostFails
<1>4. CASE Confirm
  <2>1. posts' = Append(posts, Confirmed) /\ form' = Closed
    BY <1>4 DEF Confirm, Confirmed, StillHere
  <2>. QED  BY <1>1, <1>4, <2>1, AppendPages
<1>5. ASSUME NEW date \in Date, NEW mode \in Mode, NEW hours \in PartOf(DOMAIN team, Hours),
             Submit(date, mode, hours)
      PROVE  (\E T : posts' \in Seq(T)) /\ Older(Pages' \ {Filled(date, mode, hours)})
  <2>1. \/ posts' = Append(posts, Filled(date, mode, hours)) /\ UNCHANGED form
        \/ form' = Filled(date, mode, hours) /\ UNCHANGED posts
    BY <1>5 DEF Submit, Filled
  <2>2. CASE posts' = Append(posts, Filled(date, mode, hours)) /\ UNCHANGED form
    BY <1>1, <2>2, AppendPages
  <2>3. CASE form' = Filled(date, mode, hours) /\ UNCHANGED posts
    BY <1>1, <2>3 DEF Older, Pages
  <2>. QED  BY <2>1, <2>2, <2>3
<1>6. CASE TeamNext
  BY <1>2, <1>6 DEF TeamNext, AddWorker, UpdateWorker, RemoveWorker, OnlyTheTeam
<1>7. CASE PayNext
  BY <1>2, <1>7 DEF PayNext, MarkPaycheckSettlement
<1>8. CASE GoBack
  BY <1>2, <1>8 DEF GoBack
<1>. QED  BY <1>3, <1>4, <1>5, <1>6, <1>7, <1>8 DEF Next, FormNext

LEMMA ClosedIsPage == IsPage(Closed) /\ Closed.checked = 0 /\ DOMAIN Closed.hours = {}
BY DEF IsPage, Closed

\* They keep their shape, as there are no fewer runs.
LEMMA PagesShape ==
  ASSUME Shape, Next, Len(runs') \in Nat, Len(runs) <= Len(runs')
  PROVE  /\ \E S : posts' \in Seq(S)
         /\ \A p \in Pages' : IsPage(p) /\ p.checked \in 0..Len(runs')
<1>1. ASSUME NEW S, Older(S), NEW p \in S
      PROVE  IsPage(p) /\ p.checked \in 0..Len(runs')
  BY <1>1, ClosedIsPage DEF Older, Shape
<1>2. ASSUME NEW date, NEW mode, NEW hours
      PROVE  LET p == Filled(date, mode, hours)
             IN  IsPage(p) /\ p.checked \in 0..Len(runs')
  BY DEF Filled, IsPage, Shape
<1>3. IsPage(Confirmed) /\ Confirmed.checked \in 0..Len(runs')
  <2>. DEFINE hours == [w \in StillHere |-> form.hours[w]]
              agreed == [w \in StillHere \cap DOMAIN form.asked |-> form.asked[w]]
  <2>1. Confirmed = [form EXCEPT !.hours = hours, !.asked = agreed]
    BY DEF Confirmed
  <2>2. IsPage(form) /\ form.checked \in 0..Len(runs)
    BY DEF Shape, Pages
  <2>. HIDE DEF hours, agreed
  <2>3. IsPage(Confirmed) /\ Confirmed.checked = form.checked
    BY <2>1, <2>2 DEF IsPage
  <2>4. Len(runs) \in Nat
    BY DEF Shape
  <2>. QED  BY <2>2, <2>3, <2>4
<1>4. ASSUME NEW p, IsPage(p), p.checked \in 0..Len(runs'), Older(Pages' \ {p})
      PROVE  \A q \in Pages' : IsPage(q) /\ q.checked \in 0..Len(runs')
  BY <1>1, <1>4
<1>. QED  BY <1>1, <1>2, <1>3, <1>4, NewPages

LEMMA Posting ==
  ASSUME Shape, PostPayRun
  PROVE  /\ Shape' /\ Keeps
         /\ Len(runs') = Len(runs) + 1
         /\ \A r \in DOMAIN runs : runs'[r] = runs[r]
         /\ runs'[Len(runs) + 1] = NewRun(Head(posts))
         /\ Head(posts) \in Pages
<1>. DEFINE new == NewRun(Head(posts))
<1>1. runs' = Append(runs, new) /\ Next
  BY DEF PostPayRun, Next, FormNext
<1>2. PICK S : runs \in Seq(S)
  BY DEF Shape
<1>3. runs \in Seq(S \cup {new}) /\ new \in S \cup {new}
  BY <1>2
<1>4. Head(posts) \in Pages
  BY TailPages DEF PostPayRun, Shape
<1>5. IsRun(new) /\ new.checked \in 0..Len(runs)
  BY <1>4 DEF NewRun, IsRun, IsPaycheck, Posted, Shape
<1>. HIDE DEF new
<1>6. /\ Len(runs') = Len(runs) + 1
      /\ DOMAIN runs' = 1..Len(runs')
      /\ \A r \in DOMAIN runs : runs'[r] = runs[r]
      /\ runs'[Len(runs) + 1] = new
      /\ runs' \in Seq(S \cup {new})
  BY <1>1, <1>3 DEF Shape
<1>7. \A r \in DOMAIN runs' : IsRun(runs'[r]) /\ runs'[r].checked \in 0..(r - 1)
  <2>1. \A r \in DOMAIN runs' : r \in DOMAIN runs \/ r = Len(runs) + 1
    BY <1>6 DEF Shape
  <2>2. Len(runs) + 1 - 1 = Len(runs)
    BY DEF Shape
  <2>. QED  BY <1>5, <1>6, <2>1, <2>2 DEF Shape
<1>8. Shape'
  BY <1>1, <1>6, <1>7, PagesShape DEF Shape
<1>. QED  BY <1>1, <1>4, <1>6, <1>8 DEF Keeps, Shape, new

\* One paycheck is settled, and nothing else changes.
Settled(r, w, status) ==
  /\ Shape' /\ Keeps
  /\ DOMAIN runs' = DOMAIN runs
  /\ \A q \in DOMAIN runs : \A v \in DOMAIN runs[q].paychecks :
       q # r \/ v # w => runs'[q].paychecks[v] = runs[q].paychecks[v]
  /\ runs'[r].paychecks[w].status = status
  /\ runs'[r].paychecks[w].failed = (runs[r].paychecks[w].failed \/ status = "failed")
  /\ UNCHANGED <<form, posts>>

LEMMA Settling ==
  ASSUME Shape, NEW r \in DOMAIN runs, NEW w \in DOMAIN runs[r].paychecks,
         NEW status \in {"pending", "settled", "failed"}, MarkPaycheckSettlement(r, w, status)
  PROVE  Settled(r, w, status)
<1>. DEFINE p   == runs[r].paychecks[w]
            failed == p.failed \/ status = "failed"
            new == [p EXCEPT !.status = status, !.failed = failed]
            paychecks == [runs[r].paychecks EXCEPT ![w] = new]
            run == [runs[r] EXCEPT !.paychecks = paychecks]
<1>1. runs' = [runs EXCEPT ![r] = run] /\ UNCHANGED <<form, posts>>
  BY DEF MarkPaycheckSettlement
<1>2. IsPaycheck(p) /\ IsRun(runs[r]) /\ failed \in BOOLEAN
  BY DEF Shape, IsRun
<1>. HIDE DEF failed
<1>3. /\ new.draft = p.draft /\ new.paystub = p.paystub /\ new.status = status
      /\ new.failed = failed
      /\ IsPaycheck(new)
  <2>1. p \in [draft : {p.draft}, paystub : {p.paystub}, status : {p.status},
               failed : {p.failed}]
    BY <1>2 DEF IsPaycheck
  <2>2. \A D, P, S, F : \A x \in [draft : D, paystub : P, status : S, failed : F] :
          [x EXCEPT !.status = status, !.failed = failed]
            \in [draft : D, paystub : P, status : {status}, failed : {failed}]
    OBVIOUS
  <2>. HIDE DEF p
  <2>3. new \in [draft : {p.draft}, paystub : {p.paystub}, status : {status},
                 failed : {failed}]
    BY <2>1, <2>2
  <2>. HIDE DEF new
  <2>. QED  BY <1>2, <2>3 DEF IsPaycheck
<1>. HIDE DEF new
<1>4. /\ DOMAIN paychecks = DOMAIN runs[r].paychecks
      /\ paychecks[w] = new
      /\ \A v \in DOMAIN paychecks : v # w => paychecks[v] = runs[r].paychecks[v]
      /\ paychecks = [v \in DOMAIN paychecks |-> paychecks[v]]
  OBVIOUS
<1>. HIDE DEF paychecks
<1>5. /\ run.date = runs[r].date /\ run.asked = runs[r].asked /\ run.paychecks = paychecks
      /\ run.checked = runs[r].checked
      /\ run = [date |-> run.date, mode |-> run.mode, asked |-> run.asked,
                checked |-> run.checked, paychecks |-> run.paychecks]
  BY <1>2 DEF IsRun
<1>6. IsRun(run)
  BY <1>2, <1>3, <1>4, <1>5 DEF IsRun
<1>. HIDE DEF run
<1>7. PICK S : runs \in Seq(S)
  BY DEF Shape
<1>8. runs \in Seq(S \cup {run})
  BY <1>7
<1>9. /\ runs' \in Seq(S \cup {run}) /\ Len(runs') = Len(runs) /\ DOMAIN runs' = DOMAIN runs
      /\ runs'[r] = run
      /\ \A q \in DOMAIN runs : q # r => runs'[q] = runs[q]
  BY <1>1, <1>8 DEF Shape
<1>10. Shape'
  <2>1. \A q \in DOMAIN runs' : IsRun(runs'[q]) /\ runs'[q].checked \in 0..(q - 1)
    BY <1>5, <1>6, <1>9 DEF Shape
  <2>2. Pages' = Pages
    BY <1>1 DEF Pages
  <2>. QED  BY <1>1, <1>9, <2>1, <2>2 DEF Shape
<1>11. Keeps
  BY <1>3, <1>4, <1>5, <1>9 DEF Keeps
<1>. QED  BY <1>1, <1>3, <1>4, <1>5, <1>9, <1>10, <1>11 DEF failed, Settled

\* No other step touches the runs.
LEMMA Others ==
  ASSUME Next
  PROVE  \/ PostPayRun
         \/ \E r \in DOMAIN runs : \E w \in DOMAIN runs[r].paychecks :
              \E status \in {"pending", "settled", "failed"} : MarkPaycheckSettlement(r, w, status)
         \/ UNCHANGED runs
BY DEF Next, TeamNext, FormNext, PayNext, AddWorker, UpdateWorker, RemoveWorker, OnlyTheTeam,
   Submit, Confirm, GoBack, PostFails, OnlyThePages

LEMMA ShapeStep ==
  ASSUME Shape, [Next]_vars
  PROVE  Shape' /\ Keeps
<1>1. CASE PostPayRun
  BY <1>1, Posting
<1>2. ASSUME NEW r \in DOMAIN runs, NEW w \in DOMAIN runs[r].paychecks,
             NEW status \in {"pending", "settled", "failed"}, MarkPaycheckSettlement(r, w, status)
      PROVE  Shape' /\ Keeps
  BY <1>2, Settling DEF Settled
<1>3. CASE Next /\ UNCHANGED runs
  <2>1. Len(runs') \in Nat /\ Len(runs) <= Len(runs')
    BY <1>3 DEF Shape
  <2>. QED  BY <1>3, <2>1, PagesShape DEF Shape, Keeps
<1>4. CASE UNCHANGED vars
  BY <1>4 DEF vars, Shape, Pages, Keeps
<1>. QED  BY <1>1, <1>2, <1>3, <1>4, Others

-----------------------------------------------------------------------------
(* Paystubs.                                                               *)

\* What counted before a run still does.
LEMMA SameYear ==
  ASSUME Keeps, NEW first \in SUBSET DOMAIN runs, NEW w, NEW date
  PROVE  YearToDate(first, w, date)' = YearToDate(first, w, date)
<1>. DEFINE counted == Counted(first, w, date)
            Of(r)   == runs[r].paychecks[w].draft
<1>1. counted' = counted
  BY DEF Keeps, Counted
<1>2. \A r \in counted : Of(r)' = Of(r)
  BY DEF Keeps, Counted
<1>3. /\ [r \in counted |-> Of(r).gross]' = [r \in counted |-> Of(r).gross]
      /\ [r \in counted |-> Of(r).socialSecurity]' = [r \in counted |-> Of(r).socialSecurity]
      /\ [r \in counted |-> Of(r).employerSocialSecurity]'
           = [r \in counted |-> Of(r).employerSocialSecurity]
      /\ [r \in counted |-> Withheld(Of(r))]' = [r \in counted |-> Withheld(Of(r))]
  BY <1>1, <1>2 DEF Withheld
<1>. HIDE DEF counted, Of
<1>. QED  BY <1>3 DEF YearToDate, counted, Of

LEMMA PaystubsStep ==
  ASSUME Shape, PaystubsSayTheYear, [Next]_vars
  PROVE  PaystubsSayTheYear'
<1>1. Shape' /\ Keeps
  BY ShapeStep
<1>2. \A r \in DOMAIN runs : Before(r) \in SUBSET DOMAIN runs
  BY DEF Shape, Before
<1>3. SUFFICES ASSUME NEW r \in DOMAIN runs', NEW w \in DOMAIN runs'[r].paychecks, NEW date,
                      date = runs'[r].date
               PROVE  runs'[r].paychecks[w].paystub =
                        PaystubDocument([rate |-> runs'[r].paychecks[w].paystub.rate],
                                        runs'[r].paychecks[w].draft,
                                        YearToDate(Before(r), w, date)')
  BY DEF PaystubsSayTheYear, PaystubDocument, Withheld
<1>4. CASE r \in DOMAIN runs
  <2>1. YearToDate(Before(r), w, date)' = YearToDate(Before(r), w, date)
    BY <1>1, <1>2, <1>4, SameYear
  <2>2. w \in DOMAIN runs[r].paychecks /\ date = runs[r].date
    BY <1>1, <1>3, <1>4 DEF Keeps
  <2>3. runs[r].paychecks[w].paystub =
          PaystubDocument([rate |-> runs[r].paychecks[w].paystub.rate],
                          runs[r].paychecks[w].draft, YearToDate(Before(r), w, date))
    BY <1>4, <2>2 DEF PaystubsSayTheYear
  <2>. QED  BY <1>1, <1>4, <2>1, <2>2, <2>3 DEF Keeps
<1>5. CASE r \notin DOMAIN runs
  <2>1. PostPayRun
    BY <1>3, <1>5, Others, Settling DEF vars, Settled
  <2>. DEFINE page == Head(posts)
  <2>2. /\ r = Len(runs) + 1 /\ runs'[r] = NewRun(page) /\ DOMAIN runs = 1..Len(runs)
        /\ DOMAIN runs = Before(r)
    <3>1. /\ Len(runs') = Len(runs) + 1 /\ runs'[Len(runs) + 1] = NewRun(page)
          /\ DOMAIN runs' = 1..Len(runs') /\ DOMAIN runs = 1..Len(runs) /\ Len(runs) \in Nat
      BY <1>1, <2>1, Posting DEF Shape
    <3>2. r \in 1..(Len(runs) + 1) /\ r \notin 1..Len(runs)
      BY <1>5, <3>1
    <3>3. r = Len(runs) + 1
      BY <3>1, <3>2
    <3>. QED  BY <3>1, <3>3 DEF Before
  <2>3. /\ w \in DOMAIN page.hours /\ runs'[r].paychecks[w] = Posted(page, w)
        /\ date = page.date
    BY <1>3, <2>2 DEF NewRun
  <2>4. /\ Posted(page, w).draft = ComputePaycheck(w, date, page.hours[w])
        /\ Posted(page, w).paystub = PaystubDocument(team[w].terms, Posted(page, w).draft,
                                                     YearToDate(DOMAIN runs, w, date))
    BY <2>3 DEF Posted
  <2>5. YearToDate(Before(r), w, date)' = YearToDate(DOMAIN runs, w, date)
    BY <1>1, <2>2, SameYear
  <2>6. Posted(page, w).paystub.rate = team[w].terms.rate
    BY <2>4 DEF PaystubDocument
  <2>. QED  BY <2>3, <2>4, <2>5, <2>6 DEF PaystubDocument
<1>. QED  BY <1>4, <1>5

-----------------------------------------------------------------------------
(* Second payments.                                                        *)

\* A payment that changes is the only one that does, and if it fails that is remembered.
LEMMA SettlingAsked ==
  ASSUME Shape, AskedInv, NEW r \in DOMAIN runs, NEW w \in DOMAIN runs[r].paychecks,
         NEW status \in {"pending", "settled", "failed"}, MarkPaycheckSettlement(r, w, status)
  PROVE  AskedInv'
<1>. USE DEF AskedInv
<1>1. Settled(r, w, status)
  BY Settling DEF Settled
<1>2. \A q \in DOMAIN runs : \A v \in DOMAIN runs[q].paychecks :
        /\ runs'[q].paychecks[v].draft = runs[q].paychecks[v].draft
        /\ runs[q].paychecks[v].failed => runs'[q].paychecks[v].failed
        /\ runs'[q].paychecks[v].status = "failed" => runs'[q].paychecks[v].failed
        /\ runs[q].paychecks[v].status = "failed" => runs'[q].paychecks[v].failed
  BY ZenonT(40), <1>1 DEF Settled, Keeps, FailedIsKept
<1>3. FailedIsKept'
  BY <1>1, <1>2 DEF Settled, Keeps, FailedIsKept
<1>4. \A v, date : SamePay(v, date)' = SamePay(v, date)
  BY <1>1 DEF Settled, Keeps, SamePay
<1>5. PagesHaveAsked'
  <2>1. ASSUME NEW p, Knows(p), NEW v \in DOMAIN p.hours,
               NEW date, date = p.date, NEW q \in SamePay(v, date)', q \in 1..p.checked
        PROVE  /\ v \in DOMAIN p.asked
               /\ /\ runs'[q].paychecks[v].draft.gross = p.asked[v]
                  /\ runs'[q].paychecks[v].status # "failed"
                  => runs'[q].paychecks[v].failed
    <3>1. q \in SamePay(v, date) /\ q \in DOMAIN runs /\ v \in DOMAIN runs[q].paychecks
      <4>1. q \in SamePay(v, date)
        BY <1>4, <2>1
      <4>. QED  BY <4>1 DEF SamePay
    <3>2. /\ v \in DOMAIN p.asked
          /\ /\ runs[q].paychecks[v].draft.gross = p.asked[v]
             /\ runs[q].paychecks[v].status # "failed"
             => runs[q].paychecks[v].failed
      BY <2>1, <3>1 DEF Knows, Repeat
    <3>. QED  BY <1>2, <3>1, <3>2
  <2>2. \A p : Knows(p) => Knows(p)'
    BY <2>1 DEF Knows, Repeat
  <2>3. Pages' = Pages
    BY <1>1 DEF Settled, Pages
  <2>. QED  BY <2>2, <2>3 DEF PagesHaveAsked
<1>6. RepeatsWereAsked'
  <2>. SUFFICES ASSUME NEW s \in DOMAIN runs', NEW v \in DOMAIN runs'[s].paychecks, NEW date,
                       date = runs'[s].date,
                       NEW q \in SamePay(v, date)' \cap 1..runs'[s].checked
                PROVE  Excused(q, s, v)'
    BY DEF RepeatsWereAsked
  <2>1. /\ q \in SamePay(v, date) /\ q \in DOMAIN runs /\ v \in DOMAIN runs[q].paychecks
        /\ s \in DOMAIN runs /\ v \in DOMAIN runs[s].paychecks /\ date = runs[s].date
        /\ runs'[s].asked = runs[s].asked /\ runs'[s].checked = runs[s].checked
    BY <1>1, <1>4 DEF SamePay, Settled, Keeps
  <2>2. Excused(q, s, v)
    BY <2>1 DEF RepeatsWereAsked
  <2>. QED  BY <1>2, <2>1, <2>2 DEF Excused
<1>. QED  BY <1>3, <1>5, <1>6

\* What was known of the runs there were is, with one run more.
LEMMA KnownAfterPosting ==
  ASSUME Shape, PostPayRun, NEW p, p.checked \in 0..Len(runs), Knows(p)
  PROVE  Knows(p)'
<1>1. /\ \A r \in DOMAIN runs : runs'[r] = runs[r]
      /\ DOMAIN runs = 1..Len(runs) /\ Len(runs) \in Nat
  BY Posting DEF Shape
<1>2. \A v : SamePay(v, p.date)' \cap 1..p.checked \subseteq SamePay(v, p.date) \cap 1..p.checked
  BY <1>1 DEF SamePay
<1>3. \A v, r, gross : r \in 1..p.checked => (Repeat(r, v, gross)' <=> Repeat(r, v, gross))
  BY <1>1 DEF Repeat
<1>. QED  BY <1>1, <1>2, <1>3 DEF Knows

\* What a page has asked goes into its run.
LEMMA PostingAsked ==
  ASSUME Shape, AskedInv, PostPayRun
  PROVE  AskedInv'
<1>. USE DEF AskedInv
<1>. DEFINE x == Len(runs) + 1
            page == Head(posts)
            new == NewRun(page)
<1>1. /\ Shape' /\ Keeps
      /\ Len(runs') = x
      /\ \A r \in DOMAIN runs : runs'[r] = runs[r]
      /\ runs'[x] = new
      /\ page \in Pages
  BY Posting
<1>2. /\ DOMAIN runs = 1..Len(runs) /\ Len(runs) \in Nat /\ DOMAIN runs' = 1..x
  BY <1>1 DEF Shape
<1>3. \A s \in DOMAIN runs' : s \in DOMAIN runs \/ s = x
  BY <1>2
<1>4. /\ new.date = page.date /\ new.asked = page.asked /\ new.checked = page.checked
      /\ DOMAIN new.paychecks = DOMAIN page.hours
      /\ \A w \in DOMAIN page.hours : new.paychecks[w].status # "failed"
  BY DEF NewRun, Posted
<1>5. Knows(page) /\ page.checked \in 0..Len(runs)
  BY <1>1 DEF PagesHaveAsked, Shape
<1>. HIDE DEF x, new, page
<1>6. FailedIsKept'
  BY <1>1, <1>3, <1>4 DEF FailedIsKept
<1>7. PagesHaveAsked'
  <2>1. \A p \in Pages : Knows(p)'
    BY KnownAfterPosting DEF PagesHaveAsked, Shape
  <2>2. Knows(Closed)'
    BY ClosedIsPage DEF Knows
  <2>3. Older(Pages')
    BY TailPages DEF PostPayRun, Shape
  <2>. QED  BY <2>1, <2>2, <2>3 DEF PagesHaveAsked, Older
<1>8. RepeatsWereAsked'
  <2>. SUFFICES ASSUME NEW s \in DOMAIN runs', NEW v \in DOMAIN runs'[s].paychecks, NEW date,
                       date = runs'[s].date,
                       NEW q \in SamePay(v, date)' \cap 1..runs'[s].checked
                PROVE  Excused(q, s, v)'
    BY DEF RepeatsWereAsked
  <2>1. runs'[s].checked \in 0..Len(runs)
    <3>1. CASE s = x
      BY <1>1, <1>4, <1>5, <3>1
    <3>2. CASE s \in DOMAIN runs
      BY <1>1, <1>2, <3>2 DEF Shape
    <3>. QED  BY <1>3, <3>1, <3>2
  <2>2. q \in DOMAIN runs
    BY <1>2, <2>1
  <2>3. runs'[q] = runs[q] /\ q \in SamePay(v, date)
    BY <1>1, <2>2 DEF SamePay
  <2>4. CASE s \in DOMAIN runs
    BY <1>1, <2>3, <2>4 DEF RepeatsWereAsked, Excused
  <2>5. CASE s = x
    <3>1. /\ v \in DOMAIN page.hours /\ date = page.date
          /\ runs'[s].asked = page.asked /\ runs'[s].checked = page.checked
      BY <1>1, <1>4, <2>5
    <3>2. /\ v \in DOMAIN page.asked
          /\ /\ runs[q].paychecks[v].draft.gross = page.asked[v]
             /\ runs[q].paychecks[v].status # "failed"
             => runs[q].paychecks[v].failed
      BY <1>5, <2>3, <3>1 DEF Knows, Repeat
    <3>. QED  BY <2>3, <3>1, <3>2 DEF Excused
  <2>. QED  BY <1>3, <2>4, <2>5
<1>. QED  BY <1>6, <1>7, <1>8

\* The other steps leave the runs, and a page knows as much of them as before.
LEMMA AskedStep ==
  ASSUME Shape, AskedInv, [Next]_vars
  PROVE  AskedInv'
<1>. USE DEF AskedInv
<1>1. CASE UNCHANGED vars
  BY <1>1 DEF vars, FailedIsKept, RepeatsWereAsked, SamePay, Excused, PagesHaveAsked, Pages,
     Knows, Repeat
<1>2. CASE Next /\ UNCHANGED runs
  <2>1. FailedIsKept' /\ RepeatsWereAsked'
    BY <1>2 DEF FailedIsKept, RepeatsWereAsked, SamePay, Excused
  <2>2. \A p : Knows(p) => Knows(p)'
    BY <1>2 DEF Knows, SamePay, Repeat
  <2>3. Knows(Closed)'
    BY ClosedIsPage DEF Knows
  <2>4. ASSUME NEW S, Older(S), NEW p \in S
        PROVE  Knows(p)'
    BY <2>2, <2>3, <2>4 DEF Older, PagesHaveAsked
  <2>5. ASSUME NEW date, NEW mode, NEW hours, Submit(date, mode, hours)
        PROVE  Knows(Filled(date, mode, hours))
    <3>. DEFINE gross    == [w \in DOMAIN hours |-> GrossFor(team[w].terms, hours[w])]
                askAbout == {w \in DOMAIN hours : SamePay(w, date) # {}}
                agreed   == [w \in askAbout |-> gross[w]]
    <3>1. \A w \in askAbout : \A r \in SamePay(w, date) : ~Repeat(r, w, gross[w])
      BY <2>5 DEF Submit
    <3>2. LET p == Filled(date, mode, hours)
          IN  p.date = date /\ p.hours = hours /\ p.asked = agreed
      BY DEF Filled
    <3>. HIDE DEF gross
    <3>3. \A w \in DOMAIN hours : \A r \in SamePay(w, date) :
            w \in DOMAIN agreed /\ ~Repeat(r, w, agreed[w])
      BY <3>1
    <3>. HIDE DEF agreed
    <3>. QED  BY <3>2, <3>3 DEF Knows
  <2>6. Knows(Confirmed)
    <3>. DEFINE hours == [w \in StillHere |-> form.hours[w]]
                agreed == [w \in StillHere \cap DOMAIN form.asked |-> form.asked[w]]
    <3>1. Confirmed = [form EXCEPT !.hours = hours, !.asked = agreed]
      BY DEF Confirmed
    <3>2. /\ DOMAIN hours \subseteq DOMAIN form.hours
          /\ \A w \in DOMAIN hours : w \in DOMAIN form.asked =>
               w \in DOMAIN agreed /\ agreed[w] = form.asked[w]
      BY DEF StillHere
    <3>3. IsPage(form) /\ Knows(form)
      BY DEF Shape, Pages, PagesHaveAsked
    <3>. HIDE DEF hours, agreed
    <3>4. /\ Confirmed.date = form.date /\ Confirmed.hours = hours
          /\ Confirmed.asked = agreed /\ Confirmed.checked = form.checked
      BY <3>1, <3>3 DEF IsPage
    <3>. QED  BY <3>2, <3>3, <3>4 DEF Knows
  <2>7. PagesHaveAsked'
    <3>1. CASE Older(Pages')
      BY <2>4, <3>1 DEF PagesHaveAsked
    <3>2. ASSUME NEW p, Knows(p), Older(Pages' \ {p})
          PROVE  PagesHaveAsked'
      <4>1. Knows(p)' /\ \A q \in Pages' \ {p} : Knows(q)'
        BY <2>2, <2>4, <3>2
      <4>. QED  BY <4>1 DEF PagesHaveAsked
    <3>. QED  BY <1>2, <2>5, <2>6, <3>1, <3>2, NewPages
  <2>. QED  BY <2>1, <2>7
<1>. QED  BY <1>1, <1>2, PostingAsked, SettlingAsked, Others

-----------------------------------------------------------------------------
PayRunInv == Shape /\ PaystubsSayTheYear /\ AskedInv

\* The invariant of the posted runs and the page together.
THEOREM PayRunCorrect == Spec => []PayRunInv
<1>1. Init => PayRunInv
  <2>. SUFFICES ASSUME Init PROVE PayRunInv
    OBVIOUS
  <2>1. runs = <<>> /\ form = Closed /\ posts = <<>>
    BY DEF Init
  <2>2. Pages = {Closed} /\ posts \in Seq(Nat)
    BY <2>1 DEF Pages
  <2>3. DOMAIN runs = {}
    BY <2>1
  <2>4. Shape
    <3>1. runs \in Seq(Nat) /\ Len(runs) = 0 /\ DOMAIN runs = 1..0
      BY <2>1
    <3>. QED  BY <2>2, <2>3, <3>1, ClosedIsPage DEF Shape
  <2>5. AskedInv
    BY <2>2, <2>3, ClosedIsPage DEF AskedInv, FailedIsKept, PagesHaveAsked, Knows, RepeatsWereAsked
  <2>. QED  BY <2>3, <2>4, <2>5 DEF PayRunInv, PaystubsSayTheYear
<1>2. PayRunInv /\ [Next]_vars => PayRunInv'
  BY ShapeStep, PaystubsStep, AskedStep DEF PayRunInv
<1>. QED  BY <1>1, <1>2, PTL DEF Spec

\* A paystub built again later has the hash that was posted, as long as the rate is the
\* same (paystubEnvelope).
THEOREM AlwaysRebuiltIsPosted == Spec => []RebuiltIsPosted
<1>1. PayRunInv => RebuiltIsPosted
  <2>. SUFFICES ASSUME PayRunInv, NEW r \in DOMAIN runs, NEW w \in DOMAIN runs[r].paychecks,
                       team[w].terms.rate = runs[r].paychecks[w].paystub.rate
                PROVE  PaystubDocument(team[w].terms, runs[r].paychecks[w].draft,
                                       YearToDate(Before(r), w, runs[r].date))
                         = runs[r].paychecks[w].paystub
    BY DEF RebuiltIsPosted
  <2>1. runs[r].paychecks[w].paystub =
          PaystubDocument([rate |-> runs[r].paychecks[w].paystub.rate],
                          runs[r].paychecks[w].draft, YearToDate(Before(r), w, runs[r].date))
    BY DEF PayRunInv, PaystubsSayTheYear
  <2>. QED  BY <2>1 DEF PaystubDocument
<1>. QED  BY <1>1, PayRunCorrect, PTL

\* Nobody is paid again on a day unasked, and no exact repeat is posted beside a payment
\* that is made or on its way and never failed (checkDoublePay), as long as the first run was
\* in the books when the page looked.
THEOREM AlwaysRepeatsWereAsked == Spec => []RepeatsWereAsked
<1>1. PayRunInv => RepeatsWereAsked
  BY DEF PayRunInv, AskedInv
<1>. QED  BY <1>1, PayRunCorrect, PTL

-----------------------------------------------------------------------------
(* Types.                                                                  *)

\* Besides its type: whoever a page asks about is to be paid, and there is room for the
\* runs under way.
AskedToBePaid == \A p \in Pages : DOMAIN p.asked \subseteq DOMAIN p.hours

UnderWay == Len(posts) + (IF form = Closed THEN 0 ELSE 1)

FormOK == AskedToBePaid /\ Len(runs) + UnderWay <= MaxRuns

Typed == TypeOK /\ FormOK

\* Percentages of amounts are amounts.
LEMMA PercentNat ==
  ASSUME NEW cents \in Nat, NEW basisPoints \in Nat
  PROVE  Percent(cents, basisPoints) \in Nat
<1>. DEFINE x == cents * basisPoints
<1>1. x \in Nat
  OBVIOUS
<1>. HIDE DEF x
<1>2. (x + 5000) \div 10000 \in Nat
  BY <1>1
<1>. QED  BY <1>2 DEF Percent, x

\* So is the annual maximum.
LEMMA MaxNat == WageBase \in Nat /\ SsBp \in Nat /\ SsAnnualMax \in Nat
<1>1. WageBase \in Nat /\ SsBp \in Nat
  BY TaxAssumption
<1>. QED  BY <1>1, PercentNat DEF SsAnnualMax

\* What fits into the room that is left fills it at most.
LEMMA LeastRoom ==
  ASSUME NEW a \in Nat, NEW b \in Nat
  PROVE  /\ Least(a, b) \in Nat /\ Least(a, b) <= b
         /\ Room(a, b) \in Nat /\ (b <= a => b + Room(a, b) = a)
BY DEF Least, Room

\* What a paycheck takes from a worker, after what the year so far has taken.
LEMMA AmountsTyped ==
  ASSUME NEW terms \in Terms, NEW gross \in Nat, NEW ytd,
         ytd.gross \in Nat, ytd.socialSecurity \in Nat, ytd.employerSocialSecurity \in Nat
  PROVE  LET p == Amounts(terms, gross, ytd)
         IN  /\ p \in [gross : Nat, incomeTax : Nat, socialSecurity : Nat,
                       employerSocialSecurity : Nat, net : Int]
             /\ p.socialSecurity <= Room(SsAnnualMax, ytd.socialSecurity)
             /\ p.employerSocialSecurity <= Room(SsAnnualMax, ytd.employerSocialSecurity)
<1>. DEFINE due == Percent(Least(gross, Room(WageBase, ytd.gross)), SsBp)
            ss  == CapSs(due, ytd.socialSecurity)
            er  == CapSs(due, ytd.employerSocialSecurity)
<1>1. SsBp \in Nat /\ SsAnnualMax \in Nat /\ WageBase \in Nat
  BY MaxNat
<1>2. due \in Nat
  BY <1>1, LeastRoom, PercentNat
<1>. HIDE DEF due
<1>3. /\ ss \in Nat /\ ss <= Room(SsAnnualMax, ytd.socialSecurity)
      /\ er \in Nat /\ er <= Room(SsAnnualMax, ytd.employerSocialSecurity)
  BY <1>1, <1>2, LeastRoom DEF CapSs
<1>4. terms.incomeTax \in Nat
  BY TermsAssumption
<1>. HIDE DEF ss, er
<1>5. gross - terms.incomeTax - ss \in Int
  BY <1>3, <1>4
<1>6. Amounts(terms, gross, ytd) =
        [gross |-> gross, incomeTax |-> terms.incomeTax, socialSecurity |-> ss,
         employerSocialSecurity |-> er, net |-> gross - terms.incomeTax - ss]
  BY DEF Amounts, due, ss, er
<1>. QED  BY <1>3, <1>4, <1>5, <1>6

\* The runs are finitely many.
LEMMA FewRuns ==
  ASSUME Shape, NEW S \in SUBSET DOMAIN runs
  PROVE  IsFiniteSet(S)
<1>1. DOMAIN runs = 1..Len(runs) /\ Len(runs) \in Nat
  BY DEF Shape
<1>2. IsFiniteSet(1..Len(runs))
  BY <1>1, FS_Interval
<1>. QED  BY <1>1, <1>2, FS_Subset

\* The year so far is four amounts.
LEMMA YearTyped ==
  ASSUME Shape, TypeOK, NEW first \in SUBSET DOMAIN runs, NEW w, NEW date
  PROVE  LET ytd == YearToDate(first, w, date)
         IN  /\ ytd.gross \in Nat /\ ytd.socialSecurity \in Nat
             /\ ytd.employerSocialSecurity \in Nat /\ ytd.withheld \in Nat
<1>. DEFINE counted == Counted(first, w, date)
            Of(r) == runs[r].paychecks[w].draft
            a == [r \in counted |-> Of(r).gross]
            b == [r \in counted |-> Of(r).socialSecurity]
            c == [r \in counted |-> Of(r).employerSocialSecurity]
            d == [r \in counted |-> Withheld(Of(r))]
<1>1. IsFiniteSet(counted)
  BY FewRuns DEF Counted
<1>2. ASSUME NEW r \in counted
      PROVE  Of(r) \in Draft
  BY DEF TypeOK, IsPart, Paycheck, Counted
<1>3. \A r \in counted : a[r] \in Nat /\ b[r] \in Nat /\ c[r] \in Nat /\ d[r] \in Nat
  BY <1>2 DEF Draft, Withheld
<1>4. /\ Over(counted, a) = SumFunction(a) /\ Over(counted, b) = SumFunction(b)
      /\ Over(counted, c) = SumFunction(c) /\ Over(counted, d) = SumFunction(d)
  BY DEF Over
<1>. HIDE DEF a, b, c, d, counted
<1>5. /\ SumFunction(a) \in Nat /\ SumFunction(b) \in Nat /\ SumFunction(c) \in Nat
      /\ SumFunction(d) \in Nat
  BY <1>1, <1>3, <1>4, SumNat
<1>. QED  BY <1>5 DEF YearToDate, a, b, c, d, counted

\* The parts of the type invariant.
TeamTyped ==
  nextWorker \in 1..(MaxWorkers + 1) /\ IsPart(team, 1..(nextWorker - 1), Member)

RunTyped(run) ==
  /\ run.date \in Date /\ run.mode \in Mode
  /\ IsPart(run.paychecks, DOMAIN team, Paycheck)
  /\ IsPart(run.asked, DOMAIN run.paychecks, Nat)

PageTyped(p) ==
  /\ p.date \in Date /\ p.mode \in Mode
  /\ IsPart(p.hours, Worker, Hours)
  /\ IsPart(p.asked, Worker, Nat)

PagesTyped == \A p \in Pages : PageTyped(p)

\* With the shape, they make it up,
LEMMA TypedIs ==
  ASSUME Shape
  PROVE  TypeOK <=> /\ TeamTyped /\ PagesTyped /\ Len(runs) <= MaxRuns
                    /\ \A r \in DOMAIN runs : RunTyped(runs[r])
<1>1. PagesTyped <=> IsFilledIn(form) /\ \A i \in DOMAIN posts : IsFilledIn(posts[i])
  BY DEF Pages, PagesTyped, PageTyped, IsFilledIn, Shape
<1>. QED  BY <1>1 DEF TypeOK, TeamTyped, RunTyped, Shape

\* A paycheck that is posted: the page does not post one that takes more than it pays.
LEMMA PostedTyped ==
  ASSUME Shape, Typed, PostPayRun, NEW page, page = Head(posts), NEW w \in DOMAIN page.hours
  PROVE  /\ w \in DOMAIN team /\ Posted(page, w) \in Paycheck
         /\ LET ytd == YearToDate(DOMAIN runs, w, page.date)
            IN  /\ Posted(page, w).draft.socialSecurity
                     <= Room(SsAnnualMax, ytd.socialSecurity)
                /\ Posted(page, w).draft.employerSocialSecurity
                     <= Room(SsAnnualMax, ytd.employerSocialSecurity)
<1>. DEFINE terms == team[w].terms
            gross == GrossFor(terms, page.hours[w])
            ytd   == YearToDate(DOMAIN runs, w, page.date)
            draft == Amounts(terms, gross, ytd)
            stub  == PaystubDocument(terms, draft, ytd)
            status == IF page.mode = "external" THEN "settled" ELSE "pending"
<1>1. Payable(w, page.date, page.hours[w])
  BY DEF PostPayRun
<1>a. IsPart(page.hours, Worker, Hours)
  BY TailPages, TypedIs DEF PostPayRun, Shape, Typed, PagesTyped, PageTyped
<1>2. w \in DOMAIN team /\ draft.net >= 0
  BY <1>1 DEF Payable, ComputePaycheck
<1>3. terms \in Terms /\ page.hours[w] \in Hours
  BY <1>a, <1>2 DEF Typed, TypeOK, IsPart, Member
<1>4. gross \in Nat /\ terms.rate \in Nat
  <2>1. terms.rate \in Nat /\ page.hours[w] \in Nat
    BY <1>3, TermsAssumption, HoursAssumption
  <2>. HIDE DEF terms
  <2>. QED  BY <2>1 DEF GrossFor
<1>5. ytd.gross \in Nat /\ ytd.socialSecurity \in Nat /\ ytd.employerSocialSecurity \in Nat
      /\ ytd.withheld \in Nat
  BY YearTyped DEF Typed
<1>6. Posted(page, w) = [draft |-> draft, paystub |-> stub, status |-> status, failed |-> FALSE]
  BY DEF Posted, ComputePaycheck
<1>7. status \in {"pending", "settled", "failed"}
  OBVIOUS
<1>. HIDE DEF terms, gross, ytd, status
<1>8. /\ draft \in [gross : Nat, incomeTax : Nat, socialSecurity : Nat,
                    employerSocialSecurity : Nat, net : Int]
      /\ draft.socialSecurity <= Room(SsAnnualMax, ytd.socialSecurity)
      /\ draft.employerSocialSecurity <= Room(SsAnnualMax, ytd.employerSocialSecurity)
  BY <1>3, <1>4, <1>5, AmountsTyped
<1>. HIDE DEF draft
<1>9. draft \in Draft
  BY <1>2, <1>8 DEF Draft
<1>10. stub \in Document
  BY <1>4, <1>5, <1>9 DEF PaystubDocument, Document, Draft, Withheld
<1>. HIDE DEF stub
<1>11. Posted(page, w) \in Paycheck
  <2>1. [draft |-> draft, paystub |-> stub, status |-> status, failed |-> FALSE] \in Paycheck
    BY <1>7, <1>9, <1>10 DEF Paycheck
  <2>. QED  BY ONLY <1>6, <2>1
<1>12. Posted(page, w).draft = draft
  BY <1>6
<1>13. /\ Posted(page, w).draft.socialSecurity <= Room(SsAnnualMax, ytd.socialSecurity)
       /\ Posted(page, w).draft.employerSocialSecurity
            <= Room(SsAnnualMax, ytd.employerSocialSecurity)
  BY <1>8, <1>12
<1>. QED  BY <1>2, <1>11, <1>13 DEF ytd

\* and so they do after a step.
LEMMA StaysTyped ==
  ASSUME Shape', TeamTyped', PagesTyped', FormOK', Len(runs') <= MaxRuns,
         \A r \in DOMAIN runs' : RunTyped(runs[r])'
  PROVE  Typed'
<1>1. TypeOK'
  <2>1. (IsFilledIn(form) /\ \A i \in DOMAIN posts : IsFilledIn(posts[i]))'
    BY DEF Pages, PagesTyped, PageTyped, IsFilledIn, Shape
  <2>. QED  BY <2>1 DEF TypeOK, TeamTyped, RunTyped, Shape
<1>. QED  BY <1>1 DEF Typed

\* Whoever is on a run stays on the team.
LEMMA TeamStep ==
  ASSUME Shape, Typed, TeamNext
  PROVE  Typed'
<1>1. TeamTyped /\ PagesTyped /\ Len(runs) <= MaxRuns /\ \A r \in DOMAIN runs : RunTyped(runs[r])
  BY TypedIs DEF Typed
<1>a. Shape'
  BY ShapeStep DEF Next
<1>2. ASSUME TeamTyped', UNCHANGED <<runs, form, posts>>,
             \A r \in DOMAIN runs : DOMAIN runs[r].paychecks \subseteq DOMAIN team'
      PROVE  Typed'
  <2>1. \A r \in DOMAIN runs' : RunTyped(runs[r])'
    BY <1>1, <1>2 DEF RunTyped, IsPart
  <2>2. PagesTyped' /\ FormOK'
    BY <1>1, <1>2 DEF PagesTyped, PageTyped, Typed, FormOK, AskedToBePaid, Pages, UnderWay
  <2>. QED  BY <1>a, <1>1, <1>2, <2>1, <2>2, StaysTyped
<1>3. \A r \in DOMAIN runs : DOMAIN runs[r].paychecks \subseteq DOMAIN team
  BY <1>1 DEF RunTyped, IsPart
<1>4. nextWorker \in 1..(MaxWorkers + 1) /\ MaxWorkers \in Nat
  BY <1>1, BoundsAssumption DEF TeamTyped
<1>5. ASSUME NEW terms \in Terms, AddWorker(terms)
      PROVE  Typed'
  <2>. DEFINE new == [terms |-> terms, active |-> TRUE]
  <2>1. new \in Member
    BY DEF Member
  <2>. HIDE DEF new
  <2>2. /\ DOMAIN team' = DOMAIN team \cup {nextWorker} /\ nextWorker' = nextWorker + 1
        /\ nextWorker \in 1..MaxWorkers
        /\ \A w \in DOMAIN team' : team'[w] = new \/ (w \in DOMAIN team /\ team'[w] = team[w])
    BY <1>5 DEF AddWorker, new, Worker
  <2>3. TeamTyped'
    BY <1>1, <1>4, <2>1, <2>2 DEF TeamTyped, IsPart
  <2>. QED  BY <1>2, <1>3, <1>5, <2>2, <2>3 DEF AddWorker, OnlyTheTeam
<1>6. ASSUME NEW w \in DOMAIN team, NEW member \in Member, UpdateWorker(w, member)
      PROVE  Typed'
  <2>1. TeamTyped' /\ DOMAIN team' = DOMAIN team
    BY <1>1, <1>6 DEF UpdateWorker, TeamTyped, IsPart
  <2>. QED  BY <1>2, <1>3, <1>6, <2>1 DEF UpdateWorker, OnlyTheTeam
<1>7. ASSUME NEW w \in DOMAIN team, RemoveWorker(w)
      PROVE  Typed'
  <2>1. TeamTyped' /\ DOMAIN team' = DOMAIN team \ {w}
    BY <1>1, <1>7 DEF RemoveWorker, TeamTyped, IsPart
  <2>2. \A r \in DOMAIN runs : w \notin DOMAIN runs[r].paychecks
    BY <1>7 DEF RemoveWorker, HasBeenPaid
  <2>. QED  BY <1>2, <1>3, <1>7, <2>1, <2>2 DEF RemoveWorker, OnlyTheTeam
<1>. QED  BY <1>5, <1>6, <1>7 DEF TeamNext

\* What the pages keep, given what is new about them.
LEMMA PagesStay ==
  ASSUME Typed, Shape,
         \A p \in Pages' :
           p \in Pages \/ p = Closed
             \/ (PageTyped(p) /\ DOMAIN p.asked \subseteq DOMAIN p.hours)
  PROVE  PagesTyped' /\ AskedToBePaid'
<1>1. PagesTyped /\ AskedToBePaid
  BY TypedIs DEF Typed, FormOK
<1>2. PageTyped(Closed) /\ DOMAIN Closed.asked \subseteq DOMAIN Closed.hours
  BY DateAssumption DEF PageTyped, Closed, Date, Mode, IsPart
<1>3. \A p \in Pages' : PageTyped(p) /\ DOMAIN p.asked \subseteq DOMAIN p.hours
  BY <1>1, <1>2 DEF PagesTyped, AskedToBePaid
<1>. QED  BY <1>3 DEF PagesTyped, AskedToBePaid, PageTyped

\* The page, up to the posting.
LEMMA FormStep ==
  ASSUME Shape, Typed, FormNext, ~PostPayRun
  PROVE  Typed'
<1>0. /\ TeamTyped /\ PagesTyped /\ AskedToBePaid /\ Len(runs) + UnderWay <= MaxRuns
      /\ \A r \in DOMAIN runs : RunTyped(runs[r])
  BY TypedIs DEF Typed, FormOK
<1>1. PICK S : posts \in Seq(S)
  BY DEF Shape
<1>a. Shape' /\ Len(runs) \in Nat /\ Len(posts) \in Nat /\ MaxRuns \in Nat
  BY <1>1, ShapeStep, BoundsAssumption DEF Next, Shape
<1>2. ASSUME PagesTyped', AskedToBePaid', UNCHANGED <<team, nextWorker, runs>>,
             UnderWay' <= UnderWay \/ Len(runs) + UnderWay' <= MaxRuns, UnderWay' \in Nat
      PROVE  Typed'
  <2>1. TeamTyped' /\ \A r \in DOMAIN runs' : RunTyped(runs[r])'
    BY <1>0, <1>2 DEF TeamTyped, RunTyped
  <2>2. UnderWay \in Nat
    BY <1>a DEF UnderWay
  <2>3. Len(runs') + UnderWay' <= MaxRuns /\ Len(runs') <= MaxRuns
    BY <1>0, <1>2, <1>a, <2>2
  <2>. QED  BY <1>a, <1>2, <2>1, <2>3, StaysTyped DEF FormOK
<1>3. ASSUME NEW date \in Date, NEW mode \in Mode, NEW hours \in PartOf(DOMAIN team, Hours),
             Submit(date, mode, hours)
      PROVE  Typed'
  <2>. DEFINE gross    == [w \in DOMAIN hours |-> GrossFor(team[w].terms, hours[w])]
              askAbout == {w \in DOMAIN hours : SamePay(w, date) # {}}
              agreed   == [w \in askAbout |-> gross[w]]
              page     == Filled(date, mode, hours)
  <2>1. /\ \/ posts' = Append(posts, page) /\ UNCHANGED form
           \/ form' = page /\ UNCHANGED posts
        /\ form = Closed /\ Len(runs) + Len(posts) < MaxRuns
        /\ UNCHANGED <<team, nextWorker, runs>>
    BY <1>3 DEF Submit, Filled, OnlyThePages
  <2>2. /\ page.date = date /\ page.mode = mode /\ page.hours = hours /\ page.asked = agreed
    BY DEF Filled
  <2>3. DOMAIN hours \subseteq DOMAIN team /\ \A w \in DOMAIN hours : hours[w] \in Hours
    BY DEF PartOf
  <2>4. \A w \in DOMAIN hours : gross[w] \in Nat
    <3>. SUFFICES ASSUME NEW w \in DOMAIN hours PROVE GrossFor(team[w].terms, hours[w]) \in Nat
      OBVIOUS
    <3>1. team[w].terms \in Terms
      BY <1>0, <2>3 DEF TeamTyped, IsPart, Member
    <3>2. team[w].terms.rate \in Nat /\ hours[w] \in Nat
      BY <2>3, <3>1, TermsAssumption, HoursAssumption
    <3>. QED  BY <3>2 DEF GrossFor
  <2>5. DOMAIN team \subseteq Worker
    BY <1>0, BoundsAssumption DEF TeamTyped, IsPart, Worker
  <2>. HIDE DEF gross, page
  <2>6. DOMAIN agreed \subseteq DOMAIN hours /\ IsPart(agreed, Worker, Nat)
        /\ IsPart(hours, Worker, Hours)
    BY <2>3, <2>4, <2>5 DEF IsPart
  <2>. HIDE DEF agreed
  <2>7. PageTyped(page) /\ DOMAIN page.asked \subseteq DOMAIN page.hours
    BY <2>2, <2>6 DEF PageTyped
  <2>8. Older(Pages' \ {page}) /\ Len(posts') \in {Len(posts), Len(posts) + 1}
        /\ (Len(posts') = Len(posts) + 1 => form' = Closed)
    <3>1. CASE posts' = Append(posts, page) /\ UNCHANGED form
      BY <1>1, <2>1, <3>1, AppendPages
    <3>2. CASE form' = page /\ UNCHANGED posts
      BY <1>a, <3>2 DEF Older, Pages
    <3>. QED  BY <2>1, <3>1, <3>2
  <2>9. PagesTyped' /\ AskedToBePaid'
    BY <2>7, <2>8, PagesStay DEF Older
  <2>10. Len(runs) + UnderWay' <= MaxRuns /\ UnderWay' \in Nat
    BY <1>a, <2>1, <2>8 DEF UnderWay
  <2>. QED  BY <1>2, <2>1, <2>9, <2>10
<1>4. CASE Confirm
  <2>. DEFINE hours == [w \in StillHere |-> form.hours[w]]
              agreed == [w \in StillHere \cap DOMAIN form.asked |-> form.asked[w]]
  <2>1. /\ Confirmed = [form EXCEPT !.hours = hours, !.asked = agreed]
        /\ posts' = Append(posts, Confirmed) /\ form' = Closed /\ form # Closed
        /\ UNCHANGED <<team, nextWorker, runs>>
    BY <1>4 DEF Confirm, Confirmed, StillHere, OnlyThePages
  <2>2. /\ PageTyped(form) /\ DOMAIN form.asked \subseteq DOMAIN form.hours /\ IsPage(form)
    BY <1>0 DEF PagesTyped, AskedToBePaid, Pages, Shape
  <2>3. /\ IsPart(hours, Worker, Hours) /\ IsPart(agreed, Worker, Nat)
        /\ DOMAIN agreed \subseteq DOMAIN hours
    BY <2>2 DEF PageTyped, IsPart, StillHere
  <2>. HIDE DEF hours, agreed
  <2>4. /\ Confirmed.date = form.date /\ Confirmed.mode = form.mode
        /\ Confirmed.hours = hours /\ Confirmed.asked = agreed
    BY <2>1, <2>2 DEF IsPage
  <2>5. PageTyped(Confirmed) /\ DOMAIN Confirmed.asked \subseteq DOMAIN Confirmed.hours
    BY <2>2, <2>3, <2>4 DEF PageTyped
  <2>6. Older(Pages' \ {Confirmed}) /\ Len(posts') = Len(posts) + 1
    BY <1>1, <2>1, AppendPages
  <2>7. PagesTyped' /\ AskedToBePaid'
    BY <2>5, <2>6, PagesStay DEF Older
  <2>8. UnderWay' <= UnderWay /\ UnderWay' \in Nat
    BY <1>a, <2>1, <2>6 DEF UnderWay
  <2>. QED  BY <1>2, <2>1, <2>7, <2>8
<1>5. CASE GoBack \/ PostFails
  <2>1. /\ UNCHANGED <<team, nextWorker, runs>>
        /\ form' \in {form, Closed}
        /\ Older(Pages') /\ Len(posts') \in {Len(posts), Len(posts) - 1} /\ Len(posts') \in Nat
    <3>1. CASE GoBack
      BY <1>a, <3>1, ClosedPages DEF GoBack, OnlyThePages
    <3>2. CASE PostFails
      BY <1>1, <3>2, TailPages DEF PostFails, OnlyThePages
    <3>. QED  BY <1>5, <3>1, <3>2
  <2>2. PagesTyped' /\ AskedToBePaid'
    BY <2>1, PagesStay DEF Older
  <2>3. UnderWay' <= UnderWay /\ UnderWay' \in Nat
    BY <1>a, <2>1 DEF UnderWay
  <2>. QED  BY <1>2, <2>1, <2>2, <2>3
<1>. QED  BY <1>3, <1>4, <1>5 DEF FormNext

\* The posting.
LEMMA PostTyped ==
  ASSUME Shape, Typed, PostPayRun
  PROVE  Typed'
<1>. DEFINE page == Head(posts)
            new  == NewRun(page)
<1>1. /\ TeamTyped /\ PagesTyped /\ AskedToBePaid /\ Len(runs) + UnderWay <= MaxRuns
      /\ \A r \in DOMAIN runs : RunTyped(runs[r])
  BY TypedIs DEF Typed, FormOK
<1>2. /\ Shape' /\ Keeps /\ Len(runs') = Len(runs) + 1
      /\ \A r \in DOMAIN runs : runs'[r] = runs[r]
      /\ runs'[Len(runs) + 1] = new
      /\ page \in Pages
  BY Posting
<1>3. /\ UNCHANGED <<team, nextWorker, form>> /\ Older(Pages') /\ Len(posts') = Len(posts) - 1
      /\ Len(posts) \in Nat /\ Len(posts') \in Nat
  BY TailPages DEF PostPayRun, Shape
<1>4. RunTyped(new)
  <2>1. new.date = page.date /\ new.mode = page.mode /\ new.asked = page.asked
        /\ new.paychecks = [w \in DOMAIN page.hours |-> Posted(page, w)]
    BY DEF NewRun
  <2>2. PageTyped(page) /\ DOMAIN page.asked \subseteq DOMAIN page.hours
    BY <1>1, <1>2 DEF PagesTyped, AskedToBePaid
  <2>3. \A w \in DOMAIN page.hours : w \in DOMAIN team /\ Posted(page, w) \in Paycheck
    BY PostedTyped
  <2>. HIDE DEF new, page
  <2>. QED  BY <2>1, <2>2, <2>3 DEF RunTyped, PageTyped, IsPart
<1>. HIDE DEF new, page
<1>5. \A r \in DOMAIN runs' : r \in DOMAIN runs \/ r = Len(runs) + 1
  BY <1>2 DEF Shape
<1>6. \A r \in DOMAIN runs' : RunTyped(runs'[r])
  BY <1>1, <1>2, <1>4, <1>5
<1>7. \A r \in DOMAIN runs' : RunTyped(runs[r])'
  BY <1>3, <1>6 DEF RunTyped
<1>8. TeamTyped' /\ PagesTyped' /\ AskedToBePaid'
  <2>1. PagesTyped' /\ AskedToBePaid'
    BY <1>3, PagesStay DEF Older
  <2>. QED  BY <1>1, <1>3, <2>1 DEF TeamTyped
<1>9. Len(runs') <= MaxRuns /\ FormOK'
  <2>1. Len(runs) \in Nat /\ MaxRuns \in Nat
    BY BoundsAssumption DEF Shape
  <2>2. UnderWay' = UnderWay - 1 /\ UnderWay \in Nat /\ UnderWay' \in Nat
    BY <1>3 DEF UnderWay
  <2>. QED  BY <1>1, <1>2, <1>8, <2>1, <2>2 DEF FormOK
<1>. QED  BY <1>2, <1>7, <1>8, <1>9, StaysTyped

\* A paycheck is settled or fails.
LEMMA PayTyped ==
  ASSUME Shape, Typed, NEW r \in DOMAIN runs, NEW w \in DOMAIN runs[r].paychecks,
         NEW status \in {"pending", "settled", "failed"}, MarkPaycheckSettlement(r, w, status)
  PROVE  Typed'
<1>1. TeamTyped /\ PagesTyped /\ Len(runs) <= MaxRuns /\ \A q \in DOMAIN runs : RunTyped(runs[q])
  BY TypedIs DEF Typed
<1>. DEFINE p   == runs[r].paychecks[w]
            failed == p.failed \/ status = "failed"
            new == [p EXCEPT !.status = status, !.failed = failed]
            paychecks == [runs[r].paychecks EXCEPT ![w] = new]
            run == [runs[r] EXCEPT !.paychecks = paychecks]
<1>2. runs' = [runs EXCEPT ![r] = run] /\ UNCHANGED <<team, nextWorker, form, posts>>
  BY DEF MarkPaycheckSettlement
<1>3. p \in Paycheck
  BY <1>1 DEF RunTyped, IsPart
<1>. HIDE DEF p
<1>4. failed \in BOOLEAN
  BY <1>3 DEF Paycheck
<1>. HIDE DEF failed
<1>5. new \in Paycheck
  BY <1>3, <1>4 DEF Paycheck
<1>. HIDE DEF new
<1>6. IsPart(paychecks, DOMAIN team, Paycheck) /\ DOMAIN paychecks = DOMAIN runs[r].paychecks
  BY <1>1, <1>5 DEF RunTyped, IsPart
<1>. HIDE DEF paychecks
<1>7. /\ run.date = runs[r].date /\ run.mode = runs[r].mode /\ run.asked = runs[r].asked
      /\ run.paychecks = paychecks
  <2>1. IsRun(runs[r])
    BY DEF Shape
  <2>. QED  BY <2>1 DEF IsRun
<1>. HIDE DEF run
<1>8. RunTyped(run)
  BY <1>1, <1>6, <1>7 DEF RunTyped
<1>9. \A q \in DOMAIN runs' : RunTyped(runs'[q])
  BY <1>1, <1>2, <1>8
<1>10. \A q \in DOMAIN runs' : RunTyped(runs[q])'
  BY <1>2, <1>9 DEF RunTyped
<1>11. Len(runs') = Len(runs)
  BY <1>2 DEF Shape
<1>12. TeamTyped' /\ PagesTyped' /\ FormOK'
  BY <1>1, <1>2, <1>11
  DEF TeamTyped, PagesTyped, PageTyped, FormOK, AskedToBePaid, Pages, UnderWay, Typed
<1>13. Shape'
  BY Settling DEF Settled
<1>. QED  BY <1>1, <1>13, <1>10, <1>11, <1>12, StaysTyped

\* The invariant is kept by every step.
LEMMA TypedStep ==
  ASSUME Shape, Typed, [Next]_vars
  PROVE  Typed'
<1>1. CASE UNCHANGED vars
  BY <1>1 DEF vars, Typed, TypeOK, IsFilledIn, FormOK, AskedToBePaid, Pages, UnderWay
<1>. QED  BY <1>1, TeamStep, FormStep, PostTyped, PayTyped DEF Next, PayNext, FormNext

-----------------------------------------------------------------------------
(* The annual maximum.                                                     *)

\* A run posted last, of a day no earlier than the others of the year, has seen them all.
LEMMA CountsTheYear ==
  ASSUME Shape, NEW w, NEW date,
         \A r \in PaidIn(w, Year(date)) : runs[r].date <= date
  PROVE  Counted(DOMAIN runs, w, date) = PaidIn(w, Year(date))
BY DEF Counted, PaidIn

\* What is taken of a person over S comes to no more than the maximum.
Capped(S, amounts) == Over(S, amounts) <= SsAnnualMax

\* One paycheck more takes no more than there is room for.
LEMMA CappedMore ==
  ASSUME NEW S, IsFiniteSet(S), NEW f, \A r \in S : f[r] \in Nat, Capped(S, f),
         NEW x, x \notin S, f[x] \in Nat, f[x] <= Room(SsAnnualMax, Over(S, f))
  PROVE  Capped(S \cup {x}, f)
<1>1. Over(S, f) \in Nat
  BY SumNat
<1>2. SsAnnualMax \in Nat
  BY MaxNat
<1>. DEFINE sum == Over(S, f)
<1>3. Over(S, f) + Room(SsAnnualMax, Over(S, f)) = SsAnnualMax
      /\ Room(SsAnnualMax, Over(S, f)) \in Nat
  <2>1. sum \in Nat /\ sum <= SsAnnualMax
    BY <1>1 DEF Capped
  <2>. HIDE DEF sum
  <2>2. sum + Room(SsAnnualMax, sum) = SsAnnualMax /\ Room(SsAnnualMax, sum) \in Nat
    BY <1>2, <2>1, LeastRoom
  <2>. QED  BY <2>2 DEF sum
<1>4. IntOn(S, f)
  BY DEF IntOn
<1>5. Over(S \cup {x}, f) = Over(S, f) + f[x]
  BY <1>4, SumWith
<1>. QED  BY <1>1, <1>2, <1>3, <1>5 DEF Capped

\* What the two halves of Social Security take of a person in each run.
Own(w)    == [r \in DOMAIN runs |-> runs[r].paychecks[w].draft.socialSecurity]
Matched(w) == [r \in DOMAIN runs |-> runs[r].paychecks[w].draft.employerSocialSecurity]

CappedOn(S, w) == Capped(S, Own(w)) /\ Capped(S, Matched(w))

EachYearCapped ==
  \A w \in Worker : \A date \in Date :
    InDateOrder(PaidIn(w, Year(date))) => CappedOn(PaidIn(w, Year(date)), w)

\* YearCapped is about these.
LEMMA YearCappedIs == YearCapped <=> EachYearCapped
<1>1. ASSUME NEW w, NEW date
      PROVE  /\ Over(PaidIn(w, Year(date)), Own(w))
                  = SumFunction([r \in PaidIn(w, Year(date)) |->
                                   runs[r].paychecks[w].draft.socialSecurity])
             /\ Over(PaidIn(w, Year(date)), Matched(w))
                  = SumFunction([r \in PaidIn(w, Year(date)) |->
                                   runs[r].paychecks[w].draft.employerSocialSecurity])
  <2>1. PaidIn(w, Year(date)) \subseteq DOMAIN runs
    BY DEF PaidIn
  <2>. DEFINE S == PaidIn(w, Year(date))
  <2>2. /\ [r \in S |-> Own(w)[r]] = [r \in S |-> runs[r].paychecks[w].draft.socialSecurity]
        /\ [r \in S |-> Matched(w)[r]]
             = [r \in S |-> runs[r].paychecks[w].draft.employerSocialSecurity]
    BY <2>1 DEF Own, Matched
  <2>. QED  BY <2>2 DEF Over
<1>. QED  BY <1>1 DEF YearCapped, EachYearCapped, CappedOn, Capped

\* Runs that were there take the same as before.
LEMMA CappedSame ==
  ASSUME Keeps, NEW w, NEW S, \A r \in S : r \in DOMAIN runs /\ w \in DOMAIN runs[r].paychecks
  PROVE  /\ \A r \in S : Own(w)'[r] = Own(w)[r] /\ Matched(w)'[r] = Matched(w)[r]
         /\ Capped(S, Own(w)') <=> Capped(S, Own(w))
         /\ Capped(S, Matched(w)') <=> Capped(S, Matched(w))
<1>1. \A r \in S : Own(w)'[r] = Own(w)[r] /\ Matched(w)'[r] = Matched(w)[r]
  BY DEF Keeps, Own, Matched
<1>2. Over(S, Own(w)') = Over(S, Own(w)) /\ Over(S, Matched(w)') = Over(S, Matched(w))
  BY <1>1, SumSame
<1>. QED  BY <1>1, <1>2 DEF Capped

\* If the runs of a year are in order and keep within the maximum, so are and do they by now.
LEMMA CappedKept ==
  ASSUME Keeps, NEW w, NEW year, PaidIn(w, year)' = PaidIn(w, year)
  PROVE  /\ InDateOrder(PaidIn(w, year))' <=> InDateOrder(PaidIn(w, year))
         /\ CappedOn(PaidIn(w, year), w)' <=> CappedOn(PaidIn(w, year), w)
<1>1. \A r \in PaidIn(w, year) : r \in DOMAIN runs /\ w \in DOMAIN runs[r].paychecks
  BY DEF PaidIn
<1>2. InDateOrder(PaidIn(w, year))' <=> InDateOrder(PaidIn(w, year))
  BY <1>1 DEF InDateOrder, Keeps
<1>. DEFINE S == PaidIn(w, year)
<1>3. /\ CappedOn(PaidIn(w, year), w)' <=> Capped(S, Own(w)') /\ Capped(S, Matched(w)')
      /\ CappedOn(PaidIn(w, year), w) <=> Capped(S, Own(w)) /\ Capped(S, Matched(w))
  BY DEF CappedOn, Capped
<1>4. \A r \in S : r \in DOMAIN runs /\ w \in DOMAIN runs[r].paychecks
  BY <1>1
<1>. HIDE DEF S
<1>5. /\ Capped(S, Own(w)') <=> Capped(S, Own(w))
      /\ Capped(S, Matched(w)') <=> Capped(S, Matched(w))
  BY <1>4, CappedSame
<1>. QED  BY <1>2, <1>3, <1>5

\* The invariant is kept by every step: only the posting brings a paycheck.
LEMMA CappedStep ==
  ASSUME Shape, Typed, EachYearCapped, [Next]_vars
  PROVE  EachYearCapped'
<1>0. Shape' /\ Keeps
  BY ShapeStep
<1>1. SUFFICES ASSUME NEW w \in Worker, NEW date \in Date,
                      InDateOrder(PaidIn(w, Year(date)))'
               PROVE  CappedOn(PaidIn(w, Year(date)), w)'
  BY DEF EachYearCapped, Date, Worker
<1>2. InDateOrder(PaidIn(w, Year(date))) => CappedOn(PaidIn(w, Year(date)), w)
  BY DEF EachYearCapped
<1>3. CASE PaidIn(w, Year(date))' = PaidIn(w, Year(date))
  BY <1>0, <1>1, <1>2, <1>3, CappedKept
<1>4. CASE PaidIn(w, Year(date))' # PaidIn(w, Year(date))
  <2>. DEFINE S == PaidIn(w, Year(date))
              x == Len(runs) + 1
              T == PaidIn(w, Year(date))'
              page == Head(posts)
              day == page.date
              ytd == YearToDate(DOMAIN runs, w, day)
  <2>1. PostPayRun
    BY <1>0, <1>4, Others, Settling DEF vars, Settled, PaidIn, Keeps
  <2>2. /\ Len(runs') = x /\ runs'[x] = NewRun(page) /\ DOMAIN runs' = 1..x
        /\ DOMAIN runs = 1..Len(runs) /\ Len(runs) \in Nat
    BY <1>0, <2>1, Posting DEF Shape
  <2>3. /\ \A r : r \in DOMAIN runs' <=> r \in DOMAIN runs \/ r = x
        /\ x \notin DOMAIN runs /\ \A r \in DOMAIN runs : r < x
    BY <2>2
  <2>. HIDE DEF x
  <2>4. T = S \cup {x} /\ w \in DOMAIN runs'[x].paychecks /\ Year(runs'[x].date) = Year(date)
    BY <1>0, <1>4, <2>3 DEF PaidIn, Keeps
  <2>5. w \in DOMAIN page.hours /\ runs'[x].paychecks[w] = Posted(page, w) /\ runs'[x].date = day
    BY <2>2, <2>4 DEF NewRun
  <2>6. InDateOrder(S) /\ \A r \in S : runs[r].date <= day
    <3>1. \A r, s \in T : r < s => runs'[r].date <= runs'[s].date
      BY <1>1 DEF InDateOrder
    <3>2. \A r \in S : r \in DOMAIN runs /\ runs'[r].date = runs[r].date
      BY <1>0 DEF PaidIn, Keeps
    <3>. HIDE DEF S, T
    <3>. QED  BY <2>3, <2>4, <2>5, <3>1, <3>2 DEF InDateOrder
  <2>7. CappedOn(S, w)
    BY <1>2, <2>6
  <2>8. Counted(DOMAIN runs, w, day) = S
    BY <2>4, <2>5, <2>6, CountsTheYear
  <2>9. /\ ytd.socialSecurity = Over(S, Own(w))
        /\ ytd.employerSocialSecurity = Over(S, Matched(w))
    <3>1. S \subseteq DOMAIN runs
      BY DEF PaidIn
    <3>2. /\ ytd.socialSecurity = SumFunction([r \in S |-> runs[r].paychecks[w].draft.socialSecurity])
          /\ ytd.employerSocialSecurity
               = SumFunction([r \in S |-> runs[r].paychecks[w].draft.employerSocialSecurity])
      <4>. HIDE DEF S
      <4>. QED  BY <2>8 DEF YearToDate
    <3>. HIDE DEF S, ytd
    <3>3. /\ [r \in S |-> Own(w)[r]] = [r \in S |-> runs[r].paychecks[w].draft.socialSecurity]
          /\ [r \in S |-> Matched(w)[r]]
               = [r \in S |-> runs[r].paychecks[w].draft.employerSocialSecurity]
      BY <3>1 DEF Own, Matched
    <3>. QED  BY <3>2, <3>3 DEF Over
  <2>10. /\ Posted(page, w) \in Paycheck
         /\ Posted(page, w).draft.socialSecurity <= Room(SsAnnualMax, ytd.socialSecurity)
         /\ Posted(page, w).draft.employerSocialSecurity
              <= Room(SsAnnualMax, ytd.employerSocialSecurity)
    BY <2>1, <2>5, PostedTyped
  <2>11. /\ Own(w)'[x] = Posted(page, w).draft.socialSecurity
         /\ Matched(w)'[x] = Posted(page, w).draft.employerSocialSecurity
         /\ Own(w)'[x] \in Nat /\ Matched(w)'[x] \in Nat
    BY <2>3, <2>5, <2>10 DEF Own, Matched, Paycheck, Draft
  <2>12. \A r \in S : r \in DOMAIN runs /\ w \in DOMAIN runs[r].paychecks
    BY DEF PaidIn
  <2>13. \A r \in S : Own(w)[r] \in Nat /\ Matched(w)[r] \in Nat
    BY <2>12 DEF Typed, TypeOK, IsPart, Paycheck, Draft, Own, Matched
  <2>14. IsFiniteSet(S) /\ x \notin S
    BY <2>3, <2>12, FewRuns
  <2>. DEFINE own == Own(w)'
              matched == Matched(w)'
  <2>. HIDE DEF S, ytd
  <2>15. /\ \A r \in S : own[r] = Own(w)[r] /\ matched[r] = Matched(w)[r]
         /\ Capped(S, own) /\ Capped(S, matched)
    BY <1>0, <2>7, <2>12, CappedSame DEF CappedOn
  <2>16. Over(S, own) = Over(S, Own(w)) /\ Over(S, matched) = Over(S, Matched(w))
    BY <2>15, SumSame
  <2>17. /\ own[x] \in Nat /\ own[x] <= Room(SsAnnualMax, Over(S, own))
         /\ matched[x] \in Nat /\ matched[x] <= Room(SsAnnualMax, Over(S, matched))
    BY <2>9, <2>10, <2>11, <2>16
  <2>18. CappedOn(PaidIn(w, Year(date)), w)' <=> Capped(T, own) /\ Capped(T, matched)
    BY DEF CappedOn, Capped
  <2>. HIDE DEF own, matched, T
  <2>19. Capped(S \cup {x}, own) /\ Capped(S \cup {x}, matched)
    BY <2>13, <2>14, <2>15, <2>17, CappedMore
  <2>. QED  BY <2>4, <2>18, <2>19
<1>. QED  BY <1>3, <1>4

-----------------------------------------------------------------------------
\* Members, runs, paychecks and the page keep their types (types.ts, page.tsx): amounts stay
\* whole cents from nothing up, net pay included, and a run holds only people of the team.
\* With it goes, year by year, the annual maximum of both halves of Social Security.
THEOREM PayRunTyped == Spec => [](Typed /\ EachYearCapped)
<1>1. Init => Typed /\ EachYearCapped
  <2>. SUFFICES ASSUME Init PROVE Typed /\ EachYearCapped
    OBVIOUS
  <2>1. /\ team = <<>> /\ nextWorker = 1 /\ runs = <<>> /\ form = Closed /\ posts = <<>>
        /\ Len(runs) = 0 /\ DOMAIN runs = {} /\ DOMAIN team = {}
    BY DEF Init
  <2>2. Typed
    <3>1. Pages = {Closed} /\ Len(posts) = 0 /\ DOMAIN posts = {}
      BY <2>1 DEF Pages
    <3>2. IsFilledIn(Closed) /\ DOMAIN Closed.asked = {}
      BY <2>1, DateAssumption DEF IsFilledIn, Closed, Date, Mode, IsPart
    <3>. QED  BY <2>1, <3>1, <3>2, BoundsAssumption
              DEF Typed, TypeOK, FormOK, AskedToBePaid, UnderWay, IsPart
  <2>3. \A w, year : PaidIn(w, year) = {}
    BY <2>1 DEF PaidIn
  <2>4. SsAnnualMax >= 0
    BY MaxNat
  <2>5. \A w, year : CappedOn(PaidIn(w, year), w)
    BY <2>3, <2>4, SumNone DEF CappedOn, Capped
  <2>. QED  BY <2>2, <2>5 DEF EachYearCapped
<1>2. PayRunInv /\ Typed /\ EachYearCapped /\ [Next]_vars => Typed' /\ EachYearCapped'
  BY TypedStep, CappedStep DEF PayRunInv
<1>. QED  BY <1>1, <1>2, PayRunCorrect, PTL DEF Spec

\* Neither half of Social Security passes the annual maximum for a person whose runs of the
\* year were posted in the order of their days (computePaycheck, yearToDate), whatever was
\* changed, refused, settled or failed in between.
THEOREM AlwaysYearCapped == Spec => []YearCapped
BY PayRunTyped, YearCappedIs, PTL

-----------------------------------------------------------------------------
(***************************************************************************)
(* A plan covers every payee in full from records that are not shared,     *)
(* whatever is owed and whatever the account holds, and carrying it out    *)
(* pays nobody twice with one record, however late the wallet shows what a *)
(* split has made.                                                         *)
(*                                                                         *)
(* The plan is made in turns, over sets that are folded by largest first.  *)
(* A fold recurs through CHOOSE; PlaysOnce and PlaysExists say that it is  *)
(* played one turn after another, in the order of BiggestFirst, so that    *)
(* what one turn keeps (ExactFitTurns, BestFitTurns, CarveOneTurns,        *)
(* CarveFromTurns) the whole plan has: a record is given to one payee, or  *)
(* carved, or left.                                                        *)
(*                                                                         *)
(* QueueOK is about the splits at work: each has found two records of its  *)
(* own, which nobody listed, of the amounts the plan gave them, and a      *)
(* transfer uses the record that its payee was planned.                    *)
(***************************************************************************)

-----------------------------------------------------------------------------
(* The order of turns.                                                     *)

\* What G makes, turn by turn, of base.
Plays(g, S, last, G, base) ==
  g = [U \in SUBSET S |-> IF U = {} THEN base ELSE G[U][g[U \ {last[U]}]]]

LEMMA PlaysOnce ==
  ASSUME NEW S, IsFiniteSet(S), NEW last, \A U \in SUBSET S : U # {} => last[U] \in U,
         NEW G, NEW base, NEW T \in SUBSET S, NEW V \in SUBSET S, NEW g, NEW h,
         Plays(g, T, last, G, base), Plays(h, V, last, G, base)
  PROVE  \A U \in SUBSET (T \cap V) : g[U] = h[U]
<1>. DEFINE Bad == {U \in SUBSET (T \cap V) : g[U] # h[U]}
<1>. SUFFICES ASSUME Bad # {} PROVE FALSE
  OBVIOUS
<1>1. PICK U \in Bad : \A W \in SUBSET U : W # U => W \notin Bad
  <2>. HIDE DEF Bad
  <2>1. Bad \in SUBSET (SUBSET S)
    BY DEF Bad
  <2>. QED  BY <2>1, LeastBad
<1>2. U # {}
  BY DEF Plays
<1>3. last[U] \in U
  BY <1>2
<1>4. g[U \ {last[U]}] = h[U \ {last[U]}]
  BY <1>1, <1>3
<1>5. g[U] = G[U][g[U \ {last[U]}]] /\ h[U] = G[U][h[U \ {last[U]}]]
  BY <1>2 DEF Plays
<1>. QED  BY <1>4, <1>5

LEMMA PlaysExists ==
  ASSUME NEW S, IsFiniteSet(S), NEW last, \A U \in SUBSET S : U # {} => last[U] \in U,
         NEW G, NEW base
  PROVE  \E g : Plays(g, S, last, G, base)
<1>. DEFINE Bad == {T \in SUBSET S : ~\E g : Plays(g, T, last, G, base)}
<1>. SUFFICES ASSUME Bad # {} PROVE FALSE
  OBVIOUS
<1>1. PICK T \in Bad : \A U \in SUBSET T : U # T => U \notin Bad
  <2>. HIDE DEF Bad
  <2>1. Bad \in SUBSET (SUBSET S)
    BY DEF Bad
  <2>. QED  BY <2>1, LeastBad
<1>. DEFINE H(U) == CHOOSE h : Plays(h, U, last, G, base)
            rest(s) == s \ {last[s]}
            g == [s \in SUBSET T |-> IF s = {} THEN base ELSE G[s][H(rest(s))[rest(s)]]]
<1>2. \A U \in SUBSET T : U # T => Plays(H(U), U, last, G, base)
  BY <1>1
<1>3. \A s \in SUBSET T : s # {} => last[s] \in s /\ rest(s) \in SUBSET T /\ rest(s) # T
                                    /\ rest(s) \in SUBSET s
  OBVIOUS
<1>4. ASSUME NEW u \in SUBSET T, u # T
      PROVE  g[u] = H(u)[u]
  <2>1. Plays(H(u), u, last, G, base)
    BY <1>2, <1>4
  <2>2. CASE u = {}
    BY <2>1, <2>2 DEF Plays
  <2>3. CASE u # {}
    <3>1. H(u)[u] = G[u][H(u)[rest(u)]]
      <4>. HIDE DEF H
      <4>. QED  BY <2>1, <2>3 DEF Plays
    <3>2. Plays(H(rest(u)), rest(u), last, G, base)
      BY <1>2, <1>3, <2>3
    <3>3. H(u)[rest(u)] = H(rest(u))[rest(u)]
      <4>. HIDE DEF H
      <4>1. rest(u) \in SUBSET (u \cap rest(u)) /\ u \in SUBSET S /\ rest(u) \in SUBSET S
        OBVIOUS
      <4>. HIDE DEF rest
      <4>. QED  BY <2>1, <3>2, <4>1, PlaysOnce
    <3>4. g[u] = G[u][H(rest(u))[rest(u)]]
      <4>. HIDE DEF H, rest
      <4>. QED  BY <2>3
    <3>. QED  BY <3>1, <3>3, <3>4
  <2>. QED  BY <2>2, <2>3
<1>5. \A s \in SUBSET T : s # {} => g[rest(s)] = H(rest(s))[rest(s)]
  <2>. HIDE DEF g, H, rest
  <2>. QED  BY <1>3, <1>4
<1>6. Plays(g, T, last, G, base)
  <2>. HIDE DEF H
  <2>1. g = [s \in SUBSET T |-> IF s = {} THEN base ELSE G[s][g[rest(s)]]]
    <3>1. \A s \in SUBSET T : g[s] = IF s = {} THEN base ELSE G[s][g[rest(s)]]
      <4>1. \A s \in SUBSET T : g[s] = IF s = {} THEN base ELSE G[s][H(rest(s))[rest(s)]]
        OBVIOUS
      <4>. HIDE DEF g, rest
      <4>. QED  BY <1>5, <4>1
    <3>2. g = [s \in SUBSET T |-> g[s]]
      OBVIOUS
    <3>. HIDE DEF g, rest
    <3>. QED  BY <3>1, <3>2
  <2>. HIDE DEF g
  <2>. QED  BY <2>1 DEF Plays
<1>. QED  BY <1>1, <1>6

\* Of several the one that comes last, and the smallest.
LEMMA LastIs ==
  ASSUME NEW S, IsFiniteSet(S), S # {}, S \subseteq Int, NEW f, IntOn(S, f)
  PROVE  /\ \E x \in S : \A y \in S : f[x] < f[y] \/ (f[x] = f[y] /\ y <= x)
         /\ \E x \in S : \A y \in S : f[x] < f[y] \/ (f[x] = f[y] /\ x <= y)
<1>1. PICK m \in S : \A y \in S : f[m] <= f[y]
  BY HasLeast
<1>. DEFINE low == {x \in S : f[x] = f[m]}
            up   == [x \in low |-> x]
            down == [x \in low |-> -x]
<1>2. IsFiniteSet(low) /\ low # {} /\ IntOn(low, up) /\ IntOn(low, down)
  BY <1>1, FS_Subset DEF IntOn
<1>3. PICK x \in low : \A y \in low : up[x] <= up[y]
  <2>. HIDE DEF low, up
  <2>. QED  BY <1>2, HasLeast
<1>4. PICK z \in low : \A y \in low : down[z] <= down[y]
  <2>. HIDE DEF low, down
  <2>. QED  BY <1>2, HasLeast
<1>5. \A y \in S : f[y] \in Int /\ y \in Int
  BY DEF IntOn
<1>6. \A y \in S : f[x] < f[y] \/ (f[x] = f[y] /\ x <= y)
  BY <1>1, <1>3, <1>5
<1>7. \A y \in S : f[z] < f[y] \/ (f[z] = f[y] /\ y <= z)
  BY <1>1, <1>4, <1>5
<1>. QED  BY <1>6, <1>7


LEMMA LastOfIs ==
  ASSUME NEW S, IsFiniteSet(S), S \subseteq Int, NEW f, IntOn(S, f)
  PROVE  \A U \in SUBSET S : U # {} =>
           LastOf(f, U) \in U /\ \A y \in U : f[LastOf(f, U)] <= f[y]
<1>. SUFFICES ASSUME NEW U \in SUBSET S, U # {}
     PROVE  LastOf(f, U) \in U /\ \A y \in U : f[LastOf(f, U)] <= f[y]
  OBVIOUS
<1>1. IsFiniteSet(U) /\ IntOn(U, f) /\ U \subseteq Int
  BY FS_Subset DEF IntOn
<1>2. /\ LastOf(f, U) \in U
      /\ \A y \in U : f[LastOf(f, U)] < f[y] \/ (f[LastOf(f, U)] = f[y] /\ y <= LastOf(f, U))
  BY <1>1, LastIs DEF LastOf
<1>3. ASSUME NEW y \in U PROVE f[LastOf(f, U)] <= f[y]
  <2>1. f[y] \in Int /\ f[LastOf(f, U)] \in Int
    BY <1>1, <1>2 DEF IntOn
  <2>. QED  BY <1>2, <2>1
<1>. QED  BY <1>2, <1>3

LEMMA PlaysStay ==
  ASSUME NEW S, IsFiniteSet(S), NEW last, \A U \in SUBSET S : U # {} => last[U] \in U,
         NEW G, NEW base, NEW g, Plays(g, S, last, G, base), NEW St, base \in St[{}],
         \A U \in SUBSET S : U # {} => \A p \in St[U \ {last[U]}] : G[U][p] \in St[U]
  PROVE  \A U \in SUBSET S : g[U] \in St[U]
<1>. DEFINE Bad == {U \in SUBSET S : g[U] \notin St[U]}
<1>1. Bad = {}
  <2>. SUFFICES ASSUME Bad # {} PROVE FALSE
    OBVIOUS
  <2>1. PICK U \in Bad : \A V \in SUBSET U : V # U => V \notin Bad
    <3>1. Bad \in SUBSET (SUBSET S)
      OBVIOUS
    <3>. HIDE DEF Bad
    <3>. QED  BY <3>1, LeastBad
  <2>2. U # {}
    BY <2>1 DEF Plays
  <2>3. g[U] = G[U][g[U \ {last[U]}]] /\ g[U \ {last[U]}] \in St[U \ {last[U]}]
    BY <2>1, <2>2 DEF Plays
  <2>. QED  BY <2>1, <2>2, <2>3
<1>. QED  BY <1>1

\* What every turn leads from a state of one set to one of the next, all turns do.

LEMMA ExactFitTurns ==
  ASSUME NEW S, IsFiniteSet(S), S \subseteq Int, NEW f, IntOn(S, f), NEW St, NEW base, base \in St[{}],
         \A U \in SUBSET S : U # {} =>
           \A p \in St[U \ {LastOf(f, U)}] : ExactFit(p, LastOf(f, U)) \in St[U]
  PROVE  BiggestFirst(ExactFit, base, f, S) \in St[S]
<1>. DEFINE last == [U \in SUBSET S |-> LastOf(f, U)]
            G == [U \in SUBSET S |-> [p \in St[U \ {last[U]}] |-> ExactFit(p, last[U])]]
<1>0. \A U \in SUBSET S : U # {} => LastOf(f, U) \in U
  BY LastOfIs
<1>1. \A U \in SUBSET S : U # {} => last[U] \in U
  BY <1>0
<1>2. PICK g : Plays(g, S, last, G, base)
  <2>. HIDE DEF last, G
  <2>. QED  BY <1>1, PlaysExists
<1>3. \A U \in SUBSET S : g[U] \in St[U]
  <2>1. \A U \in SUBSET S : U # {} => \A p \in St[U \ {last[U]}] : G[U][p] \in St[U]
    OBVIOUS
  <2>2. base \in St[{}]
    OBVIOUS
  <2>. HIDE DEF last, G
  <2>. QED  BY <1>1, <1>2, <2>1, <2>2, PlaysStay
<1>4. g = [s \in SUBSET S |-> IF s = {} THEN base
                              ELSE ExactFit(g[s \ {LastOf(f, s)}], LastOf(f, s))]
  <2>1. \A s \in SUBSET S : g[s] = IF s = {} THEN base
                                   ELSE ExactFit(g[s \ {LastOf(f, s)}], LastOf(f, s))
    <3>. SUFFICES ASSUME NEW s \in SUBSET S
         PROVE  g[s] = IF s = {} THEN base ELSE ExactFit(g[s \ {LastOf(f, s)}], LastOf(f, s))
      OBVIOUS
    <3>1. g[s] = IF s = {} THEN base ELSE G[s][g[s \ {last[s]}]]
      <4>. HIDE DEF G, last
      <4>. QED  BY <1>2 DEF Plays
    <3>2. s # {} => G[s][g[s \ {last[s]}]] = ExactFit(g[s \ {last[s]}], last[s])
      BY <1>3
    <3>. QED  BY <3>1, <3>2
  <2>2. g = [s \in SUBSET S |-> g[s]]
    <3>. HIDE DEF G, last
    <3>. QED  BY <1>2 DEF Plays
  <2>. HIDE DEF G, last
  <2>. QED  BY <2>1, <2>2
<1>. HIDE DEF last, G
<1>5. PICK h : /\ h = [s \in SUBSET S |-> IF s = {} THEN base
                                           ELSE ExactFit(h[s \ {LastOf(f, s)}], LastOf(f, s))]
               /\ BiggestFirst(ExactFit, base, f, S) = h[S]
  BY <1>4 DEF BiggestFirst, MapThenFoldSet
<1>. DEFINE Bad == {U \in SUBSET S : h[U] \notin St[U]}
<1>6. Bad = {}
  <2>. SUFFICES ASSUME Bad # {} PROVE FALSE
    OBVIOUS
  <2>1. PICK U \in Bad : \A V \in SUBSET U : V # U => V \notin Bad
    <3>1. Bad \in SUBSET (SUBSET S)
      OBVIOUS
    <3>. HIDE DEF Bad
    <3>. QED  BY <3>1, LeastBad
  <2>2. h[{}] = base
    BY <1>5
  <2>3. U # {} /\ LastOf(f, U) \in U
    BY <1>0, <2>1, <2>2
  <2>4. h[U \ {LastOf(f, U)}] \in St[U \ {LastOf(f, U)}]
    BY <2>1, <2>3
  <2>5. h[U] = ExactFit(h[U \ {LastOf(f, U)}], LastOf(f, U))
    BY <1>5, <2>3
  <2>. QED  BY <2>1, <2>3, <2>4, <2>5
<1>. QED  BY <1>5, <1>6

LEMMA BestFitTurns ==
  ASSUME NEW S, IsFiniteSet(S), S \subseteq Int, NEW f, IntOn(S, f), NEW St, NEW base, base \in St[{}],
         \A U \in SUBSET S : U # {} =>
           \A p \in St[U \ {LastOf(f, U)}] : BestFit(p, LastOf(f, U)) \in St[U]
  PROVE  BiggestFirst(BestFit, base, f, S) \in St[S]
<1>. DEFINE last == [U \in SUBSET S |-> LastOf(f, U)]
            G == [U \in SUBSET S |-> [p \in St[U \ {last[U]}] |-> BestFit(p, last[U])]]
<1>0. \A U \in SUBSET S : U # {} => LastOf(f, U) \in U
  BY LastOfIs
<1>1. \A U \in SUBSET S : U # {} => last[U] \in U
  BY <1>0
<1>2. PICK g : Plays(g, S, last, G, base)
  <2>. HIDE DEF last, G
  <2>. QED  BY <1>1, PlaysExists
<1>3. \A U \in SUBSET S : g[U] \in St[U]
  <2>1. \A U \in SUBSET S : U # {} => \A p \in St[U \ {last[U]}] : G[U][p] \in St[U]
    OBVIOUS
  <2>2. base \in St[{}]
    OBVIOUS
  <2>. HIDE DEF last, G
  <2>. QED  BY <1>1, <1>2, <2>1, <2>2, PlaysStay
<1>4. g = [s \in SUBSET S |-> IF s = {} THEN base
                              ELSE BestFit(g[s \ {LastOf(f, s)}], LastOf(f, s))]
  <2>1. \A s \in SUBSET S : g[s] = IF s = {} THEN base
                                   ELSE BestFit(g[s \ {LastOf(f, s)}], LastOf(f, s))
    <3>. SUFFICES ASSUME NEW s \in SUBSET S
         PROVE  g[s] = IF s = {} THEN base ELSE BestFit(g[s \ {LastOf(f, s)}], LastOf(f, s))
      OBVIOUS
    <3>1. g[s] = IF s = {} THEN base ELSE G[s][g[s \ {last[s]}]]
      <4>. HIDE DEF G, last
      <4>. QED  BY <1>2 DEF Plays
    <3>2. s # {} => G[s][g[s \ {last[s]}]] = BestFit(g[s \ {last[s]}], last[s])
      BY <1>3
    <3>. QED  BY <3>1, <3>2
  <2>2. g = [s \in SUBSET S |-> g[s]]
    <3>. HIDE DEF G, last
    <3>. QED  BY <1>2 DEF Plays
  <2>. HIDE DEF G, last
  <2>. QED  BY <2>1, <2>2
<1>. HIDE DEF last, G
<1>5. PICK h : /\ h = [s \in SUBSET S |-> IF s = {} THEN base
                                           ELSE BestFit(h[s \ {LastOf(f, s)}], LastOf(f, s))]
               /\ BiggestFirst(BestFit, base, f, S) = h[S]
  BY <1>4 DEF BiggestFirst, MapThenFoldSet
<1>. DEFINE Bad == {U \in SUBSET S : h[U] \notin St[U]}
<1>6. Bad = {}
  <2>. SUFFICES ASSUME Bad # {} PROVE FALSE
    OBVIOUS
  <2>1. PICK U \in Bad : \A V \in SUBSET U : V # U => V \notin Bad
    <3>1. Bad \in SUBSET (SUBSET S)
      OBVIOUS
    <3>. HIDE DEF Bad
    <3>. QED  BY <3>1, LeastBad
  <2>2. h[{}] = base
    BY <1>5
  <2>3. U # {} /\ LastOf(f, U) \in U
    BY <1>0, <2>1, <2>2
  <2>4. h[U \ {LastOf(f, U)}] \in St[U \ {LastOf(f, U)}]
    BY <2>1, <2>3
  <2>5. h[U] = BestFit(h[U \ {LastOf(f, U)}], LastOf(f, U))
    BY <1>5, <2>3
  <2>. QED  BY <2>1, <2>3, <2>4, <2>5
<1>. QED  BY <1>5, <1>6

LEMMA CarveOneTurns ==
  ASSUME NEW S, IsFiniteSet(S), S \subseteq Int, NEW f, IntOn(S, f), NEW St, NEW base, base \in St[{}],
         \A U \in SUBSET S : U # {} =>
           \A p \in St[U \ {LastOf(f, U)}] : CarveOne(p, LastOf(f, U)) \in St[U]
  PROVE  BiggestFirst(CarveOne, base, f, S) \in St[S]
<1>. DEFINE last == [U \in SUBSET S |-> LastOf(f, U)]
            G == [U \in SUBSET S |-> [p \in St[U \ {last[U]}] |-> CarveOne(p, last[U])]]
<1>0. \A U \in SUBSET S : U # {} => LastOf(f, U) \in U
  BY LastOfIs
<1>1. \A U \in SUBSET S : U # {} => last[U] \in U
  BY <1>0
<1>2. PICK g : Plays(g, S, last, G, base)
  <2>. HIDE DEF last, G
  <2>. QED  BY <1>1, PlaysExists
<1>3. \A U \in SUBSET S : g[U] \in St[U]
  <2>1. \A U \in SUBSET S : U # {} => \A p \in St[U \ {last[U]}] : G[U][p] \in St[U]
    OBVIOUS
  <2>2. base \in St[{}]
    OBVIOUS
  <2>. HIDE DEF last, G
  <2>. QED  BY <1>1, <1>2, <2>1, <2>2, PlaysStay
<1>4. g = [s \in SUBSET S |-> IF s = {} THEN base
                              ELSE CarveOne(g[s \ {LastOf(f, s)}], LastOf(f, s))]
  <2>1. \A s \in SUBSET S : g[s] = IF s = {} THEN base
                                   ELSE CarveOne(g[s \ {LastOf(f, s)}], LastOf(f, s))
    <3>. SUFFICES ASSUME NEW s \in SUBSET S
         PROVE  g[s] = IF s = {} THEN base ELSE CarveOne(g[s \ {LastOf(f, s)}], LastOf(f, s))
      OBVIOUS
    <3>1. g[s] = IF s = {} THEN base ELSE G[s][g[s \ {last[s]}]]
      <4>. HIDE DEF G, last
      <4>. QED  BY <1>2 DEF Plays
    <3>2. s # {} => G[s][g[s \ {last[s]}]] = CarveOne(g[s \ {last[s]}], last[s])
      BY <1>3
    <3>. QED  BY <3>1, <3>2
  <2>2. g = [s \in SUBSET S |-> g[s]]
    <3>. HIDE DEF G, last
    <3>. QED  BY <1>2 DEF Plays
  <2>. HIDE DEF G, last
  <2>. QED  BY <2>1, <2>2
<1>. HIDE DEF last, G
<1>5. PICK h : /\ h = [s \in SUBSET S |-> IF s = {} THEN base
                                           ELSE CarveOne(h[s \ {LastOf(f, s)}], LastOf(f, s))]
               /\ BiggestFirst(CarveOne, base, f, S) = h[S]
  BY <1>4 DEF BiggestFirst, MapThenFoldSet
<1>. DEFINE Bad == {U \in SUBSET S : h[U] \notin St[U]}
<1>6. Bad = {}
  <2>. SUFFICES ASSUME Bad # {} PROVE FALSE
    OBVIOUS
  <2>1. PICK U \in Bad : \A V \in SUBSET U : V # U => V \notin Bad
    <3>1. Bad \in SUBSET (SUBSET S)
      OBVIOUS
    <3>. HIDE DEF Bad
    <3>. QED  BY <3>1, LeastBad
  <2>2. h[{}] = base
    BY <1>5
  <2>3. U # {} /\ LastOf(f, U) \in U
    BY <1>0, <2>1, <2>2
  <2>4. h[U \ {LastOf(f, U)}] \in St[U \ {LastOf(f, U)}]
    BY <2>1, <2>3
  <2>5. h[U] = CarveOne(h[U \ {LastOf(f, U)}], LastOf(f, U))
    BY <1>5, <2>3
  <2>. QED  BY <2>1, <2>3, <2>4, <2>5
<1>. QED  BY <1>5, <1>6

LEMMA CarveFromTurns ==
  ASSUME NEW S, IsFiniteSet(S), S \subseteq Int, NEW f, IntOn(S, f), NEW St, NEW base, base \in St[{}],
         \A U \in SUBSET S : U # {} =>
           \A p \in St[U \ {LastOf(f, U)}] : CarveFrom(p, LastOf(f, U)) \in St[U]
  PROVE  BiggestFirst(CarveFrom, base, f, S) \in St[S]
<1>. DEFINE last == [U \in SUBSET S |-> LastOf(f, U)]
            G == [U \in SUBSET S |-> [p \in St[U \ {last[U]}] |-> CarveFrom(p, last[U])]]
<1>0. \A U \in SUBSET S : U # {} => LastOf(f, U) \in U
  BY LastOfIs
<1>1. \A U \in SUBSET S : U # {} => last[U] \in U
  BY <1>0
<1>2. PICK g : Plays(g, S, last, G, base)
  <2>. HIDE DEF last, G
  <2>. QED  BY <1>1, PlaysExists
<1>3. \A U \in SUBSET S : g[U] \in St[U]
  <2>1. \A U \in SUBSET S : U # {} => \A p \in St[U \ {last[U]}] : G[U][p] \in St[U]
    OBVIOUS
  <2>2. base \in St[{}]
    OBVIOUS
  <2>. HIDE DEF last, G
  <2>. QED  BY <1>1, <1>2, <2>1, <2>2, PlaysStay
<1>4. g = [s \in SUBSET S |-> IF s = {} THEN base
                              ELSE CarveFrom(g[s \ {LastOf(f, s)}], LastOf(f, s))]
  <2>1. \A s \in SUBSET S : g[s] = IF s = {} THEN base
                                   ELSE CarveFrom(g[s \ {LastOf(f, s)}], LastOf(f, s))
    <3>. SUFFICES ASSUME NEW s \in SUBSET S
         PROVE  g[s] = IF s = {} THEN base ELSE CarveFrom(g[s \ {LastOf(f, s)}], LastOf(f, s))
      OBVIOUS
    <3>1. g[s] = IF s = {} THEN base ELSE G[s][g[s \ {last[s]}]]
      <4>. HIDE DEF G, last
      <4>. QED  BY <1>2 DEF Plays
    <3>2. s # {} => G[s][g[s \ {last[s]}]] = CarveFrom(g[s \ {last[s]}], last[s])
      BY <1>3
    <3>. QED  BY <3>1, <3>2
  <2>2. g = [s \in SUBSET S |-> g[s]]
    <3>. HIDE DEF G, last
    <3>. QED  BY <1>2 DEF Plays
  <2>. HIDE DEF G, last
  <2>. QED  BY <2>1, <2>2
<1>. HIDE DEF last, G
<1>5. PICK h : /\ h = [s \in SUBSET S |-> IF s = {} THEN base
                                           ELSE CarveFrom(h[s \ {LastOf(f, s)}], LastOf(f, s))]
               /\ BiggestFirst(CarveFrom, base, f, S) = h[S]
  BY <1>4 DEF BiggestFirst, MapThenFoldSet
<1>. DEFINE Bad == {U \in SUBSET S : h[U] \notin St[U]}
<1>6. Bad = {}
  <2>. SUFFICES ASSUME Bad # {} PROVE FALSE
    OBVIOUS
  <2>1. PICK U \in Bad : \A V \in SUBSET U : V # U => V \notin Bad
    <3>1. Bad \in SUBSET (SUBSET S)
      OBVIOUS
    <3>. HIDE DEF Bad
    <3>. QED  BY <3>1, LeastBad
  <2>2. h[{}] = base
    BY <1>5
  <2>3. U # {} /\ LastOf(f, U) \in U
    BY <1>0, <2>1, <2>2
  <2>4. h[U \ {LastOf(f, U)}] \in St[U \ {LastOf(f, U)}]
    BY <2>1, <2>3
  <2>5. h[U] = CarveFrom(h[U \ {LastOf(f, U)}], LastOf(f, U))
    BY <1>5, <2>3
  <2>. QED  BY <2>1, <2>3, <2>4, <2>5
<1>. QED  BY <1>5, <1>6

-----------------------------------------------------------------------------
(* What a plan is while it is made.                                        *)

Given == payees \in Seq(Nat \ {0}) /\ records \in Seq(Nat \ {0})

Ref       == [record : Nat, split : Nat, output : {"whole", "amount", "remainder"}]
PlanSplit == [source : Ref, amount : Nat, remainder : Nat]
PaidSoFar == UNION {[D -> Ref] : D \in SUBSET Payee}

PlanState == [free : SUBSET Listed, paid : PaidSoFar, splits : Seq(PlanSplit),
              current : Ref, left : Nat]

\* A reference to a listed record, or to an output of one of the first n splits.
There(ref, n) ==
  \/ ref.output = "whole" /\ ref.record \in Listed /\ ref.split = 0
  \/ ref.output \in {"amount", "remainder"} /\ ref.record = 0 /\ ref.split \in 1..n

Used(p, ref) ==
  \/ \E q \in DOMAIN p.paid : p.paid[q] = ref
  \/ \E k \in DOMAIN p.splits : p.splits[k].source = ref

\* So far so good: what is free, and what is left of the record being carved up, is unused.
Good(p) ==
  /\ p \in PlanState
  /\ \A q \in DOMAIN p.paid :
       There(p.paid[q], Len(p.splits)) /\ AmountOf(p, p.paid[q]) >= payees[q]
  /\ \A k \in DOMAIN p.splits : There(p.splits[k].source, k - 1)
  /\ NothingShared(p) /\ SplitsAddUp(p)
  /\ \A r \in p.free : ~Used(p, Whole(r))
  /\ p.left > 0 =>
       /\ There(p.current, Len(p.splits)) /\ AmountOf(p, p.current) = p.left
       /\ ~Used(p, p.current)
       /\ \A r \in p.free : p.current # Whole(r)

LEMMA GivenIs ==
  ASSUME Given
  PROVE  /\ Len(payees) \in Nat /\ Payee = 1..Len(payees) /\ Payee \subseteq Int /\ IsFiniteSet(Payee)
         /\ Cardinality(Payee) = Len(payees)
         /\ \A q \in Payee : payees[q] \in Nat /\ payees[q] > 0
         /\ Len(records) \in Nat /\ Listed = 1..Len(records) /\ Listed \subseteq Int
         /\ IsFiniteSet(Listed) /\ Cardinality(Listed) = Len(records)
         /\ \A r \in Listed : r \in Nat /\ r > 0 /\ records[r] \in Nat /\ records[r] > 0
<1>1. /\ Len(payees) \in Nat /\ Payee = 1..Len(payees)
      /\ Len(records) \in Nat /\ Listed = 1..Len(records)
  BY DEF Given, Payee, Listed
<1>2. /\ \A q \in 1..Len(payees) : payees[q] \in Nat /\ payees[q] > 0
      /\ \A r \in 1..Len(records) : records[r] \in Nat /\ records[r] > 0
  BY DEF Given
<1>3. \A n \in Nat : IsFiniteSet(1..n) /\ Cardinality(1..n) = n
  <2>. SUFFICES ASSUME NEW n \in Nat PROVE IsFiniteSet(1..n) /\ Cardinality(1..n) = n
    OBVIOUS
  <2>1. 1 \in Int /\ n \in Int
    OBVIOUS
  <2>2. IsFiniteSet(1..n) /\ Cardinality(1..n) = IF 1 > n THEN 0 ELSE n - 1 + 1
    BY <2>1, FS_Interval
  <2>. QED  BY <2>2
<1>. QED  BY <1>1, <1>2, <1>3

LEMMA StateIs ==
  ASSUME NEW p \in PlanState, Given
  PROVE  /\ p = [free |-> p.free, paid |-> p.paid, splits |-> p.splits,
                 current |-> p.current, left |-> p.left]
         /\ p.free \subseteq Listed /\ DOMAIN p.paid \subseteq Payee
         /\ \A q \in DOMAIN p.paid : p.paid[q] \in Ref
         /\ p.splits \in Seq(PlanSplit) /\ Len(p.splits) \in Nat /\ DOMAIN p.splits = 1..Len(p.splits)
         /\ \A k \in 1..Len(p.splits) :
              /\ p.splits[k] \in PlanSplit /\ p.splits[k].source \in Ref
              /\ p.splits[k].amount \in Nat /\ p.splits[k].remainder \in Nat
         /\ p.current \in Ref /\ p.left \in Nat
<1>1. p.splits \in Seq(PlanSplit) /\ p.paid \in PaidSoFar
  BY DEF PlanState
<1>2. Len(p.splits) \in Nat /\ DOMAIN p.splits = 1..Len(p.splits)
      /\ \A k \in 1..Len(p.splits) : p.splits[k] \in PlanSplit
  BY <1>1
<1>3. DOMAIN p.paid \subseteq Payee /\ \A q \in DOMAIN p.paid : p.paid[q] \in Ref
  BY <1>1 DEF PaidSoFar
<1>4. \A s \in PlanSplit : s.source \in Ref /\ s.amount \in Nat /\ s.remainder \in Nat
  BY DEF PlanSplit
<1>5. p.free \subseteq Listed /\ p.current \in Ref /\ p.left \in Nat
      /\ p = [free |-> p.free, paid |-> p.paid, splits |-> p.splits,
              current |-> p.current, left |-> p.left]
  BY DEF PlanState
<1>. QED  BY <1>1, <1>2, <1>3, <1>4, <1>5

LEMMA WholeIs ==
  ASSUME Given, NEW r \in Listed
  PROVE  /\ Whole(r) \in Ref /\ Whole(r).record = r /\ \A n : There(Whole(r), n)
         /\ \A p : AmountOf(p, Whole(r)) = records[r]
         /\ \A s \in Listed : Whole(r) = Whole(s) => r = s
<1>1. r \in Nat
  BY GivenIs
<1>. QED  BY <1>1 DEF Whole, Ref, There, AmountOf

LEMMA AmountIsNat ==
  ASSUME Given, NEW p \in PlanState, NEW ref \in Ref, There(ref, Len(p.splits))
  PROVE  AmountOf(p, ref) \in Nat
<1>1. CASE ref.output = "whole"
  <2>1. ref.record \in Listed
    BY <1>1 DEF There
  <2>. QED  BY <1>1, <2>1, GivenIs DEF AmountOf
<1>2. CASE ref.output = "amount"
  BY <1>2, StateIs DEF AmountOf, There
<1>3. CASE ref.output = "remainder"
  BY <1>3, StateIs DEF AmountOf, There
<1>. QED  BY <1>1, <1>2, <1>3 DEF Ref

\* A payee is given what is there, holds enough and is not used.
LEMMA PaidWith ==
  ASSUME Given, NEW p, Good(p), NEW q \in Payee, NEW ref \in Ref,
         There(ref, Len(p.splits)), AmountOf(p, ref) >= payees[q], ~Used(p, ref),
         NEW F \in SUBSET p.free, \A r \in F : ref # Whole(r),
         NEW l, l = 0 \/ (l = p.left /\ ref # p.current)
  PROVE  LET P == [free |-> F, paid |-> With(p.paid, q, ref), splits |-> p.splits,
                   current |-> p.current, left |-> l]
         IN  Good(P) /\ DOMAIN P.paid = DOMAIN p.paid \cup {q}
<1>. DEFINE P == [free |-> F, paid |-> With(p.paid, q, ref), splits |-> p.splits,
                  current |-> p.current, left |-> l]
<1>1. /\ p \in PlanState /\ p.free \subseteq Listed /\ p.left \in Nat
      /\ DOMAIN p.paid \subseteq Payee /\ \A x \in DOMAIN p.paid : p.paid[x] \in Ref
  BY StateIs DEF Good
<1>2. /\ P.free = F /\ P.splits = p.splits /\ P.current = p.current /\ P.left = l
      /\ DOMAIN P.paid = DOMAIN p.paid \cup {q}
      /\ \A x \in DOMAIN P.paid : P.paid[x] = IF x = q THEN ref ELSE p.paid[x]
  BY DEF With
<1>3. P \in PlanState
  <2>1. P.paid \in [DOMAIN p.paid \cup {q} -> Ref]
    BY <1>1 DEF With
  <2>2. P.paid \in PaidSoFar
    BY <1>1, <2>1 DEF PaidSoFar
  <2>3. l \in Nat /\ p.splits \in Seq(PlanSplit) /\ p.current \in Ref /\ F \in SUBSET Listed
    BY <1>1, StateIs
  <2>. QED  BY <2>2, <2>3 DEF PlanState
<1>. HIDE DEF P
<1>4. \A x : AmountOf(P, x) = AmountOf(p, x)
  BY <1>2 DEF AmountOf
<1>5. \A x : Used(P, x) => Used(p, x) \/ x = ref
  BY <1>2 DEF Used
<1>6. \A x \in DOMAIN P.paid :
        There(P.paid[x], Len(P.splits)) /\ AmountOf(P, P.paid[x]) >= payees[x]
  BY <1>2, <1>4 DEF Good
<1>7. \A k \in DOMAIN P.splits : There(P.splits[k].source, k - 1)
  BY <1>2 DEF Good
<1>8. NothingShared(P)
  <2>1. /\ \A x, y \in DOMAIN p.paid : x # y => p.paid[x] # p.paid[y]
        /\ \A x \in DOMAIN p.paid : p.paid[x] # ref
        /\ \A k \in DOMAIN p.splits : p.splits[k].source # ref
        /\ \A k \in DOMAIN p.splits, x \in DOMAIN p.paid : p.splits[k].source # p.paid[x]
    BY DEF Good, NothingShared, Used
  <2>2. \A x, y \in DOMAIN P.paid : x # y => P.paid[x] # P.paid[y]
    BY <1>2, <2>1
  <2>3. \A k \in DOMAIN P.splits, x \in DOMAIN P.paid : P.splits[k].source # P.paid[x]
    BY <1>2, <2>1
  <2>. QED  BY <1>2, <2>2, <2>3 DEF Good, NothingShared
<1>9. SplitsAddUp(P)
  BY <1>2, <1>4 DEF Good, SplitsAddUp
<1>10. \A r \in P.free : ~Used(P, Whole(r))
  BY <1>2, <1>5 DEF Good
<1>11. P.left > 0 =>
        /\ There(P.current, Len(P.splits)) /\ AmountOf(P, P.current) = P.left
        /\ ~Used(P, P.current)
        /\ \A r \in P.free : P.current # Whole(r)
  <2>1. P.left > 0 => l = p.left /\ p.left > 0 /\ ref # p.current
    BY <1>2
  <2>. QED  BY <1>2, <1>4, <1>5, <2>1 DEF Good
<1>12. Good(P)
  BY <1>3, <1>6, <1>7, <1>8, <1>9, <1>10, <1>11 DEF Good
<1>. QED  BY <1>2, <1>12 DEF P

LEMMA SmallestIs ==
  ASSUME Given, NEW S \in SUBSET Listed, S # {}
  PROVE  Smallest(S) \in S
<1>1. IsFiniteSet(S) /\ S \subseteq Int /\ IntOn(S, records)
  BY GivenIs, FS_Subset DEF IntOn
<1>. QED  BY <1>1, LastIs DEF Smallest

\* Steps 1 and 2.
LEMMA TakeIs ==
  ASSUME Given, NEW p, Good(p), NEW q \in Payee,
         NEW fits \in SUBSET p.free, \A r \in fits : records[r] >= payees[q]
  PROVE  /\ Good(Take(p, q, fits)) /\ Take(p, q, fits).splits = p.splits
         /\ fits = {} => Take(p, q, fits) = p
         /\ fits # {} => /\ \E r \in fits : Take(p, q, fits).free = p.free \ {r}
                         /\ DOMAIN Take(p, q, fits).paid = DOMAIN p.paid \cup {q}
<1>1. CASE fits = {}
  BY <1>1 DEF Take
<1>2. CASE fits # {}
  <2>. DEFINE r == Smallest(fits)
              F == p.free \ {r}
              P == [free |-> F, paid |-> With(p.paid, q, Whole(r)), splits |-> p.splits,
                    current |-> p.current, left |-> p.left]
  <2>1. p \in PlanState /\ p.free \subseteq Listed /\ p.left \in Nat
    BY StateIs DEF Good
  <2>2. r \in fits
    BY <1>2, <2>1, SmallestIs
  <2>3. r \in Listed /\ r \in p.free /\ records[r] >= payees[q]
    BY <2>1, <2>2
  <2>4. Take(p, q, fits) = P
    <3>1. p = [free |-> p.free, paid |-> p.paid, splits |-> p.splits,
               current |-> p.current, left |-> p.left]
      BY <2>1, StateIs
    <3>2. Take(p, q, fits) = [p EXCEPT !.free = @ \ {r}, !.paid = With(@, q, Whole(r))]
      BY <1>2 DEF Take
    <3>. QED  BY <3>1, <3>2
  <2>. HIDE DEF r
  <2>5. Whole(r) \in Ref /\ There(Whole(r), Len(p.splits)) /\ AmountOf(p, Whole(r)) >= payees[q]
    BY <2>3, WholeIs
  <2>6. ~Used(p, Whole(r)) /\ F \in SUBSET p.free /\ \A s \in F : Whole(r) # Whole(s)
    BY <2>1, <2>3, WholeIs DEF Good
  <2>7. p.left = 0 \/ (p.left = p.left /\ Whole(r) # p.current)
    BY <2>1, <2>3 DEF Good
  <2>8. Good(P) /\ DOMAIN P.paid = DOMAIN p.paid \cup {q}
    BY <2>5, <2>6, <2>7, PaidWith
  <2>9. P.splits = p.splits /\ P.free = p.free \ {r}
    OBVIOUS
  <2>. HIDE DEF P
  <2>. QED  BY <1>2, <2>2, <2>4, <2>8, <2>9
<1>. QED  BY <1>1, <1>2

\* A split of what is left: one part for the payee, the other is left.
LEMMA SplitOff ==
  ASSUME Given, NEW p, Good(p), NEW amount \in Nat, amount > 0, amount < p.left
  PROVE  LET k == Len(p.splits) + 1
             P == [free |-> p.free, paid |-> p.paid,
                   splits |-> Append(p.splits, [source |-> p.current, amount |-> amount,
                                                remainder |-> p.left - amount]),
                   current |-> Output(k, "remainder"), left |-> p.left - amount]
         IN  /\ Good(P) /\ Len(P.splits) = k
             /\ Output(k, "amount") \in Ref /\ There(Output(k, "amount"), k)
             /\ AmountOf(P, Output(k, "amount")) = amount /\ ~Used(P, Output(k, "amount"))
             /\ \A r : Output(k, "amount") # Whole(r)
             /\ Output(k, "amount") # P.current
<1>. DEFINE n == Len(p.splits)
            k == n + 1
            s == [source |-> p.current, amount |-> amount, remainder |-> p.left - amount]
            rest == Output(k, "remainder")
            part == Output(k, "amount")
            P == [free |-> p.free, paid |-> p.paid, splits |-> Append(p.splits, s),
                  current |-> rest, left |-> p.left - amount]
<1>1. /\ p \in PlanState /\ p.free \subseteq Listed /\ p.left \in Nat /\ p.current \in Ref
      /\ DOMAIN p.paid \subseteq Payee /\ \A x \in DOMAIN p.paid : p.paid[x] \in Ref
      /\ p.splits \in Seq(PlanSplit) /\ n \in Nat /\ DOMAIN p.splits = 1..n
      /\ \A i \in 1..n : p.splits[i] \in PlanSplit /\ p.splits[i].source \in Ref
  BY StateIs DEF Good
<1>2. p.left - amount \in Nat /\ p.left - amount > 0 /\ p.left > 0
  BY <1>1
<1>3. s \in PlanSplit
  BY <1>1, <1>2 DEF PlanSplit
<1>4. /\ s.source = p.current /\ s.amount = amount /\ s.remainder = p.left - amount
      /\ rest \in Ref /\ part \in Ref /\ rest # part
      /\ rest.output = "remainder" /\ part.output = "amount"
      /\ rest.split = k /\ part.split = k /\ rest.record = 0 /\ part.record = 0
      /\ \A r : rest # Whole(r) /\ part # Whole(r)
  BY <1>1 DEF Output, Whole, Ref
<1>5. P.free = p.free /\ P.paid = p.paid /\ P.current = rest /\ P.left = p.left - amount
      /\ P.splits = Append(p.splits, s)
  OBVIOUS
<1>6. /\ P.splits \in Seq(PlanSplit) /\ Len(P.splits) = k /\ DOMAIN P.splits = 1..k
      /\ P.splits[k] = s /\ \A i \in 1..n : P.splits[i] = p.splits[i]
  <2>. HIDE DEF s
  <2>. QED  BY <1>1, <1>3
<1>7. P \in PlanState
  <2>1. p.paid \in PaidSoFar /\ p.free \in SUBSET Listed
    BY <1>1 DEF PlanState
  <2>. HIDE DEF s, rest
  <2>. QED  BY <1>2, <1>4, <1>6, <2>1 DEF PlanState
<1>. HIDE DEF P, s, rest, part
<1>8. \A x : There(x, n) => There(x, k) /\ AmountOf(P, x) = AmountOf(p, x) /\ x # rest /\ x # part
  <2>1. 1..n \subseteq 1..k /\ k \notin 1..n
    BY <1>1
  <2>2. ASSUME NEW x, There(x, n)
        PROVE  There(x, k) /\ AmountOf(P, x) = AmountOf(p, x) /\ x # rest /\ x # part
    <3>1. CASE x.output = "whole" /\ x.record \in Listed /\ x.split = 0
      BY <1>4, <3>1 DEF There, AmountOf
    <3>2. CASE x.output \in {"amount", "remainder"} /\ x.record = 0 /\ x.split \in 1..n
      <4>1. P.splits[x.split] = p.splits[x.split] /\ x.split \in 1..k /\ x.split # k
        BY <1>6, <2>1, <3>2
      <4>. QED  BY <1>4, <3>2, <4>1 DEF There, AmountOf
    <3>. QED  BY <2>2, <3>1, <3>2 DEF There
  <2>. QED  BY <2>2
<1>9. \A i \in 1..n : There(p.splits[i].source, i - 1) /\ There(p.splits[i].source, n)
  <2>. SUFFICES ASSUME NEW i \in 1..n
       PROVE  There(p.splits[i].source, i - 1) /\ There(p.splits[i].source, n)
    OBVIOUS
  <2>1. There(p.splits[i].source, i - 1) /\ 1..(i - 1) \subseteq 1..n
    BY <1>1 DEF Good
  <2>. QED  BY <2>1 DEF There
<1>10. /\ There(p.current, n) /\ AmountOf(p, p.current) = p.left /\ ~Used(p, p.current)
       /\ \A r \in p.free : p.current # Whole(r)
  BY <1>2 DEF Good
<1>11. \A x : Used(P, x) => Used(p, x) \/ x = p.current
  <2>1. \A i \in 1..k : i \in 1..n \/ i = k
    BY <1>1
  <2>. QED  BY <1>1, <1>4, <1>5, <1>6, <2>1 DEF Used
<1>12. \A x : Used(p, x) => There(x, n)
  BY <1>1, <1>9 DEF Used, Good
<1>13. \A x \in DOMAIN P.paid :
         There(P.paid[x], Len(P.splits)) /\ AmountOf(P, P.paid[x]) >= payees[x]
  BY <1>5, <1>6, <1>8 DEF Good
<1>14. \A i \in DOMAIN P.splits : There(P.splits[i].source, i - 1)
  <2>1. \A i \in 1..k : i \in 1..n \/ (i = k /\ i - 1 = n)
    BY <1>1
  <2>. QED  BY <1>4, <1>6, <1>9, <1>10, <2>1
<1>15. NothingShared(P)
  <2>1. \A i \in 1..k : i \in 1..n \/ i = k
    BY <1>1
  <2>2. \A i \in 1..n : p.splits[i].source # p.current
    BY <1>1, <1>10 DEF Used
  <2>3. \A x \in DOMAIN p.paid : p.paid[x] # p.current
    BY <1>10 DEF Used
  <2>4. \A i, j \in 1..n : i # j => p.splits[i].source # p.splits[j].source
    BY <1>1 DEF Good, NothingShared
  <2>5. \A i, j \in DOMAIN P.splits : i # j => P.splits[i].source # P.splits[j].source
    BY SMTT(20), <1>4, <1>6, <2>1, <2>2, <2>4
  <2>6. \A i \in DOMAIN P.splits, x \in DOMAIN P.paid : P.splits[i].source # P.paid[x]
    <3>1. \A i \in 1..n, x \in DOMAIN p.paid : p.splits[i].source # p.paid[x]
      BY <1>1 DEF Good, NothingShared
    <3>. QED  BY <1>4, <1>5, <1>6, <2>1, <2>3, <3>1
  <2>7. \A i \in DOMAIN P.splits : P.splits[i].source.split < i
    <3>. SUFFICES ASSUME NEW i \in 1..k PROVE P.splits[i].source.split < i
      BY <1>6
    <3>1. There(P.splits[i].source, i - 1)
      BY <1>6, <1>14
    <3>. QED  BY <1>1, <3>1 DEF There
  <2>. QED  BY <1>5, <2>5, <2>6, <2>7 DEF Good, NothingShared
<1>16. SplitsAddUp(P)
  <2>1. \A i \in 1..k : i \in 1..n \/ i = k
    BY <1>1
  <2>2. ASSUME NEW i \in 1..n
        PROVE  /\ P.splits[i].amount > 0 /\ P.splits[i].remainder > 0
               /\ P.splits[i].amount + P.splits[i].remainder = AmountOf(P, P.splits[i].source)
    <3>1. P.splits[i] = p.splits[i] /\ AmountOf(P, p.splits[i].source) = AmountOf(p, p.splits[i].source)
      BY <1>6, <1>8, <1>9
    <3>. QED  BY <1>1, <3>1 DEF Good, SplitsAddUp
  <2>3. /\ P.splits[k].amount > 0 /\ P.splits[k].remainder > 0
        /\ P.splits[k].amount + P.splits[k].remainder = AmountOf(P, P.splits[k].source)
    <3>1. AmountOf(P, p.current) = p.left
      BY <1>8, <1>10
    <3>. QED  BY <1>1, <1>2, <1>4, <1>6, <3>1
  <2>. QED  BY <1>6, <2>1, <2>2, <2>3 DEF SplitsAddUp
<1>17. \A r \in P.free : ~Used(P, Whole(r))
  BY <1>5, <1>10, <1>11 DEF Good
<1>18. There(rest, k) /\ There(part, k) /\ AmountOf(P, rest) = p.left - amount /\ AmountOf(P, part) = amount
  <2>1. k \in 1..k
    BY <1>1
  <2>. QED  BY <1>4, <1>6, <2>1 DEF There, AmountOf
<1>19. ~Used(P, rest) /\ ~Used(P, part)
  BY <1>8, <1>10, <1>11, <1>12
<1>20. Good(P)
  <2>1. \A r \in P.free : P.current # Whole(r)
    BY <1>4, <1>5
  <2>. QED
    BY <1>5, <1>6, <1>7, <1>13, <1>14, <1>15, <1>16, <1>17, <1>18, <1>19, <2>1 DEF Good
<1>21. Good(P) /\ Len(P.splits) = k /\ part \in Ref /\ There(part, k) /\ AmountOf(P, part) = amount
       /\ ~Used(P, part) /\ (\A r : part # Whole(r)) /\ part # P.current
  BY <1>4, <1>5, <1>6, <1>18, <1>19, <1>20
<1>. QED  BY <1>21 DEF P, part, rest, s

\* Step 3, one payee.
LEMMA CarveOneIs ==
  ASSUME Given, NEW p, Good(p), NEW q \in Payee
  PROVE  LET P == CarveOne(p, q)
         IN  /\ Good(P) /\ P.free = p.free
             /\ payees[q] <= p.left => /\ DOMAIN P.paid = DOMAIN p.paid \cup {q}
                                       /\ P.left = p.left - payees[q]
<1>. DEFINE P == CarveOne(p, q)
<1>1. /\ p \in PlanState /\ p.free \subseteq Listed /\ p.left \in Nat /\ p.current \in Ref
      /\ p = [free |-> p.free, paid |-> p.paid, splits |-> p.splits,
              current |-> p.current, left |-> p.left]
      /\ payees[q] \in Nat /\ payees[q] > 0
  BY StateIs, GivenIs DEF Good
<1>2. CASE payees[q] > p.left
  <2>1. P = p
    BY <1>1, <1>2 DEF CarveOne
  <2>. QED  BY <1>1, <1>2, <2>1
<1>3. CASE payees[q] = p.left
  <2>. DEFINE R == [free |-> p.free, paid |-> With(p.paid, q, p.current), splits |-> p.splits,
                    current |-> p.current, left |-> 0]
  <2>1. P = R
    <3>1. P = [p EXCEPT !.paid = With(@, q, p.current), !.left = 0]
      BY <1>1, <1>3 DEF CarveOne
    <3>. QED  BY <1>1, <3>1
  <2>2. /\ There(p.current, Len(p.splits)) /\ AmountOf(p, p.current) = p.left
        /\ ~Used(p, p.current) /\ \A r \in p.free : p.current # Whole(r)
    BY <1>1, <1>3 DEF Good
  <2>3. AmountOf(p, p.current) >= payees[q] /\ p.free \in SUBSET p.free
    BY <1>1, <1>3, <2>2
  <2>4. Good(R) /\ DOMAIN R.paid = DOMAIN p.paid \cup {q}
    BY <1>1, <2>2, <2>3, PaidWith
  <2>5. R.free = p.free /\ R.left = 0
    OBVIOUS
  <2>. HIDE DEF R
  <2>. QED  BY <1>1, <1>3, <2>1, <2>4, <2>5
<1>4. CASE payees[q] < p.left
  <2>. DEFINE k == Len(p.splits) + 1
              M == [free |-> p.free, paid |-> p.paid,
                    splits |-> Append(p.splits, [source |-> p.current, amount |-> payees[q],
                                                 remainder |-> p.left - payees[q]]),
                    current |-> Output(k, "remainder"), left |-> p.left - payees[q]]
              part == Output(k, "amount")
              R == [free |-> M.free, paid |-> With(M.paid, q, part), splits |-> M.splits,
                    current |-> M.current, left |-> M.left]
  <2>1. P = R
    <3>1. P = [p EXCEPT !.splits = Append(@, [source |-> p.current, amount |-> payees[q],
                                              remainder |-> p.left - payees[q]]),
                        !.paid = With(@, q, part),
                        !.current = Output(k, "remainder"),
                        !.left = @ - payees[q]]
      BY <1>1, <1>4 DEF CarveOne
    <3>. HIDE DEF part
    <3>. QED  BY <1>1, <3>1
  <2>2. /\ Good(M) /\ Len(M.splits) = k
        /\ part \in Ref /\ There(part, k) /\ AmountOf(M, part) = payees[q] /\ ~Used(M, part)
        /\ \A r : part # Whole(r)
        /\ part # M.current
    BY <1>1, <1>4, SplitOff
  <2>3. M.free = p.free /\ M.paid = p.paid /\ M.left = p.left - payees[q]
    OBVIOUS
  <2>. HIDE DEF M, part
  <2>4. AmountOf(M, part) >= payees[q] /\ M.free \in SUBSET M.free
        /\ (M.left = 0 \/ (M.left = M.left /\ part # M.current))
        /\ (\A r \in M.free : part # Whole(r)) /\ There(part, Len(M.splits))
    BY <1>1, <2>2
  <2>5. Good(R) /\ DOMAIN R.paid = DOMAIN M.paid \cup {q}
    BY ZenonT(40), <2>2, <2>4, PaidWith
  <2>6. R.free = M.free /\ R.left = M.left
    OBVIOUS
  <2>. HIDE DEF R
  <2>. QED  BY <2>1, <2>3, <2>5, <2>6
<1>. QED  BY <1>1, <1>2, <1>3, <1>4

Owed == SumFunction(payees)

LEMMA OwedIs ==
  ASSUME Given
  PROVE  /\ Owed = Over(Payee, payees) /\ Owed \in Nat
         /\ \A T \in SUBSET Payee :
              /\ IsFiniteSet(T) /\ IntOn(T, payees) /\ Over(T, payees) \in Nat
              /\ Over(T, payees) <= Owed
              /\ \A q \in T : Over(T, payees) = payees[q] + Over(T \ {q}, payees)
<1>1. IsFiniteSet(Payee) /\ \A q \in Payee : payees[q] \in Nat
  BY GivenIs
<1>2. Owed = Over(Payee, payees)
  <2>1. payees = [q \in Payee |-> payees[q]]
    BY DEF Given, Payee
  <2>. QED  BY <2>1 DEF Owed, Over
<1>3. ASSUME NEW T \in SUBSET Payee
      PROVE  /\ IsFiniteSet(T) /\ IntOn(T, payees) /\ Over(T, payees) \in Nat
             /\ \A q \in T : Over(T, payees) = payees[q] + Over(T \ {q}, payees)
  <2>1. IsFiniteSet(T) /\ IntOn(T, payees) /\ \A q \in T : payees[q] \in Nat
    BY <1>1, FS_Subset DEF IntOn
  <2>. QED  BY <2>1, SumNat, SumParts
<1>4. ASSUME NEW T \in SUBSET Payee PROVE Over(T, payees) <= Over(Payee, payees)
  <2>1. Over(Payee, payees) = Over(T, payees) + Over(Payee \ T, payees)
    BY <1>1, <1>3, SumSplit
  <2>2. Over(T, payees) \in Nat /\ Over(Payee \ T, payees) \in Nat
    BY <1>3
  <2>. QED  BY <2>1, <2>2
<1>5. Payee \in SUBSET Payee
  OBVIOUS
<1>. QED  BY <1>2, <1>3, <1>4, <1>5

\* Step 3, one record: it is used up, and is enough for all if it holds what they are owed.
LEMMA CarveFromIs ==
  ASSUME Given, NEW p, Good(p), NEW r \in p.free
  PROVE  LET P == CarveFrom(p, r)
         IN  /\ Good(P) /\ P.free = p.free \ {r}
             /\ records[r] >= Over(Unassigned(p), payees) => DOMAIN P.paid = Payee
<1>. DEFINE S == Unassigned(p)
            base == [free |-> p.free \ {r}, paid |-> p.paid, splits |-> p.splits,
                     current |-> Whole(r), left |-> records[r]]
            enough == records[r] >= Over(S, payees)
            St == [V \in SUBSET S |->
                     {s \in PlanState :
                        /\ Good(s) /\ s.free = p.free \ {r}
                        /\ enough => /\ DOMAIN s.paid = DOMAIN p.paid \cup V
                                     /\ s.left = records[r] - Over(V, payees)}]
<1>1. /\ p \in PlanState /\ p.free \subseteq Listed /\ DOMAIN p.paid \subseteq Payee /\ r \in Listed
      /\ p = [free |-> p.free, paid |-> p.paid, splits |-> p.splits,
              current |-> p.current, left |-> p.left]
      /\ records[r] \in Nat
  BY StateIs, GivenIs DEF Good
<1>2. S \subseteq Payee /\ IsFiniteSet(S) /\ S \subseteq Int /\ IntOn(S, payees)
  <2>1. S \subseteq Payee
    BY DEF Unassigned
  <2>. HIDE DEF S
  <2>. QED  BY <2>1, GivenIs, OwedIs
<1>3. CarveFrom(p, r) = BiggestFirst(CarveOne, base, payees, S)
  <2>1. base = [p EXCEPT !.free = @ \ {r}, !.current = Whole(r), !.left = records[r]]
    <3>. DEFINE a == [p EXCEPT !.free = @ \ {r}, !.current = Whole(r), !.left = records[r]]
    <3>1. Whole(r) \in Ref /\ p.free \ {r} \in SUBSET Listed
      BY <1>1, WholeIs
    <3>2. /\ a \in PlanState
          /\ a.free = p.free \ {r} /\ a.paid = p.paid /\ a.splits = p.splits
          /\ a.current = Whole(r) /\ a.left = records[r]
      BY <1>1, <3>1 DEF PlanState
    <3>. HIDE DEF a
    <3>3. a = base
      BY <3>2, StateIs
    <3>. QED  BY <3>3 DEF a
  <2>. QED  BY <2>1 DEF CarveFrom
<1>4. base.free = p.free \ {r} /\ base.paid = p.paid /\ base.splits = p.splits
      /\ base.current = Whole(r) /\ base.left = records[r]
  OBVIOUS
<1>5. base \in PlanState
  <2>1. p.paid \in PaidSoFar /\ p.splits \in Seq(PlanSplit) /\ Whole(r) \in Ref
        /\ p.free \ {r} \in SUBSET Listed
    BY <1>1, WholeIs DEF PlanState
  <2>. QED  BY <1>1, <2>1 DEF PlanState
<1>. HIDE DEF base
<1>6. Good(base)
  <2>1. \A x : AmountOf(base, x) = AmountOf(p, x) /\ (Used(base, x) <=> Used(p, x))
    BY <1>4 DEF AmountOf, Used
  <2>2. NothingShared(base) /\ SplitsAddUp(base)
    BY <1>4, <2>1 DEF Good, NothingShared, SplitsAddUp
  <2>3. /\ There(Whole(r), Len(p.splits)) /\ AmountOf(p, Whole(r)) = records[r]
        /\ ~Used(p, Whole(r)) /\ \A x \in p.free \ {r} : Whole(r) # Whole(x)
    BY <1>1, WholeIs DEF Good
  <2>. QED  BY <1>4, <1>5, <2>1, <2>2, <2>3 DEF Good
<1>7. base \in St[{}]
  <2>1. Over({}, payees) = 0 /\ {} \in SUBSET S
    BY SumNone
  <2>. HIDE DEF S
  <2>. QED  BY <1>1, <1>4, <1>5, <1>6, <2>1
<1>8. ASSUME NEW U \in SUBSET S, U # {}, NEW s \in St[U \ {LastOf(payees, U)}]
      PROVE  CarveOne(s, LastOf(payees, U)) \in St[U]
  <2>. DEFINE x == LastOf(payees, U)
              T == CarveOne(s, x)
  <2>1. x \in U
    BY <1>2, <1>8, LastOfIs
  <2>2. x \in Payee
    BY <1>2, <2>1
  <2>3. /\ Good(s) /\ s.free = p.free \ {r}
        /\ enough => /\ DOMAIN s.paid = DOMAIN p.paid \cup (U \ {x})
                     /\ s.left = records[r] - Over(U \ {x}, payees)
    BY <1>8
  <2>. HIDE DEF St, x
  <2>4. /\ Good(T) /\ T.free = s.free
        /\ payees[x] <= s.left => /\ DOMAIN T.paid = DOMAIN s.paid \cup {x}
                                  /\ T.left = s.left - payees[x]
    BY <2>2, <2>3, CarveOneIs
  <2>5. ASSUME enough
        PROVE  DOMAIN T.paid = DOMAIN p.paid \cup U /\ T.left = records[r] - Over(U, payees)
    <3>1. /\ Over(U, payees) = payees[x] + Over(U \ {x}, payees)
          /\ Over(U, payees) \in Nat /\ Over(U \ {x}, payees) \in Nat
          /\ payees[x] \in Nat
      <4>1. U \in SUBSET Payee /\ U \ {x} \in SUBSET Payee
        BY <1>2
      <4>. QED  BY <2>1, <2>2, <4>1, OwedIs, GivenIs
    <3>2. Over(U, payees) <= Over(S, payees)
      <4>1. Over(S, payees) = Over(U, payees) + Over(S \ U, payees)
        BY <1>2, SumSplit
      <4>2. Over(S \ U, payees) \in Nat
        <5>1. S \ U \in SUBSET Payee
          BY <1>2
        <5>. QED  BY <5>1, OwedIs
      <4>. QED  BY <3>1, <4>1, <4>2
    <3>3. Over(S, payees) \in Nat
      BY <1>2, OwedIs
    <3>4. payees[x] <= s.left
      BY <1>1, <2>3, <2>5, <3>1, <3>2, <3>3
    <3>5. s.left - payees[x] = records[r] - Over(U, payees)
      BY <1>1, <2>3, <2>5, <3>1
    <3>6. (U \ {x}) \cup {x} = U
      BY <2>1
    <3>. QED  BY <2>3, <2>4, <2>5, <3>4, <3>5, <3>6
  <2>6. T \in PlanState
    BY <2>4 DEF Good
  <2>. QED  BY <2>3, <2>4, <2>5, <2>6 DEF St, x
<1>9. CarveFrom(p, r) \in St[S]
  <2>1. BiggestFirst(CarveOne, base, payees, S) \in St[S]
    <3>. HIDE DEF S, St
    <3>. QED  BY <1>2, <1>7, <1>8, CarveOneTurns
  <2>. QED  BY <1>3, <2>1
<1>10. DOMAIN p.paid \cup S = Payee
  BY <1>1 DEF Unassigned
<1>. QED  BY <1>9, <1>10

\* One record is enough for all, and cannot be an exact fit for one of several.
Big(r) == r \in Listed /\ records[r] >= Owed

LEMMA NobodyIsGood ==
  ASSUME Given
  PROVE  Good(Nobody) /\ Nobody.free = Listed /\ Nobody.splits = <<>> /\ DOMAIN Nobody.paid = {}
<1>1. Nobody = [free |-> Listed, paid |-> <<>>, splits |-> <<>>, current |-> Whole(0), left |-> 0]
  BY DEF Nobody
<1>2. DOMAIN Nobody.paid = {} /\ DOMAIN Nobody.splits = {} /\ Nobody.left = 0
      /\ Nobody.free = Listed /\ Nobody.splits = <<>>
  BY <1>1
<1>3. Nobody \in PlanState
  <2>1. Whole(0) \in Ref
    BY DEF Whole, Ref
  <2>2. <<>> \in PaidSoFar
    <3>1. <<>> \in [{} -> Ref]
      OBVIOUS
    <3>. QED  BY <3>1 DEF PaidSoFar
  <2>3. <<>> \in Seq(PlanSplit)
    OBVIOUS
  <2>. QED  BY <1>1, <2>1, <2>2, <2>3 DEF PlanState
<1>. HIDE DEF Nobody
<1>4. \A x : ~Used(Nobody, x)
  BY <1>2 DEF Used
<1>. QED  BY <1>2, <1>3, <1>4 DEF Good, NothingShared, SplitsAddUp

LEMMA BigIsKept ==
  ASSUME Given, NEW r, Big(r), Len(payees) > 1, NEW q \in Payee
  PROVE  records[r] # payees[q]
<1>1. PICK o \in Payee : o # q
  <2>1. 1 \in Payee /\ 2 \in Payee
    BY GivenIs
  <2>. QED  BY <2>1
<1>2. /\ Owed = Over(Payee, payees) /\ Owed \in Nat
      /\ Owed = payees[q] + Over(Payee \ {q}, payees)
      /\ Over(Payee \ {q}, payees) = payees[o] + Over((Payee \ {q}) \ {o}, payees)
      /\ Over((Payee \ {q}) \ {o}, payees) \in Nat
  <2>1. /\ Payee \in SUBSET Payee /\ Payee \ {q} \in SUBSET Payee
        /\ (Payee \ {q}) \ {o} \in SUBSET Payee /\ o \in Payee \ {q}
    BY <1>1
  <2>. QED  BY <2>1, OwedIs
<1>. QED  BY <1>1, <1>2, GivenIs DEF Big

\* After the exact fits as many records are gone as payees have one.
LEMMA ExactFitsAre ==
  ASSUME Given
  PROVE  LET p == AfterExactFits
         IN  /\ Good(p)
             /\ Cardinality(p.free) + Cardinality(DOMAIN p.paid) = Len(records)
             /\ Len(payees) > 1 => \A r : Big(r) => r \in p.free
<1>. DEFINE St == [U \in SUBSET Payee |->
                     {s \in PlanState :
                        /\ Good(s) /\ DOMAIN s.paid \subseteq U
                        /\ Cardinality(s.free) + Cardinality(DOMAIN s.paid) = Len(records)
                        /\ Len(payees) > 1 => \A r : Big(r) => r \in s.free}]
<1>1. Nobody \in St[{}]
  <2>1. Cardinality({}) = 0 /\ Cardinality(Listed) = Len(records) /\ Len(records) \in Nat
    BY GivenIs, FS_EmptySet
  <2>2. \A r : Big(r) => r \in Listed
    BY DEF Big
  <2>3. Nobody \in PlanState
    BY NobodyIsGood DEF Good
  <2>4. Cardinality(Nobody.free) + Cardinality(DOMAIN Nobody.paid) = Len(records)
    <3>1. Nobody.free = Listed /\ DOMAIN Nobody.paid = {}
      BY NobodyIsGood
    <3>. QED  BY <2>1, <3>1
  <2>5. DOMAIN Nobody.paid \subseteq {} /\ Good(Nobody) /\ Nobody.free = Listed
    BY NobodyIsGood
  <2>. QED  BY <2>2, <2>3, <2>4, <2>5
<1>2. ASSUME NEW U \in SUBSET Payee, U # {}, NEW s \in St[U \ {LastOf(payees, U)}]
      PROVE  ExactFit(s, LastOf(payees, U)) \in St[U]
  <2>. DEFINE x == LastOf(payees, U)
              fits == {r \in s.free : records[r] = payees[x]}
              T == Take(s, x, fits)
  <2>1. x \in U /\ x \in Payee
    BY <1>2, GivenIs, OwedIs, LastOfIs
  <2>2. /\ Good(s) /\ DOMAIN s.paid \subseteq U \ {x}
        /\ Cardinality(s.free) + Cardinality(DOMAIN s.paid) = Len(records)
        /\ Len(payees) > 1 => \A r : Big(r) => r \in s.free
    BY <1>2
  <2>3. s \in PlanState /\ s.free \subseteq Listed
    BY <2>2, StateIs DEF Good
  <2>. HIDE DEF St, x
  <2>4. fits \in SUBSET s.free /\ \A r \in fits : records[r] >= payees[x]
    <3>1. \A r \in fits : records[r] = payees[x] /\ payees[x] \in Nat
      BY <2>1, GivenIs
    <3>. QED  BY <3>1
  <2>5. /\ Good(T)
        /\ fits = {} => T = s
        /\ fits # {} => /\ \E r \in fits : T.free = s.free \ {r}
                        /\ DOMAIN T.paid = DOMAIN s.paid \cup {x}
    <3>. HIDE DEF fits
    <3>. QED  BY <2>1, <2>2, <2>4, TakeIs
  <2>6. T \in St[U]
    <3>1. CASE fits = {}
      <4>1. T = s /\ DOMAIN s.paid \subseteq U
        BY <2>2, <2>5, <3>1
      <4>. HIDE DEF T
      <4>. QED  BY <2>2, <2>3, <4>1 DEF St
    <3>2. CASE fits # {}
      <4>1. PICK r \in fits : T.free = s.free \ {r}
        BY <2>5, <3>2
      <4>2. r \in s.free /\ records[r] = payees[x]
        OBVIOUS
      <4>3. DOMAIN T.paid = DOMAIN s.paid \cup {x} /\ x \notin DOMAIN s.paid
            /\ DOMAIN s.paid \subseteq U
        BY <2>2, <2>5, <3>2
      <4>4. IsFiniteSet(s.free) /\ IsFiniteSet(DOMAIN s.paid)
        <5>1. DOMAIN s.paid \subseteq Payee
          BY <4>3
        <5>. QED  BY <2>3, <5>1, GivenIs, FS_Subset
      <4>. HIDE DEF T, fits
      <4>5. /\ Cardinality(T.free) = Cardinality(s.free) - 1
            /\ Cardinality(DOMAIN T.paid) = Cardinality(DOMAIN s.paid) + 1
            /\ Cardinality(s.free) \in Nat /\ Cardinality(DOMAIN s.paid) \in Nat
        <5>1. Cardinality(s.free \ {r}) = Cardinality(s.free) - 1
          BY <4>2, <4>4, FS_RemoveElement
        <5>2. Cardinality(DOMAIN s.paid \cup {x}) = Cardinality(DOMAIN s.paid) + 1
          BY <4>3, <4>4, FS_AddElement
        <5>3. Cardinality(s.free) \in Nat /\ Cardinality(DOMAIN s.paid) \in Nat
          BY <4>4, FS_CardinalityType
        <5>. QED  BY <4>1, <4>3, <5>1, <5>2, <5>3
      <4>6. Cardinality(T.free) + Cardinality(DOMAIN T.paid) = Len(records)
        BY <2>2, <4>5
      <4>7. ASSUME Len(payees) > 1, NEW b, Big(b) PROVE b \in T.free
        <5>1. b # r
          BY <2>1, <4>2, <4>7, BigIsKept
        <5>. QED  BY <2>2, <4>1, <4>7, <5>1
      <4>8. T \in PlanState /\ DOMAIN T.paid \subseteq U
        BY <2>1, <2>5, <4>3 DEF Good
      <4>. QED  BY <2>5, <4>6, <4>7, <4>8 DEF St
    <3>. QED  BY <3>1, <3>2
  <2>. QED  BY <2>6 DEF ExactFit, x
<1>3. AfterExactFits \in St[Payee]
  <2>1. IsFiniteSet(Payee) /\ Payee \subseteq Int /\ IntOn(Payee, payees)
    BY GivenIs, OwedIs
  <2>. HIDE DEF St
  <2>. QED  BY <1>1, <1>2, <2>1, ExactFitTurns DEF AfterExactFits
<1>. QED  BY <1>3

LEMMA FitsAre ==
  ASSUME Given
  PROVE  Good(AfterFits)
<1>. DEFINE p == AfterExactFits
            S == Unassigned(p)
            St == [U \in SUBSET S |-> {s \in PlanState : Good(s)}]
<1>1. Good(p) /\ p \in PlanState
  BY ExactFitsAre DEF Good
<1>2. p \in St[{}]
  BY <1>1
<1>3. S \subseteq Payee /\ IsFiniteSet(S) /\ S \subseteq Int /\ IntOn(S, payees)
  <2>1. S \subseteq Payee
    BY DEF Unassigned
  <2>. HIDE DEF S
  <2>. QED  BY <2>1, GivenIs, OwedIs
<1>. HIDE DEF p
<1>4. ASSUME NEW U \in SUBSET S, U # {}, NEW s \in St[U \ {LastOf(payees, U)}]
      PROVE  BestFit(s, LastOf(payees, U)) \in St[U]
  <2>. DEFINE x == LastOf(payees, U)
              fits == {r \in s.free : records[r] >= payees[x]}
  <2>1. x \in Payee
    <3>. HIDE DEF S
    <3>. QED  BY <1>3, <1>4, LastOfIs
  <2>2. Good(s)
    BY <1>4
  <2>. HIDE DEF x
  <2>3. Good(Take(s, x, fits))
    <3>1. fits \in SUBSET s.free /\ \A r \in fits : records[r] >= payees[x]
      OBVIOUS
    <3>. HIDE DEF fits
    <3>. QED  BY <2>1, <2>2, <3>1, TakeIs
  <2>4. Take(s, x, fits) \in PlanState
    BY <2>3 DEF Good
  <2>. QED  BY <2>3, <2>4 DEF BestFit, x
<1>5. BiggestFirst(BestFit, p, payees, S) \in St[S]
  <2>. HIDE DEF S, St
  <2>. QED  BY <1>2, <1>3, <1>4, BestFitTurns
<1>6. Good(BiggestFirst(BestFit, p, payees, S))
  BY <1>5
<1>. QED  BY <1>1, <1>6 DEF AfterFits, p

(* Every plan that is made is sound, and one is made whenever one record     *)
(* covers everybody and there are fewer records than payees (plan.ts).       *)
LEMMA CarvedIs ==
  ASSUME Given
  PROVE  /\ Good(Carved)
         /\ (\E r \in AfterFits.free : Big(r)) => DOMAIN Carved.paid = Payee
<1>. DEFINE F == AfterFits.free
            St == [U \in SUBSET F |->
                     {s \in PlanState :
                        /\ Good(s) /\ s.free = F \ U
                        /\ (\E r \in U : Big(r)) => DOMAIN s.paid = Payee}]
<1>1. Good(AfterFits) /\ AfterFits \in PlanState /\ F \subseteq Listed
  BY FitsAre, StateIs DEF Good
<1>2. AfterFits \in St[{}]
  BY <1>1
<1>3. IsFiniteSet(F) /\ F \subseteq Int /\ IntOn(F, records)
  <2>. HIDE DEF F
  <2>. QED  BY <1>1, GivenIs, FS_Subset DEF IntOn
<1>. HIDE DEF F
<1>4. ASSUME NEW U \in SUBSET F, U # {}, NEW s \in St[U \ {LastOf(records, U)}]
      PROVE  CarveFrom(s, LastOf(records, U)) \in St[U]
  <2>. DEFINE x == LastOf(records, U)
              T == CarveFrom(s, x)
  <2>1. x \in U /\ x \in F /\ x \in Listed
    BY <1>1, <1>3, <1>4, LastOfIs
  <2>2. /\ Good(s) /\ s.free = F \ (U \ {x}) /\ s \in PlanState
        /\ (\E r \in U \ {x} : Big(r)) => DOMAIN s.paid = Payee
    BY <1>4
  <2>. HIDE DEF St, x
  <2>3. x \in s.free
    BY <2>1, <2>2
  <2>4. /\ Good(T) /\ T.free = s.free \ {x}
        /\ records[x] >= Over(Unassigned(s), payees) => DOMAIN T.paid = Payee
    BY <2>2, <2>3, CarveFromIs
  <2>5. records[x] \in Nat /\ Over(Unassigned(s), payees) \in Nat
        /\ Over(Unassigned(s), payees) <= Owed /\ Owed \in Nat
    <3>1. Unassigned(s) \in SUBSET Payee
      BY DEF Unassigned
    <3>. QED  BY <2>1, <3>1, OwedIs, GivenIs
  <2>6. ASSUME NEW r \in U, Big(r) PROVE DOMAIN T.paid = Payee
    <3>1. CASE r = x
      BY <2>4, <2>5, <2>6, <3>1 DEF Big
    <3>2. CASE r # x
      <4>1. Unassigned(s) = {}
        BY <2>2, <2>6, <3>2 DEF Unassigned
      <4>2. Over(Unassigned(s), payees) = 0
        BY <4>1, SumNone
      <4>. QED  BY <2>4, <2>5, <4>2
    <3>. QED  BY <3>1, <3>2
  <2>7. T \in PlanState /\ T.free = F \ U
    BY <2>1, <2>2, <2>4 DEF Good
  <2>. QED  BY <2>4, <2>6, <2>7 DEF St, x
<1>5. Carved \in St[F]
  <2>1. BiggestFirst(CarveFrom, AfterFits, records, F) \in St[F]
    <3>. HIDE DEF St
    <3>. QED  BY <1>2, <1>3, <1>4, CarveFromTurns
  <2>. QED  BY <2>1 DEF Carved, F
<1>. QED  BY <1>5 DEF F

LEMMA NotRefused ==
  ASSUME Given, Len(records) < Len(payees), NEW r, Big(r)
  PROVE  ~Refused
<1>. DEFINE p == AfterExactFits
<1>1. /\ Len(records) \in Nat /\ Len(payees) \in Nat /\ Listed = 1..Len(records) /\ r \in Listed
      /\ IsFiniteSet(Payee) /\ Cardinality(Payee) = Len(payees) /\ IsFiniteSet(Listed)
      /\ \A x \in Listed : records[x] \in Nat
  BY GivenIs DEF Big
<1>2. Len(payees) > 1
  BY <1>1
<1>3. /\ Good(p) /\ r \in p.free
      /\ Cardinality(p.free) + Cardinality(DOMAIN p.paid) = Len(records)
      /\ p.free \subseteq Listed /\ DOMAIN p.paid \subseteq Payee
  BY <1>2, ExactFitsAre, StateIs DEF Good
<1>. HIDE DEF p
<1>4. ~Enough(p)
  <2>1. IsFiniteSet(p.free) /\ IsFiniteSet(DOMAIN p.paid)
    BY <1>1, <1>3, FS_Subset
  <2>2. Cardinality(p.free) \in Nat /\ Cardinality(DOMAIN p.paid) \in Nat
    BY <2>1, FS_CardinalityType
  <2>3. Cardinality(Unassigned(p)) = Len(payees) - Cardinality(DOMAIN p.paid)
    <3>1. Payee \cap DOMAIN p.paid = DOMAIN p.paid
      BY <1>3
    <3>2. Cardinality(Payee \ DOMAIN p.paid) = Cardinality(Payee) - Cardinality(Payee \cap DOMAIN p.paid)
      BY <1>1, <2>1, FS_Difference
    <3>. QED  BY <1>1, <3>1, <3>2 DEF Unassigned
  <2>. QED  BY <1>1, <1>3, <2>2, <2>3 DEF Enough
<1>5. AfterFits = p
  BY <1>4 DEF AfterFits, p
<1>6. DOMAIN Carved.paid = Payee
  BY <1>3, <1>5, CarvedIs
<1>7. ~Short
  <2>1. records = [x \in Listed |-> records[x]]
    BY DEF Given, Listed
  <2>2. SumFunction(records) = Over(Listed, records)
    BY <2>1 DEF Over
  <2>3. records[r] <= Over(Listed, records) /\ Over(Listed, records) \in Nat
    BY <1>1, SumNat
  <2>4. Owed \in Nat /\ records[r] \in Nat /\ records[r] >= Owed
    BY <1>1, OwedIs DEF Big
  <2>. QED  BY <2>2, <2>3, <2>4 DEF Short, Owed
<1>. QED  BY <1>6, <1>7 DEF Refused

-----------------------------------------------------------------------------
(* The plan that was made, and the queue that plays it.                    *)

PlanOK ==
  /\ DOMAIN plan.paid \subseteq Payee /\ plan.splits \in Seq(PlanSplit)
  /\ \A q \in DOMAIN plan.paid : plan.paid[q] \in Ref /\ There(plan.paid[q], Len(plan.splits))
  /\ \A k \in DOMAIN plan.splits : There(plan.splits[k].source, k - 1)
  /\ plan.made => EverybodyCovered(plan) /\ NothingShared(plan) /\ SplitsAddUp(plan)
  /\ ~plan.made => plan.splits = <<>> /\ paidBy = <<>>

LEMMA InitGiven == PlanInit => Given /\ PlanOK
<1>. SUFFICES ASSUME PlanInit PROVE Given /\ PlanOK
  OBVIOUS
<1>1. \A S, n : n \in Nat => \A s \in SeqUpTo(S, n) : s \in Seq(S)
  BY DEF SeqUpTo
<1>2. payees \in Seq(Pay) /\ records \in Seq(RecordAmount)
  BY <1>1, PlanBounds DEF PlanInit
<1>3. Given
  <2>1. \A S, s : S \subseteq Nat \ {0} /\ s \in Seq(S) => s \in Seq(Nat \ {0})
    <3>. SUFFICES ASSUME NEW S, S \subseteq Nat \ {0}, NEW s \in Seq(S) PROVE s \in Seq(Nat \ {0})
      OBVIOUS
    <3>1. Len(s) \in Nat /\ s = [i \in 1..Len(s) |-> s[i]] /\ \A i \in 1..Len(s) : s[i] \in S
      OBVIOUS
    <3>2. [i \in 1..Len(s) |-> s[i]] \in [1..Len(s) -> Nat \ {0}]
      BY <3>1
    <3>3. s \in [1..Len(s) -> Nat \ {0}]
      BY <3>1, <3>2
    <3>. QED  BY <3>1, <3>3
  <2>2. Pay \subseteq Nat \ {0} /\ RecordAmount \subseteq Nat \ {0}
    BY AmountAssumption
  <2>. QED  BY <1>2, <2>1, <2>2 DEF Given
<1>4. PlanOK
  <2>1. plan = [made |-> FALSE, paid |-> <<>>, splits |-> <<>>] /\ paidBy = <<>>
    BY DEF PlanInit, NoPlan
  <2>2. DOMAIN plan.paid = {} /\ DOMAIN plan.splits = {} /\ plan.splits = <<>> /\ ~plan.made
    BY <2>1
  <2>. QED  BY <2>1, <2>2 DEF PlanOK
<1>. QED  BY <1>3, <1>4

LEMMA GivenStays == Given /\ [PlanNext]_planVars => Given'
<1>1. [PlanNext]_planVars => UNCHANGED <<payees, records>>
  BY DEF PlanNext, MakePlan, Receive, Show, SplitFails, SplitAccepted, FindOutputs, Transfer,
         TransferFails, OnlyTheSplit, OnlyTheTransfer, planVars
<1>. QED  BY <1>1 DEF Given

LEMMA MakePlanOK ==
  ASSUME Given, PlanOK, MakePlan
  PROVE  PlanOK'
<1>. DEFINE p == Carved
<1>1. /\ plan' = [made |-> TRUE, paid |-> p.paid, splits |-> p.splits] /\ DOMAIN p.paid = Payee
      /\ UNCHANGED <<payees, records>>
  BY DEF MakePlan, Refused
<1>2. Good(p) /\ p \in PlanState
  BY CarvedIs DEF Good
<1>. HIDE DEF p
<1>3. plan'.made = TRUE /\ plan'.paid = p.paid /\ plan'.splits = p.splits
  BY <1>1
<1>4. \A x : AmountOf(plan', x) = AmountOf(p, x)
  BY <1>3 DEF AmountOf
<1>5. EverybodyCovered(plan') /\ NothingShared(plan') /\ SplitsAddUp(plan')
  BY ZenonT(40), <1>1, <1>2, <1>3, <1>4 DEF Good, EverybodyCovered, NothingShared, SplitsAddUp
<1>6. /\ p.splits \in Seq(PlanSplit)
      /\ \A q \in DOMAIN p.paid : p.paid[q] \in Ref /\ There(p.paid[q], Len(p.splits))
      /\ \A k \in DOMAIN p.splits : There(p.splits[k].source, k - 1)
  BY <1>2, StateIs DEF Good
<1>7. Payee' = Payee /\ Listed' = Listed
  BY <1>1 DEF Payee, Listed
<1>8. EverybodyCovered(plan)' /\ NothingShared(plan)' /\ SplitsAddUp(plan)'
  BY <1>1, <1>5, <1>7 DEF EverybodyCovered, NothingShared, SplitsAddUp, AmountOf
<1>9. \A x, n : There(x, n)' <=> There(x, n)
  BY <1>7 DEF There
<1>. QED  BY <1>1, <1>3, <1>6, <1>7, <1>8, <1>9 DEF PlanOK, There

\* What was found for the splits so far, and what was paidBy.
QueueOK ==
  /\ chain \in Seq(Int) /\ shown \subseteq DOMAIN chain
  /\ \A r \in Listed : r \in DOMAIN chain /\ chain[r] = records[r] /\ r \in known
  /\ step \in Nat /\ step > 0 /\ step <= Len(plan.splits) + 1
  /\ asked => step <= Len(plan.splits)
  /\ DOMAIN outputs \subseteq 1..(step - 1) /\ 1..(step - 1) \subseteq DOMAIN outputs \cup broken
  /\ \A k \in DOMAIN outputs :
       /\ outputs[k].amount \in known \ Listed /\ outputs[k].remainder \in known \ Listed
       /\ outputs[k].amount \in DOMAIN chain /\ outputs[k].remainder \in DOMAIN chain
       /\ outputs[k].amount # outputs[k].remainder
       /\ chain[outputs[k].amount] = plan.splits[k].amount
       /\ chain[outputs[k].remainder] = plan.splits[k].remainder
  /\ \A k, l \in DOMAIN outputs : k # l =>
       {outputs[k].amount, outputs[k].remainder} \cap {outputs[l].amount, outputs[l].remainder} = {}
  /\ \A p \in DOMAIN paidBy : paidBy[p] # 0 =>
       /\ SplitsDone /\ p \in Payee
       /\ ~Broken(plan.paid[p]) /\ paidBy[p] = Resolved(plan.paid[p])

LEMMA SplitsAre ==
  ASSUME PlanOK
  PROVE  /\ Len(plan.splits) \in Nat /\ DOMAIN plan.splits = 1..Len(plan.splits)
         /\ \A k \in 1..Len(plan.splits) :
              /\ plan.splits[k] \in PlanSplit /\ plan.splits[k].source \in Ref
              /\ plan.splits[k].amount \in Nat /\ plan.splits[k].remainder \in Nat
<1>1. plan.splits \in Seq(PlanSplit)
  BY DEF PlanOK
<1>2. \A s \in PlanSplit : s.source \in Ref /\ s.amount \in Nat /\ s.remainder \in Nat
  BY DEF PlanSplit
<1>. QED  BY <1>1, <1>2

\* What can be resolved: a listed record, or an output that was found.
Found(ref) == ref.output = "whole" \/ ref.split \in DOMAIN outputs

LEMMA ResolvedIs ==
  ASSUME Given, PlanOK, QueueOK, NEW ref \in Ref, There(ref, Len(plan.splits)), Found(ref)
  PROVE  Resolved(ref) \in DOMAIN chain /\ chain[Resolved(ref)] = AmountOf(plan, ref)
<1>1. CASE ref.output = "whole"
  BY <1>1 DEF There, QueueOK, Resolved, AmountOf
<1>2. CASE ref.output = "amount"
  BY <1>2 DEF There, QueueOK, Resolved, AmountOf, Found
<1>3. CASE ref.output = "remainder"
  BY <1>3 DEF There, QueueOK, Resolved, AmountOf, Found
<1>. QED  BY <1>1, <1>2, <1>3 DEF Ref

LEMMA ResolvedOnce ==
  ASSUME Given, PlanOK, QueueOK, NEW x \in Ref, NEW y \in Ref, x # y,
         There(x, Len(plan.splits)), Found(x), There(y, Len(plan.splits)), Found(y)
  PROVE  Resolved(x) # Resolved(y)
<1>1. /\ x.record # y.record \/ x.split # y.split \/ x.output # y.output
      /\ x.output \in {"whole", "amount", "remainder"} /\ y.output \in {"whole", "amount", "remainder"}
  BY DEF Ref
<1>2. \A z \in {x, y} : z.output = "whole" =>
        Resolved(z) = z.record /\ Resolved(z) \in Listed /\ z.split = 0
  BY DEF There, Resolved
<1>3. \A z \in {x, y} : z.output = "amount" =>
        /\ z.record = 0 /\ z.split \in DOMAIN outputs
        /\ Resolved(z) = outputs[z.split].amount /\ Resolved(z) \notin Listed
  BY DEF There, Resolved, Found, QueueOK
<1>4. \A z \in {x, y} : z.output = "remainder" =>
        /\ z.record = 0 /\ z.split \in DOMAIN outputs
        /\ Resolved(z) = outputs[z.split].remainder /\ Resolved(z) \notin Listed
  BY DEF There, Resolved, Found, QueueOK
<1>5. CASE x.output = "whole" \/ y.output = "whole"
  BY <1>1, <1>2, <1>3, <1>4, <1>5
<1>6. CASE x.output # "whole" /\ y.output # "whole"
  <2>1. x.split \in DOMAIN outputs /\ y.split \in DOMAIN outputs /\ x.record = y.record
        /\ Resolved(x) \in {outputs[x.split].amount, outputs[x.split].remainder}
        /\ Resolved(y) \in {outputs[y.split].amount, outputs[y.split].remainder}
    BY <1>1, <1>3, <1>4, <1>6
  <2>2. CASE x.split # y.split
    BY <2>1, <2>2 DEF QueueOK
  <2>3. CASE x.split = y.split
    <3>1. outputs[x.split].amount # outputs[x.split].remainder
      BY <2>1 DEF QueueOK
    <3>. QED  BY <1>1, <1>3, <1>4, <1>6, <2>1, <2>3, <3>1
  <2>. QED  BY <2>2, <2>3
<1>. QED  BY <1>5, <1>6

\* Once the splits are done, whatever is not broken was found.
LEMMA FoundWhenDone ==
  ASSUME PlanOK, QueueOK, SplitsDone, NEW ref \in Ref, There(ref, Len(plan.splits)), ~Broken(ref)
  PROVE  Found(ref)
<1>1. Len(plan.splits) \in Nat /\ step = Len(plan.splits) + 1
  BY SplitsAre DEF QueueOK, SplitsDone
<1>2. 1..(step - 1) = 1..Len(plan.splits)
  BY <1>1
<1>. QED  BY <1>2 DEF There, Broken, Found, QueueOK, Ref

\* A source needs only what was before it.
LEMMA SourceFound ==
  ASSUME PlanOK, QueueOK, NEW k \in 1..Len(plan.splits), k <= step, ~Broken(plan.splits[k].source)
  PROVE  /\ Found(plan.splits[k].source) /\ plan.splits[k].source \in Ref
         /\ There(plan.splits[k].source, Len(plan.splits))
<1>. DEFINE ref == plan.splits[k].source
            n == Len(plan.splits)
<1>1. n \in Nat /\ DOMAIN plan.splits = 1..n /\ ref \in Ref /\ There(ref, k - 1)
  BY SplitsAre DEF PlanOK
<1>2. 1..(k - 1) \subseteq 1..n /\ 1..(k - 1) \subseteq 1..(step - 1)
  BY <1>1 DEF QueueOK
<1>. HIDE DEF ref, n
<1>3. There(ref, n) /\ (ref.output = "whole" \/ ref.split \in 1..(step - 1))
  BY <1>1, <1>2 DEF There
<1>4. Found(ref)
  <2>1. 1..(step - 1) \subseteq DOMAIN outputs \cup broken
    BY DEF QueueOK
  <2>2. ~Broken(ref)
    BY DEF ref
  <2>. QED  BY <1>3, <2>1, <2>2 DEF Found, Broken
<1>. QED  BY <1>1, <1>3, <1>4 DEF ref, n

LEMMA OnceIsEnough ==
  ASSUME Given, PlanOK, QueueOK
  PROVE  NothingSpentTwice
<1>. SUFFICES ASSUME NEW p \in DOMAIN paidBy, paidBy[p] # 0
     PROVE  /\ chain[paidBy[p]] >= payees[p]
            /\ \A q \in DOMAIN paidBy : p # q => paidBy[q] # paidBy[p]
            /\ \A k \in DOMAIN outputs :
                 ~Broken(plan.splits[k].source) => Resolved(plan.splits[k].source) # paidBy[p]
  BY DEF NothingSpentTwice
<1>1. /\ plan.made /\ EverybodyCovered(plan) /\ NothingShared(plan) /\ DOMAIN plan.paid = Payee
      /\ SplitsDone
  BY DEF QueueOK, SplitsDone, PlanOK, EverybodyCovered
<1>2. ASSUME NEW q \in DOMAIN paidBy, paidBy[q] # 0
      PROVE  /\ q \in Payee /\ paidBy[q] = Resolved(plan.paid[q]) /\ plan.paid[q] \in Ref
             /\ There(plan.paid[q], Len(plan.splits)) /\ Found(plan.paid[q])
  <2>1. q \in Payee /\ paidBy[q] = Resolved(plan.paid[q]) /\ ~Broken(plan.paid[q])
    BY <1>2 DEF QueueOK
  <2>2. plan.paid[q] \in Ref /\ There(plan.paid[q], Len(plan.splits))
    BY <1>1, <2>1 DEF PlanOK
  <2>. QED  BY <1>1, <2>1, <2>2, FoundWhenDone
<1>3. chain[paidBy[p]] >= payees[p]
  BY <1>1, <1>2, ResolvedIs DEF EverybodyCovered
<1>4. ASSUME NEW q \in DOMAIN paidBy, p # q PROVE paidBy[q] # paidBy[p]
  <2>1. CASE paidBy[q] = 0
    BY <2>1
  <2>2. CASE paidBy[q] # 0
    <3>1. plan.paid[q] # plan.paid[p]
      BY <1>1, <1>2, <1>4, <2>2 DEF NothingShared
    <3>. QED  BY <1>2, <2>2, <3>1, ResolvedOnce
  <2>. QED  BY <2>1, <2>2
<1>5. ASSUME NEW k \in DOMAIN outputs, ~Broken(plan.splits[k].source)
      PROVE  Resolved(plan.splits[k].source) # paidBy[p]
  <2>1. k \in 1..Len(plan.splits) /\ k <= step
    BY SplitsAre DEF QueueOK
  <2>2. plan.splits[k].source # plan.paid[p]
    BY <1>1, <1>2, <2>1, SplitsAre DEF NothingShared
  <2>. QED  BY <1>2, <1>5, <2>1, <2>2, SourceFound, ResolvedOnce
<1>. QED  BY <1>3, <1>4, <1>5

LEMMA PlanStays ==
  ASSUME PlanOK, UNCHANGED <<payees, records, plan>>, plan.made \/ paidBy' = paidBy
  PROVE  PlanOK'
<1>1. Payee' = Payee /\ Listed' = Listed /\ plan' = plan /\ payees' = payees /\ records' = records
  BY DEF Payee, Listed
<1>2. \A x : AmountOf(plan, x)' = AmountOf(plan, x)
  BY <1>1 DEF AmountOf
<1>3. plan.made => EverybodyCovered(plan)' /\ NothingShared(plan)' /\ SplitsAddUp(plan)'
  <2>1. plan.made => EverybodyCovered(plan)'
    BY <1>1, <1>2 DEF PlanOK, EverybodyCovered
  <2>2. plan.made => NothingShared(plan)'
    BY <1>1 DEF PlanOK, NothingShared
  <2>3. plan.made => SplitsAddUp(plan)'
    BY <1>1, <1>2 DEF PlanOK, SplitsAddUp
  <2>. QED  BY <2>1, <2>2, <2>3
<1>. QED  BY <1>1, <1>3 DEF PlanOK, There

\* More records, the same queue.
LEMMA ChainGrows ==
  ASSUME PlanOK, QueueOK, UNCHANGED <<payees, records, plan, known, outputs, broken, step>>,
         chain' \in Seq(Int), DOMAIN chain \subseteq DOMAIN chain',
         \A i \in DOMAIN chain : chain'[i] = chain[i],
         shown' \subseteq DOMAIN chain', asked' => step <= Len(plan.splits),
         \A p \in DOMAIN paidBy' : paidBy'[p] # 0 =>
           /\ SplitsDone /\ p \in Payee
           /\ ~Broken(plan.paid[p]) /\ paidBy'[p] = Resolved(plan.paid[p])
  PROVE  QueueOK'
<1>1. Payee' = Payee /\ Listed' = Listed /\ plan' = plan /\ (SplitsDone' <=> SplitsDone)
  BY DEF Payee, Listed, SplitsDone
<1>2. \A x : (Broken(x)' <=> Broken(x)) /\ Resolved(x)' = Resolved(x)
  BY DEF Broken, Resolved
<1>3. \A p \in DOMAIN paidBy' : paidBy'[p] # 0 =>
        /\ SplitsDone' /\ p \in Payee'
        /\ ~Broken(plan.paid[p])' /\ paidBy'[p] = Resolved(plan.paid[p])'
  <2>. SUFFICES ASSUME NEW p \in DOMAIN paidBy', paidBy'[p] # 0
       PROVE  /\ SplitsDone' /\ p \in Payee'
              /\ ~Broken(plan.paid[p])' /\ paidBy'[p] = Resolved(plan.paid[p])'
    OBVIOUS
  <2>1. Broken(plan.paid[p])' <=> Broken(plan.paid[p])
    BY <1>1 DEF Broken
  <2>2. Resolved(plan.paid[p])' = Resolved(plan.paid[p])
    BY <1>1 DEF Resolved
  <2>. QED  BY <1>1, <2>1, <2>2
<1>4. \A r \in Listed' : r \in DOMAIN chain' /\ chain'[r] = records'[r] /\ r \in known'
  BY <1>1 DEF QueueOK
<1>5. \A k \in DOMAIN outputs' :
        /\ outputs'[k].amount \in known' \ Listed' /\ outputs'[k].remainder \in known' \ Listed'
        /\ outputs'[k].amount \in DOMAIN chain' /\ outputs'[k].remainder \in DOMAIN chain'
        /\ outputs'[k].amount # outputs'[k].remainder
        /\ chain'[outputs'[k].amount] = plan'.splits[k].amount
        /\ chain'[outputs'[k].remainder] = plan'.splits[k].remainder
  BY <1>1 DEF QueueOK
<1>. QED  BY <1>1, <1>3, <1>4, <1>5 DEF QueueOK

LEMMA ChainAppends ==
  ASSUME chain \in Seq(Int), NEW s \in Seq(Int)
  PROVE  /\ chain \o s \in Seq(Int) /\ DOMAIN chain \subseteq DOMAIN (chain \o s)
         /\ \A i \in DOMAIN chain : (chain \o s)[i] = chain[i]
<1>1. /\ Len(chain) \in Nat /\ Len(s) \in Nat /\ DOMAIN chain = 1..Len(chain)
      /\ chain \o s \in Seq(Int) /\ Len(chain \o s) = Len(chain) + Len(s)
      /\ DOMAIN (chain \o s) = 1..(Len(chain) + Len(s))
      /\ \A i \in 1..Len(chain) : (chain \o s)[i] = chain[i]
  OBVIOUS
<1>. QED  BY <1>1

LEMMA ChainWithOne ==
  ASSUME chain \in Seq(Int), NEW n \in Int
  PROVE  /\ Append(chain, n) \in Seq(Int) /\ DOMAIN chain \subseteq DOMAIN Append(chain, n)
         /\ \A i \in DOMAIN chain : Append(chain, n)[i] = chain[i]
<1>1. /\ Len(chain) \in Nat /\ DOMAIN chain = 1..Len(chain)
      /\ Append(chain, n) \in Seq(Int) /\ Len(Append(chain, n)) = Len(chain) + 1
      /\ DOMAIN Append(chain, n) = 1..(Len(chain) + 1)
      /\ \A i \in 1..Len(chain) : Append(chain, n)[i] = chain[i]
  OBVIOUS
<1>. QED  BY <1>1

PlanInv == Given /\ PlanOK /\ QueueOK

LEMMA PlanInitOK == PlanInit => PlanInv
<1>. SUFFICES ASSUME PlanInit PROVE PlanInv
  OBVIOUS
<1>1. Given /\ PlanOK
  BY InitGiven
<1>2. /\ chain = records /\ shown = DOMAIN records /\ known = DOMAIN records
      /\ outputs = <<>> /\ step = 1 /\ asked = FALSE /\ paidBy = <<>> /\ plan.splits = <<>>
  BY DEF PlanInit, NoPlan
<1>3. chain \in Seq(Int) /\ DOMAIN chain = Listed
  <2>1. records \in Seq(Nat \ {0})
    BY <1>1 DEF Given
  <2>2. Len(records) \in Nat /\ records = [i \in 1..Len(records) |-> records[i]]
        /\ \A i \in 1..Len(records) : records[i] \in Int
    BY <2>1
  <2>3. [i \in 1..Len(records) |-> records[i]] \in [1..Len(records) -> Int]
    BY <2>2
  <2>4. records \in [1..Len(records) -> Int]
    BY <2>2, <2>3
  <2>. QED  BY <1>2, <2>2, <2>4 DEF Listed
<1>4. DOMAIN outputs = {} /\ DOMAIN paidBy = {} /\ 1..(step - 1) = {} /\ Len(plan.splits) = 0
  BY <1>2
<1>5. \A r \in Listed : r \in DOMAIN chain /\ chain[r] = records[r] /\ r \in known
  BY <1>2, <1>3 DEF Listed
<1>. QED  BY <1>1, <1>2, <1>3, <1>4, <1>5 DEF PlanInv, QueueOK

LEMMA PlanNextKeeps ==
  ASSUME PlanInv, [PlanNext]_planVars
  PROVE  PlanInv'
<1>0. Given /\ PlanOK /\ QueueOK /\ Given'
  BY GivenStays DEF PlanInv
<1>1. \A p \in DOMAIN paidBy : paidBy[p] # 0 =>
        /\ SplitsDone /\ p \in Payee
        /\ ~Broken(plan.paid[p]) /\ paidBy[p] = Resolved(plan.paid[p])
  BY <1>0 DEF QueueOK
<1>2. CASE UNCHANGED planVars
  <2>1. PlanOK'
    BY <1>0, <1>2, PlanStays DEF planVars, queue
  <2>2. QueueOK'
    <3>1. chain' = chain /\ shown' = shown /\ asked' = asked /\ paidBy' = paidBy
          /\ UNCHANGED <<payees, records, plan, known, outputs, broken, step>>
      BY <1>2 DEF planVars, queue, wallet
    <3>2. chain \in Seq(Int) /\ shown \subseteq DOMAIN chain /\ (asked => step <= Len(plan.splits))
      BY <1>0 DEF QueueOK
    <3>. QED  BY <1>0, <1>1, <3>1, <3>2, ChainGrows
  <2>. QED  BY <1>0, <2>1, <2>2 DEF PlanInv
<1>3. CASE MakePlan
  <2>1. PlanOK'
    BY <1>0, <1>3, MakePlanOK
  <2>2. /\ UNCHANGED <<payees, records, wallet, known, outputs, broken, step, asked, paidBy>>
        /\ ~plan.made
    BY <1>3 DEF MakePlan
  <2>3. Len(plan.splits) = 0 /\ paidBy = <<>>
    BY <1>0, <2>2 DEF PlanOK
  <2>4. step = 1 /\ asked = asked' /\ ~asked /\ DOMAIN outputs = {} /\ DOMAIN paidBy = {}
    <3>1. /\ step \in Nat /\ step > 0 /\ step <= Len(plan.splits) + 1
          /\ (asked => step <= Len(plan.splits)) /\ DOMAIN outputs \subseteq 1..(step - 1)
      BY <1>0 DEF QueueOK
    <3>2. step = 1
      BY <3>1, <2>3
    <3>3. 1..(step - 1) = {}
      BY <3>2
    <3>4. DOMAIN outputs = {}
      BY <3>1, <3>3
    <3>5. ~asked
      BY <3>1, <3>2, <2>3
    <3>6. DOMAIN paidBy = {}
      BY <2>3
    <3>. QED  BY <2>2, <3>2, <3>4, <3>5, <3>6
  <2>5. Len(plan'.splits) \in Nat
    BY <2>1 DEF PlanOK
  <2>6. Listed' = Listed
    BY <2>2 DEF Listed
  <2>7. QueueOK'
    BY <1>0, <2>2, <2>4, <2>5, <2>6 DEF QueueOK, wallet
  <2>. QED  BY <1>0, <2>1, <2>7 DEF PlanInv
<1>4. ASSUME NEW amount \in RecordAmount, Receive(amount) PROVE PlanInv'
  <2>1. /\ UNCHANGED <<payees, records, plan, known, outputs, broken, step>> /\ asked' = asked
        /\ paidBy' = paidBy /\ chain' = Append(chain, amount) /\ shown' = shown /\ amount \in Int
    BY <1>4, AmountAssumption DEF Receive, queue
  <2>2. chain \in Seq(Int) /\ shown \subseteq DOMAIN chain /\ (asked => step <= Len(plan.splits))
    BY <1>0 DEF QueueOK
  <2>3. /\ chain' \in Seq(Int) /\ DOMAIN chain \subseteq DOMAIN chain'
        /\ \A i \in DOMAIN chain : chain'[i] = chain[i]
    BY <2>1, <2>2, ChainWithOne
  <2>4. shown' \subseteq DOMAIN chain'
    BY <2>1, <2>2, <2>3
  <2>5. QueueOK'
    BY <1>0, <1>1, <2>1, <2>2, <2>3, <2>4, ChainGrows
  <2>. QED  BY <1>0, <2>1, <2>5, PlanStays DEF PlanInv
<1>5. ASSUME NEW r \in DOMAIN chain, Show(r) PROVE PlanInv'
  <2>1. /\ UNCHANGED <<payees, records, plan, known, outputs, broken, step>> /\ asked' = asked
        /\ paidBy' = paidBy /\ chain' = chain /\ shown' = shown \cup {r}
    BY <1>5 DEF Show, queue
  <2>2. chain \in Seq(Int) /\ shown \subseteq DOMAIN chain /\ (asked => step <= Len(plan.splits))
    BY <1>0 DEF QueueOK
  <2>3. /\ chain' \in Seq(Int) /\ DOMAIN chain \subseteq DOMAIN chain'
        /\ \A i \in DOMAIN chain : chain'[i] = chain[i]
        /\ shown' \subseteq DOMAIN chain'
    BY <2>1, <2>2
  <2>4. QueueOK'
    BY <1>0, <1>1, <2>1, <2>2, <2>3, ChainGrows
  <2>. QED  BY <1>0, <2>1, <2>4, PlanStays DEF PlanInv
<1>6. CASE SplitAccepted
  <2>. DEFINE s == <<AtHand.amount, chain[Resolved(AtHand.source)] - AtHand.amount>>
  <2>1. /\ UNCHANGED <<payees, records, plan, known, outputs, broken, step>>
        /\ paidBy' = paidBy /\ chain' = chain \o s /\ shown' = shown
        /\ step <= Len(plan.splits) /\ ~Broken(AtHand.source)
    BY <1>6 DEF SplitAccepted, OnlyTheSplit
  <2>2. step \in 1..Len(plan.splits) /\ step <= step
    BY <1>0, <2>1, SplitsAre DEF QueueOK
  <2>3. chain \in Seq(Int) /\ shown \subseteq DOMAIN chain
    BY <1>0 DEF QueueOK
  <2>4. AtHand.amount \in Int /\ chain[Resolved(AtHand.source)] \in Int
    <3>1. /\ Found(AtHand.source) /\ AtHand.source \in Ref
          /\ There(AtHand.source, Len(plan.splits))
      BY <1>0, <2>1, <2>2, SourceFound DEF AtHand
    <3>2. Resolved(AtHand.source) \in DOMAIN chain
      BY <1>0, <3>1, ResolvedIs
    <3>. QED  BY <1>0, <2>2, <2>3, <3>2, SplitsAre DEF AtHand
  <2>5. s \in Seq(Int)
    BY <2>4
  <2>. HIDE DEF s
  <2>6. /\ chain' \in Seq(Int) /\ DOMAIN chain \subseteq DOMAIN chain'
        /\ \A i \in DOMAIN chain : chain'[i] = chain[i]
    BY <2>1, <2>3, <2>5, ChainAppends
  <2>7. shown' \subseteq DOMAIN chain'
    BY <2>1, <2>3, <2>6
  <2>8. QueueOK'
    BY <1>0, <1>1, <2>1, <2>6, <2>7, ChainGrows
  <2>. QED  BY <1>0, <2>1, <2>8, PlanStays DEF PlanInv
<1>7. ASSUME NEW p \in Payee, Transfer(p) PROVE PlanInv'
  <2>. DEFINE r == Resolved(plan.paid[p])
              back == chain[r] - payees[p]
  <2>1. /\ SplitsDone /\ ~Broken(plan.paid[p]) /\ plan.made
        /\ UNCHANGED <<payees, records, plan, known, outputs, broken, step>>
        /\ asked' = asked /\ shown' = shown
        /\ paidBy' = With(paidBy, p, r)
        /\ chain' = IF back > 0 THEN Append(chain, back) ELSE chain
    BY <1>7 DEF Transfer, OnlyTheTransfer, SplitsDone
  <2>2. chain \in Seq(Int) /\ shown \subseteq DOMAIN chain /\ (asked => step <= Len(plan.splits))
    BY <1>0 DEF QueueOK
  <2>3. back \in Int
    <3>1. p \in DOMAIN plan.paid
      BY <1>0, <2>1 DEF PlanOK, EverybodyCovered
    <3>2. plan.paid[p] \in Ref /\ There(plan.paid[p], Len(plan.splits))
      BY <1>0, <3>1 DEF PlanOK
    <3>3. Found(plan.paid[p])
      BY <1>0, <2>1, <3>2, FoundWhenDone
    <3>4. r \in DOMAIN chain
      BY <1>0, <3>2, <3>3, ResolvedIs
    <3>. QED  BY <1>0, <2>2, <3>4, GivenIs
  <2>. HIDE DEF back
  <2>4. /\ chain' \in Seq(Int) /\ DOMAIN chain \subseteq DOMAIN chain'
        /\ \A i \in DOMAIN chain : chain'[i] = chain[i]
    BY <2>1, <2>2, <2>3, ChainWithOne
  <2>5. shown' \subseteq DOMAIN chain'
    BY <2>1, <2>2, <2>4
  <2>6. \A q \in DOMAIN paidBy' : paidBy'[q] # 0 =>
          /\ SplitsDone /\ q \in Payee
          /\ ~Broken(plan.paid[q]) /\ paidBy'[q] = Resolved(plan.paid[q])
    <3>1. \A q \in DOMAIN paidBy' : IF q = p THEN paidBy'[q] = r
                                  ELSE q \in DOMAIN paidBy /\ paidBy'[q] = paidBy[q]
      BY <2>1 DEF With
    <3>. QED  BY <1>1, <2>1, <3>1
  <2>7. QueueOK'
    BY <1>0, <2>1, <2>2, <2>4, <2>5, <2>6, ChainGrows
  <2>. QED  BY <1>0, <2>1, <2>7, PlanStays DEF PlanInv
<1>8. ASSUME NEW p \in Payee, TransferFails(p) PROVE PlanInv'
  <2>1. /\ plan.made /\ UNCHANGED <<payees, records, plan, known, outputs, broken, step>>
        /\ asked' = asked /\ shown' = shown /\ chain' = chain
        /\ paidBy' = With(paidBy, p, 0)
    BY <1>8 DEF TransferFails, OnlyTheTransfer, SplitsDone
  <2>2. chain \in Seq(Int) /\ shown \subseteq DOMAIN chain /\ (asked => step <= Len(plan.splits))
    BY <1>0 DEF QueueOK
  <2>3. \A q \in DOMAIN paidBy' : paidBy'[q] # 0 => q \in DOMAIN paidBy /\ paidBy'[q] = paidBy[q]
    BY <2>1 DEF With
  <2>4. \A q \in DOMAIN paidBy' : paidBy'[q] # 0 =>
          /\ SplitsDone /\ q \in Payee
          /\ ~Broken(plan.paid[q]) /\ paidBy'[q] = Resolved(plan.paid[q])
    BY <1>1, <2>3
  <2>5. QueueOK'
    BY <1>0, <2>1, <2>2, <2>4, ChainGrows
  <2>. QED  BY <1>0, <2>1, <2>5, PlanStays DEF PlanInv
<1>9. ASSUME step <= Len(plan.splits) PROVE \A p \in DOMAIN paidBy : paidBy[p] = 0
  <2>1. ~SplitsDone
    BY <1>0, <1>9, SplitsAre DEF SplitsDone, QueueOK
  <2>. QED  BY <1>1, <2>1
<1>10. CASE SplitFails
  <2>1. /\ step <= Len(plan.splits)
        /\ broken' = broken \cup {step} /\ step' = step + 1 /\ asked' = FALSE
        /\ chain' = chain /\ shown' = shown /\ paidBy' = paidBy
        /\ UNCHANGED <<known, outputs, payees, records, plan>>
    BY <1>10 DEF SplitFails, Break, OnlyTheSplit, wallet
  <2>2. \A p \in DOMAIN paidBy' : paidBy'[p] = 0
    BY <1>9, <2>1
  <2>3. Listed' = Listed /\ step \in Nat /\ step > 0 /\ Len(plan.splits) \in Nat
    BY <1>0, <2>1, SplitsAre DEF Listed, QueueOK
  <2>4. /\ step' \in Nat /\ step' > 0 /\ step' <= Len(plan'.splits) + 1
        /\ 1..(step' - 1) = 1..(step - 1) \cup {step}
    BY <2>1, <2>3
  <2>5. /\ DOMAIN outputs' \subseteq 1..(step' - 1)
        /\ 1..(step' - 1) \subseteq DOMAIN outputs' \cup broken'
    BY <1>0, <2>1, <2>4 DEF QueueOK
  <2>6. QueueOK'
    BY <1>0, <2>1, <2>2, <2>3, <2>4, <2>5 DEF QueueOK
  <2>. QED  BY <1>0, <2>1, <2>6, PlanStays DEF PlanInv
<1>11. CASE FindOutputs
  <2>1. PICK a \in Unknown, b \in Unknown :
          /\ a # b /\ chain[a] = AtHand.amount /\ chain[b] = AtHand.remainder
          /\ known' = known \cup {a, b}
          /\ outputs' = With(outputs, step, [amount |-> a, remainder |-> b])
    BY <1>11 DEF FindOutputs
  <2>2. /\ asked /\ step' = step + 1 /\ asked' = FALSE
        /\ chain' = chain /\ shown' = shown /\ paidBy' = paidBy
        /\ UNCHANGED <<broken, payees, records, plan>>
    BY <1>11 DEF FindOutputs, OnlyTheSplit, wallet
  <2>3. Listed' = Listed /\ step \in Nat /\ step > 0 /\ Len(plan.splits) \in Nat
        /\ step <= Len(plan.splits)
    BY <1>0, <2>2, SplitsAre DEF Listed, QueueOK
  <2>4. \A p \in DOMAIN paidBy' : paidBy'[p] = 0
    BY <1>9, <2>2, <2>3
  <2>5. /\ step' \in Nat /\ step' > 0 /\ step' <= Len(plan'.splits) + 1
        /\ 1..(step' - 1) = 1..(step - 1) \cup {step} /\ step \notin 1..(step - 1)
    BY <2>2, <2>3
  <2>6. /\ DOMAIN outputs' = DOMAIN outputs \cup {step} /\ step \notin DOMAIN outputs
        /\ \A k \in DOMAIN outputs : outputs'[k] = outputs[k]
        /\ outputs'[step].amount = a /\ outputs'[step].remainder = b
    <3>1. step \notin DOMAIN outputs
      BY <1>0, <2>5 DEF QueueOK
    <3>. QED  BY <2>1, <3>1 DEF With
  <2>7. /\ DOMAIN outputs' \subseteq 1..(step' - 1)
        /\ 1..(step' - 1) \subseteq DOMAIN outputs' \cup broken'
    BY <1>0, <2>2, <2>5, <2>6 DEF QueueOK
  <2>8. a \notin known /\ b \notin known /\ a \in DOMAIN chain /\ b \in DOMAIN chain
        /\ a \notin Listed /\ b \notin Listed
    BY <1>0, <2>1 DEF Unknown, QueueOK
  <2>9. \A k \in DOMAIN outputs' :
          /\ outputs'[k].amount \in known' \ Listed' /\ outputs'[k].remainder \in known' \ Listed'
          /\ outputs'[k].amount \in DOMAIN chain' /\ outputs'[k].remainder \in DOMAIN chain'
          /\ outputs'[k].amount # outputs'[k].remainder
          /\ chain'[outputs'[k].amount] = plan'.splits[k].amount
          /\ chain'[outputs'[k].remainder] = plan'.splits[k].remainder
    <3>. SUFFICES ASSUME NEW k \in DOMAIN outputs'
         PROVE  /\ outputs'[k].amount \in known' \ Listed' /\ outputs'[k].remainder \in known' \ Listed'
                /\ outputs'[k].amount \in DOMAIN chain' /\ outputs'[k].remainder \in DOMAIN chain'
                /\ outputs'[k].amount # outputs'[k].remainder
                /\ chain'[outputs'[k].amount] = plan'.splits[k].amount
                /\ chain'[outputs'[k].remainder] = plan'.splits[k].remainder
      OBVIOUS
    <3>1. CASE k = step
      BY <2>1, <2>2, <2>3, <2>6, <2>8, <3>1 DEF AtHand
    <3>2. CASE k \in DOMAIN outputs
      BY SMTT(20), <1>0, <2>1, <2>2, <2>3, <2>6, <3>2 DEF QueueOK
    <3>. QED  BY <2>6, <3>1, <3>2
  <2>10. \A k, l \in DOMAIN outputs' : k # l =>
           {outputs'[k].amount, outputs'[k].remainder}
             \cap {outputs'[l].amount, outputs'[l].remainder} = {}
    <3>1. \A k \in DOMAIN outputs : outputs[k].amount \in known /\ outputs[k].remainder \in known
      BY <1>0 DEF QueueOK
    <3>2. \A k, l \in DOMAIN outputs : k # l =>
            {outputs[k].amount, outputs[k].remainder}
              \cap {outputs[l].amount, outputs[l].remainder} = {}
      BY <1>0 DEF QueueOK
    <3>. QED  BY <2>6, <2>8, <3>1, <3>2
  <2>11. \A r \in Listed' : r \in DOMAIN chain' /\ chain'[r] = records'[r] /\ r \in known'
    BY <1>0, <2>1, <2>2, <2>3 DEF QueueOK
  <2>12. chain' \in Seq(Int) /\ shown' \subseteq DOMAIN chain'
    BY <1>0, <2>2 DEF QueueOK
  <2>13. QueueOK'
    BY <2>2, <2>4, <2>5, <2>7, <2>9, <2>10, <2>11, <2>12 DEF QueueOK
  <2>. QED  BY <1>0, <2>2, <2>13, PlanStays DEF PlanInv
<1>. QED
  BY <1>2, <1>3, <1>4, <1>5, <1>6, <1>7, <1>8, <1>10, <1>11 DEF PlanNext

LEMMA PlanInvariant == PlanSpec => []PlanInv
<1>. QED  BY PlanInitOK, PlanNextKeeps, PTL DEF PlanSpec

(* Whatever is owed and whatever records there are: a plan that is made pays *)
(* everybody from records used once each, with splits in an order in which   *)
(* they can be made; and one is made if one record covers everybody and      *)
(* there are fewer records than payees (planTransfers of plan.ts).           *)
THEOREM PlansAreSound == PlanSpec => []PlanIsSound
<1>1. PlanInv => PlanIsSound
  <2>. SUFFICES ASSUME PlanInv PROVE PlanIsSound
    OBVIOUS
  <2>1. plan.made => EverybodyCovered(plan) /\ NothingShared(plan) /\ SplitsAddUp(plan)
    BY DEF PlanInv, PlanOK
  <2>2. Len(records) < Len(payees) /\ (\E r \in Listed : records[r] >= SumFunction(payees))
        => ~Refused
    BY NotRefused DEF PlanInv, Big, Owed
  <2>. QED  BY <2>1, <2>2 DEF PlanIsSound
<1>. QED  BY <1>1, PlanInvariant, PTL

(* Outputs that are told by their amounts, in a wallet that lags and shows   *)
(* other money too, are told well enough: no record pays twice, or pays      *)
(* after it was split (executeSplit of queue.ts).                            *)
THEOREM NoRecordPaysTwice == PlanSpec => []NothingSpentTwice
<1>1. PlanInv => NothingSpentTwice
  BY OnceIsEnough DEF PlanInv
<1>. QED  BY <1>1, PlanInvariant, PTL

=============================================================================
