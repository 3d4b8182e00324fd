------------------------ MODULE LocalNegotiation_proofs ------------------------
(***************************************************************************)
(* Proofs about LocalNegotiation: the types, the limits of the two owners  *)
(* and the course of the offers in a cost split, and the calendars of a    *)
(* meeting, for every request.                                             *)
(***************************************************************************)
EXTENDS LocalNegotiation, SequenceTheorems, WellFoundedInduction, TLAPS

--------------------------------------------------------------------------------
(* The arithmetic of the offers *)

\* A share of at most a hundred percent of an amount lies between nothing and the
\* whole of it.
LEMMA ShareBounds ==
  ASSUME NEW x \in Nat, NEW c \in 0..100
  PROVE  x * c \in Nat /\ x * c <= 100 * x
<1>1. x * c \in Nat
  OBVIOUS
<1>2. x * (100 - c) \in Nat
  OBVIOUS
<1>3. x * (100 - c) = 100 * x - x * c
  OBVIOUS
<1> QED
  BY <1>1, <1>2, <1>3

\* A larger share is a larger amount.
LEMMA ShareMonotone ==
  ASSUME NEW x \in Nat, NEW c \in 0..100, NEW d \in 0..100, c <= d
  PROVE  x * c <= x * d
<1>1. x * (d - c) \in Nat
  OBVIOUS
<1>2. x * (d - c) = x * d - x * c
  OBVIOUS
<1>3. x * c \in Int /\ x * d \in Int
  OBVIOUS
<1> QED
  BY <1>1, <1>2, <1>3

\* Rounding keeps the order and gives whole amounts back.
LEMMA RoundedOrder ==
  /\ \A n \in Int : Rounded(n) \in Int /\ Rounded(100 * n) = n
  /\ \A n, m \in Int : n <= m => Rounded(n) <= Rounded(m)
BY DEF Rounded

\* What a responder would open with is an amount inside its reservation.
LEMMA OpeningWithin ==
  ASSUME NEW p \in CostPolicy, NEW total \in Nat
  PROVE  /\ Opening(p, total) \in Int /\ Reservation(p, total) \in Int
         /\ Opening(p, total) <= Reservation(p, total)
<1>1. p.reservation \in 0..100 /\ Smaller(p.preferred, p.reservation) \in 0..100
      /\ Smaller(p.preferred, p.reservation) <= p.reservation
  BY DEF CostPolicy, Smaller
<1>2. total * p.reservation \in Int /\ total * Smaller(p.preferred, p.reservation) \in Int
  BY <1>1, ShareBounds
<1>3. total * Smaller(p.preferred, p.reservation) <= total * p.reservation
  BY <1>1, ShareMonotone
<1> QED
  BY <1>2, <1>3, RoundedOrder DEF Opening, Reservation

\* What an initiator takes at least is an amount, not above what was proposed.
LEMMA FloorWithin ==
  ASSUME NEW p \in CostPolicy, NEW total \in Nat, NEW proposed \in Int
  PROVE  Floor(p, total, proposed) \in Int /\ Floor(p, total, proposed) <= proposed
<1>1. 100 - p.reservation \in 0..100
  BY DEF CostPolicy
<1>2. Rounded(total * (100 - p.reservation)) \in Int
  <2> DEFINE share == total * (100 - p.reservation)
  <2>1. share \in Int
    BY <1>1, ShareBounds
  <2> HIDE DEF share
  <2>2. Rounded(share) \in Int
    BY <2>1, RoundedOrder
  <2> QED
    BY <2>2 DEF share
<1> QED
  BY <1>2 DEF Floor, Smaller

\* A responder who concedes moves towards what stands on the table, and neither
\* beyond it nor beyond its reservation.
LEMMA ResponderConcedes ==
  ASSUME NEW p \in CostPolicy, NEW total \in Nat, NEW offer \in Int, NEW mine \in Int,
         mine < offer, mine <= Reservation(p, total)
  PROVE  LET amount == ResponderConcession(p, total, offer, mine)
         IN  /\ amount \in Int
             /\ mine <= amount /\ amount <= offer /\ amount <= Reservation(p, total)
<1> DEFINE res == Reservation(p, total)
           step == (offer - mine) * p.concession
           target == Smaller(100 * res, 100 * mine + step)
<1>1. res \in Int
  BY OpeningWithin
<1>2. step \in Nat /\ step <= 100 * (offer - mine)
  <2>1. offer - mine \in Nat /\ p.concession \in 0..100
    BY DEF CostPolicy
  <2> QED
    BY <2>1, ShareBounds
<1> HIDE DEF step
<1>3. /\ target \in Int
      /\ 100 * mine <= target /\ target <= 100 * offer /\ target <= 100 * res
  <2> HIDE DEF res
  <2> QED
    BY <1>1, <1>2 DEF Smaller, res
<1>4. ResponderConcession(p, total, offer, mine) = Rounded(target)
  BY DEF ResponderConcession, step
<1> HIDE DEF target, res
<1>5. /\ Rounded(target) \in Int
      /\ Rounded(100 * mine) <= Rounded(target)
      /\ Rounded(target) <= Rounded(100 * offer)
      /\ Rounded(target) <= Rounded(100 * res)
  BY <1>1, <1>3, RoundedOrder
<1> QED
  BY <1>1, <1>4, <1>5, RoundedOrder DEF res

\* An initiator who concedes moves down from its last amount, never below what it
\* takes at least.
LEMMA InitiatorConcedes ==
  ASSUME NEW p \in CostPolicy, NEW total \in Nat, NEW proposed \in Int,
         NEW offer \in Int, NEW mine \in Int,
         offer < mine, Floor(p, total, proposed) <= mine
  PROVE  LET amount == InitiatorConcession(p, total, proposed, offer, mine)
         IN  amount \in Int /\ Floor(p, total, proposed) <= amount /\ amount <= mine
<1> DEFINE least == Floor(p, total, proposed)
           step == (mine - offer) * p.concession
           target == Larger(100 * least, 100 * mine - step)
<1>1. least \in Int
  BY FloorWithin
<1>2. step \in Nat
  <2>1. mine - offer \in Nat /\ p.concession \in 0..100
    BY DEF CostPolicy
  <2> QED
    BY <2>1, ShareBounds
<1> HIDE DEF step
<1>3. target \in Int /\ 100 * least <= target /\ target <= 100 * mine
  <2> HIDE DEF least
  <2> QED
    BY <1>1, <1>2 DEF Larger, least
<1>4. InitiatorConcession(p, total, proposed, offer, mine) = Rounded(target)
  BY DEF InitiatorConcession, step
<1> HIDE DEF target, least
<1>5. /\ Rounded(target) \in Int
      /\ Rounded(100 * least) <= Rounded(target) /\ Rounded(target) <= Rounded(100 * mine)
  BY <1>1, <1>3, RoundedOrder
<1> QED
  BY <1>1, <1>4, <1>5, RoundedOrder DEF least

--------------------------------------------------------------------------------
(* Sequences: the least number principle in place of induction *)

\* A set of natural numbers that is not empty has a least element.
LEMMA LeastNatural ==
  ASSUME NEW T, T \subseteq Nat, T # {}
  PROVE  \E x \in T : \A y \in T : x <= y
<1> DEFINE R == OpToRel(<, Nat)
<1>1. IsWellFoundedOn(R, Nat)
  BY NatLessThanWellFounded
<1>2. PICK x \in T : \A y \in T : <<y, x>> \notin R
  <2> HIDE DEF R
  <2> QED
    BY <1>1, WFMin
<1>3. \A y \in T : ~(y < x)
  <2> TAKE y \in T
  <2>1. <<y, x>> \in Nat \X Nat
    OBVIOUS
  <2>2. y < x => <<y, x>> \in R
    BY <2>1 DEF OpToRel
  <2> QED
    BY <1>2, <2>2
<1> QED
  BY <1>3

\* Sequences joined end to end are a sequence over the same set.
LEMMA FlattenType ==
  ASSUME NEW S, NEW seqs \in Seq(Seq(S))
  PROVE  FlattenSeq(seqs) \in Seq(S)
<1>1. CASE Len(seqs) = 0
  BY <1>1, EmptySeq DEF FlattenSeq
<1>2. CASE Len(seqs) # 0
  <2> DEFINE N == Len(seqs)
             Is(f, n) == f = [i \in 1..n |-> IF i = 1 THEN seqs[i] ELSE f[i - 1] \o seqs[i]]
             Has(n) == \E f : Is(f, n)
             Missing == {n \in 1..N : ~Has(n)}
             flatten == CHOOSE f : Is(f, N)
             Bad == {i \in 1..N : flatten[i] \notin Seq(S)}
  <2>1. N \in Nat \ {0} /\ \A i \in 1..N : seqs[i] \in Seq(S)
    BY <1>2
  <2> HIDE DEF N
  <2>2. Missing = {}
    <3> SUFFICES ASSUME Missing # {}
                 PROVE  FALSE
      OBVIOUS
    <3>1. PICK n \in Missing : \A m \in Missing : n <= m
      <4> HIDE DEF Has
      <4>1. Missing \subseteq Nat
        BY <2>1
      <4> HIDE DEF Missing
      <4> QED
        BY <4>1, LeastNatural
    <3>2. CASE n = 1
      <4> DEFINE g == [i \in 1..1 |-> seqs[1]]
      <4>1. Is(g, 1)
        OBVIOUS
      <4> QED
        BY <3>2, <4>1
    <3>3. CASE n # 1
      <4>1. n \in 1..N /\ n - 1 \in 1..N /\ n - 1 \notin Missing
        <5> HIDE DEF Has
        <5> QED
          BY <2>1, <3>1, <3>3
      <4>2. PICK f : Is(f, n - 1)
        BY <4>1
      <4> DEFINE g == [i \in 1..n |-> IF i = n THEN f[n - 1] \o seqs[n] ELSE f[i]]
      <4>3. \A i \in 1..n : g[i] = IF i = 1 THEN seqs[i] ELSE g[i - 1] \o seqs[i]
        <5> SUFFICES ASSUME NEW i \in 1..n
                     PROVE  g[i] = IF i = 1 THEN seqs[i] ELSE g[i - 1] \o seqs[i]
          OBVIOUS
        <5>1. n \in Nat
          BY <4>1, <2>1
        <5>2. CASE i = n
          <6>1. n - 1 \in 1..n /\ n - 1 # n /\ i - 1 = n - 1
            BY <5>1, <5>2, <3>3
          <6>2. g[i - 1] = f[n - 1]
            BY <6>1
          <6> QED
            BY <6>2, <5>2, <3>3
        <5>3. CASE i # n
          <6>1. i \in 1..(n - 1)
            BY <5>1, <5>3
          <6>2. f[i] = IF i = 1 THEN seqs[i] ELSE f[i - 1] \o seqs[i]
            BY <4>2, <6>1
          <6>3. i = 1 \/ (i - 1 \in 1..n /\ i - 1 # n)
            BY <5>1, <6>1
          <6> QED
            BY <6>2, <6>3, <5>3
        <5> QED
          BY <5>2, <5>3
      <4>4. Is(g, n)
        BY <4>3
      <4> QED
        BY <3>1, <4>4
    <3> QED
      BY <3>2, <3>3
  <2>3. Is(flatten, N)
    <3>1. Has(N)
      <4> HIDE DEF Has
      <4> QED
        BY <2>1, <2>2
    <3> QED
      BY <3>1
  <2>4. \A i \in 1..N : flatten[i] = IF i = 1 THEN seqs[i] ELSE flatten[i - 1] \o seqs[i]
    <3> HIDE DEF flatten
    <3> QED
      BY <2>3
  <2>5. FlattenSeq(seqs) = flatten[N]
    BY <1>2 DEF FlattenSeq, N
  <2> HIDE DEF flatten
  <2>6. Bad = {}
    <3> SUFFICES ASSUME Bad # {}
                 PROVE  FALSE
      OBVIOUS
    <3>1. PICK i \in Bad : \A j \in Bad : i <= j
      <4>1. Bad \subseteq Nat
        BY <2>1
      <4> HIDE DEF Bad
      <4> QED
        BY <4>1, LeastNatural
    <3>2. i # 1
      BY <2>1, <2>4, <3>1
    <3>3. i - 1 \in 1..N /\ i - 1 \notin Bad
      BY <2>1, <3>1, <3>2
    <3>4. flatten[i - 1] \in Seq(S) /\ seqs[i] \in Seq(S)
      BY <2>1, <3>1, <3>3
    <3>5. flatten[i - 1] \o seqs[i] \in Seq(S)
      BY <3>4, ConcatProperties
    <3>6. flatten[i] = flatten[i - 1] \o seqs[i]
      BY <2>4, <3>1, <3>2
    <3> QED
      BY <3>1, <3>5, <3>6
  <2> QED
    BY <2>1, <2>5, <2>6
<1> QED
  BY <1>1, <1>2

\* What is kept of a sequence are elements of it that are wanted.
LEMMA KeepType ==
  ASSUME NEW S, NEW slots \in Seq(S), NEW wanted
  PROVE  Keep(slots, wanted) \in Seq(S \cap wanted)
<1> DEFINE N == Len(slots)
           Is(f, n) == f = [i \in 0..n |->
             IF i = 0 THEN <<>>
             ELSE IF slots[i] \in wanted THEN Append(f[i - 1], slots[i]) ELSE f[i - 1]]
           Has(n) == \E f : Is(f, n)
           Missing == {n \in 0..N : ~Has(n)}
           kept == CHOOSE f : Is(f, N)
           W == S \cap wanted
           Bad == {i \in 0..N : kept[i] \notin Seq(W)}
<1>1. N \in Nat /\ \A i \in 1..N : slots[i] \in S
  OBVIOUS
<1>7. \A i \in 1..N : slots[i] \in wanted => slots[i] \in W
  BY <1>1
<1> HIDE DEF N, W
<1>2. Missing = {}
  <2> SUFFICES ASSUME Missing # {}
               PROVE  FALSE
    OBVIOUS
  <2>1. PICK n \in Missing : \A m \in Missing : n <= m
    <3> HIDE DEF Has
    <3>1. Missing \subseteq Nat
      BY <1>1
    <3> HIDE DEF Missing
    <3> QED
      BY <3>1, LeastNatural
  <2>2. CASE n = 0
    <3> DEFINE g == [i \in 0..0 |-> <<>>]
    <3>1. Is(g, 0)
      OBVIOUS
    <3> QED
      BY <2>2, <3>1
  <2>3. CASE n # 0
    <3>1. n \in 0..N /\ n - 1 \in 0..N /\ n - 1 \notin Missing
      <4> HIDE DEF Has
      <4> QED
        BY <1>1, <2>1, <2>3
    <3>2. PICK f : Is(f, n - 1)
      BY <3>1
    <3> DEFINE g == [i \in 0..n |->
          IF i = n THEN IF slots[n] \in wanted THEN Append(f[n - 1], slots[n]) ELSE f[n - 1]
          ELSE f[i]]
    <3>3. \A i \in 0..n : g[i] =
            IF i = 0 THEN <<>>
            ELSE IF slots[i] \in wanted THEN Append(g[i - 1], slots[i]) ELSE g[i - 1]
      <4> SUFFICES ASSUME NEW i \in 0..n
                   PROVE  g[i] = IF i = 0 THEN <<>>
                                 ELSE IF slots[i] \in wanted THEN Append(g[i - 1], slots[i]) ELSE g[i - 1]
        OBVIOUS
      <4>1. n \in Nat
        BY <3>1, <1>1
      <4>2. CASE i = n
        BY <4>1, <4>2, <2>3
      <4>3. CASE i # n
        <5>1. i \in 0..(n - 1)
          BY <4>1, <4>3
        <5>2. f[i] = IF i = 0 THEN <<>>
                     ELSE IF slots[i] \in wanted THEN Append(f[i - 1], slots[i]) ELSE f[i - 1]
          BY <3>2, <5>1
        <5>3. i = 0 \/ (i - 1 \in 0..n /\ i - 1 # n)
          BY <4>1, <5>1
        <5> QED
          BY <5>2, <5>3, <4>3
      <4> QED
        BY <4>2, <4>3
    <3>4. Is(g, n)
      BY <3>3
    <3> QED
      BY <2>1, <3>4
  <2> QED
    BY <2>2, <2>3
<1>3. Is(kept, N)
  <2>1. Has(N)
    <3> HIDE DEF Has
    <3> QED
      BY <1>1, <1>2
  <2> QED
    BY <2>1
<1>4. \A i \in 0..N : kept[i] =
        IF i = 0 THEN <<>>
        ELSE IF slots[i] \in wanted THEN Append(kept[i - 1], slots[i]) ELSE kept[i - 1]
  <2> HIDE DEF kept
  <2> QED
    BY <1>3
<1>5. Keep(slots, wanted) = kept[N]
  BY DEF Keep, N
<1> HIDE DEF kept
<1>6. Bad = {}
  <2> SUFFICES ASSUME Bad # {}
               PROVE  FALSE
    OBVIOUS
  <2>1. PICK i \in Bad : \A j \in Bad : i <= j
    <3>1. Bad \subseteq Nat
      BY <1>1
    <3> HIDE DEF Bad
    <3> QED
      BY <3>1, LeastNatural
  <2>2. i # 0
    <3>1. kept[0] = <<>>
      BY <1>1, <1>4
    <3> QED
      BY <2>1, <3>1, EmptySeq
  <2>3. i \in 1..N /\ i - 1 \in 0..N /\ i - 1 \notin Bad
    BY <1>1, <2>1, <2>2
  <2>4. kept[i - 1] \in Seq(W)
    BY <2>3
  <2>5. slots[i] \in wanted => Append(kept[i - 1], slots[i]) \in Seq(W)
    BY <1>7, <2>3, <2>4, AppendProperties
  <2>6. kept[i] = IF slots[i] \in wanted THEN Append(kept[i - 1], slots[i]) ELSE kept[i - 1]
    BY <1>4, <2>1, <2>2
  <2> QED
    BY <2>1, <2>4, <2>5, <2>6
<1> QED
  BY <1>1, <1>5, <1>6 DEF W

\* The first elements of a sequence are a sequence over the same set.
LEMMA SubSeqType ==
  ASSUME NEW S, NEW s \in Seq(S), NEW n \in Nat, n < Len(s)
  PROVE  SubSeq(s, 1, n) \in Seq(S)
<1>1. \A i \in 1..n : s[i] \in S
  OBVIOUS
<1> QED
  BY <1>1, SubSeqProperties

--------------------------------------------------------------------------------
(* The search for free slots *)

\* The bounds of a range are minutes.
LEMMA TimeType ==
  ASSUME NEW r \in TimeRange
  PROVE  r.start \in Int /\ r.end \in Int
<1> DEFINE from == r.start
           until == r.end
<1>1. from \in 0..1440 /\ until \in 0..1440
  BY DEF TimeRange, MinutesPerDay
<1> HIDE DEF from, until
<1>2. from \in Int /\ until \in Int
  BY <1>1
<1> QED
  BY <1>2 DEF from, until

\* The slots of a range are slots: there is room for at least one when there are
\* any.
LEMMA RangeType ==
  ASSUME NEW range \in TimeRange, NEW day \in Int, NEW duration \in Int, NEW offset \in Int
  PROVE  SlotsOfRange(day, range, duration, offset) \in Seq(Slot)
<1>1. Steps(range, duration) \in Nat
  <2>1. range.start \in Int /\ range.end \in Int
    BY TimeType
  <2> DEFINE rest == range.end - range.start - duration
  <2>2. rest \in Int
    BY <2>1
  <2>3. CASE range.end - range.start < duration
    BY <2>3 DEF Steps
  <2>4. CASE ~(range.end - range.start < duration)
    <3>1. rest >= 0
      BY <2>1, <2>4
    <3> HIDE DEF rest
    <3>2. rest \div 30 + 1 \in Nat
      BY <2>2, <3>1
    <3> QED
      BY <2>4, <3>2 DEF Steps, StepMinutes, rest
  <2> QED
    BY <2>3, <2>4
<1>2. range.start \in Int
  BY TimeType
<1> DEFINE n == Steps(range, duration)
           first == day * 1440 + range.start - offset
<1>3. first \in Int
  BY <1>2
<1>4. SlotsOfRange(day, range, duration, offset) =
        [k \in 1..n |-> [start |-> first + (k - 1) * 30, end |-> first + (k - 1) * 30 + duration]]
  BY <1>2 DEF SlotsOfRange, MinutesPerDay, StepMinutes
<1> HIDE DEF n, first
<1>5. \A k \in 1..n :
        [start |-> first + (k - 1) * 30, end |-> first + (k - 1) * 30 + duration] \in Slot
  <2>1. n \in Nat
    BY <1>1 DEF n
  <2> SUFFICES ASSUME NEW k \in 1..n
               PROVE  /\ first + (k - 1) * 30 \in Int
                      /\ first + (k - 1) * 30 + duration \in Int
    BY DEF Slot
  <2>2. k \in Int
    BY <2>1
  <2> QED
    BY <1>3, <2>2
<1> QED
  BY <1>1, <1>4, <1>5 DEF n

\* The slots of a request are slots.
LEMMA AllSlotsType ==
  ASSUME NEW days \in Nat, NEW ranges \in Seq(TimeRange), NEW duration \in Int, NEW offset \in Int
  PROVE  AllSlots(days, ranges, duration, offset) \in Seq(Slot)
<1> DEFINE ofDay(d) == [r \in DOMAIN ranges |-> SlotsOfRange(d - 1, ranges[r], duration, offset)]
           perDay == [d \in 1..days |-> FlattenSeq(ofDay(d))]
<1>1. \A d \in 1..days : FlattenSeq(ofDay(d)) \in Seq(Slot)
  <2> SUFFICES ASSUME NEW d \in 1..days
               PROVE  FlattenSeq(ofDay(d)) \in Seq(Slot)
    OBVIOUS
  <2>1. \A r \in DOMAIN ranges : SlotsOfRange(d - 1, ranges[r], duration, offset) \in Seq(Slot)
    <3> SUFFICES ASSUME NEW r \in DOMAIN ranges
                 PROVE  SlotsOfRange(d - 1, ranges[r], duration, offset) \in Seq(Slot)
      OBVIOUS
    <3>1. ranges[r] \in TimeRange /\ d - 1 \in Int
      OBVIOUS
    <3> QED
      BY <3>1, RangeType
  <2>2. DOMAIN ranges = 1..Len(ranges) /\ Len(ranges) \in Nat
    OBVIOUS
  <2>3. ofDay(d) \in Seq(Seq(Slot))
    BY <2>1, <2>2
  <2> HIDE DEF ofDay
  <2> QED
    BY <2>3, FlattenType
<1> HIDE DEF ofDay
<1>2. perDay \in Seq(Seq(Slot))
  BY <1>1
<1>3. AllSlots(days, ranges, duration, offset) = FlattenSeq(perDay)
  BY DEF AllSlots, ofDay
<1> HIDE DEF perDay
<1> QED
  BY <1>2, <1>3, FlattenType

\* The candidates are slots that overlap no busy entry.
LEMMA CandidatesFree ==
  ASSUME NEW days \in Nat, NEW ranges \in Seq(TimeRange), NEW duration \in Int, NEW offset \in Int,
         NEW busy
  PROVE  CandidateSlots(days, ranges, duration, busy, offset)
           \in Seq({slot \in Slot : \A b \in busy : ~Overlaps(slot, b)})
<1> DEFINE all == AllSlots(days, ranges, duration, offset)
           wanted == {slot \in ToSet(all) : \A b \in busy : ~Overlaps(slot, b)}
           free == Keep(all, wanted)
           F == {slot \in Slot : \A b \in busy : ~Overlaps(slot, b)}
<1>1. all \in Seq(Slot)
  BY AllSlotsType
<1>2. CandidateSlots(days, ranges, duration, busy, offset) =
        IF Len(free) <= MaxSlots THEN free ELSE SubSeq(free, 1, MaxSlots)
  BY DEF CandidateSlots
<1> HIDE DEF all
<1>3. Slot \cap wanted \subseteq F
  OBVIOUS
<1>4. free \in Seq(Slot \cap wanted)
  <2> HIDE DEF wanted
  <2> QED
    BY <1>1, KeepType
<1> HIDE DEF free, wanted, F
<1>5. free \in Seq(F)
  BY <1>3, <1>4
<1>6. 20 < Len(free) => SubSeq(free, 1, 20) \in Seq(F)
  BY <1>5, SubSeqType
<1>7. Len(free) \in Nat
  BY <1>5
<1>8. CandidateSlots(days, ranges, duration, busy, offset) \in Seq(F)
  BY <1>2, <1>5, <1>6, <1>7 DEF MaxSlots
<1> QED
  BY <1>8 DEF F

\* A slot that overlaps no entry as an instant fits between the entries on the
\* owner's wall clock.
LEMMA FreeFits ==
  ASSUME NEW role \in Role, NEW slot \in Slot,
         request.entries[role] \subseteq Entry, request.offset[role] \in Int,
         \A b \in CollectBusy(request.entries[role], request.offset[role]) : ~Overlaps(slot, b)
  PROVE  FitsCalendar(role, slot)
<1> DEFINE shift(e) == IF e.aware THEN 0 ELSE request.offset[role]
<1> SUFFICES ASSUME NEW e \in request.entries[role]
             PROVE  slot.end + shift(e) <= e.start \/ e.end <= slot.start + shift(e)
  BY DEF FitsCalendar
<1>1. e.start \in Int /\ e.end \in Int /\ slot.start \in Int /\ slot.end \in Int /\ shift(e) \in Int
  BY DEF Entry, Slot
<1> DEFINE b == [start |-> e.start - shift(e), end |-> e.end - shift(e)]
<1>2. b \in CollectBusy(request.entries[role], request.offset[role])
  BY DEF CollectBusy
<1>3. ~Overlaps(slot, b)
  BY <1>2
<1>4. ~(slot.start < e.end - shift(e) /\ e.start - shift(e) < slot.end)
  BY <1>3 DEF Overlaps
<1> HIDE DEF shift
<1> QED
  BY <1>1, <1>4

--------------------------------------------------------------------------------
(* Types of requests, rows and moves *)

Row == [from : Role,
        type : {"REQUEST", "PROPOSE", "COUNTER", "ACCEPT", "REJECT", "ERROR", "REQUEST_APPROVAL"},
        amount : Int, slots : Seq(Slot)]

\* The two sides take turns.
LEMMA Sides ==
  /\ Acting \in Role
  /\ \A role \in Role : Other(role) \in Role /\ Other(Other(role)) = role /\ Other(role) # role
BY DEF Acting, Other, Role

\* A request is what its payload model lets through.
LEMMA RequestTypes ==
  ASSUME request \in Request
  PROVE  /\ Intent("cost.split") => ValidCost(request)
         /\ Intent("meeting.schedule") => ValidMeeting(request)
         /\ Intent("task.request") => ValidTask(request)
<1>1. ValidCost(request) \/ ValidMeeting(request) \/ ValidTask(request)
  BY RequestsAssumption DEF Request
<1>2. CASE ValidCost(request)
  BY <1>2 DEF ValidCost, Intent
<1>3. CASE ValidMeeting(request)
  BY <1>3 DEF ValidMeeting, Intent
<1>4. CASE ValidTask(request)
  BY <1>4 DEF ValidTask, Intent
<1> QED
  BY <1>1, <1>2, <1>3, <1>4

\* What can be agreed in a request.
LEMMA TermsOf ==
  /\ Intent("meeting.schedule") => Terms = Slot
  /\ Intent("cost.split") \/ Intent("task.request") => Terms = Int
BY DEF Terms, Intent

\* The limits of a cost split are amounts; the initiator's lies at most at what
\* was proposed, the responder's at least at what it would open with.
LEMMA CostTypes ==
  ASSUME request \in Request, Intent("cost.split")
  PROVE  /\ request.total \in Nat /\ request.proposed \in Int
         /\ \A role \in Role : Policy(role) \in CostPolicy
         /\ Ceiling \in Int /\ Least \in Int /\ Least <= request.proposed
         /\ Opening(Policy("responder"), request.total) \in Int
         /\ Opening(Policy("responder"), request.total) <= Ceiling
<1>1. ValidCost(request)
  BY RequestTypes
<1>2. request.total \in Nat /\ request.proposed \in Int
  <2> DEFINE n == request.total
             m == request.proposed
  <2>1. n \in Nat \ {0} /\ m \in 0..n
    BY <1>1 DEF ValidCost
  <2> HIDE DEF n, m
  <2>2. n \in Nat /\ m \in Int
    BY <2>1
  <2> QED
    BY <2>2 DEF n, m
<1>3. \A role \in Role : Policy(role) \in CostPolicy
  BY <1>1 DEF ValidCost, Policy
<1>4. Policy("initiator") \in CostPolicy /\ Policy("responder") \in CostPolicy
  BY <1>3 DEF Role
<1>5. Least \in Int /\ Least <= request.proposed
  BY <1>2, <1>4, FloorWithin DEF Least
<1>6. /\ Ceiling \in Int
      /\ Opening(Policy("responder"), request.total) \in Int
      /\ Opening(Policy("responder"), request.total) <= Ceiling
  BY <1>2, <1>4, OpeningWithin DEF Ceiling
<1> QED
  BY <1>2, <1>3, <1>5, <1>6

\* The candidates of a side are free in its calendar.
LEMMA CandidatesFit ==
  ASSUME request \in Request, Intent("meeting.schedule"), NEW role \in Role
  PROVE  FreeSlots(role) \in Seq({slot \in Slot : FitsCalendar(role, slot)})
<1> DEFINE entries == request.entries[role]
           offset == request.offset[role]
           busy == CollectBusy(entries, offset)
           F == {slot \in Slot : \A b \in busy : ~Overlaps(slot, b)}
           G == {slot \in Slot : FitsCalendar(role, slot)}
<1>1. ValidMeeting(request)
  BY RequestTypes
<1>2. entries \subseteq Entry /\ offset \in Int
  BY <1>1 DEF ValidMeeting
<1>3. request.days \in Nat /\ request.ranges \in Seq(TimeRange) /\ request.duration \in Int
  <2> DEFINE n == request.days
             d == request.duration
  <2>1. n \in Nat \ {0} /\ d \in 1..480
    BY <1>1 DEF ValidMeeting
  <2> HIDE DEF n, d
  <2>2. n \in Nat /\ d \in Int
    BY <2>1
  <2> QED
    BY <1>1, <2>2 DEF n, d, ValidMeeting
<1>4. F \subseteq G
  BY <1>2, FreeFits
<1>5. FreeSlots(role) \in Seq(F)
  <2> HIDE DEF busy, offset
  <2>1. CandidateSlots(request.days, request.ranges, request.duration, busy, offset) \in Seq(F)
    BY <1>2, <1>3, CandidatesFree
  <2> QED
    BY <2>1 DEF FreeSlots, busy, offset
<1> HIDE DEF F, G
<1>6. FreeSlots(role) \in Seq(G)
  BY <1>4, <1>5
<1> QED
  BY <1>6 DEF G

\* A row is added at the end.
LEMMA RowAdded ==
  ASSUME messages \in Seq(Row), NEW m \in Row, messages' = Append(messages, m)
  PROVE  /\ messages' \in Seq(Row)
         /\ Len(messages) \in Nat /\ Len(messages') = Len(messages) + 1
         /\ DOMAIN messages = 1..Len(messages) /\ DOMAIN messages' = 1..(Len(messages) + 1)
         /\ \A k \in 1..Len(messages) : messages'[k] = messages[k]
         /\ messages'[Len(messages) + 1] = m
BY AppendProperties

\* What a side says is a row.
LEMMA SaidType ==
  ASSUME NEW role \in Role, NEW amount \in Int, NEW slots \in Seq(Slot),
         NEW type \in {"REQUEST", "PROPOSE", "COUNTER", "ACCEPT", "REJECT", "ERROR", "REQUEST_APPROVAL"}
  PROVE  Said(role, type, amount, slots) \in Row
BY DEF Said, Row

\* A responder accepts what lies at most at its own amount and counters between
\* its own amount, what stands on the table and its reservation.
LEMMA ResponderMoves ==
  ASSUME request \in Request, Intent("cost.split"), standing \in Int, own \in [Role -> Int],
         Acting = "responder", own["responder"] <= Ceiling
  PROVE  /\ Move.kind = "accept" => Move.amount = standing /\ standing <= own["responder"]
         /\ Move.kind = "counter" =>
              /\ Move.amount \in Int
              /\ own["responder"] <= Move.amount /\ Move.amount <= standing
              /\ Move.amount <= Ceiling
<1> DEFINE p == Policy("responder")
           mine == own["responder"]
<1>1. p \in CostPolicy /\ request.total \in Nat /\ mine \in Int /\ Ceiling \in Int
  BY CostTypes DEF Role
<1>2. Move = ResponderAction(p, request.total, standing, mine, request.highValue)
  BY DEF Move, NextAction
<1>3. Ceiling = Reservation(p, request.total)
  BY DEF Ceiling
<1> HIDE DEF p, mine
<1>4. CASE standing <= mine
  <2>1. Move = Accept(standing)
    BY <1>2, <1>4 DEF ResponderAction
  <2> QED
    BY <1>4, <2>1 DEF Accept, mine
<1>5. CASE ~(standing <= mine) /\ standing > Reservation(p, request.total)
  <2>1. Move = Escalate \/ Move = Reject
    BY <1>2, <1>5 DEF ResponderAction, BeyondReservation
  <2> QED
    BY <2>1 DEF Escalate, Reject
<1>6. CASE ~(standing <= mine) /\ ~(standing > Reservation(p, request.total))
  <2> DEFINE amount == ResponderConcession(p, request.total, standing, mine)
  <2>1. Move = Counter(amount)
    BY <1>2, <1>6 DEF ResponderAction
  <2>2. mine < standing /\ mine <= Reservation(p, request.total)
    BY <1>1, <1>3, <1>6 DEF mine
  <2>3. amount \in Int /\ mine <= amount /\ amount <= standing /\ amount <= Ceiling
    BY <1>1, <1>3, <2>2, ResponderConcedes
  <2> HIDE DEF amount
  <2> QED
    BY <2>1, <2>3 DEF Counter, mine
<1> QED
  BY <1>4, <1>5, <1>6

\* An initiator accepts no less than its least amount and counters between that,
\* what stands on the table and its own amount.
LEMMA InitiatorMoves ==
  ASSUME request \in Request, Intent("cost.split"), standing \in Int, own \in [Role -> Int],
         Acting = "initiator", Least <= own["initiator"]
  PROVE  /\ Move.kind = "accept" => Move.amount = standing /\ Least <= standing
         /\ Move.kind = "counter" =>
              /\ Move.amount \in Int
              /\ Least <= Move.amount /\ Move.amount <= own["initiator"]
              /\ standing <= Move.amount
<1> DEFINE p == Policy("initiator")
           mine == own["initiator"]
<1>1. p \in CostPolicy /\ request.total \in Nat /\ request.proposed \in Int /\ mine \in Int
      /\ Least \in Int
  BY CostTypes DEF Role
<1>2. Move = InitiatorAction(p, request.total, request.proposed, standing, mine)
  BY DEF Move, NextAction
<1>3. Least = Floor(p, request.total, request.proposed)
  BY DEF Least
<1> HIDE DEF p, mine
<1>4. CASE standing >= mine
  <2>1. Move = Accept(standing)
    BY <1>2, <1>4 DEF InitiatorAction
  <2>2. Least <= standing
    BY <1>1, <1>4 DEF mine
  <2> QED
    BY <2>1, <2>2 DEF Accept
<1>5. CASE ~(standing >= mine)
  <2> DEFINE amount == InitiatorConcession(p, request.total, request.proposed, standing, mine)
  <2>1. amount \in Int /\ Least <= amount /\ amount <= mine
    <3>1. standing < mine /\ Floor(p, request.total, request.proposed) <= mine
      BY <1>1, <1>3, <1>5 DEF mine
    <3> QED
      BY <1>1, <1>3, <3>1, InitiatorConcedes
  <2>2. \/ Move = Escalate
        \/ amount <= standing /\ Move = Accept(standing)
        \/ ~(amount <= standing) /\ Move = Counter(amount)
    BY <1>2, <1>5 DEF InitiatorAction
  <2> HIDE DEF amount
  <2>3. Move = Escalate => Move.kind = "escalate"
    BY DEF Escalate
  <2>4. Move = Accept(standing) => Move.kind = "accept" /\ Move.amount = standing
    BY DEF Accept
  <2>5. Move = Counter(amount) => Move.kind = "counter" /\ Move.amount = amount
    BY DEF Counter
  <2>6. amount <= standing => Least <= standing
    BY <1>1, <2>1
  <2>7. ~(amount <= standing) => standing <= amount
    BY <2>1
  <2> QED
    BY <2>1, <2>2, <2>3, <2>4, <2>5, <2>6, <2>7 DEF mine
<1> QED
  BY <1>4, <1>5

--------------------------------------------------------------------------------
(* The steps of a cost split, and what a step does to the rows *)

PassPrecheck ==
  /\ stage = "precheck" /\ stage' = "turn" /\ round' = 1
  /\ UNCHANGED <<rules, loaded, status, messages, agreement, approval, standing, own, candidates>>

\* A COUNTER inside the limits of the side that sends it and not behind what it
\* or the other side offered last.
FairCounter(amount) ==
  /\ stage = "turn" /\ round < MaxRounds
  /\ OfferCounter(amount)
  /\ Acting = "responder" =>
       own["responder"] <= amount /\ amount <= standing /\ amount <= Ceiling
  /\ Acting = "initiator" =>
       Least <= amount /\ amount <= own["initiator"] /\ standing <= amount

CostMove ==
  /\ Intent("cost.split") /\ stage \in {"precheck", "turn"}
  /\ \/ PassPrecheck
     \/ Ask(Other(Opposite), standing)
     \/ stage = "turn" /\ Agree(Acting, standing) /\ Least <= standing /\ standing <= Ceiling
     \/ \E role \in Role : Fail(role, "REJECT")
     \/ \E amount \in Int : FairCounter(amount)

\* A turn of a cost split passes the precheck, asks the owner about what stands
\* on the table, agrees to it inside the limits of both, rejects it or counters.
LEMMA CostSteps ==
  ASSUME TypeOK, DriverInv, TableInv, Precheck \/ CostSplitTurn
  PROVE  CostMove
<1>1. request \in Request /\ standing \in Int /\ own \in [Role -> Int]
  BY DEF TypeOK
<1>2. CASE Precheck
  <2>1. stage = "precheck" /\ Intent("cost.split")
    BY <1>2 DEF Precheck, DriverInv
  <2>2. Other(Opposite) = "responder"
    BY <2>1 DEF Opposite, Other
  <2>3. \/ Ask("responder", standing)
        \/ Fail("responder", "REJECT")
        \/ PassPrecheck
    BY <1>2 DEF Precheck, PassPrecheck
  <2>4. "responder" \in Role
    BY DEF Role
  <2> QED
    BY <2>1, <2>2, <2>3, <2>4 DEF CostMove
<1>3. CASE CostSplitTurn
  <2>1. stage = "turn" /\ Intent("cost.split")
    BY <1>3 DEF CostSplitTurn
  <2>2. Other(Opposite) = Acting /\ Opposite = Other(Acting) /\ Acting \in Role
    BY <2>1, Sides DEF Opposite
  <2>3. /\ standing = own[Opposite]
        /\ Least <= own["initiator"] /\ own["responder"] <= Ceiling
    BY <2>1 DEF TableInv
  <2>4. \/ Ask(Acting, standing)
        \/ Move.kind = "accept" /\ Agree(Acting, Move.amount)
        \/ Fail(Acting, "REJECT")
        \/ Move.kind = "counter" /\ round < MaxRounds /\ OfferCounter(Move.amount)
    BY <1>3 DEF CostSplitTurn, LastRound
  <2>5. CASE Move.kind = "accept" /\ Agree(Acting, Move.amount)
    <3>1. CASE Acting = "responder"
      <4>1. Move.amount = standing /\ standing <= own["responder"]
        BY <1>1, <2>1, <2>3, <2>5, <3>1, ResponderMoves
      <4>2. standing = own["initiator"]
        BY <2>2, <2>3, <3>1 DEF Other
      <4>3. Least <= standing /\ standing <= Ceiling
        BY <1>1, <2>1, <2>3, <4>1, <4>2, CostTypes DEF Role
      <4> QED
        BY <2>1, <2>5, <4>1, <4>3 DEF CostMove
    <3>2. CASE Acting = "initiator"
      <4>1. Move.amount = standing /\ Least <= standing
        BY <1>1, <2>1, <2>3, <2>5, <3>2, InitiatorMoves
      <4>2. standing = own["responder"]
        BY <2>2, <2>3, <3>2 DEF Other
      <4> QED
        BY <2>1, <2>3, <2>5, <4>1, <4>2 DEF CostMove
    <3> QED
      BY <2>2, <3>1, <3>2 DEF Role
  <2>6. CASE Move.kind = "counter" /\ round < MaxRounds /\ OfferCounter(Move.amount)
    <3>1. CASE Acting = "responder"
      <4>1. /\ Move.amount \in Int
            /\ own["responder"] <= Move.amount /\ Move.amount <= standing
            /\ Move.amount <= Ceiling
        BY <1>1, <2>1, <2>3, <2>6, <3>1, ResponderMoves
      <4>2. FairCounter(Move.amount)
        BY <2>1, <2>6, <3>1, <4>1 DEF FairCounter
      <4> QED
        BY <2>1, <4>1, <4>2 DEF CostMove
    <3>2. CASE Acting = "initiator"
      <4>1. /\ Move.amount \in Int
            /\ Least <= Move.amount /\ Move.amount <= own["initiator"]
            /\ standing <= Move.amount
        BY <1>1, <2>1, <2>3, <2>6, <3>2, InitiatorMoves
      <4>2. FairCounter(Move.amount)
        BY <2>1, <2>6, <3>2, <4>1 DEF FairCounter
      <4> QED
        BY <2>1, <4>1, <4>2 DEF CostMove
    <3> QED
      BY <2>2, <3>1, <3>2 DEF Role
  <2> QED
    BY <2>1, <2>2, <2>4, <2>5, <2>6 DEF CostMove
<1> QED
  BY <1>2, <1>3

\* The kinds of steps of the negotiation.
LEMMA NextKinds ==
  ASSUME TypeOK, DriverInv, TableInv, [Next]_vars
  PROVE  \/ StartCostSplit
         \/ CostMove
         \/ StartMeeting \/ MeetingTurn \/ RunTaskRequest \/ Await
         \/ \E verdict \in {"approved", "rejected", "expired"} : Resolve(verdict)
         \/ \E role \in Role : ChangeRules(role)
         \/ Die
         \/ UNCHANGED vars
<1>1. Precheck \/ CostSplitTurn => CostMove
  BY CostSteps
<1>2. CASE Next
  BY <1>1, <1>2, Zenon DEF Next, Start, Drive
<1>3. CASE UNCHANGED vars
  BY <1>3
<1> QED
  BY <1>2, <1>3

\* A negotiation is about one request.
LEMMA RequestStays ==
  ASSUME [Next]_vars
  PROVE  request' = request
<1>1. CASE Start
  BY <1>1 DEF Start, StartCostSplit, StartMeeting, RunTaskRequest, Open, rules
<1>2. CASE Precheck
  BY <1>2 DEF Precheck, Ask, Fail, rules
<1>3. CASE CostSplitTurn
  BY <1>3 DEF CostSplitTurn, LastRound, Ask, Agree, Fail, OfferCounter, rules
<1>4. CASE MeetingTurn
  BY <1>4 DEF MeetingTurn, rules
<1>5. CASE Await
  BY <1>5 DEF Await, rules
<1>6. ASSUME NEW verdict \in {"approved", "rejected", "expired"}, Resolve(verdict)
      PROVE  request' = request
  BY <1>6 DEF Resolve, rules
<1>7. ASSUME NEW role \in Role, ChangeRules(role)
      PROVE  request' = request
  BY <1>7 DEF ChangeRules
<1>8. CASE Die
  BY <1>8 DEF Die, rules
<1>9. CASE UNCHANGED vars
  BY <1>9 DEF vars, rules
<1> QED
  BY <1>1, <1>2, <1>3, <1>4, <1>5, <1>6, <1>7, <1>8, <1>9 DEF Next, Drive

\* The intent of the request and the limits in it stay what they are.
LEMMA LimitsStay ==
  ASSUME request' = request
  PROVE  /\ \A intent : Intent(intent)' = Intent(intent)
         /\ Ceiling' = Ceiling /\ Least' = Least /\ Terms' = Terms
         /\ \A role \in Role : \A slot : FitsCalendar(role, slot)' = FitsCalendar(role, slot)
BY DEF Intent, Ceiling, Least, Terms, FitsCalendar, Policy, Reservation, Floor

--------------------------------------------------------------------------------
(* The types and the driver *)

\* The offers of a side are slots.
LEMMA OfferType ==
  ASSUME candidates \in [Role -> Seq(Slot)], NEW role \in Role
  PROVE  OfferTo(role) \in Seq(Slot)
<1>1. candidates[Other(role)] \in Seq(Slot)
  BY Sides
<1> DEFINE c == candidates[Other(role)]
<1> HIDE DEF c
<1>2. c \in Seq(Slot)
  BY <1>1 DEF c
<1>3. OfferTo(role) = IF Len(c) <= 5 THEN c ELSE SubSeq(c, 1, 5)
  BY DEF OfferTo, FirstOffer, OfferSize, c
<1>4. 5 < Len(c) => SubSeq(c, 1, 5) \in Seq(Slot)
  BY <1>2, SubSeqType
<1>5. Len(c) \in Nat
  BY <1>2
<1> QED
  BY <1>2, <1>3, <1>4, <1>5

\* Most rows offer no slots.
LEMMA PlainType ==
  ASSUME NEW role \in Role, NEW amount \in Int,
         NEW type \in {"REQUEST", "PROPOSE", "COUNTER", "ACCEPT", "REJECT", "ERROR", "REQUEST_APPROVAL"}
  PROVE  Said(role, type, amount, <<>>) \in Row
<1>1. <<>> \in Seq(Slot)
  OBVIOUS
<1> QED
  BY <1>1, SaidType

\* What the sides have offered up to a round are rows.
LEMMA OfferedType ==
  ASSUME candidates \in [Role -> Seq(Slot)], NEW last \in Nat \ {0}
  PROVE  Offered(last) \in Seq(Row)
<1> DEFINE speaker(k) == IF k % 2 = 1 THEN "responder" ELSE "initiator"
           head == <<Said("initiator", "REQUEST", 0, <<>>),
                     Said("initiator", "PROPOSE", 0, OfferTo("responder"))>>
           tail == [k \in 1..last - 1 |-> Said(speaker(k), "COUNTER", 0, OfferTo(Other(speaker(k))))]
<1>1. \A role \in Role : OfferTo(role) \in Seq(Slot)
  BY OfferType
<1>2. "initiator" \in Role /\ "responder" \in Role /\ <<>> \in Seq(Slot)
  BY DEF Role
<1>3. head \in Seq(Row)
  <2>1. Said("initiator", "REQUEST", 0, <<>>) \in Row
    BY <1>2, PlainType
  <2>2. Said("initiator", "PROPOSE", 0, OfferTo("responder")) \in Row
    BY <1>1, <1>2, SaidType
  <2> QED
    BY <2>1, <2>2
<1>4. tail \in Seq(Row)
  <2>1. \A k \in 1..last - 1 : speaker(k) \in Role
    BY <1>2
  <2>2. \A k \in 1..last - 1 : Other(speaker(k)) \in Role
    BY <2>1, Sides
  <2>3. \A k \in 1..last - 1 : Said(speaker(k), "COUNTER", 0, OfferTo(Other(speaker(k)))) \in Row
    <3> SUFFICES ASSUME NEW k \in 1..last - 1
                 PROVE  Said(speaker(k), "COUNTER", 0, OfferTo(Other(speaker(k)))) \in Row
      OBVIOUS
    <3>1. speaker(k) \in Role /\ OfferTo(Other(speaker(k))) \in Seq(Slot)
      BY <1>1, <2>1, <2>2
    <3> HIDE DEF speaker
    <3> QED
      BY <3>1, SaidType
  <2>4. last - 1 \in Nat
    OBVIOUS
  <2> HIDE DEF speaker
  <2> QED
    BY <2>3, <2>4
<1>5. Offered(last) = head \o tail
  BY DEF Offered
<1> HIDE DEF head, tail
<1> QED
  BY <1>3, <1>4, <1>5, ConcatProperties

\* The slot a side picks is a candidate of both sides that the other has offered.
LEMMA CommonHead ==
  ASSUME candidates \in [Role -> Seq(Slot)], NEW role \in Role, CommonSlots(role) # <<>>
  PROVE  LET slot == Head(CommonSlots(role))
         IN  /\ slot \in Slot
             /\ \E i \in DOMAIN candidates[role] : candidates[role][i] = slot
             /\ \E i \in DOMAIN candidates[Other(role)] : candidates[Other(role)][i] = slot
             /\ \E i \in DOMAIN OfferTo(role) : OfferTo(role)[i] = slot
<1> DEFINE c == candidates[role]
           d == candidates[Other(role)]
           o == OfferTo(role)
           common == CommonSlots(role)
<1>1. c \in Seq(Slot) /\ d \in Seq(Slot)
  BY Sides
<1>2. o = IF Len(d) <= 5 THEN d ELSE SubSeq(d, 1, 5)
  BY DEF OfferTo, FirstOffer, OfferSize
<1>3. common = Keep(c, ToSet(o))
  BY DEF CommonSlots, IntersectSlots
<1> HIDE DEF c, d, o, common
<1>4. c \in Seq(ToSet(c)) /\ ToSet(c) \subseteq Slot
  BY <1>1 DEF ToSet
<1>5. common \in Seq(ToSet(c) \cap ToSet(o))
  BY <1>3, <1>4, KeepType
<1>6. Head(common) \in ToSet(c) /\ Head(common) \in ToSet(o)
  <2>1. common # <<>>
    BY DEF common
  <2> QED
    BY <1>5, <2>1, HeadTailProperties
<1>7. ToSet(o) \subseteq ToSet(d)
  <2>1. CASE Len(d) <= 5
    BY <1>2, <2>1
  <2>2. CASE ~(Len(d) <= 5)
    <3>1. d \in Seq(ToSet(d)) /\ Len(d) \in Nat
      BY <1>1 DEF ToSet
    <3>2. o \in Seq(ToSet(d))
      BY <1>2, <2>2, <3>1, SubSeqType
    <3> QED
      BY <3>2 DEF ToSet
  <2> QED
    BY <2>1, <2>2
<1>8. /\ Head(common) \in Slot
      /\ \E i \in DOMAIN c : c[i] = Head(common)
      /\ \E i \in DOMAIN d : d[i] = Head(common)
      /\ \E i \in DOMAIN o : o[i] = Head(common)
  BY <1>4, <1>6, <1>7 DEF ToSet
<1> QED
  BY <1>8 DEF c, d, o, common


\* Adding a row without slots keeps the rows rows.
LEMMA RowsType ==
  ASSUME messages \in Seq(Row), NEW role \in Role, NEW amount \in Int,
         NEW type \in {"REQUEST", "PROPOSE", "COUNTER", "ACCEPT", "REJECT", "ERROR", "REQUEST_APPROVAL"}
  PROVE  Append(messages, Said(role, type, amount, <<>>)) \in Seq(Row)
BY PlainType, AppendProperties

\* A request opens the session with its first row.
LEMMA OpenType ==
  ASSUME NEW amount \in Int, Open(amount)
  PROVE  messages' \in Seq(Row)
<1>1. Said("initiator", "REQUEST", amount, <<>>) \in Row
  BY PlainType DEF Role
<1> DEFINE m == Said("initiator", "REQUEST", amount, <<>>)
<1> HIDE DEF m
<1>2. m \in Row
  BY <1>1 DEF m
<1>3. messages' = <<m>>
  BY DEF Open, m
<1> QED
  BY <1>2, <1>3

\* A move in a cost split keeps the types.
LEMMA CostMoveType ==
  ASSUME TypeOK, DriverInv, CostMove
  PROVE  TypeOK'
<1>1. request \in Request /\ standing \in Int /\ own \in [Role -> Int] /\ messages \in Seq(Row)
      /\ agreement \subseteq Terms /\ round \in 0..3
  BY DEF TypeOK, Row, MaxRounds
<1>2. Terms = Int
  BY TermsOf DEF CostMove
<1>3. CASE PassPrecheck
  <2>1. request' = request
    BY <1>3 DEF PassPrecheck, rules
  <2>2. Terms' = Terms
    BY <2>1, LimitsStay
  <2> QED
    BY <1>3, <2>2 DEF PassPrecheck, TypeOK, rules, MaxRounds, Approval
<1>4. CASE Ask(Other(Opposite), standing)
  <2>1. request' = request
    BY <1>4 DEF Ask, rules
  <2>2. Terms' = Terms
    BY <2>1, LimitsStay
  <2>3. Other(Opposite) \in Role
    BY Sides DEF Opposite, Role
  <2>4. Asked(Other(Opposite), standing) \in Approval
    BY <1>1, <1>2, <2>3 DEF Asked, Approval
  <2>5. Approval' = Approval
    BY <2>2 DEF Approval
  <2> QED
    BY <1>4, <2>2, <2>4, <2>5 DEF Ask, TypeOK, rules
<1>5. CASE Agree(Acting, standing)
  <2>1. request' = request
    BY <1>5 DEF Agree, rules
  <2>2. Terms' = Terms
    BY <2>1, LimitsStay
  <2>3. messages' \in Seq(Row)
    BY <1>1, <1>5, Sides, RowsType DEF Agree
  <2>4. agreement' \subseteq Terms
    BY <1>1, <1>2, <1>5 DEF Agree
  <2>5. Approval' = Approval
    BY <2>2 DEF Approval
  <2> QED
    BY <1>5, <2>2, <2>3, <2>4, <2>5 DEF Agree, TypeOK, rules, Row
<1>6. ASSUME NEW role \in Role, Fail(role, "REJECT")
      PROVE  TypeOK'
  <2>1. request' = request
    BY <1>6 DEF Fail, rules
  <2>2. Terms' = Terms
    BY <2>1, LimitsStay
  <2>3. messages' \in Seq(Row)
    BY <1>1, <1>6, RowsType DEF Fail
  <2>4. Approval' = Approval
    BY <2>2 DEF Approval
  <2> QED
    BY <1>6, <2>2, <2>3, <2>4 DEF Fail, TypeOK, rules, Row
<1>7. ASSUME NEW amount \in Int, FairCounter(amount)
      PROVE  TypeOK'
  <2>1. request' = request
    BY <1>7 DEF FairCounter, OfferCounter, rules
  <2>2. Terms' = Terms
    BY <2>1, LimitsStay
  <2>3. messages' \in Seq(Row)
    BY <1>1, <1>7, Sides, RowsType DEF FairCounter, OfferCounter
  <2>4. own' \in [Role -> Int] /\ standing' \in Int
    BY <1>1, <1>7 DEF FairCounter, OfferCounter
  <2>5. round' \in 0..3
    BY <1>1, <1>7 DEF FairCounter, OfferCounter, MaxRounds
  <2>6. Approval' = Approval
    BY <2>2 DEF Approval
  <2> QED
    BY <1>7, <2>2, <2>3, <2>4, <2>5, <2>6 DEF FairCounter, OfferCounter, TypeOK, rules, Row, MaxRounds
<1> QED
  BY <1>3, <1>4, <1>5, <1>6, <1>7 DEF CostMove

\* A turn of a meeting keeps the types.
LEMMA MeetingTurnType ==
  ASSUME TypeOK, DriverInv, MeetingTurn
  PROVE  TypeOK'
<1> DEFINE common == CommonSlots(Acting)
           slot == Head(common)
           told == messages \o Offered(round)
<1>1. /\ messages \in Seq(Row) /\ candidates \in [Role -> Seq(Slot)] /\ round \in 0..3
      /\ agreement \subseteq Terms
  BY DEF TypeOK, Row, MaxRounds
<1>2. Terms = Slot /\ round # 0 /\ request' = request
  BY TermsOf DEF MeetingTurn, DriverInv, rules
<1>3. Terms' = Terms
  BY <1>2, LimitsStay
<1>4. Approval' = Approval
  BY <1>3 DEF Approval
<1>5. told \in Seq(Row)
  <2>1. Offered(round) \in Seq(Row)
    BY <1>1, <1>2, OfferedType
  <2> QED
    BY <1>1, <2>1, ConcatProperties
<1>6. common # <<>> => slot \in Slot
  BY <1>1, Sides, CommonHead
<1>7. \/ /\ common # <<>>
         /\ approval' = Asked(Acting, slot) /\ messages' = told /\ stage' = "ask"
         /\ UNCHANGED <<status, agreement, round>>
      \/ /\ common # <<>>
         /\ status' = "agreed" /\ agreement' = {slot} /\ stage' = "over"
         /\ messages' = Append(told, Said(Acting, "ACCEPT", 0, <<>>))
         /\ UNCHANGED <<approval, round>>
      \/ /\ status' = "failed" /\ stage' = "over"
         /\ messages' = Append(told, Said(Acting, "ERROR", 0, <<>>))
         /\ UNCHANGED <<agreement, approval, round>>
      \/ /\ round < MaxRounds /\ round' = round + 1
         /\ UNCHANGED <<status, messages, agreement, approval, stage>>
  BY DEF MeetingTurn
<1>8. UNCHANGED <<rules, loaded, standing, own, candidates>>
  BY DEF MeetingTurn
<1> HIDE DEF common, slot, told
<1>9. /\ Append(told, Said(Acting, "ACCEPT", 0, <<>>)) \in Seq(Row)
      /\ Append(told, Said(Acting, "ERROR", 0, <<>>)) \in Seq(Row)
  BY <1>5, Sides, PlainType, AppendProperties
<1>10. messages' \in Seq(Row)
  BY <1>1, <1>5, <1>7, <1>9
<1>11. approval' \in {NoApproval} \cup Approval
  <2>1. common # <<>> => Asked(Acting, slot) \in Approval
    BY <1>2, <1>6, Sides DEF Asked, Approval
  <2> QED
    BY <1>7, <2>1 DEF TypeOK
<1>12. agreement' \subseteq Terms
  BY <1>1, <1>2, <1>6, <1>7
<1>13. round' \in 0..3
  BY <1>1, <1>7 DEF MaxRounds
<1>14. /\ status' \in {"none", "open", "waiting_approval", "agreed", "failed"}
       /\ stage' \in {"idle", "precheck", "turn", "ask", "over", "dead"}
  BY <1>7 DEF TypeOK
<1> QED
  BY <1>3, <1>4, <1>8, <1>10, <1>11, <1>12, <1>13, <1>14 DEF TypeOK, rules, Row, MaxRounds

\* A task request, answered in one transaction, keeps the types.
LEMMA TaskRequestType ==
  ASSUME TypeOK, RunTaskRequest
  PROVE  TypeOK'
<1> DEFINE asked == <<Said("initiator", "REQUEST", request.hours, <<>>)>>
<1>1. Terms = Int /\ request' = request /\ ValidTask(request)
  BY TermsOf, RequestTypes DEF RunTaskRequest, rules, TypeOK
<1>2. Terms' = Terms
  BY <1>1, LimitsStay
<1>3. Approval' = Approval
  BY <1>2 DEF Approval
<1>4. request.hours \in Int /\ Smaller(request.hours, request.maxAccept) \in Int
  BY <1>1 DEF ValidTask, Smaller
<1>5. asked \in Seq(Row)
  <2> DEFINE m == Said("initiator", "REQUEST", request.hours, <<>>)
  <2>1. m \in Row
    BY <1>4, PlainType DEF Role
  <2> HIDE DEF m
  <2>2. <<m>> \in Seq(Row)
    BY <2>1
  <2> QED
    BY <2>2 DEF m
<1>6. /\ Append(asked, Said("responder", "ACCEPT", 0, <<>>)) \in Seq(Row)
      /\ Append(asked, Said("responder", "COUNTER", Smaller(request.hours, request.maxAccept), <<>>)) \in Seq(Row)
  <2> HIDE DEF asked
  <2>1. "responder" \in Role
    BY DEF Role
  <2> QED
    BY <1>4, <1>5, <2>1, PlainType, AppendProperties
<1>7. \/ /\ status' = "open" /\ messages' = asked
         /\ approval' = Asked("responder", request.hours) /\ stage' = "ask"
         /\ UNCHANGED agreement
      \/ /\ status' = "agreed" /\ agreement' = {request.hours}
         /\ messages' = Append(asked, Said("responder", "ACCEPT", 0, <<>>)) /\ stage' = "over"
         /\ UNCHANGED approval
      \/ /\ status' = "open" /\ stage' = "over"
         /\ messages' = Append(asked, Said("responder", "COUNTER",
                                           Smaller(request.hours, request.maxAccept), <<>>))
         /\ UNCHANGED <<agreement, approval>>
  BY DEF RunTaskRequest
<1>8. UNCHANGED <<rules, round, standing, own, candidates>> /\ loaded' = content
  BY DEF RunTaskRequest
<1> HIDE DEF asked
<1>9. messages' \in Seq(Row)
  BY <1>5, <1>6, <1>7
<1>10. approval' \in {NoApproval} \cup Approval
  <2>1. Asked("responder", request.hours) \in Approval
    BY <1>1, <1>4 DEF Asked, Approval, Role
  <2> QED
    BY <1>7, <2>1 DEF TypeOK
<1>11. agreement' \subseteq Terms
  BY <1>1, <1>4, <1>7 DEF TypeOK
<1>12. /\ status' \in {"none", "open", "waiting_approval", "agreed", "failed"}
       /\ stage' \in {"idle", "precheck", "turn", "ask", "over", "dead"}
  BY <1>7
<1> QED
  BY <1>2, <1>3, <1>8, <1>9, <1>10, <1>11, <1>12 DEF TypeOK, rules, Row

\* The start of a cost split or of a meeting keeps the types.
LEMMA StartType ==
  ASSUME TypeOK, StartCostSplit \/ StartMeeting
  PROVE  TypeOK'
<1>1. CASE StartCostSplit
  <2>1. Intent("cost.split") /\ request' = request /\ request \in Request
    BY <1>1 DEF StartCostSplit, Open, rules, TypeOK
  <2>2. Terms' = Terms /\ Approval' = Approval
    BY <2>1, LimitsStay DEF Approval
  <2>3. request.proposed \in Int /\ Opening(Policy("responder"), request.total) \in Int
    BY <2>1, CostTypes
  <2>4. messages' \in Seq(Row)
    BY <1>1, <2>3, OpenType DEF StartCostSplit
  <2>5. own' \in [Role -> Int] /\ standing' \in Int
    BY <1>1, <2>3 DEF StartCostSplit
  <2> QED
    BY <1>1, <2>2, <2>4, <2>5 DEF StartCostSplit, Open, TypeOK, rules, Row
<1>2. CASE StartMeeting
  <2>1. Intent("meeting.schedule") /\ request' = request /\ request \in Request
    BY <1>2 DEF StartMeeting, rules, TypeOK
  <2>2. Terms' = Terms /\ Approval' = Approval
    BY <2>1, LimitsStay DEF Approval
  <2>3. candidates' \in [Role -> Seq(Slot)]
    <3>1. \A role \in Role : FreeSlots(role) \in Seq(Slot)
      <4> SUFFICES ASSUME NEW role \in Role
                   PROVE  FreeSlots(role) \in Seq(Slot)
        OBVIOUS
      <4>1. FreeSlots(role) \in Seq({slot \in Slot : FitsCalendar(role, slot)})
        BY <2>1, CandidatesFit
      <4> QED
        BY <4>1
    <3> QED
      BY <1>2, <3>1 DEF StartMeeting
  <2> QED
    BY <1>2, <2>2, <2>3 DEF StartMeeting, TypeOK, rules, MaxRounds
<1> QED
  BY <1>1, <1>2

\* The owners, the end of a question and a crash keep the types.
LEMMA OthersType ==
  ASSUME TypeOK, DriverInv, request' = request,
         \/ Await
         \/ \E verdict \in {"approved", "rejected", "expired"} : Resolve(verdict)
         \/ \E role \in Role : ChangeRules(role)
         \/ Die
         \/ UNCHANGED vars
  PROVE  TypeOK'
<1>1. Terms' = Terms /\ Approval' = Approval
  BY LimitsStay DEF Approval
<1>2. messages \in Seq(Row) /\ agreement \subseteq Terms /\ approval \in {NoApproval} \cup Approval
  BY DEF TypeOK, Row
<1>3. CASE Await
  <2>1. approval \in Approval
    BY <1>2, <1>3 DEF Await, DriverInv
  <2>2. approval.decider \in Role
    BY <2>1 DEF Approval
  <2>3. messages' \in Seq(Row)
    BY <1>2, <1>3, <2>2, RowsType DEF Await
  <2> QED
    BY <1>1, <1>3, <2>3 DEF Await, TypeOK, rules, Row
<1>4. ASSUME NEW verdict \in {"approved", "rejected", "expired"}, Resolve(verdict)
      PROVE  TypeOK'
  <2>1. approval \in Approval
    BY <1>2, <1>4 DEF Resolve, NoApproval
  <2>2. approval.decider \in Role /\ approval.value \in Terms
    BY <2>1 DEF Approval
  <2>3. approval' \in Approval
    BY <1>4, <2>1 DEF Resolve, Approval
  <2>4. messages' \in Seq(Row)
    BY <1>2, <1>4, <2>2, RowsType DEF Resolve
  <2>5. agreement' \subseteq Terms
    BY <1>2, <1>4, <2>2 DEF Resolve
  <2>6. status' \in {"none", "open", "waiting_approval", "agreed", "failed"}
    BY <1>4 DEF Resolve, TypeOK
  <2>7. UNCHANGED <<rules, loaded, stage, round, standing, own, candidates>>
    BY <1>4 DEF Resolve
  <2> QED
    BY <1>1, <2>3, <2>4, <2>5, <2>6, <2>7 DEF TypeOK, rules, Row
<1>5. ASSUME NEW role \in Role, ChangeRules(role)
      PROVE  TypeOK'
  <2>1. changes' \in 0..MaxChanges
    BY <1>5, RequestsAssumption DEF ChangeRules, TypeOK
  <2>2. delegated' \in [Role -> BOOLEAN] /\ content' \in [Role -> BOOLEAN]
    BY <1>5 DEF ChangeRules, TypeOK
  <2> QED
    BY <1>1, <1>5, <2>1, <2>2 DEF ChangeRules, TypeOK
<1>6. CASE Die
  BY <1>1, <1>6 DEF Die, TypeOK, rules
<1>7. CASE UNCHANGED vars
  BY <1>1, <1>7 DEF vars, TypeOK, rules
<1> QED
  BY <1>3, <1>4, <1>5, <1>6, <1>7

\* Every step keeps the types.
LEMMA TypeStep ==
  ASSUME TypeOK, DriverInv, TableInv, [Next]_vars
  PROVE  TypeOK'
<1>1. request' = request
  BY RequestStays
<1> QED
  BY <1>1, NextKinds, CostMoveType, MeetingTurnType, TaskRequestType, StartType, OthersType

\* Rows stay as they are; those added are of some types.
Grows(types) ==
  /\ DOMAIN messages \subseteq DOMAIN messages'
  /\ \A k \in DOMAIN messages : messages'[k] = messages[k]
  /\ \A k \in DOMAIN messages' \ DOMAIN messages : messages'[k].type \in types

\* A row added at the end is the one that grows.
LEMMA AddedGrows ==
  ASSUME messages \in Seq(Row), NEW role \in Role, NEW amount \in Int,
         NEW type \in {"REQUEST", "PROPOSE", "COUNTER", "ACCEPT", "REJECT", "ERROR", "REQUEST_APPROVAL"},
         messages' = Append(messages, Said(role, type, amount, <<>>))
  PROVE  Grows({type})
<1> DEFINE m == Said(role, type, amount, <<>>)
<1>1. m \in Row /\ m.type = type
  BY PlainType DEF Said
<1> HIDE DEF m
<1>2. messages' = Append(messages, m)
  BY DEF m
<1>3. /\ Len(messages) \in Nat /\ Len(messages') = Len(messages) + 1
      /\ DOMAIN messages = 1..Len(messages) /\ DOMAIN messages' = 1..(Len(messages) + 1)
      /\ \A k \in 1..Len(messages) : messages'[k] = messages[k]
      /\ messages'[Len(messages) + 1] = m
  BY <1>1, <1>2, RowAdded
<1> QED
  BY <1>1, <1>3 DEF Grows

\* What is told of the rounds of a meeting, and that the other side's offer to
\* the one that acts is among it.
LEMMA OfferedFacts ==
  ASSUME candidates \in [Role -> Seq(Slot)], NEW last \in 1..3
  PROVE  /\ \A k \in DOMAIN Offered(last) : Offered(last)[k].type \in {"REQUEST", "PROPOSE", "COUNTER"}
         /\ \E k \in DOMAIN Offered(last) :
              /\ Offered(last)[k].type \in {"PROPOSE", "COUNTER"}
              /\ Offered(last)[k].slots = OfferTo(IF last % 2 = 1 THEN "responder" ELSE "initiator")
<1> DEFINE speaker(k) == IF k % 2 = 1 THEN "responder" ELSE "initiator"
           row(k) == Said(speaker(k), "COUNTER", 0, OfferTo(Other(speaker(k))))
           first == Said("initiator", "REQUEST", 0, <<>>)
           second == Said("initiator", "PROPOSE", 0, OfferTo("responder"))
           head == <<first, second>>
           tail == [k \in 1..last - 1 |-> row(k)]
           S == {first, second} \cup {row(k) : k \in 1..last - 1}
<1>1. Offered(last) = head \o tail
  BY DEF Offered
<1>2. /\ first.type = "REQUEST" /\ second.type = "PROPOSE" /\ second.slots = OfferTo("responder")
      /\ \A k \in 1..last - 1 : row(k).type = "COUNTER"
  BY DEF Said
<1>3. last >= 2 => row(1).slots = OfferTo("initiator")
  BY DEF Said, Other
<1> HIDE DEF row, first, second
<1>4. head \in Seq(S) /\ tail \in Seq(S) /\ Len(head) = 2 /\ Len(tail) = last - 1
  OBVIOUS
<1>5. /\ DOMAIN Offered(last) = 1..(last + 1)
      /\ \A k \in 1..(last + 1) : Offered(last)[k] = IF k <= 2 THEN head[k] ELSE tail[k - 2]
  <2>1. /\ Len(head \o tail) = last + 1
        /\ head \o tail \in Seq(S)
        /\ \A k \in 1..(last + 1) : (head \o tail)[k] = IF k <= 2 THEN head[k] ELSE tail[k - 2]
    <3> HIDE DEF head, tail, S
    <3>1. /\ head \o tail \in Seq(S) /\ Len(head \o tail) = Len(head) + Len(tail)
          /\ \A k \in 1..(Len(head) + Len(tail)) :
               (head \o tail)[k] = IF k <= Len(head) THEN head[k] ELSE tail[k - Len(head)]
      BY <1>4, ConcatProperties
    <3>2. Len(head) = 2 /\ Len(head) + Len(tail) = last + 1
      BY <1>4
    <3> QED
      BY <3>1, <3>2
  <2> QED
    BY <1>1, <2>1
<1>6. \A k \in 1..(last + 1) :
        Offered(last)[k] = IF k = 1 THEN first ELSE IF k = 2 THEN second ELSE row(k - 2)
  <2> SUFFICES ASSUME NEW k \in 1..(last + 1)
               PROVE  Offered(last)[k] = IF k = 1 THEN first ELSE IF k = 2 THEN second ELSE row(k - 2)
    OBVIOUS
  <2>1. head[1] = first /\ head[2] = second
    OBVIOUS
  <2>2. k > 2 => k - 2 \in 1..last - 1
    OBVIOUS
  <2>3. k > 2 => tail[k - 2] = row(k - 2)
    BY <2>2
  <2>4. k = 1 \/ k = 2 \/ k > 2
    OBVIOUS
  <2> HIDE DEF head, tail
  <2> QED
    BY <1>5, <2>1, <2>3, <2>4
<1>7. \A k \in 1..(last + 1) : Offered(last)[k].type \in {"REQUEST", "PROPOSE", "COUNTER"}
  BY <1>2, <1>6
<1>8. CASE last % 2 = 1
  <2>1. 2 \in 1..(last + 1) /\ Offered(last)[2] = second
    BY <1>6
  <2> QED
    BY <1>2, <1>5, <1>7, <1>8, <2>1
<1>9. CASE last % 2 # 1
  <2>1. last = 2
    BY <1>9
  <2>2. 3 \in 1..(last + 1) /\ Offered(last)[3] = row(1)
    BY <1>6, <2>1
  <2> QED
    BY <1>2, <1>3, <1>5, <1>7, <1>9, <2>1, <2>2
<1> QED
  BY <1>8, <1>9

\* Telling the rounds keeps the rows and adds what was offered.
LEMMA ToldRows ==
  ASSUME messages \in Seq(Row), candidates \in [Role -> Seq(Slot)], round \in 1..3
  PROVE  LET told == messages \o Offered(round)
         IN  /\ told \in Seq(Row)
             /\ DOMAIN messages \subseteq DOMAIN told
             /\ \A k \in DOMAIN messages : told[k] = messages[k]
             /\ \A k \in DOMAIN told \ DOMAIN messages : told[k].type \in {"REQUEST", "PROPOSE", "COUNTER"}
             /\ \E k \in DOMAIN told : /\ told[k].type \in {"PROPOSE", "COUNTER"}
                                      /\ told[k].slots = OfferTo(Acting)
<1> DEFINE o == Offered(round)
           told == messages \o o
<1>1. o \in Seq(Row)
  BY OfferedType
<1>2. /\ \A k \in DOMAIN o : o[k].type \in {"REQUEST", "PROPOSE", "COUNTER"}
      /\ \E k \in DOMAIN o : /\ o[k].type \in {"PROPOSE", "COUNTER"}
                            /\ o[k].slots = OfferTo(Acting)
  BY OfferedFacts DEF Acting
<1> HIDE DEF o
<1>3. /\ told \in Seq(Row) /\ Len(told) = Len(messages) + Len(o)
      /\ \A k \in 1..(Len(messages) + Len(o)) :
           told[k] = IF k <= Len(messages) THEN messages[k] ELSE o[k - Len(messages)]
  BY <1>1, ConcatProperties
<1>4. /\ DOMAIN messages = 1..Len(messages) /\ DOMAIN o = 1..Len(o) /\ DOMAIN told = 1..Len(told)
      /\ Len(messages) \in Nat /\ Len(o) \in Nat
  BY <1>1, <1>3
<1> HIDE DEF told
<1>5. \A k \in DOMAIN told \ DOMAIN messages : told[k] = o[k - Len(messages)] /\ k - Len(messages) \in DOMAIN o
  BY <1>3, <1>4
<1>6. \A k \in DOMAIN o : told[k + Len(messages)] = o[k] /\ k + Len(messages) \in DOMAIN told
  BY <1>3, <1>4
<1>7. DOMAIN messages \subseteq DOMAIN told /\ \A k \in DOMAIN messages : told[k] = messages[k]
  BY <1>3, <1>4
<1> QED
  BY <1>2, <1>3, <1>5, <1>6, <1>7 DEF told, o

\* A question is a pending approval with its decider and its value.
LEMMA AskedFacts ==
  ASSUME NEW decider, NEW value
  PROVE  /\ Asked(decider, value) # NoApproval
         /\ Asked(decider, value).decider = decider /\ Asked(decider, value).value = value
         /\ Asked(decider, value).status = "pending"
<1>1. Asked(decider, value).status = "pending" /\ NoApproval.status = "none"
  BY DEF Asked, NoApproval
<1>2. Asked(decider, value) # NoApproval
  BY <1>1
<1> QED
  BY <1>1, <1>2 DEF Asked

\* A move in a cost split keeps the driver's invariant.
LEMMA CostMoveDriver ==
  ASSUME TypeOK, DriverInv, CostMove
  PROVE  DriverInv'
<1>1. /\ messages \in Seq(Row) /\ round \in 0..3 /\ stage \in {"precheck", "turn"}
      /\ status = "open" /\ approval = NoApproval /\ Intent("cost.split")
      /\ agreement = {} /\ \A k \in DOMAIN messages : messages[k].type # "ACCEPT"
      /\ (stage = "turn" => round # 0)
  BY DEF TypeOK, Row, DriverInv, CostMove, MaxRounds
<1>2. CASE PassPrecheck
  <2>1. messages' = messages /\ agreement' = agreement /\ status' = status
        /\ approval' = approval /\ stage' = "turn" /\ round' = 1
    BY <1>2 DEF PassPrecheck
  <2> QED
    BY <1>1, <2>1 DEF DriverInv
<1>3. CASE Ask(Other(Opposite), standing)
  <2>1. /\ messages' = messages /\ agreement' = agreement /\ status' = status
        /\ approval' = Asked(Other(Opposite), standing) /\ stage' = "ask"
    BY <1>3 DEF Ask
  <2>2. approval' # NoApproval
    BY <2>1, AskedFacts
  <2> QED
    BY <1>1, <2>1, <2>2 DEF DriverInv, NoApproval
<1>4. CASE Agree(Acting, standing)
  BY <1>4 DEF Agree, DriverInv
<1>5. ASSUME NEW role \in Role, Fail(role, "REJECT")
      PROVE  DriverInv'
  <2>1. Grows({"REJECT"})
    BY <1>1, <1>5, AddedGrows DEF Fail
  <2>2. \A k \in DOMAIN messages' : messages'[k].type # "ACCEPT"
    BY <1>1, <2>1 DEF Grows
  <2> QED
    BY <1>1, <1>5, <2>2 DEF Fail, DriverInv
<1>6. ASSUME NEW amount \in Int, FairCounter(amount)
      PROVE  DriverInv'
  <2>1. Grows({"COUNTER"})
    BY <1>1, <1>6, Sides, AddedGrows DEF FairCounter, OfferCounter
  <2>2. \A k \in DOMAIN messages' : messages'[k].type # "ACCEPT"
    BY <1>1, <2>1 DEF Grows
  <2>3. stage = "turn" /\ round' # 0
    BY <1>1, <1>6 DEF FairCounter, OfferCounter
  <2>4. stage' = stage /\ status' = status /\ approval' = approval /\ agreement' = agreement
    BY <1>6 DEF FairCounter, OfferCounter
  <2> QED
    BY <1>1, <2>2, <2>3, <2>4 DEF DriverInv
<1> QED
  BY <1>2, <1>3, <1>4, <1>5, <1>6 DEF CostMove

\* A turn of a meeting keeps it.
LEMMA MeetingTurnDriver ==
  ASSUME TypeOK, DriverInv, MeetingTurn
  PROVE  DriverInv'
<1> DEFINE told == messages \o Offered(round)
           slot == Head(CommonSlots(Acting))
<1>1. /\ messages \in Seq(Row) /\ round \in 1..3 /\ stage = "turn" /\ status = "open"
      /\ approval = NoApproval /\ agreement = {} /\ candidates \in [Role -> Seq(Slot)]
      /\ \A k \in DOMAIN messages : messages[k].type # "ACCEPT"
  BY DEF TypeOK, Row, DriverInv, MeetingTurn, MaxRounds
<1>2. \/ /\ approval' = Asked(Acting, slot) /\ messages' = told /\ stage' = "ask"
         /\ UNCHANGED <<status, agreement>>
      \/ status' = "agreed" /\ stage' = "over"
      \/ /\ status' = "failed" /\ stage' = "over"
         /\ messages' = Append(told, Said(Acting, "ERROR", 0, <<>>))
         /\ UNCHANGED <<agreement, approval>>
      \/ /\ round' = round + 1
         /\ UNCHANGED <<status, messages, agreement, approval, stage>>
  BY DEF MeetingTurn
<1>3. told \in Seq(Row) /\ \A k \in DOMAIN told : told[k].type # "ACCEPT"
  BY <1>1, ToldRows
<1> HIDE DEF told, slot
<1>4. CASE approval' = Asked(Acting, slot) /\ messages' = told /\ stage' = "ask" /\ UNCHANGED <<status, agreement>>
  <2>1. approval' # NoApproval
    BY <1>4, AskedFacts
  <2> QED
    BY <1>1, <1>3, <1>4, <2>1 DEF DriverInv, NoApproval
<1>5. CASE status' = "agreed" /\ stage' = "over"
  BY <1>5 DEF DriverInv
<1>6. CASE /\ status' = "failed" /\ stage' = "over"
           /\ messages' = Append(told, Said(Acting, "ERROR", 0, <<>>))
           /\ UNCHANGED <<agreement, approval>>
  <2> DEFINE m == Said(Acting, "ERROR", 0, <<>>)
  <2>1. m \in Row /\ m.type = "ERROR"
    <3>1. m \in Row
      BY Sides, PlainType
    <3> QED
      BY <3>1 DEF Said
  <2> HIDE DEF m
  <2>2. \A k \in DOMAIN Append(told, m) : Append(told, m)[k].type # "ACCEPT"
    <3>1. /\ Len(told) \in Nat /\ DOMAIN told = 1..Len(told)
          /\ DOMAIN Append(told, m) = 1..(Len(told) + 1)
          /\ \A k \in 1..Len(told) : Append(told, m)[k] = told[k]
          /\ Append(told, m)[Len(told) + 1] = m
      BY <1>3, <2>1, AppendProperties
    <3> QED
      BY <1>3, <2>1, <3>1
  <2>3. messages' = Append(told, m)
    BY <1>6 DEF m
  <2> QED
    BY <1>1, <1>6, <2>2, <2>3 DEF DriverInv
<1>7. CASE round' = round + 1 /\ UNCHANGED <<status, messages, agreement, approval, stage>>
  <2>1. round' # 0
    BY <1>1, <1>7
  <2> QED
    BY <1>1, <1>7, <2>1 DEF DriverInv
<1> QED
  BY <1>2, <1>4, <1>5, <1>6, <1>7

\* The start of a negotiation keeps it.
LEMMA StartDriver ==
  ASSUME TypeOK, DriverInv, Start
  PROVE  DriverInv'
<1>1. /\ stage = "idle" /\ messages = <<>> /\ agreement = {} /\ approval = NoApproval
      /\ request' = request
  BY DEF Start, StartCostSplit, Open, StartMeeting, RunTaskRequest, DriverInv, rules
<1>2. CASE StartCostSplit
  <2>1. messages' = <<Said("initiator", "REQUEST", request.proposed, <<>>)>>
    BY <1>2 DEF StartCostSplit, Open
  <2>2. \A k \in DOMAIN messages' : messages'[k].type # "ACCEPT"
    BY <2>1 DEF Said
  <2>3. /\ stage' = "precheck" /\ status' = "open" /\ agreement' = agreement /\ approval' = approval
        /\ Intent("cost.split")'
    BY <1>1, <1>2, LimitsStay DEF StartCostSplit, Open
  <2> QED
    BY <1>1, <2>2, <2>3 DEF DriverInv, NoApproval
<1>3. CASE StartMeeting
  <2>1. /\ stage' = "turn" /\ status' = "open" /\ agreement' = agreement /\ approval' = approval
        /\ messages' = messages /\ round' = 1
    BY <1>3 DEF StartMeeting
  <2> QED
    BY <1>1, <2>1 DEF DriverInv, NoApproval
<1>4. CASE RunTaskRequest
  <2> DEFINE m == Said("initiator", "REQUEST", request.hours, <<>>)
             n == Said("responder", "COUNTER", Smaller(request.hours, request.maxAccept), <<>>)
  <2>1. \/ /\ status' = "open" /\ messages' = <<m>> /\ agreement' = agreement
           /\ approval' = Asked("responder", request.hours) /\ stage' = "ask"
        \/ status' = "agreed" /\ stage' = "over"
        \/ /\ status' = "open" /\ stage' = "over" /\ agreement' = agreement
           /\ messages' = Append(<<m>>, n)
    BY <1>4 DEF RunTaskRequest
  <2>2. m.type = "REQUEST" /\ n.type = "COUNTER"
    BY DEF Said
  <2> HIDE DEF m, n
  <2>3. \A k \in DOMAIN Append(<<m>>, n) : Append(<<m>>, n)[k] \in {m, n}
    <3>1. <<m>> \in Seq({m, n})
      OBVIOUS
    <3>2. Append(<<m>>, n) \in Seq({m, n})
      BY <3>1, AppendProperties
    <3> QED
      BY <3>2
  <2>4. messages' = <<m>> \/ messages' = Append(<<m>>, n) =>
          \A k \in DOMAIN messages' : messages'[k].type # "ACCEPT"
    BY <2>2, <2>3
  <2>5. Asked("responder", request.hours) # NoApproval
    BY AskedFacts
  <2> QED
    BY <1>1, <2>1, <2>4, <2>5 DEF DriverInv, NoApproval
<1> QED
  BY <1>2, <1>3, <1>4 DEF Start

\* So do the owners, the end of a question and a crash.
LEMMA OthersDriver ==
  ASSUME TypeOK, DriverInv, request' = request,
         \/ Await
         \/ \E verdict \in {"approved", "rejected", "expired"} : Resolve(verdict)
         \/ \E role \in Role : ChangeRules(role)
         \/ Die
         \/ UNCHANGED vars
  PROVE  DriverInv'
<1>1. messages \in Seq(Row) /\ approval \in {NoApproval} \cup Approval
  BY DEF TypeOK, Row
<1>2. Intent("cost.split")' = Intent("cost.split")
  BY LimitsStay
<1>3. CASE Await
  <2>1. approval \in Approval /\ approval.decider \in Role
    BY <1>1, <1>3 DEF Await, DriverInv, Approval
  <2>2. Grows({"REQUEST_APPROVAL"})
    BY <1>1, <1>3, <2>1, AddedGrows DEF Await
  <2>3. agreement = {} /\ \A k \in DOMAIN messages : messages[k].type # "ACCEPT"
    BY <1>3 DEF Await, DriverInv
  <2>4. \A k \in DOMAIN messages' : messages'[k].type # "ACCEPT"
    BY <2>2, <2>3 DEF Grows
  <2>5. approval # NoApproval
    BY <1>3 DEF Await, DriverInv
  <2> QED
    BY <1>3, <2>3, <2>4, <2>5 DEF Await, DriverInv, NoApproval
<1>4. ASSUME NEW verdict \in {"approved", "rejected", "expired"}, Resolve(verdict)
      PROVE  DriverInv'
  <2>1. approval # NoApproval /\ approval \in Approval
    BY <1>1, <1>4 DEF Resolve, NoApproval
  <2>2. approval' # NoApproval
    <3>1. approval'.status = verdict
      BY <1>4, <2>1 DEF Resolve, Approval
    <3> QED
      BY <3>1 DEF NoApproval
  <2>3. stage' = stage /\ round' = round /\ stage \notin {"idle", "precheck", "turn"}
    BY <1>4, <2>1 DEF Resolve, DriverInv
  <2>4. CASE status # "waiting_approval"
    <3>1. UNCHANGED <<status, agreement, messages>>
      BY <1>4, <2>4 DEF Resolve
    <3> QED
      BY <2>2, <2>3, <3>1 DEF DriverInv, NoApproval
  <2>5. CASE status = "waiting_approval" /\ verdict = "approved"
    <3>1. status' = "agreed"
      BY <1>4, <2>5 DEF Resolve
    <3>2. stage # "ask"
      BY <2>5 DEF DriverInv
    <3> QED
      BY <2>2, <2>3, <3>1, <3>2 DEF DriverInv, NoApproval
  <2>6. CASE status = "waiting_approval" /\ verdict # "approved"
    <3>1. /\ status' = "failed" /\ agreement' = agreement
          /\ messages' = Append(messages, Said(approval.decider, "REJECT", 0, <<>>))
      BY <1>4, <2>6 DEF Resolve
    <3>2. approval.decider \in Role
      BY <2>1 DEF Approval
    <3>3. Grows({"REJECT"})
      BY <1>1, <3>1, <3>2, AddedGrows
    <3>4. agreement = {} /\ \A k \in DOMAIN messages : messages[k].type # "ACCEPT"
      BY <2>6 DEF DriverInv
    <3>5. \A k \in DOMAIN messages' : messages'[k].type # "ACCEPT"
      BY <3>3, <3>4 DEF Grows
    <3>6. stage # "ask"
      BY <2>6 DEF DriverInv
    <3> QED
      BY <2>2, <2>3, <3>1, <3>4, <3>5, <3>6 DEF DriverInv, NoApproval
  <2> QED
    BY <2>4, <2>5, <2>6
<1>5. ASSUME NEW role \in Role, ChangeRules(role)
      PROVE  DriverInv'
  BY <1>2, <1>5 DEF ChangeRules, DriverInv, NoApproval
<1>6. CASE Die
  BY <1>6 DEF Die, DriverInv, NoApproval
<1>7. CASE UNCHANGED vars
  BY <1>2, <1>7 DEF vars, rules, DriverInv, NoApproval
<1> QED
  BY <1>3, <1>4, <1>5, <1>6, <1>7

\* Every step keeps the driver's invariant.
LEMMA DriverStep ==
  ASSUME TypeOK, DriverInv, TableInv, [Next]_vars
  PROVE  DriverInv'
<1>1. request' = request
  BY RequestStays
<1> QED
  BY <1>1, NextKinds, CostMoveDriver, MeetingTurnDriver, StartDriver, OthersDriver DEF Start

--------------------------------------------------------------------------------
(* The limits of a cost split *)

Answers == {"ACCEPT", "REJECT", "ERROR", "REQUEST_APPROVAL"}

\* Nothing is agreed or asked, and the offers stay or are over.
Still ==
  /\ Grows(Answers) /\ \A k \in DOMAIN messages' \ DOMAIN messages : messages'[k].type # "ACCEPT"
  /\ UNCHANGED <<agreement, approval>>
  /\ stage' \notin {"precheck", "turn"} \/ UNCHANGED <<stage, round, standing, own>>

\* A verdict of an owner changes the approval and answers with a row at most.
LEMMA ResolveRows ==
  ASSUME TypeOK, NEW verdict \in {"approved", "rejected", "expired"}, Resolve(verdict)
  PROVE  /\ Grows(Answers)
         /\ approval \in Approval /\ approval # NoApproval
         /\ approval' # NoApproval /\ approval'.status # "none"
         /\ approval'.decider = approval.decider /\ approval'.value = approval.value
<1>1. messages \in Seq(Row) /\ approval \in Approval /\ approval # NoApproval
  BY DEF TypeOK, Row, Resolve, NoApproval
<1>2. /\ approval'.status = verdict
      /\ approval'.decider = approval.decider /\ approval'.value = approval.value
  BY <1>1 DEF Resolve, Approval
<1>3. approval' # NoApproval /\ approval'.status # "none"
  <2>1. approval'.status # "none"
    BY <1>2
  <2> QED
    BY <2>1 DEF NoApproval
<1>4. approval.decider \in Role
  BY <1>1 DEF Approval
<1>5. \/ messages' = messages
      \/ messages' = Append(messages, Said(approval.decider, "ACCEPT", 0, <<>>))
      \/ messages' = Append(messages, Said(approval.decider, "REJECT", 0, <<>>))
  BY DEF Resolve
<1>6. messages' = messages \/ Grows({"ACCEPT"}) \/ Grows({"REJECT"})
  BY <1>1, <1>4, <1>5, AddedGrows
<1>7. Grows(Answers)
  BY <1>6 DEF Grows, Answers
<1> QED
  BY <1>1, <1>2, <1>3, <1>7

\* The kinds of steps while a cost split is negotiated.
LEMMA CostSplitKinds ==
  ASSUME TypeOK, DriverInv, TableInv, [Next]_vars, Intent("cost.split")
  PROVE  \/ StartCostSplit
         \/ CostMove /\ PassPrecheck
         \/ CostMove /\ Ask(Other(Opposite), standing)
         \/ CostMove /\ stage = "turn" /\ Agree(Acting, standing) /\ Least <= standing /\ standing <= Ceiling
         \/ CostMove /\ \E amount \in Int : FairCounter(amount)
         \/ \E verdict \in {"approved", "rejected", "expired"} : Resolve(verdict)
         \/ Still
<1>1. messages \in Seq(Row) /\ approval \in {NoApproval} \cup Approval
  BY DEF TypeOK, Row
<1>2. ~StartMeeting /\ ~MeetingTurn /\ ~RunTaskRequest
  BY DEF StartMeeting, MeetingTurn, RunTaskRequest, Intent
<1>3. ASSUME NEW role \in Role, Fail(role, "REJECT")
      PROVE  Still
  <2>1. Grows({"REJECT"})
    BY <1>1, <1>3, AddedGrows DEF Fail
  <2>2. Grows(Answers)
    BY <2>1 DEF Grows, Answers
  <2> QED
    BY <1>3, <2>1, <2>2 DEF Fail, Still, Grows
<1>4. Await => Still
  <2> SUFFICES ASSUME Await
               PROVE  Still
    OBVIOUS
  <2>1. approval.decider \in Role
    BY <1>1 DEF Await, DriverInv, Approval
  <2>2. Grows({"REQUEST_APPROVAL"})
    BY <1>1, <2>1, AddedGrows DEF Await
  <2>3. Grows(Answers)
    BY <2>2 DEF Grows, Answers
  <2> QED
    BY <2>2, <2>3 DEF Await, Still, Grows
<1>5. ASSUME NEW role \in Role, ChangeRules(role)
      PROVE  Still
  BY <1>5 DEF ChangeRules, Still, Grows
<1>6. Die => Still
  BY DEF Die, Still, Grows
<1>7. UNCHANGED vars => Still
  BY DEF vars, Still, Grows
<1>8. CostMove => \/ PassPrecheck
                  \/ Ask(Other(Opposite), standing)
                  \/ stage = "turn" /\ Agree(Acting, standing) /\ Least <= standing /\ standing <= Ceiling
                  \/ \E amount \in Int : FairCounter(amount)
                  \/ Still
  BY <1>3 DEF CostMove
<1> QED
  BY <1>2, <1>4, <1>5, <1>6, <1>7, <1>8, NextKinds

\* An answer is no offer: the offers stay the same rows.
LEMMA AnswersKeep ==
  ASSUME Grows(Answers)
  PROVE  /\ \A k \in DOMAIN messages : k \in DOMAIN messages' /\ messages'[k] = messages[k]
         /\ By("initiator", "REQUEST")' = By("initiator", "REQUEST")
         /\ By("initiator", "COUNTER")' = By("initiator", "COUNTER")
         /\ By("responder", "COUNTER")' = By("responder", "COUNTER")
         /\ Demands' = Demands
<1>1. /\ By("initiator", "REQUEST")' = By("initiator", "REQUEST")
      /\ By("initiator", "COUNTER")' = By("initiator", "COUNTER")
      /\ By("responder", "COUNTER")' = By("responder", "COUNTER")
  BY DEF Grows, Answers, By
<1> QED
  BY <1>1 DEF Grows, Demands

\* A COUNTER is added to the offers of the side that sends it.
LEMMA CounterRows ==
  ASSUME TypeOK, NEW amount \in Int, FairCounter(amount)
  PROVE  /\ Len(messages) \in Nat
         /\ DOMAIN messages = 1..Len(messages) /\ DOMAIN messages' = 1..(Len(messages) + 1)
         /\ \A k \in 1..Len(messages) : messages'[k] = messages[k]
         /\ messages'[Len(messages) + 1].amount = amount
         /\ messages'[Len(messages) + 1].from = Acting
         /\ messages'[Len(messages) + 1].type = "COUNTER"
<1> DEFINE m == Said(Acting, "COUNTER", amount, <<>>)
<1>1. m \in Row /\ m.amount = amount /\ m.from = Acting /\ m.type = "COUNTER"
  <2>1. m \in Row
    BY Sides, PlainType
  <2> QED
    BY <2>1 DEF Said
<1>2. messages' = Append(messages, m)
  BY DEF FairCounter, OfferCounter
<1>3. messages \in Seq(Row)
  BY DEF TypeOK, Row
<1> HIDE DEF m
<1> QED
  BY <1>1, <1>2, <1>3, RowAdded

\* A COUNTER moves the table to the other side.
LEMMA CounterTable ==
  ASSUME TypeOK, DriverInv, TableInv, Intent("cost.split"), NEW amount \in Int, FairCounter(amount)
  PROVE  /\ own[Opposite] = standing /\ Opposite = Other(Acting)
         /\ own' = [own EXCEPT ![Acting] = amount] /\ standing' = amount
         /\ stage' = "turn" /\ Opposite' = Acting
<1>1. stage = "turn" /\ stage' = stage /\ round' = round + 1 /\ round \in 0..3
  BY DEF FairCounter, OfferCounter, TypeOK, MaxRounds
<1>2. Opposite = Other(Acting) /\ own[Opposite] = standing
  BY <1>1 DEF Opposite, TableInv
<1>3. Opposite' = Acting
  <2>1. Opposite' = Other(IF round' % 2 = 1 THEN "responder" ELSE "initiator")
    BY <1>1 DEF Opposite, Acting
  <2>2. round' % 2 = 1 <=> ~(round % 2 = 1)
    BY <1>1
  <2> QED
    BY <2>1, <2>2 DEF Other, Acting
<1> QED
  BY <1>1, <1>2, <1>3 DEF FairCounter, OfferCounter

\* The first amount on the table is what the owner of the initiator proposed.
LEMMA TableStart ==
  ASSUME TypeOK, DriverInv, StartCostSplit
  PROVE  TableInv'
<1> DEFINE m == Said("initiator", "REQUEST", request.proposed, <<>>)
<1>1. Intent("cost.split") /\ request \in Request /\ request' = request
  BY DEF StartCostSplit, Open, rules, TypeOK
<1>2. /\ messages' = <<m>> /\ stage' = "precheck" /\ standing' = request.proposed
      /\ own'["initiator"] = request.proposed
      /\ own'["responder"] = Opening(Policy("responder"), request.total)
  BY DEF StartCostSplit, Open, Role
<1>3. m.from = "initiator" /\ m.type = "REQUEST" /\ m.amount = request.proposed
  BY DEF Said
<1>4. Ceiling' = Ceiling /\ Least' = Least
  BY <1>1, LimitsStay
<1>5. /\ request.proposed \in Int /\ Least <= request.proposed
      /\ Opening(Policy("responder"), request.total) <= Ceiling
  BY <1>1, CostTypes
<1> HIDE DEF m
<1>6. DOMAIN messages' = {1} /\ messages'[1] = m
  BY <1>2
<1>7. Opposite' = "initiator"
  BY <1>2 DEF Opposite
<1>8. standing' = own'[Opposite'] /\ OnTable(Opposite, standing)'
  BY <1>2, <1>3, <1>6, <1>7 DEF OnTable
<1>9. \A k \in Demands' : own'["initiator"] <= messages'[k].amount
  BY <1>2, <1>3, <1>5, <1>6 DEF Demands, By
<1>10. \A k \in By("responder", "COUNTER")' : messages'[k].amount <= own'["responder"]
  BY <1>3, <1>6 DEF By
<1> QED
  BY <1>2, <1>4, <1>5, <1>8, <1>9, <1>10 DEF TableInv

\* Every row carries an amount.
LEMMA AmountType ==
  ASSUME messages \in Seq(Row)
  PROVE  \A k \in DOMAIN messages : messages[k].amount \in Int
<1>1. \A k \in DOMAIN messages : messages[k] \in Row
  OBVIOUS
<1>2. \A m \in Row : m.amount \in Int
  BY DEF Row
<1> QED
  BY <1>1, <1>2

\* A COUNTER keeps the order of the offers.
LEMMA TableCounter ==
  ASSUME TypeOK, DriverInv, TableInv, Intent("cost.split"), NEW amount \in Int, FairCounter(amount)
  PROVE  TableInv'
<1>1. own \in [Role -> Int] /\ request \in Request /\ standing \in Int /\ messages \in Seq(Row)
  BY DEF TypeOK, Row
<1>2. request' = request
  BY DEF FairCounter, OfferCounter, rules
<1>3. Ceiling' = Ceiling /\ Least' = Least /\ Ceiling \in Int /\ Least \in Int
  BY <1>1, <1>2, LimitsStay, CostTypes
<1>4. /\ own[Opposite] = standing /\ Opposite = Other(Acting)
      /\ own' = [own EXCEPT ![Acting] = amount] /\ standing' = amount
      /\ stage' = "turn" /\ Opposite' = Acting
  BY CounterTable
<1>5. /\ Len(messages) \in Nat
      /\ DOMAIN messages = 1..Len(messages) /\ DOMAIN messages' = 1..(Len(messages) + 1)
      /\ \A k \in 1..Len(messages) : messages'[k] = messages[k]
      /\ messages'[Len(messages) + 1].amount = amount
      /\ messages'[Len(messages) + 1].from = Acting
      /\ messages'[Len(messages) + 1].type = "COUNTER"
  BY CounterRows
<1>6. /\ Least <= own["initiator"] /\ own["responder"] <= Ceiling
      /\ \A k \in Demands : own["initiator"] <= messages[k].amount
      /\ \A k \in By("responder", "COUNTER") : messages[k].amount <= own["responder"]
  BY DEF TableInv, FairCounter
<1>7. standing' = own'[Opposite'] /\ OnTable(Opposite, standing)'
  <2>1. standing' = own'[Opposite']
    BY <1>1, <1>4, Sides
  <2>2. Len(messages) + 1 \in DOMAIN messages'
    BY <1>5
  <2> QED
    BY <1>4, <1>5, <2>1, <2>2 DEF OnTable
<1>8. \A k \in DOMAIN messages : messages[k].amount \in Int
  BY <1>1, AmountType
<1>9. own["initiator"] \in Int /\ own["responder"] \in Int
  BY <1>1 DEF Role
<1>10. CASE Acting = "responder"
  <2>1. own'["initiator"] = own["initiator"] /\ own'["responder"] = amount
    BY <1>1, <1>4, <1>10 DEF Role
  <2>2. own["responder"] <= amount /\ amount <= Ceiling
    BY <1>10 DEF FairCounter
  <2>3. Demands' = Demands
    BY <1>5, <1>10 DEF Demands, By
  <2>4. By("responder", "COUNTER")' = By("responder", "COUNTER") \cup {Len(messages) + 1}
    BY <1>5, <1>10 DEF By
  <2>5. \A k \in Demands' : own'["initiator"] <= messages'[k].amount
    BY <1>5, <1>6, <2>1, <2>3 DEF Demands, By
  <2>6. \A k \in By("responder", "COUNTER")' : messages'[k].amount <= own'["responder"]
    <3>1. \A k \in By("responder", "COUNTER") : messages'[k].amount = messages[k].amount /\ k \in DOMAIN messages
      BY <1>5 DEF By
    <3>2. \A k \in By("responder", "COUNTER") : messages'[k].amount <= amount
      BY <1>6, <1>8, <1>9, <2>2, <3>1
    <3> QED
      BY <1>5, <2>1, <2>4, <3>2
  <2> QED
    BY <1>3, <1>6, <1>7, <2>1, <2>2, <2>5, <2>6 DEF TableInv
<1>11. CASE Acting = "initiator"
  <2>1. own'["initiator"] = amount /\ own'["responder"] = own["responder"]
    BY <1>1, <1>4, <1>11 DEF Role
  <2>2. amount <= own["initiator"] /\ Least <= amount
    BY <1>11 DEF FairCounter
  <2>3. By("responder", "COUNTER")' = By("responder", "COUNTER")
    BY <1>5, <1>11 DEF By
  <2>4. Demands' = Demands \cup {Len(messages) + 1}
    BY <1>5, <1>11 DEF Demands, By
  <2>5. \A k \in Demands' : own'["initiator"] <= messages'[k].amount
    <3>1. \A k \in Demands : messages'[k].amount = messages[k].amount /\ k \in DOMAIN messages
      BY <1>5 DEF Demands, By
    <3>2. \A k \in Demands : amount <= messages'[k].amount
      BY <1>6, <1>8, <1>9, <2>2, <3>1
    <3> QED
      BY <1>5, <2>1, <2>4, <3>2
  <2>6. \A k \in By("responder", "COUNTER")' : messages'[k].amount <= own'["responder"]
    BY <1>5, <1>6, <2>1, <2>3 DEF By
  <2> QED
    BY <1>3, <1>6, <1>7, <2>1, <2>2, <2>5, <2>6 DEF TableInv
<1> QED
  BY <1>10, <1>11, Sides DEF Role

\* Every step keeps the amounts on the table in order.
LEMMA TableStep ==
  ASSUME TypeOK, DriverInv, TableInv, [Next]_vars
  PROVE  TableInv'
<1>1. request' = request
  BY RequestStays
<1>2. Intent("cost.split")' = Intent("cost.split") /\ Ceiling' = Ceiling /\ Least' = Least
  BY <1>1, LimitsStay
<1>3. CASE ~Intent("cost.split")
  BY <1>2, <1>3 DEF TableInv
<1>4. CASE Intent("cost.split")
  <2>1. CASE CostMove /\ PassPrecheck
    <3>1. /\ stage = "precheck" /\ stage' = "turn" /\ round' = 1
          /\ messages' = messages /\ standing' = standing /\ own' = own
      BY <2>1 DEF PassPrecheck
    <3>2. Opposite' = Opposite
      BY <3>1 DEF Opposite, Acting, Other
    <3>3. /\ standing = own[Opposite] /\ OnTable(Opposite, standing)
          /\ Least <= own["initiator"] /\ own["responder"] <= Ceiling
          /\ \A k \in Demands : own["initiator"] <= messages[k].amount
          /\ \A k \in By("responder", "COUNTER") : messages[k].amount <= own["responder"]
      BY <1>4, <3>1 DEF TableInv
    <3>4. OnTable(Opposite, standing)'
      BY <3>1, <3>2, <3>3 DEF OnTable
    <3>5. Demands' = Demands /\ By("responder", "COUNTER")' = By("responder", "COUNTER")
      BY <3>1 DEF Demands, By
    <3> QED
      BY <1>2, <3>1, <3>2, <3>3, <3>4, <3>5 DEF TableInv
  <2>2. CASE CostMove /\ (Ask(Other(Opposite), standing) \/ Agree(Acting, standing))
    BY <2>2 DEF Ask, Agree, TableInv
  <2>3. ASSUME NEW verdict \in {"approved", "rejected", "expired"}, Resolve(verdict)
        PROVE  TableInv'
    <3>1. approval # NoApproval
      BY <2>3, ResolveRows
    <3>2. stage' = stage /\ stage \notin {"precheck", "turn"}
      BY <2>3, <3>1 DEF Resolve, DriverInv
    <3> QED
      BY <3>2 DEF TableInv
  <2>4. CASE Still
    <3>1. CASE stage' \notin {"precheck", "turn"}
      BY <3>1 DEF TableInv
    <3>2. CASE stage' \in {"precheck", "turn"}
      <4>1. stage' = stage /\ round' = round /\ standing' = standing /\ own' = own
        BY <2>4, <3>2 DEF Still
      <4>2. Opposite' = Opposite
        BY <4>1 DEF Opposite, Acting
      <4>3. /\ standing = own[Opposite] /\ OnTable(Opposite, standing)
            /\ Least <= own["initiator"] /\ own["responder"] <= Ceiling
            /\ \A k \in Demands : own["initiator"] <= messages[k].amount
            /\ \A k \in By("responder", "COUNTER") : messages[k].amount <= own["responder"]
        BY <1>4, <3>2, <4>1 DEF TableInv
      <4>4. /\ \A k \in DOMAIN messages : k \in DOMAIN messages' /\ messages'[k] = messages[k]
            /\ By("responder", "COUNTER")' = By("responder", "COUNTER") /\ Demands' = Demands
        BY <2>4, AnswersKeep DEF Still
      <4>5. OnTable(Opposite, standing)'
        BY <4>1, <4>2, <4>3, <4>4 DEF OnTable
      <4>6. /\ \A k \in Demands : messages'[k] = messages[k]
            /\ \A k \in By("responder", "COUNTER") : messages'[k] = messages[k]
        BY <4>4 DEF Demands, By
      <4> QED
        BY <1>2, <4>1, <4>2, <4>3, <4>4, <4>5, <4>6 DEF TableInv
    <3> QED
      BY <3>1, <3>2
  <2> QED
    BY <1>4, <2>1, <2>2, <2>3, <2>4, CostSplitKinds, TableStart, TableCounter
<1> QED
  BY <1>3, <1>4

\* Every step keeps what an owner is asked about on the table.
LEMMA AskedStep ==
  ASSUME TypeOK, DriverInv, TableInv, AskedInv, [Next]_vars
  PROVE  AskedInv'
<1>1. request' = request
  BY RequestStays
<1>2. Intent("cost.split")' = Intent("cost.split")
  BY <1>1, LimitsStay
<1>3. CASE ~Intent("cost.split")
  BY <1>2, <1>3 DEF AskedInv
<1>4. CASE Intent("cost.split")
  <2>1. CASE StartCostSplit \/ (CostMove /\ \E amount \in Int : FairCounter(amount))
    <3>1. approval = NoApproval /\ approval' = approval
      BY <2>1 DEF StartCostSplit, Open, CostMove, FairCounter, OfferCounter, DriverInv
    <3> QED
      BY <3>1 DEF AskedInv, NoApproval
  <2>2. CASE CostMove /\ (PassPrecheck \/ Agree(Acting, standing))
    <3>1. approval = NoApproval /\ approval' = approval
      BY <2>2 DEF CostMove, PassPrecheck, Agree, DriverInv
    <3> QED
      BY <3>1 DEF AskedInv, NoApproval
  <2>3. CASE CostMove /\ Ask(Other(Opposite), standing)
    <3>1. messages' = messages /\ approval' = Asked(Other(Opposite), standing)
      BY <2>3 DEF Ask
    <3>2. approval'.decider = Other(Opposite) /\ approval'.value = standing
      BY <3>1, AskedFacts
    <3>3. Opposite \in Role
      BY Sides DEF Opposite, Role
    <3>4. Other(approval'.decider) = Opposite
      BY <3>2, <3>3, Sides
    <3>5. OnTable(Opposite, standing)
      BY <1>4, <2>3 DEF CostMove, TableInv
    <3> QED
      BY <3>1, <3>2, <3>4, <3>5 DEF AskedInv, OnTable, Other
  <2>4. ASSUME NEW verdict \in {"approved", "rejected", "expired"}, Resolve(verdict)
        PROVE  AskedInv'
    <3>1. /\ Grows(Answers) /\ approval # NoApproval
          /\ approval'.decider = approval.decider /\ approval'.value = approval.value
      BY <2>4, ResolveRows
    <3>2. OnTable(Other(approval.decider), approval.value)
      BY <1>4, <3>1 DEF AskedInv
    <3> QED
      BY <3>1, <3>2 DEF AskedInv, OnTable, Grows, Other
  <2>5. CASE Still
    <3>1. Grows(Answers) /\ approval' = approval
      BY <2>5 DEF Still
    <3> QED
      BY <1>4, <3>1 DEF AskedInv, OnTable, Grows, Other, NoApproval
  <2> QED
    BY <1>4, <2>1, <2>2, <2>3, <2>4, <2>5, CostSplitKinds
<1> QED
  BY <1>3, <1>4

\* What answers with a row and agrees to nothing new keeps the limits.
LEMMA ReservationAnswers ==
  ASSUME request' = request, Intent("cost.split"), ReservationKept, Grows(Answers),
         approval'.status = "none" =>
           \A share \in agreement' : (approval.status = "none" /\ share \in agreement)
                                     \/ (Least <= share /\ share <= Ceiling)
  PROVE  ReservationKept'
<1>1. Intent("cost.split")' = Intent("cost.split") /\ Ceiling' = Ceiling /\ Least' = Least
  BY LimitsStay
<1>2. /\ \A k \in By("responder", "COUNTER")' : messages'[k].amount <= Ceiling
      /\ \A k \in By("initiator", "COUNTER")' : messages'[k].amount >= Least
  <2>1. /\ \A k \in By("responder", "COUNTER") : messages[k].amount <= Ceiling
        /\ \A k \in By("initiator", "COUNTER") : messages[k].amount >= Least
    BY DEF ReservationKept
  <2>2. /\ By("initiator", "COUNTER")' = By("initiator", "COUNTER")
        /\ By("responder", "COUNTER")' = By("responder", "COUNTER")
        /\ \A k \in DOMAIN messages : messages'[k] = messages[k]
    BY AnswersKeep
  <2>3. /\ \A k \in By("responder", "COUNTER") : messages'[k] = messages[k]
        /\ \A k \in By("initiator", "COUNTER") : messages'[k] = messages[k]
    BY <2>2 DEF By
  <2> QED
    BY <2>1, <2>2, <2>3
<1>3. approval'.status = "none" => \A share \in agreement' : Least <= share /\ share <= Ceiling
  BY DEF ReservationKept
<1> QED
  BY <1>1, <1>2, <1>3 DEF ReservationKept

\* Every step keeps the limits of the two owners.
LEMMA ReservationStep ==
  ASSUME TypeOK, DriverInv, TableInv, ReservationKept, [Next]_vars
  PROVE  ReservationKept'
<1>1. request' = request
  BY RequestStays
<1>2. Intent("cost.split")' = Intent("cost.split") /\ Ceiling' = Ceiling /\ Least' = Least
  BY <1>1, LimitsStay
<1>3. CASE ~Intent("cost.split")
  BY <1>2, <1>3 DEF ReservationKept
<1>4. CASE Intent("cost.split")
  <2>1. CASE StartCostSplit
    <3>1. /\ messages' = <<Said("initiator", "REQUEST", request.proposed, <<>>)>>
          /\ agreement' = agreement /\ agreement = {}
      BY <2>1 DEF StartCostSplit, Open, DriverInv
    <3>2. By("responder", "COUNTER")' = {} /\ By("initiator", "COUNTER")' = {}
      BY <3>1 DEF By, Said
    <3> QED
      BY <3>1, <3>2 DEF ReservationKept
  <2>2. CASE CostMove /\ PassPrecheck
    <3>1. Grows(Answers) /\ agreement' = agreement /\ approval' = approval
      BY <2>2 DEF PassPrecheck, Grows
    <3> QED
      BY <1>1, <1>4, <3>1, ReservationAnswers
  <2>3. CASE CostMove /\ Ask(Other(Opposite), standing)
    <3>1. Grows(Answers) /\ approval' = Asked(Other(Opposite), standing)
      BY <2>3 DEF Ask, Grows
    <3>2. approval'.status # "none"
      BY <3>1, AskedFacts
    <3> QED
      BY <1>1, <1>4, <3>1, <3>2, ReservationAnswers
  <2>4. CASE CostMove /\ stage = "turn" /\ Agree(Acting, standing) /\ Least <= standing /\ standing <= Ceiling
    <3>1. agreement' = {standing}
      BY <2>4 DEF Agree, CostMove, DriverInv
    <3>2. Grows({"ACCEPT"})
      BY <2>4, Sides, AddedGrows DEF Agree, TypeOK, Row
    <3>3. Grows(Answers)
      BY <3>2 DEF Grows, Answers
    <3> QED
      BY <1>1, <1>4, <2>4, <3>1, <3>3, ReservationAnswers
  <2>5. ASSUME NEW amount \in Int, FairCounter(amount)
        PROVE  ReservationKept'
    <3>1. /\ DOMAIN messages = 1..Len(messages) /\ DOMAIN messages' = 1..(Len(messages) + 1)
          /\ \A k \in 1..Len(messages) : messages'[k] = messages[k]
          /\ messages'[Len(messages) + 1].amount = amount
          /\ messages'[Len(messages) + 1].from = Acting
          /\ messages'[Len(messages) + 1].type = "COUNTER"
          /\ Len(messages) \in Nat
      BY <2>5, CounterRows
    <3>2. /\ Acting = "responder" => amount <= Ceiling
          /\ Acting = "initiator" => Least <= amount
      BY <2>5 DEF FairCounter
    <3>3. /\ \A k \in By("responder", "COUNTER")' :
               k \in By("responder", "COUNTER") \/ (k = Len(messages) + 1 /\ Acting = "responder")
          /\ \A k \in By("initiator", "COUNTER")' :
               k \in By("initiator", "COUNTER") \/ (k = Len(messages) + 1 /\ Acting = "initiator")
      BY <3>1 DEF By
    <3>4. /\ \A k \in By("responder", "COUNTER") : messages'[k] = messages[k] /\ messages[k].amount <= Ceiling
          /\ \A k \in By("initiator", "COUNTER") : messages'[k] = messages[k] /\ messages[k].amount >= Least
      BY <1>4, <3>1 DEF ReservationKept, By
    <3>5. \A k \in By("responder", "COUNTER")' : messages'[k].amount <= Ceiling
      BY <3>1, <3>2, <3>3, <3>4
    <3>6. amount \in Int /\ Least \in Int
      BY <1>4, CostTypes DEF TypeOK
    <3>7. \A k \in By("initiator", "COUNTER")' : messages'[k].amount >= Least
      BY <3>1, <3>2, <3>3, <3>4, <3>6
    <3>8. agreement' = agreement /\ agreement = {}
      BY <2>5 DEF FairCounter, OfferCounter, DriverInv
    <3> QED
      BY <1>2, <3>5, <3>7, <3>8 DEF ReservationKept
  <2>6. ASSUME NEW verdict \in {"approved", "rejected", "expired"}, Resolve(verdict)
        PROVE  ReservationKept'
    <3>1. Grows(Answers) /\ approval'.status # "none"
      BY <2>6, ResolveRows
    <3> QED
      BY <1>1, <1>4, <3>1, ReservationAnswers
  <2>7. CASE Still
    <3>1. Grows(Answers) /\ agreement' = agreement /\ approval' = approval
      BY <2>7 DEF Still
    <3> QED
      BY <1>1, <1>4, <3>1, ReservationAnswers
  <2> QED
    BY <1>4, <2>1, <2>2, <2>3, <2>4, <2>5, <2>6, <2>7, CostSplitKinds
<1> QED
  BY <1>3, <1>4

\* Every step keeps the offers moving towards each other.
LEMMA OffersStep ==
  ASSUME TypeOK, DriverInv, TableInv, OffersConverge, [Next]_vars
  PROVE  OffersConverge'
<1> DEFINE offers == By("responder", "COUNTER")
<1>1. request' = request
  BY RequestStays
<1>2. Intent("cost.split")' = Intent("cost.split")
  BY <1>1, LimitsStay
<1>3. CASE ~Intent("cost.split")
  BY <1>2, <1>3 DEF OffersConverge
<1>4. ASSUME Intent("cost.split"), Grows(Answers)
      PROVE  OffersConverge'
  <2>1. /\ \A j, k \in offers : j < k => messages[j].amount <= messages[k].amount
        /\ \A j, k \in Demands : j < k => messages[j].amount >= messages[k].amount
        /\ \A j \in Demands, k \in offers : messages[k].amount <= messages[j].amount
    BY <1>4 DEF OffersConverge, Demands
  <2>2. offers' = offers /\ Demands' = Demands /\ \A k \in DOMAIN messages : messages'[k] = messages[k]
    BY <1>4, AnswersKeep
  <2>3. \A k \in offers \cup Demands : messages'[k] = messages[k]
    BY <2>2 DEF By, Demands
  <2>4. /\ \A j, k \in offers' : j < k => messages'[j].amount <= messages'[k].amount
        /\ \A j, k \in Demands' : j < k => messages'[j].amount >= messages'[k].amount
        /\ \A j \in Demands', k \in offers' : messages'[k].amount <= messages'[j].amount
    BY <2>1, <2>2, <2>3
  <2> QED
    BY <2>4 DEF OffersConverge, Demands
<1>5. CASE Intent("cost.split")
  <2>1. CASE StartCostSplit
    <3> DEFINE m == Said("initiator", "REQUEST", request.proposed, <<>>)
    <3>1. messages' = <<m>> /\ m.from = "initiator"
      BY <2>1 DEF StartCostSplit, Open, Said
    <3> HIDE DEF m
    <3>2. DOMAIN messages' = {1} /\ messages'[1].from = "initiator"
      BY <3>1
    <3>3. offers' = {} /\ Demands' \subseteq {1}
      BY <3>2 DEF By, Demands
    <3> QED
      BY <3>3 DEF OffersConverge, Demands
  <2>2. CASE CostMove /\ PassPrecheck
    <3>1. Grows(Answers)
      BY <2>2 DEF PassPrecheck, Grows
    <3> QED
      BY <1>4, <1>5, <3>1
  <2>3. CASE CostMove /\ Ask(Other(Opposite), standing)
    <3>1. Grows(Answers)
      BY <2>3 DEF Ask, Grows
    <3> QED
      BY <1>4, <1>5, <3>1
  <2>4. CASE CostMove /\ Agree(Acting, standing)
    <3>1. Grows({"ACCEPT"})
      BY <2>4, Sides, AddedGrows DEF Agree, TypeOK, Row
    <3>2. Grows(Answers)
      BY <3>1 DEF Grows, Answers
    <3> QED
      BY <1>4, <1>5, <3>2
  <2>5. ASSUME NEW amount \in Int, FairCounter(amount)
        PROVE  OffersConverge'
    <3> DEFINE n == Len(messages) + 1
    <3>1. /\ DOMAIN messages = 1..Len(messages) /\ DOMAIN messages' = 1..n
          /\ \A k \in 1..Len(messages) : messages'[k] = messages[k]
          /\ messages'[n].amount = amount /\ messages'[n].from = Acting /\ messages'[n].type = "COUNTER"
          /\ Len(messages) \in Nat
      BY <2>5, CounterRows
    <3>2. /\ \A j, k \in offers : j < k => messages[j].amount <= messages[k].amount
          /\ \A j, k \in Demands : j < k => messages[j].amount >= messages[k].amount
          /\ \A j \in Demands, k \in offers : messages[k].amount <= messages[j].amount
      BY <1>5 DEF OffersConverge, Demands
    <3>3. /\ \A k \in Demands : own["initiator"] <= messages[k].amount
          /\ \A k \in offers : messages[k].amount <= own["responder"]
      BY <1>5, <2>5 DEF TableInv, FairCounter
    <3>4. \A k \in offers \cup Demands :
            /\ k \in 1..Len(messages) /\ messages'[k] = messages[k] /\ messages[k].amount \in Int
      BY <3>1, AmountType DEF By, Demands, TypeOK, Row
    <3>5. own["initiator"] \in Int /\ own["responder"] \in Int
      BY DEF TypeOK, Role
    <3>6. own[Other(Acting)] = standing
      BY <1>5, <2>5, CounterTable
    <3>7. n \in Int /\ \A k \in offers \cup Demands : k < n /\ ~(n < k)
      BY <3>1, <3>4
    <3>8. CASE Acting = "responder"
      <4>1. own["responder"] <= amount /\ amount <= own["initiator"]
        BY <2>5, <3>6, <3>8 DEF FairCounter, Other
      <4>2. offers' \subseteq offers \cup {n} /\ Demands' = Demands
        BY <3>1, <3>8 DEF By, Demands
      <4>3. /\ \A k \in offers : messages[k].amount <= amount
            /\ \A k \in Demands : amount <= messages[k].amount
        BY <3>3, <3>4, <3>5, <4>1
      <4>4. \A j, k \in offers' : j < k => messages'[j].amount <= messages'[k].amount
        BY <3>1, <3>2, <3>4, <3>7, <4>2, <4>3
      <4>5. \A j, k \in Demands' : j < k => messages'[j].amount >= messages'[k].amount
        BY <3>2, <3>4, <4>2
      <4>6. \A j \in Demands', k \in offers' : messages'[k].amount <= messages'[j].amount
        BY <3>1, <3>2, <3>4, <4>2, <4>3
      <4> QED
        BY <4>4, <4>5, <4>6 DEF OffersConverge, Demands
    <3>9. CASE Acting = "initiator"
      <4>1. own["responder"] <= amount /\ amount <= own["initiator"]
        BY <2>5, <3>6, <3>9 DEF FairCounter, Other
      <4>2. offers' = offers /\ Demands' \subseteq Demands \cup {n}
        BY <3>1, <3>9 DEF By, Demands
      <4>3. /\ \A k \in offers : messages[k].amount <= amount
            /\ \A k \in Demands : amount <= messages[k].amount
        BY <3>3, <3>4, <3>5, <4>1
      <4>4. \A j, k \in offers' : j < k => messages'[j].amount <= messages'[k].amount
        BY <3>2, <3>4, <4>2
      <4>5. \A j, k \in Demands' : j < k => messages'[j].amount >= messages'[k].amount
        BY <3>1, <3>2, <3>4, <3>7, <4>2, <4>3
      <4>6. \A j \in Demands', k \in offers' : messages'[k].amount <= messages'[j].amount
        BY <3>1, <3>2, <3>4, <4>2, <4>3
      <4> QED
        BY <4>4, <4>5, <4>6 DEF OffersConverge, Demands
    <3> QED
      BY <3>8, <3>9, Sides DEF Role
  <2>6. ASSUME NEW verdict \in {"approved", "rejected", "expired"}, Resolve(verdict)
        PROVE  OffersConverge'
    BY <1>4, <1>5, <2>6, ResolveRows
  <2>7. CASE Still
    BY <1>4, <1>5, <2>7 DEF Still
  <2> QED
    BY <1>5, <2>1, <2>2, <2>3, <2>4, <2>5, <2>6, <2>7, CostSplitKinds
<1> QED
  BY <1>3, <1>5

\* What is agreed in a cost split was on the table of the other side before.
LEMMA AgreedStep ==
  ASSUME TypeOK, DriverInv, TableInv, AskedInv, AgreedWasOffered, [Next]_vars
  PROVE  AgreedWasOffered'
<1>1. request' = request
  BY RequestStays
<1>2. Intent("cost.split")' = Intent("cost.split")
  BY <1>1, LimitsStay
<1>3. messages \in Seq(Row) /\ DOMAIN messages = 1..Len(messages) /\ Len(messages) \in Nat
  BY DEF TypeOK, Row
<1>4. CASE ~Intent("cost.split")
  BY <1>2, <1>4 DEF AgreedWasOffered
<1>5. ASSUME agreement' = {}
      PROVE  AgreedWasOffered'
  BY <1>5 DEF AgreedWasOffered
<1>6. ASSUME Intent("cost.split"), agreement' = agreement, Grows(Answers),
             \A k \in DOMAIN messages' \ DOMAIN messages : messages'[k].type # "ACCEPT"
      PROVE  AgreedWasOffered'
  <2> SUFFICES ASSUME NEW share \in agreement', NEW k \in DOMAIN messages', messages'[k].type = "ACCEPT"
               PROVE  \E j \in 1..k - 1 : /\ messages'[j].from = Other(messages'[k].from)
                                          /\ messages'[j].type \in {"REQUEST", "COUNTER"}
                                          /\ messages'[j].amount = share
    BY DEF AgreedWasOffered, Other
  <2>1. k \in DOMAIN messages /\ messages'[k] = messages[k] /\ share \in agreement
    BY <1>6 DEF Grows
  <2>2. PICK j \in 1..k - 1 : /\ messages[j].from = Other(messages[k].from)
                              /\ messages[j].type \in {"REQUEST", "COUNTER"}
                              /\ messages[j].amount = share
    BY <1>6, <2>1 DEF AgreedWasOffered
  <2>3. j \in DOMAIN messages
    BY <1>3, <2>1
  <2>4. messages'[j] = messages[j]
    BY <1>6, <2>3 DEF Grows
  <2> QED
    BY <2>1, <2>2, <2>4
<1>7. ASSUME NEW role \in Role, NEW value, agreement' = {value}, OnTable(Other(role), value),
             messages' = Append(messages, Said(role, "ACCEPT", 0, <<>>)),
             \A k \in DOMAIN messages : messages[k].type # "ACCEPT"
      PROVE  AgreedWasOffered'
  <2> DEFINE m == Said(role, "ACCEPT", 0, <<>>)
             n == Len(messages) + 1
  <2>1. m \in Row /\ m.from = role
    <3>1. m \in Row
      BY PlainType
    <3> QED
      BY <3>1 DEF Said
  <2> HIDE DEF m
  <2>2. messages' = Append(messages, m)
    BY <1>7 DEF m
  <2>3. /\ DOMAIN messages' = 1..n /\ messages'[n] = m
        /\ \A k \in 1..Len(messages) : messages'[k] = messages[k]
    BY <1>3, <2>1, <2>2, RowAdded
  <2>4. PICK j \in DOMAIN messages : /\ messages[j].from = Other(role) /\ messages[j].amount = value
                                     /\ messages[j].type \in {"REQUEST", "COUNTER"}
    BY <1>7 DEF OnTable
  <2>5. j \in 1..n - 1 /\ messages'[j] = messages[j]
    BY <1>3, <2>3
  <2>6. \A k \in DOMAIN messages' : messages'[k].type = "ACCEPT" => k = n
    BY <1>3, <1>7, <2>3
  <2>7. \A k \in {i \in DOMAIN messages' : messages'[i].type = "ACCEPT"} :
          \E i \in 1..k - 1 : /\ messages'[i].from = Other(messages'[k].from)
                              /\ messages'[i].type \in {"REQUEST", "COUNTER"}
                              /\ messages'[i].amount = value
    BY <2>1, <2>3, <2>4, <2>5, <2>6
  <2> QED
    BY <1>7, <2>7 DEF AgreedWasOffered, Other
<1>8. CASE Intent("cost.split")
  <2>1. CASE StartCostSplit
    BY <1>5, <2>1 DEF StartCostSplit, Open, DriverInv
  <2>2. CASE CostMove /\ (PassPrecheck \/ Ask(Other(Opposite), standing) \/ \E amount \in Int : FairCounter(amount))
    <3>1. agreement' = agreement /\ agreement = {}
      BY <2>2 DEF CostMove, PassPrecheck, Ask, FairCounter, OfferCounter, DriverInv
    <3> QED
      BY <1>5, <3>1
  <2>3. CASE CostMove /\ stage = "turn" /\ Agree(Acting, standing)
    <3>1. agreement = {} /\ \A k \in DOMAIN messages : messages[k].type # "ACCEPT"
      BY <2>3 DEF CostMove, DriverInv
    <3>2. OnTable(Other(Acting), standing)
      BY <1>8, <2>3 DEF TableInv, Opposite
    <3>3. agreement' = {standing} /\ messages' = Append(messages, Said(Acting, "ACCEPT", 0, <<>>))
      BY <2>3, <3>1 DEF Agree
    <3> QED
      BY <1>7, <3>1, <3>2, <3>3, Sides
  <2>4. ASSUME NEW verdict \in {"approved", "rejected", "expired"}, Resolve(verdict)
        PROVE  AgreedWasOffered'
    <3>1. /\ Grows(Answers) /\ approval \in Approval /\ approval # NoApproval
      BY <2>4, ResolveRows
    <3>2. approval.decider \in Role
      BY <3>1 DEF Approval
    <3>3. CASE status # "waiting_approval"
      <4>1. agreement' = agreement /\ messages' = messages
        BY <2>4, <3>3 DEF Resolve
      <4> QED
        BY <1>6, <1>8, <3>1, <4>1
    <3>4. CASE status = "waiting_approval"
      <4>1. agreement = {} /\ \A k \in DOMAIN messages : messages[k].type # "ACCEPT"
        BY <3>4 DEF DriverInv
      <4>2. OnTable(Other(approval.decider), approval.value)
        BY <1>8, <3>1 DEF AskedInv
      <4>3. \/ agreement' = {}
            \/ /\ agreement' = {approval.value}
               /\ messages' = Append(messages, Said(approval.decider, "ACCEPT", 0, <<>>))
        BY <2>4, <3>4, <4>1 DEF Resolve
      <4> QED
        BY <1>5, <1>7, <3>2, <4>1, <4>2, <4>3
    <3> QED
      BY <3>3, <3>4
  <2>5. CASE Still
    BY <1>6, <1>8, <2>5 DEF Still
  <2> QED
    BY <1>8, <2>1, <2>2, <2>3, <2>4, <2>5, CostSplitKinds
<1> QED
  BY <1>4, <1>8

--------------------------------------------------------------------------------
(* The calendars of a meeting *)

\* The kinds of steps while a meeting is negotiated.
LEMMA MeetingKinds ==
  ASSUME TypeOK, DriverInv, TableInv, [Next]_vars, Intent("meeting.schedule")
  PROVE  \/ StartMeeting
         \/ candidates' = candidates /\ MeetingTurn
         \/ candidates' = candidates /\ \E verdict \in {"approved", "rejected", "expired"} : Resolve(verdict)
         \/ candidates' = candidates /\ Grows(Answers) /\ UNCHANGED <<agreement, approval>>
<1>1. messages \in Seq(Row) /\ approval \in {NoApproval} \cup Approval
  BY DEF TypeOK, Row
<1>2. ~StartCostSplit /\ ~CostMove /\ ~RunTaskRequest
  BY DEF StartCostSplit, CostMove, RunTaskRequest, Intent
<1>3. MeetingTurn => candidates' = candidates
  BY DEF MeetingTurn
<1>4. ASSUME NEW verdict \in {"approved", "rejected", "expired"}, Resolve(verdict)
      PROVE  candidates' = candidates
  BY <1>4 DEF Resolve
<1>5. Await => candidates' = candidates /\ Grows(Answers) /\ UNCHANGED <<agreement, approval>>
  <2> SUFFICES ASSUME Await
               PROVE  candidates' = candidates /\ Grows(Answers) /\ UNCHANGED <<agreement, approval>>
    OBVIOUS
  <2>1. approval.decider \in Role
    BY <1>1 DEF Await, DriverInv, Approval
  <2>2. Grows({"REQUEST_APPROVAL"})
    BY <1>1, <2>1, AddedGrows DEF Await
  <2>3. Grows(Answers)
    BY <2>2 DEF Grows, Answers
  <2> QED
    BY <2>3 DEF Await
<1>6. ASSUME NEW role \in Role, ChangeRules(role)
      PROVE  candidates' = candidates /\ Grows(Answers) /\ UNCHANGED <<agreement, approval>>
  BY <1>6 DEF ChangeRules, Grows
<1>7. Die => candidates' = candidates /\ Grows(Answers) /\ UNCHANGED <<agreement, approval>>
  BY DEF Die, Grows
<1>8. UNCHANGED vars => candidates' = candidates /\ Grows(Answers) /\ UNCHANGED <<agreement, approval>>
  BY DEF vars, Grows
<1> QED
  BY <1>2, <1>3, <1>4, <1>5, <1>6, <1>7, <1>8, NextKinds

\* The slot a side picks in its turn is free in both calendars.
LEMMA PickedFits ==
  ASSUME TypeOK, SlotInv, Intent("meeting.schedule"), CommonSlots(Acting) # <<>>
  PROVE  /\ Head(CommonSlots(Acting)) \in Slot
         /\ \A role \in Role : FitsCalendar(role, Head(CommonSlots(Acting)))
<1> DEFINE slot == Head(CommonSlots(Acting))
<1>1. candidates \in [Role -> Seq(Slot)] /\ Acting \in Role
  BY Sides DEF TypeOK
<1>2. /\ slot \in Slot
      /\ \E i \in DOMAIN candidates[Acting] : candidates[Acting][i] = slot
      /\ \E i \in DOMAIN candidates[Other(Acting)] : candidates[Other(Acting)][i] = slot
  BY <1>1, CommonHead
<1> HIDE DEF slot
<1>3. FitsCalendar(Acting, slot)
  BY <1>1, <1>2 DEF SlotInv
<1>4. FitsCalendar(Other(Acting), slot)
  BY <1>1, <1>2, Sides DEF SlotInv
<1>5. \A role \in Role : role = Acting \/ role = Other(Acting)
  BY <1>1 DEF Role, Other
<1> QED
  BY <1>2, <1>3, <1>4, <1>5 DEF slot

\* A slot offered in rows that are kept stays offered.
LEMMA OfferedStays ==
  ASSUME DOMAIN messages \subseteq DOMAIN messages', \A k \in DOMAIN messages : messages'[k] = messages[k],
         NEW slot, WasOffered(slot)
  PROVE  WasOffered(slot)'
BY DEF WasOffered


\* What is agreed or asked about in a meeting.
Chosen == agreement \cup (IF approval = NoApproval THEN {} ELSE {approval.value})

\* A turn of a meeting keeps the calendars.
LEMMA SlotTurn ==
  ASSUME TypeOK, DriverInv, SlotInv, Intent("meeting.schedule"), MeetingTurn
  PROVE  \A slot \in Chosen' : WasOffered(slot)' /\ \A role \in Role : FitsCalendar(role, slot)
<1> DEFINE told == messages \o Offered(round)
<1>1. /\ messages \in Seq(Row) /\ round \in 1..3 /\ candidates \in [Role -> Seq(Slot)]
      /\ approval = NoApproval /\ agreement = {}
  BY DEF TypeOK, Row, DriverInv, MeetingTurn, MaxRounds
<1>2. CASE CommonSlots(Acting) = <<>>
  <2>1. Chosen' = {}
    BY <1>1, <1>2 DEF MeetingTurn, Chosen, NoApproval
  <2> QED
    BY <2>1
<1>3. CASE CommonSlots(Acting) # <<>>
  <2>1. PICK slot : slot = Head(CommonSlots(Acting))
    OBVIOUS
  <2>2. \A role \in Role : FitsCalendar(role, slot)
    BY <1>3, <2>1, PickedFits
  <2>3. \E i \in DOMAIN OfferTo(Acting) : OfferTo(Acting)[i] = slot
    BY <1>1, <1>3, <2>1, Sides, CommonHead
  <2>4. /\ told \in Seq(Row)
        /\ \E k \in DOMAIN told : /\ told[k].type \in {"PROPOSE", "COUNTER"}
                                 /\ told[k].slots = OfferTo(Acting)
    BY <1>1, ToldRows
  <2>5. \/ approval' = Asked(Acting, slot) /\ messages' = told /\ agreement' = {}
        \/ /\ agreement' = {slot} /\ approval' = NoApproval
           /\ messages' = Append(told, Said(Acting, "ACCEPT", 0, <<>>))
    BY <1>1, <1>3, <2>1 DEF MeetingTurn
  <2> HIDE DEF told
  <2>6. \E k \in DOMAIN told : /\ told[k].type \in {"PROPOSE", "COUNTER"}
                              /\ \E i \in DOMAIN told[k].slots : told[k].slots[i] = slot
    BY <2>3, <2>4
  <2>7. \A m : /\ DOMAIN told \subseteq DOMAIN Append(told, m)
               /\ \A k \in DOMAIN told : Append(told, m)[k] = told[k]
    BY <2>4
  <2>8. DOMAIN told \subseteq DOMAIN messages' /\ \A k \in DOMAIN told : messages'[k] = told[k]
    BY <2>5, <2>7
  <2>9. WasOffered(slot)'
    BY <2>6, <2>8 DEF WasOffered
  <2>10. Chosen' \subseteq {slot}
    <3>1. /\ Asked(Acting, slot).value = slot
          /\ Asked(Acting, slot) # NoApproval
      BY AskedFacts
    <3> QED
      BY <2>5, <3>1 DEF Chosen, NoApproval
  <2> QED
    BY <2>2, <2>9, <2>10
<1> QED
  BY <1>2, <1>3

\* Every step keeps the calendars.
LEMMA SlotStep ==
  ASSUME TypeOK, DriverInv, TableInv, SlotInv, [Next]_vars
  PROVE  SlotInv'
<1>1. request' = request
  BY RequestStays
<1>2. /\ Intent("meeting.schedule")' = Intent("meeting.schedule")
      /\ \A role \in Role : \A slot : FitsCalendar(role, slot)' = FitsCalendar(role, slot)
  BY <1>1, LimitsStay
<1>3. CASE ~Intent("meeting.schedule")
  BY <1>2, <1>3 DEF SlotInv
<1>4. CASE Intent("meeting.schedule")
  <2>1. /\ \A role \in Role : \A i \in DOMAIN candidates[role] : FitsCalendar(role, candidates[role][i])
        /\ \A slot \in Chosen : WasOffered(slot) /\ \A role \in Role : FitsCalendar(role, slot)
    BY <1>4 DEF SlotInv, Chosen
  \* The calendars do not change, so what fits them can be read before the step.
  <2>2. SUFFICES
          /\ \A role \in Role : \A i \in DOMAIN candidates'[role] : FitsCalendar(role, candidates'[role][i])
          /\ \A slot \in Chosen' : WasOffered(slot)' /\ \A role \in Role : FitsCalendar(role, slot)
    <3>1. ASSUME NEW role \in Role, NEW slot, FitsCalendar(role, slot)
          PROVE  FitsCalendar(role, slot)'
      BY <1>1, <3>1 DEF FitsCalendar
    <3> QED
      BY <1>1, <3>1 DEF SlotInv, Chosen, FitsCalendar
  <2>3. CASE StartMeeting
    <3>1. candidates' = [role \in Role |-> FreeSlots(role)] /\ Chosen' = {}
      BY <2>3 DEF StartMeeting, Chosen, DriverInv, NoApproval
    <3>2. ASSUME NEW role \in Role, NEW i \in DOMAIN candidates'[role]
          PROVE  FitsCalendar(role, candidates'[role][i])
      <4>1. FreeSlots(role) \in Seq({slot \in Slot : FitsCalendar(role, slot)})
        BY <1>4, CandidatesFit DEF TypeOK
      <4>2. candidates'[role] = FreeSlots(role)
        BY <3>1
      <4> DEFINE fitting == {slot \in Slot : FitsCalendar(role, slot)}
                 c == FreeSlots(role)
      <4>3. c \in Seq(fitting) /\ i \in DOMAIN c
        BY <3>2, <4>1, <4>2
      <4> HIDE DEF fitting, c
      <4>4. c[i] \in fitting
        BY <4>3
      <4> QED
        BY <4>2, <4>4 DEF fitting, c
    <3> QED
      BY <3>1, <3>2
  <2>4. CASE candidates' = candidates /\ MeetingTurn
    BY <1>4, <2>1, <2>4, SlotTurn
  <2>5. ASSUME candidates' = candidates,
               NEW verdict \in {"approved", "rejected", "expired"}, Resolve(verdict)
        PROVE  /\ \A role \in Role : \A i \in DOMAIN candidates'[role] : FitsCalendar(role, candidates'[role][i])
               /\ \A slot \in Chosen' : WasOffered(slot)' /\ \A role \in Role : FitsCalendar(role, slot)
    <3>1. /\ Grows(Answers) /\ approval # NoApproval /\ approval'.value = approval.value
      BY <2>5, ResolveRows
    <3>2. agreement' \subseteq agreement \cup {approval.value}
      BY <2>5 DEF Resolve
    <3>3. Chosen' \subseteq Chosen
      BY <3>1, <3>2 DEF Chosen
    <3>4. \A slot : WasOffered(slot) => WasOffered(slot)'
      BY <3>1, OfferedStays DEF Grows
    <3> QED
      BY <2>1, <2>5, <3>3, <3>4
  <2>6. CASE candidates' = candidates /\ Grows(Answers) /\ UNCHANGED <<agreement, approval>>
    <3>1. Chosen' = Chosen
      BY <2>6 DEF Chosen, NoApproval
    <3>2. \A slot : WasOffered(slot) => WasOffered(slot)'
      BY <2>6, OfferedStays DEF Grows
    <3> QED
      BY <2>1, <2>6, <3>1, <3>2
  <2> QED
    BY <1>4, <2>3, <2>4, <2>5, <2>6, MeetingKinds
<1> QED
  BY <1>3, <1>4

--------------------------------------------------------------------------------
(* The theorems *)

\* The invariant that is inductive: the types, the driver, the table of a cost
\* split with what an owner is asked about, and the calendars of a meeting.
IInv == TypeOK /\ CostSplitInv /\ SlotInv

\* Nothing is asked, offered or agreed before a request is made.
LEMMA InitIInv == Init => IInv
<1> SUFFICES ASSUME Init
             PROVE  IInv
  OBVIOUS
<1>1. TypeOK
  BY RequestsAssumption DEF Init, TypeOK, MaxRounds
<1>2. DOMAIN messages = {}
  BY DEF Init
<1>3. DriverInv /\ TableInv /\ AskedInv /\ AgreedWasOffered
  BY DEF Init, DriverInv, TableInv, AskedInv, AgreedWasOffered, NoApproval
<1>4. ReservationKept /\ OffersConverge
  BY <1>2 DEF Init, ReservationKept, OffersConverge, By
<1>5. SlotInv
  BY DEF Init, SlotInv
<1> QED
  BY <1>1, <1>3, <1>4, <1>5 DEF IInv, CostSplitInv

\* Every step keeps the invariant.
LEMMA NextIInv == IInv /\ [Next]_vars => IInv'
BY TypeStep, DriverStep, TableStep, AskedStep, ReservationStep, OffersStep, AgreedStep, SlotStep
   DEF IInv, CostSplitInv

\* The invariant of a negotiation between two clones of a node: its session, its
\* approval and its rows move with the driver, the amount on the table is the
\* other side's last one, and candidates are free in the calendar of their side.
THEOREM NegotiationInvariant == Spec => []IInv
BY InitIInv, NextIInv, PTL DEF Spec

\* Every variable keeps its type, whatever the requests.
THEOREM TypeCorrect == Spec => []TypeOK
<1>1. IInv => TypeOK
  BY DEF IInv
<1> QED
  BY <1>1, NegotiationInvariant, PTL

\* In a cost split no clone offers or agrees beyond the limits of its owner
\* (calculate_responder_concession, calculate_initiator_concession).
THEOREM ReservationTheorem == Spec => []ReservationKept
<1>1. IInv => ReservationKept
  BY DEF IInv, CostSplitInv
<1> QED
  BY <1>1, NegotiationInvariant, PTL

\* The offers of a cost split move towards each other and never cross.
THEOREM ConvergenceTheorem == Spec => []OffersConverge
<1>1. IInv => OffersConverge
  BY DEF IInv, CostSplitInv
<1> QED
  BY <1>1, NegotiationInvariant, PTL

\* What is agreed in a cost split, by a clone or by an owner, is an amount the
\* other side has put on the table before.
THEOREM AgreedTheorem == Spec => []AgreedWasOffered
<1>1. IInv => AgreedWasOffered
  BY DEF IInv, CostSplitInv
<1> QED
  BY <1>1, NegotiationInvariant, PTL

\* A slot that is agreed is free in both calendars and was offered, for all
\* calendars and timezones (candidate_slots, intersect_slots, collect_busy).
THEOREM SlotTheorem == Spec => []SlotFreeForBoth
<1>1. IInv => SlotFreeForBoth
  BY DEF IInv, SlotInv, SlotFreeForBoth
<1> QED
  BY <1>1, NegotiationInvariant, PTL

================================================================================
