-------------------------- MODULE RateLimiterProofs --------------------------
(***************************************************************************)
(* Proofs about RateLimiter, for every throughput, batch and number of     *)
(* goroutines.  TypeOK and DebtIsQueue together are inductive; BurstBound  *)
(* needs PermitsBound besides: a token in the bucket, for which a          *)
(* publication may be let through without time going on, counts as if it   *)
(* had been.                                                               *)
(***************************************************************************)
EXTENDS RateLimiter, FiniteSetTheorems, TLAPS

IInv == TypeOK /\ DebtIsQueue

USE DEF goroutines, vars

\* The throughput is at least 1 and no more than one message a nanosecond.
LEMMA ThroughputType ==
    Second \in Nat /\ Throughput \in Nat \ {0} /\ 1 <= Throughput /\ Throughput <= Second
<1>1. Second \in Nat
  BY SMT DEF Second
<1> QED
  BY <1>1, ThroughputAssumption

\* A slot takes time, and a second touches at least Throughput slots: what
\* BurstBound says of a second is said.
LEMMA SlotsType ==
    /\ Interval \in Nat \ {0}
    /\ SlotsPerSecond \in Nat \ {0}
    /\ Throughput <= SlotsPerSecond
<1>1. Second \in Nat /\ Throughput \in Nat /\ 1 <= Throughput /\ Throughput <= Second
  BY ThroughputType
<1> DEFINE D == Interval
<1>2. D \in Int /\ Throughput * D <= Second /\ Second < Throughput * D + Throughput
  BY <1>1 DEF Interval
<1>3. 1 <= D
  BY <1>1, <1>2
<1> DEFINE N == SlotsPerSecond
<1>4. N \in Int /\ D * N <= Second + D - 1 /\ Second + D - 1 < D * N + D
  BY <1>1, <1>2, <1>3 DEF SlotsPerSecond
<1>5. Throughput <= N
  BY <1>1, <1>2, <1>3, <1>4
<1> QED
  BY <1>1, <1>2, <1>3, <1>4, <1>5

LEMMA InitIInv == Init => IInv
<1> SUFFICES ASSUME Init PROVE IInv
  OBVIOUS
<1>a. Throughput \in Nat \ {0}
  BY ThroughputType
<1> USE <1>a, SlotsType, BatchSizeAssumption, MaxPollsAssumption DEF Init, Zero
<1>1. TypeOK
  BY DEF TypeOK
<1>2. DebtIsQueue
  BY DEF DebtIsQueue
<1> QED
  BY <1>1, <1>2 DEF IInv

\* The goroutines whose sleep ends with a slot can be counted.
LEMMA EndingType == TypeOK => IsFiniteSet(Ending) /\ Cardinality(Ending) \in Nat
<1> SUFFICES ASSUME TypeOK
             PROVE  IsFiniteSet(Ending) /\ Cardinality(Ending) \in Nat
  OBVIOUS
<1>1. Ending \subseteq Groups
  BY DEF Ending, TypeOK
<1>2. IsFiniteSet(Ending)
  BY <1>1, GroupsAssumption, FS_Subset
<1> QED
  BY <1>2, FS_CardinalityType

\* Every step leaves well-typed states well-typed.
LEMMA TypeStep == TypeOK /\ [Next]_vars => TypeOK'
<1> SUFFICES ASSUME TypeOK, [Next]_vars PROVE TypeOK'
  OBVIOUS
<1>a. Throughput \in Nat \ {0}
  BY ThroughputType
<1> USE <1>a, SlotsType, BatchSizeAssumption, MaxPollsAssumption DEF TypeOK
<1>1. ASSUME NEW batch \in [Groups -> 0 .. BatchSize], Poll(batch) PROVE TypeOK'
  <2>1. \A g \in Groups : left[g] = 0
    BY <1>1 DEF Poll, PollOver
  <2>2. asleep \cup publishing = {}
    BY <2>1
  <2> QED
    BY <1>1, <2>2 DEF Poll, Burst, Zero
<1>2. ASSUME NEW g \in Groups, Reserve(g) PROVE TypeOK'
  <2>1. wait' \in [Groups -> Nat]
    BY <1>2 DEF Reserve
  <2>2. permitted' \in [1 .. SlotsPerSecond -> Nat]
    BY <1>2 DEF Reserve
  <2> QED
    BY <1>2, <2>1, <2>2 DEF Reserve
<1>3. ASSUME NEW g \in Groups, Wake(g) PROVE TypeOK'
  BY <1>3 DEF Wake
<1>4. ASSUME NEW g \in Groups, Published(g) PROVE TypeOK'
  <2>1. left' \in [Groups -> 0 .. BatchSize]
    BY SMTT(30), <1>4 DEF Published
  <2>2. \A h \in asleep \cup publishing' : left'[h] > 0
    BY <1>4 DEF Published
  <2> QED
    BY <1>4, <2>1, <2>2 DEF Published
<1>5. ASSUME Slot PROVE TypeOK'
  <2>1. permitted' \in [1 .. SlotsPerSecond -> Nat]
    <3>1. Cardinality(Ending) \in Nat
      BY EndingType
    <3> QED
      BY <3>1, <1>5 DEF Slot
  <2>2. wait' \in [Groups -> Nat]
    BY <1>5 DEF Slot
  <2>3. tokens' \in Int /\ tokens' <= Throughput
    BY <1>5 DEF Slot, Refill
  <2> QED
    BY <1>5, <2>1, <2>2, <2>3 DEF Slot
<1>6. CASE UNCHANGED vars
  BY <1>6
<1> QED
  BY <1>1, <1>2, <1>3, <1>4, <1>5, <1>6 DEF Next

\* Every step leaves the debt equal to the queue.
LEMMA DebtStep == IInv /\ [Next]_vars => DebtIsQueue'
<1> SUFFICES ASSUME IInv, [Next]_vars PROVE DebtIsQueue'
  OBVIOUS
<1>a. Throughput \in Nat \ {0}
  BY ThroughputType
<1> USE <1>a DEF IInv, TypeOK
<1>1. ASSUME NEW batch \in [Groups -> 0 .. BatchSize], Poll(batch) PROVE DebtIsQueue'
  <2>1. asleep' = {}
    BY <1>1 DEF Poll, PollOver
  <2>2. tokens' > 0
    BY <1>1 DEF Poll, Burst
  <2>3. tokens' \in Int /\ 1 .. (0 - tokens') = {}
    BY <2>2, <1>1 DEF Poll, Burst
  <2> QED
    BY <2>1, <2>3 DEF DebtIsQueue
<1>2. ASSUME NEW g \in Groups, Reserve(g) PROVE DebtIsQueue'
  <2> DEFINE w == IF tokens > 0 THEN 0 ELSE 1 - tokens
  <2>1. /\ asleep' = asleep \cup {g} /\ g \notin asleep
        /\ tokens' = tokens - 1
        /\ wait'[g] = w
        /\ \A h \in Groups \ {g} : wait'[h] = wait[h]
    BY <1>2 DEF Reserve
  <2>2. w > 0 => w = 0 - tokens'
    BY <2>1
  <2>3. \A h \in asleep : wait[h] > 0 => wait[h] <= 0 - tokens
    BY DEF DebtIsQueue
  <2>4. \A h \in asleep' : wait'[h] > 0 => wait'[h] <= 0 - tokens'
    BY <2>1, <2>2, <2>3
  <2>5. \A h, k \in asleep' : wait'[h] = wait'[k] /\ wait'[h] > 0 => h = k
    BY SMTT(30), <2>1, <2>2, <2>3 DEF DebtIsQueue
  <2>6. ASSUME NEW d \in 1 .. (0 - tokens') PROVE \E h \in asleep' : wait'[h] = d
    <3>1. CASE d = 0 - tokens'
      <4>1. w = d
        BY <3>1, <2>1
      <4> QED
        BY <4>1, <2>1
    <3>2. CASE d # 0 - tokens'
      <4>1. d \in 1 .. (0 - tokens)
        BY <3>2, <2>1
      <4>2. PICK h \in asleep : wait[h] = d
        BY <4>1 DEF DebtIsQueue
      <4> QED
        BY <4>2, <2>1
    <3> QED
      BY <3>1, <3>2
  <2> QED
    BY <2>4, <2>5, <2>6 DEF DebtIsQueue
<1>3. ASSUME NEW g \in Groups, Wake(g) PROVE DebtIsQueue'
  BY <1>3 DEF Wake, DebtIsQueue
<1>4. ASSUME NEW g \in Groups, Published(g) PROVE DebtIsQueue'
  BY <1>4 DEF Published, DebtIsQueue
<1>5. ASSUME Slot PROVE DebtIsQueue'
  <2>1. /\ asleep' = asleep /\ asleep \subseteq Groups
        /\ \A g \in asleep : wait'[g] = IF wait[g] > 0 THEN wait[g] - 1 ELSE 0
    BY <1>5 DEF Slot
  <2>2. CASE tokens >= 0
    <3>1. \A g \in asleep : wait[g] = 0
      BY <2>2 DEF DebtIsQueue
    <3>2. \A g \in asleep' : wait'[g] = 0
      BY <2>1, <3>1
    <3>3. tokens' \in Int /\ tokens' >= 0
      BY <2>2, <1>5 DEF Slot, Refill
    <3>4. 1 .. (0 - tokens') = {}
      BY <3>3, <1>5 DEF Slot, Refill
    <3> QED
      BY <3>2, <3>4 DEF DebtIsQueue
  <2>3. CASE ~(tokens >= 0)
    <3>2. tokens < Throughput /\ tokens' = tokens + 1
      BY <2>3, <1>5 DEF Slot, Refill
    <3>3. \A h \in asleep' : wait'[h] > 0 => wait'[h] <= 0 - tokens'
      BY <2>1, <3>2 DEF DebtIsQueue
    <3>a. \A h \in asleep : wait'[h] > 0 => wait[h] = wait'[h] + 1 /\ wait[h] > 0
      BY <2>1
    <3>4. ASSUME NEW h \in asleep', NEW k \in asleep', wait'[h] = wait'[k], wait'[h] > 0
          PROVE  h = k
      <4>1. h \in asleep /\ k \in asleep
        BY <2>1
      <4>2. wait[h] = wait'[h] + 1 /\ wait[k] = wait'[k] + 1 /\ wait[h] > 0
        BY <3>4, <3>a, <4>1
      <4>3. wait[h] = wait[k]
        BY <3>4, <4>2
      <4> QED
        BY <4>1, <4>2, <4>3 DEF DebtIsQueue
    <3>5. ASSUME NEW d \in 1 .. (0 - tokens') PROVE \E h \in asleep' : wait'[h] = d
      <4>1. d + 1 \in 1 .. (0 - tokens)
        BY <3>2
      <4>2. PICK h \in asleep : wait[h] = d + 1
        BY <4>1 DEF DebtIsQueue
      <4> QED
        BY SMTT(30), <4>2, <2>1
    <3> QED
      BY <3>3, <3>4, <3>5 DEF DebtIsQueue
  <2> QED
    BY <2>2, <2>3
<1>6. CASE UNCHANGED vars
  BY <1>6 DEF DebtIsQueue
<1> QED
  BY <1>1, <1>2, <1>3, <1>4, <1>5, <1>6 DEF Next

\* The limiter of processingGroupingByAggregateTypeEvents: the state is well
\* typed, and a goroutine is asleep or publishing only while it has rows left.
THEOREM TypeCorrect == Spec => []TypeOK
<1>1. IInv /\ [Next]_vars => IInv'
  BY TypeStep, DebtStep DEF IInv
<1>2. IInv => TypeOK
  BY DEF IInv
<1> QED
  BY InitIInv, <1>1, <1>2, PTL DEF Spec

\* Whatever the throughput and the number of goroutines that share a limiter,
\* rate.Wait lets no two of them that had to wait go in the same slot, and
\* nobody waits for more tokens than are owed.
THEOREM DebtSafe == Spec => []DebtIsQueue
<1>1. IInv /\ [Next]_vars => IInv'
  BY TypeStep, DebtStep DEF IInv
<1>2. IInv => DebtIsQueue
  BY DEF IInv
<1> QED
  BY InitIInv, <1>1, <1>2, PTL DEF Spec

-----------------------------------------------------------------------------
\* The publications that can be let through before time goes on.
Permits == IF tokens > 0 THEN tokens ELSE 0

PermitsBound ==
    \A i \in 1 .. SlotsPerSecond : permitted[i] + Permits <= Throughput + i - 1

\* A slot ends at most one sleep, and only while the bucket is in debt.
LEMMA SlotEnding ==
    ASSUME IInv
    PROVE  /\ Cardinality(Ending) \in Nat /\ Cardinality(Ending) <= 1
           /\ tokens >= 0 => Cardinality(Ending) = 0
<1> USE DEF IInv
<1>1. Cardinality(Ending) <= 1
  <2>1. CASE Ending = {}
    BY <2>1, FS_EmptySet
  <2>2. CASE Ending # {}
    <3>1. PICK g \in Ending : TRUE
      BY <2>2
    <3>2. Ending = {g}
      BY <3>1 DEF Ending, DebtIsQueue
    <3> QED
      BY <3>2, FS_Singleton
  <2> QED
    BY <2>1, <2>2
<1>2. ASSUME tokens >= 0 PROVE Cardinality(Ending) = 0
  <2>1. Ending = {}
    BY <1>2 DEF Ending, DebtIsQueue, TypeOK
  <2> QED
    BY <2>1, FS_EmptySet
<1> QED
  BY <1>1, <1>2, EndingType

\* The arithmetic of a slot, on numbers.
LEMMA SlotNone == \A n, q, t \in Int : n = 0 /\ q <= t => n + q <= t
OBVIOUS

LEMMA SlotFirst ==
    \A n, q, t, i \in Nat : n + q <= t /\ 1 <= i => n + q <= t + i - 1
OBVIOUS

LEMMA SlotAdds ==
    ASSUME NEW n \in Nat, NEW r \in Nat, NEW p \in Nat, NEW q \in Nat,
           NEW t \in Nat, NEW i \in Nat,
           n + q <= p + 1, r + p <= t + (i - 1) - 1
    PROVE  (n + r) + q <= t + i - 1
OBVIOUS

\* A slot yields one permit, in the bucket or for a goroutine whose sleep ends
\* with it, and not more than the bucket holds.
LEMMA SlotPermits ==
    ASSUME IInv, Slot
    PROVE  /\ Cardinality(Ending) + Permits' <= Throughput
           /\ Cardinality(Ending) + Permits' <= Permits + 1
<1>1. tokens \in Int /\ tokens <= Throughput
  BY DEF IInv, TypeOK
<1>2. Throughput \in Nat /\ 1 <= Throughput
  BY ThroughputType
<1>3. CASE tokens >= 0
  <2>1. Cardinality(Ending) = 0
    BY <1>3, SlotEnding
  <2>2. tokens' \in Int /\ tokens' >= 0 /\ tokens' <= Throughput /\ tokens' <= tokens + 1
    BY <1>1, <1>2, <1>3 DEF Slot, Refill
  <2>3. Permits' = tokens' /\ Permits = tokens
    BY <1>1, <1>3, <2>2 DEF Permits
  <2>4. Permits' <= Throughput /\ Permits' <= Permits + 1
    BY <2>2, <2>3
  <2>5. Cardinality(Ending) \in Int /\ Permits' \in Int
        /\ Throughput \in Int /\ Permits + 1 \in Int
    BY <1>1, <1>2, <2>1, <2>2, <2>3
  <2> QED
    BY <2>1, <2>4, <2>5, SlotNone
<1>4. CASE ~(tokens >= 0)
  <2>1. tokens' = tokens + 1
    BY <1>1, <1>2, <1>4 DEF Slot, Refill
  <2>2. Permits' = 0 /\ Permits = 0
    BY <1>1, <1>4, <2>1 DEF Permits
  <2>3. Cardinality(Ending) \in Nat /\ Cardinality(Ending) <= 1
    BY SlotEnding
  <2> QED
    BY <1>2, <2>2, <2>3
<1> QED
  BY <1>3, <1>4

\* Every step leaves the permits bounded.
LEMMA PermitsStep == IInv /\ TypeOK' /\ PermitsBound /\ [Next]_vars => PermitsBound'
<1> SUFFICES ASSUME IInv, TypeOK', PermitsBound, [Next]_vars PROVE PermitsBound'
  OBVIOUS
<1>a. Throughput \in Nat /\ 1 <= Throughput /\ SlotsPerSecond \in Nat
  BY ThroughputType, SlotsType
<1>b. /\ tokens \in Int /\ tokens' \in Int
      /\ Permits \in Nat /\ Permits' \in Nat
  BY DEF IInv, TypeOK, Permits
<1>c. \A i \in 1 .. SlotsPerSecond : permitted[i] \in Nat /\ i \in Nat /\ 1 <= i
  BY <1>a DEF IInv, TypeOK
<1>1. ASSUME NEW batch \in [Groups -> 0 .. BatchSize], Poll(batch) PROVE PermitsBound'
  <2>1. Permits' = Throughput
    BY <1>a, <1>1 DEF Poll, Burst, Permits
  <2>2. \A i \in 1 .. SlotsPerSecond : permitted'[i] = 0
    BY <1>1 DEF Poll, Zero
  <2> QED
    BY <1>a, <1>c, <2>1, <2>2 DEF PermitsBound
<1>2. ASSUME NEW g \in Groups, Reserve(g) PROVE PermitsBound'
  <2>1. CASE tokens > 0
    <3>1. tokens' = tokens - 1
      BY <1>2 DEF Reserve
    <3>2. Permits' = Permits - 1
      BY <1>b, <2>1, <3>1 DEF Permits
    <3>3. \A i \in 1 .. SlotsPerSecond : permitted'[i] = permitted[i] + 1
      BY <1>2, <2>1 DEF Reserve
    <3> QED
      BY <1>a, <1>b, <1>c, <3>2, <3>3 DEF PermitsBound
  <2>2. CASE ~(tokens > 0)
    <3>1. permitted' = permitted /\ tokens' = tokens - 1
      BY <1>2, <2>2 DEF Reserve
    <3>2. Permits' = 0 /\ Permits = 0
      BY <1>b, <2>2, <3>1 DEF Permits
    <3> QED
      BY <3>1, <3>2 DEF PermitsBound
  <2> QED
    BY <2>1, <2>2
<1>3. ASSUME NEW g \in Groups, Wake(g) PROVE PermitsBound'
  BY <1>3 DEF Wake, PermitsBound, Permits
<1>4. ASSUME NEW g \in Groups, Published(g) PROVE PermitsBound'
  BY <1>4 DEF Published, PermitsBound, Permits
<1>5. ASSUME Slot PROVE PermitsBound'
  <2> DEFINE n == Cardinality(Ending)
  <2>1. n \in Nat /\ n + Permits' <= Throughput /\ n + Permits' <= Permits + 1
    BY <1>5, SlotEnding, SlotPermits
  <2>2. ASSUME NEW i \in 1 .. SlotsPerSecond
        PROVE  permitted'[i] + Permits' <= Throughput + i - 1
    <3>0. permitted'[i] = n + IF i = 1 THEN 0 ELSE permitted[i - 1]
      BY <1>5 DEF Slot
    <3> HIDE DEF n
    <3>1. CASE i = 1
      <4>1. permitted'[i] = n
        BY <3>0, <3>1, <2>1
      <4>2. i \in Nat /\ 1 <= i
        BY <1>c
      <4>3. n + Permits' <= Throughput + i - 1
        BY <4>2, <2>1, <1>a, <1>b, SlotFirst
      <4> QED
        BY <4>1, <4>3
    <3>2. CASE i # 1
      <4>1. i - 1 \in 1 .. SlotsPerSecond
        BY <3>2, <1>a
      <4>2. permitted[i - 1] + Permits <= Throughput + (i - 1) - 1
        BY <4>1 DEF PermitsBound
      <4>3. permitted[i - 1] \in Nat /\ i \in Nat
        BY <4>1, <1>c
      <4>4. permitted'[i] = n + permitted[i - 1]
        BY <3>0, <3>2
      <4>5. (n + permitted[i - 1]) + Permits' <= Throughput + i - 1
        BY <4>2, <4>3, <2>1, <1>a, <1>b, SlotAdds
      <4> QED
        BY <4>4, <4>5
    <3> QED
      BY <3>1, <3>2
  <2> QED
    BY <2>2 DEF PermitsBound
<1>6. CASE UNCHANGED vars
  BY <1>6 DEF PermitsBound, Permits
<1> QED
  BY <1>1, <1>2, <1>3, <1>4, <1>5, <1>6 DEF Next

\* The limiter a poll makes lets through at most the burst and one publication
\* for each slot but the first, in any number of slots up to those of a second,
\* whatever the throughput, the number of goroutines and when they wake.
THEOREM BurstSafe == Spec => []BurstBound
<1>a. Throughput \in Nat /\ 1 <= Throughput /\ SlotsPerSecond \in Nat
  BY ThroughputType, SlotsType
<1>1. Init => PermitsBound
  <2> SUFFICES ASSUME Init PROVE PermitsBound
    OBVIOUS
  <2>1. Permits = Throughput
    BY <1>a DEF Init, Permits
  <2> QED
    BY <1>a, <2>1 DEF Init, Zero, PermitsBound
<1>2. IInv /\ PermitsBound /\ [Next]_vars => (IInv /\ PermitsBound)'
  BY TypeStep, DebtStep, PermitsStep DEF IInv
<1>3. IInv /\ PermitsBound => BurstBound
  <2> SUFFICES ASSUME IInv, PermitsBound, NEW i \in 1 .. SlotsPerSecond
               PROVE  permitted[i] <= Throughput + i - 1
    BY DEF BurstBound
  <2>1. permitted[i] \in Nat /\ i \in Nat /\ Permits \in Nat
    BY <1>a DEF IInv, TypeOK, Permits
  <2>2. permitted[i] + Permits <= Throughput + i - 1
    BY DEF PermitsBound
  <2> QED
    BY <1>a, <2>1, <2>2
<1> QED
  BY InitIInv, <1>1, <1>2, <1>3, PTL DEF Spec

=============================================================================
