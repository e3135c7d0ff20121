---------------------------- MODULE ChannelProofs ----------------------------
(***************************************************************************)
(* The running sum of SQ_Put is that of the last readings, the loops of   *)
(* Math_SquareRoot stay within 16 bits, the RMS value settles at the root *)
(* of the mean square, and the frequency difference goes where the mains  *)
(* wants it: for every length of the window, every mains and any number   *)
(* of samples.                                                             *)
(*                                                                         *)
(* The first two are statements about loops, and need induction: it comes  *)
(* from the least element of a set of numbers.  The third follows one      *)
(* estimate to the next once the window holds one amplitude.  The last     *)
(* needs to know where in its wave the mains was when the loop began to    *)
(* count.                                                                  *)
(***************************************************************************)
EXTENDS Channel, SequenceTheorems, WellFoundedInduction, TLAPS

-----------------------------------------------------------------------------
(* Induction *)

Less == {ss \in Nat \X Nat : ss[1] < ss[2]}

\* A set of numbers has a least element.
LEMMA Least ==
    ASSUME NEW T \in SUBSET Nat, T # {}
    PROVE  \E m \in T : \A k \in T : m <= k
  <1>1. IsWellFoundedOn(Less, Nat)
    BY NatLessThanWellFounded DEF OpToRel, Less
  <1>2. PICK x \in T : \A y \in T : ~ (<<y, x>> \in Less)
    BY <1>1, WFMin
  <1>3. ASSUME NEW y \in T PROVE x <= y
    <2>1. ~ (<<y, x>> \in Less) /\ x \in Nat /\ y \in Nat
      BY <1>2
    <2>2. <<y, x>> \in Nat \X Nat
      BY <2>1
    <2>3. <<y, x>>[1] = y /\ <<y, x>>[2] = x
      OBVIOUS
    <2>4. ~ (y < x)
      BY <2>1, <2>2, <2>3 DEF Less
    <2> QED BY <2>1, <2>4
  <1> QED BY <1>3

\* What holds of 0 and passes from each number to the next holds of all of them.
LEMMA Induction ==
    ASSUME NEW S, 0 \in S, \A n \in Nat : n \in S => n + 1 \in S
    PROVE  Nat \subseteq S
  <1> DEFINE T == {n \in Nat : n \notin S}
  <1> SUFFICES ASSUME T # {} PROVE FALSE
    OBVIOUS
  <1>1. PICK m \in T : \A k \in T : m <= k
    <2>1. T \in SUBSET Nat
      OBVIOUS
    <2> HIDE DEF T
    <2> QED BY <2>1, Least
  <1>2. m \in Nat /\ m \notin S /\ m # 0
    BY <1>1
  <1>3. m - 1 \in Nat /\ m - 1 \in S
    <2>1. m - 1 \in Nat /\ ~ (m <= m - 1)
      BY <1>2
    <2> QED BY <1>1, <2>1
  <1>4. (m - 1) + 1 = m
    BY <1>2
  <1> QED BY <1>2, <1>3, <1>4

-----------------------------------------------------------------------------
(* The sum of squares *)

\* The squares are numbers.
LEMMA SquaredType == \A value \in Int : Squared(value) \in Nat
  <1> SUFFICES ASSUME NEW value \in Int PROVE Squared(value) \in Nat
    OBVIOUS
  <1>1. value * value \in Nat
    OBVIOUS
  <1>2. 25 * value * value = 25 * (value * value)
    OBVIOUS
  <1>3. \A n \in Nat : (25 * n) \div 4096 \in Nat
    OBVIOUS
  <1> QED BY <1>1, <1>2, <1>3 DEF Squared

\* The sums of a sequence of readings, one reading at a time.
LEMMA SumSteps ==
    ASSUME NEW s \in Seq(Int)
    PROVE  \E sum \in [0 .. Len(s) -> Nat] :
               /\ sum[0] = 0
               /\ \A i \in 1 .. Len(s) : sum[i] = sum[i - 1] + Squared(s[i])
               /\ SumOfSquares(s) = sum[Len(s)]
  <1> DEFINE N == Len(s)
             Eq(g, m) == g = [i \in 0 .. m |-> IF i = 0 THEN 0 ELSE g[i - 1] + Squared(s[i])]
             S == {m \in Nat : m <= N => \E g : Eq(g, m)}
  <1>1. N \in Nat /\ \A i \in 1 .. N : s[i] \in Int /\ Squared(s[i]) \in Nat
    <2>1. N \in Nat /\ \A i \in 1 .. N : s[i] \in Int
      OBVIOUS
    <2> QED BY <2>1, SquaredType
  <1>2. Nat \subseteq S
    <2>1. 0 \in S
      <3>1. Eq([i \in 0 .. 0 |-> 0], 0)
        OBVIOUS
      <3> QED BY <3>1
    <2>2. ASSUME NEW n \in Nat, n \in S PROVE n + 1 \in S
      <3> SUFFICES ASSUME n + 1 <= N PROVE \E g : Eq(g, n + 1)
        OBVIOUS
      <3>1. PICK g : Eq(g, n)
        BY <1>1, <2>2
      <3> DEFINE h == [i \in 0 .. n + 1 |->
                          IF i = n + 1 THEN g[n] + Squared(s[n + 1]) ELSE g[i]]
      <3>2. \A i \in 0 .. n : h[i] = g[i]
        OBVIOUS
      <3>3. ASSUME NEW i \in 0 .. n + 1
            PROVE  h[i] = IF i = 0 THEN 0 ELSE h[i - 1] + Squared(s[i])
        <4>1. CASE i = n + 1
          <5>1. i # 0 /\ i - 1 = n /\ n \in 0 .. n
            BY <4>1
          <5> QED BY <3>2, <4>1, <5>1
        <4>2. CASE i = 0
          BY <3>1, <3>2, <4>2
        <4>3. CASE i \in 1 .. n
          <5>1. i \in 0 .. n /\ i - 1 \in 0 .. n /\ i # 0
            BY <4>3
          <5>2. g[i] = g[i - 1] + Squared(s[i])
            BY <3>1, <5>1
          <5> QED BY <3>2, <5>1, <5>2
        <4> QED BY <4>1, <4>2, <4>3
      <3>4. Eq(h, n + 1)
        BY <3>3
      <3> QED BY <3>4
    <2> HIDE DEF S
    <2> QED BY <2>1, <2>2, Induction
  <1> DEFINE sum == CHOOSE g : Eq(g, N)
  <1>3. Eq(sum, N)
    <2>1. \E g : Eq(g, N)
      BY <1>1, <1>2
    <2> QED BY <2>1
  <1>4. SumOfSquares(s) = sum[N]
    BY DEF SumOfSquares
  <1> HIDE DEF sum
  <1>5. /\ sum[0] = 0
        /\ \A i \in 1 .. N : sum[i] = sum[i - 1] + Squared(s[i])
    <2>1. \A i \in 0 .. N : sum[i] = IF i = 0 THEN 0 ELSE sum[i - 1] + Squared(s[i])
      BY <1>3
    <2>2. 0 \in 0 .. N /\ \A i \in 1 .. N : i \in 0 .. N /\ i # 0
      BY <1>1
    <2> HIDE DEF N, Eq
    <2> QED BY <2>1, <2>2
  <1>6. \A i \in 0 .. N : sum[i] \in Nat
    <2> DEFINE U == {i \in Nat : i <= N => sum[i] \in Nat}
    <2>1. 0 \in U
      BY <1>5
    <2>2. ASSUME NEW i \in Nat, i \in U PROVE i + 1 \in U
      <3> SUFFICES ASSUME i + 1 <= N PROVE sum[i + 1] \in Nat
        OBVIOUS
      <3>1. i + 1 \in 1 .. N /\ (i + 1) - 1 = i /\ sum[i] \in Nat
        BY <1>1, <2>2
      <3> QED BY <1>1, <1>5, <3>1
    <2>3. Nat \subseteq U
      <3> HIDE DEF U
      <3> QED BY <2>1, <2>2, Induction
    <2> QED BY <1>1, <2>3
  <1>7. sum \in [0 .. N -> Nat]
    BY <1>3, <1>6
  <1> QED BY <1>4, <1>5, <1>7

\* One more reading adds its square.
LEMMA SumAppend ==
    ASSUME NEW s \in Seq(Int), NEW v \in Int
    PROVE  SumOfSquares(Append(s, v)) = SumOfSquares(s) + Squared(v)
  <1> DEFINE N == Len(s)
             t == Append(s, v)
  <1>1. /\ N \in Nat /\ t \in Seq(Int) /\ Len(t) = N + 1
        /\ \A i \in 1 .. N : t[i] = s[i]
        /\ t[N + 1] = v
    OBVIOUS
  <1> HIDE DEF N, t
  <1>2. PICK a \in [0 .. N -> Nat] :
            /\ a[0] = 0
            /\ \A i \in 1 .. N : a[i] = a[i - 1] + Squared(s[i])
            /\ SumOfSquares(s) = a[N]
    BY SumSteps DEF N
  <1>3. PICK b \in [0 .. N + 1 -> Nat] :
            /\ b[0] = 0
            /\ \A i \in 1 .. N + 1 : b[i] = b[i - 1] + Squared(t[i])
            /\ SumOfSquares(t) = b[N + 1]
    BY <1>1, SumSteps
  <1>4. Nat \subseteq {i \in Nat : i <= N => a[i] = b[i]}
    <2> DEFINE U == {i \in Nat : i <= N => a[i] = b[i]}
    <2>1. 0 \in U
      BY <1>2, <1>3
    <2>2. ASSUME NEW i \in Nat, i \in U PROVE i + 1 \in U
      <3> SUFFICES ASSUME i + 1 <= N PROVE a[i + 1] = b[i + 1]
        OBVIOUS
      <3>1. /\ i + 1 \in 1 .. N /\ i + 1 \in 1 .. N + 1 /\ (i + 1) - 1 = i
            /\ a[i] = b[i]
        BY <1>1, <2>2
      <3>2. a[i + 1] = a[i] + Squared(s[i + 1])
        BY <1>2, <3>1
      <3>3. b[i + 1] = b[i] + Squared(t[i + 1])
        BY <1>3, <3>1
      <3> QED BY <1>1, <3>1, <3>2, <3>3
    <2> HIDE DEF U
    <2>3. Nat \subseteq U
      BY <2>1, <2>2, Induction
    <2> QED BY <2>3 DEF U
  <1>5. a[N] = b[N]
    BY <1>1, <1>4
  <1>6. b[N + 1] = b[N] + Squared(v)
    <2>1. N + 1 \in 1 .. N + 1 /\ (N + 1) - 1 = N
      BY <1>1
    <2>2. b[N + 1] = b[(N + 1) - 1] + Squared(t[N + 1])
      BY <1>3, <2>1
    <2> QED BY <1>1, <2>1, <2>2
  <1> QED BY <1>2, <1>3, <1>5, <1>6 DEF t

\* Without the oldest reading the sum is less by its square.
LEMMA SumTail ==
    ASSUME NEW s \in Seq(Int), Len(s) > 0
    PROVE  SumOfSquares(Tail(s)) = SumOfSquares(s) - Squared(s[1])
  <1> DEFINE N == Len(s)
             t == Tail(s)
  <1>1. /\ N \in Nat /\ N > 0 /\ t \in Seq(Int) /\ Len(t) = N - 1
        /\ \A i \in 1 .. N - 1 : t[i] = s[i + 1]
        /\ s[1] \in Int
    OBVIOUS
  <1> HIDE DEF N, t
  <1>2. PICK a \in [0 .. N -> Nat] :
            /\ a[0] = 0
            /\ \A i \in 1 .. N : a[i] = a[i - 1] + Squared(s[i])
            /\ SumOfSquares(s) = a[N]
    BY SumSteps DEF N
  <1>3. PICK b \in [0 .. N - 1 -> Nat] :
            /\ b[0] = 0
            /\ \A i \in 1 .. N - 1 : b[i] = b[i - 1] + Squared(t[i])
            /\ SumOfSquares(t) = b[N - 1]
    BY <1>1, SumSteps
  <1>4. Squared(s[1]) \in Nat
    BY <1>1, SquaredType
  <1> DEFINE first == Squared(s[1])
  <1>5. a[1] = first
    <2>1. 1 \in 1 .. N /\ 1 - 1 = 0
      BY <1>1
    <2>2. a[1] = a[1 - 1] + first
      BY <1>2, <2>1
    <2> HIDE DEF first
    <2>3. first \in Nat
      BY <1>4 DEF first
    <2> QED BY <1>2, <2>1, <2>2, <2>3
  <1>6. Nat \subseteq {i \in Nat : i <= N - 1 => a[i + 1] = b[i] + first}
    <2> DEFINE U == {i \in Nat : i <= N - 1 => a[i + 1] = b[i] + first}
    <2>1. 0 \in U
      <3>1. 0 + 1 = 1 /\ b[0] + first = first
        BY <1>3, <1>4
      <3> QED BY <1>5, <3>1
    <2>2. ASSUME NEW i \in Nat, i \in U PROVE i + 1 \in U
      <3> SUFFICES ASSUME i + 1 <= N - 1 PROVE a[(i + 1) + 1] = b[i + 1] + first
        OBVIOUS
      <3>1. /\ i + 1 \in 1 .. N - 1 /\ i + 2 \in 1 .. N /\ i \in 0 .. N - 1
            /\ (i + 1) - 1 = i /\ (i + 2) - 1 = i + 1 /\ (i + 1) + 1 = i + 2
        BY <1>1
      <3>2. a[i + 1] = b[i] + first
        BY <2>2, <3>1
      <3>3. a[i + 2] = a[i + 1] + Squared(s[i + 2])
        <4>1. a[i + 2] = a[(i + 2) - 1] + Squared(s[i + 2])
          BY <1>2, <3>1
        <4> QED BY <3>1, <4>1
      <3>4. b[i + 1] = b[i] + Squared(t[i + 1])
        <4>1. b[i + 1] = b[(i + 1) - 1] + Squared(t[i + 1])
          BY <1>3, <3>1
        <4> QED BY <3>1, <4>1
      <3>5. t[i + 1] = s[i + 2]
        <4>1. t[i + 1] = s[(i + 1) + 1]
          BY <1>1, <3>1
        <4> QED BY <3>1, <4>1
      <3>6. Squared(s[i + 2]) \in Nat
        <4>1. s[i + 2] \in Int
          BY <3>1 DEF N
        <4> QED BY <4>1, SquaredType
      <3>7. b[i] \in Nat
        BY <3>1
      <3> HIDE DEF first
      <3>8. first \in Nat
        BY <1>4 DEF first
      <3> QED BY <3>1, <3>2, <3>3, <3>4, <3>5, <3>6, <3>7, <3>8
    <2> HIDE DEF U
    <2>3. Nat \subseteq U
      BY <2>1, <2>2, Induction
    <2> QED BY <2>3 DEF U
  <1>7. a[N] = b[N - 1] + first
    <2>1. N - 1 \in Nat /\ N - 1 <= N - 1 /\ (N - 1) + 1 = N
      BY <1>1
    <2>2. a[(N - 1) + 1] = b[N - 1] + first
      BY <1>6, <2>1
    <2> QED BY <2>1, <2>2
  <1>8. b[N - 1] \in Nat
    BY <1>1
  <1> HIDE DEF first
  <1>9. first \in Nat
    BY <1>4 DEF first
  <1>10. SumOfSquares(t) = SumOfSquares(s) - first
    BY <1>2, <1>3, <1>7, <1>8, <1>9
  <1> QED BY <1>10 DEF t, first

-----------------------------------------------------------------------------
(* The window *)

Queues == [firstTime : BOOLEAN, oldest : Slots, newest : Slots, data : [Slots -> Nat],
           sum : Nat, nb : 0 .. ARRAY_SIZE]

\* The slot of the i-th oldest reading.
SlotOf(oldest, i) ==
    IF oldest + i <= ARRAY_SIZE THEN oldest + i - 1 ELSE (oldest + i - 1) - ARRAY_SIZE

\* The window holds the squares of these readings, and their sum.
Holds(queue, readings) ==
    /\ queue \in Queues
    /\ readings \in Seq(Int) /\ queue.nb = Len(readings)
    /\ queue.nb < ARRAY_SIZE => queue.oldest = 0 /\ queue.newest = queue.nb
    /\ \A i \in 1 .. queue.nb : queue.data[SlotOf(queue.oldest, i)] = Squared(readings[i])
    /\ queue.sum = SumOfSquares(readings)

\* The readings after one more.
Newer(readings, value) ==
    Append(IF Len(readings) < ARRAY_SIZE THEN readings ELSE Tail(readings), value)

LEMMA FollowingSlot ==
    ASSUME NEW slot \in Slots
    PROVE  /\ Following(slot) \in Slots
           /\ Following(slot) = IF slot + 1 = ARRAY_SIZE THEN 0 ELSE slot + 1
  <1>1. ARRAY_SIZE \in Nat \ {0}
    BY SamplingAssumption
  <1>2. slot \in Nat /\ slot < ARRAY_SIZE
    BY <1>1 DEF Slots
  <1>3. CASE slot + 1 = ARRAY_SIZE
    <2>1. (slot + 1) % ARRAY_SIZE = 0
      BY <1>1, <1>3
    <2> QED BY <1>1, <1>3, <2>1 DEF Following, Slots
  <1>4. CASE slot + 1 < ARRAY_SIZE
    <2>1. (slot + 1) % ARRAY_SIZE = slot + 1
      BY <1>1, <1>2, <1>4
    <2> QED BY <1>1, <1>2, <1>4, <2>1 DEF Following, Slots
  <1> QED BY <1>1, <1>2, <1>3, <1>4

\* The i-th oldest reading of the next window is the next of this one.
LEMMA NextSlots ==
    ASSUME NEW oldest \in Slots, NEW i \in 1 .. ARRAY_SIZE - 1
    PROVE  /\ SlotOf(Following(oldest), i) = SlotOf(oldest, i + 1)
           /\ SlotOf(oldest, i + 1) \in Slots \ {oldest}
  <1>1. ARRAY_SIZE \in Nat /\ oldest \in 0 .. ARRAY_SIZE - 1
    BY SamplingAssumption DEF Slots
  <1>2. SlotOf(oldest, i + 1) =
            IF oldest + i < ARRAY_SIZE THEN oldest + i ELSE (oldest + i) - ARRAY_SIZE
    BY <1>1 DEF SlotOf
  <1>3. SlotOf(Following(oldest), i) =
            IF oldest + i < ARRAY_SIZE THEN oldest + i ELSE (oldest + i) - ARRAY_SIZE
    <2>1. CASE oldest + 1 = ARRAY_SIZE
      <3>1. Following(oldest) = 0
        BY <2>1, FollowingSlot
      <3>2. SlotOf(0, i) = i - 1
        BY <1>1 DEF SlotOf
      <3> QED BY <1>1, <2>1, <3>1, <3>2
    <2>2. CASE oldest + 1 # ARRAY_SIZE
      <3>1. Following(oldest) = oldest + 1
        BY <2>2, FollowingSlot
      <3>2. SlotOf(oldest + 1, i) =
                IF oldest + i < ARRAY_SIZE THEN oldest + i ELSE (oldest + i) - ARRAY_SIZE
        BY <1>1 DEF SlotOf
      <3> QED BY <3>1, <3>2
    <2> QED BY <2>1, <2>2
  <1>4. SlotOf(oldest, i + 1) \in Slots \ {oldest}
    BY <1>1, <1>2 DEF Slots
  <1> QED BY <1>2, <1>3, <1>4

\* A window that is not full grows.
LEMMA PutGrows ==
    ASSUME NEW queue, NEW readings, Holds(queue, readings), NEW value \in Int,
           queue.nb < ARRAY_SIZE
    PROVE  Holds(SQ_Put(queue, Squared(value)), Append(readings, value))
  <1> DEFINE p == SQ_Put(queue, Squared(value))
             n == queue.nb
             t == Append(readings, value)
  <1>1. /\ ARRAY_SIZE \in Nat /\ n \in Nat /\ n < ARRAY_SIZE /\ n # ARRAY_SIZE
        /\ queue \in Queues /\ queue.oldest = 0 /\ queue.newest = n
        /\ readings \in Seq(Int) /\ Len(readings) = n
    BY SamplingAssumption DEF Holds, Queues
  <1>2. Squared(value) \in Nat
    BY SquaredType
  <1>3. n \in Slots /\ 0 \in Slots
    BY <1>1 DEF Slots
  <1>4. p = [queue EXCEPT !.sum = @ + Squared(value),
                          !.data[queue.newest] = Squared(value),
                          !.newest = Following(@),
                          !.nb = @ + 1]
    BY <1>1 DEF SQ_Put
  <1>5. /\ p.firstTime = queue.firstTime /\ p.oldest = 0
        /\ p.newest = Following(n) /\ p.sum = queue.sum + Squared(value) /\ p.nb = n + 1
        /\ p.data = [queue.data EXCEPT ![n] = Squared(value)]
    BY <1>1, <1>4 DEF Queues
  <1>6. p \in Queues
    <2>1. Following(n) \in Slots
      BY <1>3, FollowingSlot
    <2>2. queue.data \in [Slots -> Nat] /\ queue.sum \in Nat /\ queue.firstTime \in BOOLEAN
      BY <1>1 DEF Queues
    <2>3. p.data \in [Slots -> Nat]
      BY <1>2, <1>3, <1>5, <2>2
    <2>4. p.sum \in Nat /\ p.nb \in 0 .. ARRAY_SIZE
      BY <1>1, <1>2, <1>5, <2>2
    <2> QED BY <1>1, <1>2, <1>3, <1>4, <1>5, <2>1, <2>2, <2>3, <2>4 DEF Queues
  <1>7. /\ t \in Seq(Int) /\ Len(t) = n + 1 /\ t[n + 1] = value
        /\ \A i \in 1 .. n : t[i] = readings[i]
    BY <1>1
  <1>8. p.nb < ARRAY_SIZE => p.newest = p.nb
    BY <1>1, <1>3, <1>5, FollowingSlot
  <1>9. ASSUME NEW i \in 1 .. n + 1 PROVE p.data[SlotOf(0, i)] = Squared(t[i])
    <2>1. i \in Nat /\ SlotOf(0, i) = i - 1 /\ i - 1 \in Slots
      BY <1>1 DEF SlotOf, Slots
    <2>2. queue.data \in [Slots -> Nat]
      BY <1>1 DEF Queues
    <2>3. CASE i = n + 1
      BY <1>1, <1>3, <1>5, <1>7, <2>1, <2>2, <2>3
    <2>4. CASE i \in 1 .. n
      <3>1. queue.data[SlotOf(0, i)] = Squared(readings[i])
        BY <1>1, <2>4 DEF Holds
      <3>2. i - 1 # n /\ t[i] = readings[i]
        BY <1>1, <1>7, <2>4
      <3> QED BY <1>3, <1>5, <2>1, <2>2, <3>1, <3>2
    <2> QED BY <1>1, <2>3, <2>4
  <1>10. p.sum = SumOfSquares(t)
    <2>1. queue.sum = SumOfSquares(readings)
      BY DEF Holds
    <2>2. SumOfSquares(t) = SumOfSquares(readings) + Squared(value)
      BY <1>1, SumAppend
    <2> QED BY <1>5, <2>1, <2>2
  <1> HIDE DEF p, t
  <1>11. Holds(p, t)
    BY <1>1, <1>5, <1>6, <1>7, <1>8, <1>9, <1>10 DEF Holds
  <1> QED BY <1>11 DEF p, t

\* A full one replaces its oldest reading.
LEMMA PutReplaces ==
    ASSUME NEW queue, NEW readings, Holds(queue, readings), NEW value \in Int,
           queue.nb = ARRAY_SIZE
    PROVE  Holds(SQ_Put(queue, Squared(value)), Append(Tail(readings), value))
  <1> DEFINE p == SQ_Put(queue, Squared(value))
             n == ARRAY_SIZE
             o == queue.oldest
             t == Append(Tail(readings), value)
  <1>1. /\ n \in Nat \ {0} /\ queue.nb = n
        /\ queue \in Queues /\ o \in Slots /\ o \in 0 .. n - 1
        /\ readings \in Seq(Int) /\ Len(readings) = n
    BY SamplingAssumption DEF Holds, Queues, Slots
  <1>2. Squared(value) \in Nat
    BY SquaredType
  <1>3. p = [queue EXCEPT !.sum = (@ - queue.data[queue.oldest]) + Squared(value),
                          !.newest = queue.oldest,
                          !.data[queue.oldest] = Squared(value),
                          !.oldest = Following(@)]
    BY <1>1 DEF SQ_Put
  <1>4. /\ p.firstTime = queue.firstTime /\ p.oldest = Following(o)
        /\ p.newest = o /\ p.sum = (queue.sum - queue.data[o]) + Squared(value)
        /\ p.nb = n /\ p.data = [queue.data EXCEPT ![o] = Squared(value)]
    BY <1>1, <1>3 DEF Queues
  <1>5. Following(o) \in Slots /\ Following(o) = IF o + 1 = n THEN 0 ELSE o + 1
    BY <1>1, FollowingSlot
  <1>6. /\ readings[1] \in Int /\ Tail(readings) \in Seq(Int) /\ Len(Tail(readings)) = n - 1
        /\ \A i \in 1 .. n - 1 : Tail(readings)[i] = readings[i + 1]
    BY <1>1
  <1>7. /\ t \in Seq(Int) /\ Len(t) = n /\ t[n] = value
        /\ \A i \in 1 .. n - 1 : t[i] = readings[i + 1]
    BY <1>1, <1>6
  <1>8. queue.data[o] = Squared(readings[1])
    <2>1. SlotOf(o, 1) = o /\ 1 \in 1 .. queue.nb
      BY <1>1 DEF SlotOf
    <2> QED BY <2>1 DEF Holds
  <1>9. p.sum = SumOfSquares(t)
    <2>1. queue.sum = SumOfSquares(readings)
      BY DEF Holds
    <2>2. SumOfSquares(Tail(readings)) = SumOfSquares(readings) - Squared(readings[1])
      BY <1>1, SumTail
    <2>3. SumOfSquares(t) = SumOfSquares(Tail(readings)) + Squared(value)
      BY <1>6, SumAppend
    <2> QED BY <1>4, <1>8, <2>1, <2>2, <2>3
  <1>10. SumOfSquares(t) \in Nat
    <2>1. PICK sum \in [0 .. n -> Nat] : SumOfSquares(t) = sum[n]
      BY <1>7, SumSteps
    <2> QED BY <1>1, <2>1
  <1>11. p \in Queues
    <2>1. queue.data \in [Slots -> Nat] /\ queue.firstTime \in BOOLEAN
      BY <1>1 DEF Queues
    <2>2. p.data \in [Slots -> Nat]
      BY <1>1, <1>2, <1>4, <2>1
    <2>3. p.sum \in Nat /\ p.nb \in 0 .. ARRAY_SIZE
      BY <1>1, <1>4, <1>9, <1>10
    <2> QED BY <1>1, <1>3, <1>4, <1>5, <2>1, <2>2, <2>3 DEF Queues
  <1>12. ASSUME NEW i \in 1 .. n PROVE p.data[SlotOf(p.oldest, i)] = Squared(t[i])
    <2>1. queue.data \in [Slots -> Nat]
      BY <1>1 DEF Queues
    <2>2. CASE i = n
      <3>1. SlotOf(p.oldest, i) = o
        BY <1>1, <1>4, <1>5, <2>2 DEF SlotOf
      <3> QED BY <1>1, <1>4, <1>7, <2>1, <2>2, <3>1
    <2>3. CASE i \in 1 .. n - 1
      <3>1. /\ i + 1 \in 1 .. queue.nb /\ SlotOf(p.oldest, i) = SlotOf(o, i + 1)
            /\ SlotOf(o, i + 1) \in Slots /\ SlotOf(o, i + 1) # o
        <4>1. i + 1 \in 1 .. n /\ i \in 1 .. ARRAY_SIZE - 1
          BY <1>1, <2>3
        <4>2. SlotOf(Following(o), i) = SlotOf(o, i + 1) /\ SlotOf(o, i + 1) \in Slots \ {o}
          BY <1>1, <4>1, NextSlots
        <4> QED BY <1>1, <1>4, <4>1, <4>2
      <3>2. queue.data[SlotOf(o, i + 1)] = Squared(readings[i + 1])
        BY <3>1 DEF Holds
      <3> QED BY <1>1, <1>4, <1>7, <2>1, <2>3, <3>1, <3>2
    <2> QED BY <1>1, <2>2, <2>3
  <1> HIDE DEF p, t
  <1>13. Holds(p, t)
    BY <1>1, <1>4, <1>7, <1>9, <1>11, <1>12 DEF Holds
  <1> QED BY <1>13 DEF p, t

\* Either way the window holds the last readings.
LEMMA PutHolds ==
    ASSUME NEW queue, NEW readings, Holds(queue, readings), NEW value \in Int
    PROVE  Holds(SQ_Put(queue, Squared(value)), Newer(readings, value))
  <1>1. /\ queue.nb = Len(readings) /\ queue.nb \in 0 .. ARRAY_SIZE
        /\ ARRAY_SIZE \in Nat
    BY SamplingAssumption DEF Holds, Queues
  <1>2. CASE queue.nb < ARRAY_SIZE
    BY <1>1, <1>2, PutGrows DEF Newer
  <1>3. CASE queue.nb = ARRAY_SIZE
    <2>1. ~ (Len(readings) < ARRAY_SIZE)
      BY <1>1, <1>3
    <2> QED BY <1>3, <2>1, PutReplaces DEF Newer
  <1> QED BY <1>1, <1>2, <1>3

-----------------------------------------------------------------------------
(* Math_SquareRoot *)

Words == 0 .. Word - 1

LEMMA WordSize == Word \in Nat \ {0}
  BY DEF Word

LEMMA WordFacts == Words \subseteq Nat /\ \A n \in Int : n % Word \in Words
  <1>1. ASSUME NEW n \in Int PROVE n % Word \in Words
    <2>1. \A a \in Int, b \in Nat \ {0} : a % b \in 0 .. b - 1
      OBVIOUS
    <2> QED BY <2>1, WordSize DEF Words
  <1>2. ASSUME NEW w \in Words PROVE w \in Nat
    BY WordSize DEF Words
  <1> QED BY <1>1, <1>2

LEMMA Halving == \A n \in Nat : n >= Word => n \div 2 \in Nat /\ n \div 2 < n
  BY DEF Word

\* Shifting right ends in 16 bits, and does nothing to 16 bits.
LEMMA FitType ==
    ASSUME NEW number \in Nat
    PROVE  Fit(number) \in Words /\ (number < Word => Fit(number) = number)
  <1> DEFINE Eq(g, m) == g = [n \in 0 .. m |-> IF n < Word THEN n ELSE g[n \div 2]]
             S == {m \in Nat : \E g : Eq(g, m)}
  <1>1. Nat \subseteq S
    <2>1. 0 \in S
      <3>1. Eq([n \in 0 .. 0 |-> 0], 0)
        BY DEF Word
      <3> QED BY <3>1
    <2>2. ASSUME NEW m \in Nat, m \in S PROVE m + 1 \in S
      <3> SUFFICES \E g : Eq(g, m + 1)
        OBVIOUS
      <3>1. PICK g : Eq(g, m)
        BY <2>2
      <3> DEFINE h == [n \in 0 .. m + 1 |->
                          IF n = m + 1 THEN IF n < Word THEN n ELSE g[n \div 2] ELSE g[n]]
      <3>2. \A n \in 0 .. m : h[n] = g[n]
        OBVIOUS
      <3>3. ASSUME NEW n \in 0 .. m + 1
            PROVE  h[n] = IF n < Word THEN n ELSE h[n \div 2]
        <4>1. CASE n = m + 1 /\ n < Word
          BY <4>1
        <4>2. CASE n = m + 1 /\ ~ (n < Word)
          <5>1. n \div 2 \in 0 .. m
            BY <4>2, Halving DEF Word
          <5> QED BY <3>2, <4>2, <5>1
        <4>3. CASE n \in 0 .. m /\ n < Word
          BY <3>1, <3>2, <4>3
        <4>4. CASE n \in 0 .. m /\ ~ (n < Word)
          <5>1. n \div 2 \in 0 .. m
            BY <4>4, Halving DEF Word
          <5>2. g[n] = g[n \div 2]
            BY <3>1, <4>4
          <5> QED BY <3>2, <4>4, <5>1, <5>2
        <4> QED BY <4>1, <4>2, <4>3, <4>4
      <3>4. Eq(h, m + 1)
        BY <3>3
      <3> QED BY <3>4
    <2> HIDE DEF S
    <2> QED BY <2>1, <2>2, Induction
  <1> DEFINE fit == CHOOSE g : Eq(g, number)
  <1>2. Eq(fit, number)
    <2>1. \E g : Eq(g, number)
      BY <1>1
    <2> QED BY <2>1
  <1>3. Fit(number) = fit[number]
    BY DEF Fit
  <1> HIDE DEF fit
  <1>4. \A n \in 0 .. number : fit[n] = IF n < Word THEN n ELSE fit[n \div 2]
    BY <1>2
  <1> DEFINE U == {m \in Nat : m <= number => \A n \in 0 .. m : fit[n] \in Words}
  <1>5. 0 \in U
    <2>1. 0 \in 0 .. number /\ 0 < Word /\ 0 \in Words
      BY DEF Words, Word
    <2>2. fit[0] \in Words
      BY <1>4, <2>1
    <2> QED BY <2>2
  <1>6. ASSUME NEW m \in Nat, m \in U PROVE m + 1 \in U
    <2> SUFFICES ASSUME m + 1 <= number, NEW n \in 0 .. m + 1 PROVE fit[n] \in Words
      OBVIOUS
    <2>1. \A k \in 0 .. m : fit[k] \in Words
      BY <1>6
    <2>2. CASE n < Word
      <3>1. n \in 0 .. number /\ n \in Words
        BY <2>2, WordSize DEF Words
      <3> QED BY <1>4, <2>2, <3>1
    <2>3. CASE ~ (n < Word)
      <3>1. n \div 2 \in 0 .. m
        BY <2>3, Halving DEF Word
      <3>2. fit[n] = fit[n \div 2]
        BY <1>4, <2>3
      <3> QED BY <2>1, <3>1, <3>2
    <2> QED BY <2>2, <2>3
  <1>7. Nat \subseteq U
    <2> HIDE DEF U
    <2> QED BY <1>5, <1>6, Induction
  <1>8. number < Word => fit[number] = number
    BY <1>4
  <1> QED BY <1>3, <1>7, <1>8

\* An iteration stays within 16 bits.
LEMMA NewtonType ==
    ASSUME NEW number \in Nat
    PROVE  Newton(number) \in [Words -> Words]
  <1>1. ASSUME NEW estimate \in Words
        PROVE  (IF estimate = 0 THEN 0
                ELSE ((number \div estimate + estimate) \div 2) % Word) \in Words
    <2>1. CASE estimate = 0
      BY <2>1, WordSize DEF Words
    <2>2. CASE estimate # 0
      <3>1. estimate \in Nat \ {0}
        BY <2>2, WordFacts
      <3>2. number \div estimate \in Int
        BY <3>1
      <3>3. (number \div estimate + estimate) \div 2 \in Int
        BY <3>1, <3>2
      <3>4. PICK n \in Int : n = (number \div estimate + estimate) \div 2
        BY <3>3
      <3>5. n % Word \in Words
        BY WordFacts
      <3> QED BY <2>2, <3>4, <3>5
    <2> QED BY <2>1, <2>2
  <1> QED BY <1>1 DEF Newton, Words

\* The estimates, one iteration at a time.
LEMMA RootSteps ==
    ASSUME NEW estimate \in Words, NEW number \in Nat, NEW iterateTimes \in Nat
    PROVE  LET times == IF iterateTimes = 0 THEN NB_ITERATIONS ELSE iterateTimes
               first == IF estimate = 0 THEN Fit(number) ELSE estimate
           IN  \E after :
                   /\ \A i \in 0 .. times :
                          after[i] = IF i > 0 THEN Newton(number)[after[i - 1]] ELSE first
                   /\ Math_SquareRoot(estimate, number, iterateTimes) = after[times]
  <1> DEFINE times == IF iterateTimes = 0 THEN NB_ITERATIONS ELSE iterateTimes
             first == IF estimate = 0 THEN Fit(number) ELSE estimate
             Eq(g, m) == g = [i \in 0 .. m |->
                                 IF i > 0 THEN Newton(number)[g[i - 1]]
                                 ELSE IF estimate = 0 THEN Fit(number) ELSE estimate]
             S == {m \in Nat : \E g : Eq(g, m)}
  <1>1. times \in Nat /\ first \in Words
    BY SamplingAssumption, FitType
  <1>2. Nat \subseteq S
    <2>1. 0 \in S
      <3>1. Eq([i \in 0 .. 0 |-> first], 0)
        OBVIOUS
      <3> QED BY <3>1
    <2>2. ASSUME NEW m \in Nat, m \in S PROVE m + 1 \in S
      <3> SUFFICES \E g : Eq(g, m + 1)
        OBVIOUS
      <3>1. PICK g : Eq(g, m)
        BY <2>2
      <3> DEFINE h == [i \in 0 .. m + 1 |->
                          IF i = m + 1 THEN Newton(number)[g[m]] ELSE g[i]]
      <3>2. \A i \in 0 .. m : h[i] = g[i]
        OBVIOUS
      <3>3. ASSUME NEW i \in 0 .. m + 1
            PROVE  h[i] = IF i > 0 THEN Newton(number)[h[i - 1]] ELSE first
        <4>1. CASE i = m + 1
          <5>1. i > 0 /\ i - 1 = m /\ m \in 0 .. m
            BY <4>1
          <5> QED BY <3>2, <4>1, <5>1
        <4>2. CASE i = 0
          <5>1. 0 \in 0 .. m /\ ~ (0 > 0)
            OBVIOUS
          <5>2. g[0] = first
            BY <3>1, <5>1
          <5> QED BY <3>2, <4>2, <5>1, <5>2
        <4>3. CASE i \in 1 .. m
          <5>1. i \in 0 .. m /\ i - 1 \in 0 .. m /\ i > 0
            BY <4>3
          <5>2. g[i] = Newton(number)[g[i - 1]]
            BY <3>1, <5>1
          <5> QED BY <3>2, <5>1, <5>2
        <4> QED BY <4>1, <4>2, <4>3
      <3>4. Eq(h, m + 1)
        BY <3>3
      <3> QED BY <3>4
    <2> HIDE DEF S
    <2> QED BY <2>1, <2>2, Induction
  <1> DEFINE after == CHOOSE g : Eq(g, times)
  <1>3. Eq(after, times)
    <2>1. \E g : Eq(g, times)
      BY <1>1, <1>2
    <2> QED BY <2>1
  <1>4. Math_SquareRoot(estimate, number, iterateTimes) = after[times]
    BY DEF Math_SquareRoot
  <1> HIDE DEF after
  <1>5. \A i \in 0 .. times :
            after[i] = IF i > 0 THEN Newton(number)[after[i - 1]] ELSE first
    BY <1>3
  <1> HIDE DEF times, first
  <1> QED BY <1>4, <1>5 DEF times, first

\* They all stay within 16 bits.
LEMMA RootType ==
    ASSUME NEW estimate \in Words, NEW number \in Nat, NEW iterateTimes \in Nat
    PROVE  Math_SquareRoot(estimate, number, iterateTimes) \in Words
  <1> DEFINE times == IF iterateTimes = 0 THEN NB_ITERATIONS ELSE iterateTimes
             first == IF estimate = 0 THEN Fit(number) ELSE estimate
  <1>1. times \in Nat /\ first \in Words
    BY SamplingAssumption, FitType
  <1>2. PICK after :
            /\ \A i \in 0 .. times :
                   after[i] = IF i > 0 THEN Newton(number)[after[i - 1]] ELSE first
            /\ Math_SquareRoot(estimate, number, iterateTimes) = after[times]
    BY RootSteps
  <1> HIDE DEF times, first
  <1> DEFINE U == {i \in Nat : i <= times => after[i] \in Words}
  <1>3. 0 \in U
    BY <1>1, <1>2
  <1>4. ASSUME NEW i \in Nat, i \in U PROVE i + 1 \in U
    <2> SUFFICES ASSUME i + 1 <= times PROVE after[i + 1] \in Words
      OBVIOUS
    <2>1. i + 1 \in 0 .. times /\ i + 1 > 0 /\ (i + 1) - 1 = i /\ after[i] \in Words
      BY <1>1, <1>4
    <2>2. after[i + 1] = Newton(number)[after[i]]
      BY <1>2, <2>1
    <2> QED BY <2>1, <2>2, NewtonType
  <1>5. Nat \subseteq U
    <2> HIDE DEF U
    <2> QED BY <1>3, <1>4, Induction
  <1> QED BY <1>1, <1>2, <1>5

-----------------------------------------------------------------------------
(* The channel *)

Channels == [rms : Words, queue : Queues]

Frequencies == [started : BOOLEAN, previousVoltage : Int, tickCnt : 0 .. 255,
                FrequencyDiff : 0 .. 255, TickPeriod : 0 .. 255]

\* The mains and the variables of MeterFrequency are within their types, and the window
\* holds the squares of the last readings.
Wave == half \in HalfPeriods /\ phase \in 0 .. 2 * half - 1 /\ amplitude \in Amplitudes

IInv ==
    /\ Wave
    /\ frequency \in Frequencies
    /\ channel \in Channels
    /\ Holds(channel.queue, recent)

\* After a reading the RMS value still has 16 bits.
LEMMA RmsType ==
    ASSUME NEW ratio \in Nat \ {0}, NEW rms \in Words, NEW queue \in Queues
    PROVE  RmsAfter(rms, ratio, queue) \in Words
  <1> DEFINE average == queue.sum \div ARRAY_SIZE
  <1>1. average \in Nat
    <2>1. queue.sum \in Nat /\ ARRAY_SIZE \in Nat \ {0}
      BY SamplingAssumption DEF Queues
    <2>2. \A a \in Nat, b \in Nat \ {0} : a \div b \in Nat
      OBVIOUS
    <2> QED BY <2>1, <2>2
  <1> HIDE DEF average
  <1>2. rms \div ratio \in Words
    <2>1. rms \in Nat /\ rms <= Word - 1 /\ Word \in Nat
      BY WordSize DEF Words
    <2>2. \A a \in Nat, b \in Nat \ {0} : a \div b \in Nat /\ a \div b <= a
      OBVIOUS
    <2>3. rms \div ratio \in Nat /\ rms \div ratio <= rms
      BY <2>1, <2>2
    <2> QED BY <2>1, <2>3 DEF Words
  <1>3. ASSUME NEW n \in Nat PROVE n % Word \in Words
    <2>1. n \in Int
      OBVIOUS
    <2> QED BY <2>1, WordFacts
  <1>4. ASSUME NEW root \in Words PROVE (root * ratio) % Word \in Words
    <2>1. root \in Nat
      BY WordFacts
    <2>2. root * ratio \in Nat
      BY <2>1
    <2> QED BY <1>3, <2>2
  <1>5. (Math_SquareRoot(0, average, 0) * ratio) % Word \in Words
    <2>1. 0 \in Words /\ 0 \in Nat
      BY WordSize DEF Words
    <2> QED BY <1>1, <1>4, <2>1, RootType
  <1>6. (Math_SquareRoot(rms \div ratio, average, 1) * ratio) % Word \in Words
    BY <1>1, <1>2, <1>4, RootType
  <1> QED BY <1>5, <1>6 DEF RmsAfter, average

\* A reading leaves the window with the last readings.
LEMMA SampledHolds ==
    ASSUME NEW ratio \in Nat \ {0}, NEW c \in Channels, NEW readings,
           Holds(c.queue, readings), NEW value \in Int
    PROVE  /\ Sampled(c, ratio, value) \in Channels
           /\ Holds(Sampled(c, ratio, value).queue, Newer(readings, value))
  <1> DEFINE put == SQ_Put(c.queue, Squared(value))
             late == c.rms = 0 /\ put.nb = ARRAY_SIZE
             next == [put EXCEPT !.firstTime = @ /\ ~ late]
  <1>1. Holds(put, Newer(readings, value)) /\ c.rms \in Words
    BY PutHolds DEF Channels
  <1>2. put \in Queues
    BY <1>1 DEF Holds
  <1> HIDE DEF put
  <1>3. /\ next \in Queues
        /\ next.oldest = put.oldest /\ next.newest = put.newest /\ next.data = put.data
        /\ next.sum = put.sum /\ next.nb = put.nb
    <2>1. (put.firstTime /\ ~ late) \in BOOLEAN
      OBVIOUS
    <2> HIDE DEF late
    <2> QED BY <1>2, <2>1 DEF Queues
  <1>4. Holds(next, Newer(readings, value))
    <2> HIDE DEF next
    <2> QED BY <1>1, <1>3 DEF Holds
  <1>5. Sampled(c, ratio, value) = [rms |-> RmsAfter(c.rms, ratio, put), queue |-> next]
    BY DEF Sampled, put
  <1>6. RmsAfter(c.rms, ratio, put) \in Words
    BY <1>1, <1>2, RmsType
  <1> HIDE DEF next
  <1> QED BY <1>3, <1>4, <1>5, <1>6 DEF Channels

\* MeterFrequency keeps its variables within eight bits.
LEMMA FrequencyType ==
    ASSUME NEW f \in Frequencies, NEW value \in Int
    PROVE  MeterFrequency(f, value) \in Frequencies
  <1>1. /\ f.started \in BOOLEAN /\ f.previousVoltage \in Int /\ f.tickCnt \in 0 .. 255
        /\ f.FrequencyDiff \in 0 .. 255 /\ f.TickPeriod \in 0 .. 255
    BY DEF Frequencies
  <1>2. Adjusted(f) \in 0 .. 255
    BY <1>1, SamplingAssumption DEF Adjusted
  <1>3. Crossed(f, value) \in BOOLEAN
    BY DEF Crossed
  <1>4. CASE Crossed(f, value) /\ f.started
    <2> DEFINE period == IF f.tickCnt = HalfCycle THEN f.TickPeriod ELSE Adjusted(f)
               again == f.tickCnt = HalfCycle
    <2>1. MeterFrequency(f, value) =
              [started |-> again, previousVoltage |-> value, tickCnt |-> 0,
               FrequencyDiff |-> Adjusted(f), TickPeriod |-> period]
      BY <1>4 DEF MeterFrequency
    <2>2. period \in 0 .. 255 /\ 0 \in 0 .. 255
      BY <1>1, <1>2
    <2>3. again \in BOOLEAN
      OBVIOUS
    <2> HIDE DEF period, again
    <2> QED BY <1>2, <2>1, <2>2, <2>3 DEF Frequencies
  <1>5. CASE ~ (Crossed(f, value) /\ f.started)
    <2> DEFINE begun == f.started \/ Crossed(f, value)
               cnt == IF f.started THEN (f.tickCnt + 1) % 256 ELSE f.tickCnt
    <2>1. MeterFrequency(f, value) =
              [f EXCEPT !.previousVoltage = value, !.started = begun, !.tickCnt = cnt]
      BY <1>5 DEF MeterFrequency
    <2>2. begun \in BOOLEAN
      BY <1>1, <1>3
    <2>3. cnt \in 0 .. 255
      BY <1>1
    <2> HIDE DEF begun, cnt
    <2>4. f \in [started : BOOLEAN, previousVoltage : Int, tickCnt : 0 .. 255,
                 FrequencyDiff : 0 .. 255, TickPeriod : 0 .. 255]
      BY DEF Frequencies
    <2>5. [f EXCEPT !.previousVoltage = value, !.started = begun, !.tickCnt = cnt]
              \in [started : BOOLEAN, previousVoltage : Int, tickCnt : 0 .. 255,
                   FrequencyDiff : 0 .. 255, TickPeriod : 0 .. 255]
      BY <2>2, <2>3, <2>4
    <2> QED BY <2>1, <2>5 DEF Frequencies
  <1> QED BY <1>4, <1>5

\* The readings of the mains are numbers.
LEMMA ReadingsType == Wave => Readings \subseteq Int
  BY ChannelAssumption DEF Wave, Readings

\* An empty window holds no readings.
LEMMA NewHolds == NewChannel \in Channels /\ Holds(NewChannel.queue, <<>>)
  <1>1. NewChannel = [rms |-> 0, queue |-> SQ_Init]
    BY DEF NewChannel
  <1>2. ARRAY_SIZE \in Nat \ {0} /\ 0 \in Slots
    BY SamplingAssumption DEF Slots
  <1>3. SQ_Init \in Queues
    <2>1. [i \in Slots |-> 0] \in [Slots -> Nat]
      OBVIOUS
    <2> QED BY <1>2, <2>1 DEF SQ_Init, Queues
  <1>4. NewChannel \in Channels
    BY <1>1, <1>3 DEF Channels, Words, Word
  <1>5. SumOfSquares(<<>>) = 0
    <2>1. <<>> \in Seq(Int) /\ Len(<<>>) = 0
      OBVIOUS
    <2>2. PICK sum \in [0 .. 0 -> Nat] : sum[0] = 0 /\ SumOfSquares(<<>>) = sum[0]
      BY <2>1, SumSteps
    <2> QED BY <2>2
  <1>6. Holds(SQ_Init, <<>>)
    <2>1. /\ SQ_Init.nb = 0 /\ SQ_Init.oldest = 0 /\ SQ_Init.newest = 0 /\ SQ_Init.sum = 0
      BY DEF SQ_Init
    <2> HIDE DEF SQ_Init
    <2>2. <<>> \in Seq(Int) /\ Len(<<>>) = 0
      OBVIOUS
    <2> QED BY <1>2, <1>3, <1>5, <2>1, <2>2 DEF Holds
  <1> QED BY <1>1, <1>4, <1>6

LEMMA InitOK == Init => IInv
  <1> SUFFICES ASSUME Init PROVE IInv
    OBVIOUS
  <1>1. Wave
    <2>1. half \in HalfPeriods /\ phase \in Phases /\ amplitude \in Amplitudes
      BY DEF Init
    <2>2. phase \in 0 .. 2 * half - 1
      BY <2>1, ChannelAssumption
    <2> QED BY <2>1, <2>2 DEF Wave
  <1>2. frequency \in Frequencies
    <2>1. frequency = NewFrequency
      BY DEF Init
    <2>2. InitialDiff \in 0 .. 255
      BY SamplingAssumption
    <2> QED BY <2>1, <2>2 DEF NewFrequency, Frequencies
  <1>3. channel = NewChannel /\ recent = <<>>
    BY DEF Init
  <1> QED BY <1>1, <1>2, <1>3, NewHolds DEF IInv

LEMMA SampleOK == IInv /\ Sample => IInv'
  <1> SUFFICES ASSUME IInv, Sample PROVE IInv'
    OBVIOUS
  <1>1. Wave /\ frequency \in Frequencies /\ channel \in Channels
        /\ Holds(channel.queue, recent)
    BY DEF IInv
  <1>2. PICK value \in Readings :
            /\ frequency' = MeterFrequency(frequency, value)
            /\ channel' = Sampled(channel, Ratio, value)
            /\ phase' = (phase + Base + frequency'.TickPeriod) % (2 * half)
            /\ recent' = Newer(recent, value)
            /\ UNCHANGED <<half, amplitude>>
    BY DEF Sample, Newer
  <1>3. value \in Int
    BY <1>1, ReadingsType
  <1>4. frequency' \in Frequencies
    BY <1>1, <1>2, <1>3, FrequencyType
  <1>5. channel' \in Channels /\ Holds(channel'.queue, recent')
    BY <1>1, <1>2, <1>3, SampledHolds, ChannelAssumption
  <1>6. phase' \in 0 .. 2 * half - 1
    <2>1. half \in Nat \ {0} /\ phase \in Nat /\ Base \in Nat /\ frequency'.TickPeriod \in Nat
      BY <1>1, <1>4, ChannelAssumption DEF Wave, Frequencies
    <2>2. \A a \in Nat, b \in Nat \ {0} : a % b \in 0 .. b - 1
      OBVIOUS
    <2>3. phase + Base + frequency'.TickPeriod \in Nat /\ 2 * half \in Nat \ {0}
      BY <2>1
    <2> QED BY <1>2, <2>2, <2>3
  <1>7. Wave'
    BY <1>1, <1>2, <1>6 DEF Wave
  <1> QED BY <1>4, <1>5, <1>7 DEF IInv

LEMMA NextOK == IInv /\ [Next]_vars => IInv'
  <1> SUFFICES ASSUME IInv, [Next]_vars PROVE IInv'
    OBVIOUS
  <1>1. CASE Sample
    BY <1>1, SampleOK
  <1>2. CASE ChangeAmplitude
    BY <1>2 DEF ChangeAmplitude, IInv, Wave
  <1>3. CASE UNCHANGED vars
    BY <1>3 DEF vars, IInv, Wave
  <1> QED BY <1>1, <1>2, <1>3 DEF Next

\* However long the meter runs, the window holds the squares of the last readings and
\* their sum, and no loop leaves its type.
THEOREM Invariant == Spec => []IInv
  <1> QED BY InitOK, NextOK, PTL DEF Spec

\* The variables keep their C types.
THEOREM TypeCorrect == Spec => []TypeOK
  <1>1. IInv => TypeOK
    <2> SUFFICES ASSUME IInv PROVE TypeOK
      OBVIOUS
    <2>1. Wave
      BY DEF IInv
    <2>2. frequency.tickCnt \in 0 .. 255 /\ frequency.FrequencyDiff \in 0 .. 255
      BY DEF IInv, Frequencies
    <2>3. channel.rms \in 0 .. Word - 1 /\ channel.queue \in Queues
      BY DEF IInv, Channels, Words
    <2>4. /\ channel.queue.oldest \in Slots /\ channel.queue.newest \in Slots
          /\ channel.queue.nb \in 0 .. ARRAY_SIZE
      BY <2>3 DEF Queues
    <2> QED BY <2>1, <2>2, <2>3, <2>4 DEF TypeOK, Wave
  <1> QED BY <1>1, Invariant, PTL

\* The running sum, never recomputed, is that of the last readings' squares.
THEOREM RunningSum == Spec => []WindowSum
  <1>1. IInv => WindowSum
    BY DEF IInv, Holds, WindowSum
  <1> QED BY <1>1, Invariant, PTL

-----------------------------------------------------------------------------
(* The RMS value.  A window of one amplitude leaves Newton's method alone  *)
(* with its estimate, which from above halves its distance to the root.    *)

\* A quotient.
LEMMA Quotient ==
    ASSUME NEW h \in Nat, NEW n \in Nat \ {0}
    PROVE  h \div n \in Nat /\ n * (h \div n) <= h /\ h < n * (h \div n) + n
  BY SMT

\* The sum of readings of one size.
LEMMA UniformSum ==
    ASSUME NEW s \in Seq(Int), NEW n \in Nat, \A i \in 1 .. Len(s) : Squared(s[i]) = n
    PROVE  SumOfSquares(s) = Len(s) * n
  <1>1. PICK sum \in [0 .. Len(s) -> Nat] :
            /\ sum[0] = 0
            /\ \A i \in 1 .. Len(s) : sum[i] = sum[i - 1] + Squared(s[i])
            /\ SumOfSquares(s) = sum[Len(s)]
    BY SumSteps
  <1> DEFINE U == {i \in Nat : i <= Len(s) => sum[i] = i * n}
  <1>2. 0 \in U
    BY <1>1
  <1>3. ASSUME NEW i \in Nat, i \in U PROVE i + 1 \in U
    <2> SUFFICES ASSUME i + 1 <= Len(s) PROVE sum[i + 1] = (i + 1) * n
      OBVIOUS
    <2>1. i + 1 \in 1 .. Len(s) /\ (i + 1) - 1 = i /\ sum[i] = i * n
      BY <1>3
    <2>2. sum[i + 1] = sum[i] + n
      BY <1>1, <2>1
    <2> QED BY <2>1, <2>2
  <1>4. Nat \subseteq U
    <2> HIDE DEF U
    <2> QED BY <1>2, <1>3, Induction
  <1>5. Len(s) \in Nat
    OBVIOUS
  <1> QED BY <1>1, <1>4, <1>5

\* What a reading does to the RMS value, in terms of the window it leaves.
LEMMA SampledParts ==
    ASSUME NEW ratio \in Nat \ {0}, NEW c \in Channels, NEW readings,
           Holds(c.queue, readings), NEW value \in Int
    PROVE  LET next == Sampled(c, ratio, value)
               first == c.rms = 0 /\ next.queue.nb = ARRAY_SIZE
               average == next.queue.sum \div ARRAY_SIZE
           IN  /\ next.queue.firstTime = (c.queue.firstTime /\ ~ first)
               /\ c.queue.firstTime /\ ~ first => next.rms = c.rms
               /\ ~ c.queue.firstTime =>
                      next.rms = (Math_SquareRoot(c.rms \div ratio, average, 1) * ratio) % Word
  <1> DEFINE put == SQ_Put(c.queue, Squared(value))
             late == c.rms = 0 /\ put.nb = ARRAY_SIZE
             next == [put EXCEPT !.firstTime = @ /\ ~ late]
  <1>1. put \in Queues
    BY PutHolds DEF Holds
  <1>2. put.firstTime = c.queue.firstTime
    BY DEF SQ_Put, Holds, Queues
  <1> HIDE DEF put
  <1>3. /\ next.sum = put.sum /\ next.nb = put.nb
        /\ next.firstTime = (put.firstTime /\ ~ late)
    BY <1>1 DEF Queues
  <1>4. Sampled(c, ratio, value) = [rms |-> RmsAfter(c.rms, ratio, put), queue |-> next]
    BY DEF Sampled, put
  <1> HIDE DEF next
  <1> QED BY <1>2, <1>3, <1>4 DEF RmsAfter

\* One iteration is not below the root, and from above it halves the distance.
LEMMA NewtonNear ==
    ASSUME NEW n \in Nat, NEW s \in Nat, s * s <= n, n < (s + 1) * (s + 1),
           NEW e \in Nat \ {0}
    PROVE  LET r == (n \div e + e) \div 2
           IN  /\ r \in Nat /\ s <= r
               /\ e = s => r <= s + 1
               /\ e > s => r <= s + (e - s) \div 2
  <1> DEFINE q == n \div e
  <1>1. q \in Nat /\ e * q <= n /\ n < e * q + e
    BY Quotient
  <1> HIDE DEF q
  <1>2. 2 * s <= q + e
    <2> SUFFICES ASSUME q + e < 2 * s PROVE FALSE
      BY <1>1
    <2>1. q + 1 <= 2 * s - e
      BY <1>1
    <2>2. e * (q + 1) <= e * (2 * s - e)
      BY <1>1, <2>1, SMT
    <2>3. 0 <= (e - s) * (e - s)
      BY SMT
    <2>4. e * (2 * s - e) <= s * s
      BY <2>3, SMT
    <2>5. e * (q + 1) = e * q + e
      BY <1>1, SMT
    <2> QED BY <1>1, <2>2, <2>4, <2>5, SMT
  <1>3. e > s => q <= s
    <2> SUFFICES ASSUME e >= s + 1, q >= s + 1 PROVE FALSE
      BY <1>1
    <2>1. (s + 1) * (s + 1) <= e * q
      BY <1>1, SMT
    <2> QED BY <1>1, <2>1, SMT
  <1>4. e = s => q <= s + 2
    <2> SUFFICES ASSUME e = s, q >= s + 3 PROVE FALSE
      BY <1>1
    <2>1. s * (s + 3) <= e * q
      BY <1>1, SMT
    <2>2. (s + 1) * (s + 1) = s * s + 2 * s + 1 /\ s * (s + 3) = s * s + 3 * s /\ s >= 1
      BY SMT
    <2>3. s * s \in Nat
      BY SMT
    <2> QED BY <1>1, <2>1, <2>2, <2>3, SMT
  <1>5. /\ (q + e) \div 2 \in Nat /\ s <= (q + e) \div 2
        /\ e = s => (q + e) \div 2 <= s + 1
        /\ e > s => (q + e) \div 2 <= s + (e - s) \div 2
    BY <1>1, <1>2, <1>3, <1>4, SMT
  <1> QED BY <1>5 DEF q

\* The estimates are what the 16 bits of rms can hold.
LEMMA EstimatesFacts ==
    /\ Estimates \subseteq Words /\ Ratio \in Nat \ {0}
    /\ \E most \in Nat : Estimates = 0 .. most
    /\ \A e \in Nat : e * Ratio < Word <=> e \in Estimates
    /\ \A rms \in Words : rms \div Ratio \in Estimates
  <1>1. PICK w \in Nat : w = Word - 1
    BY WordSize
  <1>2. Word = w + 1 /\ Words = 0 .. w /\ Estimates = 0 .. w \div Ratio
    BY <1>1, WordSize DEF Words, Estimates
  <1>3. Ratio \in Nat \ {0}
    BY ChannelAssumption
  <1>4. w \div Ratio \in Nat /\ Ratio * (w \div Ratio) <= w /\ w < Ratio * (w \div Ratio) + Ratio
    BY <1>3, Quotient
  <1> DEFINE q == w \div Ratio
  <1> HIDE DEF q
  <1>5. q \in Nat /\ Ratio * q <= w /\ w < Ratio * (q + 1)
    BY <1>3, <1>4, SMT DEF q
  <1>6. q <= w
    <2>1. q <= Ratio * q
      BY <1>3, <1>5, SMT
    <2> QED BY <1>3, <1>5, <2>1, SMT
  <1>7. ASSUME NEW e \in Nat PROVE e * Ratio < Word <=> e \in Estimates
    <2>1. e <= q => e * Ratio <= Ratio * q
      BY <1>3, <1>5, SMT
    <2>2. e > q => Ratio * (q + 1) <= e * Ratio
      BY <1>3, <1>5, SMT
    <2>3. e * Ratio \in Nat
      BY <1>3, SMT
    <2>4. e <= q <=> e \in Estimates
      BY <1>2, <1>5 DEF q
    <2> QED BY <1>2, <1>3, <1>5, <2>1, <2>2, <2>3, <2>4, SMT
  <1>8. ASSUME NEW rms \in Words PROVE rms \div Ratio \in Estimates
    <2>1. rms \in Nat /\ rms < Word
      BY <1>2
    <2>2. rms \div Ratio \in Nat /\ Ratio * (rms \div Ratio) <= rms
      BY <1>3, <2>1, Quotient
    <2> DEFINE d == rms \div Ratio
    <2> HIDE DEF d
    <2>3. d \in Nat /\ d * Ratio <= rms
      BY <1>3, <2>2, SMT DEF d
    <2>4. d * Ratio < Word
      BY <1>2, <1>3, <2>1, <2>3, SMT
    <2> QED BY <1>7, <2>3, <2>4 DEF d
  <1>9. Estimates \subseteq Words
    BY <1>2, <1>5, <1>6 DEF q
  <1>10. \E most \in Nat : Estimates = 0 .. most
    BY <1>2, <1>5 DEF q
  <1> QED BY <1>3, <1>7, <1>8, <1>9, <1>10

\* An estimate is one iteration from the last, in as many bits as rms leaves it.
LEMMA SteppedType ==
    ASSUME NEW mean \in Nat, NEW e \in Estimates
    PROVE  Stepped(mean, e) \in Estimates
  <1>1. Math_SquareRoot(e, mean, 1) \in Words
    BY EstimatesFacts, RootType
  <1>2. Math_SquareRoot(e, mean, 1) * Ratio \in Int
    <2>1. Math_SquareRoot(e, mean, 1) \in Nat
      BY <1>1, WordFacts
    <2> QED BY <2>1, EstimatesFacts
  <1>3. (Math_SquareRoot(e, mean, 1) * Ratio) % Word \in Words
    BY <1>2, WordFacts
  <1> QED BY <1>3, EstimatesFacts DEF Stepped

\* An iteration whose result rms can hold is the next estimate.
LEMMA StepIs ==
    ASSUME NEW mean \in Nat, NEW e \in Estimates,
           NEW first \in Nat \ {0}, first = IF e = 0 THEN Fit(mean) ELSE e,
           NEW r \in Nat, r = (mean \div first + first) \div 2, r * Ratio < Word
    PROVE  Stepped(mean, e) = r
  <1>1. e \in Words /\ first \in Words /\ r \in Words
    <2>1. e \in Words
      BY EstimatesFacts
    <2>2. r \in Words
      BY EstimatesFacts
    <2> QED BY <2>1, <2>2, FitType
  <1>2. PICK after :
            /\ \A i \in 0 .. 1 : after[i] = IF i > 0 THEN Newton(mean)[after[i - 1]] ELSE first
            /\ Math_SquareRoot(e, mean, 1) = after[1]
    <2>1. 1 \in Nat /\ 1 # 0
      OBVIOUS
    <2> QED BY <1>1, <2>1, RootSteps
  <1>3. Math_SquareRoot(e, mean, 1) = Newton(mean)[first]
    BY <1>2
  <1>4. Newton(mean)[first] = r % Word
    BY <1>1 DEF Newton, Words
  <1>5. \A a \in Nat, b \in Nat \ {0} : a < b => a % b = a
    OBVIOUS
  <1>6. r < Word /\ r * Ratio \in Nat
    <2>1. r < Word
      BY <1>1, WordSize DEF Words
    <2> QED BY <2>1, EstimatesFacts
  <1>7. r % Word = r /\ (r * Ratio) % Word = r * Ratio
    BY <1>5, <1>6, WordSize
  <1>8. (r * Ratio) \div Ratio = r
    BY EstimatesFacts, SMT
  <1> QED BY <1>3, <1>4, <1>7, <1>8 DEF Stepped

\* An estimate that is not below the root stays there, and comes closer.
LEMMA StepNear ==
    ASSUME NEW mean \in Nat, NEW s \in Nat, IsRoot(s, mean), (s + 1) * Ratio < Word,
           NEW e \in Estimates, s <= e
    PROVE  /\ s <= Stepped(mean, e)
           /\ e = s => Stepped(mean, e) <= s + 1
           /\ e > s => Stepped(mean, e) <= s + (e - s) \div 2
  <1>1. e \in Words /\ e \in Nat /\ Ratio \in Nat \ {0} /\ e * Ratio < Word
    <2>1. e \in Words
      BY EstimatesFacts
    <2> QED BY <2>1, EstimatesFacts, WordFacts
  <1>2. CASE e = 0
    <2>1. s = 0 /\ mean = 0
      BY <1>1, <1>2 DEF IsRoot
    <2>2. Fit(mean) = 0
      BY <2>1, FitType, WordSize
    <2>3. PICK after :
              /\ \A i \in 0 .. 1 : after[i] = IF i > 0 THEN Newton(mean)[after[i - 1]]
                                             ELSE Fit(mean)
              /\ Math_SquareRoot(e, mean, 1) = after[1]
      <3>1. 1 \in Nat /\ 1 # 0
        OBVIOUS
      <3> QED BY <1>1, <1>2, <3>1, RootSteps
    <2>4. Newton(mean)[0] = 0
      BY WordSize DEF Newton
    <2>5. Math_SquareRoot(e, mean, 1) = 0
      BY <2>2, <2>3, <2>4
    <2>6. Stepped(mean, e) = 0
      <3>1. 0 * Ratio = 0 /\ 0 \div Ratio = 0
        BY <1>1, SMT
      <3>2. \A b \in Nat \ {0} : 0 % b = 0
        OBVIOUS
      <3> QED BY <2>5, <3>1, <3>2, WordSize DEF Stepped
    <2> QED BY <1>2, <2>1, <2>6
  <1>3. CASE e # 0
    <2> DEFINE r == (mean \div e + e) \div 2
    <2>1. /\ r \in Nat /\ s <= r
          /\ e = s => r <= s + 1
          /\ e > s => r <= s + (e - s) \div 2
      BY <1>1, <1>3, NewtonNear DEF IsRoot
    <2>2. r * Ratio < Word => Stepped(mean, e) = r
      BY <1>1, <1>3, <2>1, StepIs
    <2> HIDE DEF r
    <2>3. r <= e \/ r <= s + 1
      BY <1>1, <2>1
    <2>4. r * Ratio < Word
      <3>1. r * Ratio <= e * Ratio \/ r * Ratio <= (s + 1) * Ratio
        BY <1>1, <2>1, <2>3, SMT
      <3>2. r * Ratio \in Nat /\ e * Ratio \in Nat /\ (s + 1) * Ratio \in Nat
        BY <1>1, <2>1, SMT
      <3> QED BY <1>1, <3>1, <3>2, WordSize
    <2> QED BY <2>1, <2>2, <2>4
  <1> QED BY <1>2, <1>3

\* The estimates of Course, one sample at a time.
LEMMA CourseSteps ==
    ASSUME Detour \in Nat, NEW mean \in Nat, NEW e \in Estimates
    PROVE  /\ Course(mean, e)[0] = e
           /\ \A i \in 0 .. Detour : /\ Course(mean, e)[i] \in Estimates
                                     /\ i > 0 => Course(mean, e)[i] =
                                                     Stepped(mean, Course(mean, e)[i - 1])
  <1> DEFINE Eq(g, m) == g = [i \in 0 .. m |->
                                 IF i = 0 THEN e ELSE Stepped(mean, g[i - 1])]
             S == {m \in Nat : \E g : Eq(g, m)}
  <1>1. Nat \subseteq S
    <2>1. 0 \in S
      <3>1. Eq([i \in 0 .. 0 |-> e], 0)
        OBVIOUS
      <3> QED BY <3>1
    <2>2. ASSUME NEW m \in Nat, m \in S PROVE m + 1 \in S
      <3> SUFFICES \E g : Eq(g, m + 1)
        OBVIOUS
      <3>1. PICK g : Eq(g, m)
        BY <2>2
      <3> DEFINE h == [i \in 0 .. m + 1 |->
                          IF i = m + 1 THEN Stepped(mean, g[m]) ELSE g[i]]
      <3>2. \A i \in 0 .. m : h[i] = g[i]
        OBVIOUS
      <3>3. ASSUME NEW i \in 0 .. m + 1
            PROVE  h[i] = IF i = 0 THEN e ELSE Stepped(mean, h[i - 1])
        <4>1. CASE i = m + 1
          <5>1. i # 0 /\ i - 1 = m /\ m \in 0 .. m
            BY <4>1
          <5> QED BY <3>2, <4>1, <5>1
        <4>2. CASE i = 0
          BY <3>1, <3>2, <4>2
        <4>3. CASE i \in 1 .. m
          <5>1. i \in 0 .. m /\ i - 1 \in 0 .. m /\ i # 0
            BY <4>3
          <5>2. g[i] = Stepped(mean, g[i - 1])
            BY <3>1, <5>1
          <5> QED BY <3>2, <5>1, <5>2
        <4> QED BY <4>1, <4>2, <4>3
      <3>4. Eq(h, m + 1)
        BY <3>3
      <3> QED BY <3>4
    <2> HIDE DEF S
    <2> QED BY <2>1, <2>2, Induction
  <1> DEFINE course == CHOOSE g : Eq(g, Detour)
  <1>2. Eq(course, Detour)
    <2>1. \E g : Eq(g, Detour)
      BY <1>1
    <2> QED BY <2>1
  <1>3. Course(mean, e) = course
    BY DEF Course
  <1> HIDE DEF course
  <1>4. \A i \in 0 .. Detour :
            course[i] = IF i = 0 THEN e ELSE Stepped(mean, course[i - 1])
    BY <1>2
  <1> DEFINE U == {i \in Nat : i <= Detour => course[i] \in Estimates}
  <1>5. course[0] = e /\ 0 \in U
    BY <1>4
  <1>6. ASSUME NEW i \in Nat, i \in U PROVE i + 1 \in U
    <2> SUFFICES ASSUME i + 1 <= Detour PROVE course[i + 1] \in Estimates
      OBVIOUS
    <2>1. /\ i + 1 \in 0 .. Detour /\ i + 1 # 0 /\ (i + 1) - 1 = i
          /\ course[i] \in Estimates
      BY <1>6
    <2>2. course[i + 1] = Stepped(mean, course[i])
      BY <1>4, <2>1
    <2> QED BY <2>1, <2>2, SteppedType
  <1>7. Nat \subseteq U
    <2> HIDE DEF U
    <2> QED BY <1>5, <1>6, Induction
  <1>8. ASSUME NEW i \in 0 .. Detour
        PROVE  /\ course[i] \in Estimates
               /\ i > 0 => course[i] = Stepped(mean, course[i - 1])
    BY <1>4, <1>7
  <1> QED BY <1>3, <1>5, <1>8

\* A number has one root.
LEMMA OneRoot ==
    ASSUME NEW n \in Nat, NEW s \in Nat, NEW t \in Nat, IsRoot(s, n), IsRoot(t, n)
    PROVE  s = t
  <1>1. ASSUME NEW a \in Nat, NEW b \in Nat, IsRoot(a, n), IsRoot(b, n), a < b PROVE FALSE
    <2>1. (a + 1) * (a + 1) <= b * b
      BY <1>1, SMT
    <2>2. b * b <= n /\ n < (a + 1) * (a + 1)
      BY <1>1 DEF IsRoot
    <2>3. b * b \in Nat /\ (a + 1) * (a + 1) \in Nat
      BY SMT
    <2> QED BY <2>1, <2>2, <2>3
  <1> QED BY <1>1

\* What fifteen halvings leave of 16 bits.
Far(m) ==
    CASE m = 0  -> 65535 [] m = 1  -> 32767 [] m = 2  -> 16383 [] m = 3  -> 8191
      [] m = 4  -> 4095  [] m = 5  -> 2047  [] m = 6  -> 1023  [] m = 7  -> 511
      [] m = 8  -> 255   [] m = 9  -> 127   [] m = 10 -> 63    [] m = 11 -> 31
      [] m = 12 -> 15    [] m = 13 -> 7     [] m = 14 -> 3     [] OTHER  -> 1

LEMMA FarFacts ==
    /\ \A w \in Words : w <= Far(0)
    /\ \A m \in Nat : Far(m) \in Nat /\ Far(m) <= 2 * Far(m + 1) + 1 /\ 1 <= Far(m)
    /\ \A m \in Nat : m >= 15 => Far(m) = 1
  <1>1. ASSUME NEW m \in Nat PROVE Far(m) \in Nat /\ Far(m) <= 2 * Far(m + 1) + 1 /\ 1 <= Far(m)
    BY SMT DEF Far
  <1>2. Far(0) = 65535
    BY DEF Far
  <1>3. ASSUME NEW w \in Words PROVE w <= Far(0)
    <2>1. PICK top \in Nat : top = Word - 1 /\ top = Far(0)
      BY <1>2 DEF Word
    <2> QED BY <2>1 DEF Words
  <1>4. \A m \in Nat : m >= 15 => Far(m) = 1
    BY DEF Far
  <1> QED BY <1>1, <1>3, <1>4

\* After k samples of one amplitude beyond a window of them, the estimate is on the
\* course of one that the 16 bits of rms can hold, or not below the root, and so close.
Nearing(mean, e, k) ==
    /\ e \in Estimates
    /\ k <= Detour => \E first \in Estimates : e = Course(mean, first)[k]
    /\ k >= Detour => \A s \in Nat : IsRoot(s, mean) => s <= e /\ e - s <= Far(k - Detour)

LEMMA LimitType == RootLimit \in Nat
  BY DEF RootLimit

LEMMA ConvergentFacts ==
    ASSUME Convergent
    PROVE  /\ Detour \in Nat /\ NB_ITERATIONS \in Nat /\ NB_ITERATIONS = Detour + 15
           /\ \A a \in Amplitudes : \E s \in Nat :
                  /\ IsRoot(s, Squared(a)) /\ s + 1 < RootLimit /\ (s + 1) * Ratio < Word
                  /\ \A e \in Estimates : Course(Squared(a), e)[Detour] >= s
  <1>1. Detour \in Nat /\ NB_ITERATIONS \in Nat /\ NB_ITERATIONS = Detour + 15
    <2>1. NB_ITERATIONS >= 15
      BY DEF Convergent
    <2>2. NB_ITERATIONS \in Nat
      BY SamplingAssumption
    <2> QED BY <2>1, <2>2 DEF Detour
  <1>2. ASSUME NEW a \in Amplitudes
        PROVE  \E s \in Nat : /\ IsRoot(s, Squared(a)) /\ s + 1 < RootLimit /\ (s + 1) * Ratio < Word
                              /\ \A e \in Estimates : Course(Squared(a), e)[Detour] >= s
    <2>1. PICK s \in 0 .. RootLimit - 2 :
              /\ IsRoot(s, Squared(a)) /\ (s + 1) * Ratio < Word
              /\ \A e \in Estimates : Course(Squared(a), e)[Detour] >= s
      BY DEF Convergent
    <2>2. s \in Nat /\ s + 1 < RootLimit
      BY <2>1, LimitType
    <2> QED BY <2>1, <2>2
  <1> QED BY <1>1, <1>2

\* Any estimate is the first of a course.
LEMMA NearingBegins ==
    ASSUME Convergent, NEW a \in Amplitudes, NEW e \in Estimates
    PROVE  Nearing(Squared(a), e, 0)
  <1> DEFINE n == Squared(a)
  <1>1. n \in Nat
    BY ChannelAssumption, SquaredType
  <1>2. Detour \in Nat
    BY ConvergentFacts
  <1> HIDE DEF n
  <1>3. e = Course(n, e)[0]
    BY <1>1, <1>2, CourseSteps
  <1>4. ASSUME 0 >= Detour, NEW s \in Nat, IsRoot(s, n)
        PROVE  s <= e /\ e - s <= Far(0 - Detour)
    <2>1. Detour = 0
      BY <1>2, <1>4
    <2>2. PICK t \in Nat : IsRoot(t, n) /\ Course(n, e)[Detour] >= t
      BY ConvergentFacts DEF n
    <2>3. s = t
      BY <1>1, <1>4, <2>2, OneRoot
    <2>4. e \in Words /\ e \in Nat
      BY EstimatesFacts, WordFacts
    <2>5. e <= Far(0) /\ Far(0) \in Nat
      BY <2>4, FarFacts
    <2> QED BY <1>3, <2>1, <2>2, <2>3, <2>4, <2>5
  <1> QED BY <1>3, <1>4 DEF Nearing, n

\* One more sample takes it closer, or keeps it as close as it gets.
LEMMA NearingStep ==
    ASSUME Convergent, NEW a \in Amplitudes, NEW e, NEW k \in 0 .. NB_ITERATIONS,
           Nearing(Squared(a), e, k),
           NEW next \in 0 .. NB_ITERATIONS, next = k + 1 \/ (next = k /\ k = NB_ITERATIONS)
    PROVE  Nearing(Squared(a), Stepped(Squared(a), e), next)
  <1> DEFINE n == Squared(a)
             after == Stepped(n, e)
  <1>1. n \in Nat /\ e \in Estimates
    BY ChannelAssumption, SquaredType DEF Nearing
  <1>2. Detour \in Nat /\ NB_ITERATIONS = Detour + 15
    BY ConvergentFacts
  <1>3. Nearing(n, e, k)
    OBVIOUS
  <1>4. PICK t \in Nat : /\ IsRoot(t, n) /\ (t + 1) * Ratio < Word
                         /\ \A f \in Estimates : Course(n, f)[Detour] >= t
    BY ConvergentFacts
  <1> HIDE DEF n
  <1>5. after \in Estimates /\ after \in Words /\ after \in Nat /\ e \in Nat
    <2>1. after \in Estimates
      BY <1>1, SteppedType
    <2>2. after \in Words /\ e \in Words
      BY <1>1, <2>1, EstimatesFacts
    <2> QED BY <2>1, <2>2, WordFacts
  <1>6. ASSUME next <= Detour
        PROVE  \E first \in Estimates : after = Course(n, first)[next]
    <2>1. next = k + 1 /\ k <= Detour
      BY <1>2, <1>6
    <2>2. PICK first \in Estimates : e = Course(n, first)[k]
      BY <1>3, <2>1 DEF Nearing
    <2>3. next \in 0 .. Detour /\ next > 0 /\ next - 1 = k
      BY <1>2, <1>6, <2>1
    <2>4. Course(n, first)[next] = Stepped(n, Course(n, first)[next - 1])
      BY <1>1, <1>2, <2>3, CourseSteps
    <2> QED BY <2>2, <2>3, <2>4
  <1>7. ASSUME next >= Detour, NEW s \in Nat, IsRoot(s, n)
        PROVE  s <= after /\ after - s <= Far(next - Detour)
    <2>1. s = t
      BY <1>1, <1>4, <1>7, OneRoot
    <2>2. CASE next = Detour
      <3>1. PICK first \in Estimates : after = Course(n, first)[Detour]
        BY <1>2, <1>6, <2>2
      <3>2. t <= after
        BY <1>4, <1>5, <3>1
      <3>3. after <= Far(0) /\ Far(0) \in Nat
        BY <1>5, FarFacts
      <3> QED BY <1>2, <1>5, <2>1, <2>2, <3>2, <3>3
    <2>3. CASE next > Detour
      <3>1. k >= Detour
        BY <1>2, <2>3
      <3>2. s <= e /\ e - s <= Far(k - Detour)
        BY <1>3, <1>7, <3>1 DEF Nearing
      <3>3. /\ s <= after
            /\ e = s => after <= s + 1
            /\ e > s => after <= s + (e - s) \div 2
        BY <1>1, <1>4, <1>7, <2>1, <3>2, StepNear
      <3>4. PICK m \in Nat : m = k - Detour
        BY <1>2, <3>1
      <3>5. PICK m2 \in Nat : m2 = next - Detour
        BY <1>2, <2>3
      <3>6. Far(m) \in Nat /\ Far(m2) \in Nat /\ 1 <= Far(m2)
        BY FarFacts
      <3>7. Far(m) <= 2 * Far(m2) + 1
        <4>1. CASE next = k + 1
          <5>1. m2 = m + 1
            BY <1>2, <3>4, <3>5, <4>1
          <5> QED BY <5>1, FarFacts
        <4>2. CASE next = k /\ k = NB_ITERATIONS
          <5>1. m2 = m /\ m >= 15
            BY <1>2, <3>4, <3>5, <4>2
          <5>2. Far(m) = 1
            BY <5>1, FarFacts
          <5> QED BY <5>1, <5>2
        <4> QED BY <4>1, <4>2
      <3> QED BY <1>5, <3>2, <3>3, <3>4, <3>5, <3>6, <3>7
    <2> QED BY <1>2, <1>7, <2>2, <2>3
  <1> QED BY <1>5, <1>6, <1>7 DEF Nearing, n

\* After all of them it is the root, or one more.
LEMMA NearingEnds ==
    ASSUME Convergent, NEW a \in Amplitudes, NEW e, Nearing(Squared(a), e, NB_ITERATIONS)
    PROVE  e < RootLimit /\ (IsRoot(e, Squared(a)) \/ IsRoot(e - 1, Squared(a)))
  <1>1. /\ Detour \in Nat /\ NB_ITERATIONS \in Nat /\ NB_ITERATIONS = Detour + 15
        /\ NB_ITERATIONS >= Detour /\ NB_ITERATIONS - Detour = 15
    BY ConvergentFacts
  <1>2. PICK s \in Nat : IsRoot(s, Squared(a)) /\ s + 1 < RootLimit
    BY ConvergentFacts
  <1>3. Far(NB_ITERATIONS - Detour) = 1
    BY <1>1, FarFacts
  <1>4. s <= e /\ e - s <= 1 /\ e \in Nat
    <2>1. e \in Words
      BY EstimatesFacts DEF Nearing
    <2> QED BY <1>1, <1>2, <1>3, <2>1, WordFacts DEF Nearing
  <1>5. e = s \/ e - 1 = s
    BY <1>4
  <1>6. e < RootLimit
    BY <1>2, <1>4, LimitType
  <1> QED BY <1>2, <1>5, <1>6

\* The RMS value is 0 until the window is full; the window ends in as many readings of
\* the amplitude's size as steady says, and once it is full of them, the estimate nears
\* the root.
SInv ==
    /\ channel.queue.firstTime => channel.rms = 0 /\ Len(recent) < ARRAY_SIZE
    /\ steady \in 0 .. Settled
    /\ steady <= Len(recent) \/ Len(recent) = ARRAY_SIZE
    /\ \A i \in 1 .. Len(recent) :
           Len(recent) < steady + i => Squared(recent[i]) = Squared(amplitude)
    /\ \A k \in 0 .. NB_ITERATIONS :
           steady = ARRAY_SIZE + k => Nearing(Squared(amplitude), channel.rms \div Ratio, k)

\* A reading has the amplitude's size, but for one of exactly 0.
LEMMA Sizes ==
    ASSUME Wave, NEW value \in Readings
    PROVE  (value = 0 /\ amplitude # 0) \/ Squared(value) = Squared(amplitude)
  <1>1. amplitude \in Nat
    BY ChannelAssumption DEF Wave
  <1>2. value \in {amplitude, - amplitude} \/ value = 0
    BY <1>1 DEF Readings
  <1>3. Squared(- amplitude) = Squared(amplitude)
    <2>1. 25 * (- amplitude) * (- amplitude) = 25 * amplitude * amplitude
      BY <1>1
    <2> QED BY <2>1 DEF Squared
  <1> QED BY <1>2, <1>3

\* The last readings after one more.
Follows(t, s, value) ==
    /\ Len(t) = IF Len(s) < ARRAY_SIZE THEN Len(s) + 1 ELSE ARRAY_SIZE
    /\ t[Len(t)] = value
    /\ \A i \in 1 .. Len(t) : i # Len(t) =>
           \E j \in 1 .. Len(s) : t[i] = s[j] /\ Len(s) + i + 1 = Len(t) + j

LEMMA NewerEnds ==
    ASSUME NEW s \in Seq(Int), Len(s) <= ARRAY_SIZE, NEW value \in Int
    PROVE  Follows(Newer(s, value), s, value)
  <1> DEFINE t == Newer(s, value)
  <1>1. ARRAY_SIZE \in Nat \ {0} /\ Len(s) \in Nat
    BY SamplingAssumption
  <1>2. CASE Len(s) < ARRAY_SIZE
    <2>1. t = Append(s, value)
      BY <1>2 DEF Newer
    <2> HIDE DEF t
    <2>2. /\ Len(t) = Len(s) + 1 /\ t[Len(s) + 1] = value
          /\ \A i \in 1 .. Len(s) : t[i] = s[i]
      BY <2>1
    <2>3. ASSUME NEW i \in 1 .. Len(t), i # Len(t)
          PROVE  \E j \in 1 .. Len(s) : t[i] = s[j] /\ Len(s) + i + 1 = Len(t) + j
      <3>1. i \in 1 .. Len(s) /\ Len(s) + i + 1 = Len(t) + i
        BY <1>1, <2>2, <2>3
      <3> QED BY <2>2, <3>1
    <2>4. Follows(t, s, value)
      BY <1>2, <2>2, <2>3 DEF Follows
    <2> QED BY <2>4 DEF t
  <1>3. CASE Len(s) = ARRAY_SIZE
    <2> DEFINE u == Tail(s)
    <2>1. t = Append(u, value)
      BY <1>1, <1>3 DEF Newer
    <2> HIDE DEF t
    <2>2. /\ u \in Seq(Int) /\ Len(u) = ARRAY_SIZE - 1
          /\ \A i \in 1 .. ARRAY_SIZE - 1 : u[i] = s[i + 1]
      BY <1>1, <1>3
    <2> HIDE DEF u
    <2>3. /\ Len(t) = ARRAY_SIZE /\ t[ARRAY_SIZE] = value
          /\ \A i \in 1 .. ARRAY_SIZE - 1 : t[i] = u[i]
      BY <1>1, <2>1, <2>2
    <2>4. ASSUME NEW i \in 1 .. Len(t), i # Len(t)
          PROVE  \E j \in 1 .. Len(s) : t[i] = s[j] /\ Len(s) + i + 1 = Len(t) + j
      <3>1. /\ i \in 1 .. ARRAY_SIZE - 1 /\ i + 1 \in 1 .. Len(s)
            /\ Len(s) + i + 1 = Len(t) + (i + 1)
        BY <1>1, <1>3, <2>3, <2>4
      <3>2. t[i] = s[i + 1]
        BY <2>2, <2>3, <3>1
      <3> QED BY <3>1, <3>2
    <2>5. Follows(t, s, value)
      BY <1>1, <1>3, <2>3, <2>4 DEF Follows
    <2> QED BY <2>5 DEF t
  <1> QED BY <1>1, <1>2, <1>3

LEMMA InitSettles == Convergent /\ Init => SInv
  <1> SUFFICES ASSUME Convergent, Init PROVE SInv
    OBVIOUS
  <1>1. ARRAY_SIZE \in Nat \ {0} /\ NB_ITERATIONS \in Nat
    BY SamplingAssumption
  <1>2. channel.rms = 0 /\ recent = <<>> /\ steady = 0
    BY DEF Init, NewChannel
  <1>3. Len(recent) = 0
    BY <1>2
  <1> QED BY <1>1, <1>2, <1>3 DEF SInv, Settled

LEMMA SampleSettles == Convergent /\ IInv /\ IInv' /\ SInv /\ Sample => SInv'
  <1> SUFFICES ASSUME Convergent, IInv, IInv', SInv, Sample PROVE SInv'
    OBVIOUS
  <1>1. /\ ARRAY_SIZE \in Nat \ {0} /\ NB_ITERATIONS \in Nat \ {0}
        /\ Settled \in Nat /\ Settled = ARRAY_SIZE + NB_ITERATIONS
    BY SamplingAssumption DEF Settled
  <1>2. PICK value \in Readings :
            /\ channel' = Sampled(channel, Ratio, value)
            /\ recent' = Newer(recent, value)
            /\ steady' = IF value = 0 /\ amplitude # 0 THEN 0
                         ELSE IF steady = Settled THEN steady ELSE steady + 1
            /\ amplitude' = amplitude
    BY DEF Sample, Newer
  <1>3. value \in Int /\ amplitude \in Amplitudes
    BY ReadingsType DEF IInv, Wave
  <1>4. /\ channel \in Channels /\ Holds(channel.queue, recent)
        /\ channel' \in Channels /\ Holds(channel'.queue, recent')
    BY DEF IInv
  <1>5. /\ recent \in Seq(Int) /\ channel.queue.nb = Len(recent) /\ Len(recent) <= ARRAY_SIZE
        /\ recent' \in Seq(Int) /\ channel'.queue.nb = Len(recent') /\ Len(recent') \in Nat
        /\ Len(recent') <= ARRAY_SIZE /\ channel'.queue.sum = SumOfSquares(recent')
        /\ channel.queue.firstTime \in BOOLEAN
    BY <1>1, <1>4 DEF Holds, Queues
  <1>6. steady \in Nat /\ steady <= Settled
    BY <1>1 DEF SInv
  <1>7. \/ steady' = 0
        \/ /\ Squared(value) = Squared(amplitude)
           /\ \/ steady' = steady + 1 /\ steady < Settled
              \/ steady' = steady /\ steady = Settled
    <2>1. CASE value = 0 /\ amplitude # 0
      BY <1>2, <2>1
    <2>2. CASE ~ (value = 0 /\ amplitude # 0)
      <3>1. Squared(value) = Squared(amplitude)
        BY <2>2, Sizes DEF IInv
      <3>2. CASE steady = Settled
        BY <1>2, <2>2, <3>1, <3>2
      <3>3. CASE steady # Settled
        BY <1>1, <1>2, <1>6, <2>2, <3>1, <3>3
      <3> QED BY <3>2, <3>3
    <2> QED BY <2>1, <2>2
  <1>8. steady' \in 0 .. Settled /\ steady' <= steady + 1
    BY <1>1, <1>6, <1>7
  <1>9. Follows(recent', recent, value)
    <2>1. Follows(Newer(recent, value), recent, value)
      BY <1>3, <1>5, NewerEnds
    <2> QED BY <1>2, <2>1
  <1>10. steady' <= Len(recent') \/ Len(recent') = ARRAY_SIZE
    <2>1. Len(recent) \in Nat /\ (steady <= Len(recent) \/ Len(recent) = ARRAY_SIZE)
      BY <1>5 DEF SInv
    <2> QED BY <1>1, <1>5, <1>6, <1>8, <1>9, <2>1 DEF Follows
  <1>11. ASSUME NEW i \in 1 .. Len(recent'), Len(recent') < steady' + i
         PROVE  Squared(recent'[i]) = Squared(amplitude)
    <2>1. Squared(value) = Squared(amplitude) /\ (steady' = steady + 1 \/ steady' = steady)
      BY <1>5, <1>7, <1>11
    <2>2. CASE i = Len(recent')
      BY <1>9, <2>1, <2>2 DEF Follows
    <2>3. CASE i # Len(recent')
      <3>1. PICK j \in 1 .. Len(recent) :
                recent'[i] = recent[j] /\ Len(recent) + i + 1 = Len(recent') + j
        BY <1>9, <2>3 DEF Follows
      <3>2. Len(recent) \in Nat /\ steady' \in Nat /\ steady' <= steady + 1
        BY <1>5, <1>6, <1>8
      <3>3. Len(recent) < steady + j
        BY <1>5, <1>6, <1>11, <3>1, <3>2
      <3> QED BY <3>1, <3>3 DEF SInv
    <2> QED BY <2>2, <2>3
  <1>12. channel'.queue.firstTime => channel'.rms = 0 /\ Len(recent') < ARRAY_SIZE
    <2> SUFFICES ASSUME channel'.queue.firstTime
                 PROVE  channel'.rms = 0 /\ Len(recent') < ARRAY_SIZE
      OBVIOUS
    <2> DEFINE first == channel.rms = 0 /\ channel'.queue.nb = ARRAY_SIZE
    <2>1. /\ channel'.queue.firstTime = (channel.queue.firstTime /\ ~ first)
          /\ channel.queue.firstTime /\ ~ first => channel'.rms = channel.rms
      BY <1>2, <1>3, <1>4, SampledParts, ChannelAssumption
    <2>2. channel.queue.firstTime /\ ~ first
      BY <1>5, <2>1
    <2>3. channel.rms = 0
      BY <2>2 DEF SInv
    <2> QED BY <1>1, <1>5, <2>1, <2>2, <2>3
  <1>13. ASSUME NEW next \in 0 .. NB_ITERATIONS, steady' = ARRAY_SIZE + next
         PROVE  Nearing(Squared(amplitude), channel'.rms \div Ratio, next)
    <2> DEFINE n == Squared(amplitude)
               e == channel.rms \div Ratio
    <2>1. CASE steady < ARRAY_SIZE
      <3>1. next = 0
        BY <1>1, <1>6, <1>8, <1>13, <2>1
      <3>2. channel'.rms \div Ratio \in Estimates
        BY <1>4, EstimatesFacts DEF Channels
      <3> QED BY <1>3, <3>1, <3>2, NearingBegins
    <2>2. CASE steady >= ARRAY_SIZE
      <3>1. PICK k \in 0 .. NB_ITERATIONS : steady = ARRAY_SIZE + k
        <4>1. steady - ARRAY_SIZE \in 0 .. NB_ITERATIONS
              /\ steady = ARRAY_SIZE + (steady - ARRAY_SIZE)
          BY <1>1, <1>6, <2>2
        <4> QED BY <4>1
      <3>2. Nearing(n, e, k)
        BY <3>1 DEF SInv
      <3>3. next = k + 1 \/ (next = k /\ k = NB_ITERATIONS)
        <4>1. steady' = steady + 1 \/ (steady' = steady /\ steady = ARRAY_SIZE + NB_ITERATIONS)
          BY <1>1, <1>7, <1>13
        <4> QED BY <1>1, <1>13, <3>1, <4>1
      <3>4. Len(recent) = ARRAY_SIZE /\ Len(recent') = ARRAY_SIZE
        BY <1>1, <1>5, <1>9, <2>2 DEF SInv, Follows
      <3>5. ~ channel.queue.firstTime
        BY <1>1, <3>4 DEF SInv
      <3>6. n \in Nat
        BY <1>3, ChannelAssumption, SquaredType
      <3> HIDE DEF n
      <3>7. channel'.queue.sum = ARRAY_SIZE * n
        <4>1. ASSUME NEW i \in 1 .. Len(recent') PROVE Squared(recent'[i]) = n
          <5>1. Len(recent') < steady' + i
            BY <1>1, <1>13, <3>4
          <5> QED BY <1>11, <5>1 DEF n
        <4>2. SumOfSquares(recent') = Len(recent') * n
          BY <1>5, <3>6, <4>1, UniformSum
        <4> QED BY <1>5, <3>4, <4>2
      <3>8. channel'.queue.sum \div ARRAY_SIZE = n
        BY <1>1, <3>6, <3>7, SMT
      <3>9. channel'.rms = (Math_SquareRoot(e, n, 1) * Ratio) % Word
        <4>1. channel'.rms = (Math_SquareRoot(channel.rms \div Ratio,
                                              channel'.queue.sum \div ARRAY_SIZE, 1) * Ratio) % Word
          BY <1>2, <1>3, <1>4, <3>5, SampledParts, ChannelAssumption
        <4> QED BY <3>8, <4>1
      <3>10. channel'.rms \div Ratio = Stepped(n, e)
        BY <3>9 DEF Stepped
      <3>11. Nearing(Squared(amplitude), Stepped(Squared(amplitude), e), next)
        BY <1>3, <3>2, <3>3, NearingStep DEF n
      <3> QED BY <3>10, <3>11 DEF n
    <2> QED BY <1>1, <1>6, <2>1, <2>2
  <1> QED BY <1>2, <1>8, <1>10, <1>11, <1>12, <1>13 DEF SInv, Settled

LEMMA NextSettles == Convergent /\ IInv /\ IInv' /\ SInv /\ [Next]_vars => SInv'
  <1> SUFFICES ASSUME Convergent, IInv, IInv', SInv, [Next]_vars PROVE SInv'
    OBVIOUS
  <1>1. CASE Sample
    BY <1>1, SampleSettles
  <1>2. CASE ChangeAmplitude
    <2>1. steady' = 0 /\ channel' = channel /\ recent' = recent
      BY <1>2 DEF ChangeAmplitude
    <2>2. ARRAY_SIZE \in Nat \ {0} /\ Settled \in Nat /\ Len(recent) \in Nat
      BY SamplingAssumption DEF Settled, IInv, Holds
    <2> QED BY <2>1, <2>2 DEF SInv, Settled
  <1>3. CASE UNCHANGED vars
    BY <1>3 DEF vars, SInv, Settled
  <1> QED BY <1>1, <1>2, <1>3 DEF Next

\* Once the readings have had one size for a window and NB_ITERATIONS samples, the RMS
\* value is the root of the mean square or one more, whatever it was before: for every
\* window, ratio and history, if no estimate stays below the root.
THEOREM RmsConverges == ASSUME Convergent PROVE Spec => []RmsSettles
  <1>1. Init /\ [][Next]_vars => []SInv
    <2>1. Init => SInv
      BY InitSettles
    <2>2. IInv /\ IInv' /\ SInv /\ [Next]_vars => SInv'
      BY NextSettles
    <2> QED BY <2>1, <2>2, InitOK, NextOK, PTL
  <1>2. IInv /\ SInv => RmsSettles
    <2> SUFFICES ASSUME IInv, SInv, steady = Settled
                 PROVE  LET r == channel.rms \div Ratio
                            mean == channel.queue.sum \div ARRAY_SIZE
                        IN  r < RootLimit /\ (IsRoot(r, mean) \/ IsRoot(r - 1, mean))
      BY DEF RmsSettles
    <2>1. /\ ARRAY_SIZE \in Nat \ {0} /\ NB_ITERATIONS \in Nat
          /\ steady = ARRAY_SIZE + NB_ITERATIONS
      BY SamplingAssumption DEF Settled
    <2>2. /\ recent \in Seq(Int) /\ Len(recent) \in Nat /\ Len(recent) <= ARRAY_SIZE
          /\ channel.queue.sum = SumOfSquares(recent)
      BY SamplingAssumption DEF IInv, Holds, Queues
    <2>3. Len(recent) = ARRAY_SIZE
      BY <2>1, <2>2 DEF SInv
    <2> DEFINE n == Squared(amplitude)
    <2>4. amplitude \in Amplitudes /\ n \in Nat
      BY ChannelAssumption, SquaredType DEF IInv, Wave
    <2>5. Nearing(n, channel.rms \div Ratio, NB_ITERATIONS)
      <3>1. NB_ITERATIONS \in 0 .. NB_ITERATIONS
        BY <2>1
      <3> QED BY <2>1, <3>1 DEF SInv
    <2>6. /\ channel.rms \div Ratio < RootLimit
          /\ IsRoot(channel.rms \div Ratio, n) \/ IsRoot((channel.rms \div Ratio) - 1, n)
      BY <2>4, <2>5, NearingEnds
    <2> HIDE DEF n
    <2>7. channel.queue.sum = ARRAY_SIZE * n
      <3>1. ASSUME NEW i \in 1 .. Len(recent) PROVE Squared(recent[i]) = n
        <4>1. Len(recent) < steady + i
          BY <2>1, <2>3
        <4> QED BY <4>1 DEF SInv, n
      <3>2. SumOfSquares(recent) = Len(recent) * n
        BY <2>2, <2>4, <3>1, UniformSum
      <3> QED BY <2>2, <2>3, <3>2
    <2>8. channel.queue.sum \div ARRAY_SIZE = n
      BY <2>1, <2>4, <2>7, SMT
    <2> QED BY <2>6, <2>8
  <1>3. Init /\ [][Next]_vars => []RmsSettles
    BY <1>1, <1>2, InitOK, NextOK, PTL
  <1> QED BY <1>3, PTL DEF Spec

-----------------------------------------------------------------------------
(* The frequency difference.  The loop measures half a cycle of the mains  *)
(* from crossing to crossing, and corrects itself in the right direction,  *)
(* unless a crossing was hidden or the mains was away in between.          *)

\* The time between two samples.
Period == Base + frequency.TickPeriod

\* The last sample was y into the half of the wave that begins at w, where its sign is
\* the one kept in previousVoltage; a sample at the end of a half may have either.
Place(y, w) ==
    /\ y \in 0 .. half /\ w \in {0, half}
    /\ frequency.previousVoltage > 0 => w = 0
    /\ frequency.previousVoltage < 0 => w = half
    /\ phase \in {y + w + Period, y + w + Period - 2 * half}

\* The times the mains came back; one under way does not count yet.
Blackouts == IF amplitude = 0 /\ changes > 0 THEN (changes - 1) \div 2 ELSE changes \div 2

Within(slack, more) ==
    frequency.FrequencyDiff \in Lowest(half) - 1 - slack .. Highest(half) + 1 + slack + more

\* tickCnt samples were taken since a crossing that was seen, h hidden ones before.
Timed(y, h) ==
    /\ frequency.tickCnt * Period <= y + h * half
    /\ y + h * half <= (frequency.tickCnt + 1) * Period
    /\ frequency.previousVoltage = 0 => y = 0

Idle == ~ frequency.started /\ Within(Blackouts, zeros)

Counting(y) ==
    \/ Timed(y, 0) /\ Within(Blackouts, zeros)
    \/ \E h \in 1 .. zeros : Timed(y, h) /\ Within(Blackouts, zeros - 1)

\* tickCnt may be anything: the mains is away, or was when it counted.
Spoiled ==
    changes > 0 /\ Within(IF amplitude = 0 THEN Blackouts ELSE Blackouts - 1, zeros)

DInv ==
    /\ changes \in 0 .. MaxChanges /\ zeros \in 0 .. MaxZeros
    /\ frequency.started \/ frequency.tickCnt = 0
    /\ frequency.started => amplitude # 0 \/ changes > 0
    /\ \/ frequency.TickPeriod = frequency.FrequencyDiff
       \/ frequency.TickPeriod = 0 /\ frequency.FrequencyDiff = InitialDiff
    /\ \E y \in 0 .. half, w \in {0, half} : Place(y, w) /\ (Idle \/ Counting(y) \/ Spoiled)

\* The remainder of up to twice the divisor.
LEMMA TwiceAround ==
    ASSUME NEW n \in Nat \ {0}, NEW m \in 0 .. 2 * n - 1
    PROVE  m % n = IF m < n THEN m ELSE m - n
  BY SMT

\* A half cycle with fewer samples: the period is not too short.
LEMMA Fewer ==
    ASSUME NEW p \in Nat, NEW c \in Nat, c < HalfCycle, NEW h \in Nat, h <= (c + 2) * p
    PROVE  h \div (HalfCycle + 1) <= p
  <1> DEFINE n == HalfCycle + 1
             q == h \div n
  <1>1. n \in Nat \ {0} /\ c + 2 <= n
    BY SamplingAssumption
  <1>2. q \in Nat /\ n * q <= h
    BY <1>1, Quotient
  <1> HIDE DEF n, q
  <1>3. (c + 2) * p <= n * p
    BY <1>1, SMT
  <1>4. n * q <= n * p
    BY <1>1, <1>2, <1>3, SMT
  <1>5. q <= p
    BY <1>1, <1>2, <1>4, SMT
  <1> QED BY <1>5 DEF n, q

\* A half cycle with more samples: the period is not too long.
LEMMA Longer ==
    ASSUME NEW p \in Nat, NEW c \in Nat, c > HalfCycle, NEW h \in Nat, c * p <= h
    PROVE  p <= h \div (HalfCycle + 1)
  <1> DEFINE n == HalfCycle + 1
             q == h \div n
  <1>1. n \in Nat \ {0} /\ n <= c
    BY SamplingAssumption
  <1>2. q \in Nat /\ h < n * q + n
    BY <1>1, Quotient
  <1> HIDE DEF n, q
  <1>3. n * p <= c * p
    BY <1>1, SMT
  <1>4. n * p < n * (q + 1)
    BY <1>1, <1>2, <1>3, SMT
  <1>5. p < q + 1
    BY <1>1, <1>2, <1>4, SMT
  <1> QED BY <1>1, <1>2, <1>5 DEF n, q

LEMMA Signs ==
    ASSUME NEW a \in Int, NEW b \in Int
    PROVE  a * b < 0 <=> (a > 0 /\ b < 0) \/ (a < 0 /\ b > 0)
  BY SMT

\* What the constants say in a state.
LEMMA Proportions ==
    ASSUME InProportion, IInv, DInv
    PROVE  LET most == Highest(half) + 1 + MaxChanges \div 2 + MaxZeros
           IN  /\ half \in Nat \ {0} /\ Base \in Nat \ {0} /\ InitialDiff \in 0 .. 255
               /\ HalfCycle \in Nat \ {0} /\ MaxChanges \in Nat /\ MaxZeros \in Nat
               /\ Lowest(half) \in Int /\ Highest(half) \in Int /\ Ideal \in Int
               /\ Lowest(half) <= Ideal /\ Ideal <= Highest(half)
               /\ Lowest(half) <= InitialDiff /\ InitialDiff <= Highest(half)
               /\ Lowest(half) > MaxChanges \div 2
               /\ most <= 255 /\ Base + most < half
               /\ (MaxZeros + 1) * half < 256 * Base
  <1>1. /\ half \in HalfPeriods /\ half \in Nat \ {0} /\ Base \in Nat \ {0}
        /\ InitialDiff \in 0 .. 255 /\ HalfCycle \in Nat \ {0}
        /\ MaxChanges \in Nat /\ MaxZeros \in Nat
    BY ChannelAssumption, SamplingAssumption DEF IInv, Wave
  <1>2. half \div (HalfCycle + 1) \in Nat
    BY <1>1, Quotient
  <1>3. Ideal \in Int /\ IdealFor(half) = Ideal
    BY <1>1, <1>2 DEF Ideal, IdealFor
  <1>4. /\ Lowest(half) \in Int /\ Highest(half) \in Int
        /\ Lowest(half) <= Ideal /\ Ideal <= Highest(half)
        /\ Lowest(half) <= InitialDiff /\ InitialDiff <= Highest(half)
    BY <1>1, <1>3 DEF Lowest, Highest
  <1> QED BY <1>1, <1>3, <1>4 DEF InProportion

\* What the difference is within, whichever count is under way.
LEMMA Slack ==
    ASSUME InProportion, IInv, DInv, NEW y \in 0 .. half, Idle \/ Counting(y) \/ Spoiled
    PROVE  /\ Within(Blackouts, zeros)
           /\ changes \in Nat /\ zeros \in Nat /\ amplitude \in Nat /\ Blackouts \in Nat
           /\ Blackouts <= changes \div 2 /\ changes \div 2 <= MaxChanges \div 2
  <1>1. /\ Lowest(half) \in Int /\ Highest(half) \in Int /\ half \in Nat /\ MaxChanges \in Nat
    BY Proportions
  <1>2. changes \in Nat /\ zeros \in Nat /\ amplitude \in Nat /\ changes <= MaxChanges
    BY ChannelAssumption DEF DInv, IInv, Wave
  <1>3. Blackouts \in Nat /\ Blackouts <= changes \div 2 /\ changes \div 2 <= MaxChanges \div 2
    BY <1>1, <1>2 DEF Blackouts
  <1>4. frequency.FrequencyDiff \in Int
    BY DEF IInv, Frequencies
  <1>5. CASE Idle
    BY <1>2, <1>3, <1>5 DEF Idle
  <1>6. CASE Counting(y)
    BY <1>1, <1>2, <1>3, <1>4, <1>6 DEF Counting, Within
  <1>7. CASE Spoiled
    BY <1>1, <1>2, <1>3, <1>4, <1>7 DEF Spoiled, Within
  <1> QED BY <1>2, <1>3, <1>5, <1>6, <1>7

\* The period is shorter than half a cycle.
LEMMA PeriodType ==
    ASSUME InProportion, IInv, DInv, NEW y \in 0 .. half, Idle \/ Counting(y) \/ Spoiled
    PROVE  Period \in Nat /\ Base <= Period /\ Period < half
  <1>1. /\ half \in Nat \ {0} /\ Base \in Nat \ {0} /\ InitialDiff \in 0 .. 255
        /\ Highest(half) \in Int /\ InitialDiff <= Highest(half) /\ Lowest(half) \in Int
        /\ MaxChanges \div 2 \in Nat /\ MaxZeros \in Nat
        /\ Base + (Highest(half) + 1 + MaxChanges \div 2 + MaxZeros) < half
    BY Proportions
  <1>2. /\ Within(Blackouts, zeros) /\ zeros \in Nat /\ zeros <= MaxZeros
        /\ Blackouts \in Nat /\ Blackouts <= MaxChanges \div 2
    <2>1. changes \div 2 \in Nat
      BY DEF DInv
    <2> QED BY <1>1, <2>1, Slack DEF DInv
  <1>3. frequency.TickPeriod \in Nat
    BY DEF IInv, Frequencies
  <1>4. CASE frequency.TickPeriod = frequency.FrequencyDiff
    BY <1>1, <1>2, <1>3, <1>4 DEF Within, Period
  <1>5. CASE frequency.TickPeriod = 0
    BY <1>1, <1>3, <1>5 DEF Period
  <1> QED BY <1>3, <1>4, <1>5 DEF DInv

\* What a reading says of the place.
LEMMA ReadingAt ==
    ASSUME NEW y \in 0 .. half, NEW w \in {0, half}, Place(y, w), Wave,
           Period \in Nat \ {0}, Period < half, NEW value \in Readings
    PROVE  /\ amplitude \in Nat /\ value \in Int
           /\ y + Period < half => value = IF w = 0 THEN amplitude ELSE - amplitude
           /\ y + Period > half => value = IF w = 0 THEN - amplitude ELSE amplitude
           /\ value \in {amplitude, - amplitude}
              \/ (value = 0 /\ zeros < MaxZeros /\ y + Period = half)
  <1>1. half \in Nat \ {0} /\ phase \in 0 .. 2 * half - 1 /\ amplitude \in Nat
    BY ChannelAssumption DEF Wave
  <1>2. phase % half = IF phase < half THEN phase ELSE phase - half
    BY <1>1, TwiceAround
  <1>3. phase \in {y + w + Period, y + w + Period - 2 * half}
    BY DEF Place
  <1>4. CASE y + Period = half
    <2>1. phase \in {0, half}
      BY <1>1, <1>3, <1>4
    <2>2. phase % half = 0
      BY <1>1, <1>2, <2>1
    <2> QED BY <1>1, <1>4, <2>2 DEF Readings
  <1>5. CASE y + Period < half
    <2>1. phase = y + Period + w /\ phase % half # 0 /\ (phase < half <=> w = 0)
      BY <1>1, <1>2, <1>3, <1>5
    <2> QED BY <1>1, <1>5, <2>1 DEF Readings
  <1>6. CASE y + Period > half
    <2>1. phase % half # 0 /\ (phase < half <=> w = half)
      BY <1>1, <1>2, <1>3, <1>6
    <2> QED BY <1>1, <1>6, <2>1 DEF Readings
  <1> QED BY <1>1, <1>4, <1>5, <1>6

\* The place of the next sample, p after the one just taken.
LEMMA PlaceMoves ==
    ASSUME NEW y \in 0 .. half, NEW w \in {0, half}, Place(y, w), Wave,
           Period \in Nat \ {0}, Period < half, NEW p \in Nat, p < half
    PROVE  /\ y + Period <= half =>
                (phase + p) % (2 * half) \in {y + Period + w + p, y + Period + w + p - 2 * half}
           /\ y + Period >= half =>
                (phase + p) % (2 * half) \in {(y + Period - half) + (half - w) + p,
                                              (y + Period - half) + (half - w) + p - 2 * half}
  <1>1. half \in Nat \ {0} /\ phase \in 0 .. 2 * half - 1
    BY ChannelAssumption DEF Wave
  <1>2. phase \in {y + w + Period, y + w + Period - 2 * half}
    BY DEF Place
  <1> DEFINE after == (phase + p) % (2 * half)
  <1>3. after = (IF phase + p < 2 * half THEN phase + p ELSE phase + p - 2 * half)
    <2> DEFINE n == 2 * half
               m == phase + p
    <2>1. m \in 0 .. 2 * n - 1 /\ n \in Nat \ {0}
      BY <1>1
    <2> HIDE DEF n, m
    <2>2. m % n = IF m < n THEN m ELSE m - n
      BY <2>1, TwiceAround
    <2> QED BY <1>1, <2>2 DEF n, m
  <1> QED BY <1>1, <1>2, <1>3

\* A sample is taken at a place.
Taking(value, y, w) ==
    /\ InProportion /\ IInv /\ IInv' /\ DInv
    /\ value \in Readings /\ y \in 0 .. half /\ w \in {0, half} /\ Place(y, w)
    /\ Idle \/ Counting(y) \/ Spoiled
    /\ frequency' = MeterFrequency(frequency, value)
    /\ phase' = (phase + Base + frequency'.TickPeriod) % (2 * half)
    /\ zeros' = IF value = 0 /\ amplitude # 0 THEN zeros + 1 ELSE zeros
    /\ UNCHANGED <<half, amplitude, changes>>

LEMMA Taken ==
    ASSUME NEW value, NEW y, NEW w, Taking(value, y, w)
    PROVE  /\ half \in Nat \ {0} /\ y \in 0 .. half /\ w \in {0, half}
           /\ Period \in Nat \ {0} /\ Period < half /\ Base \in Nat \ {0}
           /\ amplitude \in Nat /\ value \in Int /\ changes \in 0 .. MaxChanges
           /\ zeros \in Nat /\ zeros' \in Nat /\ zeros <= zeros' /\ zeros' \in 0 .. MaxZeros
           /\ Blackouts \in Nat /\ Blackouts' = Blackouts /\ half' = half
           /\ Lowest(half) \in Int /\ Highest(half) \in Int
           /\ Within(Blackouts, zeros)
           /\ frequency \in Frequencies /\ frequency' \in Frequencies
  <1>1. /\ half \in Nat \ {0} /\ Base \in Nat \ {0} /\ Lowest(half) \in Int /\ Highest(half) \in Int
        /\ MaxChanges \in Nat /\ MaxZeros \in Nat
    BY Proportions DEF Taking
  <1>2. /\ Within(Blackouts, zeros) /\ amplitude \in Nat /\ Blackouts \in Nat /\ zeros \in Nat
    BY Slack DEF Taking
  <1>3. Period \in Nat \ {0} /\ Period < half
    <2>1. Period \in Nat /\ Base <= Period /\ Period < half
      BY PeriodType DEF Taking
    <2> QED BY <1>1, <2>1
  <1>4. /\ value \in Int
        /\ \/ value \in {amplitude, - amplitude}
           \/ value = 0 /\ zeros < MaxZeros /\ y + Period = half
    BY <1>3, ReadingAt DEF Taking, IInv
  <1>5. changes \in 0 .. MaxChanges /\ zeros \in 0 .. MaxZeros
    BY DEF Taking, DInv
  <1>6. zeros' \in Nat /\ zeros <= zeros' /\ zeros' \in 0 .. MaxZeros
    BY <1>1, <1>2, <1>4, <1>5 DEF Taking
  <1>7. Blackouts' = Blackouts /\ half' = half
    BY DEF Taking, Blackouts
  <1>8. frequency \in Frequencies /\ frequency' \in Frequencies
    BY DEF Taking, IInv
  <1> QED BY <1>1, <1>2, <1>3, <1>4, <1>5, <1>6, <1>7, <1>8 DEF Taking

\* No crossing: the count goes on, and nothing else.
LEMMA Uncrossed ==
    ASSUME NEW value \in Int, frequency \in Frequencies, ~ Crossed(frequency, value)
    PROVE  MeterFrequency(frequency, value) =
               [frequency EXCEPT !.previousVoltage = value,
                                 !.tickCnt = IF frequency.started THEN (@ + 1) % 256 ELSE @]
  BY DEF MeterFrequency, Crossed, Frequencies

\* The place without a crossing.
LEMMA Onward ==
    ASSUME NEW value, NEW y, NEW w, Taking(value, y, w), ~ Crossed(frequency, value)
    PROVE  /\ frequency'.started = frequency.started
           /\ frequency'.previousVoltage = value
           /\ frequency'.tickCnt =
                IF frequency.started THEN (frequency.tickCnt + 1) % 256 ELSE frequency.tickCnt
           /\ frequency'.FrequencyDiff = frequency.FrequencyDiff
           /\ frequency'.TickPeriod = frequency.TickPeriod
           /\ Period' = Period
           /\ frequency'.started \/ frequency'.tickCnt = 0
           /\ \/ frequency'.TickPeriod = frequency'.FrequencyDiff
              \/ frequency'.TickPeriod = 0 /\ frequency'.FrequencyDiff = InitialDiff
           /\ Within(Blackouts, zeros)'
           /\ y + Period <= half =>
                phase' \in {y + Period + w + Period, y + Period + w + Period - 2 * half}
           /\ y + Period >= half =>
                phase' \in {(y + Period - half) + (half - w) + Period,
                            (y + Period - half) + (half - w) + Period - 2 * half}
  <1>1. frequency \in Frequencies /\ value \in Int
    BY Taken
  <1>2. frequency' = [frequency EXCEPT !.previousVoltage = value,
                          !.tickCnt = IF frequency.started THEN (@ + 1) % 256 ELSE @]
    BY <1>1, Uncrossed DEF Taking
  <1>3. /\ frequency'.started = frequency.started
        /\ frequency'.previousVoltage = value
        /\ frequency'.tickCnt =
             IF frequency.started THEN (frequency.tickCnt + 1) % 256 ELSE frequency.tickCnt
        /\ frequency'.FrequencyDiff = frequency.FrequencyDiff
        /\ frequency'.TickPeriod = frequency.TickPeriod
    BY <1>1, <1>2 DEF Frequencies
  <1>4. Period' = Period
    BY <1>3 DEF Period
  <1>5. /\ frequency'.started \/ frequency'.tickCnt = 0
        /\ \/ frequency'.TickPeriod = frequency'.FrequencyDiff
           \/ frequency'.TickPeriod = 0 /\ frequency'.FrequencyDiff = InitialDiff
    BY <1>3 DEF Taking, DInv
  <1>6. Within(Blackouts, zeros)'
    <2>1. /\ half' = half /\ Blackouts' = Blackouts /\ zeros \in Nat /\ zeros' \in Nat
          /\ zeros <= zeros' /\ Within(Blackouts, zeros) /\ Blackouts \in Nat
          /\ Lowest(half) \in Int /\ Highest(half) \in Int
      BY Taken
    <2>2. frequency.FrequencyDiff \in Int
      BY <1>1 DEF Frequencies
    <2> QED BY <1>3, <2>1, <2>2 DEF Within
  <1>7. phase' = (phase + Period) % (2 * half)
    <2>1. phase \in Int /\ Base \in Nat /\ frequency.TickPeriod \in Nat
          /\ phase' = (phase + Base + frequency.TickPeriod) % (2 * half)
      <3>1. half \in Nat \ {0} /\ phase \in 0 .. 2 * half - 1
        BY Taken DEF Taking, IInv, Wave
      <3> QED BY <1>1, <1>3, <3>1, Taken DEF Taking, Frequencies
    <2>2. phase + Base + frequency.TickPeriod = phase + Period
      BY <2>1 DEF Period
    <2> QED BY <2>1, <2>2
  <1>8. /\ y \in 0 .. half /\ w \in {0, half} /\ Place(y, w) /\ Wave
        /\ Period \in Nat \ {0} /\ Period \in Nat /\ Period < half
    BY Taken DEF Taking, IInv
  <1>9. /\ y + Period <= half =>
             phase' \in {y + Period + w + Period, y + Period + w + Period - 2 * half}
        /\ y + Period >= half =>
             phase' \in {(y + Period - half) + (half - w) + Period,
                         (y + Period - half) + (half - w) + Period - 2 * half}
    BY <1>7, <1>8, PlaceMoves, Zenon
  <1> QED BY <1>3, <1>4, <1>5, <1>6, <1>9

\* The new place and what is known of the count make the invariant.
LEMMA Placed ==
    ASSUME NEW value, NEW y, NEW w, Taking(value, y, w),
           NEW ny \in 0 .. half, NEW nw \in {0, half}, Place(ny, nw)',
           Idle' \/ Counting(ny)' \/ Spoiled',
           frequency'.started \/ frequency'.tickCnt = 0,
           frequency'.started => amplitude # 0 \/ changes > 0,
           \/ frequency'.TickPeriod = frequency'.FrequencyDiff
           \/ frequency'.TickPeriod = 0 /\ frequency'.FrequencyDiff = InitialDiff
    PROVE  DInv'
  <1>1. /\ changes' = changes /\ amplitude' = amplitude /\ half' = half
        /\ changes \in 0 .. MaxChanges /\ zeros' \in 0 .. MaxZeros
    BY Taken DEF Taking
  <1>2. \E yy \in 0 .. half', ww \in {0, half'} :
            Place(yy, ww)' /\ (Idle' \/ Counting(yy)' \/ Spoiled')
    BY <1>1
  <1> QED BY <1>1, <1>2 DEF DInv

\* A sample of 0 while the mains is away.
LEMMA DarkSample ==
    ASSUME NEW value, NEW y, NEW w, Taking(value, y, w), amplitude = 0
    PROVE  DInv'
  <1>1. /\ half \in Nat \ {0} /\ y \in 0 .. half /\ w \in {0, half}
        /\ Period \in Nat \ {0} /\ Period < half /\ value \in Int /\ half' = half
        /\ frequency \in Frequencies /\ changes \in Nat
    BY Taken, ChannelAssumption
  <1>2. value = 0
    BY <1>1, ReadingAt DEF Taking, IInv
  <1>3. ~ Crossed(frequency, value)
    BY <1>1, <1>2 DEF Crossed, Frequencies
  <1>4. PICK ny \in 0 .. half, nw \in {0, half} :
            phase' \in {ny + nw + Period, ny + nw + Period - 2 * half}
    <2>1. CASE y + Period <= half
      <3>1. y + Period \in 0 .. half
        BY <1>1, <2>1
      <3> QED BY <1>1, <1>3, <2>1, <3>1, Onward
    <2>2. CASE y + Period >= half
      <3>1. y + Period - half \in 0 .. half /\ half - w \in {0, half}
        BY <1>1, <2>2
      <3> QED BY <1>1, <1>3, <2>2, <3>1, Onward
    <2> QED BY <1>1, <2>1, <2>2
  <1>5. Place(ny, nw)'
    BY <1>1, <1>2, <1>3, <1>4, Onward DEF Place
  <1>6. frequency'.started => changes > 0
    BY <1>3, Onward DEF Taking, DInv
  <1>7. Idle' \/ Spoiled'
    <2>1. Within(Blackouts, zeros)' /\ changes' = changes /\ amplitude' = 0
      BY <1>3, Onward DEF Taking
    <2> QED BY <1>6, <2>1 DEF Idle, Spoiled
  <1> QED BY <1>3, <1>5, <1>6, <1>7, Onward, Placed

\* One more sample counted, of which there were never so many that tickCnt wraps.
LEMMA Counted ==
    ASSUME NEW value, NEW y, NEW w, Taking(value, y, w), ~ Crossed(frequency, value),
           frequency.started, NEW h \in Nat, Timed(y, h),
           NEW ny \in 0 .. half, NEW nh \in Nat, nh <= zeros',
           ny + nh * half = y + h * half + Period, value = 0 => ny = 0
    PROVE  Timed(ny, nh)'
  <1> DEFINE c == frequency.tickCnt
  <1>1. /\ half \in Nat \ {0} /\ Period \in Nat \ {0} /\ Base \in Nat \ {0} /\ half' = half
        /\ y \in Nat /\ zeros' \in 0 .. MaxZeros
    BY Taken
  <1>2. c \in 0 .. 255 /\ Base <= Period
    <2>1. frequency \in Frequencies
      BY Taken
    <2> QED BY <2>1, PeriodType DEF Frequencies, Taking
  <1>3. /\ c * Period <= y + h * half /\ y + h * half <= (c + 1) * Period
    BY DEF Timed
  <1>4. MaxZeros \in Nat /\ (MaxZeros + 1) * half < 256 * Base
    BY Proportions DEF Taking
  <1>5. (c + 1) * Period <= ny + nh * half /\ ny + nh * half <= (c + 1 + 1) * Period
    <2>1. (c + 1) * Period = c * Period + Period /\ (c + 1 + 1) * Period = (c + 1) * Period + Period
          /\ c * Period \in Int /\ (c + 1) * Period \in Int /\ h * half \in Int /\ nh * half \in Int
      BY <1>1, <1>2, SMT
    <2> QED BY <1>1, <1>3, <2>1
  <1>6. c + 1 < 256
    <2>1. ny + nh * half <= (nh + 1) * half
      BY <1>1, SMT
    <2>2. (nh + 1) * half <= (MaxZeros + 1) * half
      BY <1>1, <1>4, SMT
    <2>3. (c + 1) * Period < 256 * Period
      <3>1. (c + 1) * Period \in Int /\ ny + nh * half \in Int /\ (nh + 1) * half \in Int
            /\ (MaxZeros + 1) * half \in Int
        BY <1>1, <1>2, <1>4
      <3> QED BY <1>1, <1>2, <1>4, <1>5, <2>1, <2>2, <3>1
    <2> QED BY <1>1, <1>2, <2>3, SMT
  <1>7. frequency'.tickCnt = c + 1 /\ Period' = Period
    <2>1. (c + 1) % 256 = c + 1
      BY <1>2, <1>6
    <2> QED BY <2>1, Onward
  <1>8. frequency'.previousVoltage = value
    BY Onward
  <1> QED BY <1>1, <1>5, <1>7, <1>8 DEF Timed

\* A reading of 0 at a crossing, which hides it.
LEMMA HiddenSample ==
    ASSUME NEW value, NEW y, NEW w, Taking(value, y, w), amplitude # 0, value = 0
    PROVE  DInv'
  <1>1. /\ half \in Nat \ {0} /\ y \in 0 .. half /\ w \in {0, half}
        /\ Period \in Nat \ {0} /\ Period < half /\ value \in Int /\ half' = half
        /\ frequency \in Frequencies /\ frequency' \in Frequencies
        /\ amplitude \in Nat /\ zeros \in Nat
        /\ Lowest(half) \in Int /\ Highest(half) \in Int
        /\ Blackouts \in Nat /\ Blackouts' = Blackouts
    BY Taken
  <1>2. y + Period = half /\ zeros' = zeros + 1
    <2>1. \/ value \in {amplitude, - amplitude}
          \/ (value = 0 /\ zeros < MaxZeros /\ y + Period = half)
      BY <1>1, ReadingAt DEF Taking, IInv
    <2> QED BY <1>1, <2>1 DEF Taking
  <1>3. ~ Crossed(frequency, value)
    BY <1>1 DEF Crossed, Frequencies
  <1>4. PICK nw \in {0, half} : nw = half - w
    BY <1>1
  <1>5. Place(0, nw)'
    <2>1. phase' \in {0 + nw + Period, 0 + nw + Period - 2 * half}
      BY <1>1, <1>2, <1>3, <1>4, Onward
    <2> QED BY <1>1, <1>3, <1>4, <2>1, Onward DEF Place
  <1>6. CASE ~ frequency.started
    <2>1. Idle'
      BY <1>3, <1>6, Onward DEF Idle
    <2>2. 0 \in 0 .. half
      BY <1>1
    <2> QED BY <1>3, <1>5, <1>6, <2>1, <2>2, Onward, Placed
  <1>7. CASE frequency.started
    <2>1. frequency.FrequencyDiff \in Int /\ frequency'.FrequencyDiff = frequency.FrequencyDiff
      BY <1>1, <1>3, Onward DEF Frequencies
    <2>2. ASSUME NEW h \in 0 .. zeros, Timed(y, h), Within(Blackouts, zeros)
          PROVE  Counting(0)'
      <3>1. h + 1 \in Nat /\ h + 1 <= zeros' /\ 0 + (h + 1) * half = y + h * half + Period
            /\ 0 \in 0 .. half /\ h \in Nat /\ h + 1 \in 1 .. zeros'
        BY <1>1, <1>2, SMT
      <3>2. Timed(0, h + 1)'
        BY <1>3, <1>7, <2>2, <3>1, Counted
      <3>3. Within(Blackouts, zeros - 1)'
        BY <1>1, <1>2, <2>1, <2>2 DEF Within
      <3> QED BY <3>1, <3>2, <3>3 DEF Counting
    <2>3. Idle \/ Counting(y) \/ Spoiled
      BY DEF Taking
    <2>4. ASSUME Counting(y) PROVE Counting(0)'
      <3>1. PICK h \in 0 .. zeros : Timed(y, h)
        BY <1>1, <2>4 DEF Counting
      <3> QED BY <2>2, <3>1, Taken
    <2>5. ASSUME Spoiled PROVE Spoiled'
      <3>1. changes' = changes /\ amplitude' = amplitude
        BY DEF Taking
      <3> QED BY <1>1, <1>2, <2>1, <2>5, <3>1 DEF Spoiled, Within
    <2>6. 0 \in 0 .. half
      BY <1>1
    <2>7. Counting(0)' \/ Spoiled'
      BY <1>7, <2>3, <2>4, <2>5 DEF Idle
    <2> QED BY <1>3, <1>5, <1>7, <2>6, <2>7, Onward, Placed
  <1> QED BY <1>6, <1>7

\* A reading that shows no crossing.
LEMMA PlainSample ==
    ASSUME NEW value, NEW y, NEW w, Taking(value, y, w), value # 0,
           ~ Crossed(frequency, value)
    PROVE  DInv'
  <1>1. /\ half \in Nat \ {0} /\ y \in 0 .. half /\ w \in {0, half}
        /\ Period \in Nat \ {0} /\ Period < half /\ value \in Int /\ half' = half
        /\ frequency \in Frequencies /\ frequency.previousVoltage \in Int
        /\ frequency.FrequencyDiff \in Int
        /\ amplitude \in Nat /\ zeros \in Nat /\ zeros' = zeros
        /\ Lowest(half) \in Int /\ Highest(half) \in Int
        /\ Blackouts \in Nat /\ Blackouts' = Blackouts
    BY Taken DEF Taking, Frequencies
  <1>2. /\ y + Period < half => value = IF w = 0 THEN amplitude ELSE - amplitude
        /\ y + Period > half => value = IF w = 0 THEN - amplitude ELSE amplitude
        /\ value \in {amplitude, - amplitude}
    BY <1>1, ReadingAt DEF Taking, IInv
  <1>3. amplitude > 0
    BY <1>1, <1>2
  <1>4. Spoiled => Spoiled'
    <2>1. changes' = changes /\ amplitude' = amplitude
          /\ frequency'.FrequencyDiff = frequency.FrequencyDiff
      BY Onward DEF Taking
    <2> QED BY <1>1, <2>1 DEF Spoiled, Within
  <1>5. ~ frequency.started => Idle'
    BY Onward DEF Idle
  <1>6. Place(y, w)
    BY DEF Taking
  <1>7. CASE y + Period <= half /\ value = IF w = 0 THEN amplitude ELSE - amplitude
    <2>1. PICK ny \in 0 .. half : ny = y + Period
      BY <1>1, <1>7
    <2>2. Place(ny, w)'
      <3>1. phase' \in {ny + w + Period, ny + w + Period - 2 * half}
        BY <1>7, <2>1, Onward
      <3> QED BY <1>1, <1>3, <1>7, <3>1, Onward DEF Place
    <2>3. ASSUME frequency.started, Counting(y) PROVE Counting(ny)'
      <3>1. ASSUME NEW h \in 0 .. zeros, Timed(y, h) PROVE Timed(ny, h)'
        <4>1. ny + h * half = y + h * half + Period /\ h \in Nat /\ h <= zeros'
          BY <1>1, <2>1
        <4> QED BY <2>3, <3>1, <4>1, Counted
      <3>2. CASE Timed(y, 0) /\ Within(Blackouts, zeros)
        <4>1. Timed(ny, 0)'
          BY <1>1, <3>1, <3>2
        <4> QED BY <3>2, <4>1, Onward DEF Counting
      <3>3. ASSUME NEW h \in 1 .. zeros, Timed(y, h), Within(Blackouts, zeros - 1)
            PROVE  Counting(ny)'
        <4>1. Timed(ny, h)'
          BY <1>1, <3>1, <3>3
        <4>2. Within(Blackouts, zeros - 1)'
          BY <1>1, <3>3, Onward DEF Within
        <4> QED BY <1>1, <4>1, <4>2 DEF Counting
      <3> QED BY <2>3, <3>2, <3>3 DEF Counting
    <2>4. Idle' \/ Counting(ny)' \/ Spoiled'
      BY <1>4, <1>5, <2>3 DEF Taking, Idle
    <2> QED BY <1>1, <1>3, <2>1, <2>2, <2>4, Onward, Placed
  <1>8. CASE y + Period >= half /\ value = IF w = 0 THEN - amplitude ELSE amplitude
    <2>1. PICK ny \in 0 .. half, nw \in {0, half} : ny = y + Period - half /\ nw = half - w
      <3>1. y + Period - half \in 0 .. half
        BY <1>1, <1>8
      <3>2. half - w \in {0, half}
        BY <1>1
      <3> QED BY <3>1, <3>2
    <2>2. Place(ny, nw)'
      <3>1. phase' \in {ny + nw + Period, ny + nw + Period - 2 * half}
        BY <1>8, <2>1, Onward
      <3> QED BY <1>1, <1>3, <1>8, <2>1, <3>1, Onward DEF Place
    <2>3. frequency.previousVoltage = 0
      <3>1. frequency.previousVoltage * value < 0
                <=> (frequency.previousVoltage > 0 /\ value < 0)
                    \/ (frequency.previousVoltage < 0 /\ value > 0)
        BY <1>1, Signs
      <3> QED BY <1>1, <1>3, <1>6, <1>8, <3>1 DEF Place, Crossed
    <2>4. ~ Counting(y)
      BY <1>1, <1>8, <2>3 DEF Counting, Timed
    <2>5. Idle' \/ Spoiled'
      BY <1>4, <1>5, <2>4 DEF Taking, Idle
    <2> QED BY <1>3, <2>1, <2>2, <2>5, Onward, Placed
  <1>9. y + Period < half \/ y + Period = half \/ y + Period > half
    BY <1>1
  <1> QED BY <1>1, <1>2, <1>7, <1>8, <1>9

\* A correction is due to a period on the other side of what the mains wants: with too
\* few samples in a half cycle, whatever crossings were hidden in it, ...
LEMMA TooFew ==
    ASSUME NEW value, NEW y, NEW w, Taking(value, y, w), y + Period >= half,
           NEW h \in 0 .. zeros, Timed(y, h), frequency.tickCnt < HalfCycle
    PROVE  Ideal <= frequency.TickPeriod
  <1> DEFINE c == frequency.tickCnt
  <1>1. /\ half \in Nat \ {0} /\ y \in 0 .. half /\ h \in Nat
        /\ Period \in Nat \ {0} /\ Base \in Nat \ {0} /\ HalfCycle \in Nat \ {0}
        /\ c \in Nat /\ frequency.TickPeriod \in Nat
    BY Taken, SamplingAssumption DEF Frequencies
  <1>2. half <= (c + 2) * Period
    <2>1. y + h * half <= (c + 1) * Period
      BY DEF Timed
    <2>2. (c + 2) * Period = (c + 1) * Period + Period /\ (c + 1) * Period \in Int
          /\ h * half \in Nat
      BY <1>1, SMT
    <2> QED BY <1>1, <2>1, <2>2
  <1>3. half \div (HalfCycle + 1) <= Period
    BY <1>1, <1>2, Fewer
  <1>4. half \div (HalfCycle + 1) \in Nat
    BY <1>1, Quotient
  <1> QED BY <1>1, <1>3, <1>4 DEF Ideal, IdealFor, Period

\* ... and with too many, unless one was hidden.
LEMMA TooMany ==
    ASSUME NEW value, NEW y, NEW w, Taking(value, y, w),
           Timed(y, 0), frequency.tickCnt > HalfCycle
    PROVE  frequency.TickPeriod <= Ideal
  <1> DEFINE c == frequency.tickCnt
  <1>1. /\ half \in Nat \ {0} /\ y \in 0 .. half
        /\ Period \in Nat \ {0} /\ Base \in Nat \ {0} /\ HalfCycle \in Nat \ {0}
        /\ c \in Nat /\ frequency.TickPeriod \in Nat
    BY Taken, SamplingAssumption DEF Frequencies
  <1>2. c * Period <= half
    <2>1. c * Period <= y + 0 * half /\ c * Period \in Int
      BY <1>1 DEF Timed
    <2> QED BY <1>1, <2>1
  <1>3. Period <= half \div (HalfCycle + 1)
    BY <1>1, <1>2, Longer
  <1>4. half \div (HalfCycle + 1) \in Nat
    BY <1>1, Quotient
  <1> QED BY <1>1, <1>3, <1>4 DEF Ideal, IdealFor, Period

\* What a correction does: at a wrong count, unless it is spoiled, the period is moved
\* towards where the mains wants it.
LEMMA Corrected ==
    ASSUME NEW value, NEW y, NEW w, Taking(value, y, w), amplitude # 0, value # 0,
           y + Period >= half, Counting(y) \/ Spoiled, frequency.tickCnt # HalfCycle
    PROVE  LET diff == IF frequency.tickCnt > HalfCycle THEN frequency.FrequencyDiff + 1
                       ELSE frequency.FrequencyDiff - 1
           IN  /\ diff \in Lowest(half) - 1 - Blackouts .. Highest(half) + 1 + Blackouts + zeros
               /\ diff \in 0 .. 255 /\ Adjusted(frequency) = diff /\ Base + diff < half
  <1> DEFINE c == frequency.tickCnt
             diff == IF c > HalfCycle THEN frequency.FrequencyDiff + 1
                     ELSE frequency.FrequencyDiff - 1
             most == Highest(half) + 1 + MaxChanges \div 2 + MaxZeros
  <1>1. /\ half \in Nat \ {0} /\ y \in 0 .. half
        /\ Period \in Nat \ {0} /\ Base \in Nat \ {0}
        /\ zeros \in Nat /\ zeros <= MaxZeros
        /\ Blackouts \in Nat
        /\ Within(Blackouts, zeros)
    BY Taken DEF Taking, DInv
  <1>2. /\ InitialDiff \in 0 .. 255 /\ HalfCycle \in Nat \ {0} /\ MaxZeros \in Nat
        /\ Lowest(half) \in Int /\ Highest(half) \in Int /\ Ideal \in Int
        /\ Lowest(half) <= Ideal /\ Ideal <= Highest(half)
        /\ Lowest(half) <= InitialDiff /\ InitialDiff <= Highest(half)
        /\ Lowest(half) > MaxChanges \div 2
        /\ most <= 255 /\ Base + most < half
    BY Proportions DEF Taking
  <1>3. Blackouts <= MaxChanges \div 2 /\ MaxChanges \div 2 \in Nat
    <2>1. changes \div 2 \in Nat /\ MaxChanges \div 2 \in Int
      BY ChannelAssumption DEF Taking, DInv
    <2> QED BY <1>1, <2>1, Slack DEF Taking
  <1>4. c \in Nat /\ frequency.FrequencyDiff \in 0 .. 255 /\ frequency.TickPeriod \in Nat
        /\ c # HalfCycle
    <2>1. frequency \in Frequencies
      BY Taken
    <2> QED BY <2>1 DEF Frequencies
  <1>5. \/ frequency.TickPeriod = frequency.FrequencyDiff
        \/ frequency.TickPeriod = 0 /\ frequency.FrequencyDiff = InitialDiff
    BY DEF Taking, DInv
  <1>6. diff \in Lowest(half) - 1 - Blackouts .. Highest(half) + 1 + Blackouts + zeros
    <2>1. CASE Spoiled
      BY <1>1, <1>2, <1>4, <2>1 DEF Spoiled, Within
    <2>2. ASSUME NEW h \in 0 .. zeros, Timed(y, h), c < HalfCycle
          PROVE  Ideal <= frequency.TickPeriod
      BY <2>2, TooFew
    <2>3. ASSUME Timed(y, 0), c > HalfCycle PROVE frequency.TickPeriod <= Ideal
      BY <2>3, TooMany
    <2>4. CASE Timed(y, 0) /\ Within(Blackouts, zeros)
      <3>1. CASE c < HalfCycle
        <4>1. Ideal <= frequency.TickPeriod
          BY <1>1, <2>2, <2>4, <3>1
        <4> QED BY <1>1, <1>2, <1>4, <1>5, <2>4, <3>1, <4>1 DEF Within
      <3>2. CASE c > HalfCycle
        <4>1. frequency.TickPeriod <= Ideal
          BY <2>3, <2>4, <3>2
        <4> QED BY <1>1, <1>2, <1>4, <1>5, <2>4, <3>2, <4>1 DEF Within
      <3> QED BY <1>2, <1>4, <3>1, <3>2
    <2>5. ASSUME NEW h \in 1 .. zeros, Timed(y, h), Within(Blackouts, zeros - 1)
          PROVE  diff \in Lowest(half) - 1 - Blackouts .. Highest(half) + 1 + Blackouts + zeros
      <3>1. CASE c < HalfCycle
        <4>1. Ideal <= frequency.TickPeriod
          BY <1>1, <2>2, <2>5, <3>1
        <4> QED BY <1>1, <1>2, <1>4, <1>5, <2>5, <3>1, <4>1 DEF Within
      <3>2. CASE c > HalfCycle
        BY <1>1, <1>2, <1>4, <2>5, <3>2 DEF Within
      <3> QED BY <1>2, <1>4, <3>1, <3>2
    <2> QED BY <2>1, <2>4, <2>5 DEF Counting
  <1>7. diff \in 0 .. 255 /\ Base + diff < half
    BY <1>1, <1>2, <1>3, <1>4, <1>6
  <1>8. Adjusted(frequency) = diff
    <2>1. diff % 256 = diff
      BY <1>7
    <2> QED BY <1>2, <1>4, <2>1 DEF Adjusted
  <1> QED BY <1>6, <1>7, <1>8

\* A crossing that is seen is between two readings that are not 0, half a cycle on.
LEMMA AtCrossing ==
    ASSUME NEW value, NEW y, NEW w, Taking(value, y, w), Crossed(frequency, value)
    PROVE  /\ \/ frequency.previousVoltage > 0 /\ value < 0
              \/ frequency.previousVoltage < 0 /\ value > 0
           /\ amplitude # 0 /\ value # 0 /\ zeros' = zeros /\ y + Period >= half
  <1>1. /\ half \in Nat \ {0} /\ y \in 0 .. half /\ w \in {0, half}
        /\ Period \in Nat \ {0} /\ Period < half /\ value \in Int
        /\ frequency.previousVoltage \in Int /\ amplitude \in Nat /\ zeros \in Nat
    BY Taken DEF Taking, Frequencies
  <1>2. \/ frequency.previousVoltage > 0 /\ value < 0
        \/ frequency.previousVoltage < 0 /\ value > 0
    BY <1>1, Signs DEF Crossed
  <1>3. /\ y + Period < half => value = IF w = 0 THEN amplitude ELSE - amplitude
        /\ \/ value \in {amplitude, - amplitude}
           \/ (value = 0 /\ zeros < MaxZeros /\ y + Period = half)
    BY <1>1, ReadingAt DEF Taking, IInv
  <1>4. amplitude # 0 /\ value # 0 /\ zeros' = zeros
    BY <1>1, <1>2, <1>3 DEF Taking
  <1>5. Place(y, w)
    BY DEF Taking
  <1>6. y + Period >= half
    <2>1. frequency.previousVoltage > 0 => w = 0
      BY <1>5 DEF Place
    <2>2. frequency.previousVoltage < 0 => w = half
      BY <1>5 DEF Place
    <2> QED BY <1>1, <1>2, <1>3, <2>1, <2>2
  <1> QED BY <1>2, <1>4, <1>6

\* A crossing that is seen.
LEMMA CrossedSample ==
    ASSUME NEW value, NEW y, NEW w, Taking(value, y, w), Crossed(frequency, value)
    PROVE  DInv'
  <1>1. /\ half \in Nat \ {0} /\ y \in 0 .. half /\ w \in {0, half}
        /\ Period \in Nat \ {0} /\ Period < half /\ value \in Int /\ half' = half
        /\ frequency \in Frequencies /\ frequency.previousVoltage \in Int
        /\ frequency.FrequencyDiff \in Nat /\ frequency.tickCnt \in Nat
        /\ amplitude \in Nat /\ zeros \in Nat /\ Base \in Nat
        /\ Lowest(half) \in Int /\ Highest(half) \in Int
        /\ Blackouts \in Nat /\ Blackouts' = Blackouts
    BY Taken DEF Taking, Frequencies
  <1>2. /\ \/ frequency.previousVoltage > 0 /\ value < 0
           \/ frequency.previousVoltage < 0 /\ value > 0
        /\ amplitude # 0 /\ value # 0 /\ zeros' = zeros /\ y + Period >= half
    BY AtCrossing
  <1>3. Place(y, w) /\ Within(Blackouts, zeros) /\ (Idle \/ Counting(y) \/ Spoiled)
    BY Taken DEF Taking
  <1>4. PICK ny \in 0 .. half, nw \in {0, half} : ny = y + Period - half /\ nw = half - w
    <2>1. y + Period - half \in 0 .. half
      BY <1>1, <1>2
    <2>2. half - w \in {0, half}
      BY <1>1
    <2> QED BY <2>1, <2>2
  \* With the period that follows.
  <1>5. ASSUME frequency'.TickPeriod \in Nat, Period' < half, frequency'.previousVoltage = value
        PROVE  Place(ny, nw)'
    <2>1. phase' = (phase + Period') % (2 * half)
      <3>1. phase \in Int
        BY <1>1 DEF Taking, IInv, Wave
      <3>2. phase + Base + frequency'.TickPeriod = phase + Period'
        BY <1>1, <1>5, <3>1 DEF Period
      <3> QED BY <3>2 DEF Taking
    <2>2. Period' \in Nat
      BY <1>1, <1>5, Taken DEF Period
    <2>3. Wave
      BY DEF Taking, IInv
    <2>4. phase' \in {(y + Period - half) + (half - w) + Period',
                      (y + Period - half) + (half - w) + Period' - 2 * half}
      BY <1>1, <1>2, <1>3, <1>5, <2>1, <2>2, <2>3, PlaceMoves, Zenon
    <2>5. phase' \in {ny + nw + Period', ny + nw + Period' - 2 * half}
      BY <1>4, <2>4
    <2> QED BY <1>1, <1>2, <1>3, <1>4, <1>5, <2>5 DEF Place
  <1>6. /\ frequency.started \/ frequency.tickCnt = 0
        /\ \/ frequency.TickPeriod = frequency.FrequencyDiff
           \/ frequency.TickPeriod = 0 /\ frequency.FrequencyDiff = InitialDiff
    BY DEF Taking, DInv
  \* The count begins: no time of it has passed.
  <1>7. ASSUME frequency'.started, frequency'.tickCnt = 0,
                frequency'.TickPeriod = frequency.TickPeriod,
                frequency'.FrequencyDiff = frequency.FrequencyDiff,
                frequency'.previousVoltage = value
         PROVE  DInv'
    <2>1. Period' = Period
      BY <1>7 DEF Period
    <2>2. Place(ny, nw)'
      <3>1. frequency'.TickPeriod \in Nat
        BY <1>1, <1>7 DEF Frequencies
      <3> QED BY <1>1, <1>5, <1>7, <2>1, <3>1
    <2>3. Timed(ny, 0)'
      BY <1>1, <1>2, <1>4, <1>7, <2>1 DEF Timed
    <2>4. Within(Blackouts, zeros)'
      BY <1>1, <1>2, <1>3, <1>7 DEF Within
    <2>5. Counting(ny)'
      BY <2>3, <2>4 DEF Counting
    <2> QED BY <1>2, <1>4, <1>6, <1>7, <2>2, <2>5, Placed
  <1>8. CASE ~ frequency.started
    <2>1. frequency' = [frequency EXCEPT !.previousVoltage = value,
                            !.started = @ \/ Crossed(frequency, value)]
      BY <1>1, <1>8 DEF Taking, MeterFrequency, Frequencies
    <2>2. /\ frequency'.started /\ frequency'.tickCnt = 0
          /\ frequency'.TickPeriod = frequency.TickPeriod
          /\ frequency'.FrequencyDiff = frequency.FrequencyDiff
          /\ frequency'.previousVoltage = value
      BY <1>1, <1>6, <1>8, <2>1 DEF Frequencies
    <2> QED BY <1>7, <2>2
  <1>9. CASE frequency.started
    <2> DEFINE c == frequency.tickCnt
               diff == IF c > HalfCycle THEN frequency.FrequencyDiff + 1
                       ELSE frequency.FrequencyDiff - 1
    <2>1. frequency' = [started |-> c = HalfCycle, previousVoltage |-> value, tickCnt |-> 0,
                        FrequencyDiff |-> Adjusted(frequency),
                        TickPeriod |-> IF c = HalfCycle THEN frequency.TickPeriod
                                       ELSE Adjusted(frequency)]
      BY <1>9 DEF Taking, MeterFrequency
    <2>2. CASE c = HalfCycle
      <3>1. HalfCycle \in Nat
        BY SamplingAssumption
      <3>2. Adjusted(frequency) = frequency.FrequencyDiff
        BY <2>2, <3>1 DEF Adjusted
      <3> QED BY <1>7, <2>1, <2>2, <3>2
    <2>3. CASE c # HalfCycle
      <3>1. Counting(y) \/ Spoiled
        BY <1>3, <1>9 DEF Idle
      <3>2. /\ diff \in Lowest(half) - 1 - Blackouts .. Highest(half) + 1 + Blackouts + zeros
            /\ diff \in 0 .. 255 /\ Adjusted(frequency) = diff /\ Base + diff < half
        BY <1>2, <2>3, <3>1, Corrected
      <3> HIDE DEF diff
      <3>3. /\ ~ frequency'.started /\ frequency'.tickCnt = 0
            /\ frequency'.TickPeriod = diff /\ frequency'.FrequencyDiff = diff
            /\ frequency'.previousVoltage = value
        BY <2>1, <2>3, <3>2
      <3>4. Place(ny, nw)'
        <4>1. frequency'.TickPeriod \in Nat /\ Period' < half
          BY <3>2, <3>3, Taken DEF Period
        <4> QED BY <1>5, <3>3, <4>1
      <3>5. Idle'
        BY <1>1, <1>2, <3>2, <3>3 DEF Idle, Within
      <3> QED BY <1>4, <3>3, <3>4, <3>5, Placed
    <2> QED BY <2>2, <2>3
  <1> QED BY <1>8, <1>9

LEMMA SampleTracks == InProportion /\ IInv /\ IInv' /\ DInv /\ Sample => DInv'
  <1> SUFFICES ASSUME InProportion, IInv, IInv', DInv, Sample PROVE DInv'
    OBVIOUS
  <1>1. PICK y \in 0 .. half, w \in {0, half} : Place(y, w) /\ (Idle \/ Counting(y) \/ Spoiled)
    BY DEF DInv
  <1>2. PICK value \in Readings : Taking(value, y, w)
    BY <1>1 DEF Sample, Taking
  <1>3. CASE amplitude = 0
    BY <1>2, <1>3, DarkSample
  <1>4. CASE amplitude # 0 /\ value = 0
    BY <1>2, <1>4, HiddenSample
  <1>5. CASE value # 0 /\ ~ Crossed(frequency, value)
    BY <1>2, <1>5, PlainSample
  <1>6. CASE Crossed(frequency, value)
    BY <1>2, <1>6, CrossedSample
  <1> QED BY <1>3, <1>4, <1>5, <1>6

\* A change of amplitude may begin or end a blackout.
LEMMA ChangeTracks == InProportion /\ IInv /\ DInv /\ ChangeAmplitude => DInv'
  <1> SUFFICES ASSUME InProportion, IInv, DInv, ChangeAmplitude PROVE DInv'
    OBVIOUS
  <1>1. PICK y \in 0 .. half, w \in {0, half} : Place(y, w) /\ (Idle \/ Counting(y) \/ Spoiled)
    BY DEF DInv
  <1>2. /\ UNCHANGED <<half, phase, frequency, zeros>> /\ changes' = changes + 1
        /\ changes' \in 0 .. MaxChanges /\ changes \in Nat /\ amplitude' # amplitude
        /\ amplitude \in Nat
    BY ChannelAssumption DEF ChangeAmplitude, DInv, IInv, Wave
  <1>3. Place(y, w)'
    BY <1>1, <1>2 DEF Place, Period
  <1>4. /\ Blackouts \in Nat /\ Blackouts' \in Nat /\ Blackouts <= Blackouts'
        /\ amplitude = 0 /\ changes > 0 => Blackouts < Blackouts'
        /\ amplitude # 0 /\ amplitude' = 0 => Blackouts <= Blackouts'
    BY <1>2 DEF Blackouts
  <1>5. /\ Lowest(half) \in Int /\ Highest(half) \in Int /\ zeros \in Nat
        /\ frequency.FrequencyDiff \in Int
    BY <1>1, Proportions, Slack DEF IInv, Frequencies
  <1>6. Idle => Idle'
    BY <1>2, <1>4, <1>5 DEF Idle, Within
  <1>7. ASSUME NEW more \in Int, Within(Blackouts, more)
        PROVE  frequency.FrequencyDiff \in Lowest(half) - 1 - Blackouts'
                                           .. Highest(half) + 1 + Blackouts' + more
    BY <1>4, <1>5, <1>7 DEF Within
  <1>8. Counting(y) => Counting(y)'
    <2>1. \A h : Timed(y, h) => Timed(y, h)'
      BY <1>2 DEF Timed, Period
    <2>2. Within(Blackouts, zeros) => Within(Blackouts, zeros)'
      BY <1>2, <1>5, <1>7 DEF Within
    <2>3. Within(Blackouts, zeros - 1) => Within(Blackouts, zeros - 1)'
      BY <1>2, <1>5, <1>7 DEF Within
    <2> QED BY <1>2, <2>1, <2>2, <2>3 DEF Counting
  <1>9. Spoiled => Spoiled'
    <2>1. SUFFICES ASSUME Spoiled PROVE Spoiled'
      OBVIOUS
    <2>2. changes > 0 /\ changes' > 0
      BY <1>2, <2>1 DEF Spoiled
    <2>3. CASE amplitude = 0
      <3>1. amplitude' # 0 /\ Blackouts < Blackouts'
        BY <1>2, <1>4, <2>2, <2>3
      <3>2. frequency.FrequencyDiff \in Lowest(half) - 1 - Blackouts
                                        .. Highest(half) + 1 + Blackouts + zeros
        BY <2>1, <2>3 DEF Spoiled, Within
      <3>3. PICK back \in Nat : back = Blackouts'
        BY <1>4
      <3>4. frequency.FrequencyDiff \in Lowest(half) - 1 - (back - 1)
                                        .. Highest(half) + 1 + (back - 1) + zeros
        BY <1>4, <1>5, <3>1, <3>2, <3>3
      <3> QED BY <1>2, <2>2, <3>1, <3>3, <3>4 DEF Spoiled, Within
    <2>4. CASE amplitude # 0
      <3>1. frequency.FrequencyDiff \in Lowest(half) - 1 - (Blackouts - 1)
                                        .. Highest(half) + 1 + (Blackouts - 1) + zeros
        BY <2>1, <2>4 DEF Spoiled, Within
      <3> QED BY <1>2, <1>4, <1>5, <2>2, <3>1 DEF Spoiled, Within
    <2> QED BY <2>3, <2>4
  <1>10. /\ changes' \in 0 .. MaxChanges /\ zeros' \in 0 .. MaxZeros
         /\ frequency'.started \/ frequency'.tickCnt = 0
         /\ frequency'.started => amplitude' # 0 \/ changes' > 0
         /\ \/ frequency'.TickPeriod = frequency'.FrequencyDiff
            \/ frequency'.TickPeriod = 0 /\ frequency'.FrequencyDiff = InitialDiff
    BY <1>2 DEF DInv
  <1>11. \E yy \in 0 .. half', ww \in {0, half'} :
             Place(yy, ww)' /\ (Idle' \/ Counting(yy)' \/ Spoiled')
    BY <1>1, <1>2, <1>3, <1>6, <1>8, <1>9
  <1> QED BY <1>10, <1>11 DEF DInv

LEMMA InitTracks == InProportion /\ Init => DInv
  <1> SUFFICES ASSUME InProportion, Init PROVE DInv
    OBVIOUS
  <1>1. /\ half \in HalfPeriods /\ half \in Nat \ {0} /\ phase \in 0 .. 2 * half - 1
        /\ Base \in Nat \ {0} /\ InitialDiff \in 0 .. 255
        /\ MaxChanges \in Nat /\ MaxZeros \in Nat /\ changes = 0 /\ zeros = 0
    BY ChannelAssumption, SamplingAssumption DEF Init
  <1>2. /\ ~ frequency.started /\ frequency.tickCnt = 0 /\ frequency.previousVoltage = 0
        /\ frequency.TickPeriod = 0 /\ frequency.FrequencyDiff = InitialDiff
    BY DEF Init, NewFrequency
  <1>3. half \div (HalfCycle + 1) \in Nat
    <2>1. HalfCycle + 1 \in Nat \ {0}
      BY SamplingAssumption
    <2> QED BY <1>1, <2>1, Quotient
  <1>4. /\ Lowest(half) \in Int /\ Highest(half) \in Int
        /\ Lowest(half) <= InitialDiff /\ InitialDiff <= Highest(half)
    BY <1>1, <1>3 DEF Lowest, Highest, IdealFor
  <1>5. Base < half
    <2>1. Base + (Highest(half) + 1 + MaxChanges \div 2 + MaxZeros) < half
      BY <1>1 DEF InProportion
    <2>2. MaxChanges \div 2 \in Nat
      BY <1>1
    <2> QED BY <1>1, <1>4, <2>1, <2>2
  <1>6. Period = Base
    BY <1>1, <1>2 DEF Period
  <1>7. \E y \in 0 .. half, w \in {0, half} : Place(y, w)
    <2>1. CASE phase < Base
      <3>1. phase - Base + half \in 0 .. half
        BY <1>1, <1>5, <2>1
      <3>2. Place(phase - Base + half, half)
        BY <1>1, <1>2, <1>6, <3>1 DEF Place
      <3> QED BY <3>1, <3>2
    <2>2. CASE Base <= phase /\ phase <= Base + half
      <3>1. phase - Base \in 0 .. half
        BY <1>1, <2>2
      <3>2. Place(phase - Base, 0)
        BY <1>1, <1>2, <1>6, <3>1 DEF Place
      <3> QED BY <3>1, <3>2
    <2>3. CASE phase > Base + half
      <3>1. phase - Base - half \in 0 .. half
        BY <1>1, <2>3
      <3>2. Place(phase - Base - half, half)
        BY <1>1, <1>2, <1>6, <3>1 DEF Place
      <3> QED BY <3>1, <3>2
    <2> QED BY <1>1, <2>1, <2>2, <2>3
  <1>8. Idle
    <2>1. Blackouts = 0
      BY <1>1 DEF Blackouts
    <2> QED BY <1>1, <1>2, <1>4, <2>1 DEF Idle, Within
  <1> QED BY <1>1, <1>2, <1>7, <1>8 DEF DInv

\* Where the difference is, and what has been counted, is inductive.
LEMMA Tracked == InProportion /\ IInv /\ IInv' /\ DInv /\ [Next]_vars => DInv'
  <1> SUFFICES ASSUME InProportion, IInv, IInv', DInv, [Next]_vars PROVE DInv'
    OBVIOUS
  <1>1. CASE Sample
    BY <1>1, SampleTracks
  <1>2. CASE ChangeAmplitude
    BY <1>2, ChangeTracks
  <1>3. CASE UNCHANGED vars
    BY <1>3 DEF vars, DInv, Place, Period, Idle, Counting, Spoiled, Timed, Within, Blackouts
  <1> QED BY <1>1, <1>2, <1>3 DEF Next

\* The reported difference never leaves what lies between where it begins and where the
\* mains wants it by more than one increment, what hidden crossings and blackouts cost
\* apart: for every mains in proportion and every width of an increment.
THEOREM DifferenceTracks ==
    ASSUME InProportion
    PROVE  Spec => []DiffTracks
  <1>1. IInv /\ DInv => DiffTracks
    <2> SUFFICES ASSUME IInv, DInv PROVE DiffTracks
      OBVIOUS
    <2>1. PICK y \in 0 .. half : Idle \/ Counting(y) \/ Spoiled
      BY DEF DInv
    <2>2. /\ Within(Blackouts, zeros) /\ zeros \in Nat /\ Blackouts \in Nat
          /\ Blackouts <= changes \div 2 /\ changes \in Nat
      BY InProportion, <2>1, Slack
    <2>3. Lowest(half) \in Int /\ Highest(half) \in Int /\ frequency.FrequencyDiff \in Int
      BY InProportion, Proportions DEF IInv, Frequencies
    <2> QED BY <2>2, <2>3 DEF DiffTracks, Within
  <1> QED BY InitOK, NextOK, InProportion, Tracked, InitTracks, <1>1, PTL DEF Spec

\* A change of the difference by one increment, towards where the mains wants it.
Towards ==
    \/ /\ frequency'.FrequencyDiff = frequency.FrequencyDiff - 1
       /\ Ideal <= frequency.TickPeriod
    \/ /\ frequency'.FrequencyDiff = frequency.FrequencyDiff + 1
       /\ frequency.TickPeriod <= Ideal \/ zeros > 0

\* A sample that changes the difference found a crossing at a wrong count; if no
\* crossing was hidden and the mains never went away, the period in force was on the
\* other side of what the mains wants.
LEMMA SampleApproaches ==
    ASSUME InProportion, IInv, IInv', DInv, Sample, changes = 0,
           frequency'.FrequencyDiff # frequency.FrequencyDiff
    PROVE  Towards
  <1>1. PICK y \in 0 .. half, w \in {0, half} : Place(y, w) /\ (Idle \/ Counting(y) \/ Spoiled)
    BY DEF DInv
  <1>2. PICK value \in Readings : Taking(value, y, w)
    BY <1>1 DEF Sample, Taking
  <1>3. Crossed(frequency, value)
    BY <1>2, Onward
  <1>4. frequency.started
    BY <1>2, <1>3 DEF Taking, IInv, MeterFrequency, Frequencies
  <1>5. Counting(y)
    BY <1>1, <1>4 DEF Idle, Spoiled
  <1>6. y + Period >= half
    BY <1>2, <1>3, AtCrossing
  <1>7. value # 0 /\ amplitude # 0
    BY <1>2, <1>3, AtCrossing
  <1>8. frequency'.FrequencyDiff = Adjusted(frequency)
    BY <1>2, <1>3, <1>4 DEF Taking, MeterFrequency
  <1>9. frequency.tickCnt # HalfCycle
    <2>1. HalfCycle \in Nat
      BY SamplingAssumption
    <2> QED BY <1>8, <2>1 DEF Adjusted
  <1>10. frequency.tickCnt \in Nat /\ HalfCycle \in Nat /\ zeros \in Nat
    BY <1>2, Taken, SamplingAssumption DEF Frequencies
  <1>11. CASE frequency.tickCnt < HalfCycle
    <2>1. frequency'.FrequencyDiff = frequency.FrequencyDiff - 1
      BY <1>2, <1>5, <1>6, <1>7, <1>8, <1>9, <1>10, <1>11, Corrected
    <2>2. PICK h \in 0 .. zeros : Timed(y, h)
      BY <1>5, <1>10 DEF Counting
    <2>3. Ideal <= frequency.TickPeriod
      BY <1>2, <1>6, <1>11, <2>2, TooFew
    <2> QED BY <2>1, <2>3 DEF Towards
  <1>12. CASE frequency.tickCnt > HalfCycle
    <2>1. frequency'.FrequencyDiff = frequency.FrequencyDiff + 1
      BY <1>2, <1>5, <1>6, <1>7, <1>8, <1>9, <1>10, <1>12, Corrected
    <2>2. frequency.TickPeriod <= Ideal \/ zeros > 0
      BY <1>2, <1>5, <1>10, <1>12, TooMany DEF Counting
    <2> QED BY <2>1, <2>2 DEF Towards
  <1> QED BY <1>9, <1>10, <1>11, <1>12

\* As long as the mains does not change, MeterFrequency shortens the period only where
\* it is not shorter than 16 samples per cycle want it, and lengthens it only where it is
\* not longer or a reading of exactly 0 has hidden a crossing: the safety half of Locks,
\* for every mains in proportion, wherever in its wave it is sampled.
THEOREM Approaches ==
    ASSUME InProportion
    PROVE  Spec => [][changes = 0 /\ frequency'.FrequencyDiff # frequency.FrequencyDiff
                        => Towards]_vars
  <1> DEFINE Claim == changes = 0 /\ frequency'.FrequencyDiff # frequency.FrequencyDiff
                        => Towards
  <1>1. IInv /\ IInv' /\ DInv /\ [Next]_vars => [Claim]_vars
    <2>1. CASE Sample
      BY InProportion, <2>1, SampleApproaches
    <2>2. CASE ChangeAmplitude
      BY <2>2 DEF ChangeAmplitude
    <2> QED BY <2>1, <2>2 DEF Next
  <1>2. Spec => []DInv
    BY InitOK, NextOK, InProportion, Tracked, InitTracks, PTL DEF Spec
  <1> HIDE DEF Claim
  <1>3. Spec => [][Claim]_vars
    BY InitOK, NextOK, <1>1, <1>2, PTL DEF Spec
  <1> QED BY <1>3 DEF Claim

=============================================================================
