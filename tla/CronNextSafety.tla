--------------------------- MODULE CronNextSafety ---------------------------
(***************************************************************************)
(* What cron_next answers, and what create_job stores of it, proved for    *)
(* every calendar, expression and request: months of any lengths, leap     *)
(* years, limits on the search and calls within each other of any depth.   *)
(***************************************************************************)
EXTENDS Creation, CronAnswer, JobModelProofs, FiniteSetTheorems, WellFoundedInduction, TLAPS

-----------------------------------------------------------------------------
(***************************************************************************)
(* Natural numbers: induction and recursion.  The library's theorems take  *)
(* operators, which the provers cannot instantiate; these take sets and    *)
(* functions instead.                                                      *)
(***************************************************************************)
\* By the well-founded inclusion of finite sets, here of the intervals 0 .. x.
LEMMA LeastNat ==
    ASSUME NEW T, T \subseteq Nat, T # {}
    PROVE  \E x \in T : \A y \in T : x <= y
<1>. DEFINE Below == {0 .. x : x \in T}
<1>1. \A x \in T : 0 .. x \in FiniteSubsetsOf(Nat)
  <2>1. \A x \in T : IsFiniteSet(0 .. x)
    BY FS_Interval
  <2>2. \A x \in T : 0 .. x \in SUBSET Nat
    OBVIOUS
  <2>. QED
    BY <2>1, <2>2 DEF FiniteSubsetsOf
<1>2. Below \subseteq FiniteSubsetsOf(Nat) /\ Below # {}
  BY <1>1
<1>3. PICK X \in Below : \A Y \in Below : <<Y, X>> \notin StrictSubsetOrdering(Nat)
  <2>. HIDE DEF Below
  <2>. QED
    BY <1>2, FS_StrictSubsetOrderingWellFounded, WFMin
<1>4. PICK x \in T : X = 0 .. x
  BY <1>3
<1>5. ASSUME NEW y \in T, ~(x <= y)
      PROVE  FALSE
  <2>1. 0 .. y \subseteq 0 .. x /\ x \in 0 .. x /\ x \notin 0 .. y
    BY <1>5
  <2>2. 0 .. y \in SUBSET Nat /\ 0 .. x \in SUBSET Nat /\ 0 .. y # 0 .. x
    BY <2>1
  <2>3. <<0 .. y, X>> \in StrictSubsetOrdering(Nat)
    BY <1>4, <2>1, <2>2 DEF StrictSubsetOrdering
  <2>. QED
    BY <1>3, <1>5, <2>3
<1>. QED
  BY <1>5

\* Induction over a set of numbers.
LEMMA SetInduction ==
    ASSUME NEW G, 0 \in G, \A n \in Nat : n \in G => n + 1 \in G
    PROVE  \A n \in Nat : n \in G
<1>. SUFFICES ASSUME NEW m \in Nat, m \notin G
              PROVE  FALSE
  OBVIOUS
<1>1. PICK n \in Nat \ G : \A k \in Nat \ G : n <= k
  <2>1. Nat \ G \subseteq Nat /\ Nat \ G # {}
    OBVIOUS
  <2>. QED
    BY <2>1, LeastNat
<1>2. n - 1 \in Nat /\ n - 1 \in G
  BY <1>1
<1>. QED
  BY <1>1, <1>2

\* What a recursive function on Nat defines is there.
LEMMA Recursion ==
    ASSUME NEW X, NEW a \in X, NEW F \in [X -> X]
    PROVE  \E h \in [Nat -> X] : h[0] = a /\ \A n \in Nat : h[n + 1] = F[h[n]]
<1>. DEFINE Upto(n) == {h \in [0 .. n -> X] : h[0] = a /\ \A i \in 0 .. n - 1 : h[i + 1] = F[h[i]]}
<1>1. \A n \in Nat : Upto(n) # {}
  <2>. DEFINE G == {n \in Nat : Upto(n) # {}}
  <2>1. 0 \in G
    <3>1. [i \in 0 .. 0 |-> a] \in Upto(0)
      OBVIOUS
    <3>. QED
      BY <3>1
  <2>2. ASSUME NEW n \in Nat, n \in G
        PROVE  n + 1 \in G
    <3>1. PICK h \in [0 .. n -> X] : h[0] = a /\ \A i \in 0 .. n - 1 : h[i + 1] = F[h[i]]
      BY <2>2
    <3>. DEFINE k == [i \in 0 .. n + 1 |-> IF i <= n THEN h[i] ELSE F[h[n]]]
    <3>2. k \in [0 .. n + 1 -> X]
      BY <3>1
    <3>3. k[0] = a
      BY <3>1
    <3>4. \A i \in 0 .. n : k[i + 1] = F[k[i]]
      BY <3>1
    <3>5. k \in Upto(n + 1)
      BY <3>2, <3>3, <3>4
    <3>. QED
      BY <3>5
  <2>3. \A n \in Nat : n \in G
    <3>. HIDE DEF G
    <3>. QED
      BY <2>1, <2>2, SetInduction
  <2>. QED
    BY <2>3
<1>2. ASSUME NEW n \in Nat, NEW m \in Nat, NEW h \in Upto(n), NEW k \in Upto(m),
             NEW i \in Nat, i <= n, i <= m
      PROVE  h[i] = k[i]
  <2>. DEFINE G == {j \in Nat : j <= n /\ j <= m => h[j] = k[j]}
  <2>1. 0 \in G
    OBVIOUS
  <2>2. ASSUME NEW j \in Nat, j \in G
        PROVE  j + 1 \in G
    <3>1. j + 1 <= n /\ j + 1 <= m => j \in 0 .. n - 1 /\ j \in 0 .. m - 1 /\ h[j] = k[j]
      BY <2>2
    <3>. QED
      BY <3>1
  <2>3. \A j \in Nat : j \in G
    <3>. HIDE DEF G
    <3>. QED
      BY <2>1, <2>2, SetInduction
  <2>. QED
    BY <1>2, <2>3
<1>. DEFINE U(n) == CHOOSE h : h \in Upto(n)
            H == [n \in Nat |-> U(n)[n]]
<1>3. \A n \in Nat : U(n) \in Upto(n)
  BY <1>1
<1>4. \A n \in Nat : H[n] \in X
  BY <1>3
<1>5. H[0] = a
  <2>1. U(0) \in Upto(0)
    BY <1>3
  <2>2. U(0)[0] = a
    <3>. HIDE DEF U
    <3>. QED
      BY <2>1
  <2>. QED
    BY <2>2
<1>6. ASSUME NEW n \in Nat
      PROVE  H[n + 1] = F[H[n]]
  <2>1. U(n) \in Upto(n) /\ U(n + 1) \in Upto(n + 1)
    <3>. HIDE DEF Upto, U
    <3>. QED
      BY <1>3
  <2>2. U(n + 1)[n] = U(n)[n]
    <3>. HIDE DEF Upto, U
    <3>. QED
      BY <1>2, <2>1
  <2>3. U(n + 1)[n + 1] = F[U(n + 1)[n]]
    <3>. HIDE DEF U
    <3>. QED
      BY <2>1
  <2>. QED
    BY <2>2, <2>3
<1>. QED
  BY <1>4, <1>5, <1>6

-----------------------------------------------------------------------------
(***************************************************************************)
(* Division.                                                               *)
(***************************************************************************)
\* Quotient and remainder.
LEMMA DivMod ==
    ASSUME NEW S \in Nat \ {0}, NEW t \in Nat
    PROVE  /\ t \div S \in Nat
           /\ t % S \in 0 .. S - 1
           /\ t = (t \div S) * S + (t % S)
  OBVIOUS

\* A number has one quotient and one remainder.
LEMMA DivUnique ==
    ASSUME NEW S \in Nat \ {0}, NEW q \in Nat, NEW r \in 0 .. S - 1
    PROVE  (q * S + r) \div S = q /\ (q * S + r) % S = r
<1>. DEFINE t == q * S + r
           p == t \div S
           m == t % S
<1>1. t \in Nat
  OBVIOUS
<1>2. p \in Nat /\ m \in 0 .. S - 1 /\ t = p * S + m
  BY <1>1, DivMod
<1>3. p * S + m = q * S + r
  BY <1>2
<1>. HIDE DEF t, p, m
<1>4. ~(p >= q + 1)
  <2>. SUFFICES ASSUME p >= q + 1 PROVE FALSE
    OBVIOUS
  <2>1. p * S >= (q + 1) * S
    BY <1>2
  <2>2. (q + 1) * S = q * S + S
    OBVIOUS
  <2>. QED
    BY <1>2, <1>3, <2>1, <2>2
<1>5. ~(q >= p + 1)
  <2>. SUFFICES ASSUME q >= p + 1 PROVE FALSE
    OBVIOUS
  <2>1. q * S >= (p + 1) * S
    BY <1>2
  <2>2. (p + 1) * S = p * S + S
    BY <1>2
  <2>. QED
    BY <1>2, <1>3, <2>1, <2>2
<1>6. p = q
  BY <1>2, <1>4, <1>5
<1>. QED
  BY <1>2, <1>3, <1>6 DEF t, p, m

\* Division keeps the order.
LEMMA DivMonotone ==
    ASSUME NEW S \in Nat \ {0}, NEW t \in Nat, NEW u \in Nat, t <= u
    PROVE  t \div S <= u \div S
<1>. DEFINE p == t \div S
           q == u \div S
<1>1. p \in Nat /\ t % S \in 0 .. S - 1 /\ t = p * S + (t % S)
  BY DivMod
<1>2. q \in Nat /\ u % S \in 0 .. S - 1 /\ u = q * S + (u % S)
  BY DivMod
<1>. HIDE DEF p, q
<1>3. ~(p >= q + 1)
  <2>. SUFFICES ASSUME p >= q + 1 PROVE FALSE
    OBVIOUS
  <2>1. p * S >= (q + 1) * S
    BY <1>1, <1>2
  <2>2. (q + 1) * S = q * S + S
    BY <1>2
  <2>. QED
    BY <1>1, <1>2, <2>1, <2>2
<1>. QED
  BY <1>1, <1>2, <1>3 DEF p, q

\* The next value of a field that counts slots a, N of them in a turn: the
\* least one in T from a % N on, or in the next turn.
NextSlot(T, N, a) ==
    LET here == next_set_bit(T, a % N)
    IN  IF here = INVALID THEN a - (a % N) + N + next_set_bit(T, 0) ELSE a - (a % N) + here

\* next_set_bit returns the least member from the offset on, or INVALID.
LEMMA NextSetBit ==
    ASSUME NEW T, T \subseteq Nat, NEW k \in Nat
    PROVE  /\ (\A i \in T : i < k) => next_set_bit(T, k) = INVALID
           /\ (\E i \in T : i >= k) =>
                /\ next_set_bit(T, k) \in T /\ next_set_bit(T, k) >= k
                /\ \A i \in T : i >= k => next_set_bit(T, k) <= i
<1>. DEFINE ahead == {i \in T : i >= k}
<1>1. CASE ahead = {}
  BY <1>1 DEF next_set_bit
<1>2. CASE ahead # {}
  <2>1. Min(ahead) \in ahead /\ \A y \in ahead : Min(ahead) <= y
    <3>1. \E x \in ahead : \A y \in ahead : x <= y
      BY <1>2, LeastNat
    <3>. QED
      BY <3>1 DEF Min
  <2>2. next_set_bit(T, k) = Min(ahead)
    BY <1>2 DEF next_set_bit
  <2>3. \A i \in T : i \in ahead <=> i >= k
    OBVIOUS
  <2>4. PICK j \in ahead : TRUE
    BY <1>2
  <2>5. j \in T /\ j >= k /\ j \in Nat
    OBVIOUS
  <2>6. ~(\A i \in T : i < k)
    BY <2>5
  <2>. HIDE DEF ahead
  <2>7. ahead \subseteq T
    BY DEF ahead
  <2>. QED
    BY <2>1, <2>2, <2>3, <2>6, <2>7
<1>. QED
  BY <1>1, <1>2

\* What it returns is a member, and from 0 on there is one.
LEMMA NextBitIn ==
    ASSUME NEW T, T \subseteq Nat, T # {}, NEW k \in Nat
    PROVE  /\ next_set_bit(T, k) # INVALID => next_set_bit(T, k) \in T /\ next_set_bit(T, k) >= k
           /\ next_set_bit(T, 0) \in T
<1>1. ASSUME NEW j \in Nat, \A i \in T : i < j
      PROVE  next_set_bit(T, j) = INVALID
  BY <1>1, NextSetBit
<1>2. ASSUME NEW j \in Nat, ~(\A i \in T : i < j)
      PROVE  next_set_bit(T, j) \in T /\ next_set_bit(T, j) >= j
  <2>1. \E i \in T : i >= j
    BY <1>2
  <2>. QED
    BY <2>1, NextSetBit
<1>3. ~(\A i \in T : i < 0)
  <2>1. PICK i \in T : TRUE
    OBVIOUS
  <2>2. ~(i < 0)
    OBVIOUS
  <2>. QED
    BY <2>2
<1>. QED
  BY <1>1, <1>2, <1>3

\* No slot between a and the next one has its number in the set.
LEMMA NextSlotFacts ==
    ASSUME NEW N \in Nat \ {0}, NEW T \in NonEmpty(0 .. N - 1), NEW a \in Nat
    PROVE  /\ NextSlot(T, N, a) \in Nat
           /\ NextSlot(T, N, a) >= a
           /\ NextSlot(T, N, a) % N \in T
           /\ (a % N \in T <=> NextSlot(T, N, a) = a)
           /\ \A b \in a .. NextSlot(T, N, a) - 1 : b % N \notin T
<1>. DEFINE r == a % N
           q == a \div N
           here == next_set_bit(T, r)
           low == next_set_bit(T, 0)
           z == NextSlot(T, N, a)
<1>1. T \subseteq 0 .. N - 1 /\ T # {} /\ T \subseteq Nat
  BY DEF NonEmpty
<1>2. r \in 0 .. N - 1 /\ q \in Nat /\ a = q * N + r
  BY DivMod
<1>3. low \in T /\ \A i \in T : low <= i
  <2>1. PICK i \in T : TRUE
    BY <1>1
  <2>2. i >= 0 /\ 0 \in Nat
    BY <1>1
  <2>3. \A j \in T : j >= 0
    BY <1>1
  <2>. QED
    BY <1>1, <2>1, <2>2, <2>3, NextSetBit
<1>4. ASSUME NEW p \in Nat, NEW i \in 0 .. N - 1
      PROVE  (p * N + i) % N = i
  BY DivUnique
<1>7. z = IF here = INVALID THEN a - r + N + low ELSE a - r + here
  BY DEF NextSlot
<1>8. r \in Nat
  BY <1>2
<1>9. (\A i \in T : i < r) => here = INVALID
  BY <1>1, <1>8, NextSetBit
<1>10. (\E i \in T : i >= r) =>
          here \in T /\ here >= r /\ \A i \in T : i >= r => here <= i
  BY <1>1, <1>8, NextSetBit
<1>11. a % N = r
  OBVIOUS
<1>. HIDE DEF r, q, here, low, z
<1>12. SUFFICES /\ z \in Nat /\ z >= a /\ z % N \in T
                /\ (r \in T <=> z = a)
                /\ \A b \in a .. z - 1 : b % N \notin T
  BY DEF r, z
<1>5. CASE \A i \in T : i < r
  <2>1. here = INVALID
    BY <1>5, <1>9
  <2>2. z = (q + 1) * N + low
    <3>1. z = a - r + N + low
      BY <2>1, <1>7
    <3>2. (q + 1) * N = q * N + N
      BY <1>2
    <3>3. q * N \in Nat
      BY <1>2
    <3>. QED
      BY <1>1, <1>2, <1>3, <3>1, <3>2, <3>3
  <2>3. z % N = low
    <3>1. low \in 0 .. N - 1 /\ q + 1 \in Nat
      BY <1>1, <1>2, <1>3
    <3>. QED
      BY <1>4, <2>2, <3>1
  <2>4. (q + 1) * N = q * N + N /\ q * N \in Nat
    BY <1>2
  <2>5. ASSUME NEW b \in a .. z - 1
        PROVE  b % N \notin T
    <3>1. CASE b < (q + 1) * N
      <4>1. b = q * N + (b - q * N) /\ b - q * N \in 0 .. N - 1 /\ b - q * N >= r
        BY <1>2, <2>4, <3>1
      <4>2. b % N = b - q * N
        BY <1>2, <1>4, <4>1
      <4>. QED
        BY <1>1, <1>2, <1>5, <4>1, <4>2
    <3>2. CASE ~(b < (q + 1) * N)
      <4>1. b = (q + 1) * N + (b - (q + 1) * N) /\ b - (q + 1) * N \in 0 .. low - 1
        BY <1>1, <1>2, <1>3, <2>2, <2>4, <3>2
      <4>2. b % N = b - (q + 1) * N
        <5>1. b - (q + 1) * N \in 0 .. N - 1 /\ q + 1 \in Nat
          BY <1>1, <1>2, <1>3, <4>1
        <5>. QED
          BY <1>4, <4>1, <5>1
      <4>. QED
        BY <1>1, <1>3, <4>1, <4>2
    <3>. QED
      BY <3>1, <3>2
  <2>6. r \notin T
    BY <1>1, <1>2, <1>5
  <2>. QED
    BY <1>1, <1>2, <1>3, <2>2, <2>3, <2>4, <2>5, <2>6
<1>6. CASE \E i \in T : i >= r
  <2>1. here \in T /\ here >= r /\ \A i \in T : i >= r => here <= i
    BY <1>6, <1>10
  <2>2. z = q * N + here
    <3>1. here # INVALID
      BY <1>1, <2>1 DEF INVALID
    <3>2. z = a - r + here
      BY <1>7, <3>1
    <3>3. q * N \in Nat
      BY <1>2
    <3>. QED
      BY <1>1, <1>2, <2>1, <3>2, <3>3
  <2>3. z % N = here
    BY <1>1, <1>2, <1>4, <2>1, <2>2
  <2>4. q * N \in Nat
    BY <1>2
  <2>5. ASSUME NEW b \in a .. z - 1
        PROVE  b % N \notin T
    <3>1. b = q * N + (b - q * N) /\ b - q * N \in 0 .. N - 1 /\ b - q * N >= r /\ b - q * N < here
      BY <1>1, <1>2, <2>1, <2>2, <2>4
    <3>2. b % N = b - q * N
      BY <1>2, <1>4, <3>1
    <3>. QED
      BY <1>1, <1>2, <2>1, <3>1, <3>2
  <2>. QED
    BY <1>1, <1>2, <2>1, <2>2, <2>3, <2>4, <2>5
<1>. QED
  BY <1>1, <1>2, <1>5, <1>6

\* The next slot is less than a turn away.
LEMMA NextSlotNear ==
    ASSUME NEW N \in Nat \ {0}, NEW T \in NonEmpty(0 .. N - 1), NEW a \in Nat
    PROVE  NextSlot(T, N, a) < a + N
<1>. DEFINE here == next_set_bit(T, a % N)
           low == next_set_bit(T, 0)
<1>1. T \subseteq 0 .. N - 1 /\ T # {} /\ T \subseteq Nat
  BY DEF NonEmpty
<1>2. PICK r \in 0 .. N - 1 : r = a % N
  BY DivMod
<1>3. low \in T /\ (here # INVALID => here \in T /\ here >= r)
  <2>1. a % N \in Nat
    BY <1>2
  <2>. QED
    BY <1>1, <1>2, <2>1, NextBitIn
<1>4. (\E i \in T : i >= r) => here \in T
  <2>1. r \in Nat
    OBVIOUS
  <2>. QED
    BY <1>1, <1>2, <2>1, NextSetBit
<1>5. NextSlot(T, N, a) = IF here = INVALID THEN a - r + N + low ELSE a - r + here
  BY <1>2 DEF NextSlot
<1>. HIDE DEF here, low
<1>6. CASE here = INVALID
  <2>1. here \notin T
    BY <1>1, <1>6 DEF INVALID
  <2>2. low < r
    BY <1>1, <1>2, <1>3, <1>4, <2>1
  <2>. QED
    BY <1>1, <1>2, <1>3, <1>5, <1>6, <2>2
<1>7. CASE here # INVALID
  <2>1. NextSlot(T, N, a) = a - r + here /\ here \in 0 .. N - 1
    BY <1>1, <1>3, <1>5, <1>7
  <2>. QED
    BY <2>1
<1>. QED
  BY <1>6, <1>7

-----------------------------------------------------------------------------
(***************************************************************************)
(* The calendar.                                                           *)
(***************************************************************************)
\* What CalendarAssumption says of each number.
LEMMA CalendarFacts ==
    /\ Seconds \in Nat \ {0} /\ Minutes \in Nat \ {0} /\ Hours \in Nat \ {0}
    /\ WeekDays \in Nat \ {0} /\ Months \in Nat \ {0}
    /\ LongestMonth \in Nat /\ MaxDaySteps \in Nat /\ LongestMonth <= MaxDaySteps
    /\ \A m \in 1 .. Months : MonthDays[m] \in Nat /\ MonthDays[m] \in WeekDays .. LongestMonth
<1>1. Months \in Nat
  BY CalendarAssumption DEF Months
<1>. QED
  BY <1>1, CalendarAssumption

\* The lengths of the months, of any year.
LEMMA MonthLengthFacts ==
    ASSUME NEW q \in Nat
    PROVE  /\ MonthLength(q) \in WeekDays .. LongestMonth
           /\ MonthLength(q) \in Nat \ {0}
           /\ q % Months \in 0 .. Months - 1
           /\ MonthDays[(q % Months) + 1] <= MonthLength(q)
<1>. DEFINE mon == q % Months
           leap == mon = LeapMonth /\ q \div Months \in LeapYears
<1>1. mon \in 0 .. Months - 1
  BY CalendarFacts, DivMod
<1>2. MonthLength(q) = MonthDays[mon + 1] + IF leap THEN 1 ELSE 0
  BY DEF MonthLength
<1>3. leap => MonthDays[mon + 1] < LongestMonth
  <2>1. leap => LeapMonth < Months /\ mon = LeapMonth
    BY <1>1, CalendarFacts
  <2>. QED
    BY <2>1, CalendarAssumption
<1>. HIDE DEF mon, leap
<1>4. mon + 1 \in 1 .. Months
  BY <1>1, CalendarFacts
<1>5. MonthDays[mon + 1] \in Nat /\ MonthDays[mon + 1] \in WeekDays .. LongestMonth
  BY <1>4, CalendarFacts
<1>6. MonthLength(q) \in WeekDays .. LongestMonth /\ MonthLength(q) \in Nat /\ MonthDays[mon + 1] <= MonthLength(q)
  <2>1. CASE leap
    BY <1>2, <1>3, <1>5, <2>1, CalendarFacts
  <2>2. CASE ~leap
    BY <1>2, <1>5, <2>2, CalendarFacts
  <2>. QED
    BY <2>1, <2>2
<1>. QED
  BY <1>1, <1>6, CalendarFacts DEF mon

\* The recursive function DaysBefore exists, and is the sum it was written as.
LEMMA DaysBeforeFacts ==
    /\ DaysBefore \in [Nat -> Nat]
    /\ DaysBefore[0] = 0
    /\ \A q \in Nat : DaysBefore[q + 1] = DaysBefore[q] + MonthLength(q)
<1>. DEFINE Def(g) == [month \in Nat |->
                         IF month = 0 THEN 0 ELSE g[month - 1] + MonthLength(month - 1)]
<1>1. \E g : g = Def(g) /\ g \in [Nat -> Nat]
  <2>. DEFINE X == Nat \X Nat
              F == [p \in X |-> <<p[1] + 1, p[2] + MonthLength(p[1])>>]
             start == <<0, 0>>
  <2>1. F \in [X -> X] /\ start \in X
    BY MonthLengthFacts
  <2>2. \E h \in [Nat -> X] : h[0] = start /\ \A n \in Nat : h[n + 1] = F[h[n]]
    <3>. HIDE DEF X, F, start
    <3>. QED
      BY <2>1, Recursion
  <2>8. PICK h \in [Nat -> X] : h[0] = start /\ \A n \in Nat : h[n + 1] = F[h[n]]
    BY <2>2
  <2>3. \A n \in Nat : h[n + 1] = <<h[n][1] + 1, h[n][2] + MonthLength(h[n][1])>>
    BY <2>8
  <2>9. \A n \in Nat : h[n + 1][1] = h[n][1] + 1
    BY <2>3
  <2>4. \A n \in Nat : h[n][1] = n
    <3>. DEFINE G == {n \in Nat : h[n][1] = n}
    <3>1. 0 \in G
      BY <2>8
    <3>2. ASSUME NEW n \in Nat, n \in G
          PROVE  n + 1 \in G
      <4>1. h[n][1] = n /\ n + 1 \in Nat
        BY <3>2
      <4>2. h[n + 1][1] = n + 1
        BY <2>9, <4>1
      <4>. QED
        BY <4>1, <4>2
    <3>3. \A n \in Nat : n \in G
      <4>. HIDE DEF G
      <4>. QED
        BY <3>1, <3>2, SetInduction
    <3>. QED
      BY <3>3
  <2>. DEFINE g == [n \in Nat |-> h[n][2]]
  <2>5. g \in [Nat -> Nat] /\ g[0] = 0
    BY <2>8
  <2>6. ASSUME NEW n \in Nat, n # 0
        PROVE  g[n] = g[n - 1] + MonthLength(n - 1)
    <3>1. n - 1 \in Nat /\ n = (n - 1) + 1
      BY <2>6
    <3>2. h[n] = <<h[n - 1][1] + 1, h[n - 1][2] + MonthLength(h[n - 1][1])>>
      BY <2>3, <3>1
    <3>. QED
      BY <2>4, <3>1, <3>2
  <2>. HIDE DEF g
  <2>7. g = Def(g)
    <3>1. \A n \in Nat : g[n] = Def(g)[n]
      BY <2>5, <2>6
    <3>. QED
      BY <2>5, <3>1
  <2>. QED
    BY <2>5, <2>7
<1>2. DaysBefore = Def(DaysBefore)
  BY <1>1 DEF DaysBefore
<1>3. \A q \in Nat : DaysBefore[q] = IF q = 0 THEN 0 ELSE DaysBefore[q - 1] + MonthLength(q - 1)
  BY <1>2
<1>4. DaysBefore[0] = 0
  BY <1>3
<1>5. ASSUME NEW q \in Nat
      PROVE  DaysBefore[q + 1] = DaysBefore[q] + MonthLength(q)
  <2>1. q + 1 \in Nat /\ q + 1 # 0 /\ (q + 1) - 1 = q
    OBVIOUS
  <2>. QED
    BY <1>3, <2>1
<1>6. \A q \in Nat : DaysBefore[q] \in Nat
  <2>. DEFINE G == {n \in Nat : DaysBefore[n] \in Nat}
  <2>1. 0 \in G
    BY <1>4
  <2>2. \A n \in Nat : n \in G => n + 1 \in G
    BY <1>5, MonthLengthFacts
  <2>3. \A n \in Nat : n \in G
    <3>. HIDE DEF G
    <3>. QED
      BY <2>1, <2>2, SetInduction
  <2>. QED
    BY <2>3
<1>7. DaysBefore = [q \in Nat |-> DaysBefore[q]]
  BY <1>2
<1>. QED
  BY <1>4, <1>5, <1>6, <1>7

\* The months follow one another without a gap.
LEMMA DaysBeforeGrows ==
    ASSUME NEW i \in Nat
    PROVE  /\ \A j \in Nat : i < j => DaysBefore[i] + MonthLength(i) <= DaysBefore[j]
           /\ i <= DaysBefore[i]
<1>1. \A n \in Nat : DaysBefore[n] \in Nat /\ MonthLength(n) \in Nat \ {0}
  BY DaysBeforeFacts, MonthLengthFacts
<1>2. ASSUME NEW j \in Nat, i < j
      PROVE  DaysBefore[i] + MonthLength(i) <= DaysBefore[j]
  <2>. DEFINE G == {n \in Nat : DaysBefore[i] + MonthLength(i) <= DaysBefore[i + 1 + n]}
  <2>1. 0 \in G
    BY <1>1, DaysBeforeFacts
  <2>2. ASSUME NEW n \in Nat, n \in G
        PROVE  n + 1 \in G
    <3>1. i + 1 + n \in Nat /\ i + 1 + (n + 1) = (i + 1 + n) + 1
      OBVIOUS
    <3>2. DaysBefore[i + 1 + (n + 1)] = DaysBefore[i + 1 + n] + MonthLength(i + 1 + n)
      BY <3>1, DaysBeforeFacts
    <3>. QED
      BY <1>1, <2>2, <3>1, <3>2
  <2>3. \A n \in Nat : n \in G
    <3>. HIDE DEF G
    <3>. QED
      BY <2>1, <2>2, SetInduction
  <2>4. j - i - 1 \in Nat /\ i + 1 + (j - i - 1) = j
    BY <1>2
  <2>. QED
    BY <2>3, <2>4
<1>3. i <= DaysBefore[i]
  <2>. DEFINE G == {n \in Nat : n <= DaysBefore[n]}
  <2>1. 0 \in G
    BY DaysBeforeFacts
  <2>2. ASSUME NEW n \in Nat, n \in G
        PROVE  n + 1 \in G
    <3>1. DaysBefore[n + 1] = DaysBefore[n] + MonthLength(n)
      BY DaysBeforeFacts
    <3>. QED
      BY <1>1, <2>2, <3>1
  <2>3. \A n \in Nat : n \in G
    <3>. HIDE DEF G
    <3>. QED
      BY <2>1, <2>2, SetInduction
  <2>. QED
    BY <2>3
<1>. QED
  BY <1>2, <1>3

\* A day is in one month,
LEMMA MonthAtUnique ==
    ASSUME NEW D \in Nat, NEW q \in Nat, DaysBefore[q] <= D, D < DaysBefore[q] + MonthLength(q)
    PROVE  MonthAt(D) = q
<1>1. \A n \in Nat : DaysBefore[n] \in Nat /\ MonthLength(n) \in Nat \ {0}
                       /\ DaysBefore[n + 1] = DaysBefore[n] + MonthLength(n)
  BY DaysBeforeFacts, MonthLengthFacts
<1>2. q \in 0 .. D /\ D < DaysBefore[q + 1]
  <2>1. q <= DaysBefore[q]
    BY DaysBeforeGrows
  <2>2. DaysBefore[q] \in Nat /\ DaysBefore[q + 1] = DaysBefore[q] + MonthLength(q)
    BY <1>1
  <2>. QED
    BY <2>1, <2>2
<1>3. ASSUME NEW m \in 0 .. D, DaysBefore[m] <= D, D < DaysBefore[m + 1]
      PROVE  m = q
  <2>1. m \in Nat /\ DaysBefore[m + 1] = DaysBefore[m] + MonthLength(m)
    BY <1>1
  <2>4. /\ DaysBefore[m] \in Nat /\ MonthLength(m) \in Nat
        /\ DaysBefore[q] \in Nat /\ MonthLength(q) \in Nat
    BY <1>1, <2>1
  <2>2. ~(m < q)
    <3>1. m < q => DaysBefore[m] + MonthLength(m) <= DaysBefore[q]
      BY <2>1, DaysBeforeGrows
    <3>. QED
      BY <1>3, <2>1, <2>4, <3>1
  <2>3. ~(q < m)
    <3>1. q < m => DaysBefore[q] + MonthLength(q) <= DaysBefore[m]
      BY <2>1, DaysBeforeGrows
    <3>. QED
      BY <1>3, <2>1, <2>4, <3>1
  <2>. QED
    BY <2>1, <2>2, <2>3
<1>. QED
  BY <1>2, <1>3 DEF MonthAt

\* and in the one MonthAt chooses.
LEMMA MonthAtFacts ==
    ASSUME NEW D \in Nat
    PROVE  /\ MonthAt(D) \in Nat
           /\ DaysBefore[MonthAt(D)] <= D
           /\ D < DaysBefore[MonthAt(D)] + MonthLength(MonthAt(D))
<1>1. \A n \in Nat : DaysBefore[n] \in Nat /\ MonthLength(n) \in Nat \ {0}
                       /\ DaysBefore[n + 1] = DaysBefore[n] + MonthLength(n)
  BY DaysBeforeFacts, MonthLengthFacts
<1>. DEFINE T == {n \in Nat : D < DaysBefore[n + 1]}
<1>2. D \in T
  <2>1. D + 1 <= DaysBefore[D + 1]
    BY DaysBeforeGrows
  <2>. QED
    BY <1>1, <2>1
<1>3. PICK q \in T : \A n \in T : q <= n
  <2>1. T \subseteq Nat /\ T # {}
    BY <1>2
  <2>. HIDE DEF T
  <2>. QED
    BY <2>1, LeastNat
<1>4. DaysBefore[q] <= D
  <2>1. CASE q = 0
    BY <2>1, DaysBeforeFacts
  <2>2. CASE q # 0
    <3>1. q - 1 \in Nat /\ (q - 1) + 1 = q
      BY <2>2
    <3>2. q - 1 \notin T
      <4>1. ~(q <= q - 1)
        OBVIOUS
      <4>. QED
        BY <1>3, <4>1
    <3>. QED
      BY <1>1, <3>1, <3>2
  <2>. QED
    BY <2>1, <2>2
<1>5. q \in Nat /\ D < DaysBefore[q] + MonthLength(q)
  BY <1>1
<1>6. MonthAt(D) = q
  BY <1>4, <1>5, MonthAtUnique
<1>. QED
  BY <1>4, <1>5, <1>6

\* Later days are in later months.
LEMMA MonthAtMonotone ==
    ASSUME NEW D \in Nat, NEW E \in Nat, D <= E
    PROVE  MonthAt(D) <= MonthAt(E)
<1>1. \A n \in Nat : DaysBefore[n] \in Nat /\ MonthLength(n) \in Nat \ {0}
  BY DaysBeforeFacts, MonthLengthFacts
<1>2. ~(MonthAt(E) < MonthAt(D))
  <2>. SUFFICES ASSUME MonthAt(E) < MonthAt(D) PROVE FALSE
    OBVIOUS
  <2>1. DaysBefore[MonthAt(E)] + MonthLength(MonthAt(E)) <= DaysBefore[MonthAt(D)]
    BY MonthAtFacts, DaysBeforeGrows
  <2>. QED
    BY <1>1, <2>1, MonthAtFacts
<1>. QED
  BY <1>2, MonthAtFacts

-----------------------------------------------------------------------------
(***************************************************************************)
(* Dates.  A time is t seconds, in minute AbsMin, hour AbsHour, day AbsDay *)
(* and month AbsMonth counted from time 0.                                 *)
(***************************************************************************)
AbsMin(t) == t \div Seconds
AbsHour(t) == AbsMin(t) \div Minutes
AbsDay(t) == AbsHour(t) \div Hours
AbsMonth(t) == MonthAt(AbsDay(t))

\* localtime, in these numbers.
LEMMA DateOf ==
    ASSUME NEW t \in Nat
    PROVE  time_to_tm(t) =
             [sec  |-> t % Seconds,
              min  |-> AbsMin(t) % Minutes,
              hour |-> AbsHour(t) % Hours,
              mday |-> AbsDay(t) - DaysBefore[AbsMonth(t)] + 1,
              mon  |-> AbsMonth(t) % Months,
              year |-> AbsMonth(t) \div Months,
              wday |-> AbsDay(t) % WeekDays]
  BY DEF time_to_tm, AbsMin, AbsHour, AbsDay, AbsMonth, MonthAt

\* The numbers of a time, in their ranges.
LEMMA AbsFacts ==
    ASSUME NEW t \in Nat
    PROVE  /\ AbsMin(t) \in Nat /\ AbsHour(t) \in Nat /\ AbsDay(t) \in Nat /\ AbsMonth(t) \in Nat
           /\ t % Seconds \in 0 .. Seconds - 1
           /\ AbsMin(t) % Minutes \in 0 .. Minutes - 1
           /\ AbsHour(t) % Hours \in 0 .. Hours - 1
           /\ AbsDay(t) % WeekDays \in 0 .. WeekDays - 1
           /\ AbsMonth(t) % Months \in 0 .. Months - 1
           /\ AbsMonth(t) \div Months \in Nat
           /\ DaysBefore[AbsMonth(t)] \in Nat
           /\ AbsDay(t) - DaysBefore[AbsMonth(t)] + 1 \in 1 .. MonthLength(AbsMonth(t))
           /\ t = AbsMin(t) * Seconds + (t % Seconds)
           /\ AbsMin(t) = AbsHour(t) * Minutes + (AbsMin(t) % Minutes)
           /\ AbsHour(t) = AbsDay(t) * Hours + (AbsHour(t) % Hours)
           /\ AbsMonth(t) = (AbsMonth(t) \div Months) * Months + (AbsMonth(t) % Months)
<1>1. AbsMin(t) \in Nat /\ t % Seconds \in 0 .. Seconds - 1 /\ t = AbsMin(t) * Seconds + (t % Seconds)
  BY CalendarFacts, DivMod DEF AbsMin
<1>2. /\ AbsHour(t) \in Nat /\ AbsMin(t) % Minutes \in 0 .. Minutes - 1
      /\ AbsMin(t) = AbsHour(t) * Minutes + (AbsMin(t) % Minutes)
  BY <1>1, CalendarFacts, DivMod DEF AbsHour
<1>3. /\ AbsDay(t) \in Nat /\ AbsHour(t) % Hours \in 0 .. Hours - 1
      /\ AbsHour(t) = AbsDay(t) * Hours + (AbsHour(t) % Hours)
  BY <1>2, CalendarFacts, DivMod DEF AbsDay
<1>4. AbsDay(t) % WeekDays \in 0 .. WeekDays - 1
  BY <1>3, CalendarFacts, DivMod
<1>5. /\ AbsMonth(t) \in Nat
      /\ DaysBefore[AbsMonth(t)] <= AbsDay(t)
      /\ AbsDay(t) < DaysBefore[AbsMonth(t)] + MonthLength(AbsMonth(t))
  BY <1>3, MonthAtFacts DEF AbsMonth
<1>6. /\ AbsMonth(t) % Months \in 0 .. Months - 1
      /\ AbsMonth(t) \div Months \in Nat
      /\ AbsMonth(t) = (AbsMonth(t) \div Months) * Months + (AbsMonth(t) % Months)
  BY <1>5, CalendarFacts, DivMod
<1>7. DaysBefore[AbsMonth(t)] \in Nat /\ MonthLength(AbsMonth(t)) \in Nat
  BY <1>5, DaysBeforeFacts, MonthLengthFacts
<1>. QED
  BY <1>1, <1>2, <1>3, <1>4, <1>5, <1>6, <1>7

\* They are natural numbers.
LEMMA AbsNats ==
    ASSUME NEW t \in Nat
    PROVE  /\ t % Seconds \in Nat /\ AbsMin(t) % Minutes \in Nat /\ AbsHour(t) % Hours \in Nat
           /\ AbsDay(t) % WeekDays \in Nat /\ AbsMonth(t) % Months \in Nat
<1>1. \A i, j \in Int : \A k \in i .. j : i = 0 => k \in Nat
  OBVIOUS
<1>2. /\ t % Seconds \in 0 .. Seconds - 1 /\ AbsMin(t) % Minutes \in 0 .. Minutes - 1
      /\ AbsHour(t) % Hours \in 0 .. Hours - 1 /\ AbsDay(t) % WeekDays \in 0 .. WeekDays - 1
      /\ AbsMonth(t) % Months \in 0 .. Months - 1
  BY AbsFacts
<1>3. /\ Seconds - 1 \in Int /\ Minutes - 1 \in Int /\ Hours - 1 \in Int /\ WeekDays - 1 \in Int
      /\ Months - 1 \in Int
  BY CalendarFacts
<1>. QED
  BY ONLY <1>1, <1>2, <1>3

\* The fields of the date of a time.
LEMMA DateFacts ==
    ASSUME NEW t \in Nat
    PROVE  /\ time_to_tm(t) \in Date
           /\ time_to_tm(t).sec = t % Seconds
           /\ time_to_tm(t).min = AbsMin(t) % Minutes
           /\ time_to_tm(t).hour = AbsHour(t) % Hours
           /\ time_to_tm(t).mday = AbsDay(t) - DaysBefore[AbsMonth(t)] + 1
           /\ time_to_tm(t).mon = AbsMonth(t) % Months
           /\ time_to_tm(t).year = AbsMonth(t) \div Months
           /\ time_to_tm(t).wday = AbsDay(t) % WeekDays
<1>1. AbsMonth(t) \in Nat
  BY AbsFacts
<1>2. MonthLength(AbsMonth(t)) \in Nat
  BY <1>1, MonthLengthFacts
<1>3. AbsDay(t) - DaysBefore[AbsMonth(t)] + 1 \in Nat \ {0}
  <2>1. AbsDay(t) - DaysBefore[AbsMonth(t)] + 1 \in 1 .. MonthLength(AbsMonth(t))
    BY AbsFacts
  <2>. QED
    BY <1>2, <2>1
<1>4. /\ t % Seconds \in Nat /\ AbsMin(t) % Minutes \in Nat /\ AbsHour(t) % Hours \in Nat
      /\ AbsDay(t) % WeekDays \in Nat /\ AbsMonth(t) % Months \in Nat
      /\ AbsMonth(t) \div Months \in Nat
  BY AbsFacts, CalendarFacts
<1>5. time_to_tm(t) \in Date
  BY ONLY <1>3, <1>4, DateOf, t \in Nat DEF Date
<1>6. /\ time_to_tm(t).sec = t % Seconds
      /\ time_to_tm(t).min = AbsMin(t) % Minutes
      /\ time_to_tm(t).hour = AbsHour(t) % Hours
      /\ time_to_tm(t).mday = AbsDay(t) - DaysBefore[AbsMonth(t)] + 1
      /\ time_to_tm(t).mon = AbsMonth(t) % Months
      /\ time_to_tm(t).year = AbsMonth(t) \div Months
      /\ time_to_tm(t).wday = AbsDay(t) % WeekDays
  BY DateOf
<1>. QED
  BY <1>5, <1>6

\* mktime of any date is a time.
LEMMA TimeType ==
    ASSUME NEW d \in Date
    PROVE  tm_to_time(d) \in Nat
<1>1. d.year * Months + d.mon \in Nat
  BY CalendarFacts DEF Date
<1>2. DaysBefore[d.year * Months + d.mon] \in Nat
  BY <1>1, DaysBeforeFacts
<1>3. DaysBefore[d.year * Months + d.mon] + d.mday - 1 \in Nat
  BY <1>2 DEF Date
<1>4. ASSUME NEW a \in Nat, NEW b \in Nat, NEW c \in Nat
      PROVE  a * b + c \in Nat
  OBVIOUS
<1>5. d.hour \in Nat /\ d.min \in Nat /\ d.sec \in Nat
  BY DEF Date
<1>. QED
  BY <1>3, <1>4, <1>5, CalendarFacts DEF tm_to_time


-----------------------------------------------------------------------------
(***************************************************************************)
(* The operations on a date, as operations on its time.                    *)
(***************************************************************************)
\* The time of second s of minute a, and so on.
AtMin(a, s) == a * Seconds + s
AtHour(a, m, s) == AtMin(a * Minutes + m, s)
AtDay(a, h, m, s) == AtHour(a * Hours + h, m, s)

\* The minute, hour and day of such a time are the ones it was made of.
LEMMA AtMinFacts ==
    ASSUME NEW a \in Nat, NEW s \in 0 .. Seconds - 1
    PROVE  AtMin(a, s) \in Nat /\ AbsMin(AtMin(a, s)) = a /\ AtMin(a, s) % Seconds = s
<1>1. a * Seconds + s \in Nat
  BY CalendarFacts
<1>. QED
  BY <1>1, CalendarFacts, DivUnique DEF AtMin, AbsMin

\* The same of an hour.
LEMMA AtHourFacts ==
    ASSUME NEW a \in Nat, NEW m \in 0 .. Minutes - 1, NEW s \in 0 .. Seconds - 1
    PROVE  /\ AtHour(a, m, s) \in Nat
           /\ AbsHour(AtHour(a, m, s)) = a
           /\ AbsMin(AtHour(a, m, s)) = a * Minutes + m
           /\ AbsMin(AtHour(a, m, s)) % Minutes = m
           /\ AtHour(a, m, s) % Seconds = s
<1>1. a * Minutes + m \in Nat
  BY CalendarFacts
<1>2. (a * Minutes + m) \div Minutes = a /\ (a * Minutes + m) % Minutes = m
  BY CalendarFacts, DivUnique
<1>. QED
  BY <1>1, <1>2, AtMinFacts DEF AtHour, AbsHour

\* The same of a day.
LEMMA AtDayFacts ==
    ASSUME NEW a \in Nat, NEW h \in 0 .. Hours - 1, NEW m \in 0 .. Minutes - 1,
           NEW s \in 0 .. Seconds - 1
    PROVE  /\ AtDay(a, h, m, s) \in Nat
           /\ AbsDay(AtDay(a, h, m, s)) = a
           /\ AbsHour(AtDay(a, h, m, s)) = a * Hours + h
           /\ AbsHour(AtDay(a, h, m, s)) % Hours = h
           /\ AbsMin(AtDay(a, h, m, s)) % Minutes = m
           /\ AtDay(a, h, m, s) % Seconds = s
<1>1. a * Hours + h \in Nat
  BY CalendarFacts
<1>2. (a * Hours + h) \div Hours = a /\ (a * Hours + h) % Hours = h
  BY CalendarFacts, DivUnique
<1>. QED
  BY <1>1, <1>2, AtHourFacts DEF AtDay, AbsDay

\* There is a time at a minute and second of an hour,
LEMMA HourTime ==
    ASSUME NEW a \in Nat, NEW m \in 0 .. Minutes - 1, NEW s \in 0 .. Seconds - 1
    PROVE  \E v \in Nat : v = AtHour(a, m, s) /\ AbsHour(v) = a /\ v % Seconds = s
<1>. DEFINE v == AtHour(a, m, s)
<1>1. v \in Nat /\ AbsHour(v) = a /\ v % Seconds = s
  BY AtHourFacts
<1>. QED
  BY ONLY <1>1

\* and at an hour, minute and second of a day.
LEMMA DayTime ==
    ASSUME NEW a \in Nat, NEW h \in 0 .. Hours - 1, NEW m \in 0 .. Minutes - 1,
           NEW s \in 0 .. Seconds - 1
    PROVE  \E v \in Nat : v = AtDay(a, h, m, s) /\ AbsDay(v) = a /\ v % Seconds = s
<1>. DEFINE v == AtDay(a, h, m, s)
<1>1. v \in Nat /\ AbsDay(v) = a /\ v % Seconds = s
  BY AtDayFacts
<1>. QED
  BY ONLY <1>1

\* A time is at its own second, minute, hour and day.
LEMMA AtSelf ==
    ASSUME NEW t \in Nat
    PROVE  /\ t = AtMin(AbsMin(t), t % Seconds)
           /\ t = AtHour(AbsHour(t), AbsMin(t) % Minutes, t % Seconds)
           /\ t = AtDay(AbsDay(t), AbsHour(t) % Hours, AbsMin(t) % Minutes, t % Seconds)
  BY AbsFacts DEF AtMin, AtHour, AtDay

\* tm_to_time of a date of the month of t, mktime not called yet.
LEMMA TimeAt ==
    ASSUME NEW t \in Nat, NEW d \in Date,
           d.year = time_to_tm(t).year, d.mon = time_to_tm(t).mon
    PROVE  tm_to_time(d) =
               AtDay(AbsDay(t) + d.mday - time_to_tm(t).mday, d.hour, d.min, d.sec)
<1>1. d.year * Months + d.mon = AbsMonth(t)
  <2>1. d.year = AbsMonth(t) \div Months /\ d.mon = AbsMonth(t) % Months
    BY DateFacts
  <2>. QED
    BY <2>1, AbsFacts
<1>2. PICK B \in Nat, D \in Nat, x \in Nat : B = DaysBefore[AbsMonth(t)] /\ D = AbsDay(t) /\ x = d.mday
  BY AbsFacts DEF Date
<1>3. time_to_tm(t).mday = D - B + 1
  BY <1>2, DateFacts
<1>4. B + x - 1 = D + x - time_to_tm(t).mday
  BY <1>3
<1>. QED
  BY <1>1, <1>2, <1>4 DEF tm_to_time, AtDay, AtHour, AtMin

\* Every change of a field below the month keeps the others.
LEMMA Changed ==
    ASSUME NEW t \in Nat, NEW f \in {"sec", "min", "hour", "mday"}, NEW k \in Nat,
           f = "mday" => k # 0
    PROVE  Normal([time_to_tm(t) EXCEPT ![f] = k]) =
             time_to_tm(AtDay(IF f = "mday" THEN AbsDay(t) + k - time_to_tm(t).mday ELSE AbsDay(t),
                              IF f = "hour" THEN k ELSE AbsHour(t) % Hours,
                              IF f = "min" THEN k ELSE AbsMin(t) % Minutes,
                              IF f = "sec" THEN k ELSE t % Seconds))
<1>1. PICK d \in Date : d = time_to_tm(t)
  BY DateFacts
<1>2. PICK e : e = [d EXCEPT ![f] = k]
  OBVIOUS
<1>3. /\ e \in Date /\ e.year = d.year /\ e.mon = d.mon
      /\ e.mday = IF f = "mday" THEN k ELSE d.mday
      /\ e.hour = IF f = "hour" THEN k ELSE d.hour
      /\ e.min = IF f = "min" THEN k ELSE d.min
      /\ e.sec = IF f = "sec" THEN k ELSE d.sec
  <2>1. k \in Nat /\ (f = "mday" => k \in Nat \ {0})
    OBVIOUS
  <2>. QED
    BY <1>2, <2>1 DEF Date
<1>4. tm_to_time(e) = AtDay(AbsDay(t) + e.mday - d.mday, e.hour, e.min, e.sec)
  BY <1>1, <1>3, TimeAt
<1>5. d.hour = AbsHour(t) % Hours /\ d.min = AbsMin(t) % Minutes /\ d.sec = t % Seconds
  BY <1>1, DateFacts
<1>6. AbsDay(t) + e.mday - d.mday
        = IF f = "mday" THEN AbsDay(t) + k - d.mday ELSE AbsDay(t)
  <2>1. AbsDay(t) \in Nat /\ d.mday \in Nat
    BY AbsFacts DEF Date
  <2>. QED
    BY <1>3, <2>1
<1>. QED
  BY <1>1, <1>2, <1>3, <1>4, <1>5, <1>6 DEF Normal

\* mktime takes back what localtime made.
LEMMA RoundTrip ==
    ASSUME NEW t \in Nat
    PROVE  tm_to_time(time_to_tm(t)) = t
<1>1. PICK d \in Date : d = time_to_tm(t)
  BY DateFacts
<1>2. tm_to_time(d) = AtDay(AbsDay(t) + d.mday - d.mday, d.hour, d.min, d.sec)
  BY <1>1, TimeAt
<1>3. AbsDay(t) + d.mday - d.mday = AbsDay(t)
  BY AbsFacts DEF Date
<1>. QED
  BY <1>1, <1>2, <1>3, DateFacts, AtSelf

\* Adding and setting seconds, minutes and hours.
LEMMA SecOps ==
    ASSUME NEW t \in Nat, NEW k \in Nat
    PROVE  /\ set_field(time_to_tm(t), "sec", k) = time_to_tm(AtMin(AbsMin(t), k))
           /\ add_to_field(time_to_tm(t), "sec", 1) = time_to_tm(t + 1)
<1>1. Normal([time_to_tm(t) EXCEPT !["sec"] = k]) = time_to_tm(AtMin(AbsMin(t), k))
  <2>1. Normal([time_to_tm(t) EXCEPT !["sec"] = k]) =
          time_to_tm(AtDay(AbsDay(t), AbsHour(t) % Hours, AbsMin(t) % Minutes, k))
    BY Changed
  <2>. QED
    BY <2>1, AbsFacts DEF AtDay, AtHour
<1>2. Normal([time_to_tm(t) EXCEPT !["sec"] = (t % Seconds) + 1]) = time_to_tm(t + 1)
  <2>1. (t % Seconds) + 1 \in Nat
    BY AbsFacts, CalendarFacts
  <2>2. Normal([time_to_tm(t) EXCEPT !["sec"] = (t % Seconds) + 1]) =
          time_to_tm(AtDay(AbsDay(t), AbsHour(t) % Hours, AbsMin(t) % Minutes, (t % Seconds) + 1))
    BY <2>1, Changed
  <2>3. AtDay(AbsDay(t), AbsHour(t) % Hours, AbsMin(t) % Minutes, (t % Seconds) + 1)
          = AtMin(AbsMin(t), (t % Seconds) + 1)
    BY AbsFacts DEF AtDay, AtHour
  <2>4. AtMin(AbsMin(t), (t % Seconds) + 1) = t + 1
    <3>1. PICK a \in Nat, s \in Nat : a = AbsMin(t) /\ s = t % Seconds /\ t = a * Seconds + s
      <4>1. AbsMin(t) \in Nat /\ t % Seconds \in Nat /\ t = AbsMin(t) * Seconds + (t % Seconds)
        BY AbsFacts, AbsNats
      <4>. QED
        BY <4>1
    <3>. QED
      BY <3>1, CalendarFacts DEF AtMin
  <2>. QED
    BY <2>2, <2>3, <2>4
<1>3. time_to_tm(t)["sec"] = t % Seconds /\ time_to_tm(t) \in Date
  BY DateFacts
<1>. QED
  BY <1>1, <1>2, <1>3 DEF set_field, add_to_field, Date
\* The same of minutes,
LEMMA MinOps ==
    ASSUME NEW t \in Nat, NEW k \in Nat
    PROVE  /\ set_field(time_to_tm(t), "min", k) = time_to_tm(AtHour(AbsHour(t), k, t % Seconds))
           /\ add_to_field(time_to_tm(t), "min", 1) = time_to_tm(AtMin(AbsMin(t) + 1, t % Seconds))
<1>1. PICK m \in Nat, h \in Nat, a \in Nat, b \in Nat :
         /\ m = AbsMin(t) % Minutes /\ h = AbsHour(t) % Hours /\ a = AbsHour(t) /\ b = AbsMin(t)
         /\ b = a * Minutes + m /\ a = AbsDay(t) * Hours + h
  <2>1. /\ AbsMin(t) % Minutes \in Nat /\ AbsHour(t) % Hours \in Nat
        /\ AbsHour(t) \in Nat /\ AbsMin(t) \in Nat
    BY AbsFacts, AbsNats
  <2>2. AbsMin(t) = AbsHour(t) * Minutes + (AbsMin(t) % Minutes)
        /\ AbsHour(t) = AbsDay(t) * Hours + (AbsHour(t) % Hours)
    BY AbsFacts
  <2>. QED
    BY ONLY <2>1, <2>2
<1>2. Normal([time_to_tm(t) EXCEPT !["min"] = k]) = time_to_tm(AtHour(a, k, t % Seconds))
  <2>1. Normal([time_to_tm(t) EXCEPT !["min"] = k]) =
          time_to_tm(AtDay(AbsDay(t), AbsHour(t) % Hours, k, t % Seconds))
    BY Changed
  <2>. QED
    BY <1>1, <2>1 DEF AtDay
<1>3. Normal([time_to_tm(t) EXCEPT !["min"] = m + 1]) = time_to_tm(AtMin(b + 1, t % Seconds))
  <2>1. Normal([time_to_tm(t) EXCEPT !["min"] = m + 1]) =
          time_to_tm(AtDay(AbsDay(t), AbsHour(t) % Hours, m + 1, t % Seconds))
    <3>1. m + 1 \in Nat
      OBVIOUS
    <3>. QED
      BY <3>1, Changed
  <2>2. AtDay(AbsDay(t), AbsHour(t) % Hours, m + 1, t % Seconds) = AtMin(a * Minutes + (m + 1), t % Seconds)
    BY <1>1 DEF AtDay, AtHour
  <2>3. a * Minutes + (m + 1) = b + 1
    BY <1>1, CalendarFacts
  <2>. QED
    BY <2>1, <2>2, <2>3
<1>4. time_to_tm(t)["min"] = m /\ time_to_tm(t) \in Date
  BY <1>1, DateFacts
<1>. QED
  BY <1>1, <1>2, <1>3, <1>4 DEF set_field, add_to_field, Date

\* of hours,
LEMMA HourOps ==
    ASSUME NEW t \in Nat, NEW k \in Nat
    PROVE  /\ set_field(time_to_tm(t), "hour", k)
                = time_to_tm(AtDay(AbsDay(t), k, AbsMin(t) % Minutes, t % Seconds))
           /\ add_to_field(time_to_tm(t), "hour", 1)
                = time_to_tm(AtHour(AbsHour(t) + 1, AbsMin(t) % Minutes, t % Seconds))
<1>1. PICK h \in Nat, a \in Nat, D \in Nat :
         h = AbsHour(t) % Hours /\ a = AbsHour(t) /\ D = AbsDay(t) /\ a = D * Hours + h
  <2>1. AbsHour(t) % Hours \in Nat /\ AbsHour(t) \in Nat /\ AbsDay(t) \in Nat
    BY AbsFacts, AbsNats
  <2>2. AbsMin(t) = AbsHour(t) * Minutes + (AbsMin(t) % Minutes)
        /\ AbsHour(t) = AbsDay(t) * Hours + (AbsHour(t) % Hours)
    BY AbsFacts
  <2>. QED
    BY ONLY <2>1, <2>2
<1>2. Normal([time_to_tm(t) EXCEPT !["hour"] = k])
        = time_to_tm(AtDay(D, k, AbsMin(t) % Minutes, t % Seconds))
  BY <1>1, Changed
<1>3. Normal([time_to_tm(t) EXCEPT !["hour"] = h + 1])
        = time_to_tm(AtHour(a + 1, AbsMin(t) % Minutes, t % Seconds))
  <2>1. Normal([time_to_tm(t) EXCEPT !["hour"] = h + 1]) =
          time_to_tm(AtDay(D, h + 1, AbsMin(t) % Minutes, t % Seconds))
    BY <1>1, Changed
  <2>2. D * Hours + (h + 1) = a + 1
    BY <1>1, CalendarFacts
  <2>. QED
    BY <2>1, <2>2 DEF AtDay
<1>4. time_to_tm(t)["hour"] = h /\ time_to_tm(t) \in Date
  BY <1>1, DateFacts
<1>. QED
  BY <1>1, <1>2, <1>3, <1>4 DEF set_field, add_to_field, Date

\* and of days: adding any number, and the first of the month.
LEMMA DayOps ==
    ASSUME NEW t \in Nat, NEW n \in Nat
    PROVE  /\ add_to_field(time_to_tm(t), "mday", n)
                = time_to_tm(AtDay(AbsDay(t) + n, AbsHour(t) % Hours, AbsMin(t) % Minutes, t % Seconds))
           /\ reset_field(time_to_tm(t), "mday")
                = time_to_tm(AtDay(DaysBefore[AbsMonth(t)], AbsHour(t) % Hours,
                                   AbsMin(t) % Minutes, t % Seconds))
<1>1. PICK x \in Nat \ {0}, D \in Nat, B \in Nat :
         x = time_to_tm(t).mday /\ D = AbsDay(t) /\ B = DaysBefore[AbsMonth(t)] /\ x = D - B + 1
  <2>1. time_to_tm(t).mday \in Nat \ {0} /\ AbsDay(t) \in Nat /\ DaysBefore[AbsMonth(t)] \in Nat
    BY AbsFacts, DateFacts DEF Date
  <2>. QED
    BY <2>1, DateFacts
<1>2. Normal([time_to_tm(t) EXCEPT !["mday"] = x + n])
        = time_to_tm(AtDay(D + n, AbsHour(t) % Hours, AbsMin(t) % Minutes, t % Seconds))
  <2>1. x + n \in Nat /\ x + n # 0 /\ D + (x + n) - x = D + n
    BY <1>1
  <2>2. Normal([time_to_tm(t) EXCEPT !["mday"] = x + n])
          = time_to_tm(AtDay(AbsDay(t) + (x + n) - time_to_tm(t).mday, AbsHour(t) % Hours,
                             AbsMin(t) % Minutes, t % Seconds))
    BY <2>1, Changed
  <2>. QED
    BY <1>1, <2>1, <2>2
<1>3. Normal([time_to_tm(t) EXCEPT !["mday"] = 1])
        = time_to_tm(AtDay(B, AbsHour(t) % Hours, AbsMin(t) % Minutes, t % Seconds))
  <2>1. D + 1 - x = B
    BY <1>1
  <2>2. Normal([time_to_tm(t) EXCEPT !["mday"] = 1])
          = time_to_tm(AtDay(AbsDay(t) + 1 - time_to_tm(t).mday, AbsHour(t) % Hours,
                             AbsMin(t) % Minutes, t % Seconds))
    BY Changed
  <2>. QED
    BY <1>1, <2>1, <2>2
<1>4. time_to_tm(t)["mday"] = x /\ time_to_tm(t) \in Date
  BY <1>1, DateFacts
<1>. QED
  BY <1>1, <1>2, <1>3, <1>4 DEF set_field, add_to_field, reset_field, Date

-----------------------------------------------------------------------------
(***************************************************************************)
(* The resets.                                                             *)
(***************************************************************************)
\* The second that is left when the fields in mk are reset.
LeftSec(mk, t) == IF "sec" \in mk THEN 0 ELSE t % Seconds

\* What is left of a time in its minute, hour or day.
LEMMA ResetLeft ==
    ASSUME NEW t \in Nat, NEW mk \in SUBSET {"sec", "min", "hour", "mday"}
    PROVE  Reset(time_to_tm(t), "sec", mk) = time_to_tm(AtMin(AbsMin(t), LeftSec(mk, t)))
<1>1. reset_field(time_to_tm(t), "sec") = time_to_tm(AtMin(AbsMin(t), 0))
  BY SecOps DEF reset_field
<1>. QED
  BY <1>1, AtSelf DEF Reset, LeftSec

\* It is a second.
LEMMA LeftSecType ==
    ASSUME NEW t \in Nat, NEW mk
    PROVE  LeftSec(mk, t) \in 0 .. Seconds - 1
<1>1. t % Seconds \in 0 .. Seconds - 1
  BY AbsFacts
<1>2. 0 \in 0 .. Seconds - 1
  BY CalendarFacts
<1>. QED
  BY <1>1, <1>2 DEF LeftSec

\* The minute is reset with the second,
LEMMA ResetMin ==
    ASSUME NEW t \in Nat, NEW mk \in SUBSET {"sec", "min", "hour", "mday"}, "min" \in mk
    PROVE  Reset(Reset(time_to_tm(t), "sec", mk), "min", mk)
             = time_to_tm(AtHour(AbsHour(t), 0, LeftSec(mk, t)))
<1>1. PICK s \in 0 .. Seconds - 1 : s = LeftSec(mk, t)
  BY LeftSecType
<1>2. PICK u \in Nat : u = AtMin(AbsMin(t), s) /\ AbsMin(u) = AbsMin(t) /\ u % Seconds = s
  BY AtMinFacts, AbsFacts
<1>3. AbsHour(u) = AbsHour(t)
  BY <1>2 DEF AbsHour
<1>4. reset_field(time_to_tm(u), "min") = time_to_tm(AtHour(AbsHour(u), 0, u % Seconds))
  BY MinOps DEF reset_field
<1>. QED
  BY <1>1, <1>2, <1>3, <1>4, ResetLeft DEF Reset

\* the hour with both,
LEMMA ResetHour ==
    ASSUME NEW t \in Nat, NEW mk \in SUBSET {"sec", "min", "hour", "mday"}, {"min", "hour"} \subseteq mk
    PROVE  Reset(Reset(Reset(time_to_tm(t), "sec", mk), "min", mk), "hour", mk)
             = time_to_tm(AtDay(AbsDay(t), 0, 0, LeftSec(mk, t)))
<1>1. PICK s \in 0 .. Seconds - 1 : s = LeftSec(mk, t)
  BY LeftSecType
<1>2. PICK u \in Nat : /\ u = AtHour(AbsHour(t), 0, s) /\ AbsHour(u) = AbsHour(t)
                       /\ AbsMin(u) % Minutes = 0 /\ u % Seconds = s
  <2>1. 0 \in 0 .. Minutes - 1
    BY CalendarFacts
  <2>2. AbsHour(t) \in Nat
    BY AbsFacts
  <2>. QED
    BY <2>1, <2>2, AtHourFacts
<1>3. AbsDay(u) = AbsDay(t)
  BY <1>2 DEF AbsDay
<1>4. reset_field(time_to_tm(u), "hour") = time_to_tm(AtDay(AbsDay(u), 0, 0, u % Seconds))
  BY <1>2, HourOps DEF reset_field
<1>. QED
  BY <1>1, <1>2, <1>3, <1>4, ResetMin DEF Reset

\* and the day of the month with all three.
LEMMA ResetDay ==
    ASSUME NEW t \in Nat, NEW mk \in SUBSET {"sec", "min", "hour", "mday"},
           {"min", "hour", "mday"} \subseteq mk
    PROVE  reset_all_fields(time_to_tm(t), mk)
             = time_to_tm(AtDay(DaysBefore[AbsMonth(t)], 0, 0, LeftSec(mk, t)))
<1>1. PICK s \in 0 .. Seconds - 1 : s = LeftSec(mk, t)
  BY LeftSecType
<1>2. PICK u \in Nat : /\ u = AtDay(AbsDay(t), 0, 0, s) /\ AbsDay(u) = AbsDay(t)
                       /\ AbsHour(u) % Hours = 0 /\ AbsMin(u) % Minutes = 0 /\ u % Seconds = s
  <2>1. 0 \in 0 .. Minutes - 1 /\ 0 \in 0 .. Hours - 1
    BY CalendarFacts
  <2>2. AbsDay(t) \in Nat
    BY AbsFacts
  <2>. QED
    BY <2>1, <2>2, AtDayFacts
<1>3. AbsMonth(u) = AbsMonth(t)
  BY <1>2 DEF AbsMonth
<1>4. reset_field(time_to_tm(u), "mday") = time_to_tm(AtDay(DaysBefore[AbsMonth(u)], 0, 0, u % Seconds))
  BY <1>2, DayOps
<1>. QED
  BY <1>1, <1>2, <1>3, <1>4, ResetHour DEF Reset, reset_all_fields

-----------------------------------------------------------------------------
(***************************************************************************)
(* Moving to another month: the day of the month goes with it, and mktime  *)
(* leaves it alone if that month has such a day.                           *)
(***************************************************************************)
LEMMA MoveMonth ==
    ASSUME NEW t \in Nat, NEW d \in Date, NEW q \in Nat,
           d.year * Months + d.mon = q, d.mday = time_to_tm(t).mday,
           d.hour = time_to_tm(t).hour, d.min = time_to_tm(t).min, d.sec = time_to_tm(t).sec,
           d.mday <= MonthLength(q)
    PROVE  \E u \in Nat :
              /\ Normal(d) = time_to_tm(u)
              /\ AbsMonth(u) = q
              /\ time_to_tm(u).mday = d.mday
              /\ u % Seconds = t % Seconds
<1>1. PICK B \in Nat, x \in Nat \ {0} : B = DaysBefore[q] /\ x = d.mday
  BY DaysBeforeFacts DEF Date
<1>2. PICK h \in 0 .. Hours - 1, m \in 0 .. Minutes - 1, s \in 0 .. Seconds - 1 :
          d.hour = h /\ d.min = m /\ d.sec = s /\ s = t % Seconds
  <2>1. d.hour = AbsHour(t) % Hours /\ d.min = AbsMin(t) % Minutes /\ d.sec = t % Seconds
    BY DateFacts
  <2>2. /\ AbsHour(t) % Hours \in 0 .. Hours - 1 /\ AbsMin(t) % Minutes \in 0 .. Minutes - 1
        /\ t % Seconds \in 0 .. Seconds - 1
    BY AbsFacts
  <2>. QED
    BY ONLY <2>1, <2>2
<1>3. PICK D \in Nat : D = B + x - 1
  BY <1>1
<1>4. tm_to_time(d) = AtDay(D, h, m, s)
  BY <1>1, <1>2, <1>3 DEF tm_to_time, AtDay, AtHour, AtMin
<1>5. PICK u \in Nat : u = AtDay(D, h, m, s) /\ AbsDay(u) = D /\ u % Seconds = s
  <2>1. AtDay(D, h, m, s) \in Nat /\ AbsDay(AtDay(D, h, m, s)) = D /\ AtDay(D, h, m, s) % Seconds = s
    BY AtDayFacts
  <2>. QED
    BY <2>1
<1>6. MonthAt(D) = q
  <2>1. MonthLength(q) \in Nat
    BY MonthLengthFacts
  <2>2. DaysBefore[q] <= D /\ D < DaysBefore[q] + MonthLength(q)
    BY <1>1, <1>3, <2>1
  <2>. QED
    BY <2>2, MonthAtUnique
<1>7. AbsMonth(u) = q
  BY <1>5, <1>6 DEF AbsMonth
<1>8. time_to_tm(u).mday = x
  <2>1. time_to_tm(u).mday = D - B + 1
    BY <1>1, <1>5, <1>7, DateFacts
  <2>. QED
    BY <1>3, <2>1
<1>. QED
  BY <1>1, <1>2, <1>4, <1>5, <1>7, <1>8 DEF Normal

\* Setting the month, and the same month of the next year.
LEMMA MonthOps ==
    ASSUME NEW t \in Nat, NEW k \in 0 .. Months - 1,
           \A m \in 1 .. Months : time_to_tm(t).mday <= MonthDays[m]
    PROVE  /\ \E u \in Nat :
                /\ set_field(time_to_tm(t), "mon", k) = time_to_tm(u)
                /\ AbsMonth(u) = AbsMonth(t) - (AbsMonth(t) % Months) + k
                /\ time_to_tm(u).mday = time_to_tm(t).mday
                /\ u % Seconds = t % Seconds
           /\ \E u \in Nat :
                /\ add_to_field(time_to_tm(t), "year", 1) = time_to_tm(u)
                /\ AbsMonth(u) = AbsMonth(t) + Months
                /\ time_to_tm(u).mday = time_to_tm(t).mday
                /\ u % Seconds = t % Seconds
<1>1. PICK d \in Date : d = time_to_tm(t)
  BY DateFacts
<1>2. ASSUME NEW q \in Nat
      PROVE  d.mday <= MonthLength(q)
  <2>1. (q % Months) + 1 \in 1 .. Months
    BY MonthLengthFacts, CalendarFacts
  <2>2. MonthDays[(q % Months) + 1] <= MonthLength(q) /\ MonthLength(q) \in Nat
    BY MonthLengthFacts
  <2>3. d.mday <= MonthDays[(q % Months) + 1] /\ MonthDays[(q % Months) + 1] \in Nat
    BY <1>1, <2>1, CalendarFacts
  <2>4. d.mday \in Nat
    BY DEF Date
  <2>. QED
    BY ONLY <2>2, <2>3, <2>4
<1>3. PICK y \in Nat, n \in Nat, a \in Nat :
          /\ y = d.year /\ n = d.mon /\ a = AbsMonth(t) /\ a = y * Months + n
          /\ n = AbsMonth(t) % Months
  <2>1. d.year = AbsMonth(t) \div Months /\ d.mon = AbsMonth(t) % Months
    BY <1>1, DateFacts
  <2>2. AbsMonth(t) = (AbsMonth(t) \div Months) * Months + (AbsMonth(t) % Months) /\ AbsMonth(t) \in Nat
    BY AbsFacts
  <2>. QED
    BY <2>1, <2>2 DEF Date
<1>4. PICK e \in Date, q \in Nat :
          e = [d EXCEPT !["mon"] = k] /\ q = a - n + k /\ e.year * Months + e.mon = q
          /\ e.mday = d.mday /\ e.hour = d.hour /\ e.min = d.min /\ e.sec = d.sec
  <2>1. k \in Nat
    BY CalendarFacts
  <2>2. y * Months \in Nat /\ y * Months + k = a - n + k
    <3>1. y * Months \in Nat
      BY CalendarFacts
    <3>. QED
      BY <1>3, <2>1, <3>1
  <2>3. [d EXCEPT !["mon"] = k] \in Date
    BY <2>1 DEF Date
  <2>4. y * Months + k \in Nat
    BY <2>1, <2>2
  <2>. QED
    BY <1>3, <2>2, <2>3, <2>4 DEF Date
<1>5. PICK e2 \in Date, q2 \in Nat :
          e2 = [d EXCEPT !["year"] = y + 1] /\ q2 = a + Months /\ e2.year * Months + e2.mon = q2
          /\ e2.mday = d.mday /\ e2.hour = d.hour /\ e2.min = d.min /\ e2.sec = d.sec
  <2>1. (y + 1) * Months + n = a + Months
    BY <1>3, CalendarFacts
  <2>2. [d EXCEPT !["year"] = y + 1] \in Date
    BY DEF Date
  <2>3. a + Months \in Nat
    BY CalendarFacts
  <2>. QED
    BY <1>3, <2>1, <2>2, <2>3 DEF Date
<1>6. PICK u \in Nat :
         Normal(e) = time_to_tm(u) /\ AbsMonth(u) = q
         /\ time_to_tm(u).mday = e.mday /\ u % Seconds = t % Seconds
  <2>1. e.mday <= MonthLength(q)
    BY <1>2, <1>4
  <2>2. /\ e.mday = time_to_tm(t).mday /\ e.hour = time_to_tm(t).hour
        /\ e.min = time_to_tm(t).min /\ e.sec = time_to_tm(t).sec
    BY <1>1, <1>4
  <2>3. e.year * Months + e.mon = q
    BY <1>4
  <2>. QED
    BY ONLY <2>1, <2>2, <2>3, MoveMonth, t \in Nat, e \in Date, q \in Nat
<1>7. PICK u2 \in Nat :
         Normal(e2) = time_to_tm(u2) /\ AbsMonth(u2) = q2
         /\ time_to_tm(u2).mday = e2.mday /\ u2 % Seconds = t % Seconds
  <2>1. e2.mday <= MonthLength(q2)
    BY <1>2, <1>5
  <2>2. /\ e2.mday = time_to_tm(t).mday /\ e2.hour = time_to_tm(t).hour
        /\ e2.min = time_to_tm(t).min /\ e2.sec = time_to_tm(t).sec
    BY <1>1, <1>5
  <2>3. e2.year * Months + e2.mon = q2
    BY <1>5
  <2>. QED
    BY ONLY <2>1, <2>2, <2>3, MoveMonth, t \in Nat, e2 \in Date, q2 \in Nat
<1>8. set_field(time_to_tm(t), "mon", k) = Normal(e)
  BY <1>1, <1>4 DEF set_field
<1>9. add_to_field(time_to_tm(t), "year", 1) = Normal(e2)
  BY <1>1, <1>3, <1>5 DEF add_to_field, Date
<1>. QED
  BY <1>1, <1>3, <1>4, <1>5, <1>6, <1>7, <1>8, <1>9

-----------------------------------------------------------------------------
(***************************************************************************)
(* find_next of a field: it stays, or goes to the next slot of its set and *)
(* resets the fields below that are marked.                                *)
(***************************************************************************)
Stays(d) == [same |-> TRUE, date |-> d]
Moves(d) == [same |-> FALSE, date |-> d]

\* A value in the set stays.
LEMMA FindStays ==
    ASSUME NEW T \in NonEmpty(Nat), NEW d, NEW field, NEW next_field, NEW marked,
           d[field] \in T
    PROVE  FindField(T, d, field, next_field, marked) = Stays(d)
<1>1. T \subseteq Nat /\ T # {}
  BY DEF NonEmpty
<1>. DEFINE v == d[field]
           here == next_set_bit(T, v)
<1>2. v \in Nat
  BY <1>1
<1>3. here = v
  <2>2. \E i \in T : i >= v
    BY <1>2
  <2>3. here \in T /\ here >= v /\ \A i \in T : i >= v => here <= i
    BY <1>1, <1>2, <2>2, NextSetBit
  <2>. HIDE DEF here, v
  <2>4. v \in T
    BY DEF v
  <2>5. here \in Nat /\ here <= v
    BY <1>1, <1>2, <2>3, <2>4
  <2>. QED
    BY <1>2, <2>3, <2>5
<1>4. v # INVALID
  BY <1>2 DEF INVALID
<1>. QED
  BY <1>3, <1>4 DEF FindField, Stays

\* A later value in this turn is gone to,
LEMMA FindMoves ==
    ASSUME NEW T \in NonEmpty(Nat), NEW d, NEW field, NEW next_field, NEW marked,
           d[field] \in Nat, d[field] \notin T, next_set_bit(T, d[field]) # INVALID
    PROVE  FindField(T, d, field, next_field, marked)
             = Moves(reset_all_fields(set_field(d, field, next_set_bit(T, d[field])), marked))
<1>1. next_set_bit(T, d[field]) \in T
  BY NextBitIn DEF NonEmpty
<1>2. next_set_bit(T, d[field]) # d[field]
  BY <1>1
<1>. QED
  BY <1>2 DEF FindField, Moved, Moves

\* else the first one of the next turn.
LEMMA FindTurns ==
    ASSUME NEW T \in NonEmpty(Nat), NEW d, NEW field, NEW next_field, NEW marked,
           d[field] \in Nat, d[field] \notin T, next_set_bit(T, d[field]) = INVALID
    PROVE  FindField(T, d, field, next_field, marked)
             = Moves(reset_all_fields(
                       set_field(reset_field(add_to_field(d, next_field, 1), field),
                                 field, next_set_bit(T, 0)), marked))
<1>1. d[field] # INVALID
  BY DEF INVALID
<1>. QED
  BY <1>1 DEF FindField, Moved, Moves

\* The seconds, which are looked for first: nothing is marked.
LEMMA FindSec ==
    ASSUME NEW t \in Nat, NEW T \in NonEmpty(0 .. Seconds - 1)
    PROVE  FindField(T, time_to_tm(t), "sec", "min", {}) =
             IF t % Seconds \in T THEN Stays(time_to_tm(t))
             ELSE Moves(time_to_tm(NextSlot(T, Seconds, t)))
<1>. DEFINE d == time_to_tm(t)
           F == FindField(T, d, "sec", "min", {})
           here == next_set_bit(T, t % Seconds)
           low == next_set_bit(T, 0)
<1>1. T \subseteq 0 .. Seconds - 1 /\ T # {} /\ T \subseteq Nat
  BY CalendarFacts DEF NonEmpty
<1>2. d["sec"] = t % Seconds /\ t % Seconds \in Nat
  BY DateFacts, AbsNats
<1>3. /\ t % Seconds \in T => F = Stays(d)
      /\ t % Seconds \notin T /\ here # INVALID =>
           F = Moves(reset_all_fields(set_field(d, "sec", here), {}))
      /\ t % Seconds \notin T /\ here = INVALID =>
           F = Moves(reset_all_fields(
                 set_field(reset_field(add_to_field(d, "min", 1), "sec"), "sec", low), {}))
  <2>1. d["sec"] \in Nat /\ T \in NonEmpty(Nat)
    BY <1>1, <1>2 DEF NonEmpty
  <2>. HIDE DEF d
  <2>2. d["sec"] \in T => F = Stays(d)
    BY ONLY <2>1, FindStays
  <2>3. d["sec"] \notin T /\ next_set_bit(T, d["sec"]) # INVALID =>
             F = Moves(reset_all_fields(set_field(d, "sec", next_set_bit(T, d["sec"])), {}))
    BY ONLY <2>1, FindMoves
  <2>4. d["sec"] \notin T /\ next_set_bit(T, d["sec"]) = INVALID =>
             F = Moves(reset_all_fields(
                   set_field(reset_field(add_to_field(d, "min", 1), "sec"), "sec", low), {}))
    BY ONLY <2>1, FindTurns
  <2>. QED
    BY <1>2, <2>2, <2>3, <2>4
<1>4. \A e : reset_all_fields(e, {}) = e
  BY DEF reset_all_fields, Reset
<1>6. PICK a \in Nat, s \in 0 .. Seconds - 1 :
          a = AbsMin(t) /\ s = t % Seconds /\ t = a * Seconds + s
  BY AbsFacts
<1>7. here # INVALID => /\ here \in T
                        /\ set_field(d, "sec", here) = time_to_tm(NextSlot(T, Seconds, t))
  <2>1. SUFFICES ASSUME here # INVALID
                 PROVE  here \in T /\ set_field(d, "sec", here) = time_to_tm(NextSlot(T, Seconds, t))
    OBVIOUS
  <2>2. here \in T
    BY <1>1, <1>2, <2>1, NextBitIn
  <2>3. set_field(d, "sec", here) = time_to_tm(AtMin(a, here))
    BY <1>1, <1>6, <2>2, SecOps
  <2>4. NextSlot(T, Seconds, t) = t - s + here
    BY <1>6, <2>1 DEF NextSlot
  <2>5. AtMin(a, here) = t - s + here
    <3>1. a * Seconds \in Nat
      BY CalendarFacts
    <3>. HIDE DEF here
    <3>. QED
      BY <1>1, <1>6, <2>2, <3>1, CalendarFacts DEF AtMin
  <2>. QED
    BY <2>2, <2>3, <2>4, <2>5
<1>8. here = INVALID =>
        set_field(reset_field(add_to_field(d, "min", 1), "sec"), "sec", low)
          = time_to_tm(NextSlot(T, Seconds, t))
  <2>1. SUFFICES ASSUME here = INVALID
                 PROVE  set_field(reset_field(add_to_field(d, "min", 1), "sec"), "sec", low)
                          = time_to_tm(NextSlot(T, Seconds, t))
    OBVIOUS
  <2>2. low \in T
    BY <1>1, NextBitIn
  <2>3. PICK u \in Nat : u = AtMin(a + 1, s) /\ AbsMin(u) = a + 1
    BY <1>6, AtMinFacts
  <2>4. add_to_field(d, "min", 1) = time_to_tm(u)
    BY <1>6, <2>3, MinOps
  <2>5. PICK w \in Nat : w = AtMin(a + 1, 0) /\ AbsMin(w) = a + 1
    <3>1. 0 \in 0 .. Seconds - 1 /\ a + 1 \in Nat
      BY CalendarFacts
    <3>. QED
      BY <3>1, AtMinFacts
  <2>6. reset_field(time_to_tm(u), "sec") = time_to_tm(w)
    BY <2>3, <2>5, SecOps DEF reset_field
  <2>7. set_field(time_to_tm(w), "sec", low) = time_to_tm(AtMin(a + 1, low))
    BY <1>1, <2>2, <2>5, SecOps
  <2>8. NextSlot(T, Seconds, t) = t - s + Seconds + low
    BY <1>6, <2>1 DEF NextSlot
  <2>9. AtMin(a + 1, low) = t - s + Seconds + low
    <3>1. a * Seconds \in Nat /\ (a + 1) * Seconds = a * Seconds + Seconds
      BY CalendarFacts
    <3>. HIDE DEF low
    <3>. QED
      BY <1>1, <1>6, <2>2, <3>1, CalendarFacts DEF AtMin
  <2>. QED
    BY <2>4, <2>6, <2>7, <2>8, <2>9
<1>. HIDE DEF F, here, d, low
<1>. QED
  BY <1>3, <1>4, <1>7, <1>8 DEF F, d
\* The two ways a field moves.
LEMMA FindAway ==
    ASSUME NEW T \in NonEmpty(Nat), NEW d, NEW field, NEW next_field, NEW marked,
           d[field] \in Nat, d[field] \notin T
    PROVE  LET here == next_set_bit(T, d[field])
               low  == next_set_bit(T, 0)
           IN  /\ low \in T
               /\ here # INVALID =>
                    /\ here \in T
                    /\ FindField(T, d, field, next_field, marked)
                         = Moves(reset_all_fields(set_field(d, field, here), marked))
               /\ here = INVALID =>
                    FindField(T, d, field, next_field, marked)
                      = Moves(reset_all_fields(
                               set_field(reset_field(add_to_field(d, next_field, 1), field),
                                         field, low), marked))
<1>1. T \subseteq Nat /\ T # {}
  BY DEF NonEmpty
<1>2. next_set_bit(T, 0) \in T
  BY <1>1, NextBitIn
<1>3. next_set_bit(T, d[field]) # INVALID => next_set_bit(T, d[field]) \in T
  BY <1>1, NextBitIn
<1>. QED
  BY <1>2, <1>3, FindMoves, FindTurns

\* A minute that moves resets the second if it was marked.
LEMMA FindMin ==
    ASSUME NEW t \in Nat, NEW T \in NonEmpty(0 .. Minutes - 1), NEW mk \in {{}, {"sec"}},
           AbsMin(t) % Minutes \notin T
    PROVE  FindField(T, time_to_tm(t), "min", "hour", mk)
             = Moves(time_to_tm(AtMin(NextSlot(T, Minutes, AbsMin(t)), LeftSec(mk, t))))
<1>. DEFINE d == time_to_tm(t)
           F == FindField(T, d, "min", "hour", mk)
           here == next_set_bit(T, AbsMin(t) % Minutes)
           low == next_set_bit(T, 0)
           z == NextSlot(T, Minutes, AbsMin(t))
<1>1. T \subseteq 0 .. Minutes - 1 /\ T \in NonEmpty(Nat)
  BY CalendarFacts DEF NonEmpty
<1>2. d["min"] = AbsMin(t) % Minutes /\ AbsMin(t) % Minutes \in Nat
  BY DateFacts, AbsNats
<1>3. /\ low \in T
      /\ here # INVALID => here \in T /\ F = Moves(reset_all_fields(set_field(d, "min", here), mk))
      /\ here = INVALID =>
           F = Moves(reset_all_fields(
                       set_field(reset_field(add_to_field(d, "hour", 1), "min"), "min", low), mk))
  <2>1. d["min"] \in Nat /\ d["min"] \notin T
    BY <1>2
  <2>. HIDE DEF d
  <2>. QED
    BY ONLY <1>1, <1>2, <2>1, FindAway
<1>4. PICK a \in Nat, m \in 0 .. Minutes - 1, b \in Nat, s \in 0 .. Seconds - 1 :
          a = AbsHour(t) /\ m = AbsMin(t) % Minutes /\ b = AbsMin(t) /\ s = t % Seconds
          /\ b = a * Minutes + m
  <2>1. /\ AbsHour(t) \in Nat /\ AbsMin(t) \in Nat /\ AbsMin(t) % Minutes \in 0 .. Minutes - 1
        /\ t % Seconds \in 0 .. Seconds - 1
        /\ AbsMin(t) = AbsHour(t) * Minutes + (AbsMin(t) % Minutes)
    BY AbsFacts
  <2>. QED
    BY ONLY <2>1
<1>5. \E u \in Nat : /\ F = Moves(reset_all_fields(time_to_tm(u), mk))
                     /\ AbsMin(u) = z /\ u % Seconds = s
  <2>1. CASE here # INVALID
    <3>1. here \in 0 .. Minutes - 1
      BY <1>1, <1>3, <2>1
    <3>2. PICK k \in 0 .. Minutes - 1 : k = here
      BY <3>1
    <3>3. set_field(d, "min", k) = time_to_tm(AtHour(a, k, s))
      BY <1>4, MinOps
    <3>4. z = b - m + k
      BY <1>4, <2>1, <3>2 DEF NextSlot
    <3>5. a * Minutes + k = b - m + k
      BY <1>4, CalendarFacts
    <3>6. AtHour(a, k, s) \in Nat /\ AbsMin(AtHour(a, k, s)) = z /\ AtHour(a, k, s) % Seconds = s
      BY <3>4, <3>5, AtHourFacts
    <3>. QED
      BY <1>3, <2>1, <3>2, <3>3, <3>6
  <2>2. CASE here = INVALID
    <3>0. PICK g \in Nat : g = a + 1
      OBVIOUS
    <3>1. PICK k \in 0 .. Minutes - 1 : k = low
      BY <1>1, <1>3
    <3>2. PICK v \in Nat : v = AtHour(g, m, s) /\ AbsHour(v) = g /\ v % Seconds = s
      BY HourTime
    <3>3. PICK w \in Nat : w = AtHour(g, 0, s) /\ AbsHour(w) = g /\ w % Seconds = s
      <4>1. 0 \in 0 .. Minutes - 1
        BY CalendarFacts
      <4>. QED
        BY <4>1, HourTime
    <3>4. add_to_field(d, "hour", 1) = time_to_tm(v)
      BY <1>4, <3>0, <3>2, HourOps
    <3>5. reset_field(time_to_tm(v), "min") = time_to_tm(w)
      BY <3>2, <3>3, MinOps DEF reset_field
    <3>6. set_field(time_to_tm(w), "min", k) = time_to_tm(AtHour(g, k, s))
      BY <3>3, MinOps
    <3>7. z = b - m + Minutes + k
      BY <1>4, <2>2, <3>1 DEF NextSlot
    <3>8. g * Minutes + k = b - m + Minutes + k
      <4>1. PICK p \in Nat : b = p + m /\ g * Minutes = p + Minutes
        <5>1. a * Minutes \in Nat /\ g * Minutes = a * Minutes + Minutes
          BY <3>0, CalendarFacts
        <5>. QED
          BY <1>4, <5>1
      <4>. QED
        BY ONLY <4>1, CalendarFacts, b \in Nat, m \in 0 .. Minutes - 1, k \in 0 .. Minutes - 1
    <3>9. /\ AtHour(g, k, s) \in Nat /\ AbsMin(AtHour(g, k, s)) = z
          /\ AtHour(g, k, s) % Seconds = s
      BY <3>7, <3>8, AtHourFacts
    <3>. QED
      BY <1>3, <2>2, <3>1, <3>4, <3>5, <3>6, <3>9
  <2>. QED
    BY <2>1, <2>2
<1>6. PICK u \in Nat : F = Moves(reset_all_fields(time_to_tm(u), mk)) /\ AbsMin(u) = z /\ u % Seconds = s
  BY <1>5
<1>7. reset_all_fields(time_to_tm(u), mk) = Reset(time_to_tm(u), "sec", mk)
  BY DEF reset_all_fields, Reset
<1>8. Reset(time_to_tm(u), "sec", mk) = time_to_tm(AtMin(AbsMin(u), LeftSec(mk, u)))
  BY ResetLeft
<1>9. LeftSec(mk, u) = LeftSec(mk, t)
  BY <1>4, <1>6 DEF LeftSec
<1>. QED
  BY <1>6, <1>7, <1>8, <1>9
\* An hour that moves has its minute marked.
LEMMA FindHours ==
    ASSUME NEW t \in Nat, NEW T \in NonEmpty(0 .. Hours - 1), NEW mk \in {{"min"}, {"sec", "min"}},
           AbsHour(t) % Hours \notin T
    PROVE  FindField(T, time_to_tm(t), "hour", "mday", mk)
             = Moves(time_to_tm(AtHour(NextSlot(T, Hours, AbsHour(t)), 0, LeftSec(mk, t))))
<1>. DEFINE d == time_to_tm(t)
           F == FindField(T, d, "hour", "mday", mk)
           here == next_set_bit(T, AbsHour(t) % Hours)
           low == next_set_bit(T, 0)
           z == NextSlot(T, Hours, AbsHour(t))
<1>1. T \subseteq 0 .. Hours - 1 /\ T \in NonEmpty(Nat)
  BY CalendarFacts DEF NonEmpty
<1>2. d["hour"] = AbsHour(t) % Hours /\ AbsHour(t) % Hours \in Nat
  BY DateFacts, AbsNats
<1>3. /\ low \in T
      /\ here # INVALID => here \in T /\ F = Moves(reset_all_fields(set_field(d, "hour", here), mk))
      /\ here = INVALID =>
           F = Moves(reset_all_fields(
                       set_field(reset_field(add_to_field(d, "mday", 1), "hour"), "hour", low), mk))
  <2>1. d["hour"] \in Nat /\ d["hour"] \notin T
    BY <1>2
  <2>. HIDE DEF d
  <2>. QED
    BY ONLY <1>1, <1>2, <2>1, FindAway
<1>4. PICK D \in Nat, h \in 0 .. Hours - 1, b \in Nat, m \in 0 .. Minutes - 1, s \in 0 .. Seconds - 1 :
          D = AbsDay(t) /\ h = AbsHour(t) % Hours /\ b = AbsHour(t) /\ s = t % Seconds
          /\ m = AbsMin(t) % Minutes /\ b = D * Hours + h
  <2>1. /\ AbsDay(t) \in Nat /\ AbsHour(t) \in Nat /\ AbsHour(t) % Hours \in 0 .. Hours - 1
        /\ AbsMin(t) % Minutes \in 0 .. Minutes - 1
        /\ t % Seconds \in 0 .. Seconds - 1
        /\ AbsHour(t) = AbsDay(t) * Hours + (AbsHour(t) % Hours)
    BY AbsFacts
  <2>. QED
    BY ONLY <2>1
<1>. HIDE DEF d, F, here, low, z
<1>5. \E u \in Nat : /\ F = Moves(reset_all_fields(time_to_tm(u), mk))
                     /\ AbsHour(u) = z /\ u % Seconds = s
  <2>1. CASE here # INVALID
    <3>2. PICK k \in 0 .. Hours - 1 : k = here
      BY <1>1, <1>3, <2>1
    <3>3. set_field(d, "hour", k) = time_to_tm(AtDay(D, k, m, s))
      BY <1>4, HourOps DEF d
    <3>4. z = b - h + k
      BY <1>4, <2>1, <3>2 DEF NextSlot, z, here
    <3>5. D * Hours + k = b - h + k
      <4>1. PICK p \in Nat : p = D * Hours /\ b = p + h
        <5>1. D * Hours \in Nat
          BY CalendarFacts
        <5>. QED
          BY <1>4, <5>1
      <4>. QED
        BY ONLY <4>1, CalendarFacts, b \in Nat, h \in 0 .. Hours - 1, k \in 0 .. Hours - 1
    <3>6. AtDay(D, k, m, s) \in Nat /\ AbsHour(AtDay(D, k, m, s)) = z /\ AtDay(D, k, m, s) % Seconds = s
      BY <3>4, <3>5, AtDayFacts
    <3>. QED
      BY <1>3, <2>1, <3>2, <3>3, <3>6
  <2>2. CASE here = INVALID
    <3>0. PICK g \in Nat : g = D + 1
      OBVIOUS
    <3>1. PICK k \in 0 .. Hours - 1 : k = low
      BY <1>1, <1>3
    <3>2. PICK v \in Nat : v = AtDay(g, h, m, s) /\ AbsDay(v) = g /\ v % Seconds = s
      BY ONLY DayTime, g \in Nat, h \in 0 .. Hours - 1, m \in 0 .. Minutes - 1,
              s \in 0 .. Seconds - 1
    <3>3. PICK n \in 0 .. Minutes - 1 : n = AbsMin(v) % Minutes
      BY AbsFacts
    <3>4. PICK w \in Nat : w = AtDay(g, 0, n, s) /\ AbsDay(w) = g /\ w % Seconds = s
      <4>1. PICK o \in 0 .. Hours - 1 : o = 0
        BY CalendarFacts
      <4>2. \E w \in Nat : w = AtDay(g, o, n, s) /\ AbsDay(w) = g /\ w % Seconds = s
        BY ONLY ZenonT(60), DayTime, g \in Nat, o \in 0 .. Hours - 1, n \in 0 .. Minutes - 1,
                s \in 0 .. Seconds - 1
      <4>. QED
        BY ONLY <4>1, <4>2
    <3>5. PICK o \in 0 .. Minutes - 1 : o = AbsMin(w) % Minutes
      BY AbsFacts
    <3>6. add_to_field(d, "mday", 1) = time_to_tm(v)
      BY <1>4, <3>0, <3>2, DayOps DEF d
    <3>7. reset_field(time_to_tm(v), "hour") = time_to_tm(w)
      BY <3>2, <3>3, <3>4, HourOps DEF reset_field
    <3>8. set_field(time_to_tm(w), "hour", k) = time_to_tm(AtDay(g, k, o, s))
      BY <3>4, <3>5, HourOps
    <3>9. z = b - h + Hours + k
      BY <1>4, <2>2, <3>1 DEF NextSlot, z, here, low
    <3>10. g * Hours + k = b - h + Hours + k
      <4>1. PICK p \in Nat : b = p + h /\ g * Hours = p + Hours
        <5>1. D * Hours \in Nat /\ g * Hours = D * Hours + Hours
          BY <3>0, CalendarFacts
        <5>. QED
          BY <1>4, <5>1
      <4>. QED
        BY ONLY <4>1, CalendarFacts, b \in Nat, h \in 0 .. Hours - 1, k \in 0 .. Hours - 1
    <3>11. /\ AtDay(g, k, o, s) \in Nat /\ AbsHour(AtDay(g, k, o, s)) = z
           /\ AtDay(g, k, o, s) % Seconds = s
      BY <3>9, <3>10, AtDayFacts
    <3>. QED
      BY <1>3, <2>2, <3>1, <3>6, <3>7, <3>8, <3>11
  <2>. QED
    BY <2>1, <2>2
<1>6. PICK u \in Nat : F = Moves(reset_all_fields(time_to_tm(u), mk)) /\ AbsHour(u) = z /\ u % Seconds = s
  BY <1>5
<1>7. reset_all_fields(time_to_tm(u), mk) = Reset(Reset(time_to_tm(u), "sec", mk), "min", mk)
  BY DEF reset_all_fields, Reset
<1>8. Reset(Reset(time_to_tm(u), "sec", mk), "min", mk)
        = time_to_tm(AtHour(AbsHour(u), 0, LeftSec(mk, u)))
  BY ResetMin
<1>9. LeftSec(mk, u) = LeftSec(mk, t)
  BY <1>4, <1>6 DEF LeftSec
<1>. QED
  BY <1>6, <1>7, <1>8, <1>9 DEF F, z, d
\* A date in month q, with this day of the month and second.
DateIn(d, q, x, s) ==
    \E u \in Nat : d = time_to_tm(u) /\ AbsMonth(u) = q /\ time_to_tm(u).mday = x /\ u % Seconds = s

EveryMonthHas(x) == \A m \in 1 .. Months : x <= MonthDays[m]

\* MonthOps with the months counted by year.
LEMMA SetMonth ==
    ASSUME NEW t \in Nat, NEW y \in Nat, NEW n \in 0 .. Months - 1, NEW k \in 0 .. Months - 1,
           AbsMonth(t) = y * Months + n, EveryMonthHas(time_to_tm(t).mday)
    PROVE  DateIn(set_field(time_to_tm(t), "mon", k), y * Months + k, time_to_tm(t).mday, t % Seconds)
<1>1. AbsMonth(t) % Months = n
  BY CalendarFacts, DivUnique
<1>2. PICK p \in Nat : p = y * Months
  BY CalendarFacts
<1>3. n \in Nat
  BY CalendarFacts
<1>4. PICK u \in Nat :
                /\ set_field(time_to_tm(t), "mon", k) = time_to_tm(u)
                /\ AbsMonth(u) = AbsMonth(t) - (AbsMonth(t) % Months) + k
                /\ time_to_tm(u).mday = time_to_tm(t).mday
                /\ u % Seconds = t % Seconds
  BY MonthOps DEF EveryMonthHas
<1>5. AbsMonth(u) = p + n - n + k
  BY <1>1, <1>2, <1>4
<1>6. p + n - n + k = p + k
  BY <1>3, CalendarFacts
<1>. QED
  BY <1>2, <1>4, <1>5, <1>6 DEF DateIn

\* The same of the year after.
LEMMA AddYear ==
    ASSUME NEW t \in Nat, NEW y \in Nat, NEW n \in 0 .. Months - 1,
           AbsMonth(t) = y * Months + n, EveryMonthHas(time_to_tm(t).mday)
    PROVE  DateIn(add_to_field(time_to_tm(t), "year", 1), (y + 1) * Months + n,
                  time_to_tm(t).mday, t % Seconds)
<1>1. PICK p \in Nat : p = y * Months /\ (y + 1) * Months = p + Months
  <2>1. y * Months \in Nat /\ (y + 1) * Months = y * Months + Months
    BY CalendarFacts
  <2>. QED
    BY <2>1
<1>2. PICK u \in Nat :
                /\ add_to_field(time_to_tm(t), "year", 1) = time_to_tm(u)
                /\ AbsMonth(u) = AbsMonth(t) + Months
                /\ time_to_tm(u).mday = time_to_tm(t).mday
                /\ u % Seconds = t % Seconds
  BY MonthOps DEF EveryMonthHas
<1>3. n \in Nat /\ p + n + Months = p + Months + n
  BY CalendarFacts
<1>. QED
  BY <1>1, <1>2, <1>3 DEF DateIn

\* A month that moves does so from a day that every month has.
LEMMA FindMonths ==
    ASSUME NEW t \in Nat, NEW T \in NonEmpty(0 .. Months - 1),
           NEW mk \in {{"min", "hour", "mday"}, {"sec", "min", "hour", "mday"}},
           AbsMonth(t) % Months \notin T,
           EveryMonthHas(time_to_tm(t).mday)
    PROVE  FindField(T, time_to_tm(t), "mon", "year", mk)
             = Moves(time_to_tm(AtDay(DaysBefore[NextSlot(T, Months, AbsMonth(t))], 0, 0,
                                      LeftSec(mk, t))))
<1>. DEFINE d == time_to_tm(t)
           F == FindField(T, d, "mon", "year", mk)
           here == next_set_bit(T, AbsMonth(t) % Months)
           low == next_set_bit(T, 0)
           z == NextSlot(T, Months, AbsMonth(t))
<1>1. T \subseteq 0 .. Months - 1 /\ T \in NonEmpty(Nat)
  BY CalendarFacts DEF NonEmpty
<1>2. d["mon"] = AbsMonth(t) % Months /\ AbsMonth(t) % Months \in Nat
  BY DateFacts, AbsNats
<1>3. /\ low \in T
      /\ here # INVALID => here \in T /\ F = Moves(reset_all_fields(set_field(d, "mon", here), mk))
      /\ here = INVALID =>
           F = Moves(reset_all_fields(
                       set_field(reset_field(add_to_field(d, "year", 1), "mon"), "mon", low), mk))
  <2>1. d["mon"] \in Nat /\ d["mon"] \notin T
    BY <1>2
  <2>. HIDE DEF d
  <2>. QED
    BY ONLY <1>1, <1>2, <2>1, FindAway
<1>4. PICK y \in Nat, n \in 0 .. Months - 1, b \in Nat, s \in 0 .. Seconds - 1 :
          n = AbsMonth(t) % Months /\ b = AbsMonth(t) /\ s = t % Seconds /\ b = y * Months + n
  <2>1. /\ AbsMonth(t) \div Months \in Nat /\ AbsMonth(t) \in Nat
        /\ AbsMonth(t) % Months \in 0 .. Months - 1
        /\ t % Seconds \in 0 .. Seconds - 1
        /\ AbsMonth(t) = (AbsMonth(t) \div Months) * Months + (AbsMonth(t) % Months)
    BY AbsFacts
  <2>. QED
    BY ONLY <2>1
<1>5. PICK p \in Nat : p = y * Months /\ (y + 1) * Months = p + Months
  <2>1. y * Months \in Nat /\ (y + 1) * Months = y * Months + Months
    BY CalendarFacts
  <2>. QED
    BY <2>1
<1>. HIDE DEF d, F, here, low, z
<1>6. \E u \in Nat : /\ F = Moves(reset_all_fields(time_to_tm(u), mk))
                     /\ AbsMonth(u) = z /\ u % Seconds = s
  <2>1. CASE here # INVALID
    <3>2. PICK k \in 0 .. Months - 1 : k = here
      BY <1>1, <1>3, <2>1
    <3>3. PICK u \in Nat : /\ set_field(d, "mon", k) = time_to_tm(u)
                           /\ AbsMonth(u) = y * Months + k /\ u % Seconds = s
      <4>1. DateIn(set_field(d, "mon", k), y * Months + k, d.mday, s)
        BY <1>4, SetMonth DEF d
      <4>. QED
        BY ONLY <4>1 DEF DateIn
    <3>4. z = b - n + k
      BY <1>4, <2>1, <3>2 DEF NextSlot, z, here
    <3>5. b = p + n
      BY <1>4, <1>5
    <3>6. p + k = b - n + k
      BY ONLY <3>5, CalendarFacts, b \in Nat, p \in Nat, n \in 0 .. Months - 1, k \in 0 .. Months - 1
    <3>7. AbsMonth(u) = z
      BY <1>5, <3>3, <3>4, <3>6
    <3>. QED
      BY <1>3, <2>1, <3>2, <3>3, <3>7
  <2>2. CASE here = INVALID
    <3>0. PICK g \in Nat : g = y + 1
      OBVIOUS
    <3>1. PICK k \in 0 .. Months - 1 : k = low
      BY <1>1, <1>3
    <3>2. PICK v \in Nat : /\ add_to_field(d, "year", 1) = time_to_tm(v)
                           /\ AbsMonth(v) = g * Months + n
                           /\ time_to_tm(v).mday = d.mday /\ v % Seconds = s
      <4>1. DateIn(add_to_field(d, "year", 1), (y + 1) * Months + n, d.mday, s)
        BY <1>4, AddYear DEF d
      <4>. QED
        BY ONLY <3>0, <4>1 DEF DateIn
    <3>4. PICK o \in 0 .. Months - 1 : o = 0
      BY CalendarFacts
    <3>5. PICK w \in Nat : /\ set_field(time_to_tm(v), "mon", o) = time_to_tm(w)
                           /\ AbsMonth(w) = g * Months + o
                           /\ time_to_tm(w).mday = d.mday /\ w % Seconds = s
      <4>1. EveryMonthHas(time_to_tm(v).mday)
        BY <3>2 DEF d
      <4>2. DateIn(set_field(time_to_tm(v), "mon", o), g * Months + o, time_to_tm(v).mday, v % Seconds)
        BY <3>2, <4>1, SetMonth
      <4>. QED
        BY ONLY <3>2, <4>2 DEF DateIn
    <3>7. PICK u \in Nat : /\ set_field(time_to_tm(w), "mon", k) = time_to_tm(u)
                           /\ AbsMonth(u) = g * Months + k /\ u % Seconds = s
      <4>1. EveryMonthHas(time_to_tm(w).mday)
        BY <3>5 DEF d
      <4>2. DateIn(set_field(time_to_tm(w), "mon", k), g * Months + k, time_to_tm(w).mday, w % Seconds)
        BY <3>5, <4>1, SetMonth
      <4>. QED
        BY ONLY <3>5, <4>2 DEF DateIn
    <3>8. reset_field(time_to_tm(v), "mon") = time_to_tm(w)
      BY <3>4, <3>5 DEF reset_field
    <3>9. z = b - n + Months + k
      BY <1>4, <2>2, <3>1 DEF NextSlot, z, here, low
    <3>10. b = p + n /\ g * Months = p + Months
      BY <1>4, <1>5, <3>0
    <3>11. g * Months + k = b - n + Months + k
      BY ONLY <3>10, CalendarFacts, b \in Nat, p \in Nat, n \in 0 .. Months - 1, k \in 0 .. Months - 1
    <3>12. AbsMonth(u) = z /\ u % Seconds = s
      BY <3>7, <3>9, <3>11
    <3>. QED
      BY <1>3, <2>2, <3>1, <3>2, <3>7, <3>8, <3>12
  <2>. QED
    BY <2>1, <2>2
<1>7. PICK u \in Nat : F = Moves(reset_all_fields(time_to_tm(u), mk)) /\ AbsMonth(u) = z /\ u % Seconds = s
  BY <1>6
<1>8. reset_all_fields(time_to_tm(u), mk) = time_to_tm(AtDay(DaysBefore[AbsMonth(u)], 0, 0, LeftSec(mk, u)))
  BY ResetDay
<1>9. LeftSec(mk, u) = LeftSec(mk, t)
  BY <1>4, <1>7 DEF LeftSec
<1>. QED
  BY <1>7, <1>8, <1>9 DEF F, z, d
-----------------------------------------------------------------------------
(***************************************************************************)
(* find_next_day: it stays, or goes to the start of the first day that     *)
(* matches.  A plain expression makes it find a day of another number.     *)
(***************************************************************************)
DayNumber(days) == days - DaysBefore[MonthAt(days)] + 1

DayFits(c, days) == DayNumber(days) \in c.days_of_month /\ days % WeekDays \in c.days_of_week

\* The number of a day in its month.
LEMMA DayNumberFacts ==
    ASSUME NEW D \in Nat
    PROVE  DayNumber(D) \in 1 .. MonthLength(MonthAt(D)) /\ DayNumber(D) \in Nat
<1>1. PICK q \in Nat : q = MonthAt(D)
  BY MonthAtFacts
<1>2. PICK B \in Nat, L \in Nat : B = DaysBefore[q] /\ L = MonthLength(q)
  BY DaysBeforeFacts, MonthLengthFacts
<1>3. B <= D /\ D < B + L
  BY <1>1, <1>2, MonthAtFacts
<1>4. D - B + 1 \in 1 .. L /\ D - B + 1 \in Nat
  BY <1>3
<1>. QED
  BY <1>1, <1>2, <1>4 DEF DayNumber

\* These are what find_next_day looks at.
LEMMA DayFitsDate ==
    ASSUME NEW t \in Nat, NEW c
    PROVE  /\ DayMatches(c, time_to_tm(t)) <=> DayFits(c, AbsDay(t))
           /\ time_to_tm(t).mday = DayNumber(AbsDay(t))
  BY DateFacts DEF DayMatches, DayFits, DayNumber, AbsMonth

\* n days later, in the same month or in the next.
LEMMA DayLater ==
    ASSUME NEW D \in Nat, NEW n \in Nat
    PROVE  LET q == MonthAt(D)
               x == DayNumber(D)
               L == MonthLength(q)
           IN  /\ x + n <= L => DayNumber(D + n) = x + n
               /\ L < x + n /\ x + n - L <= MonthLength(q + 1) => DayNumber(D + n) = x + n - L
<1>1. PICK q \in Nat : q = MonthAt(D)
  BY MonthAtFacts
<1>2. PICK B \in Nat, L \in Nat, C \in Nat, K \in Nat :
          /\ B = DaysBefore[q] /\ L = MonthLength(q) /\ C = DaysBefore[q + 1] /\ K = MonthLength(q + 1)
          /\ C = B + L
  <2>1. q + 1 \in Nat
    OBVIOUS
  <2>2. /\ DaysBefore[q] \in Nat /\ DaysBefore[q + 1] \in Nat
        /\ DaysBefore[q + 1] = DaysBefore[q] + MonthLength(q)
    BY <2>1, DaysBeforeFacts
  <2>3. MonthLength(q) \in Nat /\ MonthLength(q + 1) \in Nat
    BY <2>1, MonthLengthFacts
  <2>. QED
    BY ONLY <2>2, <2>3
<1>3. PICK x \in Nat : x = DayNumber(D) /\ x = D - B + 1
  BY <1>1, <1>2, DayNumberFacts DEF DayNumber
<1>4. ASSUME x + n <= L
      PROVE  DayNumber(D + n) = x + n
  <2>1. DaysBefore[q] <= D + n /\ D + n < DaysBefore[q] + MonthLength(q) /\ D + n \in Nat
    <3>1. B <= D
      BY <1>1, <1>2, MonthAtFacts
    <3>. QED
      BY <1>2, <1>3, <1>4, <3>1
  <2>2. MonthAt(D + n) = q
    BY <2>1, MonthAtUnique
  <2>3. DayNumber(D + n) = D + n - B + 1
    BY <1>2, <2>2 DEF DayNumber
  <2>. QED
    BY <1>3, <2>3
<1>5. ASSUME L < x + n, x + n - L <= K
      PROVE  DayNumber(D + n) = x + n - L
  <2>1. DaysBefore[q + 1] <= D + n /\ D + n < DaysBefore[q + 1] + MonthLength(q + 1) /\ D + n \in Nat
    BY <1>2, <1>3, <1>5
  <2>2. MonthAt(D + n) = q + 1
    BY <2>1, MonthAtUnique
  <2>4. DaysBefore[MonthAt(D + n)] = C
    BY <1>2, <2>2
  <2>3. DayNumber(D + n) = D + n - C + 1
    BY ONLY <2>4 DEF DayNumber
  <2>. QED
    BY <1>2, <1>3, <2>3
<1>. QED
  BY <1>1, <1>2, <1>3, <1>4, <1>5

\* The first number of days after which one fits, as DaysToMatch looks for it.
DaysToFit(c, days) == Min({n \in 0 .. MaxDaySteps : DayFits(c, days + n)} \cup {MaxDaySteps})

\* The first such number, or the limit.
LEMMA DaysToFitFacts ==
    ASSUME NEW c, NEW D \in Nat
    PROVE  LET n == DaysToFit(c, D)
           IN  /\ n \in 0 .. MaxDaySteps /\ n \in Nat
               /\ \A i \in 0 .. n - 1 : ~DayFits(c, D + i)
               /\ n < MaxDaySteps => DayFits(c, D + n)
               /\ \A i \in 0 .. MaxDaySteps : DayFits(c, D + i) => n <= i
<1>. DEFINE fits == {n \in 0 .. MaxDaySteps : DayFits(c, D + n)}
           S == fits \cup {MaxDaySteps}
           n == DaysToFit(c, D)
<1>1. S \subseteq Nat /\ S # {} /\ S \subseteq 0 .. MaxDaySteps
  BY CalendarFacts
<1>2. n \in S /\ \A i \in S : n <= i
  <2>. HIDE DEF S
  <2>1. \E i \in S : \A j \in S : i <= j
    BY <1>1, LeastNat
  <2>2. n = Min(S)
    BY DEF DaysToFit, S
  <2>. HIDE DEF n
  <2>. QED
    BY <2>1, <2>2 DEF Min
<1>. HIDE DEF n
<1>3. n \in 0 .. MaxDaySteps /\ n \in Nat
  BY <1>1, <1>2
<1>4. ASSUME NEW i \in 0 .. n - 1
      PROVE  ~DayFits(c, D + i)
  <2>1. i \in 0 .. MaxDaySteps /\ ~(n <= i)
    BY <1>3, CalendarFacts
  <2>. QED
    BY <1>2, <2>1
<1>5. n < MaxDaySteps => DayFits(c, D + n)
  BY <1>2, CalendarFacts
<1>6. \A i \in 0 .. MaxDaySteps : DayFits(c, D + i) => n <= i
  BY <1>2
<1>. QED
  BY <1>3, <1>4, <1>5, <1>6 DEF n
\* The day found is not of the number the search began with, nor the last.
LEMMA PlainDay ==
    ASSUME NEW c \in AllExprs, Plain(c), NEW D \in Nat, ~DayFits(c, D)
    PROVE  DayNumber(D + DaysToFit(c, D)) # DayNumber(D)
<1>. DEFINE q == MonthAt(D)
           n == DaysToFit(c, D)
<1>1. q \in Nat /\ q + 1 \in Nat
  BY MonthAtFacts
<1>2. PICK L \in Nat, K \in Nat, x \in Nat \ {0} :
          L = MonthLength(q) /\ K = MonthLength(q + 1) /\ x = DayNumber(D) /\ x <= L
          /\ L <= LongestMonth /\ WeekDays <= L /\ WeekDays <= K
  <2>1. /\ MonthLength(q) \in WeekDays .. LongestMonth /\ MonthLength(q + 1) \in WeekDays .. LongestMonth
        /\ MonthLength(q) \in Nat /\ MonthLength(q + 1) \in Nat
    BY <1>1, MonthLengthFacts
  <2>2. DayNumber(D) \in 1 .. MonthLength(q)
    BY DayNumberFacts
  <2>. QED
    BY <2>1, <2>2, CalendarFacts
<1>3. /\ n \in 0 .. MaxDaySteps /\ n \in Nat
      /\ n < MaxDaySteps => DayFits(c, D + n)
      /\ \A i \in 0 .. MaxDaySteps : DayFits(c, D + i) => n <= i
  BY DaysToFitFacts
<1>4. \A i \in Nat : /\ x + i <= L => DayNumber(D + i) = x + i
                     /\ L < x + i /\ x + i - L <= K => DayNumber(D + i) = x + i - L
  BY <1>2, DayLater
<1>5. \A i \in Nat : (D + i) % WeekDays \in 0 .. WeekDays - 1
  BY CalendarFacts, DivMod
<1>6. D % WeekDays \in 0 .. WeekDays - 1
  BY CalendarFacts, DivMod
<1>. HIDE DEF q, n
<1>7. CASE /\ c.days_of_week = 0 .. WeekDays - 1
           /\ \A d \in c.days_of_month, m \in 1 .. Months : d <= MonthDays[m]
  <2>1. x \notin c.days_of_month
    BY <1>2, <1>6, <1>7 DEF DayFits
  <2>2. PICK d \in c.days_of_month : d \in 1 .. LongestMonth
    BY DEF AllExprs, NonEmpty
  <2>3. ASSUME NEW r \in Nat
        PROVE  d <= MonthLength(r)
    <3>1. (r % Months) + 1 \in 1 .. Months
      <4>1. r % Months \in 0 .. Months - 1
        BY MonthLengthFacts
      <4>. QED
        BY ONLY <4>1, CalendarFacts
    <3>2. MonthDays[(r % Months) + 1] <= MonthLength(r) /\ MonthLength(r) \in Nat
      BY MonthLengthFacts
    <3>3. d <= MonthDays[(r % Months) + 1] /\ MonthDays[(r % Months) + 1] \in Nat
      BY <1>7, <3>1, CalendarFacts
    <3>. QED
      BY <2>2, <3>2, <3>3
  <2>4. d <= L /\ d <= K
    BY <1>1, <1>2, <2>3
  <2>5. \E i \in Nat : i < MaxDaySteps /\ DayNumber(D + i) = d
    <3>1. CASE x < d
      <4>1. d - x \in Nat /\ x + (d - x) <= L /\ x + (d - x) = d /\ d - x < MaxDaySteps
        BY <1>2, <2>2, <2>4, <3>1, CalendarFacts
      <4>2. DayNumber(D + (d - x)) = x + (d - x)
        BY <1>4, <4>1
      <4>. QED
        BY <4>1, <4>2
    <3>2. CASE d < x
      <4>. DEFINE i == L - x + d
      <4>1. i \in Nat /\ L < x + i /\ x + i - L <= K /\ x + i - L = d /\ i < MaxDaySteps
        BY <1>2, <2>2, <2>4, <3>2, CalendarFacts
      <4>2. DayNumber(D + i) = x + i - L
        <5>. HIDE DEF i
        <5>. QED
          BY <1>4, <4>1
      <4>. QED
        BY <4>1, <4>2
    <3>3. x # d
      BY <2>1
    <3>. QED
      BY <2>2, <3>1, <3>2, <3>3
  <2>6. PICK i \in Nat : i < MaxDaySteps /\ DayNumber(D + i) = d
    BY <2>5
  <2>7. DayFits(c, D + i) /\ i \in 0 .. MaxDaySteps
    BY <1>5, <1>7, <2>6, CalendarFacts DEF DayFits
  <2>8. n < MaxDaySteps
    BY <1>3, <2>6, <2>7, CalendarFacts
  <2>9. DayNumber(D + n) \in c.days_of_month
    BY <1>3, <2>8 DEF DayFits
  <2>. QED
    BY <1>2, <2>1, <2>9 DEF n
<1>8. CASE c.days_of_month = 1 .. LongestMonth
  <2>1. ASSUME NEW i \in Nat
        PROVE  DayNumber(D + i) \in c.days_of_month
    <3>1. MonthAt(D + i) \in Nat
      BY MonthAtFacts
    <3>2. MonthLength(MonthAt(D + i)) \in WeekDays .. LongestMonth
      BY <3>1, MonthLengthFacts
    <3>3. DayNumber(D + i) \in 1 .. MonthLength(MonthAt(D + i))
      BY DayNumberFacts
    <3>. QED
      BY <1>8, <3>2, <3>3, CalendarFacts
  <2>2. \A i \in Nat : DayFits(c, D + i) <=> (D + i) % WeekDays \in c.days_of_week
    BY <2>1 DEF DayFits
  <2>3. PICK j \in Nat : j < WeekDays /\ DayFits(c, D + j)
    <3>. DEFINE e == NextSlot(c.days_of_week, WeekDays, D)
    <3>1. c.days_of_week \in NonEmpty(0 .. WeekDays - 1)
      BY DEF AllExprs
    <3>2. /\ e \in Nat /\ e >= D /\ e % WeekDays \in c.days_of_week
          /\ \A b \in D .. e - 1 : b % WeekDays \notin c.days_of_week
      BY <3>1, CalendarFacts, NextSlotFacts
    <3>3. e < D + WeekDays
      BY <3>1, CalendarFacts, NextSlotNear
    <3>. HIDE DEF e
    <3>4. e - D \in Nat /\ e - D < WeekDays /\ D + (e - D) = e
      BY <3>2, <3>3, CalendarFacts
    <3>. QED
      BY <2>2, <3>2, <3>4
  <2>4. j \in 0 .. MaxDaySteps
    BY <1>2, <2>3, CalendarFacts
  <2>5. n <= j
    BY <1>3, <2>3, <2>4
  <2>6. n # 0
    <3>1. D + 0 = D
      OBVIOUS
    <3>2. n < MaxDaySteps
      BY <1>2, <1>3, <2>3, <2>5, CalendarFacts
    <3>. QED
      BY <1>3, <3>1, <3>2
  <2>7. CASE x + n <= L
    BY <1>2, <1>3, <1>4, <2>6, <2>7 DEF n
  <2>8. CASE L < x + n
    <3>1. x + n - L <= K
      BY <1>2, <1>3, <2>3, <2>5, CalendarFacts
    <3>2. DayNumber(D + n) = x + n - L
      BY <1>3, <1>4, <2>8, <3>1
    <3>. QED
      BY <1>2, <1>3, <2>3, <2>5, <3>2, CalendarFacts DEF n
  <2>. QED
    BY <1>2, <1>3, <2>7, <2>8
<1>. QED
  BY <1>7, <1>8 DEF Plain
\* A later day starts at its marked fields.
LEMMA DayAfterFacts ==
    ASSUME NEW t \in Nat, NEW n \in Nat \ {0}, NEW mk \in {{"min", "hour"}, {"sec", "min", "hour"}}
    PROVE  DayAfter(time_to_tm(t), n, mk) = time_to_tm(AtDay(AbsDay(t) + n, 0, 0, LeftSec(mk, t)))
<1>1. PICK a \in Nat, h \in 0 .. Hours - 1, m \in 0 .. Minutes - 1, s \in 0 .. Seconds - 1 :
          a = AbsDay(t) + n /\ h = AbsHour(t) % Hours /\ m = AbsMin(t) % Minutes /\ s = t % Seconds
  <2>1. AbsDay(t) \in Nat /\ AbsHour(t) % Hours \in 0 .. Hours - 1
        /\ AbsMin(t) % Minutes \in 0 .. Minutes - 1 /\ t % Seconds \in 0 .. Seconds - 1
    BY AbsFacts
  <2>2. AbsDay(t) + n \in Nat
    BY <2>1
  <2>. QED
    BY ONLY <2>1, <2>2
<1>2. PICK u \in Nat : u = AtDay(a, h, m, s) /\ AbsDay(u) = a /\ u % Seconds = s
  BY ONLY ZenonT(60), DayTime, a \in Nat, h \in 0 .. Hours - 1, m \in 0 .. Minutes - 1,
          s \in 0 .. Seconds - 1
<1>3. add_to_field(time_to_tm(t), "mday", n) = time_to_tm(u)
  BY <1>1, <1>2, DayOps
<1>4. DayAfter(time_to_tm(t), n, mk) = reset_all_fields(time_to_tm(u), mk)
  BY <1>3 DEF DayAfter
<1>5. reset_all_fields(time_to_tm(u), mk)
        = Reset(Reset(Reset(time_to_tm(u), "sec", mk), "min", mk), "hour", mk)
  BY DEF reset_all_fields, Reset
<1>6. Reset(Reset(Reset(time_to_tm(u), "sec", mk), "min", mk), "hour", mk)
        = time_to_tm(AtDay(AbsDay(u), 0, 0, LeftSec(mk, u)))
  BY ResetHour
<1>7. LeftSec(mk, u) = LeftSec(mk, t)
  BY <1>1, <1>2 DEF LeftSec
<1>. QED
  BY <1>1, <1>2, <1>4, <1>5, <1>6, <1>7

\* There is a time at the start of a day.
LEMMA DayStart ==
    ASSUME NEW a \in Nat, NEW s \in 0 .. Seconds - 1
    PROVE  \E u \in Nat : u = AtDay(a, 0, 0, s) /\ AbsDay(u) = a /\ u % Seconds = s
<1>1. PICK h \in 0 .. Hours - 1, m \in 0 .. Minutes - 1 : h = 0 /\ m = 0
  BY CalendarFacts
<1>2. \E u \in Nat : u = AtDay(a, h, m, s) /\ AbsDay(u) = a /\ u % Seconds = s
  BY ONLY ZenonT(60), DayTime, a \in Nat, h \in 0 .. Hours - 1, m \in 0 .. Minutes - 1,
          s \in 0 .. Seconds - 1
<1>. QED
  BY ONLY <1>1, <1>2

\* find_next_day counts days, whatever it resets.
LEMMA DaysToMatchFacts ==
    ASSUME NEW c, NEW t \in Nat, NEW mk \in {{"min", "hour"}, {"sec", "min", "hour"}}
    PROVE  DaysToMatch(c, time_to_tm(t), mk) = DaysToFit(c, AbsDay(t))
<1>1. ASSUME NEW n \in 0 .. MaxDaySteps
      PROVE  DayMatches(c, DayAfter(time_to_tm(t), n, mk)) <=> DayFits(c, AbsDay(t) + n)
  <2>1. AbsDay(t) \in Nat /\ n \in Nat
    BY AbsFacts, CalendarFacts
  <2>2. CASE n = 0
    <3>1. AbsDay(t) + n = AbsDay(t)
      BY <2>1, <2>2
    <3>. QED
      BY <2>2, <3>1, DayFitsDate DEF DayAfter
  <2>3. CASE n # 0
    <3>1. PICK a \in Nat, s \in 0 .. Seconds - 1 : a = AbsDay(t) + n /\ s = LeftSec(mk, t)
      BY <2>1, LeftSecType
    <3>2. DayAfter(time_to_tm(t), n, mk) = time_to_tm(AtDay(a, 0, 0, s))
      BY <2>1, <2>3, <3>1, DayAfterFacts
    <3>3. PICK u \in Nat : u = AtDay(a, 0, 0, s) /\ AbsDay(u) = a
      BY DayStart
    <3>. QED
      BY <3>1, <3>2, <3>3, DayFitsDate
  <2>. QED
    BY <2>2, <2>3
<1>2. {n \in 0 .. MaxDaySteps : DayMatches(c, DayAfter(time_to_tm(t), n, mk))}
        = {n \in 0 .. MaxDaySteps : DayFits(c, AbsDay(t) + n)}
  BY <1>1
<1>. QED
  BY <1>2 DEF DaysToMatch, DaysToFit

\* A day that matches stays.
LEMMA FindDayStays ==
    ASSUME NEW c, NEW t \in Nat, NEW mk, DayFits(c, AbsDay(t))
    PROVE  find_next_day(c, time_to_tm(t), mk) = Stays(time_to_tm(t))
<1>. DEFINE S == {n \in 0 .. MaxDaySteps : DayMatches(c, DayAfter(time_to_tm(t), n, mk))} \cup {MaxDaySteps}
<1>1. S \subseteq Nat /\ 0 \in S
  <2>1. DayMatches(c, DayAfter(time_to_tm(t), 0, mk))
    BY DayFitsDate DEF DayAfter
  <2>. QED
    BY <2>1, CalendarFacts
<1>2. DaysToMatch(c, time_to_tm(t), mk) = 0
  <2>1. DaysToMatch(c, time_to_tm(t), mk) = Min(S)
    BY DEF DaysToMatch
  <2>. HIDE DEF S
  <2>2. \E i \in S : \A j \in S : i <= j
    BY <1>1, LeastNat
  <2>3. Min(S) \in S /\ Min(S) <= 0
    BY <1>1, <2>2 DEF Min
  <2>4. PICK m \in Nat : m = Min(S) /\ m <= 0
    BY <1>1, <2>3
  <2>. QED
    BY <2>1, <2>4
<1>3. DayAfter(time_to_tm(t), DaysToMatch(c, time_to_tm(t), mk), mk) = time_to_tm(t)
  BY <1>2 DEF DayAfter
<1>. QED
  BY <1>3 DEF find_next_day, Stays

\* One that does not is left for the first that may match, with another number.
LEMMA FindDayMoves ==
    ASSUME NEW c \in AllExprs, Plain(c), NEW t \in Nat,
           NEW mk \in {{"min", "hour"}, {"sec", "min", "hour"}},
           ~DayFits(c, AbsDay(t))
    PROVE  /\ DaysToFit(c, AbsDay(t)) \in Nat \ {0}
           /\ find_next_day(c, time_to_tm(t), mk)
                = Moves(time_to_tm(AtDay(AbsDay(t) + DaysToFit(c, AbsDay(t)), 0, 0, LeftSec(mk, t))))
<1>1. PICK D \in Nat, s \in 0 .. Seconds - 1 : D = AbsDay(t) /\ s = LeftSec(mk, t)
  BY AbsFacts, LeftSecType
<1>2. PICK n \in Nat : n = DaysToFit(c, D)
  BY DaysToFitFacts
<1>3. DayNumber(D + n) # DayNumber(D)
  BY <1>1, <1>2, PlainDay
<1>4. n # 0
  BY <1>3
<1>5. DayAfter(time_to_tm(t), DaysToMatch(c, time_to_tm(t), mk), mk)
        = time_to_tm(AtDay(D + n, 0, 0, s))
  BY <1>1, <1>2, <1>4, DaysToMatchFacts, DayAfterFacts
<1>6. PICK u \in Nat : u = AtDay(D + n, 0, 0, s) /\ AbsDay(u) = D + n
  <2>1. D + n \in Nat
    OBVIOUS
  <2>. QED
    BY <2>1, DayStart
<1>7. time_to_tm(u).mday # time_to_tm(t).mday
  BY <1>1, <1>3, <1>6, DayFitsDate
<1>8. find_next_day(c, time_to_tm(t), mk) = Moves(time_to_tm(u))
  BY <1>5, <1>6, <1>7 DEF find_next_day, Moves
<1>. QED
  BY <1>1, <1>2, <1>4, <1>6, <1>8
-----------------------------------------------------------------------------
(***************************************************************************)
(* A field that moves passes over no time that matches.                    *)
(***************************************************************************)
\* A match, by the numbers of the time.
LEMMA MatchesFacts ==
    ASSUME NEW c, NEW t \in Nat
    PROVE  Matches(c, t) <=> /\ t % Seconds \in c.seconds
                             /\ AbsMin(t) % Minutes \in c.minutes
                             /\ AbsHour(t) % Hours \in c.hours
                             /\ DayFits(c, AbsDay(t))
                             /\ AbsMonth(t) % Months \in c.months
  BY DateFacts, DayFitsDate DEF Matches

\* Later times are not in earlier minutes, hours, days or months.
LEMMA AbsMonotone ==
    ASSUME NEW v \in Nat, NEW w \in Nat, v <= w
    PROVE  /\ AbsMin(v) <= AbsMin(w) /\ AbsHour(v) <= AbsHour(w)
           /\ AbsDay(v) <= AbsDay(w) /\ AbsMonth(v) <= AbsMonth(w)
<1>1. /\ AbsMin(v) \in Nat /\ AbsHour(v) \in Nat /\ AbsDay(v) \in Nat
      /\ AbsMin(w) \in Nat /\ AbsHour(w) \in Nat /\ AbsDay(w) \in Nat
  BY AbsFacts
<1>2. AbsMin(v) <= AbsMin(w)
  BY CalendarFacts, DivMonotone DEF AbsMin
<1>3. AbsHour(v) <= AbsHour(w)
  BY <1>1, <1>2, CalendarFacts, DivMonotone DEF AbsHour
<1>4. AbsDay(v) <= AbsDay(w)
  BY <1>1, <1>3, CalendarFacts, DivMonotone DEF AbsDay
<1>5. AbsMonth(v) <= AbsMonth(w)
  BY <1>1, <1>4, MonthAtMonotone DEF AbsMonth
<1>. QED
  BY <1>2, <1>3, <1>4, <1>5

\* The turns before turn z end before it.
LEMMA TimesLess ==
    ASSUME NEW N \in Nat, NEW a \in Nat, NEW z \in Nat, a < z
    PROVE  a * N \in Nat /\ a * N + N <= z * N
<1>1. PICK b \in Nat : b = a + 1 /\ b <= z
  OBVIOUS
<1>2. b * N <= z * N
  BY <1>1
<1>3. b * N = a * N + N
  BY <1>1
<1>. QED
  BY <1>2, <1>3

\* Before the start of z is an earlier one.
LEMMA DivLess ==
    ASSUME NEW S \in Nat \ {0}, NEW t \in Nat, NEW z \in Nat, t < z * S
    PROVE  t \div S < z
<1>. DEFINE p == t \div S
<1>1. p \in Nat /\ t % S \in Nat /\ t = p * S + (t % S)
  BY DivMod
<1>. HIDE DEF p
<1>2. ~(z <= p)
  <2>. SUFFICES ASSUME z <= p PROVE FALSE
    OBVIOUS
  <2>1. z * S <= p * S
    BY <1>1
  <2>. QED
    BY <1>1, <2>1
<1>. QED
  BY <1>1, <1>2 DEF p

\* Before the start of hour or day z is an earlier hour or day.
LEMMA BeforeHour ==
    ASSUME NEW w \in Nat, NEW z \in Nat, AbsMin(w) < z * Minutes
    PROVE  AbsHour(w) < z
<1>1. AbsMin(w) \in Nat
  BY AbsFacts
<1>. QED
  BY <1>1, CalendarFacts, DivLess DEF AbsHour

\* The same of a day
LEMMA BeforeDay ==
    ASSUME NEW w \in Nat, NEW z \in Nat, AbsMin(w) < z * Hours * Minutes
    PROVE  AbsDay(w) < z
<1>1. AbsHour(w) \in Nat /\ z * Hours \in Nat
  BY AbsFacts, CalendarFacts
<1>2. AbsHour(w) < z * Hours
  BY <1>1, BeforeHour
<1>. QED
  BY <1>1, <1>2, CalendarFacts, DivLess DEF AbsDay

\* and of a month.
LEMMA BeforeMonth ==
    ASSUME NEW w \in Nat, NEW q \in Nat, AbsDay(w) < DaysBefore[q]
    PROVE  AbsMonth(w) < q
<1>1. PICK r \in Nat : r = AbsMonth(w)
  BY AbsFacts
<1>2. DaysBefore[r] <= AbsDay(w) /\ AbsDay(w) \in Nat
  BY <1>1, AbsFacts, MonthAtFacts DEF AbsMonth
<1>3. DaysBefore[q] \in Nat /\ DaysBefore[r] \in Nat /\ MonthLength(q) \in Nat
  BY DaysBeforeFacts, MonthLengthFacts
<1>4. q < r => DaysBefore[q] + MonthLength(q) <= DaysBefore[r]
  BY DaysBeforeGrows
<1>. QED
  BY <1>1, <1>2, <1>3, <1>4

\* The seconds are in the set, and if the search has not marked them, alone there.
Settled(c, v, mk) == "sec" \in mk \/ c.seconds = {v % Seconds}

\* Nothing matches before minute z, nor in it before the second that is left.
LEMMA Between ==
    ASSUME NEW c, NEW v \in Nat, NEW z \in Nat, NEW mk, Settled(c, v, mk), AbsMin(v) < z,
           \A w \in Nat : v <= w /\ AbsMin(w) < z => ~Matches(c, w)
    PROVE  \E u \in Nat : u = AtMin(z, LeftSec(mk, v)) /\ v < u /\ NoneMatches(c, v .. u - 1)
<1>1. PICK s \in 0 .. Seconds - 1 : s = LeftSec(mk, v)
  BY LeftSecType
<1>2. PICK u \in Nat : u = AtMin(z, s) /\ AbsMin(u) = z /\ u % Seconds = s
  BY ONLY ZenonT(60), AtMinFacts, z \in Nat, s \in 0 .. Seconds - 1
<1>3. v < u
  <2>1. ~(u <= v)
    <3>. SUFFICES ASSUME u <= v PROVE FALSE
      OBVIOUS
    <3>1. AbsMin(u) <= AbsMin(v)
      BY AbsMonotone
    <3>. QED
      BY <1>2, <3>1, AbsFacts
  <2>. QED
    BY <2>1
<1>4. ASSUME NEW w \in v .. u - 1
      PROVE  ~Matches(c, w)
  <2>1. w \in Nat /\ v <= w /\ w <= u /\ w # u
    OBVIOUS
  <2>2. AbsMin(w) <= z /\ AbsMin(w) \in Nat
    BY <1>2, <2>1, AbsMonotone, AbsFacts
  <2>3. CASE AbsMin(w) < z
    BY <2>1, <2>3
  <2>4. CASE AbsMin(w) = z
    <3>1. PICK r \in 0 .. Seconds - 1 : r = w % Seconds /\ w = z * Seconds + r
      BY <2>1, <2>4, AbsFacts
    <3>2. r < s
      <4>1. PICK p \in Nat : p = z * Seconds
        BY CalendarFacts
      <4>2. u = p + s /\ w = p + r
        BY <1>2, <3>1, <4>1 DEF AtMin
      <4>. QED
        BY <4>2, CalendarFacts
    <3>3. "sec" \notin mk /\ s = v % Seconds
      BY <1>1, <3>2, CalendarFacts DEF LeftSec
    <3>4. c.seconds = {s}
      BY <3>3 DEF Settled
    <3>. QED
      BY <2>1, <3>1, <3>2, <3>4, MatchesFacts
  <2>. QED
    BY <2>2, <2>3, <2>4
<1>. QED
  BY <1>1, <1>2, <1>3, <1>4 DEF NoneMatches
\* A step that moves to a later time, with no match before.
Goes(c, v, step) ==
    \E u \in Nat : step = Moves(time_to_tm(u)) /\ v < u /\ NoneMatches(c, v .. u - 1)

\* The least slot is a later one if the slot of the time is not in the set.
LEMMA SlotGoes ==
    ASSUME NEW N \in Nat \ {0}, NEW T \in NonEmpty(0 .. N - 1), NEW a \in Nat, a % N \notin T
    PROVE  /\ NextSlot(T, N, a) \in Nat /\ a < NextSlot(T, N, a)
           /\ \A b \in Nat : a <= b /\ b < NextSlot(T, N, a) => b % N \notin T
<1>1. PICK z \in Nat : z = NextSlot(T, N, a) /\ a <= z /\ z # a
                       /\ \A b \in a .. z - 1 : b % N \notin T
  BY NextSlotFacts
<1>2. a < z
  BY <1>1
<1>3. ASSUME NEW b \in Nat, a <= b, b < z
      PROVE  b % N \notin T
  <2>1. b \in a .. z - 1
    BY <1>3
  <2>. QED
    BY <1>1, <2>1
<1>. QED
  BY <1>1, <1>2, <1>3

\* So moves the minute,
LEMMA MinuteGoes ==
    ASSUME NEW c \in AllExprs, NEW v \in Nat, NEW mk \in {{}, {"sec"}}, Settled(c, v, mk),
           AbsMin(v) % Minutes \notin c.minutes
    PROVE  Goes(c, v, FindField(c.minutes, time_to_tm(v), "min", "hour", mk))
<1>1. PICK a \in Nat, z \in Nat : a = AbsMin(v) /\ z = NextSlot(c.minutes, Minutes, a) /\ a < z
         /\ \A b \in Nat : a <= b /\ b < z => b % Minutes \notin c.minutes
  <2>1. AbsMin(v) \in Nat /\ c.minutes \in NonEmpty(0 .. Minutes - 1)
    BY AbsFacts DEF AllExprs
  <2>. QED
    BY <2>1, CalendarFacts, SlotGoes
<1>2. ASSUME NEW w \in Nat, v <= w, AbsMin(w) < z
      PROVE  ~Matches(c, w)
  <2>1. AbsMin(w) \in Nat /\ a <= AbsMin(w)
    BY <1>1, <1>2, AbsFacts, AbsMonotone
  <2>2. AbsMin(w) % Minutes \notin c.minutes
    BY <1>1, <1>2, <2>1
  <2>. QED
    BY <2>2, MatchesFacts
<1>3. PICK u \in Nat : u = AtMin(z, LeftSec(mk, v)) /\ v < u /\ NoneMatches(c, v .. u - 1)
  BY <1>1, <1>2, Between
<1>4. FindField(c.minutes, time_to_tm(v), "min", "hour", mk) = Moves(time_to_tm(u))
  BY <1>1, <1>3, FindMin DEF AllExprs
<1>. QED
  BY <1>3, <1>4 DEF Goes

\* the hour,
LEMMA HourGoes ==
    ASSUME NEW c \in AllExprs, NEW v \in Nat, NEW mk \in {{"min"}, {"sec", "min"}}, Settled(c, v, mk),
           AbsHour(v) % Hours \notin c.hours
    PROVE  Goes(c, v, FindField(c.hours, time_to_tm(v), "hour", "mday", mk))
<1>1. PICK a \in Nat, z \in Nat : a = AbsHour(v) /\ z = NextSlot(c.hours, Hours, a) /\ a < z
         /\ \A b \in Nat : a <= b /\ b < z => b % Hours \notin c.hours
  <2>1. AbsHour(v) \in Nat /\ c.hours \in NonEmpty(0 .. Hours - 1)
    BY AbsFacts DEF AllExprs
  <2>. QED
    BY <2>1, CalendarFacts, SlotGoes
<1>2. PICK y \in Nat : y = z * Minutes
  BY CalendarFacts
<1>3. ASSUME NEW w \in Nat, v <= w, AbsMin(w) < y
      PROVE  ~Matches(c, w)
  <2>1. AbsHour(w) < z
    BY <1>2, <1>3, BeforeHour
  <2>2. AbsHour(w) \in Nat /\ a <= AbsHour(w)
    BY <1>1, <1>3, AbsFacts, AbsMonotone
  <2>3. AbsHour(w) % Hours \notin c.hours
    BY <1>1, <2>1, <2>2
  <2>. QED
    BY <2>3, MatchesFacts
<1>4. AbsMin(v) < y
  <2>1. AbsMin(v) \in Nat
    BY AbsFacts
  <2>2. AbsMin(v) = a * Minutes + (AbsMin(v) % Minutes) /\ AbsMin(v) % Minutes \in 0 .. Minutes - 1
    BY <1>1, AbsFacts
  <2>3. a * Minutes + Minutes <= y /\ a * Minutes \in Nat
    BY <1>1, <1>2, CalendarFacts, TimesLess
  <2>. QED
    BY <2>2, <2>3, CalendarFacts
<1>5. PICK u \in Nat : u = AtMin(y, LeftSec(mk, v)) /\ v < u /\ NoneMatches(c, v .. u - 1)
  BY <1>3, <1>4, Between
<1>6. AtHour(z, 0, LeftSec(mk, v)) = u
  BY <1>2, <1>5 DEF AtHour
<1>7. FindField(c.hours, time_to_tm(v), "hour", "mday", mk) = Moves(time_to_tm(u))
  BY <1>1, <1>6, FindHours DEF AllExprs
<1>. QED
  BY <1>5, <1>7 DEF Goes

\* Before the start of a later day.
LEMMA DayGoesTo ==
    ASSUME NEW c, NEW v \in Nat, NEW z \in Nat, NEW mk, Settled(c, v, mk), AbsDay(v) < z,
           \A w \in Nat : v <= w /\ AbsDay(w) < z => ~Matches(c, w)
    PROVE  \E u \in Nat : u = AtDay(z, 0, 0, LeftSec(mk, v)) /\ v < u /\ NoneMatches(c, v .. u - 1)
<1>1. PICK y \in Nat : y = z * Hours * Minutes
  BY CalendarFacts
<1>2. ASSUME NEW w \in Nat, v <= w, AbsMin(w) < y
      PROVE  ~Matches(c, w)
  <2>1. AbsDay(w) < z
    BY <1>1, <1>2, BeforeDay
  <2>. QED
    BY <1>2, <2>1
<1>3. AbsMin(v) < y
  <2>1. PICK a \in Nat, h \in Nat, m \in Nat, mm \in 0 .. Minutes - 1, hh \in 0 .. Hours - 1 :
           a = AbsDay(v) /\ h = AbsHour(v) /\ m = AbsMin(v) /\ h = a * Hours + hh /\ m = h * Minutes + mm
    <3>1. /\ AbsDay(v) \in Nat /\ AbsHour(v) \in Nat /\ AbsMin(v) \in Nat
          /\ AbsHour(v) % Hours \in 0 .. Hours - 1 /\ AbsMin(v) % Minutes \in 0 .. Minutes - 1
          /\ AbsMin(v) = AbsHour(v) * Minutes + (AbsMin(v) % Minutes)
          /\ AbsHour(v) = AbsDay(v) * Hours + (AbsHour(v) % Hours)
      BY AbsFacts
    <3>. QED
      BY ONLY <3>1
  <2>2. PICK k \in Nat : k = z * Hours
    BY CalendarFacts
  <2>3. h < k
    <3>1. a * Hours + Hours <= k /\ a * Hours \in Nat
      BY <2>1, <2>2, CalendarFacts, TimesLess
    <3>. QED
      BY <2>1, <3>1, CalendarFacts
  <2>4. h * Minutes + Minutes <= y /\ h * Minutes \in Nat
    BY <1>1, <2>2, <2>3, CalendarFacts, TimesLess
  <2>. QED
    BY <2>1, <2>4, CalendarFacts
<1>4. PICK u \in Nat : u = AtMin(y, LeftSec(mk, v)) /\ v < u /\ NoneMatches(c, v .. u - 1)
  BY <1>2, <1>3, Between
<1>5. AtDay(z, 0, 0, LeftSec(mk, v)) = u
  <2>1. z * Hours + 0 = z * Hours /\ z * Hours * Minutes + 0 = y
    BY <1>1, CalendarFacts
  <2>. QED
    BY <1>4, <2>1 DEF AtDay, AtHour
<1>. QED
  BY <1>4, <1>5

\* the day,
LEMMA DayGoes ==
    ASSUME NEW c \in AllExprs, Plain(c), NEW v \in Nat,
           NEW mk \in {{"min", "hour"}, {"sec", "min", "hour"}}, Settled(c, v, mk),
           ~DayFits(c, AbsDay(v))
    PROVE  Goes(c, v, find_next_day(c, time_to_tm(v), mk))
<1>1. PICK a \in Nat, n \in Nat \ {0} : a = AbsDay(v) /\ n = DaysToFit(c, a)
  BY AbsFacts, FindDayMoves
<1>2. \A i \in 0 .. n - 1 : ~DayFits(c, a + i)
  BY <1>1, DaysToFitFacts
<1>3. ASSUME NEW w \in Nat, v <= w, AbsDay(w) < a + n
      PROVE  ~Matches(c, w)
  <2>1. AbsDay(w) \in Nat /\ a <= AbsDay(w)
    BY <1>1, <1>3, AbsFacts, AbsMonotone
  <2>2. PICK i \in 0 .. n - 1 : AbsDay(w) = a + i
    <3>1. AbsDay(w) - a \in 0 .. n - 1 /\ AbsDay(w) = a + (AbsDay(w) - a)
      BY <1>3, <2>1
    <3>. QED
      BY <3>1
  <2>. QED
    BY <1>2, <2>2, MatchesFacts
<1>4. PICK u \in Nat : u = AtDay(a + n, 0, 0, LeftSec(mk, v)) /\ v < u /\ NoneMatches(c, v .. u - 1)
  <2>1. a + n \in Nat /\ AbsDay(v) < a + n
    BY <1>1
  <2>. QED
    BY <1>3, <2>1, DayGoesTo
<1>5. find_next_day(c, time_to_tm(v), mk) = Moves(time_to_tm(u))
  BY <1>1, <1>4, FindDayMoves
<1>. QED
  BY <1>4, <1>5 DEF Goes

\* and the month.
LEMMA MonthGoes ==
    ASSUME NEW c \in AllExprs, Plain(c), NEW v \in Nat,
           NEW mk \in {{"min", "hour", "mday"}, {"sec", "min", "hour", "mday"}}, Settled(c, v, mk),
           DayFits(c, AbsDay(v)), AbsMonth(v) % Months \notin c.months
    PROVE  Goes(c, v, FindField(c.months, time_to_tm(v), "mon", "year", mk))
<1>1. PICK a \in Nat, z \in Nat : a = AbsMonth(v) /\ z = NextSlot(c.months, Months, a) /\ a < z
         /\ \A b \in Nat : a <= b /\ b < z => b % Months \notin c.months
  <2>1. AbsMonth(v) \in Nat /\ c.months \in NonEmpty(0 .. Months - 1)
    BY AbsFacts DEF AllExprs
  <2>. QED
    BY <2>1, CalendarFacts, SlotGoes
<1>2. PICK d \in Nat : d = DaysBefore[z]
  BY DaysBeforeFacts
<1>3. ASSUME NEW w \in Nat, v <= w, AbsDay(w) < d
      PROVE  ~Matches(c, w)
  <2>1. AbsMonth(w) < z
    BY <1>2, <1>3, BeforeMonth
  <2>2. AbsMonth(w) \in Nat /\ a <= AbsMonth(w)
    BY <1>1, <1>3, AbsFacts, AbsMonotone
  <2>3. AbsMonth(w) % Months \notin c.months
    BY <1>1, <2>1, <2>2
  <2>. QED
    BY <2>3, MatchesFacts
<1>4. AbsDay(v) < d
  <2>1. AbsDay(v) < DaysBefore[a] + MonthLength(a) /\ AbsDay(v) \in Nat
    BY <1>1, AbsFacts, MonthAtFacts DEF AbsMonth
  <2>2. DaysBefore[a] + MonthLength(a) <= DaysBefore[z]
    BY <1>1, DaysBeforeGrows
  <2>3. DaysBefore[a] \in Nat /\ MonthLength(a) \in Nat
    BY DaysBeforeFacts, MonthLengthFacts
  <2>. QED
    BY <1>2, <2>1, <2>2, <2>3
<1>5. PICK u \in Nat : u = AtDay(d, 0, 0, LeftSec(mk, v)) /\ v < u /\ NoneMatches(c, v .. u - 1)
  BY <1>3, <1>4, DayGoesTo
<1>6. EveryMonthHas(time_to_tm(v).mday)
  <2>1. time_to_tm(v).mday \in c.days_of_month
    BY DayFitsDate DEF DayFits
  <2>2. ~(c.months = 0 .. Months - 1)
    BY AbsFacts
  <2>. QED
    BY <2>1, <2>2 DEF Plain, EveryMonthHas
<1>7. FindField(c.months, time_to_tm(v), "mon", "year", mk) = Moves(time_to_tm(u))
  BY <1>1, <1>2, <1>5, <1>6, FindMonths DEF AllExprs
<1>. QED
  BY <1>5, <1>7 DEF Goes
-----------------------------------------------------------------------------
(***************************************************************************)
(* One call of find_next, when the searches that start over are good.      *)
(***************************************************************************)
HasFailed(r) == r = Failed(r.date)

\* A search from t that does not fail finds the first time that matches.
Good(c, t, r) ==
    \/ HasFailed(r)
    \/ \E u \in Nat : r = Found(time_to_tm(u)) /\ t <= u /\ Matches(c, u) /\ NoneMatches(c, t .. u - 1)

AgainGood(c, again) == \A t \in Nat : Good(c, t, again[time_to_tm(t)])

\* The fields that are marked match.
Ready(c, v, mk) ==
    /\ Settled(c, v, mk) /\ v % Seconds \in c.seconds
    /\ "min" \in mk => AbsMin(v) % Minutes \in c.minutes
    /\ "hour" \in mk => AbsHour(v) % Hours \in c.hours
    /\ "mday" \in mk => DayFits(c, AbsDay(v))

\* How far a call from t has got: it has failed, or it has found a match by
\* starting over, or it is at a time whose fields match as far as they are marked.
Past(c, t, past, mk, marks) ==
    \/ HasFailed(past)
    \/ \E v \in Nat : /\ past = Found(time_to_tm(v)) /\ t <= v /\ NoneMatches(c, t .. v - 1)
                      /\ Matches(c, v) \/ (Ready(c, v, mk) /\ mk \in marks)

MinMarks == {{}, {"sec"}}
HourMarks == {{"min"}, {"sec", "min"}}
DayMarks == {{"min", "hour"}, {"sec", "min", "hour"}}
MonthMarks == {{"min", "hour", "mday"}, {"sec", "min", "hour", "mday"}}

\* What Again and Mark do of a step.
LEMMA Steps ==
    ASSUME NEW d, NEW again, NEW mk, NEW field
    PROVE  /\ Again(Stays(d), again) = Found(d) /\ Again(Moves(d), again) = again[d]
           /\ Mark(mk, Stays(d), field) = mk \cup {field} /\ Mark(mk, Moves(d), field) = mk
  BY DEF Again, Mark, Stays, Moves

\* Intervals without a match, one after the other.
LEMMA NoneMatchesJoin ==
    ASSUME NEW c, NEW t \in Nat, NEW v \in Nat, NEW u \in Nat, t <= v, v <= u,
           NoneMatches(c, t .. v - 1), NoneMatches(c, v .. u - 1)
    PROVE  NoneMatches(c, t .. u - 1)
<1>1. ASSUME NEW w \in t .. u - 1
      PROVE  w \in t .. v - 1 \/ w \in v .. u - 1
  OBVIOUS
<1>. QED
  BY <1>1 DEF NoneMatches

\* A field that moves starts over; one that stays leaves the time as it is.
LEMMA GoodAgain ==
    ASSUME NEW c, NEW again, AgainGood(c, again), NEW t \in Nat, NEW v \in Nat, t <= v,
           NoneMatches(c, t .. v - 1), NEW step, Goes(c, v, step)
    PROVE  Good(c, t, Again(step, again))
<1>1. PICK u \in Nat : step = Moves(time_to_tm(u)) /\ v < u /\ NoneMatches(c, v .. u - 1)
  BY DEF Goes
<1>2. PICK r : r = again[time_to_tm(u)]
  OBVIOUS
<1>3. Good(c, u, r)
  BY <1>2 DEF AgainGood
<1>4. Again(step, again) = r
  BY <1>1, <1>2, Steps
<1>5. Good(c, t, r)
  <2>1. CASE HasFailed(r)
    BY <2>1 DEF Good
  <2>2. ASSUME NEW e \in Nat, r = Found(time_to_tm(e)), u <= e, Matches(c, e), NoneMatches(c, u .. e - 1)
        PROVE  Good(c, t, r)
    <3>1. NoneMatches(c, t .. u - 1)
      BY <1>1, NoneMatchesJoin
    <3>2. t <= u /\ t <= e
      BY <1>1, <2>2
    <3>3. NoneMatches(c, t .. e - 1)
      BY <2>2, <3>1, <3>2, NoneMatchesJoin
    <3>. QED
      BY <2>2, <3>2, <3>3 DEF Good
  <2>. QED
    BY <1>3, <2>1, <2>2 DEF Good
<1>. QED
  BY <1>4, <1>5

\* How far a call has got after a field that moved or stayed.
LEMMA PastAgain ==
    ASSUME NEW c, NEW again, AgainGood(c, again), NEW t \in Nat, NEW v \in Nat, t <= v,
           NoneMatches(c, t .. v - 1), NEW step, NEW mk, NEW marks,
           \/ Goes(c, v, step)
           \/ step = Stays(time_to_tm(v)) /\ (Matches(c, v) \/ (Ready(c, v, mk) /\ mk \in marks))
    PROVE  Past(c, t, Again(step, again), mk, marks)
<1>1. CASE Goes(c, v, step)
  <2>1. PICK r : r = Again(step, again)
    OBVIOUS
  <2>2. Good(c, t, r)
    BY <1>1, <2>1, GoodAgain
  <2>. QED
    BY <2>1, <2>2 DEF Good, Past
<1>2. CASE step = Stays(time_to_tm(v)) /\ (Matches(c, v) \/ (Ready(c, v, mk) /\ mk \in marks))
  <2>1. Again(step, again) = Found(time_to_tm(v))
    BY <1>2, Steps
  <2>. QED
    BY <1>2, <2>1 DEF Past
<1>. QED
  BY <1>1, <1>2
\* A time that matches stays as it is.
LEMMA FieldStays ==
    ASSUME NEW c \in AllExprs, NEW v \in Nat, NEW mk
    PROVE  /\ v % Seconds \in c.seconds =>
                FindField(c.seconds, time_to_tm(v), "sec", "min", mk) = Stays(time_to_tm(v))
           /\ AbsMin(v) % Minutes \in c.minutes =>
                FindField(c.minutes, time_to_tm(v), "min", "hour", mk) = Stays(time_to_tm(v))
           /\ AbsHour(v) % Hours \in c.hours =>
                FindField(c.hours, time_to_tm(v), "hour", "mday", mk) = Stays(time_to_tm(v))
           /\ AbsMonth(v) % Months \in c.months =>
                FindField(c.months, time_to_tm(v), "mon", "year", mk) = Stays(time_to_tm(v))
<1>1. PICK d : d = time_to_tm(v)
  OBVIOUS
<1>2. /\ d["sec"] = v % Seconds /\ d["min"] = AbsMin(v) % Minutes
      /\ d["hour"] = AbsHour(v) % Hours /\ d["mon"] = AbsMonth(v) % Months
  BY <1>1, DateFacts
<1>3. /\ c.seconds \in NonEmpty(Nat) /\ c.minutes \in NonEmpty(Nat)
      /\ c.hours \in NonEmpty(Nat) /\ c.months \in NonEmpty(Nat)
  BY CalendarFacts DEF AllExprs, NonEmpty
<1>. QED
  BY ONLY <1>1, <1>2, <1>3, FindStays

\* A second to move to, and none that matches before it.
LEMMA SecondReady ==
    ASSUME NEW c \in AllExprs, Plain(c), NEW t \in Nat
    PROVE  LET sec == FindField(c.seconds, time_to_tm(t), "sec", "min", {})
               mk  == Mark({}, sec, "sec")
           IN  \E v \in Nat : /\ sec.date = time_to_tm(v) /\ t <= v /\ NoneMatches(c, t .. v - 1)
                              /\ Ready(c, v, mk) /\ mk \in MinMarks
<1>. DEFINE sec == FindField(c.seconds, time_to_tm(t), "sec", "min", {})
           mk == Mark({}, sec, "sec")
<1>1. CASE t % Seconds \in c.seconds
  <2>1. sec = Stays(time_to_tm(t))
    BY <1>1, FieldStays
  <2>2. mk = {"sec"}
    <3>1. Mark({}, Stays(time_to_tm(t)), "sec") = {} \cup {"sec"}
      BY ONLY ZenonT(60), Steps
    <3>. QED
      BY <2>1, <3>1
  <2>3. sec.date = time_to_tm(t)
    BY <2>1 DEF Stays
  <2>4. NoneMatches(c, t .. t - 1)
    BY DEF NoneMatches
  <2>. HIDE DEF sec, mk
  <2>5. Ready(c, t, mk) /\ mk \in MinMarks
    BY <1>1, <2>2 DEF Ready, Settled, MinMarks
  <2>. QED
    BY <2>3, <2>4, <2>5 DEF sec, mk
<1>2. CASE t % Seconds \notin c.seconds
  <2>1. c.seconds \in NonEmpty(0 .. Seconds - 1)
    BY DEF AllExprs
  <2>2. PICK v \in Nat : /\ v = NextSlot(c.seconds, Seconds, t) /\ t < v /\ v % Seconds \in c.seconds
                         /\ \A w \in Nat : t <= w /\ w < v => w % Seconds \notin c.seconds
    <3>1. NextSlot(c.seconds, Seconds, t) % Seconds \in c.seconds
      BY <2>1, CalendarFacts, NextSlotFacts
    <3>. QED
      BY <1>2, <2>1, <3>1, CalendarFacts, SlotGoes
  <2>3. sec = Moves(time_to_tm(v))
    BY <1>2, <2>1, <2>2, FindSec
  <2>4. mk = {}
    BY <2>3, Steps
  <2>5. sec.date = time_to_tm(v)
    BY <2>3 DEF Moves
  <2>6. NoneMatches(c, t .. v - 1)
    <3>1. ASSUME NEW w \in t .. v - 1
          PROVE  ~Matches(c, w)
      <4>1. w \in Nat /\ t <= w /\ w < v
        OBVIOUS
      <4>. QED
        BY <2>2, <4>1, MatchesFacts
    <3>. QED
      BY <3>1 DEF NoneMatches
  <2>7. c.seconds = {v % Seconds}
    <3>1. t % Seconds \in 0 .. Seconds - 1
      BY AbsFacts
    <3>2. \E s \in c.seconds : c.seconds = {s}
      BY <1>2, <3>1 DEF Plain
    <3>. QED
      BY <2>2, <3>2
  <2>. HIDE DEF sec, mk
  <2>8. Ready(c, v, mk) /\ mk \in MinMarks
    BY <2>2, <2>4, <2>7 DEF Ready, Settled, MinMarks
  <2>. QED
    BY <2>2, <2>5, <2>6, <2>8 DEF sec, mk
<1>. QED
  BY <1>1, <1>2

\* The month ends a call,
LEMMA GoodMonth ==
    ASSUME NEW c \in AllExprs, Plain(c), NEW dot, NEW again, AgainGood(c, again), NEW t \in Nat,
           NEW past, NEW mk, Past(c, t, past, mk, MonthMarks)
    PROVE  Good(c, t, FindMonth(c, past, mk, dot, again))
<1>. DEFINE month == FindField(c.months, past.date, "mon", "year", mk)
           r == FindMonth(c, past, mk, dot, again)
<1>1. CASE HasFailed(past)
  <2>1. r = past
    BY <1>1 DEF FindMonth, HasFailed, Failed
  <2>. QED
    BY <1>1, <2>1 DEF Good
<1>2. ASSUME NEW v \in Nat, past = Found(time_to_tm(v)), t <= v, NoneMatches(c, t .. v - 1),
             Matches(c, v) \/ (Ready(c, v, mk) /\ mk \in MonthMarks)
      PROVE  Good(c, t, r)
  <2>1. past.date = time_to_tm(v) /\ past.ok = TRUE
    BY <1>2 DEF Found
  <2>2. CASE AbsMonth(v) % Months \in c.months
    <3>1. month = Stays(time_to_tm(v))
      BY <2>1, <2>2, FieldStays
    <3>2. Again(month, again) = Found(time_to_tm(v))
      BY <3>1, Steps
    <3>3. month.same = TRUE
      BY <3>1 DEF Stays
    <3>4. r = Again(month, again)
      BY <2>1, <3>3 DEF FindMonth
    <3>5. Matches(c, v)
      BY <1>2, <2>2, MatchesFacts DEF Ready, MonthMarks
    <3>. QED
      BY <1>2, <3>2, <3>4, <3>5 DEF Good
  <2>3. CASE AbsMonth(v) % Months \notin c.months
    <3>1. Ready(c, v, mk) /\ mk \in MonthMarks
      BY <1>2, <2>3, MatchesFacts
    <3>2. Settled(c, v, mk) /\ DayFits(c, AbsDay(v))
      BY <3>1 DEF Ready, MonthMarks
    <3>3. Goes(c, v, month)
      BY <2>1, <2>3, <3>1, <3>2, MonthGoes DEF MonthMarks
    <3>4. Good(c, t, Again(month, again))
      <4>. HIDE DEF month
      <4>. QED
        BY <1>2, <3>3, GoodAgain
    <3>5. Good(c, t, Failed(month.date))
      BY DEF Good, HasFailed, Failed
    <3>6. r = Failed(month.date) \/ r = Again(month, again)
      BY <2>1 DEF FindMonth
    <3>. QED
      BY <3>4, <3>5, <3>6
  <2>. QED
    BY <2>2, <2>3
<1>. QED
  BY <1>1, <1>2 DEF Past
\* after the day,
LEMMA GoodDay ==
    ASSUME NEW c \in AllExprs, Plain(c), NEW dot, NEW again, AgainGood(c, again), NEW t \in Nat,
           NEW past, NEW mk, Past(c, t, past, mk, DayMarks)
    PROVE  Good(c, t, FindDay(c, past, mk, dot, again))
<1>. DEFINE day == find_next_day(c, past.date, mk)
           r == FindDay(c, past, mk, dot, again)
<1>1. CASE HasFailed(past)
  <2>1. r = past
    BY <1>1 DEF FindDay, HasFailed, Failed
  <2>. QED
    BY <1>1, <2>1 DEF Good
<1>2. ASSUME NEW v \in Nat, past = Found(time_to_tm(v)), t <= v, NoneMatches(c, t .. v - 1),
             Matches(c, v) \/ (Ready(c, v, mk) /\ mk \in DayMarks)
      PROVE  Good(c, t, r)
  <2>1. past.date = time_to_tm(v) /\ past.ok = TRUE
    BY <1>2 DEF Found
  <2>2. PICK mark : mark = Mark(mk, day, "mday")
    OBVIOUS
  <2>3. r = FindMonth(c, Again(day, again), mark, dot, again)
    BY <2>1, <2>2 DEF FindDay
  <2>4. CASE DayFits(c, AbsDay(v))
    <3>1. day = Stays(time_to_tm(v))
      BY <2>1, <2>4, FindDayStays
    <3>2. mark = mk \cup {"mday"}
      <4>1. Mark(mk, Stays(time_to_tm(v)), "mday") = mk \cup {"mday"}
        BY ONLY ZenonT(60), Steps
      <4>. QED
        BY <2>2, <3>1, <4>1
    <3>3. Ready(c, v, mk) /\ mk \in DayMarks => Ready(c, v, mark) /\ mark \in MonthMarks
      BY <2>4, <3>2 DEF Ready, Settled, DayMarks, MonthMarks
    <3>. HIDE DEF day
    <3>4. Past(c, t, Again(day, again), mark, MonthMarks)
      BY <1>2, <3>1, <3>3, PastAgain
    <3>. QED
      BY <2>3, <3>4, GoodMonth
  <2>5. CASE ~(DayFits(c, AbsDay(v)))
    <3>1. Ready(c, v, mk) /\ mk \in DayMarks
      BY <1>2, <2>5, MatchesFacts
    <3>2. Settled(c, v, mk)
      BY <3>1 DEF Ready
    <3>3. Goes(c, v, day)
      BY <2>1, <2>5, <3>1, <3>2, DayGoes DEF DayMarks
    <3>. HIDE DEF day
    <3>4. Past(c, t, Again(day, again), mark, MonthMarks)
      BY <1>2, <3>3, PastAgain
    <3>. QED
      BY <2>3, <3>4, GoodMonth
  <2>. QED
    BY <2>4, <2>5
<1>. QED
  BY <1>1, <1>2 DEF Past

\* after the hour,
LEMMA GoodHour ==
    ASSUME NEW c \in AllExprs, Plain(c), NEW dot, NEW again, AgainGood(c, again), NEW t \in Nat,
           NEW past, NEW mk, Past(c, t, past, mk, HourMarks)
    PROVE  Good(c, t, FindHour(c, past, mk, dot, again))
<1>. DEFINE hour == FindField(c.hours, past.date, "hour", "mday", mk)
           r == FindHour(c, past, mk, dot, again)
<1>1. CASE HasFailed(past)
  <2>1. r = past
    BY <1>1 DEF FindHour, HasFailed, Failed
  <2>. QED
    BY <1>1, <2>1 DEF Good
<1>2. ASSUME NEW v \in Nat, past = Found(time_to_tm(v)), t <= v, NoneMatches(c, t .. v - 1),
             Matches(c, v) \/ (Ready(c, v, mk) /\ mk \in HourMarks)
      PROVE  Good(c, t, r)
  <2>1. past.date = time_to_tm(v) /\ past.ok = TRUE
    BY <1>2 DEF Found
  <2>2. PICK mark : mark = Mark(mk, hour, "hour")
    OBVIOUS
  <2>3. r = FindDay(c, Again(hour, again), mark, dot, again)
    BY <2>1, <2>2 DEF FindHour
  <2>4. CASE AbsHour(v) % Hours \in c.hours
    <3>1. hour = Stays(time_to_tm(v))
      BY <2>1, <2>4, FieldStays
    <3>2. mark = mk \cup {"hour"}
      <4>1. Mark(mk, Stays(time_to_tm(v)), "hour") = mk \cup {"hour"}
        BY ONLY ZenonT(60), Steps
      <4>. QED
        BY <2>2, <3>1, <4>1
    <3>3. Ready(c, v, mk) /\ mk \in HourMarks => Ready(c, v, mark) /\ mark \in DayMarks
      BY <2>4, <3>2 DEF Ready, Settled, HourMarks, DayMarks
    <3>. HIDE DEF hour
    <3>4. Past(c, t, Again(hour, again), mark, DayMarks)
      BY <1>2, <3>1, <3>3, PastAgain
    <3>. QED
      BY <2>3, <3>4, GoodDay
  <2>5. CASE ~(AbsHour(v) % Hours \in c.hours)
    <3>1. Ready(c, v, mk) /\ mk \in HourMarks
      BY <1>2, <2>5, MatchesFacts
    <3>2. Settled(c, v, mk)
      BY <3>1 DEF Ready
    <3>3. Goes(c, v, hour)
      BY <2>1, <2>5, <3>1, <3>2, HourGoes DEF HourMarks
    <3>. HIDE DEF hour
    <3>4. Past(c, t, Again(hour, again), mark, DayMarks)
      BY <1>2, <3>3, PastAgain
    <3>. QED
      BY <2>3, <3>4, GoodDay
  <2>. QED
    BY <2>4, <2>5
<1>. QED
  BY <1>1, <1>2 DEF Past

\* after the minute and the second.
LEMMA GoodSearch ==
    ASSUME NEW c \in AllExprs, Plain(c), NEW dot, NEW again, AgainGood(c, again), NEW t \in Nat
    PROVE  Good(c, t, Search(c, time_to_tm(t), dot, again))
<1>. DEFINE sec == FindField(c.seconds, time_to_tm(t), "sec", "min", {})
<1>1. PICK mk : mk = Mark({}, sec, "sec")
  OBVIOUS
<1>2. PICK v \in Nat : /\ sec.date = time_to_tm(v) /\ t <= v /\ NoneMatches(c, t .. v - 1)
                       /\ Ready(c, v, mk) /\ mk \in MinMarks
  BY <1>1, SecondReady
<1>. DEFINE min == FindField(c.minutes, time_to_tm(v), "min", "hour", mk)
<1>3. PICK mark : mark = Mark(mk, min, "min")
  OBVIOUS
<1>4. Search(c, time_to_tm(t), dot, again) = FindHour(c, Again(min, again), mark, dot, again)
  BY <1>1, <1>2, <1>3 DEF Search, FindMinute
<1>5. CASE AbsMin(v) % Minutes \in c.minutes
  <2>1. min = Stays(time_to_tm(v))
    BY <1>5, FieldStays
  <2>2. mark = mk \cup {"min"}
    BY <1>3, <2>1, Steps
  <2>3. Ready(c, v, mark) /\ mark \in HourMarks
    BY <1>2, <1>5, <2>2 DEF Ready, Settled, MinMarks, HourMarks
  <2>. HIDE DEF min
  <2>4. Past(c, t, Again(min, again), mark, HourMarks)
    BY <1>2, <2>1, <2>3, PastAgain
  <2>. QED
    BY <1>4, <2>4, GoodHour
<1>6. CASE AbsMin(v) % Minutes \notin c.minutes
  <2>1. Settled(c, v, mk)
    BY <1>2 DEF Ready
  <2>2. Goes(c, v, min)
    BY <1>2, <1>6, <2>1, MinuteGoes DEF MinMarks
  <2>. HIDE DEF min
  <2>3. Past(c, t, Again(min, again), mark, HourMarks)
    BY <1>2, <2>2, PastAgain
  <2>. QED
    BY <1>4, <2>3, GoodHour
<1>. QED
  BY <1>5, <1>6
-----------------------------------------------------------------------------
(***************************************************************************)
(* Types: the search of a date leads to a date.  The recursive function of *)
(* find_next is defined for this reason.                                   *)
(***************************************************************************)
Outcome == [ok : BOOLEAN, date : Date]

\* mktime makes a date of any fields.
LEMMA NormalType ==
    ASSUME NEW d \in Date
    PROVE  Normal(d) \in Date
  BY TimeType, DateFacts DEF Normal

\* So do the operations on a field,
LEMMA SetType ==
    ASSUME NEW d \in Date, NEW field \in {"sec", "min", "hour", "mday", "mon", "year"},
           NEW k \in Nat, field = "mday" => k # 0
    PROVE  set_field(d, field, k) \in Date
<1>1. [d EXCEPT ![field] = k] \in Date
  BY DEF Date
<1>. QED
  BY <1>1, NormalType DEF set_field

\* the additions,
LEMMA AddType ==
    ASSUME NEW d \in Date, NEW field \in {"sec", "min", "hour", "mday", "mon", "year"}, NEW k \in Nat
    PROVE  add_to_field(d, field, k) \in Date
<1>1. d[field] \in Nat /\ (field = "mday" => d[field] # 0)
  BY DEF Date
<1>2. PICK m \in Nat : m = d[field] + k /\ (field = "mday" => m # 0)
  BY <1>1
<1>3. add_to_field(d, field, k) = set_field(d, field, m)
  BY <1>2 DEF add_to_field, set_field
<1>. QED
  BY <1>2, <1>3, SetType

\* the resets,
LEMMA ResetType ==
    ASSUME NEW d \in Date, NEW mk
    PROVE  /\ \A field \in {"sec", "min", "hour", "mday", "mon"} : reset_field(d, field) \in Date
           /\ reset_all_fields(d, mk) \in Date
<1>1. ASSUME NEW e \in Date, NEW field \in {"sec", "min", "hour", "mday", "mon"}
      PROVE  reset_field(e, field) \in Date
  BY SetType DEF reset_field
<1>2. ASSUME NEW e \in Date, NEW field \in {"sec", "min", "hour", "mday", "mon"}
      PROVE  Reset(e, field, mk) \in Date
  BY <1>1 DEF Reset
<1>3. reset_all_fields(d, mk) \in Date
  <2>1. Reset(d, "sec", mk) \in Date
    BY <1>2
  <2>2. Reset(Reset(d, "sec", mk), "min", mk) \in Date
    BY <1>2, <2>1
  <2>3. Reset(Reset(Reset(d, "sec", mk), "min", mk), "hour", mk) \in Date
    BY <1>2, <2>2
  <2>. QED
    BY <1>2, <2>3 DEF reset_all_fields
<1>. QED
  BY <1>1, <1>3

\* the search of a field,
LEMMA FindFieldType ==
    ASSUME NEW d \in Date, NEW T \in NonEmpty(Nat), NEW mk,
           NEW field \in {"sec", "min", "hour", "mon"},
           NEW next_field \in {"min", "hour", "mday", "year"}
    PROVE  FindField(T, d, field, next_field, mk).date \in Date
<1>. DEFINE step == FindField(T, d, field, next_field, mk)
<1>1. d[field] \in Nat
  BY DEF Date
<1>2. CASE d[field] \in T
  <2>1. step = Stays(d)
    BY <1>2, FindStays
  <2>. QED
    BY <2>1 DEF Stays
<1>3. CASE d[field] \notin T
  <2>1. PICK here, low : here = next_set_bit(T, d[field]) /\ low = next_set_bit(T, 0)
    OBVIOUS
  <2>2. low \in Nat /\ (here # INVALID => here \in Nat)
    BY <1>1, <2>1, NextBitIn DEF NonEmpty
  <2>3. CASE here # INVALID
    <3>1. step = Moves(reset_all_fields(set_field(d, field, here), mk))
      BY <1>1, <1>3, <2>1, <2>3, FindMoves
    <3>2. set_field(d, field, here) \in Date
      BY <2>2, <2>3, SetType
    <3>3. reset_all_fields(set_field(d, field, here), mk) \in Date
      BY <3>2, ResetType
    <3>. QED
      BY <3>1, <3>3 DEF Moves
  <2>4. CASE here = INVALID
    <3>1. step = Moves(reset_all_fields(
                   set_field(reset_field(add_to_field(d, next_field, 1), field), field, low), mk))
      <4>1. d[field] \in Nat /\ d[field] \notin T /\ next_set_bit(T, d[field]) = INVALID
        BY <1>1, <1>3, <2>1, <2>4
      <4>2. step = Moves(reset_all_fields(
                     set_field(reset_field(add_to_field(d, next_field, 1), field), field,
                               next_set_bit(T, 0)), mk))
        BY ONLY <4>1 DEF FindField, Moved, Moves, INVALID
      <4>. QED
        BY <2>1, <4>2
    <3>2. add_to_field(d, next_field, 1) \in Date
      BY AddType
    <3>3. reset_field(add_to_field(d, next_field, 1), field) \in Date
      BY <3>2, ResetType
    <3>4. set_field(reset_field(add_to_field(d, next_field, 1), field), field, low) \in Date
      BY <2>2, <3>3, SetType
    <3>5. reset_all_fields(
            set_field(reset_field(add_to_field(d, next_field, 1), field), field, low), mk) \in Date
      BY <3>4, ResetType
    <3>. QED
      BY <3>1, <3>5 DEF Moves
  <2>. QED
    BY <2>3, <2>4
<1>. QED
  BY <1>2, <1>3

\* the search of a day,
LEMMA FindDayType ==
    ASSUME NEW c, NEW d \in Date, NEW mk
    PROVE  find_next_day(c, d, mk).date \in Date
<1>1. DaysToMatch(c, d, mk) \in Nat
  <2>. DEFINE S == {n \in 0 .. MaxDaySteps : DayMatches(c, DayAfter(d, n, mk))} \cup {MaxDaySteps}
  <2>1. S \subseteq Nat /\ S # {}
    BY CalendarFacts
  <2>2. DaysToMatch(c, d, mk) = Min(S)
    BY DEF DaysToMatch
  <2>. HIDE DEF S
  <2>3. \E i \in S : \A j \in S : i <= j
    BY <2>1, LeastNat
  <2>. QED
    BY <2>1, <2>2, <2>3 DEF Min
<1>2. PICK n \in Nat : n = DaysToMatch(c, d, mk)
  BY <1>1
<1>3. DayAfter(d, n, mk) \in Date
  <2>1. add_to_field(d, "mday", n) \in Date
    BY AddType
  <2>2. reset_all_fields(add_to_field(d, "mday", n), mk) \in Date
    BY <2>1, ResetType
  <2>. QED
    BY <2>2 DEF DayAfter
<1>. QED
  BY <1>2, <1>3 DEF find_next_day

\* and a call, if those that start over do.
LEMMA SearchType ==
    ASSUME NEW c \in AllExprs, NEW d \in Date, NEW dot, NEW again \in [Date -> Outcome]
    PROVE  Search(c, d, dot, again) \in Outcome
<1>1. ASSUME NEW step, step.date \in Date
      PROVE  Again(step, again) \in Outcome
  BY <1>1 DEF Again, Found, Outcome
<1>2. ASSUME NEW e \in Date
      PROVE  Failed(e) \in Outcome /\ Found(e) \in Outcome
  BY DEF Failed, Found, Outcome
<1>3. \A r \in Outcome : r.date \in Date
  BY DEF Outcome
<1>4. /\ c.seconds \in NonEmpty(Nat) /\ c.minutes \in NonEmpty(Nat)
      /\ c.hours \in NonEmpty(Nat) /\ c.months \in NonEmpty(Nat)
  BY CalendarFacts DEF AllExprs, NonEmpty
<1>5. ASSUME NEW past \in Outcome, NEW mk
      PROVE  FindMonth(c, past, mk, dot, again) \in Outcome
  <2>1. PICK month : month = FindField(c.months, past.date, "mon", "year", mk)
    OBVIOUS
  <2>2. month.date \in Date
    BY <1>3, <1>4, <2>1, FindFieldType
  <2>3. Again(month, again) \in Outcome /\ Failed(month.date) \in Outcome
    BY <1>1, <1>2, <2>2
  <2>4. FindMonth(c, past, mk, dot, again) \in {past, Failed(month.date), Again(month, again)}
    BY <2>1 DEF FindMonth
  <2>. QED
    BY <2>3, <2>4
<1>6. ASSUME NEW past \in Outcome, NEW mk
      PROVE  FindDay(c, past, mk, dot, again) \in Outcome
  <2>1. PICK day : day = find_next_day(c, past.date, mk)
    OBVIOUS
  <2>2. Again(day, again) \in Outcome
    BY <1>1, <1>3, <2>1, FindDayType
  <2>3. FindMonth(c, Again(day, again), Mark(mk, day, "mday"), dot, again) \in Outcome
    BY <1>5, <2>2
  <2>. QED
    BY <2>1, <2>3 DEF FindDay
<1>7. ASSUME NEW past \in Outcome, NEW mk
      PROVE  FindHour(c, past, mk, dot, again) \in Outcome
  <2>1. PICK hour : hour = FindField(c.hours, past.date, "hour", "mday", mk)
    OBVIOUS
  <2>2. hour.date \in Date
    BY <1>3, <1>4, <2>1, FindFieldType
  <2>3. FindDay(c, Again(hour, again), Mark(mk, hour, "hour"), dot, again) \in Outcome
    BY <1>1, <1>6, <2>2
  <2>. QED
    BY <2>1, <2>3 DEF FindHour
<1>8. ASSUME NEW e \in Date, NEW mk
      PROVE  FindMinute(c, e, mk, dot, again) \in Outcome
  <2>1. PICK min : min = FindField(c.minutes, e, "min", "hour", mk)
    OBVIOUS
  <2>2. min.date \in Date
    BY <1>4, <2>1, FindFieldType
  <2>. QED
    BY <1>1, <1>7, <2>1, <2>2 DEF FindMinute
<1>9. FindField(c.seconds, d, "sec", "min", {}).date \in Date
  BY <1>4, FindFieldType
<1>. QED
  BY <1>8, <1>9 DEF Search
-----------------------------------------------------------------------------
(***************************************************************************)
(* find_next, and cron_next.                                               *)
(***************************************************************************)
\* What find_next answers when n calls are allowed within a call, for every n.
CallsWithin(c, dot, within) ==
    /\ \A start : find_next(c, start, dot) = within[MaxCalls][start]
    /\ \A d \in Date : within[0][d] = Failed(d)
    /\ \A n \in Nat, d \in Date : within[n + 1][d] = Search(c, d, dot, within[n])

\* The recursive function within find_next is the one it was written as.
LEMMA FindNextWithin ==
    ASSUME NEW c \in AllExprs, NEW dot
    PROVE  \E within : CallsWithin(c, dot, within)
<1>. DEFINE Def(w) == [n \in Nat |->
                         [d \in Date |-> IF n = 0 THEN Failed(d) ELSE Search(c, d, dot, w[n - 1])]]
           within == CHOOSE w : w = Def(w)
<1>1. \E w : w = Def(w)
  <2>. DEFINE X == [Date -> Outcome]
             start == [d \in Date |-> Failed(d)]
             F == [w \in X |-> [d \in Date |-> Search(c, d, dot, w)]]
  <2>1. start \in X
    BY DEF Failed, Outcome
  <2>2. F \in [X -> X]
    BY SearchType
  <2>3. \E h \in [Nat -> X] : h[0] = start /\ \A n \in Nat : h[n + 1] = F[h[n]]
    <3>. HIDE DEF X, F, start
    <3>. QED
      BY <2>1, <2>2, Recursion, Z3
  <2>4. PICK h \in [Nat -> X] : h[0] = start /\ \A n \in Nat : h[n + 1] = F[h[n]]
    BY <2>3
  <2>5. ASSUME NEW n \in Nat
        PROVE  h[n] = Def(h)[n]
    <3>1. CASE n = 0
      BY <2>4, <3>1
    <3>2. CASE n # 0
      <4>1. n - 1 \in Nat /\ (n - 1) + 1 = n
        BY <3>2
      <4>2. h[n] = F[h[n - 1]] /\ h[n - 1] \in X
        BY <2>4, <4>1
      <4>3. F[h[n - 1]] = [d \in Date |-> Search(c, d, dot, h[n - 1])]
        BY <4>2
      <4>4. Def(h)[n] = [d \in Date |-> Search(c, d, dot, h[n - 1])]
        BY <3>2
      <4>. QED
        BY <4>2, <4>3, <4>4
    <3>. QED
      BY <3>1, <3>2
  <2>6. h = Def(h)
    BY <2>5
  <2>. QED
    BY <2>6
<1>2. within = Def(within)
  BY <1>1
<1>3. ASSUME NEW start
      PROVE  find_next(c, start, dot) = within[MaxCalls][start]
  BY DEF find_next
<1>. HIDE DEF within
<1>4. ASSUME NEW d \in Date
      PROVE  within[0][d] = Failed(d)
  BY <1>2
<1>5. ASSUME NEW n \in Nat, NEW d \in Date
      PROVE  within[n + 1][d] = Search(c, d, dot, within[n])
  <2>1. n + 1 \in Nat /\ n + 1 # 0 /\ (n + 1) - 1 = n
    OBVIOUS
  <2>. QED
    BY <1>2, <2>1
<1>. QED
  BY <1>3, <1>4, <1>5 DEF CallsWithin

\* A call with n calls within it is good, for every n; by SetInduction.
LEMMA WithinGood ==
    ASSUME NEW c \in AllExprs, Plain(c), NEW dot, NEW within,
           \A d \in Date : within[0][d] = Failed(d),
           \A n \in Nat, d \in Date : within[n + 1][d] = Search(c, d, dot, within[n])
    PROVE  \A n \in Nat : AgainGood(c, within[n])
<1>. DEFINE G == {i \in Nat : AgainGood(c, within[i])}
<1>1. 0 \in G
  <2>1. ASSUME NEW u \in Nat
        PROVE  Good(c, u, within[0][time_to_tm(u)])
    <3>1. within[0][time_to_tm(u)] = Failed(time_to_tm(u))
      BY DateFacts
    <3>. QED
      BY <3>1 DEF Good, HasFailed, Failed
  <2>. QED
    BY <2>1 DEF AgainGood
<1>2. ASSUME NEW i \in Nat, i \in G
      PROVE  i + 1 \in G
  <2>1. ASSUME NEW u \in Nat
        PROVE  Good(c, u, within[i + 1][time_to_tm(u)])
    <3>1. within[i + 1][time_to_tm(u)] = Search(c, time_to_tm(u), dot, within[i])
      BY DateFacts
    <3>2. PICK again : again = within[i]
      OBVIOUS
    <3>3. AgainGood(c, again)
      BY <1>2, <3>2
    <3>. QED
      BY <3>1, <3>2, <3>3, GoodSearch
  <2>. QED
    BY <2>1 DEF AgainGood
<1>3. \A i \in Nat : i \in G
  <2>. HIDE DEF G
  <2>. QED
    BY <1>1, <1>2, SetInduction
<1>. QED
  BY <1>3

\* So is a call of find_next.
LEMMA FindNextGood ==
    ASSUME NEW c \in AllExprs, Plain(c), NEW dot, NEW t \in Nat
    PROVE  Good(c, t, find_next(c, time_to_tm(t), dot))
<1>0. PICK within : CallsWithin(c, dot, within)
  BY FindNextWithin
<1>1. /\ \A start : find_next(c, start, dot) = within[MaxCalls][start]
      /\ \A d \in Date : within[0][d] = Failed(d)
      /\ \A n \in Nat, d \in Date : within[n + 1][d] = Search(c, d, dot, within[n])
  BY <1>0 DEF CallsWithin
<1>2. MaxCalls \in Nat
  BY CalendarAssumption
<1>3. AgainGood(c, within[MaxCalls])
  BY <1>1, <1>2, WithinGood
<1>. QED
  BY <1>1, <1>3 DEF AgainGood

\* An answer is the first match from the time on.
LEMMA AnswerFromGood ==
    ASSUME NEW c \in AllExprs, Plain(c), NEW t \in Nat
    PROVE  LET r == AnswerFrom(c, time_to_tm(t))
           IN  \/ r = INVALID
               \/ r \in Nat /\ t <= r /\ Matches(c, r) /\ NoneMatches(c, t .. r - 1)
<1>1. PICK from : from = time_to_tm(t)
  OBVIOUS
<1>2. PICK found : found = find_next(c, from, from.year)
  OBVIOUS
<1>3. Good(c, t, found)
  BY <1>1, <1>2, FindNextGood
<1>4. CASE HasFailed(found)
  BY <1>1, <1>2, <1>4 DEF AnswerFrom, Answer, HasFailed, Failed
<1>5. ASSUME NEW u \in Nat, found = Found(time_to_tm(u)), t <= u, Matches(c, u),
             NoneMatches(c, t .. u - 1)
      PROVE  AnswerFrom(c, time_to_tm(t)) = u
  BY <1>1, <1>2, <1>5, RoundTrip DEF AnswerFrom, Answer, Found
<1>. QED
  BY <1>3, <1>4, <1>5 DEF Good

\* What cron_next promises of a plain expression.
LEMMA CronNextCorrect ==
    ASSUME NEW c \in AllExprs, Plain(c), NEW t \in Nat
    PROVE  LET r == cron_next(c, t)
           IN  \/ r = INVALID
               \/ r \in Nat /\ t < r /\ Matches(c, r) /\ NoneMatches(c, t + 1 .. r - 1)
<1>1. PICK once : once = AnswerFrom(c, time_to_tm(t))
  OBVIOUS
<1>2. \/ once = INVALID
      \/ once \in Nat /\ t <= once /\ Matches(c, once) /\ NoneMatches(c, t .. once - 1)
  BY <1>1, AnswerFromGood
<1>3. CASE once = t
  <2>1. PICK e \in Nat : e = t + 1
    OBVIOUS
  <2>2. add_to_field(time_to_tm(once), "sec", 1) = time_to_tm(e)
    BY <1>3, <2>1, SecOps
  <2>3. cron_next(c, t) = AnswerFrom(c, time_to_tm(e))
    BY <1>1, <1>3, <2>2 DEF cron_next
  <2>4. PICK r : r = AnswerFrom(c, time_to_tm(e))
    OBVIOUS
  <2>5. \/ r = INVALID
        \/ r \in Nat /\ e <= r /\ Matches(c, r) /\ NoneMatches(c, e .. r - 1)
    BY <2>4, AnswerFromGood
  <2>. QED
    BY <2>1, <2>3, <2>4, <2>5
<1>4. CASE once # t
  <2>1. cron_next(c, t) = once
    BY <1>1, <1>4 DEF cron_next
  <2>2. once \in Nat /\ NoneMatches(c, t .. once - 1) => NoneMatches(c, t + 1 .. once - 1)
    BY DEF NoneMatches
  <2>. QED
    BY <1>2, <1>4, <2>1, <2>2
<1>. QED
  BY <1>3, <1>4
-----------------------------------------------------------------------------
(***************************************************************************)
(* No search fails that has a match m ahead of it, of a year near enough,  *)
(* and as many calls within it as there are seconds until m: every search  *)
(* that starts over does so later, and not after m.                        *)
(***************************************************************************)
\* A call from t that has got to v, as in Past.
Reached(c, t, past, mk, marks) ==
    \E v \in Nat : /\ past = Found(time_to_tm(v)) /\ t <= v /\ NoneMatches(c, t .. v - 1)
                   /\ Matches(c, v) \/ (Ready(c, v, mk) /\ mk \in marks)

\* The searches from times after t, up to m, do not fail.
AgainFinds(t, m, again) ==
    \A u \in Nat : t < u /\ u <= m => ~HasFailed(again[time_to_tm(u)])

\* The year of a time.
YearOf(t) == AbsMonth(t) \div Months

\* What has been found has not failed.
LEMMA FoundIsNoFailure == \A d : ~HasFailed(Found(d))
<1>1. ASSUME NEW d, Found(d) = Failed(Found(d).date)
      PROVE  FALSE
  <2>1. Found(d).ok = TRUE /\ Failed(Found(d).date).ok = FALSE
    BY DEF Found, Failed
  <2>. QED
    BY <1>1, <2>1
<1>. QED
  BY <1>1 DEF HasFailed

\* A step does not go past m,
LEMMA NotPast ==
    ASSUME NEW c, NEW t \in Nat, NEW v \in Nat, NEW m \in Nat, t <= v, t <= m,
           NoneMatches(c, t .. v - 1), Matches(c, m)
    PROVE  v <= m
<1>. SUFFICES ASSUME m < v PROVE FALSE
  OBVIOUS
<1>1. m \in t .. v - 1
  OBVIOUS
<1>. QED
  BY <1>1 DEF NoneMatches

\* and the search that starts over where it went does not fail.
LEMMA StepFinds ==
    ASSUME NEW c, NEW t \in Nat, NEW v \in Nat, NEW m \in Nat, t <= v, v <= m, Matches(c, m),
           NEW again, AgainFinds(t, m, again), NEW step, Goes(c, v, step)
    PROVE  /\ ~HasFailed(Again(step, again))
           /\ \E u \in Nat : step = Moves(time_to_tm(u)) /\ u <= m
<1>1. PICK u \in Nat : step = Moves(time_to_tm(u)) /\ v < u /\ NoneMatches(c, v .. u - 1)
  BY DEF Goes
<1>2. v <= u
  BY <1>1
<1>3. u <= m
  BY <1>1, <1>2, NotPast
<1>4. t < u
  BY <1>1
<1>5. PICK r : r = again[time_to_tm(u)]
  OBVIOUS
<1>6. ~HasFailed(r)
  BY <1>3, <1>4, <1>5 DEF AgainFinds
<1>7. Again(step, again) = r
  BY <1>1, <1>5, Steps
<1>. QED
  BY <1>1, <1>3, <1>6, <1>7

\* So the month ends a call with what it found,
LEMMA FindsMonth ==
    ASSUME NEW c \in AllExprs, Plain(c), NEW dot \in Nat, NEW again, NEW t \in Nat, NEW m \in Nat,
           t <= m, Matches(c, m), YearOf(m) - dot <= MaxYearsDiff, AgainFinds(t, m, again),
           NEW past, NEW mk, Reached(c, t, past, mk, MonthMarks)
    PROVE  ~HasFailed(FindMonth(c, past, mk, dot, again))
<1>. DEFINE month == FindField(c.months, past.date, "mon", "year", mk)
           r == FindMonth(c, past, mk, dot, again)
<1>1. PICK v \in Nat : /\ past = Found(time_to_tm(v)) /\ t <= v /\ NoneMatches(c, t .. v - 1)
                       /\ Matches(c, v) \/ (Ready(c, v, mk) /\ mk \in MonthMarks)
  BY DEF Reached
<1>2. past.date = time_to_tm(v) /\ past.ok = TRUE
  BY <1>1 DEF Found
<1>3. v <= m
  BY <1>1, NotPast
<1>4. CASE AbsMonth(v) % Months \in c.months
  <2>1. month = Stays(time_to_tm(v))
    BY <1>2, <1>4, FieldStays
  <2>2. Again(month, again) = Found(time_to_tm(v))
    BY <2>1, Steps
  <2>3. month.same = TRUE
    BY <2>1 DEF Stays
  <2>4. r = Found(time_to_tm(v))
    BY <1>2, <2>2, <2>3 DEF FindMonth
  <2>. QED
    BY <2>4, FoundIsNoFailure
<1>5. CASE AbsMonth(v) % Months \notin c.months
  <2>1. Ready(c, v, mk) /\ mk \in MonthMarks
    BY <1>1, <1>5, MatchesFacts
  <2>2. Settled(c, v, mk) /\ DayFits(c, AbsDay(v))
    BY <2>1 DEF Ready, MonthMarks
  <2>3. Goes(c, v, month)
    BY <1>2, <1>5, <2>1, <2>2, MonthGoes DEF MonthMarks
  <2>4. PICK found : found = Again(month, again)
    OBVIOUS
  <2>5. ~HasFailed(found) /\ \E u \in Nat : month = Moves(time_to_tm(u)) /\ u <= m
    <3>. HIDE DEF month
    <3>. QED
      BY <1>1, <1>3, <2>3, <2>4, StepFinds
  <2>6. PICK u \in Nat : month = Moves(time_to_tm(u)) /\ u <= m
    BY <2>5
  <2>7. month.same = FALSE /\ month.date.year = YearOf(u)
    BY <2>6, DateFacts DEF Moves, YearOf
  <2>8. YearOf(u) <= YearOf(m) /\ YearOf(u) \in Nat /\ YearOf(m) \in Nat
    BY <2>6, AbsMonotone, AbsFacts, CalendarFacts, DivMonotone DEF YearOf
  <2>9. ~(month.date.year - dot > MaxYearsDiff)
    <3>1. MaxYearsDiff \in Nat
      BY CalendarAssumption
    <3>2. PICK y \in Nat, z \in Nat : y = YearOf(u) /\ z = YearOf(m) /\ y <= z
      BY <2>8
    <3>3. ~(y - dot > MaxYearsDiff)
      BY <3>1, <3>2
    <3>. QED
      BY <2>7, <3>2, <3>3
  <2>10. r = found
    BY <1>2, <2>4, <2>7, <2>9 DEF FindMonth
  <2>. QED
    BY <2>5, <2>10
<1>. QED
  BY <1>4, <1>5

\* after the day,
LEMMA FindsDay ==
    ASSUME NEW c \in AllExprs, Plain(c), NEW dot \in Nat, NEW again, AgainGood(c, again),
           NEW t \in Nat, NEW m \in Nat, t <= m, Matches(c, m), YearOf(m) - dot <= MaxYearsDiff,
           AgainFinds(t, m, again), NEW past, NEW mk, Reached(c, t, past, mk, DayMarks)
    PROVE  ~HasFailed(FindDay(c, past, mk, dot, again))
<1>. DEFINE day == find_next_day(c, past.date, mk)
<1>1. PICK v \in Nat : /\ past = Found(time_to_tm(v)) /\ t <= v /\ NoneMatches(c, t .. v - 1)
                       /\ Matches(c, v) \/ (Ready(c, v, mk) /\ mk \in DayMarks)
  BY DEF Reached
<1>2. past.date = time_to_tm(v) /\ past.ok = TRUE
  BY <1>1 DEF Found
<1>3. v <= m
  BY <1>1, NotPast
<1>4. PICK mark : mark = Mark(mk, day, "mday")
  OBVIOUS
<1>5. PICK found : found = Again(day, again)
  OBVIOUS
<1>6. FindDay(c, past, mk, dot, again) = FindMonth(c, found, mark, dot, again)
  BY <1>2, <1>4, <1>5 DEF FindDay
<1>7. CASE DayFits(c, AbsDay(v))
  <2>1. day = Stays(time_to_tm(v))
    BY <1>2, <1>7, FindDayStays
  <2>2. mark = mk \cup {"mday"}
    <3>1. Mark(mk, Stays(time_to_tm(v)), "mday") = mk \cup {"mday"}
      BY ONLY ZenonT(60), Steps
    <3>. QED
      BY <1>4, <2>1, <3>1
  <2>3. Ready(c, v, mk) /\ mk \in DayMarks => Ready(c, v, mark) /\ mark \in MonthMarks
    BY <1>7, <2>2 DEF Ready, Settled, DayMarks, MonthMarks
  <2>4. found = Found(time_to_tm(v))
    BY <1>5, <2>1, Steps
  <2>5. Reached(c, t, found, mark, MonthMarks)
    BY <1>1, <2>3, <2>4 DEF Reached
  <2>. QED
    BY <1>6, <2>5, FindsMonth
<1>8. CASE ~(DayFits(c, AbsDay(v)))
  <2>1. Ready(c, v, mk) /\ mk \in DayMarks
    BY <1>1, <1>8, MatchesFacts
  <2>2. Settled(c, v, mk)
    BY <2>1 DEF Ready
  <2>3. Goes(c, v, day)
    BY <1>2, <1>8, <2>1, <2>2, DayGoes DEF DayMarks
  <2>. HIDE DEF day
  <2>4. ~HasFailed(found)
    BY <1>1, <1>3, <1>5, <2>3, StepFinds
  <2>5. Past(c, t, found, mark, MonthMarks)
    BY <1>1, <1>5, <2>3, PastAgain
  <2>6. Reached(c, t, found, mark, MonthMarks)
    BY <2>4, <2>5 DEF Past, Reached
  <2>. QED
    BY <1>6, <2>6, FindsMonth
<1>. QED
  BY <1>7, <1>8

\* after the hour,
LEMMA FindsHour ==
    ASSUME NEW c \in AllExprs, Plain(c), NEW dot \in Nat, NEW again, AgainGood(c, again),
           NEW t \in Nat, NEW m \in Nat, t <= m, Matches(c, m), YearOf(m) - dot <= MaxYearsDiff,
           AgainFinds(t, m, again), NEW past, NEW mk, Reached(c, t, past, mk, HourMarks)
    PROVE  ~HasFailed(FindHour(c, past, mk, dot, again))
<1>. DEFINE hour == FindField(c.hours, past.date, "hour", "mday", mk)
<1>1. PICK v \in Nat : /\ past = Found(time_to_tm(v)) /\ t <= v /\ NoneMatches(c, t .. v - 1)
                       /\ Matches(c, v) \/ (Ready(c, v, mk) /\ mk \in HourMarks)
  BY DEF Reached
<1>2. past.date = time_to_tm(v) /\ past.ok = TRUE
  BY <1>1 DEF Found
<1>3. v <= m
  BY <1>1, NotPast
<1>4. PICK mark : mark = Mark(mk, hour, "hour")
  OBVIOUS
<1>5. PICK found : found = Again(hour, again)
  OBVIOUS
<1>6. FindHour(c, past, mk, dot, again) = FindDay(c, found, mark, dot, again)
  BY <1>2, <1>4, <1>5 DEF FindHour
<1>7. CASE AbsHour(v) % Hours \in c.hours
  <2>1. hour = Stays(time_to_tm(v))
    BY <1>2, <1>7, FieldStays
  <2>2. mark = mk \cup {"hour"}
    <3>1. Mark(mk, Stays(time_to_tm(v)), "hour") = mk \cup {"hour"}
      BY ONLY ZenonT(60), Steps
    <3>. QED
      BY <1>4, <2>1, <3>1
  <2>3. Ready(c, v, mk) /\ mk \in HourMarks => Ready(c, v, mark) /\ mark \in DayMarks
    BY <1>7, <2>2 DEF Ready, Settled, HourMarks, DayMarks
  <2>4. found = Found(time_to_tm(v))
    BY <1>5, <2>1, Steps
  <2>5. Reached(c, t, found, mark, DayMarks)
    BY <1>1, <2>3, <2>4 DEF Reached
  <2>. QED
    BY <1>6, <2>5, FindsDay
<1>8. CASE ~(AbsHour(v) % Hours \in c.hours)
  <2>1. Ready(c, v, mk) /\ mk \in HourMarks
    BY <1>1, <1>8, MatchesFacts
  <2>2. Settled(c, v, mk)
    BY <2>1 DEF Ready
  <2>3. Goes(c, v, hour)
    BY <1>2, <1>8, <2>1, <2>2, HourGoes DEF HourMarks
  <2>. HIDE DEF hour
  <2>4. ~HasFailed(found)
    BY <1>1, <1>3, <1>5, <2>3, StepFinds
  <2>5. Past(c, t, found, mark, DayMarks)
    BY <1>1, <1>5, <2>3, PastAgain
  <2>6. Reached(c, t, found, mark, DayMarks)
    BY <2>4, <2>5 DEF Past, Reached
  <2>. QED
    BY <1>6, <2>6, FindsDay
<1>. QED
  BY <1>7, <1>8

\* after the minute and the second.
LEMMA FindsSearch ==
    ASSUME NEW c \in AllExprs, Plain(c), NEW dot \in Nat, NEW again, AgainGood(c, again),
           NEW t \in Nat, NEW m \in Nat, t <= m, Matches(c, m), YearOf(m) - dot <= MaxYearsDiff,
           AgainFinds(t, m, again)
    PROVE  ~HasFailed(Search(c, time_to_tm(t), dot, again))
<1>. DEFINE sec == FindField(c.seconds, time_to_tm(t), "sec", "min", {})
<1>1. PICK mk : mk = Mark({}, sec, "sec")
  OBVIOUS
<1>2. PICK v \in Nat : /\ sec.date = time_to_tm(v) /\ t <= v /\ NoneMatches(c, t .. v - 1)
                       /\ Ready(c, v, mk) /\ mk \in MinMarks
  BY <1>1, SecondReady
<1>3. v <= m
  BY <1>2, NotPast
<1>. DEFINE min == FindField(c.minutes, time_to_tm(v), "min", "hour", mk)
<1>4. PICK mark : mark = Mark(mk, min, "min")
  OBVIOUS
<1>5. PICK found : found = Again(min, again)
  OBVIOUS
<1>6. Search(c, time_to_tm(t), dot, again) = FindHour(c, found, mark, dot, again)
  BY <1>1, <1>2, <1>4, <1>5 DEF Search, FindMinute
<1>7. CASE AbsMin(v) % Minutes \in c.minutes
  <2>1. min = Stays(time_to_tm(v))
    BY <1>7, FieldStays
  <2>2. mark = mk \cup {"min"}
    <3>1. Mark(mk, Stays(time_to_tm(v)), "min") = mk \cup {"min"}
      BY ONLY ZenonT(60), Steps
    <3>. QED
      BY <1>4, <2>1, <3>1
  <2>3. Ready(c, v, mark) /\ mark \in HourMarks
    BY <1>2, <1>7, <2>2 DEF Ready, Settled, MinMarks, HourMarks
  <2>4. found = Found(time_to_tm(v))
    BY <1>5, <2>1, Steps
  <2>5. Reached(c, t, found, mark, HourMarks)
    BY <1>2, <2>3, <2>4 DEF Reached
  <2>. QED
    BY <1>6, <2>5, FindsHour
<1>8. CASE AbsMin(v) % Minutes \notin c.minutes
  <2>1. Settled(c, v, mk)
    BY <1>2 DEF Ready
  <2>2. Goes(c, v, min)
    BY <1>2, <1>8, <2>1, MinuteGoes DEF MinMarks
  <2>. HIDE DEF min
  <2>3. ~HasFailed(found)
    BY <1>2, <1>3, <1>5, <2>2, StepFinds
  <2>4. Past(c, t, found, mark, HourMarks)
    BY <1>2, <1>5, <2>2, PastAgain
  <2>5. Reached(c, t, found, mark, HourMarks)
    BY <2>3, <2>4 DEF Past, Reached
  <2>. QED
    BY <1>6, <2>5, FindsHour
<1>. QED
  BY <1>7, <1>8

\* By SetInduction, over the seconds until m.
LEMMA FindNextFinds ==
    ASSUME NEW c \in AllExprs, Plain(c), NEW dot \in Nat, NEW t \in Nat, NEW m \in Nat,
           t <= m, Matches(c, m), YearOf(m) - dot <= MaxYearsDiff, m - t < MaxCalls
    PROVE  ~HasFailed(find_next(c, time_to_tm(t), dot))
<1>0. PICK within : CallsWithin(c, dot, within)
  BY FindNextWithin
<1>1. /\ \A start : find_next(c, start, dot) = within[MaxCalls][start]
      /\ \A d \in Date : within[0][d] = Failed(d)
      /\ \A n \in Nat, d \in Date : within[n + 1][d] = Search(c, d, dot, within[n])
  BY <1>0 DEF CallsWithin
<1>2. \A n \in Nat : AgainGood(c, within[n])
  BY <1>1, WithinGood
<1>. DEFINE G == {n \in Nat : \A u \in Nat :
                     u <= m /\ m - u < n => ~HasFailed(within[n][time_to_tm(u)])}
<1>3. 0 \in G
  OBVIOUS
<1>4. ASSUME NEW n \in Nat, n \in G
      PROVE  n + 1 \in G
  <2>1. ASSUME NEW u \in Nat, u <= m, m - u < n + 1
        PROVE  ~HasFailed(within[n + 1][time_to_tm(u)])
    <3>1. PICK again : again = within[n]
      OBVIOUS
    <3>2. AgainGood(c, again)
      BY <1>2, <3>1
    <3>3. ASSUME NEW w \in Nat, u < w, w <= m
          PROVE  ~HasFailed(again[time_to_tm(w)])
      <4>1. m - w < n
        BY <2>1, <3>3
      <4>. QED
        BY <1>4, <3>1, <3>3, <4>1
    <3>4. AgainFinds(u, m, again)
      BY <3>3 DEF AgainFinds
    <3>5. within[n + 1][time_to_tm(u)] = Search(c, time_to_tm(u), dot, again)
      BY <1>1, <3>1, DateFacts
    <3>. QED
      BY <2>1, <3>2, <3>4, <3>5, FindsSearch
  <2>. QED
    BY <2>1
<1>5. \A n \in Nat : n \in G
  <2>. HIDE DEF G
  <2>. QED
    BY <1>3, <1>4, SetInduction
<1>6. MaxCalls \in Nat
  BY CalendarAssumption
<1>7. ~HasFailed(within[MaxCalls][time_to_tm(t)])
  BY <1>5, <1>6
<1>. QED
  BY <1>1, <1>7

-----------------------------------------------------------------------------
(***************************************************************************)
(* A plain expression matches some time of the year after.                 *)
(***************************************************************************)
TwoYears == 2 * Months * LongestMonth * Hours * Minutes * Seconds

\* So many months are no longer than as many of the longest.
LEMMA DaysBeforeAdds ==
    ASSUME NEW i \in Nat, NEW n \in Nat
    PROVE  DaysBefore[i + n] <= DaysBefore[i] + n * LongestMonth
<1>. DEFINE G == {k \in Nat : DaysBefore[i + k] <= DaysBefore[i] + k * LongestMonth}
<1>1. 0 \in G
  <2>1. DaysBefore[i] \in Nat /\ i + 0 = i /\ 0 * LongestMonth = 0
    BY DaysBeforeFacts, CalendarFacts
  <2>. QED
    BY <2>1
<1>2. ASSUME NEW k \in Nat, k \in G
      PROVE  k + 1 \in G
  <2>1. DaysBefore[i + (k + 1)] = DaysBefore[i + k] + MonthLength(i + k)
    <3>1. i + (k + 1) = (i + k) + 1 /\ i + k \in Nat
      OBVIOUS
    <3>. QED
      BY <3>1, DaysBeforeFacts
  <2>2. MonthLength(i + k) \in Nat /\ MonthLength(i + k) <= LongestMonth
    BY MonthLengthFacts, CalendarFacts
  <2>3. PICK p \in Nat : p = k * LongestMonth /\ p + LongestMonth = (k + 1) * LongestMonth
    BY CalendarFacts
  <2>4. DaysBefore[i + k] \in Nat /\ DaysBefore[i] \in Nat
    BY DaysBeforeFacts
  <2>5. DaysBefore[i + k] <= DaysBefore[i] + p
    BY <1>2, <2>3
  <2>6. DaysBefore[i + (k + 1)] <= DaysBefore[i] + (p + LongestMonth)
    BY <2>1, <2>2, <2>4, <2>5, CalendarFacts
  <2>. QED
    BY <2>3, <2>6
<1>3. \A k \in Nat : k \in G
  <2>. HIDE DEF G
  <2>. QED
    BY <1>1, <1>2, SetInduction
<1>. QED
  BY <1>3

\* Turns that are less than n apart.
LEMMA DivApart ==
    ASSUME NEW S \in Nat \ {0}, NEW u \in Nat, NEW v \in Nat, NEW n \in Nat, u \div S < (v \div S) + n
    PROVE  u < v + n * S
<1>1. PICK a \in Nat, r \in 0 .. S - 1, p \in Nat : a = u \div S /\ p = a * S /\ u = p + r
  BY DivMod
<1>2. PICK b \in Nat, x \in Nat, q \in Nat : b = v \div S /\ q = b * S /\ v = q + x
  BY DivMod
<1>3. b + n \in Nat /\ a < b + n
  BY <1>1, <1>2
<1>4. p + S <= (b + n) * S
  BY <1>1, <1>3, TimesLess
<1>5. PICK z \in Nat : z = n * S /\ (b + n) * S = q + z
  BY <1>2
<1>. QED
  BY <1>1, <1>2, <1>4, <1>5

\* A day of the year after next that matches; months begin with any day of the week.
LEMMA DayAhead ==
    ASSUME NEW c \in AllExprs, Plain(c), NEW y \in Nat
    PROVE  \E q \in Nat, days \in Nat :
              /\ MonthAt(days) = q /\ q \div Months = y /\ q % Months \in c.months
              /\ DayFits(c, days)
<1>1. /\ c.months \in NonEmpty(0 .. Months - 1) /\ c.days_of_month \in NonEmpty(1 .. LongestMonth)
      /\ c.days_of_week \in NonEmpty(0 .. WeekDays - 1)
  BY DEF AllExprs
<1>2. PICK k \in 0 .. Months - 1 : k \in c.months
  BY <1>1 DEF NonEmpty
<1>3. PICK q \in Nat : q = y * Months + k /\ q \div Months = y /\ q % Months = k
  <2>1. y * Months \in Nat
    BY CalendarFacts
  <2>2. k \in Nat
    BY CalendarFacts
  <2>3. (y * Months + k) \div Months = y /\ (y * Months + k) % Months = k
    BY CalendarFacts, DivUnique
  <2>. QED
    BY <2>1, <2>2, <2>3
<1>4. PICK first \in Nat, len \in Nat :
         first = DaysBefore[q] /\ len = MonthLength(q) /\ WeekDays <= len /\ len <= LongestMonth
  <2>1. DaysBefore[q] \in Nat
    BY DaysBeforeFacts
  <2>2. MonthLength(q) \in Nat \ {0} /\ MonthLength(q) \in WeekDays .. LongestMonth
    BY MonthLengthFacts
  <2>. QED
    BY <2>1, <2>2, CalendarFacts
<1>5. ASSUME NEW x \in Nat, x < len
      PROVE  first + x \in Nat /\ MonthAt(first + x) = q /\ DayNumber(first + x) = x + 1
  <2>1. PICK days \in Nat : days = first + x
    OBVIOUS
  <2>2. MonthAt(days) = q
    BY <1>4, <1>5, <2>1, MonthAtUnique
  <2>. QED
    BY <1>4, <2>1, <2>2 DEF DayNumber
<1>6. CASE /\ c.days_of_week = 0 .. WeekDays - 1
           /\ \A d \in c.days_of_month, m \in 1 .. Months : d <= MonthDays[m]
  <2>1. PICK d \in 1 .. LongestMonth : d \in c.days_of_month
    BY <1>1 DEF NonEmpty
  <2>2. d <= len
    <3>1. k + 1 \in 1 .. Months
      BY CalendarFacts
    <3>2. d <= MonthDays[k + 1] /\ MonthDays[k + 1] \in Nat
      BY <1>6, <2>1, <3>1, CalendarFacts
    <3>3. MonthDays[k + 1] <= len
      BY <1>3, <1>4, MonthLengthFacts
    <3>. QED
      BY <1>4, <3>2, <3>3, CalendarFacts
  <2>3. d - 1 \in Nat /\ d - 1 < len /\ (d - 1) + 1 = d
    BY <2>2, CalendarFacts
  <2>4. PICK days \in Nat : MonthAt(days) = q /\ DayNumber(days) = d
    BY <1>5, <2>3
  <2>5. days % WeekDays \in c.days_of_week
    BY <1>6, CalendarFacts, DivMod
  <2>. QED
    BY <1>2, <1>3, <2>1, <2>4, <2>5 DEF DayFits
<1>7. CASE c.days_of_month = 1 .. LongestMonth
  <2>1. PICK w \in 0 .. WeekDays - 1 : w \in c.days_of_week
    BY <1>1 DEF NonEmpty
  <2>2. {w} \in NonEmpty(0 .. WeekDays - 1)
    BY DEF NonEmpty
  <2>3. PICK z \in Nat : z = NextSlot({w}, WeekDays, first)
    BY <2>2, CalendarFacts, NextSlotFacts
  <2>4. z >= first /\ z % WeekDays \in {w} /\ z < first + WeekDays
    BY <2>2, <2>3, CalendarFacts, NextSlotFacts, NextSlotNear
  <2>5. z - first \in Nat /\ z - first < len /\ first + (z - first) = z
    BY <1>4, <2>4, CalendarFacts
  <2>6. MonthAt(z) = q /\ DayNumber(z) = (z - first) + 1
    BY <1>5, <2>5
  <2>7. DayNumber(z) \in c.days_of_month
    <3>1. PICK x \in Nat : x = z - first /\ x + 1 <= LongestMonth
      BY <1>4, <2>5, CalendarFacts
    <3>2. x + 1 \in 1 .. LongestMonth
      BY <3>1, CalendarFacts
    <3>. QED
      BY <1>7, <2>6, <3>1, <3>2
  <2>. QED
    BY <1>2, <1>3, <2>1, <2>4, <2>6, <2>7 DEF DayFits
<1>. QED
  BY <1>6, <1>7 DEF Plain

\* A match not farther than the end of the year after.
LEMMA MatchAhead ==
    ASSUME NEW c \in AllExprs, Plain(c), NEW t \in Nat
    PROVE  \E m \in Nat : /\ t <= m /\ Matches(c, m)
                          /\ YearOf(m) <= YearOf(t) + 1 /\ m - t < TwoYears
<1>1. PICK a \in Nat, y \in Nat, n \in 0 .. Months - 1, b \in Nat :
         a = AbsMonth(t) /\ y = YearOf(t) /\ b = y * Months /\ a = b + n
  <2>1. /\ AbsMonth(t) \in Nat /\ YearOf(t) \in Nat
        /\ AbsMonth(t) % Months \in 0 .. Months - 1
        /\ AbsMonth(t) = YearOf(t) * Months + (AbsMonth(t) % Months)
    BY AbsFacts DEF YearOf
  <2>2. YearOf(t) * Months \in Nat
    BY <2>1, CalendarFacts
  <2>. QED
    BY <2>1, <2>2
<1>2. PICK q \in Nat, D \in Nat :
         /\ MonthAt(D) = q /\ q \div Months = y + 1 /\ q % Months \in c.months /\ DayFits(c, D)
  <2>1. PICK z \in Nat : z = y + 1
    BY <1>1
  <2>. QED
    BY <2>1, DayAhead
<1>3. PICK s \in 0 .. Seconds - 1, i \in 0 .. Minutes - 1, h \in 0 .. Hours - 1 :
         s \in c.seconds /\ i \in c.minutes /\ h \in c.hours
  BY DEF AllExprs, NonEmpty
<1>4. PICK m \in Nat : /\ m = AtDay(D, h, i, s) /\ AbsDay(m) = D /\ AbsHour(m) % Hours = h
                       /\ AbsMin(m) % Minutes = i /\ m % Seconds = s
  <2>1. /\ AtDay(D, h, i, s) \in Nat /\ AbsDay(AtDay(D, h, i, s)) = D
        /\ AbsHour(AtDay(D, h, i, s)) % Hours = h /\ AbsMin(AtDay(D, h, i, s)) % Minutes = i
        /\ AtDay(D, h, i, s) % Seconds = s
    BY ONLY Z3, AtDayFacts, D \in Nat, h \in 0 .. Hours - 1, i \in 0 .. Minutes - 1,
            s \in 0 .. Seconds - 1
  <2>. QED
    BY <2>1
<1>5. AbsMonth(m) = q /\ YearOf(m) = y + 1
  BY <1>2, <1>4 DEF AbsMonth, YearOf
<1>6. Matches(c, m)
  BY <1>2, <1>3, <1>4, <1>5, MatchesFacts
<1>7. PICK l \in 0 .. Months - 1 : q = (b + Months) + l
  <2>1. q = (y + 1) * Months + (q % Months) /\ q % Months \in 0 .. Months - 1
    BY <1>2, CalendarFacts, DivMod
  <2>2. (y + 1) * Months = b + Months
    BY <1>1, CalendarFacts
  <2>. QED
    BY <2>1, <2>2
<1>8. t <= m
  <2>. SUFFICES ASSUME m <= t PROVE m = t
    OBVIOUS
  <2>1. AbsMonth(m) <= AbsMonth(t)
    BY AbsMonotone
  <2>. QED
    BY <1>1, <1>5, <1>7, <2>1, CalendarFacts
<1>9. D < AbsDay(t) + (2 * Months) * LongestMonth
  <2>1. D < DaysBefore[q + 1]
    BY <1>2, MonthAtFacts, DaysBeforeFacts
  <2>2. ASSUME NEW j \in Nat, NEW k \in Nat, j <= k
        PROVE  DaysBefore[j] <= DaysBefore[k]
    <3>1. DaysBefore[j] \in Nat /\ DaysBefore[k] \in Nat /\ MonthLength(j) \in Nat
      BY DaysBeforeFacts, MonthLengthFacts
    <3>2. j # k => DaysBefore[j] + MonthLength(j) <= DaysBefore[k]
      BY <2>2, DaysBeforeGrows
    <3>. QED
      BY <3>1, <3>2
  <2>3. q + 1 <= b + 2 * Months /\ q + 1 \in Nat /\ b + 2 * Months \in Nat
    BY <1>7, CalendarFacts
  <2>4. DaysBefore[q + 1] <= DaysBefore[b + 2 * Months]
    BY <2>2, <2>3
  <2>5. DaysBefore[b + 2 * Months] <= DaysBefore[b] + (2 * Months) * LongestMonth
    BY CalendarFacts, DaysBeforeAdds
  <2>6. DaysBefore[b] <= DaysBefore[a]
    BY <1>1, <2>2, CalendarFacts
  <2>7. DaysBefore[a] <= AbsDay(t)
    BY <1>1, AbsFacts, MonthAtFacts DEF AbsMonth
  <2>8. PICK e1 \in Nat, e2 \in Nat, e3 \in Nat, e4 \in Nat, g \in Nat, p \in Nat :
           /\ e1 = DaysBefore[q + 1] /\ e2 = DaysBefore[b + 2 * Months] /\ e3 = DaysBefore[b]
           /\ e4 = DaysBefore[a] /\ g = AbsDay(t) /\ p = (2 * Months) * LongestMonth
    <3>1. (2 * Months) * LongestMonth \in Nat
      BY CalendarFacts
    <3>. QED
      BY <2>3, <3>1, DaysBeforeFacts, AbsFacts
  <2>. QED
    BY ONLY <2>1, <2>4, <2>5, <2>6, <2>7, <2>8, D \in Nat
<1>10. m < t + TwoYears
  <2>1. PICK p \in Nat : p = (2 * Months) * LongestMonth
    BY CalendarFacts
  <2>2. PICK ph \in Nat, pm \in Nat, ps \in Nat : ph = p * Hours /\ pm = ph * Minutes /\ ps = pm * Seconds
    BY CalendarFacts
  <2>3. /\ AbsHour(m) \in Nat /\ AbsHour(t) \in Nat /\ AbsMin(m) \in Nat /\ AbsMin(t) \in Nat
        /\ AbsDay(m) = AbsHour(m) \div Hours /\ AbsDay(t) = AbsHour(t) \div Hours
    BY AbsFacts DEF AbsDay
  <2>4. AbsHour(m) \div Hours < (AbsHour(t) \div Hours) + p
    BY <1>4, <1>9, <2>1, <2>3
  <2>5. AbsHour(m) < AbsHour(t) + ph
    BY <2>2, <2>3, <2>4, CalendarFacts, DivApart
  <2>6. AbsMin(m) \div Minutes < (AbsMin(t) \div Minutes) + ph
    BY <2>5 DEF AbsHour
  <2>7. AbsMin(m) < AbsMin(t) + pm
    BY <2>2, <2>3, <2>6, CalendarFacts, DivApart
  <2>8. m \div Seconds < (t \div Seconds) + pm
    BY <2>7 DEF AbsMin
  <2>9. m < t + ps
    BY <2>2, <2>8, CalendarFacts, DivApart
  <2>10. TwoYears = ps
    BY <2>1, <2>2 DEF TwoYears
  <2>. QED
    BY <2>9, <2>10
<1>11. m - t < TwoYears
  <2>1. TwoYears \in Nat
    BY CalendarFacts DEF TwoYears
  <2>. QED
    BY <1>10, <2>1
<1>. QED
  BY <1>1, <1>5, <1>6, <1>8, <1>11

\* A search from any time answers, with calls enough for the two years.
LEMMA AnswerFromFinds ==
    ASSUME NEW c \in AllExprs, Plain(c), NEW t \in Nat, 1 <= MaxYearsDiff, TwoYears <= MaxCalls
    PROVE  AnswerFrom(c, time_to_tm(t)) # INVALID
<1>1. PICK y \in Nat : y = YearOf(t)
  BY AbsFacts DEF YearOf
<1>2. PICK from : from = time_to_tm(t) /\ from.year = y
  <2>1. time_to_tm(t).year = AbsMonth(t) \div Months
    BY DateFacts
  <2>. QED
    BY <1>1, <2>1 DEF YearOf
<1>3. PICK found : found = find_next(c, from, y)
  OBVIOUS
<1>4. ~HasFailed(found)
  <2>1. PICK m \in Nat : t <= m /\ Matches(c, m) /\ YearOf(m) <= y + 1 /\ m - t < TwoYears
    BY <1>1, MatchAhead
  <2>2. YearOf(m) - y <= MaxYearsDiff /\ m - t < MaxCalls
    <3>1. YearOf(m) \in Nat
      BY AbsFacts DEF YearOf
    <3>2. TwoYears \in Nat
      BY CalendarFacts DEF TwoYears
    <3>3. MaxYearsDiff \in Nat /\ MaxCalls \in Nat
      BY CalendarAssumption
    <3>. QED
      BY <1>1, <2>1, <3>1, <3>2, <3>3
  <2>. QED
    BY <1>2, <1>3, <2>1, <2>2, FindNextFinds
<1>5. PICK u \in Nat : found = Found(time_to_tm(u))
  BY <1>2, <1>3, <1>4, FindNextGood DEF Good
<1>6. AnswerFrom(c, time_to_tm(t)) = u
  BY <1>2, <1>3, <1>5, RoundTrip DEF AnswerFrom, Answer, Found
<1>. QED
  BY <1>6 DEF INVALID

\* Both of cron_next's searches answer.
LEMMA CronNextFinds ==
    ASSUME NEW c \in AllExprs, Plain(c), NEW t \in Nat, 1 <= MaxYearsDiff, TwoYears <= MaxCalls
    PROVE  cron_next(c, t) # INVALID
<1>1. PICK once : once = AnswerFrom(c, time_to_tm(t)) /\ once # INVALID
  BY AnswerFromFinds
<1>2. CASE once = t
  <2>1. PICK e \in Nat : e = t + 1
    OBVIOUS
  <2>2. add_to_field(time_to_tm(once), "sec", 1) = time_to_tm(e)
    BY <1>2, <2>1, SecOps
  <2>3. cron_next(c, t) = AnswerFrom(c, time_to_tm(e))
    BY <1>1, <1>2, <2>2 DEF cron_next
  <2>. QED
    BY <2>3, AnswerFromFinds
<1>3. CASE once # t
  BY <1>1, <1>3 DEF cron_next
<1>. QED
  BY <1>2, <1>3

-----------------------------------------------------------------------------
(***************************************************************************)
(* Answers.                                                                *)
(***************************************************************************)
AskInv ==
    /\ cex \in Exprs /\ date \in Times
    /\ next = Unasked \/ next = cron_next(cex, date)

\* A call has not been made, or has the answer of cron_next.
LEMMA AskInvHolds == AskSpec => []AskInv
<1>1. AskInit => AskInv
  BY DEF AskInit, AskInv
<1>2. AskInv /\ [Ask]_asked => AskInv'
  BY DEF AskInv, Ask, asked
<1>. QED
  BY <1>1, <1>2, PTL DEF AskSpec

\* That answer is what the properties ask for.
LEMMA AskInvCorrect ==
    AskInv => PlainNextMatches /\ PlainNextIsEarliest
<1>. SUFFICES ASSUME AskInv, Plain(cex), Answered
              PROVE  NextMatches /\ NextIsEarliest
  BY DEF PlainNextMatches, PlainNextIsEarliest, NextMatches, NextIsEarliest
<1>1. PICK c \in AllExprs, t \in Nat : c = cex /\ t = date
  BY AskedAssumption DEF AskInv
<1>2. next = cron_next(c, t) /\ next # INVALID
  BY <1>1 DEF AskInv, Answered
<1>3. next > t /\ Matches(c, next) /\ NoneMatches(c, t + 1 .. next - 1)
  <2>1. PICK r : r = cron_next(c, t)
    OBVIOUS
  <2>2. r \in Nat /\ t < r /\ Matches(c, r) /\ NoneMatches(c, t + 1 .. r - 1)
    BY <1>1, <1>2, <2>1, CronNextCorrect
  <2>. QED
    BY <1>2, <2>1, <2>2
<1>. QED
  BY <1>1, <1>3 DEF NextMatches, NextIsEarliest

\* On every calendar, the answer to a plain expression is a later time that
\* matches it (cron_next, find_next and mktime under them).
THEOREM PlainMatches == AskSpec => []PlainNextMatches
  BY AskInvHolds, AskInvCorrect, PTL

\* On every calendar, cron_next passes over no time that matches a plain
\* expression.
THEOREM PlainIsEarliest == AskSpec => []PlainNextIsEarliest
  BY AskInvHolds, AskInvCorrect, PTL

\* A plain expression is answered: some time of the year after matches, and
\* croncpp allows four years.  MaxCalls is a bound of the model, not of the
\* code; the second hypothesis says that it is out of the way.
THEOREM PlainAnswered ==
    ASSUME 1 <= MaxYearsDiff, TwoYears <= MaxCalls
    PROVE  AskSpec => []PlainIsAnswered
<1>1. AskInv => PlainIsAnswered
  <2>. SUFFICES ASSUME AskInv, Plain(cex) PROVE next # INVALID
    BY DEF PlainIsAnswered
  <2>1. PICK c \in AllExprs, t \in Nat : c = cex /\ t = date
    BY AskedAssumption DEF AskInv
  <2>2. cron_next(c, t) # INVALID
    BY <2>1, CronNextFinds
  <2>. QED
    BY <2>1, <2>2 DEF AskInv, Unasked, INVALID
<1>. QED
  BY <1>1, AskInvHolds, PTL

-----------------------------------------------------------------------------
(***************************************************************************)
(* Creation: the fields that are accepted name sets cron_next can search.  *)
(***************************************************************************)
\* The range of a part that is accepted lies in that of its field.
LEMMA RangeFacts ==
    ASSUME NEW lo \in Nat, NEW hi \in Nat, lo <= hi, NEW part \in Parts, PartOk(part, lo, hi)
    PROVE  \E first, last \in lo .. hi : \E ok :
               /\ first <= last
               /\ RangeOf(part, lo, hi) = [ok |-> ok, first |-> first, last |-> last]
<1>1. CASE part.last = None /\ part.first = Star
  <2>1. RangeOf(part, lo, hi) = [ok |-> TRUE, first |-> lo, last |-> hi]
    BY <1>1, Zenon DEF RangeOf
  <2>2. lo \in lo .. hi /\ hi \in lo .. hi
    OBVIOUS
  <2>. QED
    BY <2>1, <2>2, Zenon
<1>2. CASE ~(part.last = None /\ part.first = Star)
  <2>1. PICK first : first = to_cron_int(part.first)
    OBVIOUS
  <2>2. PICK last : last = IF part.last = None THEN first ELSE to_cron_int(part.last)
    OBVIOUS
  <2>3. PICK fits : fits = ({first, last} \subseteq lo .. hi /\ first <= last)
    OBVIOUS
  <2>4. PICK readable : readable = (Readable(part.first) /\ (part.last # None => Readable(part.last)))
    OBVIOUS
  <2>5. RangeOf(part, lo, hi) = [ok |-> readable /\ fits, first |-> first, last |-> last]
    BY <1>2, <2>1, <2>2, <2>3, <2>4, Zenon DEF RangeOf
  <2>6. RangeOf(part, lo, hi).ok
    BY Zenon DEF PartOk
  <2>7. RangeOf(part, lo, hi).ok = (readable /\ fits)
    BY <2>5
  <2>8. fits
    BY ONLY <2>6, <2>7, Zenon
  <2>9. first \in lo .. hi /\ last \in lo .. hi /\ first <= last
    BY ONLY <2>3, <2>8
  <2>. QED
    BY <2>5, <2>9
<1>. QED
  BY <1>1, <1>2

\* The values of a loop over a cron_int, from first to last.
Loop(lo, first, last, step) ==
    {lo + ((first - lo + n * step) % CronIntSize) :
        n \in {n \in 0 .. CronIntSize - 1 :
                  \A k \in 0 .. n : (first - lo + k * step) % CronIntSize <= last - lo}}

\* So does the range its increment runs over.
LEMMA LoopFacts ==
    ASSUME NEW lo \in Nat, NEW hi \in Nat, lo <= hi, NEW part \in Parts, PartOk(part, lo, hi)
    PROVE  \E first, last \in lo .. hi, step \in Nat \ {0} : \E ok, end :
               /\ first <= last
               /\ RangeOf(part, lo, hi) = [ok |-> ok, first |-> first, last |-> end]
               /\ last = IF part.step # None /\ part.last = None THEN hi ELSE end
               /\ step = IF part.step = None THEN 1 ELSE to_cron_int(part.step)
               /\ PartValues(part, lo, hi) = Loop(lo, first, last, step)
<1>1. PICK first \in lo .. hi, end \in lo .. hi : \E ok :
         first <= end /\ RangeOf(part, lo, hi) = [ok |-> ok, first |-> first, last |-> end]
  BY RangeFacts
<1>2. PICK ok : RangeOf(part, lo, hi) = [ok |-> ok, first |-> first, last |-> end]
  BY <1>1
<1>3. PICK last : last = IF part.step # None /\ part.last = None THEN hi ELSE end
  OBVIOUS
<1>4. PICK step : step = IF part.step = None THEN 1 ELSE to_cron_int(part.step)
  OBVIOUS
<1>5. last \in lo .. hi /\ first <= last
  BY <1>1, <1>3
<1>6. step \in Nat \ {0}
  <2>1. CASE part.step = None
    BY <1>4, <2>1
  <2>2. CASE part.step # None
    <3>1. part.step \in Int /\ CronIntSize \in Nat \ {0}
      BY CronIntAssumption DEF Parts
    <3>2. to_cron_int(part.step) \in Nat
      BY <3>1 DEF to_cron_int
    <3>3. to_cron_int(part.step) > 0
      BY <2>2, Zenon DEF PartOk
    <3>. QED
      BY <1>4, <2>2, <3>2, <3>3
  <2>. QED
    BY <2>1, <2>2
<1>7. /\ RangeOf(part, lo, hi).first = first
      /\ RangeOf(part, lo, hi).last = end
  BY <1>2
<1>8. PartValues(part, lo, hi) = Loop(lo, first, last, step)
  BY <1>3, <1>4, <1>7, Zenon DEF PartValues, Loop
<1>. QED
  BY ONLY <1>1, <1>2, <1>3, <1>4, <1>5, <1>6, <1>8, Zenon

\* A part that is accepted has values, all in their range, its increment may
\* wrap as it likes:
LEMMA PartValuesType ==
    ASSUME NEW lo \in Nat, NEW hi \in Nat, lo <= hi, hi < CronIntSize,
           NEW part \in Parts, PartOk(part, lo, hi)
    PROVE  PartValues(part, lo, hi) \subseteq lo .. hi /\ PartValues(part, lo, hi) # {}
<1>1. PICK first \in lo .. hi, last \in lo .. hi, step \in Nat \ {0} :
         first <= last /\ PartValues(part, lo, hi) = Loop(lo, first, last, step)
  <2>1. \E first, last \in lo .. hi, step \in Nat \ {0} : \E ok, end :
            /\ first <= last
            /\ RangeOf(part, lo, hi) = [ok |-> ok, first |-> first, last |-> end]
            /\ last = IF part.step # None /\ part.last = None THEN hi ELSE end
            /\ step = IF part.step = None THEN 1 ELSE to_cron_int(part.step)
            /\ PartValues(part, lo, hi) = Loop(lo, first, last, step)
    BY LoopFacts, Zenon
  <2>. QED
    BY ONLY <2>1, Zenon
<1>2. CronIntSize \in Nat \ {0}
  BY CronIntAssumption
<1>. DEFINE i(n) == (first - lo + n * step) % CronIntSize
            turns == {n \in 0 .. CronIntSize - 1 : \A k \in 0 .. n : i(k) <= last - lo}
<1>3. PartValues(part, lo, hi) = {lo + i(n) : n \in turns}
  BY <1>1, Zenon DEF Loop
<1>4. \A n \in turns : i(n) \in Nat /\ i(n) <= last - lo
  <2>1. ASSUME NEW n \in Nat
        PROVE  i(n) \in Nat
    <3>1. PICK m \in Nat : m = n * step
      BY <1>1
    <3>2. first - lo + m \in Nat
      BY <1>1
    <3>. QED
      BY <1>2, <3>1, <3>2
  <2>2. \A n \in turns : n \in Nat /\ n \in 0 .. n
    BY <1>2
  <2>. HIDE DEF i
  <2>. QED
    BY <2>1, <2>2
<1>5. 0 \in turns
  <2>1. i(0) = first - lo
    <3>1. 0 * step = 0
      BY <1>1
    <3>2. first - lo \in 0 .. CronIntSize - 1
      BY <1>1, <1>2
    <3>. QED
      BY <1>2, <3>1, <3>2
  <2>. HIDE DEF i
  <2>2. \A k \in 0 .. 0 : k = 0
    OBVIOUS
  <2>. QED
    BY <1>1, <1>2, <2>1, <2>2
<1>. HIDE DEF i, turns
<1>6. \A n \in turns : lo + i(n) \in lo .. hi
  BY <1>1, <1>4
<1>. QED
  BY <1>3, <1>5, <1>6

\* A loop that does not wrap sets every step-th value from first to last.
LEMMA LoopMeant ==
    ASSUME NEW lo \in Nat, NEW first \in Nat, NEW last \in Nat, NEW step \in Nat \ {0},
           lo <= first, first <= last, CronIntSize \in Nat \ {0}, last + step < CronIntSize
    PROVE  Loop(lo, first, last, step) = {v \in first .. last : (v - first) % step = 0}
<1>. DEFINE i(n) == (first - lo + n * step) % CronIntSize
            turns == {n \in 0 .. CronIntSize - 1 : \A k \in 0 .. n : i(k) <= last - lo}
<1>1. ASSUME NEW n \in Nat, first + n * step < CronIntSize
      PROVE  i(n) = first - lo + n * step
  <2>1. PICK m \in Nat : m = n * step
    OBVIOUS
  <2>2. first - lo + m \in 0 .. CronIntSize - 1
    BY <1>1, <2>1
  <2>. QED
    BY <2>1, <2>2
<1>2. \A n \in Nat : n \in turns => first + n * step <= last
  <2>. DEFINE G == {n \in Nat : n \in turns => first + n * step <= last}
  <2>1. 0 \in G
    OBVIOUS
  <2>2. ASSUME NEW n \in Nat, n \in G
        PROVE  n + 1 \in G
    <3>. SUFFICES ASSUME n + 1 \in turns
                  PROVE  first + (n + 1) * step <= last
      OBVIOUS
    <3>1. n \in turns
      <4>. HIDE DEF i
      <4>. QED
        BY DEF turns
    <3>2. first + n * step <= last
      BY <2>2, <3>1
    <3>3. PICK m \in Nat : m = n * step
      OBVIOUS
    <3>4. (n + 1) * step = m + step
      BY <3>3
    <3>5. first + (n + 1) * step < CronIntSize
      BY <3>2, <3>3, <3>4
    <3>6. n + 1 \in Nat
      OBVIOUS
    <3>7. i(n + 1) = first - lo + (n + 1) * step
      BY <1>1, <3>5, <3>6
    <3>8. i(n + 1) <= last - lo
      <4>1. n + 1 \in 0 .. n + 1
        OBVIOUS
      <4>. HIDE DEF i
      <4>. QED
        BY <4>1
    <3>9. first - lo + (m + step) <= last - lo
      BY <3>4, <3>7, <3>8
    <3>. QED
      BY <3>3, <3>4, <3>9
  <2>3. \A n \in Nat : n \in G
    <3>. HIDE DEF G
    <3>. QED
      BY <2>1, <2>2, SetInduction
  <2>. QED
    BY <2>3
<1>3. Loop(lo, first, last, step) = {lo + i(n) : n \in turns}
  BY Zenon DEF Loop
<1>4. ASSUME NEW n \in turns
      PROVE  lo + i(n) \in {v \in first .. last : (v - first) % step = 0}
  <2>1. n \in Nat
    BY DEF turns
  <2>2. first + n * step <= last
    BY <1>2, <2>1
  <2>3. PICK m \in Nat : m = n * step
    BY <2>1
  <2>4. first + n * step < CronIntSize
    BY <2>2, <2>3
  <2>5. i(n) = first - lo + m
    BY <1>1, <2>1, <2>3, <2>4
  <2>. HIDE DEF i
  <2>6. lo + i(n) = first + m
    BY <2>5
  <2>7. (n * step + 0) % step = 0
    <3>1. 0 \in 0 .. step - 1
      OBVIOUS
    <3>. QED
      BY <2>1, <3>1, DivUnique
  <2>8. m % step = 0
    BY <2>3, <2>7
  <2>9. PICK v \in first .. last : v = first + m
    BY <2>2, <2>3
  <2>10. v - first = m
    BY <2>9
  <2>. QED
    BY <2>6, <2>8, <2>9, <2>10
<1>5. ASSUME NEW v \in first .. last, (v - first) % step = 0
      PROVE  \E n \in turns : v = lo + i(n)
  <2>1. PICK d \in Nat : d = v - first
    OBVIOUS
  <2>2. PICK n \in Nat : d = n * step
    <3>1. d \div step \in Nat /\ d = (d \div step) * step + (d % step)
      BY DivMod
    <3>2. d % step = 0
      BY <1>5, <2>1
    <3>3. PICK n \in Nat : n = d \div step
      BY <3>1
    <3>4. PICK m \in Nat : m = n * step
      BY <3>3
    <3>5. d = m + 0
      BY ONLY <3>1, <3>2, <3>3, <3>4, Zenon
    <3>. QED
      BY ONLY <3>3, <3>4, <3>5, d \in Nat
  <2>3. ASSUME NEW k \in 0 .. n
        PROVE  i(k) = first - lo + k * step /\ k * step <= n * step
    <3>1. k \in Nat /\ n - k \in Nat
      OBVIOUS
    <3>2. PICK j \in Nat : n = k + j
      BY <3>1
    <3>3. n * step = k * step + j * step
      BY <3>1, <3>2
    <3>4. PICK a \in Nat, b \in Nat : a = k * step /\ b = j * step
      BY <3>1
    <3>5. first + k * step < CronIntSize
      BY <2>1, <2>2, <3>3, <3>4
    <3>. QED
      BY <1>1, <3>1, <3>3, <3>4, <3>5
  <2>4. n \in 0 .. CronIntSize - 1
    <3>1. n <= n * step
      <4>1. PICK e \in Nat : step = e + 1
        <5>1. step - 1 \in Nat /\ step = (step - 1) + 1
          OBVIOUS
        <5>. QED
          BY <5>1
      <4>2. n * step = n * e + n
        BY <4>1
      <4>3. PICK a \in Nat : a = n * e
        BY <4>1
      <4>. QED
        BY <4>2, <4>3
    <3>. QED
      BY <2>1, <2>2, <3>1
  <2>5. \A k \in 0 .. n : i(k) <= last - lo
    <3>. SUFFICES ASSUME NEW k \in 0 .. n
                  PROVE  i(k) <= last - lo
      OBVIOUS
    <3>1. i(k) = first - lo + k * step /\ k * step <= d
      BY <2>2, <2>3
    <3>2. PICK a \in Nat : a = k * step
      OBVIOUS
    <3>. HIDE DEF i
    <3>. QED
      BY <2>1, <3>1, <3>2
  <2>6. n \in turns
    BY <2>4, <2>5
  <2>7. i(n) = first - lo + d
    BY <2>2, <2>3
  <2>. HIDE DEF i, turns
  <2>. QED
    BY <2>1, <2>6, <2>7
<1>. DEFINE S == {v \in first .. last : (v - first) % step = 0}
<1>6. \A n \in turns : lo + i(n) \in S
  <2>. HIDE DEF i, turns
  <2>. QED
    BY <1>4
<1>7. \A v \in S : \E n \in turns : v = lo + i(n)
  <2>. HIDE DEF i, turns
  <2>. QED
    BY <1>5
<1>. HIDE DEF i, turns, S
<1>8. Loop(lo, first, last, step) = S
  BY <1>3, <1>6, <1>7
<1>. QED
  BY <1>8 DEF S

\* A cron_int holds every field's numbers,
LEMMA MaximaFacts == \A max \in Maxima : max \in Nat /\ max < CronIntSize
  BY CronIntAssumption

\* and what it holds it does not change.
LEMMA ToCronIntFits ==
    ASSUME NEW n \in Nat, n < CronIntSize
    PROVE  to_cron_int(n) = n
  BY CronIntAssumption DEF to_cron_int

\* A part that is narrow is taken for what it says.
LEMMA PartTaken ==
    ASSUME NEW lo \in Nat, NEW hi \in Maxima, lo <= hi, NEW part \in Parts,
           PartOk(part, lo, hi), Narrow(part)
    PROVE  Meant(part, lo, hi) = PartValues(part, lo, hi)
<1>1. hi \in Nat /\ CronIntSize \in Nat \ {0}
  BY MaximaFacts, CronIntAssumption
<1>2. \E first, last \in lo .. hi, step \in Nat \ {0} : \E ok, end :
          /\ first <= last
          /\ RangeOf(part, lo, hi) = [ok |-> ok, first |-> first, last |-> end]
          /\ last = IF part.step # None /\ part.last = None THEN hi ELSE end
          /\ step = IF part.step = None THEN 1 ELSE to_cron_int(part.step)
          /\ PartValues(part, lo, hi) = Loop(lo, first, last, step)
  BY <1>1, LoopFacts, Zenon
<1>3. PICK first \in lo .. hi, last \in lo .. hi, step \in Nat \ {0} : \E ok, end :
          /\ first <= last
          /\ RangeOf(part, lo, hi) = [ok |-> ok, first |-> first, last |-> end]
          /\ last = IF part.step # None /\ part.last = None THEN hi ELSE end
          /\ step = IF part.step = None THEN 1 ELSE to_cron_int(part.step)
          /\ PartValues(part, lo, hi) = Loop(lo, first, last, step)
  BY ONLY <1>2, Zenon
<1>4. PICK ok, end :
          /\ first <= last
          /\ RangeOf(part, lo, hi) = [ok |-> ok, first |-> first, last |-> end]
          /\ last = IF part.step # None /\ part.last = None THEN hi ELSE end
          /\ step = IF part.step = None THEN 1 ELSE to_cron_int(part.step)
          /\ PartValues(part, lo, hi) = Loop(lo, first, last, step)
  BY ONLY <1>3, Zenon
<1>5. PICK a, b, c : a = part.first /\ b = part.last /\ c = part.step
  OBVIOUS
<1>6. /\ a \in Int /\ b \in Int /\ c \in Int
      /\ a + hi < CronIntSize /\ b + hi < CronIntSize /\ c + hi < CronIntSize
  BY <1>5 DEF Parts, Narrow
<1>7. Star # None
  BY DEF Star, None
<1>8. \A n \in {a, b, c} : Readable(n) => to_cron_int(n) = n
  <2>1. \A n \in {a, b, c} : Readable(n) => n \in Nat /\ n < CronIntSize
    BY <1>1, <1>6 DEF Readable
  <2>. QED
    BY <2>1, ToCronIntFits
<1>9. step = IF c = None THEN 1 ELSE c
  <2>1. c # None => Readable(c)
    BY <1>5, Zenon DEF PartOk
  <2>. QED
    BY <1>4, <1>5, <1>8, <2>1
<1>10. step + hi < CronIntSize
  <2>1. hi + 1 < CronIntSize
    <3>1. 2 * (hi + 1) <= CronIntSize
      BY CronIntAssumption
    <3>. QED
      BY <1>1, <3>1
  <2>. QED
    BY <1>1, <1>6, <1>9, <2>1
<1>11. RangeOf(part, lo, hi).first = first /\ RangeOf(part, lo, hi).last = end
  BY <1>4
<1>12. /\ first = IF a = Star THEN lo ELSE a
       /\ last = CASE b # None -> b
                   [] b = None /\ (a = Star \/ c # None) -> hi
                   [] OTHER -> first
  <2>1. CASE b = None /\ a = Star
    <3>1. RangeOf(part, lo, hi) = [ok |-> TRUE, first |-> lo, last |-> hi]
      BY <1>5, <2>1, Zenon DEF RangeOf
    <3>2. first = lo /\ end = hi
      BY <1>11, <3>1
    <3>. QED
      BY <1>4, <1>5, <2>1, <3>2
  <2>2. CASE ~(b = None /\ a = Star)
    <3>1. PICK f : f = to_cron_int(a)
      OBVIOUS
    <3>2. PICK l : l = IF b = None THEN f ELSE to_cron_int(b)
      OBVIOUS
    <3>3. PICK readable : readable = (Readable(a) /\ (b # None => Readable(b)))
      OBVIOUS
    <3>4. PICK fits : fits = ({f, l} \subseteq lo .. hi /\ f <= l)
      OBVIOUS
    <3>5. RangeOf(part, lo, hi) = [ok |-> readable /\ fits, first |-> f, last |-> l]
      BY <1>5, <2>2, <3>1, <3>2, <3>3, <3>4, Zenon DEF RangeOf
    <3>6. RangeOf(part, lo, hi).ok
      BY Zenon DEF PartOk
    <3>7. RangeOf(part, lo, hi).ok = (readable /\ fits)
      BY <3>5
    <3>8. Readable(a) /\ (b # None => Readable(b))
      BY ONLY <3>3, <3>6, <3>7, Zenon
    <3>9. first = f /\ end = l
      BY <1>11, <3>5
    <3>10. f = a /\ (b # None => l = b) /\ (b = None => l = f)
      BY <1>8, <3>1, <3>2, <3>8, Zenon
    <3>11. a # Star
      BY <3>8 DEF Readable, Star
    <3>. QED
      BY <1>4, <1>5, <2>2, <3>9, <3>10, <3>11
  <2>. QED
    BY <2>1, <2>2
<1>13. Meant(part, lo, hi) = {v \in first .. last : (v - first) % step = 0}
  BY <1>5, <1>9, <1>12, Zenon DEF Meant
<1>14. Loop(lo, first, last, step) = {v \in first .. last : (v - first) % step = 0}
  <2>1. first \in Nat /\ last \in Nat /\ lo <= first /\ first <= last /\ last + step < CronIntSize
    BY <1>1, <1>4, <1>10
  <2>. QED
    BY ONLY <1>1, <2>1, LoopMeant, lo \in Nat, step \in Nat \ {0}, Z3
<1>. QED
  BY <1>4, <1>13, <1>14

\* so is a field of them.
LEMMA FieldTaken ==
    ASSUME NEW lo \in Nat, NEW hi \in Maxima, lo <= hi, NEW field \in Seq(Parts),
           FieldOk(field, lo, hi), \A k \in DOMAIN field : Narrow(field[k])
    PROVE  FieldMeant(field, lo, hi) = FieldValues(field, lo, hi)
<1>1. \A k \in DOMAIN field : field[k] \in Parts /\ PartOk(field[k], lo, hi)
  BY DEF FieldOk
<1>2. \A k \in DOMAIN field : Meant(field[k], lo, hi) = PartValues(field[k], lo, hi)
  BY <1>1, PartTaken
<1>. QED
  BY <1>2, Zenon DEF FieldMeant, FieldValues

\* A field that is accepted has values, in its range,
LEMMA FieldValuesType ==
    ASSUME NEW lo \in Nat, NEW hi \in Maxima, lo <= hi, NEW field \in Seq(Parts),
           FieldOk(field, lo, hi)
    PROVE  FieldValues(field, lo, hi) \in NonEmpty(lo .. hi)
<1>1. \A k \in DOMAIN field : /\ field[k] \in Parts /\ PartOk(field[k], lo, hi)
                              /\ PartValues(field[k], lo, hi) \subseteq lo .. hi
                              /\ PartValues(field[k], lo, hi) # {}
  BY MaximaFacts, PartValuesType DEF FieldOk
<1>2. 1 \in DOMAIN field
  BY DEF FieldOk
<1>. QED
  BY <1>1, <1>2 DEF FieldValues, NonEmpty

\* and an expression that is accepted is one cron_next can search.
LEMMA MakeCronType ==
    ASSUME NEW fields \in Seq(Seq(Parts)), Accepted(fields)
    PROVE  make_cron(fields) \in AllExprs
<1>1. /\ MaxSecond = Seconds - 1 /\ MaxMinute = Minutes - 1 /\ MaxHour = Hours - 1
      /\ MaxDayOfMonth = LongestMonth /\ MaxMonth = Months /\ MaxDayOfWeek = WeekDays - 1
      /\ MaxSecond \in Nat /\ MaxMinute \in Nat /\ MaxHour \in Nat /\ MaxDayOfMonth \in Nat
      /\ MaxMonth \in Nat /\ MaxDayOfWeek \in Nat /\ 1 <= MaxDayOfMonth /\ 1 <= MaxMonth
  <2>1. 1 <= LongestMonth
    <3>1. MonthLength(0) \in WeekDays .. LongestMonth
      BY MonthLengthFacts
    <3>. QED
      BY <3>1, CalendarFacts
  <2>. QED
    BY <2>1, TraitsAssumption, CalendarFacts
<1>2. Len(fields) = 6 /\ \A k \in 1 .. 6 : fields[k] \in Seq(Parts)
  <2>1. Len(fields) = 6
    BY DEF Accepted
  <2>2. fields \in [1 .. Len(fields) -> Seq(Parts)]
    BY SMT
  <2>. QED
    BY ONLY <2>1, <2>2, Zenon
<1>3. /\ FieldValues(fields[1], 0, MaxSecond) \in NonEmpty(0 .. MaxSecond)
      /\ FieldValues(fields[2], 0, MaxMinute) \in NonEmpty(0 .. MaxMinute)
      /\ FieldValues(fields[3], 0, MaxHour) \in NonEmpty(0 .. MaxHour)
      /\ FieldValues(fields[4], 1, MaxDayOfMonth) \in NonEmpty(1 .. MaxDayOfMonth)
      /\ FieldValues(fields[5], 1, MaxMonth) \in NonEmpty(1 .. MaxMonth)
      /\ FieldValues(fields[6], 0, MaxDayOfWeek) \in NonEmpty(0 .. MaxDayOfWeek)
  <2>1. FieldValues(fields[1], 0, MaxSecond) \in NonEmpty(0 .. MaxSecond)
    <3>1. fields[1] \in Seq(Parts) /\ FieldOk(fields[1], 0, MaxSecond) /\ 0 <= MaxSecond /\ 0 \in Nat /\ MaxSecond \in Maxima
      BY <1>1, <1>2 DEF Accepted, Maxima
    <3>. QED
      BY ONLY <3>1, FieldValuesType, Zenon
  <2>2. FieldValues(fields[2], 0, MaxMinute) \in NonEmpty(0 .. MaxMinute)
    <3>1. fields[2] \in Seq(Parts) /\ FieldOk(fields[2], 0, MaxMinute) /\ 0 <= MaxMinute /\ 0 \in Nat /\ MaxMinute \in Maxima
      BY <1>1, <1>2 DEF Accepted, Maxima
    <3>. QED
      BY ONLY <3>1, FieldValuesType, Zenon
  <2>3. FieldValues(fields[3], 0, MaxHour) \in NonEmpty(0 .. MaxHour)
    <3>1. fields[3] \in Seq(Parts) /\ FieldOk(fields[3], 0, MaxHour) /\ 0 <= MaxHour /\ 0 \in Nat /\ MaxHour \in Maxima
      BY <1>1, <1>2 DEF Accepted, Maxima
    <3>. QED
      BY ONLY <3>1, FieldValuesType, Zenon
  <2>4. FieldValues(fields[4], 1, MaxDayOfMonth) \in NonEmpty(1 .. MaxDayOfMonth)
    <3>1. fields[4] \in Seq(Parts) /\ FieldOk(fields[4], 1, MaxDayOfMonth) /\ 1 <= MaxDayOfMonth /\ 1 \in Nat /\ MaxDayOfMonth \in Maxima
      BY <1>1, <1>2 DEF Accepted, Maxima
    <3>. QED
      BY ONLY <3>1, FieldValuesType, Zenon
  <2>5. FieldValues(fields[5], 1, MaxMonth) \in NonEmpty(1 .. MaxMonth)
    <3>1. fields[5] \in Seq(Parts) /\ FieldOk(fields[5], 1, MaxMonth) /\ 1 <= MaxMonth /\ 1 \in Nat /\ MaxMonth \in Maxima
      BY <1>1, <1>2 DEF Accepted, Maxima
    <3>. QED
      BY ONLY <3>1, FieldValuesType, Zenon
  <2>6. FieldValues(fields[6], 0, MaxDayOfWeek) \in NonEmpty(0 .. MaxDayOfWeek)
    <3>1. fields[6] \in Seq(Parts) /\ FieldOk(fields[6], 0, MaxDayOfWeek) /\ 0 <= MaxDayOfWeek /\ 0 \in Nat /\ MaxDayOfWeek \in Maxima
      BY <1>1, <1>2 DEF Accepted, Maxima
    <3>. QED
      BY ONLY <3>1, FieldValuesType, Zenon
  <2>. QED
    BY <2>1, <2>2, <2>3, <2>4, <2>5, <2>6
<1>4. {m - 1 : m \in FieldValues(fields[5], 1, MaxMonth)} \in NonEmpty(0 .. Months - 1)
  <2>1. PICK S : S = FieldValues(fields[5], 1, MaxMonth)
    OBVIOUS
  <2>2. S \subseteq 1 .. Months /\ S # {}
    BY <1>1, <1>3, <2>1 DEF NonEmpty
  <2>3. \A m \in S : m - 1 \in 0 .. Months - 1
    BY <2>2, CalendarFacts
  <2>. QED
    BY <2>1, <2>2, <2>3 DEF NonEmpty
<1>. QED
  BY <1>1, <1>3, <1>4 DEF make_cron, AllExprs

\* What create_job hands to make_cron is a sequence of fields.
LEMMA FullExprType ==
    ASSUME NEW k \in 1 .. Len(Texts)
    PROVE  FullExpr(Texts[k]) \in Seq(Seq(Parts))
<1>1. PICK text : text = Texts[k]
  OBVIOUS
<1>2. PICK fields \in Seq(Seq(Parts)) : fields = text.fields
  BY <1>1, TextsAssumption
<1>3. CASE text.leading = TRUE
  <2>1. FullExpr(text) = <<<<Single(0)>>>> \o fields
    BY <1>2, <1>3, Zenon DEF FullExpr
  <2>2. Single(0) \in Parts
    BY DEF Single, Part, None, Parts
  <2>3. <<<<Single(0)>>>> \in Seq(Seq(Parts))
    BY <2>2
  <2>. QED
    BY <1>1, <2>1, <2>3
<1>4. CASE text.leading = FALSE
  <2>1. FullExpr(text) = [fields EXCEPT ![1][1].first = Prefixed(@)]
    BY <1>2, <1>4, Zenon DEF FullExpr
  <2>2. fields # <<>> /\ fields[1] # <<>>
    <3>1. \/ Texts[k].leading = TRUE
          \/ Texts[k].leading = FALSE /\ Texts[k].fields # <<>> /\ Texts[k].fields[1] # <<>>
      BY TextsAssumption
    <3>2. TRUE # FALSE
      OBVIOUS
    <3>. QED
      BY ONLY <1>1, <1>2, <1>4, <3>1, <3>2, Zenon
  <2>3. PICK field : field = fields[1]
    OBVIOUS
  <2>4. field \in Seq(Parts) /\ 1 \in DOMAIN field
    BY <2>2, <2>3
  <2>5. PICK part : part = field[1]
    OBVIOUS
  <2>6. part \in Parts
    BY <2>4, <2>5
  <2>7. [part EXCEPT !.first = Prefixed(@)] \in Parts
    <3>1. part.first \in Int
      BY <2>6 DEF Parts
    <3>2. Prefixed(part.first) \in Int
      <4>1. CASE Readable(part.first)
        BY <3>1, <4>1 DEF Prefixed
      <4>2. CASE ~Readable(part.first)
        BY <4>2 DEF Prefixed
      <4>. QED
        BY <4>1, <4>2
    <3>3. PICK n \in Int : n = Prefixed(part.first)
      BY <3>2
    <3>4. [part EXCEPT !.first = n] \in Parts
      BY <2>6 DEF Parts
    <3>. QED
      BY ONLY <3>3, <3>4, Zenon
  <2>8. [field EXCEPT ![1] = [part EXCEPT !.first = Prefixed(@)]] \in Seq(Parts)
    BY <2>4, <2>7
  <2>9. FullExpr(text) = [fields EXCEPT ![1] = [field EXCEPT ![1] = [part EXCEPT !.first = Prefixed(@)]]]
    BY <2>1, <2>3, <2>5
  <2>. QED
    BY <1>1, <2>2, <2>8, <2>9
<1>5. text.leading = TRUE \/ text.leading = FALSE
  BY <1>1, TextsAssumption
<1>. QED
  BY <1>3, <1>4, <1>5

\* The fields of a text whose first token is a number, or which begins with a
\* space, are those the client wrote.
LEMMA FullExprWritten ==
    ASSUME NEW k \in 1 .. Len(Texts), is_valid_cron(Texts[k]),
           Texts[k].leading \/ Readable(Texts[k].fields[1][1].first)
    PROVE  WrittenFields(Texts[k]) = FullExpr(Texts[k])
<1>1. PICK text : text = Texts[k]
  OBVIOUS
<1>2. PICK fields \in Seq(Seq(Parts)) : fields = text.fields
  BY <1>1, TextsAssumption
<1>3. Len(FullExpr(text)) = 6
  BY <1>1 DEF is_valid_cron, Accepted
<1>4. CASE text.leading = TRUE
  <2>1. FullExpr(text) = <<<<Single(0)>>>> \o fields
    BY <1>2, <1>4, Zenon DEF FullExpr
  <2>2. Len(fields) = 5
    <3>1. Single(0) \in Parts
      BY DEF Single, Part, None, Parts
    <3>2. <<Single(0)>> \in Seq(Parts)
      BY ONLY <3>1
    <3>3. PICK second \in Seq(Parts) : second = <<Single(0)>>
      BY ONLY <3>2, Zenon
    <3>4. fields \in Seq(Seq(Parts))
      BY <1>2, Zenon
    <3>5. Len(<<second>> \o fields) = 1 + Len(fields) /\ Len(fields) \in Nat
      BY ONLY <3>4
    <3>6. Len(<<second>> \o fields) = 6
      BY ONLY <1>3, <2>1, <3>3, Zenon
    <3>7. PICK n \in Nat : n = Len(fields)
      BY ONLY <3>5, Zenon
    <3>8. 1 + n = 6
      BY ONLY <3>5, <3>6, <3>7, Zenon
    <3>9. n = 5
      BY ONLY <3>8
    <3>. QED
      BY ONLY <3>7, <3>9, Zenon
  <2>. QED
    BY <1>1, <1>2, <2>1, <2>2 DEF WrittenFields
<1>5. CASE text.leading = FALSE
  <2>1. FullExpr(text) = [fields EXCEPT ![1][1].first = Prefixed(@)]
    BY <1>2, <1>5, Zenon DEF FullExpr
  <2>2. fields # <<>> /\ fields[1] # <<>>
    <3>1. \/ Texts[k].leading = TRUE
          \/ Texts[k].leading = FALSE /\ Texts[k].fields # <<>> /\ Texts[k].fields[1] # <<>>
      BY TextsAssumption
    <3>2. TRUE # FALSE
      OBVIOUS
    <3>. QED
      BY ONLY <1>1, <1>2, <1>5, <3>1, <3>2, Zenon
  <2>3. PICK field : field = fields[1]
    OBVIOUS
  <2>4. field \in Seq(Parts) /\ 1 \in DOMAIN field
    BY <2>2, <2>3
  <2>5. PICK part : part = field[1]
    OBVIOUS
  <2>6. part \in Parts
    BY <2>4, <2>5
  <2>7. Readable(part.first)
    <3>1. TRUE # FALSE
      OBVIOUS
    <3>2. text.leading \/ Readable(text.fields[1][1].first)
      BY <1>1, Zenon
    <3>. QED
      BY ONLY <1>2, <1>5, <2>3, <2>5, <3>1, <3>2, Zenon
  <2>8. [part EXCEPT !.first = Prefixed(@)] = part
    BY <2>6, <2>7 DEF Prefixed, Parts
  <2>9. [field EXCEPT ![1] = part] = field
    BY <2>4, <2>5
  <2>10. [fields EXCEPT ![1] = field] = fields
    BY <2>2, <2>3
  <2>11. FullExpr(text) = fields
    BY <2>1, <2>3, <2>5, <2>8, <2>9, <2>10
  <2>12. Len(fields) # 5
    <3>1. Len(fields) = 6
      BY ONLY <1>3, <2>11, Zenon
    <3>2. 6 # 5
      OBVIOUS
    <3>. QED
      BY ONLY <3>1, <3>2, Zenon
  <2>. QED
    BY ONLY <1>1, <1>2, <2>11, <2>12, Zenon DEF WrittenFields
<1>6. text.leading = TRUE \/ text.leading = FALSE
  BY <1>1, TextsAssumption
<1>. QED
  BY <1>4, <1>5, <1>6

\* The numbers of such a text are the numbers of its fields.
LEMMA FullExprNarrow ==
    ASSUME NEW k \in 1 .. Len(Texts), is_valid_cron(Texts[k]), ReadAsWritten(Texts[k])
    PROVE  \A f \in 1 .. 6 : \A j \in DOMAIN FullExpr(Texts[k])[f] : Narrow(FullExpr(Texts[k])[f][j])
<1>1. PICK fields \in Seq(Seq(Parts)) : fields = Texts[k].fields
  BY TextsAssumption
<1>2. \A f \in DOMAIN fields : \A j \in DOMAIN fields[f] : Narrow(fields[f][j])
  BY <1>1, Zenon DEF ReadAsWritten
<1>3. FullExpr(Texts[k]) = IF Len(fields) = 5 THEN <<<<Single(0)>>>> \o fields ELSE fields
  <2>1. Texts[k].leading \/ Readable(Texts[k].fields[1][1].first)
    BY Zenon DEF ReadAsWritten
  <2>2. WrittenFields(Texts[k]) = FullExpr(Texts[k])
    BY <2>1, FullExprWritten, Zenon
  <2>. QED
    BY ONLY <1>1, <2>2, Zenon DEF WrittenFields
<1>4. Len(FullExpr(Texts[k])) = 6
  BY Zenon DEF is_valid_cron, Accepted
<1>5. CASE Len(fields) = 5
  <2>1. Narrow(Single(0))
    <3>1. \A token \in {0, None}, max \in Maxima : token + max < CronIntSize
      BY MaximaFacts, CronIntAssumption DEF None
    <3>. QED
      BY <3>1 DEF Narrow, Single, Part
  <2>2. PICK second \in Seq(Parts) : second = <<Single(0)>>
    <3>1. Single(0) \in Parts
      BY DEF Single, Part, None, Parts
    <3>2. <<Single(0)>> \in Seq(Parts)
      BY ONLY <3>1
    <3>. QED
      BY ONLY <3>2, Zenon
  <2>3. \A j \in DOMAIN second : Narrow(second[j])
    <3>1. \A j \in DOMAIN second : second[j] = Single(0)
      BY ONLY <2>2
    <3>. QED
      BY ONLY <2>1, <3>1, Zenon
  <2>4. PICK full : full = <<second>> \o fields
    OBVIOUS
  <2>5. \A f \in 1 .. 6 : full[f] = second \/ (f - 1 \in DOMAIN fields /\ full[f] = fields[f - 1])
    BY ONLY <1>1, <1>5, <2>2, <2>4
  <2>6. \A f \in 1 .. 6 : \A j \in DOMAIN full[f] : Narrow(full[f][j])
    BY ONLY <1>2, <2>3, <2>5, Zenon
  <2>7. FullExpr(Texts[k]) = full
    BY ONLY <1>3, <1>5, <2>2, <2>4, Zenon
  <2>. QED
    BY ONLY <2>6, <2>7, Zenon
<1>6. CASE Len(fields) # 5
  <2>1. FullExpr(Texts[k]) = fields
    BY ONLY <1>3, <1>6, Zenon
  <2>2. Len(fields) = 6
    BY ONLY <1>4, <2>1, Zenon
  <2>3. \A f \in 1 .. 6 : f \in DOMAIN fields
    BY ONLY <1>1, <2>2
  <2>. QED
    BY ONLY <1>2, <2>1, <2>3, Zenon
<1>. QED
  BY <1>5, <1>6

\* It is taken for what it says.
LEMMA TakenAsWritten ==
    ASSUME NEW k \in 1 .. Len(Texts), is_valid_cron(Texts[k]), ReadAsWritten(Texts[k])
    PROVE  Written(Texts[k]) = make_cron(FullExpr(Texts[k]))
<1>1. WrittenFields(Texts[k]) = FullExpr(Texts[k])
  <2>1. Texts[k].leading \/ Readable(Texts[k].fields[1][1].first)
    BY Zenon DEF ReadAsWritten
  <2>. QED
    BY <2>1, FullExprWritten, Zenon
<1>2. PICK fields \in Seq(Seq(Parts)) : fields = FullExpr(Texts[k])
  BY FullExprType, Zenon
<1>3. Accepted(fields)
  BY <1>2, Zenon DEF is_valid_cron
<1>4. \A f \in 1 .. 6 : fields[f] \in Seq(Parts) /\ \A j \in DOMAIN fields[f] : Narrow(fields[f][j])
  <2>1. Len(fields) = 6
    BY <1>3, Zenon DEF Accepted
  <2>2. \A f \in 1 .. 6 : fields[f] \in Seq(Parts)
    BY ONLY <1>2, <2>1
  <2>3. \A f \in 1 .. 6 : \A j \in DOMAIN fields[f] : Narrow(fields[f][j])
    BY <1>2, FullExprNarrow, Zenon
  <2>. QED
    BY ONLY <2>2, <2>3, Zenon
<1>5. \A f \in 1 .. 6, lo \in {0, 1}, hi \in Maxima :
         FieldOk(fields[f], lo, hi) /\ lo <= hi =>
             FieldMeant(fields[f], lo, hi) = FieldValues(fields[f], lo, hi)
  <2>1. {0, 1} \subseteq Nat
    OBVIOUS
  <2>. QED
    BY ONLY <1>4, <2>1, FieldTaken, Zenon
<1>6. \A max \in Maxima : 0 <= max
  BY MaximaFacts
<1>7. 1 <= MaxDayOfMonth /\ 1 <= MaxMonth
  <2>1. MonthLength(0) \in WeekDays .. LongestMonth
    BY MonthLengthFacts
  <2>2. 1 <= LongestMonth
    BY <2>1, CalendarFacts
  <2>. QED
    BY <2>2, TraitsAssumption, CalendarFacts
<1>8. /\ {MaxSecond, MaxMinute, MaxHour, MaxDayOfWeek, MaxDayOfMonth, MaxMonth} = Maxima
      /\ {1, 2, 3, 4, 5, 6} = 1 .. 6
  BY DEF Maxima
<1>9. /\ FieldMeant(fields[1], 0, MaxSecond) = FieldValues(fields[1], 0, MaxSecond)
      /\ FieldMeant(fields[2], 0, MaxMinute) = FieldValues(fields[2], 0, MaxMinute)
      /\ FieldMeant(fields[3], 0, MaxHour) = FieldValues(fields[3], 0, MaxHour)
  BY ONLY <1>3, <1>5, <1>6, <1>8, Zenon DEF Accepted
<1>10. /\ FieldMeant(fields[4], 1, MaxDayOfMonth) = FieldValues(fields[4], 1, MaxDayOfMonth)
       /\ FieldMeant(fields[5], 1, MaxMonth) = FieldValues(fields[5], 1, MaxMonth)
       /\ FieldMeant(fields[6], 0, MaxDayOfWeek) = FieldValues(fields[6], 0, MaxDayOfWeek)
  BY ONLY <1>3, <1>5, <1>6, <1>7, <1>8, Zenon DEF Accepted
<1>. QED
  BY ONLY <1>1, <1>2, <1>9, <1>10, Zenon DEF Written, make_cron

-----------------------------------------------------------------------------
(***************************************************************************)
(* Creation: what insert_job stores.                                       *)
(***************************************************************************)
CreationInv ==
    /\ body \in Bodies /\ now \in Clock
    /\ outcome = "insert" =>
          /\ validate_job_input(body)
          /\ stored = ToInt(CreateJob(body, now).next_run_time)

\* The row is what create_job worked out, as an int.
LEMMA CreationInvHolds == Spec => []CreationInv
<1>1. Init => CreationInv
  BY DEF Init, CreationInv
<1>2. CreationInv /\ [Create]_request => CreationInv'
  <2>. SUFFICES ASSUME CreationInv, [Create]_request
                PROVE  CreationInv'
    OBVIOUS
  <2>1. CASE UNCHANGED request
    BY <2>1 DEF CreationInv, request
  <2>2. CASE Create
    <3>1. body' = body /\ now' = now
      BY <2>2 DEF Create
    <3>2. ASSUME outcome' = "insert"
          PROVE  ~Throws(body) /\ ~Rejects(body)
      BY <2>2, <3>2 DEF Create
    <3>3. outcome' = "insert" => stored' = ToInt(CreateJob(body, now).next_run_time)
      BY <2>2 DEF Create
    <3>4. outcome' = "insert" => validate_job_input(body)
      BY <3>2, Zenon DEF Rejects
    <3>. QED
      BY <3>1, <3>3, <3>4, Zenon DEF CreationInv
  <2>. QED
    BY <2>1, <2>2
<1>. QED
  BY <1>1, <1>2, PTL DEF Spec

\* Of an ordinary request this is what was asked for.
LEMMA CreationInvCorrect ==
    ASSUME 1 <= MaxYearsDiff, TwoYears <= MaxCalls
    PROVE  CreationInv => OrdinaryStoredCorrectly
<1>. SUFFICES ASSUME CreationInv, outcome = "insert", Ordinary
              PROVE  IsAskedFor(stored)
  BY Zenon DEF OrdinaryStoredCorrectly
<1>1. PICK b \in Bodies, t \in Clock : b = body /\ t = now
  BY Zenon DEF CreationInv
<1>2. validate_job_input(b) /\ stored = ToInt(CreateJob(b, t).next_run_time)
  BY <1>1, Zenon DEF CreationInv
<1>3. CreateJob(b, t).next_run_time = compute_next_run_time(b, t)
  BY DEF CreateJob
<1>4. ValidSchedule(b) /\ b.type.n \in Job_Type
  BY <1>2, Zenon DEF validate_job_input
<1>5. ONE_TIME # RECURRING /\ ONE_TIME # CRON /\ RECURRING # CRON
  BY DEF ONE_TIME, RECURRING, CRON
<1>6. CASE b.type.n = ONE_TIME
  <2>1. compute_next_run_time(b, t) = b.next_run_time.n
    BY <1>5, <1>6 DEF compute_next_run_time
  <2>2. b.next_run_time.n \in CInt
    BY <1>1, <1>6, Zenon DEF Ordinary
  <2>3. stored = b.next_run_time.n
    BY <1>2, <1>3, <2>1, <2>2, ToIntFits, Zenon
  <2>. QED
    BY <1>1, <1>5, <1>6, <2>3 DEF IsAskedFor
<1>7. CASE b.type.n = RECURRING
  <2>1. PICK interval \in Int : interval = b.interval_seconds.n
    BY BodiesAssumption
  <2>2. interval > 0
    BY <1>4, <1>5, <1>7, <2>1 DEF ValidSchedule, IsPositive
  <2>3. compute_next_run_time(b, t) = t + ToInt(interval)
    BY <1>5, <1>7, <2>1 DEF compute_next_run_time
  <2>4. t + interval \in CInt
    BY <1>1, <1>7, <2>1, Zenon DEF Ordinary
  <2>5. t \in Nat
    BY BodiesAssumption
  <2>6. interval \in CInt
    BY <2>2, <2>4, <2>5, IntLimitAssumption DEF CInt
  <2>7. stored = t + interval
    BY <1>2, <1>3, <2>3, <2>4, <2>6, ToIntFits, Zenon
  <2>. QED
    BY <1>1, <1>5, <1>7, <2>1, <2>7 DEF IsAskedFor
<1>8. CASE b.type.n = CRON
  <2>1. IsText(b.cron_expr) /\ is_valid_cron(Texts[b.cron_expr.n])
    BY <1>4, <1>5, <1>8 DEF ValidSchedule
  <2>2. PICK k \in 1 .. Len(Texts) : k = b.cron_expr.n
    BY <2>1, BodiesAssumption
  <2>3. /\ ReadAsWritten(Texts[k])
        /\ Plain(Written(Texts[k]))
        /\ CreateJob(b, t).next_run_time \in CInt
    BY <1>1, <1>8, <2>2, Zenon DEF Ordinary
  <2>4. Accepted(FullExpr(Texts[k]))
    BY <2>1, <2>2, Zenon DEF is_valid_cron
  <2>5. PICK c \in AllExprs : c = make_cron(FullExpr(Texts[k]))
    BY <2>4, FullExprType, MakeCronType, Zenon
  <2>6. Written(Texts[k]) = c
    BY <2>1, <2>2, <2>3, <2>5, TakenAsWritten, Zenon
  <2>7. t \in Nat
    BY BodiesAssumption, Zenon
  <2>8. compute_next_run_time(b, t) = compute_cron_next_run(Texts[k], t)
    BY <1>5, <1>8, <2>2 DEF compute_next_run_time
  <2>9. PICK r : r = cron_next(c, t)
    OBVIOUS
  <2>10. compute_cron_next_run(Texts[k], t) = r
    BY <2>1, <2>2, <2>5, <2>9, CronAssumption, Zenon
  <2>11. Plain(c)
    BY <2>3, <2>6, Zenon
  <2>12. stored = r
    BY <1>2, <1>3, <2>3, <2>8, <2>10, ToIntFits, Zenon
  <2>13. r # INVALID
    BY <2>7, <2>9, <2>11, CronNextFinds, Zenon
  <2>14. r \in Nat /\ t < r /\ Matches(c, r) /\ NoneMatches(c, t + 1 .. r - 1)
    BY <2>7, <2>9, <2>11, <2>13, CronNextCorrect, Zenon
  <2>15. r > t
    BY <2>7, <2>14
  <2>16. LET w == Written(Texts[body.cron_expr.n])
         IN  stored > now /\ Matches(w, stored) /\ NoneMatches(w, now + 1 .. stored - 1)
    BY <1>1, <2>2, <2>6, <2>12, <2>14, <2>15, Zenon
  <2>. QED
    BY <1>1, <1>5, <1>8, <2>16, Zenon DEF IsAskedFor
<1>9. b.type.n \in {ONE_TIME, RECURRING, CRON}
  BY <1>4 DEF Job_Type, ONE_TIME, RECURRING, CRON
<1>. QED
  BY <1>6, <1>7, <1>8, <1>9

\* Whatever the widths, the calendar, the texts and the bodies are, the row of
\* an ordinary request (its cron expression, if it has one, of small numbers) has the next run time its body asks for (create_job,
\* make_cron, cron_next and insert_job's bind of it), and is not INVALID.
THEOREM OrdinaryStored ==
    ASSUME 1 <= MaxYearsDiff, TwoYears <= MaxCalls
    PROVE  Spec => []OrdinaryStoredCorrectly
  BY CreationInvHolds, CreationInvCorrect, PTL

=============================================================================
