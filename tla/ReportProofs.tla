----------------------------- MODULE ReportProofs -----------------------------
(***************************************************************************)
(* Proofs about what the energy reports and the two checks make of the     *)
(* hours and minutes kept, for every length of the history, every value    *)
(* measured and every limit: that the buckets of a report make its period  *)
(* (EnergyReports), that the sections of the check of the battery make its *)
(* window (BatteryCheck) and that a bill is judged right (InvoiceCheck).   *)
(* The models share no state; each has a section with an inductive         *)
(* invariant of its own.                                                   *)
(***************************************************************************)
EXTENDS EnergyReports, BatteryCheck, InvoiceCheck, SumLemmas, TLAPS

----------------------------------------------------------------------------
(* The reports *)

\* The number of months.
Months == Len(MonthDays0)
\* The months are numbered and have days.
LEMMA MonthsKnown ==
  /\ Months \in Nat /\ DOMAIN MonthDays0 = 1..Months
  /\ \A k \in 1..Months : MonthDays0[k] \in Nat \ {0}
  BY ReportAssumption DEF Months

\* The days of some months in a sequence.
LEMMA DaysSum ==
  ASSUME NEW s, IsFiniteSet(DOMAIN s)
  PROVE  FoldSeq(LAMBDA d, sum : d + sum, 0, s) = SumOver(s, DOMAIN s)
  <1> DEFINE S == DOMAIN s
             Sums(F) == F = [r \in SUBSET S |-> IF r = {} THEN 0 ELSE s[CHOOSE x \in r : TRUE] + F[r \ {CHOOSE x \in r : TRUE}]]
  <1>1. ASSUME NEW F PROVE Sums(F) <=> Adds(F, s, S)
    BY PickedIn DEF Picked, Adds
  <1>2. FoldSeq(LAMBDA d, sum : d + sum, 0, s) = (CHOOSE F : Sums(F))[S]
    BY DEF FoldSeq, FoldFunction, FoldFunctionOnSet, MapThenFoldSet
  <1> HIDE DEF Sums
  <1>3. (CHOOSE F : Sums(F)) = (CHOOSE F : Adds(F, s, S))
    BY <1>1
  <1> QED
    BY <1>2, <1>3 DEF SumOver

\* The first days of the months follow each other, and the last month ends the year.
LEMMA FirstDays ==
  /\ \A k \in 1..(Months + 1) : FirstOf(k) \in Nat
  /\ FirstOf(1) = 0 /\ FirstOf(Months + 1) = Year
  /\ \A k \in 1..Months : FirstOf(k + 1) = FirstOf(k) + MonthDays0[k]
  <1>1. \A k \in 1..(Months + 1) : FirstOf(k) = SumOver(MonthDays0, 1..(k - 1))
    <2> TAKE k \in 1..(Months + 1)
    <2> DEFINE s == SubSeq(MonthDays0, 1, k - 1)
    <2>1. k \in Int /\ k - 1 \in Int /\ k - 1 \in 0..Months
      BY MonthsKnown
    <2>2. DOMAIN s = 1..(k - 1) /\ \A i \in 1..(k - 1) : s[i] = MonthDays0[i]
      BY <2>1, ReportAssumption DEF Months
    <2>3. IsFiniteSet(1..(k - 1))
      BY <2>1, FS_Interval
    <2>4. FirstOf(k) = SumOver(s, DOMAIN s)
      <3>1. FirstOf(k) = FoldSeq(LAMBDA d, sum : d + sum, 0, s)
        BY DEF FirstOf
      <3>2. IsFiniteSet(DOMAIN s)
        BY <2>2, <2>3
      <3> HIDE DEF s
      <3> QED
        BY <3>1, <3>2, DaysSum
    <2> HIDE DEF s
    <2>5. SumOver(MonthDays0, 1..(k - 1)) = SumOver(s, 1..(k - 1))
      BY <2>2, <2>3, SumSame
    <2> QED
      BY <2>2, <2>4, <2>5
  <1>2. Year = SumOver(MonthDays0, 1..Months)
    <2>1. IsFiniteSet(1..Months)
      BY MonthsKnown, FS_Interval
    <2> QED
      BY <2>1, MonthsKnown, DaysSum DEF Year
  <1>3. \A k \in 1..(Months + 1) : FirstOf(k) \in Nat
    <2> TAKE k \in 1..(Months + 1)
    <2>1. k \in Int /\ 1..(k - 1) \subseteq 1..Months
      BY MonthsKnown
    <2>2. IsFiniteSet(1..(k - 1))
      BY <2>1, FS_Interval
    <2>3. \A i \in 1..(k - 1) : MonthDays0[i] \in Nat
      BY <2>1, MonthsKnown
    <2> QED
      BY <1>1, <2>2, <2>3, SumNat
  <1>4. FirstOf(1) = 0
    <2>1. 1..(1 - 1) = {} /\ 1 \in 1..(Months + 1)
      BY MonthsKnown
    <2> QED
      BY <1>1, <2>1, SumEmpty
  <1>5. FirstOf(Months + 1) = Year
    <2>1. (Months + 1) - 1 = Months /\ Months + 1 \in 1..(Months + 1)
      BY MonthsKnown
    <2> QED
      BY <1>1, <1>2, <2>1
  <1>6. \A k \in 1..Months : FirstOf(k + 1) = FirstOf(k) + MonthDays0[k]
    <2> TAKE k \in 1..Months
    <2> DEFINE S == 1..(k - 1)
    <2>1. k \in Int /\ k \in 1..(Months + 1) /\ k + 1 \in 1..(Months + 1) /\ (k + 1) - 1 = k
      BY MonthsKnown
    <2>2. 1..k = S \cup {k} /\ k \notin S
      BY <2>1
    <2>3. IsFiniteSet(S)
      BY <2>1, FS_Interval
    <2>4. \A i \in S \cup {k} : MonthDays0[i] \in Nat
      <3>1. S \cup {k} \subseteq 1..Months
        BY <2>1, MonthsKnown
      <3> QED
        BY <3>1, MonthsKnown
    <2>5. FirstOf(k + 1) = SumOver(MonthDays0, S \cup {k})
      BY <1>1, <2>1, <2>2
    <2>6. FirstOf(k) = SumOver(MonthDays0, S)
      BY <1>1, <2>1
    <2> HIDE DEF S
    <2>7. SumOver(MonthDays0, S \cup {k}) = MonthDays0[k] + SumOver(MonthDays0, S)
      BY <2>2, <2>3, <2>4, SumWith DEF Numbers
    <2>8. MonthDays0[k] \in Nat /\ FirstOf(k) \in Nat
      BY <1>3, <2>1, MonthsKnown
    <2> QED
      BY <2>5, <2>6, <2>7, <2>8
  <1> QED
    BY <1>3, <1>4, <1>5, <1>6

\* A later month starts later.
LEMMA MonthsRise ==
  ASSUME NEW j \in 1..(Months + 1), NEW k \in 1..(Months + 1), j < k
  PROVE  FirstOf(j) < FirstOf(k)
  <1> DEFINE P == {n \in Nat : j + n + 1 <= Months + 1 => FirstOf(j) < FirstOf(j + n + 1)}
  <1>0. j \in Nat \ {0} /\ k \in Nat /\ Months \in Nat
    BY MonthsKnown
  <1>1. 0 \in P
    <2> SUFFICES ASSUME j + 1 <= Months + 1 PROVE FirstOf(j) < FirstOf(j + 1)
      BY <1>0
    <2>1. j \in 1..Months
      BY <1>0
    <2>2. FirstOf(j) \in Nat /\ MonthDays0[j] \in Nat \ {0} /\ FirstOf(j + 1) = FirstOf(j) + MonthDays0[j]
      BY <2>1, FirstDays, MonthsKnown
    <2> QED
      BY <2>2
  <1>2. ASSUME NEW n \in Nat, n \in P PROVE n + 1 \in P
    <2> SUFFICES ASSUME j + (n + 1) + 1 <= Months + 1 PROVE FirstOf(j) < FirstOf(j + (n + 1) + 1)
      OBVIOUS
    <2> DEFINE m == j + n + 1
    <2>1. m \in 1..Months /\ m \in 1..(Months + 1) /\ m <= Months + 1 /\ j + (n + 1) + 1 = m + 1
      BY <1>0
    <2>2. FirstOf(j) < FirstOf(m)
      BY <1>2, <2>1
    <2> HIDE DEF m
    <2>3. FirstOf(j) \in Nat /\ FirstOf(m) \in Nat /\ MonthDays0[m] \in Nat \ {0} /\ FirstOf(m + 1) = FirstOf(m) + MonthDays0[m]
      BY <2>1, FirstDays, MonthsKnown
    <2>4. FirstOf(j) < FirstOf(m + 1)
      BY <2>2, <2>3
    <2> QED
      BY <2>1, <2>4
  <1>3. \A n \in Nat : n \in P
    <2> HIDE DEF P
    <2> QED
      BY <1>1, <1>2, NatsByInduction
  <1>4. k - j - 1 \in Nat /\ j + (k - j - 1) + 1 = k
    BY <1>0
  <1>5. k - j - 1 \in P
    BY <1>3, <1>4
  <1> QED
    BY <1>4, <1>5

\* The month of a day holds it, and the first day of a month is of it.
LEMMA MonthHolds ==
  /\ Year \in Nat
  /\ \A day \in YearDays : /\ MonthOf(day) \in 1..Months
                           /\ FirstOf(MonthOf(day)) <= day /\ day < FirstOf(MonthOf(day) + 1)
  /\ \A k \in 1..Months : MonthOf(FirstOf(k)) = k /\ FirstOf(k) \in YearDays
  <1>1. Year \in Nat
    BY FirstDays, MonthsKnown
  <1>2. ASSUME NEW day \in YearDays
        PROVE  /\ MonthOf(day) \in 1..Months /\ FirstOf(MonthOf(day)) <= day /\ day < FirstOf(MonthOf(day) + 1)
               /\ \A k \in 1..Months : FirstOf(k) <= day => k <= MonthOf(day)
    <2> DEFINE S == {k \in DOMAIN MonthDays0 : FirstOf(k) <= day}
    <2>1. day \in Nat /\ day < Year
      BY <1>1 DEF YearDays
    <2>2. Months \in Nat \ {0}
      <3>1. CASE Months = 0
        <4>1. Year = 0
          BY <3>1, FirstDays
        <4> QED
          BY <2>1, <4>1
      <3> QED
        BY <3>1, MonthsKnown
    <2>3. 1 \in S /\ S \in SUBSET Nat /\ \A k \in S : k <= Months
      BY <2>1, <2>2, FirstDays, MonthsKnown
    <2>4. Max(S) \in S /\ \A k \in S : k <= Max(S)
      <3> HIDE DEF S
      <3>1. S # {} /\ Months \in Nat
        BY <2>2, <2>3
      <3> QED
        BY <2>3, <3>1, MaxIs
    <2> DEFINE m == MonthOf(day)
    <2>5. m = Max(S)
      BY DEF MonthOf
    <2> HIDE DEF m
    <2>6. m \in 1..Months /\ FirstOf(m) <= day
      BY <2>4, <2>5, MonthsKnown
    <2>7. \A k \in 1..Months : FirstOf(k) <= day => k <= m
      BY <2>4, <2>5, MonthsKnown
    <2>8. day < FirstOf(m + 1)
      <3>1. CASE m = Months
        BY <2>1, <3>1, FirstDays
      <3>2. CASE m # Months
        <4>1. m + 1 \in 1..Months /\ ~(m + 1 <= m)
          BY <2>2, <2>6, <3>2
        <4>2. m + 1 \in 1..(Months + 1)
          BY <2>2, <4>1
        <4>3. FirstOf(m + 1) \in Nat
          BY <4>2, FirstDays
        <4> QED
          BY <2>1, <2>7, <4>1, <4>3
      <3> QED
        BY <3>1, <3>2
    <2> QED
      BY <2>6, <2>7, <2>8 DEF m
  <1>3. ASSUME NEW k \in 1..Months PROVE MonthOf(FirstOf(k)) = k /\ FirstOf(k) \in YearDays
    <2> DEFINE d == FirstOf(k)
               m == MonthOf(d)
    <2>1. Months \in Nat /\ k \in 1..(Months + 1) /\ Months + 1 \in 1..(Months + 1) /\ k < Months + 1
      BY MonthsKnown
    <2>2. d \in Nat /\ d < Year
      BY <2>1, FirstDays, MonthsRise
    <2>3. d \in YearDays
      BY <1>1, <2>2 DEF YearDays
    <2> HIDE DEF d
    <2>4. m \in 1..Months /\ FirstOf(m) <= d /\ d < FirstOf(m + 1) /\ (d <= d => k <= m)
      BY <1>2, <2>3 DEF d
    <2> HIDE DEF m
    <2>5. m \in 1..(Months + 1)
      BY <2>1, <2>4
    <2>6. ~(k < m)
      <3>1. k < m => d < FirstOf(m)
        BY <2>1, <2>5, MonthsRise DEF d
      <3>2. FirstOf(m) \in Nat
        BY <2>5, FirstDays
      <3> QED
        BY <2>2, <2>4, <3>1, <3>2
    <2>7. m = k
      BY <2>1, <2>2, <2>4, <2>6
    <2> QED
      BY <2>3, <2>7 DEF d, m
  <1> QED
    BY <1>1, <1>2, <1>3
----------------------------------------------------------------------------
\* Marks on the clock that do not go back.
Rises(T, a, b) ==
  /\ \A i \in a..b : T[i] \in Int
  /\ \A i, j \in a..b : i <= j => T[i] <= T[j]
\* The hours between two marks.
Between(T, D, i, j) == {u \in D : T[i] <= u /\ u < T[j]}

\* An hour between the first and the last mark lies between just two that follow each other.
LEMMA BetweenTwo ==
  ASSUME NEW a \in Int, NEW b \in Int, a <= b, NEW T, Rises(T, a, b), NEW u \in Int, T[a] <= u, u < T[b]
  PROVE  \E i \in a..(b - 1) : /\ T[i] <= u /\ u < T[i + 1]
                               /\ \A j \in a..(b - 1) : T[j] <= u /\ u < T[j + 1] => j = i
  <1> DEFINE S == {n \in Nat : a + n <= b /\ u < T[a + n]}
  <1>0. \A n \in Nat : a + n <= b => a + n \in a..b
    OBVIOUS
  <1>1. b - a \in S
    <2>1. b - a \in Nat /\ a + (b - a) = b
      OBVIOUS
    <2> QED
      BY <2>1
  <1>2. S \in SUBSET Nat /\ S # {}
    BY <1>1
  <1>3. PICK n \in S : \A m \in S : n <= m
    <2> HIDE DEF S
    <2> QED
      BY <1>2, FirstOne
  <1>4. n # 0
    <2>1. a + 0 = a /\ ~(u < T[a])
      BY <1>0 DEF Rises
    <2>2. n = 0 => u < T[a + 0]
      BY <1>3
    <2> QED
      BY <2>1, <2>2
  <1> DEFINE i == a + (n - 1)
  <1>5. n - 1 \in Nat /\ i \in a..(b - 1) /\ i \in a..b /\ i + 1 = a + n /\ ~(n <= n - 1)
    BY <1>3, <1>4
  <1>6. T[i] <= u
    <2>1. n - 1 \notin S
      BY <1>3, <1>5
    <2>2. ~(u < T[i])
      BY <1>5, <2>1
    <2>3. T[i] \in Int
      BY <1>5 DEF Rises
    <2> QED
      BY <2>2, <2>3
  <1>7. u < T[i + 1]
    BY <1>3, <1>5
  <1> HIDE DEF i
  <1>8. ASSUME NEW j \in a..(b - 1), T[j] <= u, u < T[j + 1] PROVE j = i
    <2>1. j \in a..b /\ j + 1 \in a..b /\ i + 1 \in a..b
      BY <1>5
    <2>2. T[j] \in Int /\ T[j + 1] \in Int /\ T[i] \in Int /\ T[i + 1] \in Int
      BY <1>5, <2>1 DEF Rises
    <2>3. ~(i + 1 <= j)
      BY <1>7, <1>8, <2>1, <2>2 DEF Rises
    <2>4. ~(j + 1 <= i)
      BY <1>5, <1>6, <1>8, <2>1, <2>2 DEF Rises
    <2> QED
      BY <1>5, <2>3, <2>4
  <1> QED
    BY <1>5, <1>6, <1>7, <1>8

\* What adds up over parts of D.
Additive(A, D) ==
  /\ A[{}] = 0 /\ \A x \in SUBSET D : A[x] \in Int
  /\ \A x, y \in SUBSET D : x \cap y = {} => A[x \cup y] = A[x] + A[y]

\* A bucket between two marks that follow each other has the amount of the hours between them, and
\* buckets that are the same have the same marks.
Bucketed(T, D, A, a, b, x, w) ==
  /\ \A i \in a..(b - 1) : w[x[i]] = A[Between(T, D, i, i + 1)]
  /\ \A i, j \in a..(b - 1) : x[i] = x[j] => T[i] = T[j] /\ T[i + 1] = T[j + 1]
Values(x, a, b) == {x[i] : i \in a..(b - 1)}

\* What adds up over hours adds up over the buckets between marks, also when two buckets are the
\* same, as no hour is in them.
LEMMA BucketsSum ==
  ASSUME NEW D \in SUBSET Int, NEW A, Additive(A, D),
         NEW a \in Int, NEW b \in Int, a <= b, NEW T, Rises(T, a, b), NEW x, NEW w, Bucketed(T, D, A, a, b, x, w)
  PROVE  SumOver(w, Values(x, a, b)) = A[Between(T, D, a, b)]
  <1> DEFINE X(n) == {x[i] : i \in a..(a + n - 1)}
             P == {n \in Nat : a + n <= b => /\ IsFiniteSet(X(n))
                                             /\ SumOver(w, X(n)) = A[Between(T, D, a, a + n)]}
  <1>0. /\ \A i, j : Between(T, D, i, j) \in SUBSET D
        /\ \A i, j, u : u \in Between(T, D, i, j) <=> u \in D /\ T[i] <= u /\ u < T[j]
        /\ \A u \in D : u \in Int
    BY DEF Between
  <1>1. 0 \in P
    <2>1. a..(a + 0 - 1) = {}
      OBVIOUS
    <2>2. X(0) = {}
      BY <2>1
    <2>3. Between(T, D, a, a + 0) = {}
      <3>1. a + 0 = a /\ T[a] \in Int
        <4>1. a \in a..b
          OBVIOUS
        <4> QED
          BY <4>1 DEF Rises
      <3>2. ASSUME NEW u \in Between(T, D, a, a + 0) PROVE FALSE
        <4>1. u \in Int /\ T[a] <= u /\ u < T[a]
          BY <1>0, <3>1
        <4> QED
          BY <3>1, <4>1
      <3> QED
        BY <3>2
    <2>4. IsFiniteSet({}) /\ SumOver(w, {}) = 0
      BY FS_EmptySet, SumEmpty
    <2> HIDE DEF X
    <2> QED
      BY <2>2, <2>3, <2>4 DEF Additive
  <1>2. ASSUME NEW n \in Nat, n \in P PROVE n + 1 \in P
    <2> SUFFICES ASSUME a + (n + 1) <= b
                 PROVE  IsFiniteSet(X(n + 1)) /\ SumOver(w, X(n + 1)) = A[Between(T, D, a, a + (n + 1))]
      OBVIOUS
    <2> DEFINE k == a + n
               before == Between(T, D, a, k)
               more == Between(T, D, k, k + 1)
    <2>1. k \in a..(b - 1) /\ k \in a..b /\ k + 1 \in a..b /\ a \in a..b /\ k <= b /\ a + (n + 1) = k + 1 /\ a + (n + 1) - 1 = k
      OBVIOUS
    <2>2. IsFiniteSet(X(n)) /\ SumOver(w, X(n)) = A[before]
      BY <1>2, <2>1
    <2>3. X(n + 1) = X(n) \cup {x[k]}
      <3>1. a..(a + (n + 1) - 1) = (a..(a + n - 1)) \cup {k}
        OBVIOUS
      <3> QED
        BY <3>1
    <2>4. T[a] \in Int /\ T[k] \in Int /\ T[k + 1] \in Int /\ T[a] <= T[k] /\ T[k] <= T[k + 1]
      BY <2>1 DEF Rises
    <2>5. Between(T, D, a, k + 1) = before \cup more /\ before \cap more = {}
      <3>1. \A u : u \in Between(T, D, a, k + 1) <=> u \in before \/ u \in more
        <4> TAKE u
        <4>1. CASE u \in D
          <5>1. u \in Int
            BY <1>0, <4>1
          <5>2. T[a] <= u /\ u < T[k + 1] <=> (T[a] <= u /\ u < T[k]) \/ (T[k] <= u /\ u < T[k + 1])
            BY <2>4, <5>1
          <5> QED
            BY <1>0, <4>1, <5>2
        <4>2. CASE u \notin D
          BY <1>0, <4>2
        <4> QED
          BY <4>1, <4>2
      <3>2. \A u : ~(u \in before /\ u \in more)
        <4> SUFFICES ASSUME NEW u, u \in before, u \in more PROVE FALSE
          OBVIOUS
        <4>1. u \in Int /\ u < T[k] /\ T[k] <= u
          BY <1>0
        <4> QED
          BY <2>4, <4>1
      <3> QED
        BY <3>1, <3>2
    <2>6. A[before \cup more] = A[before] + A[more] /\ A[more] \in Int /\ A[before] \in Int
      <3>1. before \in SUBSET D /\ more \in SUBSET D
        BY <1>0
      <3> HIDE DEF before, more
      <3> QED
        BY <2>5, <3>1 DEF Additive
    <2>7. w[x[k]] = A[more]
      BY <2>1 DEF Bucketed
    <2>8. \A y \in X(n) : \E i \in a..(b - 1) : y = x[i] /\ i < k
      <3>1. \A i \in a..(a + n - 1) : i \in a..(b - 1) /\ i < k
        BY <2>1
      <3> QED
        BY <3>1
    <2>9. \A y \in X(n) : w[y] \in Int
      BY <1>0, <2>8 DEF Additive, Bucketed
    <2> HIDE DEF X, before, more, k
    <2>10. CASE x[k] \in X(n)
      <3>1. PICK i \in a..(b - 1) : x[k] = x[i] /\ i < k
        BY <2>8, <2>10
      <3>2. T[k + 1] = T[i + 1]
        BY <2>1, <3>1 DEF Bucketed
      <3>3. i + 1 \in a..b /\ i + 1 <= k
        BY <2>1, <3>1
      <3>4. T[k + 1] <= T[k]
        BY <2>1, <3>2, <3>3 DEF Rises
      <3>5. more = {}
        <4> SUFFICES ASSUME NEW u, u \in more PROVE FALSE
          OBVIOUS
        <4>1. u \in Int /\ T[k] <= u /\ u < T[k + 1]
          BY <1>0 DEF more
        <4> QED
          BY <2>4, <3>4, <4>1
      <3>6. A[more] = 0
        BY <3>5 DEF Additive
      <3>7. X(n + 1) = X(n)
        BY <2>3, <2>10
      <3> QED
        BY <2>1, <2>2, <2>5, <2>6, <3>6, <3>7
    <2>11. CASE x[k] \notin X(n)
      <3>1. Numbers(w, X(n) \cup {x[k]})
        BY <2>6, <2>7, <2>9 DEF Numbers
      <3>2. SumOver(w, X(n) \cup {x[k]}) = w[x[k]] + SumOver(w, X(n))
        BY <2>2, <2>11, <3>1, SumWith
      <3>3. IsFiniteSet(X(n) \cup {x[k]})
        BY <2>2, FS_AddElement
      <3>4. SumOver(w, X(n + 1)) = A[more] + A[before]
        BY <2>2, <2>3, <2>7, <3>2
      <3>5. A[Between(T, D, a, k + 1)] = A[before] + A[more]
        BY <2>5, <2>6
      <3>6. SumOver(w, X(n + 1)) = A[Between(T, D, a, k + 1)]
        BY <2>6, <3>4, <3>5
      <3> QED
        BY <2>1, <2>3, <3>3, <3>6
    <2> QED
      BY <2>10, <2>11
  <1>3. \A n \in Nat : n \in P
    <2> HIDE DEF P
    <2> QED
      BY <1>1, <1>2, NatsByInduction
  <1>4. b - a \in Nat /\ a + (b - a) = b /\ a + (b - a) - 1 = b - 1
    OBVIOUS
  <1>5. b - a \in P
    BY <1>3, <1>4
  <1> QED
    BY <1>4, <1>5 DEF Values

----------------------------------------------------------------------------
\* Times on the wall clock keep their order in UTC.
LEMMA UtcRises ==
  ASSUME change \in {-1, 0, 1}, NEW v \in Int, NEW w \in Int, v <= w
  PROVE  UtcOf(v) \in Int /\ UtcOf(w) \in Int /\ UtcOf(v) <= UtcOf(w)
  <1>1. Max({change, 0}) = IF change = 1 THEN 1 ELSE 0
    <2>1. change \in Int /\ 0 \in Int
      OBVIOUS
    <2>2. Max({change, 0}) \in {change, 0} /\ Max({change, 0}) >= change /\ Max({change, 0}) >= 0
      BY <2>1, MaxOfTwo, MaxBoth
    <2> QED
      BY <2>2
  <1>2. ChangeAt \in Nat
    BY ReportAssumption
  <1> QED
    BY <1>1, <1>2 DEF UtcOf

\* The hours of the day are numbered without a gap.
LEMMA HourOfDay ==
  ASSUME NEW i \in Nat
  PROVE  (i * DayLocalHours) \div DayLocalHours = i /\ (i * DayLocalHours) % DayLocalHours = 0
         /\ i * DayLocalHours \in Nat
  <1> DEFINE L == DayLocalHours
             y == i * L
  <1>1. L \in Nat \ {0}
    BY ReportAssumption
  <1>2. y \in Nat /\ y = L * i
    BY <1>1
  <1> HIDE DEF L, y
  <1>3. y \div L <= i /\ i <= y \div L /\ y \div L \in Nat
    BY <1>1, <1>2, DivUpper, DivLower, DivWhole
  <1>4. y \div L = i
    BY <1>3
  <1>5. y = L * (y \div L) + (y % L) /\ y % L \in Int
    BY <1>1, <1>2
  <1>6. y % L = 0
    BY <1>2, <1>4, <1>5
  <1> QED
    BY <1>2, <1>4, <1>6 DEF L, y

\* The period has a first day and a day after it.
LEMMA PeriodDays ==
  ASSUME NEW day \in YearDays, NEW period \in {"day", "week", "month", "year"}
  PROVE  /\ FirstDay(period, day) \in Nat /\ DayAfter(period, day) \in Nat
         /\ FirstDay(period, day) <= day /\ day < DayAfter(period, day)
  <1>1. day \in Nat /\ Year \in Nat /\ day < Year
    BY MonthHolds DEF YearDays
  <1>2. CASE period = "day"
    BY <1>1, <1>2 DEF FirstDay, DayAfter
  <1>3. CASE period = "week"
    <2> DEFINE q == day \div WeekDays
    <2>1. WeekDays \in Nat \ {0}
      BY ReportAssumption
    <2>2. q \in Nat /\ WeekDays * q <= day /\ day < WeekDays * q + WeekDays
      BY <1>1, <2>1, DivWhole
    <2>3. FirstDay(period, day) = q * WeekDays /\ DayAfter(period, day) = q * WeekDays + WeekDays
      BY <1>3 DEF FirstDay, DayAfter, WeekOf
    <2> HIDE DEF q
    <2>4. q * WeekDays = WeekDays * q /\ q * WeekDays \in Nat
      BY <2>1, <2>2
    <2> QED
      BY <1>1, <2>1, <2>2, <2>3, <2>4
  <1>4. CASE period = "month"
    <2> DEFINE m == MonthOf(day)
    <2>1. m \in 1..Months /\ FirstOf(m) <= day /\ day < FirstOf(m + 1)
      BY MonthHolds
    <2>2. FirstDay(period, day) = FirstOf(m) /\ DayAfter(period, day) = FirstOf(m + 1)
      BY <1>4 DEF FirstDay, DayAfter
    <2> HIDE DEF m
    <2>3. m \in 1..(Months + 1) /\ m + 1 \in 1..(Months + 1)
      BY <2>1, MonthsKnown
    <2>4. FirstOf(m) \in Nat /\ FirstOf(m + 1) \in Nat
      BY <2>3, FirstDays
    <2> QED
      BY <2>1, <2>2, <2>4
  <1>5. CASE period = "year"
    BY <1>1, <1>5 DEF FirstDay, DayAfter
  <1> QED
    BY <1>2, <1>3, <1>4, <1>5

\* A period is between two marks on the wall clock, and its buckets between those that follow each
\* other from the one to the other.
Marked(bounds, starts, T, a, b) ==
  /\ a <= b /\ Rises(T, a, b) /\ bounds = <<T[a], T[b]>>
  /\ starts = {<<T[i], T[i + 1]>> : i \in a..(b - 1)}

\* Times in UTC of marks on the wall clock that do not go back.
LEMMA MarksRise ==
  ASSUME change \in {-1, 0, 1}, NEW a \in Int, NEW b \in Int, NEW w, NEW T,
         \A i \in a..b : w[i] \in Int /\ T[i] = UtcOf(w[i]),
         \A i, j \in a..b : i <= j => w[i] <= w[j]
  PROVE  Rises(T, a, b)
  <1>1. ASSUME NEW i \in a..b PROVE T[i] \in Int
    <2>1. w[i] \in Int /\ w[i] <= w[i]
      OBVIOUS
    <2> QED
      BY <2>1, UtcRises
  <1>2. ASSUME NEW i \in a..b, NEW j \in a..b, i <= j PROVE T[i] <= T[j]
    <2>1. w[i] \in Int /\ w[j] \in Int /\ w[i] <= w[j]
      BY <1>2
    <2> QED
      BY <2>1, UtcRises
  <1> QED
    BY <1>1, <1>2 DEF Rises

\* Later days begin later on the wall clock.
LEMMA DaysRise ==
  ASSUME NEW i \in Int, NEW j \in Int, i <= j
  PROVE  i * DayLocalHours \in Int /\ j * DayLocalHours \in Int /\ i * DayLocalHours <= j * DayLocalHours
  <1>1. DayLocalHours \in Nat
    BY ReportAssumption
  <1>2. DayLocalHours * (j - i) >= 0
    BY <1>1
  <1>3. DayLocalHours * (j - i) = j * DayLocalHours - i * DayLocalHours
    BY <1>1
  <1> QED
    BY <1>1, <1>2, <1>3

\* The midnights of some days.
LEMMA MidnightHours ==
  ASSUME NEW f \in Nat, NEW g \in Nat
  PROVE  {w \in (f * DayLocalHours)..(g * DayLocalHours - 1) : w % DayLocalHours = 0}
           = {i * DayLocalHours : i \in f..(g - 1)}
  <1> DEFINE L == DayLocalHours
             S == {w \in (f * L)..(g * L - 1) : w % L = 0}
             R == {i * L : i \in f..(g - 1)}
  <1>0. L \in Nat \ {0} /\ f * L \in Nat /\ g * L \in Nat
    BY ReportAssumption
  <1>1. ASSUME NEW w \in S PROVE w \in R
    <2>1. w \in Nat /\ w % L = 0 /\ f * L <= w /\ w < g * L
      BY <1>0
    <2>2. PICK k \in Nat : w = L * k
      <3> HIDE DEF L, S
      <3> QED
        BY <1>0, <2>1, DivideEvenly
    <2>3. f <= k
      <3> SUFFICES ASSUME k < f PROVE FALSE
        OBVIOUS
      <3>1. L * (f - k) > 0 /\ L * (f - k) = f * L - L * k
        BY <1>0
      <3> QED
        BY <1>0, <2>1, <2>2, <3>1
    <2>4. k < g
      <3> SUFFICES ASSUME k >= g PROVE FALSE
        OBVIOUS
      <3>1. L * (k - g) >= 0 /\ L * (k - g) = L * k - g * L
        BY <1>0
      <3> QED
        BY <1>0, <2>1, <2>2, <3>1
    <2>5. k \in f..(g - 1) /\ w = k * L
      BY <1>0, <2>2, <2>3, <2>4
    <2> QED
      BY <2>5
  <1>2. ASSUME NEW i \in f..(g - 1) PROVE i * L \in S
    <2>1. i \in Nat /\ i * L \in Nat /\ (i * L) % L = 0
      BY HourOfDay
    <2>2. f * L <= i * L
      BY <2>1, DaysRise
    <2>3. i * L < g * L
      <3>1. L * (g - i) >= L
        BY <1>0, <2>1
      <3>2. L * (g - i) = g * L - i * L
        BY <1>0, <2>1
      <3> QED
        BY <1>0, <2>1, <3>1, <3>2
    <2> HIDE DEF L
    <2> QED
      BY <1>0, <2>1, <2>2, <2>3
  <1> HIDE DEF S
  <1>3. S = R
    BY <1>1, <1>2
  <1> QED
    BY <1>3 DEF S

\* The marks of a day are its hours.
LEMMA DayMarks ==
  ASSUME change \in {-1, 0, 1}, NEW day \in YearDays
  PROVE  \E a, b \in Int : \E T : Marked(PeriodBounds("day", day), BucketStarts("day", day), T, a, b)
  <1> DEFINE L == DayLocalHours
             a == day * L
             b == (day + 1) * L
             T == [i \in Int |-> UtcOf(i)]
             w == [i \in Int |-> i]
  <1>1. day \in Nat /\ L \in Nat
    BY ReportAssumption, MonthHolds DEF YearDays
  <1>2. a \in Int /\ b \in Int /\ a <= b
    BY <1>1, DaysRise
  <1>3. FirstDay("day", day) = day /\ DayAfter("day", day) = day + 1
    BY DEF FirstDay, DayAfter
  <1>4. PeriodBounds("day", day) = <<UtcOf(a), UtcOf(b)>>
    BY <1>3 DEF PeriodBounds
  <1>5. \A i : BucketEnd("day", i) = UtcOf(i + 1)
    BY DEF BucketEnd
  <1>6. BucketStarts("day", day) = {<<UtcOf(i), BucketEnd("day", i)>> : i \in a..(b - 1)}
    BY <1>3 DEF BucketStarts
  <1> HIDE DEF a, b
  <1>7. \A i \in Int : T[i] = UtcOf(i) /\ w[i] = i
    OBVIOUS
  <1> HIDE DEF T, w
  <1>8. Rises(T, a, b)
    BY <1>2, <1>7, MarksRise
  <1>9. \A i \in a..(b - 1) : i \in Int /\ i + 1 \in Int /\ T[i] = UtcOf(i) /\ T[i + 1] = UtcOf(i + 1)
    BY <1>2, <1>7
  <1>10. BucketStarts("day", day) = {<<T[i], T[i + 1]>> : i \in a..(b - 1)}
    BY <1>5, <1>6, <1>9
  <1>11. Marked(PeriodBounds("day", day), BucketStarts("day", day), T, a, b)
    BY <1>2, <1>4, <1>7, <1>8, <1>10 DEF Marked
  <1> QED
    BY <1>2, <1>11

\* The marks of a week and of a month are their midnights.
LEMMA MidnightMarks ==
  ASSUME change \in {-1, 0, 1}, NEW day \in YearDays, NEW period \in {"week", "month"}
  PROVE  \E a, b \in Int : \E T : Marked(PeriodBounds(period, day), BucketStarts(period, day), T, a, b)
  <1> DEFINE L == DayLocalHours
             a == FirstDay(period, day)
             b == DayAfter(period, day)
             T == [i \in Int |-> UtcOf(i * L)]
             w == [i \in Int |-> i * L]
  <1>1. L \in Nat
    BY ReportAssumption
  <1>2. a \in Nat /\ b \in Nat /\ a \in Int /\ b \in Int /\ a <= b
    <2>1. day \in Nat
      BY MonthHolds DEF YearDays
    <2>2. a \in Nat /\ b \in Nat /\ a <= day /\ day < b
      BY PeriodDays
    <2> HIDE DEF a, b
    <2> QED
      BY <2>1, <2>2
  <1>3. PeriodBounds(period, day) = <<UtcOf(a * L), UtcOf(b * L)>>
    BY DEF PeriodBounds
  <1>4. BucketStarts(period, day) = {<<UtcOf(v), BucketEnd(period, v)>> :
                                        v \in {v \in (a * L)..(b * L - 1) : v % L = 0}}
    BY DEF BucketStarts
  <1> HIDE DEF a, b
  <1>5. {v \in (a * L)..(b * L - 1) : v % L = 0} = {i * L : i \in a..(b - 1)}
    BY <1>2, MidnightHours
  <1>6. \A i \in a..(b - 1) : BucketEnd(period, i * L) = UtcOf((i + 1) * L)
    <2> TAKE i \in a..(b - 1)
    <2>1. i \in Nat
      BY <1>2
    <2>2. (i * L) \div L = i
      BY <2>1, HourOfDay
    <2>3. BucketEnd(period, i * L) = UtcOf(L * DayAfter("day", (i * L) \div L))
      BY DEF BucketEnd
    <2>4. DayAfter("day", i) = i + 1
      BY DEF DayAfter
    <2>5. L * (i + 1) = (i + 1) * L
      BY <1>1, <2>1
    <2> QED
      BY <2>2, <2>3, <2>4, <2>5
  <1>7. \A i \in Int : T[i] = UtcOf(i * L) /\ w[i] = i * L /\ w[i] \in Int
    BY <1>1
  <1>8. \A i, j \in Int : i <= j => w[i] <= w[j]
    BY <1>7, DaysRise
  <1> HIDE DEF T, w, L
  <1>9. Rises(T, a, b)
    <2>1. /\ \A i \in a..b : w[i] \in Int /\ T[i] = UtcOf(w[i])
          /\ \A i, j \in a..b : i <= j => w[i] <= w[j]
      BY <1>2, <1>7, <1>8
    <2> QED
      BY <1>2, <2>1, MarksRise
  <1>10. \A i \in a..(b - 1) : T[i] = UtcOf(i * L) /\ T[i + 1] = BucketEnd(period, i * L)
    BY <1>2, <1>6, <1>7
  <1>11. BucketStarts(period, day) = {<<T[i], T[i + 1]>> : i \in a..(b - 1)}
    BY <1>4, <1>5, <1>10
  <1>12. Marked(PeriodBounds(period, day), BucketStarts(period, day), T, a, b)
    BY <1>2, <1>3, <1>7, <1>9, <1>11 DEF Marked
  <1> QED
    BY <1>2, <1>12

\* The marks of a year are the first days of its months.
LEMMA MonthMarks ==
  ASSUME change \in {-1, 0, 1}, NEW day \in YearDays
  PROVE  \E a, b \in Int : \E T : Marked(PeriodBounds("year", day), BucketStarts("year", day), T, a, b)
  <1> DEFINE L == DayLocalHours
             a == 1
             b == Months + 1
             T == [k \in a..b |-> UtcOf(FirstOf(k) * L)]
             w == [k \in a..b |-> FirstOf(k) * L]
  <1>1. L \in Nat
    BY ReportAssumption
  <1>2. a \in Int /\ b \in Int /\ a <= b /\ a \in a..b /\ b \in a..b /\ a..(b - 1) = 1..Months
    BY MonthsKnown
  <1>3. PeriodBounds("year", day) = <<UtcOf(FirstOf(a) * L), UtcOf(FirstOf(b) * L)>>
    <2>1. FirstDay("year", day) = FirstOf(a) /\ DayAfter("year", day) = FirstOf(b)
      BY FirstDays DEF FirstDay, DayAfter
    <2> QED
      BY <2>1 DEF PeriodBounds
  <1>4. BucketStarts("year", day) = {<<UtcOf(v), BucketEnd("year", v)>> : v \in {FirstOf(k) * L : k \in 1..Months}}
    BY MonthsKnown DEF BucketStarts
  <1>5. \A k \in 1..Months : BucketEnd("year", FirstOf(k) * L) = UtcOf(FirstOf(k + 1) * L)
    <2> TAKE k \in 1..Months
    <2>1. FirstOf(k) \in Nat /\ FirstOf(k + 1) \in Nat /\ MonthOf(FirstOf(k)) = k
      <3>1. k \in 1..(Months + 1) /\ k + 1 \in 1..(Months + 1)
        BY MonthsKnown
      <3> QED
        BY <3>1, FirstDays, MonthHolds
    <2>2. (FirstOf(k) * L) \div L = FirstOf(k)
      BY <2>1, HourOfDay
    <2>3. BucketEnd("year", FirstOf(k) * L) = UtcOf(L * DayAfter("month", (FirstOf(k) * L) \div L))
      BY DEF BucketEnd
    <2>4. DayAfter("month", FirstOf(k)) = FirstOf(k + 1)
      BY <2>1 DEF DayAfter
    <2>5. L * FirstOf(k + 1) = FirstOf(k + 1) * L
      BY <1>1, <2>1
    <2> QED
      BY <2>2, <2>3, <2>4, <2>5
  <1> HIDE DEF L
  <1>6. \A i \in a..b : w[i] \in Int /\ T[i] = UtcOf(w[i]) /\ w[i] = FirstOf(i) * L
    <2>1. \A i \in a..b : FirstOf(i) \in Nat
      BY FirstDays
    <2> QED
      BY <1>1, <2>1
  <1>7. \A i, j \in a..b : i <= j => w[i] <= w[j]
    <2> SUFFICES ASSUME NEW i \in a..b, NEW j \in a..b, i <= j PROVE w[i] <= w[j]
      OBVIOUS
    <2>1. FirstOf(i) \in Nat /\ FirstOf(j) \in Nat
      BY FirstDays
    <2>2. FirstOf(i) <= FirstOf(j)
      <3>1. CASE i = j
        BY <2>1, <3>1
      <3>2. CASE i # j
        <4>1. i < j
          BY <1>2, <3>2
        <4>2. FirstOf(i) < FirstOf(j)
          BY <4>1, MonthsRise
        <4> QED
          BY <2>1, <4>2
      <3> QED
        BY <3>1, <3>2
    <2>3. FirstOf(i) * L <= FirstOf(j) * L
      BY <2>1, <2>2, DaysRise DEF L
    <2> HIDE DEF w
    <2> QED
      BY <1>6, <2>3
  <1> HIDE DEF T, w
  <1>8. Rises(T, a, b)
    BY <1>2, <1>6, <1>7, MarksRise
  <1>9. \A k \in 1..Months : T[k] = UtcOf(FirstOf(k) * L) /\ T[k + 1] = BucketEnd("year", FirstOf(k) * L)
    <2> TAKE k \in 1..Months
    <2>1. k \in a..b /\ k + 1 \in a..b
      BY MonthsKnown
    <2> QED
      BY <1>5, <1>6, <2>1
  <1>10. BucketStarts("year", day) = {<<T[k], T[k + 1]>> : k \in 1..Months}
    BY <1>4, <1>9
  <1>11. Marked(PeriodBounds("year", day), BucketStarts("year", day), T, a, b)
    BY <1>2, <1>3, <1>6, <1>8, <1>10 DEF Marked
  <1> QED
    BY <1>2, <1>11

LEMMA PeriodMarks ==
  ASSUME change \in {-1, 0, 1}, NEW day \in YearDays, NEW period \in {"day", "week", "month", "year"}
  PROVE  \E a, b \in Int : \E T : Marked(PeriodBounds(period, day), BucketStarts(period, day), T, a, b)
  BY DayMarks, MidnightMarks, MonthMarks

----------------------------------------------------------------------------
\* The stored hours are some of those gone by.
RowsStored ==
  /\ change \in {-1, 0, 1} /\ utc \in Nat
  /\ \A u \in DOMAIN hourRows : u \in 0..(utc - 1) /\ hourRows[u].import \in Int

\* Imported energy adds up over parts of the hours, and so does their number.
ImportOf(D) == [h \in SUBSET D |-> Totals(h).import]
HoursOf(D) == [h \in SUBSET D |-> Totals(h).hours]

LEMMA StoredFinite == ASSUME RowsStored PROVE IsFiniteSet(DOMAIN hourRows) /\ DOMAIN hourRows \in SUBSET Int
  <1>1. 0 \in Int /\ utc - 1 \in Int
    BY DEF RowsStored
  <1>2. DOMAIN hourRows \in SUBSET (0..(utc - 1))
    BY DEF RowsStored
  <1>3. IsFiniteSet(0..(utc - 1))
    BY <1>1, FS_Interval
  <1>4. \A u \in DOMAIN hourRows : u \in Int
    BY <1>1 DEF RowsStored
  <1> QED
    BY <1>2, <1>3, <1>4, FS_Subset

LEMMA ImportAdds == ASSUME RowsStored PROVE Additive(ImportOf(DOMAIN hourRows), DOMAIN hourRows)
  <1> DEFINE D == DOMAIN hourRows
             w == [u \in D |-> hourRows[u].import]
             A == ImportOf(D)
  <1>1. ASSUME NEW S \in SUBSET D PROVE A[S] = SumOver(w, S)
    <2> DEFINE Sums(F) == F = [s \in SUBSET S |-> IF s = {} THEN 0 ELSE hourRows[CHOOSE x \in s : TRUE].import + F[s \ {CHOOSE x \in s : TRUE}]]
    <2>1. ASSUME NEW F PROVE Sums(F) <=> Adds(F, w, S)
      <3>1. \A s \in SUBSET S : s # {} => w[Picked(s)] = hourRows[CHOOSE x \in s : TRUE].import
        BY PickedIn DEF Picked
      <3> HIDE DEF w
      <3> QED
        BY <3>1 DEF Picked, Adds
    <2>2. A[S] = (CHOOSE F : Sums(F))[S]
      <3>1. A[S] = Totals(S).import
        BY DEF ImportOf
      <3>2. Totals(S).import = MapThenSumSet(LAMBDA u : hourRows[u].import, S)
        BY DEF Totals
      <3>3. MapThenSumSet(LAMBDA u : hourRows[u].import, S) = (CHOOSE F : Sums(F))[S]
        BY DEF MapThenSumSet, MapThenFoldSet
      <3> QED
        BY <3>1, <3>2, <3>3
    <2> HIDE DEF Sums
    <2>3. (CHOOSE F : Sums(F)) = (CHOOSE F : Adds(F, w, S))
      BY <2>1
    <2> QED
      BY <2>2, <2>3 DEF SumOver
  <1>2. IsFiniteSet(D) /\ \A S \in SUBSET D : IsFiniteSet(S) /\ Numbers(w, S)
    BY StoredFinite, FS_Subset DEF RowsStored, Numbers
  <1> HIDE DEF D, w, A
  <1>3. A[{}] = 0
    BY <1>1, SumEmpty
  <1>4. \A S \in SUBSET D : A[S] \in Int
    BY <1>1, <1>2, SumInt
  <1>5. ASSUME NEW R \in SUBSET D, NEW S \in SUBSET D, R \cap S = {} PROVE A[R \cup S] = A[R] + A[S]
    <2>1. R \cup S \in SUBSET D
      OBVIOUS
    <2>2. SumOver(w, R \cup S) = SumOver(w, R) + SumOver(w, S)
      BY <1>2, <1>5, <2>1, SumUnion
    <2> QED
      BY <1>1, <2>1, <2>2
  <1>6. Additive(A, D)
    BY <1>3, <1>4, <1>5 DEF Additive
  <1> QED
    BY <1>6 DEF A, D

LEMMA HoursAdd == ASSUME RowsStored PROVE Additive(HoursOf(DOMAIN hourRows), DOMAIN hourRows)
  <1> DEFINE D == DOMAIN hourRows
             A == HoursOf(D)
  <1>1. \A S \in SUBSET D : A[S] = Cardinality(S) /\ IsFiniteSet(S)
    BY StoredFinite, FS_Subset DEF HoursOf, Totals
  <1> HIDE DEF D, A
  <1>2. A[{}] = 0
    BY <1>1, FS_EmptySet
  <1>3. \A S \in SUBSET D : A[S] \in Int
    BY <1>1, FS_CardinalityType
  <1>4. ASSUME NEW R \in SUBSET D, NEW S \in SUBSET D, R \cap S = {} PROVE A[R \cup S] = A[R] + A[S]
    <2>1. R \cup S \in SUBSET D
      OBVIOUS
    <2>2. Cardinality(R \cup S) = Cardinality(R) + Cardinality(S) - Cardinality(R \cap S)
      BY <1>1, FS_Union
    <2>3. Cardinality(R \cap S) = 0
      BY <1>4, FS_EmptySet
    <2>4. Cardinality(R) \in Int /\ Cardinality(S) \in Int
      BY <1>1, FS_CardinalityType
    <2> QED
      BY <1>1, <2>1, <2>2, <2>3, <2>4
  <1>5. Additive(A, D)
    BY <1>2, <1>3, <1>4 DEF Additive
  <1> QED
    BY <1>5 DEF A, D

\* The buckets of a period, each with its totals.
BucketsOf(starts) == {<<b, Totals(Within(b))>> : b \in starts}

\* Every hour of a period is in just one bucket, and the buckets make the total.
LEMMA BucketsMakeIt ==
  ASSUME RowsStored, NEW bounds, NEW starts, NEW a \in Int, NEW b \in Int, NEW T, Marked(bounds, starts, T, a, b)
  PROVE  /\ \A u \in bounds[1]..(bounds[2] - 1) :
              Cardinality({x \in BucketsOf(starts) : x[1][1] <= u /\ u < x[1][2]}) = 1
         /\ Totals(Within(bounds)).import = FoldSet(LAMBDA x, sum : x[2].import + sum, 0, BucketsOf(starts))
         /\ Totals(Within(bounds)).hours = FoldSet(LAMBDA x, sum : x[2].hours + sum, 0, BucketsOf(starts))
  <1> DEFINE D == DOMAIN hourRows
             B == BucketsOf(starts)
             x == [i \in a..(b - 1) |-> <<<<T[i], T[i + 1]>>, Totals(Between(T, D, i, i + 1))>>]
  <1>1. /\ a <= b /\ Rises(T, a, b) /\ bounds = <<T[a], T[b]>>
        /\ starts = {<<T[i], T[i + 1]>> : i \in a..(b - 1)}
    BY DEF Marked
  <1>2. T[a] \in Int /\ T[b] \in Int
    <2>1. a \in a..b /\ b \in a..b
      BY <1>1
    <2> QED
      BY <1>1, <2>1 DEF Rises
  <1>3. \A i, j : Within(<<T[i], T[j]>>) = Between(T, D, i, j)
    BY DEF Within, Between
  <1>4. B = {x[i] : i \in a..(b - 1)}
    <2>1. B = {<<c, Totals(Within(c))>> : c \in {<<T[i], T[i + 1]>> : i \in a..(b - 1)}}
      BY <1>1 DEF BucketsOf
    <2>2. B = {<<<<T[i], T[i + 1]>>, Totals(Within(<<T[i], T[i + 1]>>))>> : i \in a..(b - 1)}
      BY <2>1
    <2>3. \A i \in a..(b - 1) : x[i] = <<<<T[i], T[i + 1]>>, Totals(Within(<<T[i], T[i + 1]>>))>>
      BY <1>3
    <2> HIDE DEF B, x
    <2> QED
      BY <2>2, <2>3
  <1>5. \A i \in a..(b - 1) : x[i][1][1] = T[i] /\ x[i][1][2] = T[i + 1] /\ x[i][2] = Totals(Between(T, D, i, i + 1))
    OBVIOUS
  <1> HIDE DEF x
  <1>6. \A u \in bounds[1]..(bounds[2] - 1) : Cardinality({y \in B : y[1][1] <= u /\ u < y[1][2]}) = 1
    <2> TAKE u \in bounds[1]..(bounds[2] - 1)
    <2>1. u \in Int /\ T[a] <= u /\ u < T[b]
      BY <1>1, <1>2
    <2>2. PICK i \in a..(b - 1) : /\ T[i] <= u /\ u < T[i + 1]
                                  /\ \A j \in a..(b - 1) : T[j] <= u /\ u < T[j + 1] => j = i
      BY <1>1, <2>1, BetweenTwo
    <2> HIDE DEF B
    <2>3. {y \in B : y[1][1] <= u /\ u < y[1][2]} = {x[i]}
      BY <1>4, <1>5, <2>2
    <2> QED
      BY <2>3, FS_Singleton
  <1> DEFINE I == [y \in B |-> y[2].import]
             H == [y \in B |-> y[2].hours]
  <1>8. FoldSet(LAMBDA y, sum : y[2].import + sum, 0, B) = SumOver(I, B)
    <2> HIDE DEF B
    <2> DEFINE Sums(F) == F = [s \in SUBSET B |-> IF s = {} THEN 0 ELSE (CHOOSE y \in s : TRUE)[2].import + F[s \ {CHOOSE y \in s : TRUE}]]
    <2>1. ASSUME NEW F PROVE Sums(F) <=> Adds(F, I, B)
      <3>1. \A s \in SUBSET B : s # {} => I[Picked(s)] = (CHOOSE y \in s : TRUE)[2].import
        BY PickedIn DEF Picked
      <3> HIDE DEF I
      <3> QED
        BY <3>1 DEF Picked, Adds
    <2>2. FoldSet(LAMBDA y, sum : y[2].import + sum, 0, B) = (CHOOSE F : Sums(F))[B]
      BY DEF FoldSet, MapThenFoldSet
    <2> HIDE DEF Sums
    <2>3. (CHOOSE F : Sums(F)) = (CHOOSE F : Adds(F, I, B))
      BY <2>1
    <2> QED
      BY <2>2, <2>3 DEF SumOver
  <1>9. FoldSet(LAMBDA y, sum : y[2].hours + sum, 0, B) = SumOver(H, B)
    <2> HIDE DEF B
    <2> DEFINE Sums(F) == F = [s \in SUBSET B |-> IF s = {} THEN 0 ELSE (CHOOSE y \in s : TRUE)[2].hours + F[s \ {CHOOSE y \in s : TRUE}]]
    <2>1. ASSUME NEW F PROVE Sums(F) <=> Adds(F, H, B)
      <3>1. \A s \in SUBSET B : s # {} => H[Picked(s)] = (CHOOSE y \in s : TRUE)[2].hours
        BY PickedIn DEF Picked
      <3> HIDE DEF H
      <3> QED
        BY <3>1 DEF Picked, Adds
    <2>2. FoldSet(LAMBDA y, sum : y[2].hours + sum, 0, B) = (CHOOSE F : Sums(F))[B]
      BY DEF FoldSet, MapThenFoldSet
    <2> HIDE DEF Sums
    <2>3. (CHOOSE F : Sums(F)) = (CHOOSE F : Adds(F, H, B))
      BY <2>1
    <2> QED
      BY <2>2, <2>3 DEF SumOver
  <1>10. \A i \in a..(b - 1) : I[x[i]] = ImportOf(D)[Between(T, D, i, i + 1)] /\ H[x[i]] = HoursOf(D)[Between(T, D, i, i + 1)]
    <2> TAKE i \in a..(b - 1)
    <2>1. x[i] \in B
      BY <1>4
    <2>2. I[x[i]] = x[i][2].import /\ H[x[i]] = x[i][2].hours
      BY <2>1
    <2>3. Between(T, D, i, i + 1) \in SUBSET D
      BY DEF Between
    <2> HIDE DEF D, I, H
    <2> QED
      BY <1>5, <2>2, <2>3 DEF ImportOf, HoursOf
  <1>11. \A i, j \in a..(b - 1) : x[i] = x[j] => T[i] = T[j] /\ T[i + 1] = T[j + 1]
    BY <1>5
  <1>12. Within(bounds) = Between(T, D, a, b) /\ Between(T, D, a, b) \in SUBSET D
    BY <1>1, <1>3 DEF Between
  <1>13. D \in SUBSET Int /\ Additive(ImportOf(D), D) /\ Additive(HoursOf(D), D)
    BY StoredFinite, ImportAdds, HoursAdd
  <1> HIDE DEF D, I, H
  <1>14. SumOver(I, B) = ImportOf(D)[Between(T, D, a, b)]
    <2> HIDE DEF B
    <2> DEFINE A == ImportOf(D)
    <2>2. \A i \in a..(b - 1) : I[x[i]] = A[Between(T, D, i, i + 1)]
      BY <1>10
    <2>3. Additive(A, D)
      BY <1>13
    <2>6. Bucketed(T, D, A, a, b, x, I)
      BY <1>11, <2>2 DEF Bucketed
    <2> HIDE DEF A
    <2>4. a <= b /\ Rises(T, a, b) /\ D \in SUBSET Int
      BY <1>1, <1>13
    <2>5. SumOver(I, B) = A[Between(T, D, a, b)]
      BY <1>4, <2>3, <2>4, <2>6, BucketsSum DEF Values
    <2> QED
      BY <2>5 DEF A
  <1>15. SumOver(H, B) = HoursOf(D)[Between(T, D, a, b)]
    <2> HIDE DEF B
    <2> DEFINE A == HoursOf(D)
    <2>2. \A i \in a..(b - 1) : H[x[i]] = A[Between(T, D, i, i + 1)]
      BY <1>10
    <2>3. Additive(A, D)
      BY <1>13
    <2>6. Bucketed(T, D, A, a, b, x, H)
      BY <1>11, <2>2 DEF Bucketed
    <2> HIDE DEF A
    <2>4. a <= b /\ Rises(T, a, b) /\ D \in SUBSET Int
      BY <1>1, <1>13
    <2>5. SumOver(H, B) = A[Between(T, D, a, b)]
      BY <1>4, <2>3, <2>4, <2>6, BucketsSum DEF Values
    <2> QED
      BY <2>5 DEF A
  <1>16. Totals(Within(bounds)).import = SumOver(I, B) /\ Totals(Within(bounds)).hours = SumOver(H, B)
    <2> HIDE DEF B
    <2> QED
      BY <1>12, <1>14, <1>15 DEF ImportOf, HoursOf
  <1> QED
    BY <1>6, <1>8, <1>9, <1>16

----------------------------------------------------------------------------
\* The week before begins a week earlier.
LEMMA WeekBefore ==
  ASSUME NEW day \in Nat, WeekOf(day) # 0
  PROVE  WeekOf(day - WeekDays) + WeekDays = WeekOf(day)
  <1> DEFINE W == WeekDays
             q == day \div W
             v == day - W
             p == v \div W
  <1>1. W \in Nat \ {0}
    BY ReportAssumption
  <1>2. q \in Nat /\ W * q <= day /\ day < W * q + W
    BY <1>1, DivWhole
  <1>3. WeekOf(day) = q * W
    BY DEF WeekOf
  <1>4. q >= 1
    <2>1. CASE q = 0
      BY <1>1, <1>3, <2>1
    <2> QED
      BY <1>2, <2>1
  <1> HIDE DEF q
  <1>5. W * (q - 1) = W * q - W /\ W * (q - 1) \in Nat
    BY <1>1, <1>2, <1>4
  <1>6. v \in Nat /\ W * (q - 1) <= v /\ v < W * q
    BY <1>1, <1>2, <1>5
  <1> HIDE DEF v
  <1>7. p \in Nat /\ W * p <= v /\ q - 1 <= p
    BY <1>1, <1>2, <1>6, DivWhole, DivLower
  <1>8. WeekOf(v) = p * W
    BY DEF WeekOf
  <1> HIDE DEF p
  <1>9. p < q
    <2> SUFFICES ASSUME p >= q PROVE FALSE
      BY <1>2, <1>7
    <2>1. W * (p - q) >= 0 /\ W * (p - q) = W * p - W * q
      BY <1>1, <1>2, <1>7
    <2>2. W * p \in Int /\ W * q \in Int
      BY <1>1, <1>2, <1>7
    <2> QED
      BY <1>6, <1>7, <2>1, <2>2
  <1>10. p = q - 1
    BY <1>2, <1>7, <1>9
  <1>11. p * W + W = q * W
    BY <1>1, <1>2, <1>10
  <1> QED
    BY <1>3, <1>8, <1>11 DEF v

\* The day before the first of a month is of the month before.
LEMMA MonthBefore ==
  ASSUME NEW m \in 1..Months, FirstOf(m) # 0
  PROVE  FirstOf(MonthOf(FirstOf(m) - 1) + 1) = FirstOf(m)
  <1> DEFINE d == FirstOf(m) - 1
             k == MonthOf(d)
  <1>1. m # 1 /\ Months \in Nat
    BY FirstDays, MonthsKnown
  <1>2. m - 1 \in 1..Months /\ m \in 1..(Months + 1) /\ m - 1 \in 1..(Months + 1) /\ (m - 1) + 1 = m
    BY <1>1
  <1>3. FirstOf(m) \in YearDays /\ FirstOf(m) \in Nat /\ Year \in Nat
    BY <1>2, MonthHolds, FirstDays
  <1>4. d \in YearDays /\ d \in Nat
    BY <1>3 DEF YearDays
  <1>5. FirstOf(m - 1) <= d /\ FirstOf(m - 1) \in Nat
    <2>1. FirstOf(m - 1) < FirstOf(m) /\ FirstOf(m - 1) \in Nat
      BY <1>2, FirstDays, MonthsRise
    <2> QED
      BY <1>3, <2>1
  <1>6. d < FirstOf(m)
    BY <1>3
  <1> HIDE DEF d
  <1>7. k \in 1..Months /\ FirstOf(k) <= d /\ d < FirstOf(k + 1)
    BY <1>4, MonthHolds
  <1> HIDE DEF k
  <1>8. k \in 1..(Months + 1) /\ k + 1 \in 1..(Months + 1)
    BY <1>1, <1>7
  <1>9. FirstOf(k) \in Nat /\ FirstOf(k + 1) \in Nat
    BY <1>8, FirstDays
  <1>10. ~(m < k + 1)
    <2> SUFFICES ASSUME m < k + 1 PROVE FALSE
      OBVIOUS
    <2>1. m <= k
      BY <1>7
    <2>2. FirstOf(m) <= FirstOf(k)
      <3>1. CASE m = k
        BY <1>9, <3>1
      <3>2. CASE m # k
        <4>1. m < k
          BY <1>7, <2>1, <3>2
        <4>2. FirstOf(m) < FirstOf(k)
          BY <1>2, <1>8, <4>1, MonthsRise
        <4> QED
          BY <1>3, <1>9, <4>2
      <3> QED
        BY <3>1, <3>2
    <2> QED
      BY <1>3, <1>4, <1>6, <1>7, <1>9, <2>2
  <1>11. ~(k + 1 < m)
    <2> SUFFICES ASSUME k + 1 < m PROVE FALSE
      OBVIOUS
    <2>1. FirstOf(k + 1) <= FirstOf(m - 1)
      <3>1. CASE k + 1 = m - 1
        BY <1>5, <3>1
      <3>2. CASE k + 1 # m - 1
        <4>1. k + 1 < m - 1
          BY <1>7, <3>2
        <4>2. FirstOf(k + 1) < FirstOf(m - 1)
          BY <1>2, <1>8, <4>1, MonthsRise
        <4> QED
          BY <1>5, <1>9, <4>2
      <3> QED
        BY <3>1, <3>2
    <2> QED
      BY <1>4, <1>5, <1>7, <1>9, <2>1
  <1>12. k + 1 = m
    BY <1>7, <1>10, <1>11
  <1> QED
    BY <1>12 DEF d, k

\* The period before ends where this one starts.
LEMMA EndsWhereItStarts ==
  ASSUME NEW day \in YearDays, NEW period \in {"day", "week", "month"}, FirstDay(period, day) # 0
  PROVE  PreviousBounds(period, day)[2] = PeriodBounds(period, day)[1]
  <1> DEFINE before == CASE period = "day" -> day - 1 [] period = "week" -> day - WeekDays
                         [] OTHER -> FirstDay(period, day) - 1
  <1>1. day \in Nat
    BY MonthHolds DEF YearDays
  <1>2. PreviousBounds(period, day) = PeriodBounds(period, before)
    BY DEF PreviousBounds
  <1>3. DayAfter(period, before) = FirstDay(period, day)
    <2>1. CASE period = "day"
      BY <1>1, <2>1 DEF DayAfter, FirstDay
    <2>2. CASE period = "week"
      <3>1. before = day - WeekDays /\ FirstDay(period, day) = WeekOf(day)
            /\ DayAfter(period, before) = WeekOf(before) + WeekDays
        BY <2>2 DEF DayAfter, FirstDay
      <3> QED
        BY <1>1, <3>1, WeekBefore
    <2>3. CASE period = "month"
      <3>1. FirstDay(period, day) = FirstOf(MonthOf(day))
        BY <2>3 DEF FirstDay
      <3>2. before = FirstOf(MonthOf(day)) - 1
        BY <2>3, <3>1
      <3> HIDE DEF before
      <3>3. DayAfter(period, before) = FirstOf(MonthOf(before) + 1)
        BY <2>3 DEF DayAfter
      <3>4. MonthOf(day) \in 1..Months
        BY MonthHolds
      <3> QED
        BY <3>1, <3>2, <3>3, <3>4, MonthBefore
    <2> QED
      BY <2>1, <2>2, <2>3
  <1> HIDE DEF before
  <1> QED
    BY <1>2, <1>3 DEF PeriodBounds

\* What is stored of a period are hours of it that have gone by.
LEMMA CoveredHours ==
  ASSUME RowsStored, NEW bounds, bounds[1] \in Int, bounds[2] \in Int, bounds[1] <= bounds[2], utc >= bounds[1]
  PROVE  Cardinality(Within(bounds)) <= Min({utc, bounds[2]}) - bounds[1]
  <1> DEFINE m == Min({utc, bounds[2]})
             n == bounds[1]
  <1>0. utc \in Int
    BY DEF RowsStored
  <1>1. m \in {utc, bounds[2]} /\ m \in Int /\ n \in Int /\ n <= m
    BY <1>0, MinOfTwo
  <1>2. ASSUME NEW u \in Within(bounds) PROVE u \in n..(m - 1)
    <2>1. u \in 0..(utc - 1) /\ u >= n /\ u < bounds[2]
      BY DEF Within, RowsStored
    <2> HIDE DEF m
    <2> QED
      BY <1>0, <1>1, <2>1
  <1> HIDE DEF m, n
  <1>3. IsFiniteSet(n..(m - 1)) /\ Cardinality(n..(m - 1)) = m - n
    <2>1. n \in Int /\ m - 1 \in Int
      BY <1>1
    <2>2. IsFiniteSet(n..(m - 1)) /\ Cardinality(n..(m - 1)) = IF n > m - 1 THEN 0 ELSE (m - 1) - n + 1
      BY <2>1, FS_Interval
    <2> QED
      BY <1>1, <2>2
  <1>4. Within(bounds) \in SUBSET (n..(m - 1))
    BY <1>2
  <1>5. Cardinality(Within(bounds)) <= m - n
    BY <1>3, <1>4, FS_Subset
  <1> QED
    BY <1>5 DEF m, n

\* What the wall clock shows in an hour of the year is an hour of the year.
LEMMA WallOfYear ==
  ASSUME change \in {-1, 0, 1}, NEW day, NEW u \in Nat, PeriodBounds("year", day)[1] <= u, u < PeriodBounds("year", day)[2]
  PROVE  Wall(u) \in Nat /\ Wall(u) < Year * DayLocalHours
  <1> DEFINE y == Year * DayLocalHours
  <1>1. y \in Nat /\ ChangeAt \in Nat \ {0}
    BY MonthHolds, ReportAssumption
  <1>2. u < UtcOf(y)
    BY DEF PeriodBounds, DayAfter
  <1>3. Max({change, 0}) = IF change = 1 THEN 1 ELSE 0
    <2>1. change \in Int /\ 0 \in Int
      OBVIOUS
    <2>2. Max({change, 0}) \in {change, 0} /\ Max({change, 0}) >= change /\ Max({change, 0}) >= 0
      BY <2>1, MaxOfTwo, MaxBoth
    <2> QED
      BY <2>2
  <1> HIDE DEF y
  <1>4. Wall(u) \in Nat /\ Wall(u) < y
    BY <1>1, <1>2, <1>3 DEF Wall, UtcOf
  <1> QED
    BY <1>4 DEF y

\* The year's map holds every hour of the year once.
LEMMA MapHolds ==
  ASSUME RowsStored, NEW day, NEW u \in Within(PeriodBounds("year", day))
  PROVE  Cardinality({cell \in DOMAIN YearMap : u \in YearMap[cell]}) = 1
  <1> DEFINE L == DayLocalHours
             v == Wall(u)
             C == YearDays \X (0..(L - 1))
             c == <<v \div L, v % L>>
  <1>1. L \in Nat \ {0} /\ Year \in Nat
    BY ReportAssumption, MonthHolds
  <1>2. u \in Nat /\ PeriodBounds("year", day)[1] <= u /\ u < PeriodBounds("year", day)[2]
    <2>1. PeriodBounds("year", day)[1] \in Int
      <3>1. 0 * DayLocalHours \in Int
        BY ReportAssumption
      <3> QED
        BY <3>1, UtcRises DEF PeriodBounds, FirstDay, RowsStored
    <2>2. u \in 0..(utc - 1) /\ u >= PeriodBounds("year", day)[1] /\ u < PeriodBounds("year", day)[2]
      BY DEF Within, RowsStored
    <2> QED
      BY <2>1, <2>2
  <1>3. v \in Nat /\ v < Year * L
    BY <1>2, WallOfYear DEF RowsStored
  <1>4. u \in Within(PeriodBounds("year", 0))
    <2>1. PeriodBounds("year", day) = PeriodBounds("year", 0)
      BY DEF PeriodBounds, FirstDay, DayAfter
    <2> QED
      BY <2>1
  <1>5. DOMAIN YearMap = C /\ \A cell \in C : u \in YearMap[cell] <=> v \div L = cell[1] /\ v % L = cell[2]
    BY <1>4 DEF YearMap
  <1> HIDE DEF v, L
  <1>6. v \div L \in Nat /\ v \div L < Year /\ v % L \in 0..(L - 1)
    <2>1. v \div L \in Nat /\ L * (v \div L) <= v /\ v % L \in 0..(L - 1)
      BY <1>1, <1>3, DivWhole
    <2> DEFINE q == v \div L
    <2>2. q \in Nat /\ L * q < Year * L
      BY <1>1, <1>3, <2>1
    <2> HIDE DEF q
    <2>3. q < Year
      <3> SUFFICES ASSUME q >= Year PROVE FALSE
        BY <1>1, <2>2
      <3>1. L * (q - Year) >= 0 /\ L * (q - Year) = L * q - Year * L
        BY <1>1, <2>2
      <3> QED
        BY <1>1, <2>2, <3>1
    <2> QED
      BY <2>1, <2>3 DEF q
  <1>7. c \in C
    BY <1>1, <1>6 DEF YearDays
  <1>8. {cell \in DOMAIN YearMap : u \in YearMap[cell]} = {c}
    <2>1. \A cell \in C : u \in YearMap[cell] <=> cell = c
      BY <1>5
    <2> HIDE DEF C, c
    <2> QED
      BY <1>5, <1>7, <2>1
  <1> QED
    BY <1>8, FS_Singleton

----------------------------------------------------------------------------
\* What BucketsAddUp says of a report: of its numbers, and of its map.
NumbersAddUp(r) ==
  /\ \A u \in r.bounds[1]..(r.bounds[2] - 1) :
        Cardinality({b \in r.buckets : b[1][1] <= u /\ u < b[1][2]}) = 1
  /\ r.totals.import = FoldSet(LAMBDA b, sum : b[2].import + sum, 0, r.buckets)
  /\ r.totals.hours = FoldSet(LAMBDA b, sum : b[2].hours + sum, 0, r.buckets)
  /\ r.previous # <<>> => r.previous[2] = r.bounds[1]
  /\ r.coverage[1] <= r.coverage[2]
MapAddsUp(r) ==
  r.map # <<>> => \A u \in Within(r.bounds) : Cardinality({cell \in DOMAIN r.map : u \in r.map[cell]}) = 1
ReportAddsUp(r) == NumbersAddUp(r) /\ MapAddsUp(r)

\* Every report does.
AllAddUp == \A r \in reported : ReportAddsUp(r)

\* The report on a period.
ReportOf(period, day) ==
  [period |-> period, bounds |-> PeriodBounds(period, day),
   previous |-> IF period = "year" \/ FirstDay(period, day) = 0 THEN <<>> ELSE PreviousBounds(period, day),
   totals |-> Totals(Within(PeriodBounds(period, day))),
   tax |-> PvTax(Totals(Within(PeriodBounds(period, day)))),
   cheap |-> CheapShare(Within(PeriodBounds(period, day))),
   buckets |-> {<<b, Totals(Within(b))>> : b \in BucketStarts(period, day)},
   map |-> IF period = "year" THEN YearMap ELSE <<>>,
   coverage |-> <<Cardinality(Within(PeriodBounds(period, day))),
                  Min({utc, PeriodBounds(period, day)[2]}) - PeriodBounds(period, day)[1]>>]

\* A report on any period adds up.
LEMMA AnyAddsUp ==
  ASSUME RowsStored, NEW period \in {"day", "week", "month", "year"}, NEW day \in YearDays,
         utc >= PeriodBounds(period, day)[1]
  PROVE  ReportAddsUp(ReportOf(period, day))
  <1> DEFINE r == ReportOf(period, day)
             bounds == PeriodBounds(period, day)
  <1>1. /\ r.bounds = bounds /\ r.buckets = BucketsOf(BucketStarts(period, day)) /\ r.totals = Totals(Within(bounds))
        /\ r.previous = IF period = "year" \/ FirstDay(period, day) = 0 THEN <<>> ELSE PreviousBounds(period, day)
        /\ r.map = IF period = "year" THEN YearMap ELSE <<>>
        /\ r.coverage[1] = Cardinality(Within(bounds)) /\ r.coverage[2] = Min({utc, bounds[2]}) - bounds[1]
    BY DEF ReportOf, BucketsOf
  <1> HIDE DEF r
  <1>2. PICK a \in Int, b \in Int : \E T : Marked(bounds, BucketStarts(period, day), T, a, b)
    BY PeriodMarks DEF RowsStored
  <1>8. PICK T : Marked(bounds, BucketStarts(period, day), T, a, b)
    BY <1>2
  <1>3. /\ \A u \in bounds[1]..(bounds[2] - 1) :
             Cardinality({x \in BucketsOf(BucketStarts(period, day)) : x[1][1] <= u /\ u < x[1][2]}) = 1
        /\ Totals(Within(bounds)).import = FoldSet(LAMBDA x, sum : x[2].import + sum, 0, BucketsOf(BucketStarts(period, day)))
        /\ Totals(Within(bounds)).hours = FoldSet(LAMBDA x, sum : x[2].hours + sum, 0, BucketsOf(BucketStarts(period, day)))
    BY <1>8, BucketsMakeIt
  <1>4. r.previous # <<>> => r.previous[2] = r.bounds[1]
    BY <1>1, EndsWhereItStarts
  <1>5. r.coverage[1] <= r.coverage[2]
    <2>1. bounds[1] \in Int /\ bounds[2] \in Int /\ bounds[1] <= bounds[2]
      <3>1. a \in a..b /\ b \in a..b /\ a <= b /\ bounds = <<T[a], T[b]>>
        BY <1>8 DEF Marked
      <3> HIDE DEF bounds
      <3> QED
        BY <1>8, <3>1 DEF Marked, Rises
    <2> QED
      BY <1>1, <2>1, CoveredHours
  <1>6. r.map # <<>> => \A u \in Within(r.bounds) : Cardinality({cell \in DOMAIN r.map : u \in r.map[cell]}) = 1
    <2> SUFFICES ASSUME r.map # <<>>, NEW u \in Within(r.bounds)
                 PROVE  Cardinality({cell \in DOMAIN r.map : u \in r.map[cell]}) = 1
      OBVIOUS
    <2>1. period = "year"
      BY <1>1
    <2>2. r.map = YearMap /\ u \in Within(PeriodBounds("year", day))
      BY <1>1, <2>1
    <2>3. Cardinality({cell \in DOMAIN YearMap : u \in YearMap[cell]}) = 1
      BY <2>2, MapHolds
    <2> QED
      BY <2>2, <2>3
  <1>7. /\ \A u \in r.bounds[1]..(r.bounds[2] - 1) :
             Cardinality({x \in r.buckets : x[1][1] <= u /\ u < x[1][2]}) = 1
        /\ r.totals.import = FoldSet(LAMBDA x, sum : x[2].import + sum, 0, r.buckets)
        /\ r.totals.hours = FoldSet(LAMBDA x, sum : x[2].hours + sum, 0, r.buckets)
    <2> HIDE DEF bounds
    <2> QED
      BY <1>1, <1>3
  <1>9. ReportAddsUp(r)
    BY <1>4, <1>5, <1>6, <1>7 DEF ReportAddsUp, NumbersAddUp, MapAddsUp
  <1> QED
    BY <1>9 DEF r

----------------------------------------------------------------------------
ReportInv == RowsStored /\ AllAddUp

LEMMA ReportStarts == ASSUME ReportInit PROVE ReportInv
  <1>1. change \in {-1, 0, 1}
    BY ReportAssumption DEF ReportInit
  <1>2. DOMAIN hourRows = {}
    BY DEF ReportInit
  <1> QED
    BY <1>1, <1>2 DEF ReportInit, ReportInv, RowsStored, AllAddUp

LEMMA HourGone == ASSUME ReportInv, HourStored \/ HourMissing PROVE ReportInv'
  <1>1. reported' = {}
    BY DEF HourStored, HourMissing
  <1>2. RowsStored'
    <2>1. CASE HourMissing
      <3>1. \A u \in DOMAIN hourRows : u \in 0..(utc' - 1)
        BY <2>1 DEF HourMissing, ReportInv, RowsStored
      <3> QED
        BY <2>1, <3>1 DEF HourMissing, ReportInv, RowsStored
    <2>2. CASE HourStored
      <3> DEFINE row == EnergyRows[(utc % Len(EnergyRows)) + 1]
      <3>1. row.import \in Int
        <4>1. Len(EnergyRows) \in Nat \ {0} /\ utc \in Nat
          BY ReportAssumption DEF ReportInv, RowsStored
        <4>2. (utc % Len(EnergyRows)) + 1 \in 1..Len(EnergyRows)
          BY <4>1
        <4> DEFINE R == [import : Int, export : Int, pump : Int, price : Int]
        <4>4. EnergyRows \in Seq(R)
          BY ReportAssumption
        <4> HIDE DEF R
        <4>5. row \in R
          BY <4>2, <4>4
        <4>3. row \in [import : Int, export : Int, pump : Int, price : Int]
          BY <4>5 DEF R
        <4> HIDE DEF row
        <4> QED
          BY <4>3
      <3>2. /\ utc' = utc + 1 /\ change' = change /\ DOMAIN hourRows' = DOMAIN hourRows \cup {utc}
            /\ hourRows'[utc] = row /\ \A u \in DOMAIN hourRows : u # utc => hourRows'[u] = hourRows[u]
        BY <2>2 DEF HourStored
      <3> HIDE DEF row
      <3>3. utc \in Nat /\ \A u \in DOMAIN hourRows : u \in 0..(utc - 1) /\ hourRows[u].import \in Int
        BY DEF ReportInv, RowsStored
      <3>4. \A u \in DOMAIN hourRows' : u \in 0..(utc' - 1)
        BY <3>2, <3>3
      <3>5. \A u \in DOMAIN hourRows' : hourRows'[u].import \in Int
        BY <3>1, <3>2, <3>3
      <3> QED
        BY <3>2, <3>3, <3>4, <3>5 DEF ReportInv, RowsStored
    <2> QED
      BY <2>1, <2>2
  <1> QED
    BY <1>1, <1>2 DEF ReportInv, AllAddUp

LEMMA ReportKept ==
  ASSUME ReportInv, NEW period \in {"day", "week", "month", "year"}, NEW day \in YearDays, ReportEnergy(period, day)
  PROVE  ReportInv'
  <1>1. RowsStored
    BY DEF ReportInv
  <1>2. reported' = {ReportOf(period, day)} /\ utc >= PeriodBounds(period, day)[1]
    BY DEF ReportEnergy, ReportOf
  <1>3. change' = change /\ utc' = utc /\ hourRows' = hourRows
    BY DEF ReportEnergy
  <1>4. ReportAddsUp(ReportOf(period, day))
    BY <1>1, <1>2, AnyAddsUp
  <1>5. \A r : MapAddsUp(r)' <=> MapAddsUp(r)
    BY <1>3 DEF MapAddsUp, Within
  <1>6. AllAddUp'
    BY <1>2, <1>4, <1>5 DEF AllAddUp, ReportAddsUp
  <1> QED
    BY <1>1, <1>3, <1>6 DEF ReportInv, RowsStored

\* The buckets of every report make up its period and its total, for days, weeks, months and a year
\* of any length, and whenever the clocks change (summary, bucket_starts, period_bounds, year_map).
THEOREM BucketsMakeThePeriod == ReportSpec => []BucketsAddUp
  <1>1. ReportInit => ReportInv
    BY ReportStarts
  <1>2. ReportInv /\ [ReportNext]_reportVars => ReportInv'
    <2> SUFFICES ASSUME ReportInv, [ReportNext]_reportVars PROVE ReportInv'
      OBVIOUS
    <2>1. CASE HourStored \/ HourMissing
      BY <2>1, HourGone
    <2>2. CASE \E period \in {"day", "week", "month", "year"}, day \in YearDays : ReportEnergy(period, day)
      BY <2>2, ReportKept
    <2>3. CASE UNCHANGED reportVars
      <3>1. change' = change /\ utc' = utc /\ hourRows' = hourRows /\ reported' = reported
        BY <2>3 DEF reportVars
      <3>2. RowsStored'
        BY <3>1 DEF ReportInv, RowsStored
      <3>3. \A r : MapAddsUp(r)' <=> MapAddsUp(r)
        BY <3>1 DEF MapAddsUp, Within
      <3>4. AllAddUp'
        BY <3>1, <3>3 DEF ReportInv, AllAddUp, ReportAddsUp
      <3> QED
        BY <3>2, <3>4 DEF ReportInv
    <2> QED
      BY <2>1, <2>2, <2>3 DEF ReportNext
  <1>3. ReportInv => BucketsAddUp
    BY DEF ReportInv, AllAddUp, ReportAddsUp, NumbersAddUp, MapAddsUp, BucketsAddUp
  <1> QED
    BY <1>1, <1>2, <1>3, PTL DEF ReportSpec

----------------------------------------------------------------------------
(* The check of the battery *)

\* What went into the battery and what came out, by minute and for some minutes, and how many they are.
PowerIn(r) == [m \in DOMAIN r |-> IF r[m].battery < 0 THEN 0 - r[m].battery ELSE 0]
PowerOut(r) == [m \in DOMAIN r |-> IF r[m].battery > 0 THEN r[m].battery ELSE 0]
EnergyIn(r) == [S \in SUBSET DOMAIN r |-> SumOver(PowerIn(r), S)]
EnergyOut(r) == [S \in SUBSET DOMAIN r |-> SumOver(PowerOut(r), S)]
MinutesIn(D) == [S \in SUBSET D |-> Cardinality(S)]
AgreesWith(r, part, S) ==
  /\ part.minutes = MinutesIn(DOMAIN r)[S]
  /\ part.charged = EnergyIn(r)[S] /\ part.discharged = EnergyOut(r)[S]

\* Of some minutes those that know the level; what a section tells of it.
LevelsIn(r, S) == {m \in S : r[m].level # NoLevel}
LevelsTold(r, part, S) ==
  /\ part.levelFrom = IF LevelsIn(r, S) = {} THEN NoLevel ELSE r[Min(LevelsIn(r, S))].level
  /\ part.levelTo = IF LevelsIn(r, S) = {} THEN NoLevel ELSE r[Max(LevelsIn(r, S))].level

\* What the report tells, of the rows r.
RowsOfDay(r, day) == {m \in DOMAIN r : DayOfMinute(m) = day}
Told(r, f) ==
  /\ AgreesWith(r, f.total, DOMAIN r)
  /\ \A day \in Midnights \cup {CheckStart} :
        IF RowsOfDay(r, day) = {} THEN day \notin DOMAIN f.lines
        ELSE day \in DOMAIN f.lines /\ AgreesWith(r, f.lines[day], RowsOfDay(r, day))
  /\ \A d \in f.total.delta :
        d = (r[Max(LevelsIn(r, DOMAIN r))].level - r[Min(LevelsIn(r, DOMAIN r))].level) * LevelSize

\* The rows read so far; of them those of the section that starts at d, before the next section.
RowsSeen(r, w) == {m \in DOMAIN r : m < w}
RowsFrom(r, w, D, d) == {m \in RowsSeen(r, w) : d <= m /\ \A c \in D : d < c => m < c}

MinutesCome ==
  /\ minuteNext \in Nat /\ CheckStart <= minuteNext /\ (minuteNext <= CheckEnd \/ minuteNext = CheckStart)
  /\ DOMAIN minuteRows \in SUBSET (CheckStart..(minuteNext - 1))
  /\ \A m \in DOMAIN minuteRows : minuteRows[m] \in BatteryRows
  /\ window \in Nat /\ CheckStart <= window
  /\ minuteNext < CheckEnd => window = CheckStart
  /\ finding # {} => window >= CheckEnd
\* The sections have the rows read so far, each of them in one section and with its own day.
SectionsCut ==
  /\ DOMAIN days \in SUBSET RowsSeen(minuteRows, window)
  /\ \A m \in RowsSeen(minuteRows, window) : \E d \in DOMAIN days : d <= m
  /\ \A d \in DOMAIN days :
        LET S == RowsFrom(minuteRows, window, DOMAIN days, d)
        IN  /\ AgreesWith(minuteRows, days[d], S) /\ LevelsTold(minuteRows, days[d], S)
            /\ \A m \in S : DayOfMinute(m) = DayOfMinute(d)
CheckInv == MinutesCome /\ SectionsCut /\ \A f \in finding : Told(minuteRows, f)

\* What adds up over parts of D adds up over parts R that have no minute in common.
Joint(R, T, D) == {x \in D : \E d \in T : x \in R[d]}
Apart2(R, T, D) == \A d \in T : R[d] \in SUBSET D /\ \A e \in T : d # e => R[d] \cap R[e] = {}
Each(A, R, T, w) == \A d \in T : w[d] = A[R[d]]
LEMMA PartsAdd ==
  ASSUME NEW D, NEW A, Additive(A, D), NEW T, IsFiniteSet(T), NEW R, Apart2(R, T, D), NEW w, Each(A, R, T, w)
  PROVE  SumOver(w, T) = A[Joint(R, T, D)]
  <1> DEFINE P == {U \in SUBSET T : SumOver(w, U) = A[Joint(R, U, D)]}
  <1>1. {} \in P
    <2>1. Joint(R, {}, D) = {}
      BY DEF Joint
    <2> QED
      BY <2>1, SumEmpty DEF Additive
  <1>2. ASSUME NEW U \in SUBSET T, NEW x \in T, U \in P, x \notin U PROVE U \cup {x} \in P
    <2> DEFINE J == Joint(R, U, D)
    <2>1. J \in SUBSET D /\ R[x] \in SUBSET D /\ J \cap R[x] = {}
      BY <1>2 DEF Joint, Apart2
    <2>2. Joint(R, U \cup {x}, D) = J \cup R[x]
      BY <2>1 DEF Joint
    <2>3. A[J \cup R[x]] = A[J] + A[R[x]] /\ A[J] \in Int /\ A[R[x]] \in Int
      BY <2>1 DEF Additive
    <2>4. IsFiniteSet(U) /\ Numbers(w, U \cup {x})
      <3>1. \A d \in T : w[d] \in Int
        BY DEF Each, Apart2, Additive
      <3> QED
        BY <1>2, <3>1, FS_Subset DEF Numbers
    <2>5. SumOver(w, U \cup {x}) = w[x] + SumOver(w, U)
      BY <1>2, <2>4, SumWith
    <2>6. SumOver(w, U) = A[J] /\ w[x] = A[R[x]]
      BY <1>2 DEF Each
    <2> HIDE DEF J
    <2>7. SumOver(w, U \cup {x}) = A[J] + A[R[x]]
      BY <2>3, <2>5, <2>6
    <2> QED
      BY <2>2, <2>3, <2>7 DEF J
  <1>3. T \in P
    <2> HIDE DEF P
    <2> QED
      BY <1>1, <1>2, SetsByInduction
  <1> QED
    BY <1>3

\* Rows have numbers, and there are finitely many.
LEMMA RowsNumbers ==
  ASSUME MinutesCome
  PROVE  /\ IsFiniteSet(DOMAIN minuteRows) /\ DOMAIN minuteRows \in SUBSET Nat
         /\ \A m \in DOMAIN minuteRows : minuteRows[m].battery \in Int /\ minuteRows[m].level \in Nat \cup {NoLevel}
         /\ \A m \in DOMAIN minuteRows : m < minuteNext
         /\ Numbers(PowerIn(minuteRows), DOMAIN minuteRows) /\ Numbers(PowerOut(minuteRows), DOMAIN minuteRows)
  <1>1. \A m \in DOMAIN minuteRows : minuteRows[m].battery \in Int /\ minuteRows[m].level \in Nat \cup {NoLevel}
    BY CheckAssumption DEF MinutesCome
  <1>2. IsFiniteSet(CheckStart..(minuteNext - 1))
    BY CheckAssumption, FS_Interval DEF MinutesCome
  <1>3. IsFiniteSet(DOMAIN minuteRows)
    BY <1>2, FS_Subset DEF MinutesCome
  <1>4. DOMAIN minuteRows \in SUBSET Nat /\ \A m \in DOMAIN minuteRows : m < minuteNext
    BY CheckAssumption DEF MinutesCome
  <1> QED
    BY <1>1, <1>3, <1>4 DEF Numbers, PowerIn, PowerOut

LEMMA SumsAdd ==
  ASSUME NEW w, NEW D, IsFiniteSet(D), Numbers(w, D)
  PROVE  Additive([S \in SUBSET D |-> SumOver(w, S)], D)
  <1> DEFINE A == [S \in SUBSET D |-> SumOver(w, S)]
  <1>1. \A S \in SUBSET D : A[S] = SumOver(w, S) /\ IsFiniteSet(S) /\ Numbers(w, S)
    BY FS_Subset DEF Numbers
  <1> HIDE DEF A
  <1>2. A[{}] = 0
    BY <1>1, SumEmpty
  <1>3. \A S \in SUBSET D : A[S] \in Int
    BY <1>1, SumInt
  <1>4. ASSUME NEW R \in SUBSET D, NEW S \in SUBSET D, R \cap S = {} PROVE A[R \cup S] = A[R] + A[S]
    <2>1. R \cup S \in SUBSET D
      OBVIOUS
    <2>2. SumOver(w, R \cup S) = SumOver(w, R) + SumOver(w, S)
      BY <1>1, <1>4, <2>1, SumUnion
    <2> QED
      BY <1>1, <2>1, <2>2
  <1>5. Additive(A, D)
    BY <1>2, <1>3, <1>4 DEF Additive
  <1> QED
    BY <1>5 DEF A

LEMMA CountsAdd ==
  ASSUME NEW D, IsFiniteSet(D)
  PROVE  Additive(MinutesIn(D), D)
  <1> DEFINE A == MinutesIn(D)
  <1>1. \A S \in SUBSET D : A[S] = Cardinality(S) /\ IsFiniteSet(S)
    BY FS_Subset DEF MinutesIn
  <1> HIDE DEF A
  <1>2. A[{}] = 0
    BY <1>1, FS_EmptySet
  <1>3. \A S \in SUBSET D : A[S] \in Int
    BY <1>1, FS_CardinalityType
  <1>4. ASSUME NEW R \in SUBSET D, NEW S \in SUBSET D, R \cap S = {} PROVE A[R \cup S] = A[R] + A[S]
    <2>1. R \cup S \in SUBSET D
      OBVIOUS
    <2>2. Cardinality(R \cup S) = Cardinality(R) + Cardinality(S) - Cardinality(R \cap S)
      BY <1>1, FS_Union
    <2>3. Cardinality(R \cap S) = 0 /\ Cardinality(R) \in Nat /\ Cardinality(S) \in Nat
      BY <1>1, <1>4, FS_EmptySet, FS_CardinalityType
    <2> QED
      BY <1>1, <2>1, <2>2, <2>3
  <1>5. Additive(A, D)
    BY <1>2, <1>3, <1>4 DEF Additive
  <1> QED
    BY <1>5 DEF A

\* The sums of the model, over a part of the rows.
LEMMA EnergySums ==
  ASSUME MinutesCome, NEW S \in SUBSET DOMAIN minuteRows
  PROVE  MapThenSumSet(In, S) = EnergyIn(minuteRows)[S] /\ MapThenSumSet(Out, S) = EnergyOut(minuteRows)[S]
  <1> DEFINE w == PowerIn(minuteRows)
             v == PowerOut(minuteRows)
             SumsIn(F) == F = [s \in SUBSET S |-> IF s = {} THEN 0 ELSE In(CHOOSE x \in s : TRUE) + F[s \ {CHOOSE x \in s : TRUE}]]
             SumsOut(F) == F = [s \in SUBSET S |-> IF s = {} THEN 0 ELSE Out(CHOOSE x \in s : TRUE) + F[s \ {CHOOSE x \in s : TRUE}]]
  <1>1. \A s \in SUBSET S : s # {} => w[Picked(s)] = In(CHOOSE x \in s : TRUE) /\ v[Picked(s)] = Out(CHOOSE x \in s : TRUE)
    <2>1. \A m \in S : w[m] = In(m) /\ v[m] = Out(m)
      BY DEF In, Out, PowerIn, PowerOut
    <2> HIDE DEF w, v
    <2> QED
      BY <2>1, PickedIn DEF Picked
  <1>2. MapThenSumSet(In, S) = (CHOOSE F : SumsIn(F))[S]
    BY DEF MapThenSumSet, MapThenFoldSet
  <1>3. MapThenSumSet(Out, S) = (CHOOSE F : SumsOut(F))[S]
    BY DEF MapThenSumSet, MapThenFoldSet
  <1>4. EnergyIn(minuteRows)[S] = SumOver(w, S) /\ EnergyOut(minuteRows)[S] = SumOver(v, S)
    BY DEF EnergyIn, EnergyOut
  <1> HIDE DEF w, v
  <1>5. ASSUME NEW F PROVE SumsIn(F) <=> Adds(F, w, S)
    <2>1. \A s \in SUBSET S :
            (IF s = {} THEN 0 ELSE In(CHOOSE x \in s : TRUE) + F[s \ {CHOOSE x \in s : TRUE}])
            = (IF s = {} THEN 0 ELSE w[Picked(s)] + F[s \ {Picked(s)}])
      BY <1>1 DEF Picked
    <2> QED
      BY <2>1 DEF Adds
  <1>6. ASSUME NEW F PROVE SumsOut(F) <=> Adds(F, v, S)
    <2>1. \A s \in SUBSET S :
            (IF s = {} THEN 0 ELSE Out(CHOOSE x \in s : TRUE) + F[s \ {CHOOSE x \in s : TRUE}])
            = (IF s = {} THEN 0 ELSE v[Picked(s)] + F[s \ {Picked(s)}])
      BY <1>1 DEF Picked
    <2> QED
      BY <2>1 DEF Adds
  <1> HIDE DEF SumsIn, SumsOut
  <1>7. (CHOOSE F : SumsIn(F)) = (CHOOSE F : Adds(F, w, S))
    BY <1>5
  <1>8. (CHOOSE F : SumsOut(F)) = (CHOOSE F : Adds(F, v, S))
    BY <1>6
  <1> QED
    BY <1>2, <1>3, <1>4, <1>7, <1>8 DEF SumOver

\* A section tells of its rows (abschnitt).
LEMMA SectionTells ==
  ASSUME MinutesCome, NEW S \in SUBSET DOMAIN minuteRows, S # {}
  PROVE  AgreesWith(minuteRows, Section(S), S) /\ LevelsTold(minuteRows, Section(S), S)
  <1>1. WithLevel(S) = LevelsIn(minuteRows, S)
    BY DEF WithLevel, LevelsIn
  <1>2. /\ Section(S).minutes = Cardinality(S)
        /\ Section(S).charged = MapThenSumSet(In, S) /\ Section(S).discharged = MapThenSumSet(Out, S)
        /\ Section(S).levelFrom = IF WithLevel(S) = {} THEN NoLevel ELSE minuteRows[Min(WithLevel(S))].level
        /\ Section(S).levelTo = IF WithLevel(S) = {} THEN NoLevel ELSE minuteRows[Max(WithLevel(S))].level
    BY DEF Section
  <1>3. AgreesWith(minuteRows, Section(S), S)
    BY <1>2, EnergySums DEF AgreesWith, MinutesIn
  <1>4. LevelsTold(minuteRows, Section(S), S)
    BY <1>1, <1>2 DEF LevelsTold
  <1> QED
    BY <1>3, <1>4

\* The sum over some sections (summe_abschnitte).
LEMMA SectionsSum ==
  ASSUME NEW T, IsFiniteSet(T), NEW amount
  PROVE  SumAll(T, amount) = SumOver([d \in T |-> days[d][amount]], T)
  <1> DEFINE w == [d \in T |-> days[d][amount]]
             Sums(F) == F = [s \in SUBSET T |-> IF s = {} THEN 0
                               ELSE days[CHOOSE x \in s : TRUE][amount] + F[s \ {CHOOSE x \in s : TRUE}]]
  <1>1. ASSUME NEW F PROVE Sums(F) <=> Adds(F, w, T)
    <2>1. \A s \in SUBSET T : s # {} => w[Picked(s)] = days[CHOOSE x \in s : TRUE][amount]
      BY PickedIn DEF Picked
    <2> HIDE DEF w
    <2> QED
      BY <2>1 DEF Picked, Adds
  <1>2. SumAll(T, amount) = (CHOOSE F : Sums(F))[T]
    BY DEF SumAll, MapThenSumSet, MapThenFoldSet
  <1> HIDE DEF Sums
  <1>3. (CHOOSE F : Sums(F)) = (CHOOSE F : Adds(F, w, T))
    BY <1>1
  <1> QED
    BY <1>2, <1>3 DEF SumOver

\* The rows of each section.
RowsByDay == [d \in DOMAIN days |-> RowsFrom(minuteRows, window, DOMAIN days, d)]

\* Every row read is in one section, and in no other.
LEMMA SectionsPart ==
  ASSUME MinutesCome, SectionsCut
  PROVE  /\ DOMAIN days \in SUBSET Nat /\ IsFiniteSet(DOMAIN days)
         /\ Apart2(RowsByDay, DOMAIN days, DOMAIN minuteRows)
         /\ \A d \in DOMAIN days : d \in RowsByDay[d]
         /\ \A m \in RowsSeen(minuteRows, window) : \E d \in DOMAIN days : m \in RowsByDay[d]
  <1> DEFINE D == DOMAIN days
             r == minuteRows
  <1>1. D \in SUBSET Nat /\ IsFiniteSet(D) /\ D \in SUBSET RowsSeen(r, window) /\ RowsSeen(r, window) \in SUBSET Nat
    BY RowsNumbers, FS_Subset DEF SectionsCut, RowsSeen
  <1>2. ASSUME NEW d \in D PROVE RowsByDay[d] = RowsFrom(r, window, D, d)
    BY DEF RowsByDay
  <1>3. ASSUME NEW d \in D, NEW m PROVE m \in RowsByDay[d] <=> m \in RowsSeen(r, window) /\ d <= m /\ \A c \in D : d < c => m < c
    BY <1>2 DEF RowsFrom
  <1>4. ASSUME NEW m \in RowsSeen(r, window) PROVE \E d \in D : m \in RowsByDay[d]
    <2> DEFINE B == {d \in D : d <= m}
    <2>1. B # {} /\ B \in SUBSET Nat /\ m \in Nat /\ \A d \in B : d <= m
      BY <1>1 DEF SectionsCut
    <2>2. Max(B) \in B /\ \A d \in B : d <= Max(B)
      BY <2>1, MaxIs
    <2>3. ASSUME NEW c \in D, Max(B) < c PROVE m < c
      <3>1. c \notin B
        BY <1>1, <2>1, <2>2, <2>3
      <3> QED
        BY <1>1, <2>1, <3>1
    <2> QED
      BY <1>3, <2>2, <2>3
  <1>5. ASSUME NEW d \in D PROVE RowsByDay[d] \in SUBSET DOMAIN r /\ d \in RowsByDay[d]
    BY <1>1, <1>3 DEF RowsSeen
  <1>6. ASSUME NEW d \in D, NEW e \in D, d # e PROVE RowsByDay[d] \cap RowsByDay[e] = {}
    <2> SUFFICES ASSUME NEW m, m \in RowsByDay[d], m \in RowsByDay[e] PROVE FALSE
      OBVIOUS
    <2>1. m \in Nat /\ d <= m /\ e <= m /\ (d < e => m < e) /\ (e < d => m < d)
      BY <1>1, <1>3
    <2> QED
      BY <1>1, <1>6, <2>1
  <1>7. Apart2(RowsByDay, D, DOMAIN r)
    BY <1>5, <1>6 DEF Apart2
  <1> QED
    BY <1>1, <1>4, <1>5, <1>7

\* What some sections make together agrees with their rows.
LEMMA TogetherAgrees ==
  ASSUME MinutesCome, SectionsCut, NEW T \in SUBSET DOMAIN days
  PROVE  AgreesWith(minuteRows, Together(T), Joint(RowsByDay, T, DOMAIN minuteRows))
  <1> DEFINE r == minuteRows
             J == Joint(RowsByDay, T, DOMAIN r)
  <1>1. IsFiniteSet(T) /\ Apart2(RowsByDay, T, DOMAIN r) /\ J \in SUBSET DOMAIN r
    BY SectionsPart, FS_Subset DEF Apart2, Joint
  <1>2. /\ Additive(MinutesIn(DOMAIN r), DOMAIN r) /\ Additive(EnergyIn(r), DOMAIN r) /\ Additive(EnergyOut(r), DOMAIN r)
    BY RowsNumbers, SumsAdd, CountsAdd DEF EnergyIn, EnergyOut
  <1>3. \A d \in T : AgreesWith(r, days[d], RowsByDay[d])
    BY DEF SectionsCut, RowsByDay
  <1>4. SumOver([d \in T |-> days[d]["minutes"]], T) = MinutesIn(DOMAIN r)[J]
    <2>1. Each(MinutesIn(DOMAIN r), RowsByDay, T, [d \in T |-> days[d]["minutes"]])
      BY <1>3 DEF Each, AgreesWith
    <2> QED
      BY <1>1, <1>2, <2>1, PartsAdd
  <1>5. SumOver([d \in T |-> days[d]["charged"]], T) = EnergyIn(r)[J]
    <2>1. Each(EnergyIn(r), RowsByDay, T, [d \in T |-> days[d]["charged"]])
      BY <1>3 DEF Each, AgreesWith
    <2> QED
      BY <1>1, <1>2, <2>1, PartsAdd
  <1>6. SumOver([d \in T |-> days[d]["discharged"]], T) = EnergyOut(r)[J]
    <2>1. Each(EnergyOut(r), RowsByDay, T, [d \in T |-> days[d]["discharged"]])
      BY <1>3 DEF Each, AgreesWith
    <2> QED
      BY <1>1, <1>2, <2>1, PartsAdd
  <1>7. /\ SumAll(T, "minutes") = MinutesIn(DOMAIN r)[J]
        /\ SumAll(T, "charged") = EnergyIn(r)[J] /\ SumAll(T, "discharged") = EnergyOut(r)[J]
    BY <1>1, <1>4, <1>5, <1>6, SectionsSum
  <1>8. CASE T # {}
    <2>1. /\ Together(T).minutes = SumAll(T, "minutes") /\ Together(T).charged = SumAll(T, "charged")
          /\ Together(T).discharged = SumAll(T, "discharged")
      BY <1>8 DEF Together
    <2> QED
      BY <1>7, <2>1 DEF AgreesWith
  <1>9. CASE T = {}
    <2>1. Together(T).minutes = 0 /\ Together(T).charged = 0 /\ Together(T).discharged = 0
      BY <1>9 DEF Together, NoSection
    <2>2. J = {}
      BY <1>9 DEF Joint
    <2>3. MinutesIn(DOMAIN r)[{}] = 0 /\ EnergyIn(r)[{}] = 0 /\ EnergyOut(r)[{}] = 0
      BY <1>2 DEF Additive
    <2> QED
      BY <2>1, <2>2, <2>3 DEF AgreesWith
  <1> QED
    BY <1>8, <1>9

\* The first level of the first section that has one is the first of all, and the last the last.
LEMMA LevelsTogether ==
  ASSUME MinutesCome, SectionsCut, RowsSeen(minuteRows, window) = DOMAIN minuteRows, NEW x \in LevelChange(DOMAIN days)
  PROVE  x = (minuteRows[Max(LevelsIn(minuteRows, DOMAIN minuteRows))].level
              - minuteRows[Min(LevelsIn(minuteRows, DOMAIN minuteRows))].level) * LevelSize
  <1> DEFINE D == DOMAIN days
             r == minuteRows
             K == LevelsIn(r, DOMAIN r)
             Of(d) == LevelsIn(r, RowsByDay[d])
             L == Leveled(D)
  <1>1. /\ D \in SUBSET Nat /\ DOMAIN r \in SUBSET Nat /\ minuteNext \in Nat /\ \A m \in DOMAIN r : m < minuteNext
        /\ \A d \in D : d \in DOMAIN r /\ RowsByDay[d] \in SUBSET DOMAIN r
    BY SectionsPart, RowsNumbers DEF MinutesCome, SectionsCut, RowsSeen, Apart2
  <1>2. ASSUME NEW d \in D PROVE /\ Of(d) \in SUBSET K /\ \A m \in Of(d) : m \in RowsByDay[d]
                                 /\ \A m \in RowsByDay[d] : d <= m /\ \A c \in D : d < c => m < c
    BY <1>1 DEF LevelsIn, RowsByDay, RowsFrom
  <1>3. ASSUME NEW d \in D, Of(d) # {}
        PROVE  /\ Min(Of(d)) \in Of(d) /\ \A m \in Of(d) : Min(Of(d)) <= m
               /\ Max(Of(d)) \in Of(d) /\ \A m \in Of(d) : m <= Max(Of(d))
               /\ days[d].levelFrom = r[Min(Of(d))].level /\ days[d].levelTo = r[Max(Of(d))].level
    <2>1. Of(d) \in SUBSET Nat /\ \A m \in Of(d) : m <= minuteNext
      BY <1>1 DEF LevelsIn
    <2>2. LevelsTold(r, days[d], RowsByDay[d])
      BY DEF SectionsCut, RowsByDay
    <2>3. days[d].levelFrom = r[Min(Of(d))].level /\ days[d].levelTo = r[Max(Of(d))].level
      BY <1>3, <2>2 DEF LevelsTold
    <2> HIDE DEF Of
    <2> QED
      BY <1>1, <1>3, <2>1, <2>3, MinIs, MaxIs
  <1>4. ASSUME NEW d \in D PROVE d \in L <=> Of(d) # {}
    <2>1. CASE Of(d) # {}
      <3>1. Min(Of(d)) \in Of(d) /\ days[d].levelFrom = r[Min(Of(d))].level
        BY <1>3, <2>1
      <3>2. days[d].levelFrom # NoLevel
        BY <3>1 DEF LevelsIn
      <3> QED
        BY <2>1, <3>2 DEF Leveled
    <2>2. CASE Of(d) = {}
      <3>1. LevelsTold(r, days[d], RowsByDay[d])
        BY DEF SectionsCut, RowsByDay
      <3>2. days[d].levelFrom = NoLevel
        BY <2>2, <3>1 DEF LevelsTold
      <3> QED
        BY <2>2, <3>2 DEF Leveled
    <2> QED
      BY <2>1, <2>2
  <1>5. L \in SUBSET Nat /\ L # {} /\ L \in SUBSET D /\ \A d \in L : d <= minuteNext
    BY <1>1 DEF LevelChange, Leveled
  <1>6. ASSUME NEW k \in K PROVE \E e \in L : k \in Of(e)
    <2>1. k \in RowsSeen(r, window) /\ r[k].level # NoLevel
      BY DEF LevelsIn
    <2>2. PICK e \in D : k \in RowsByDay[e]
      BY <2>1, SectionsPart
    <2>3. k \in Of(e)
      BY <2>1, <2>2 DEF LevelsIn
    <2> QED
      BY <1>4, <2>3
  <1>7. K \in SUBSET Nat /\ \A k \in K : k <= minuteNext
    BY <1>1 DEF LevelsIn
  <1>8. x = (days[Max(L)].levelTo - days[Min(L)].levelFrom) * LevelSize
    BY DEF LevelChange, LevelFrom, LevelTo
  <1> HIDE DEF D, K, Of, L
  <1>9. days[Min(L)].levelFrom = r[Min(K)].level
    <2> DEFINE d == Min(L)
               a == Min(Of(d))
    <2>1. d \in L /\ \A e \in L : d <= e
      BY <1>5, MinIs
    <2>2. a \in Of(d) /\ (\A m \in Of(d) : a <= m) /\ days[d].levelFrom = r[a].level
      BY <1>3, <1>4, <1>5, <2>1
    <2>3. a \in K /\ d \in D /\ a \in RowsByDay[d]
      BY <1>2, <1>5, <2>1, <2>2
    <2>4. ASSUME NEW k \in K PROVE a <= k
      <3>1. PICK e \in L : k \in Of(e)
        BY <1>6
      <3>2. e \in D /\ e \in Nat /\ d \in Nat /\ d <= e /\ k \in RowsByDay[e] /\ e <= k /\ k \in Nat /\ a \in Nat
        BY <1>1, <1>2, <1>5, <1>7, <2>1, <2>3, <3>1
      <3>3. d < e => a < e
        BY <1>2, <2>3, <3>2
      <3>4. d = e => a <= k
        BY <2>2, <3>1
      <3> HIDE DEF a, d
      <3> QED
        BY <3>2, <3>3, <3>4
    <2>5. Min(K) \in K /\ \A k \in K : Min(K) <= k
      BY <1>7, <2>3, MinIs
    <2>6. Min(K) = a
      <3>1. Min(K) \in Nat /\ a \in Nat /\ Min(K) <= a /\ a <= Min(K)
        BY <1>7, <2>3, <2>4, <2>5
      <3> HIDE DEF a
      <3> QED
        BY <3>1
    <2> QED
      BY <2>2, <2>6
  <1>10. days[Max(L)].levelTo = r[Max(K)].level
    <2> DEFINE d == Max(L)
               b == Max(Of(d))
    <2>1. d \in L /\ \A e \in L : e <= d
      BY <1>1, <1>5, MaxIs
    <2>2. b \in Of(d) /\ (\A m \in Of(d) : m <= b) /\ days[d].levelTo = r[b].level
      BY <1>3, <1>4, <1>5, <2>1
    <2>3. b \in K /\ d \in D /\ b \in RowsByDay[d] /\ d <= b
      BY <1>2, <1>5, <2>1, <2>2
    <2>4. ASSUME NEW k \in K PROVE k <= b
      <3>1. PICK e \in L : k \in Of(e)
        BY <1>6
      <3>2. e \in D /\ e \in Nat /\ d \in Nat /\ e <= d /\ k \in RowsByDay[e] /\ k \in Nat /\ b \in Nat /\ d <= b
        BY <1>1, <1>2, <1>5, <1>7, <2>1, <2>3, <3>1
      <3>3. e < d => k < d
        BY <1>2, <2>3, <3>2
      <3>4. d = e => k <= b
        BY <2>2, <3>1
      <3> HIDE DEF b, d
      <3> QED
        BY <3>2, <3>3, <3>4
    <2>5. Max(K) \in K /\ \A k \in K : k <= Max(K)
      BY <1>1, <1>7, <2>3, MaxIs
    <2>6. Max(K) = b
      <3>1. Max(K) \in Nat /\ b \in Nat /\ Max(K) <= b /\ b <= Max(K)
        BY <1>7, <2>3, <2>4, <2>5
      <3> HIDE DEF b
      <3> QED
        BY <3>1
    <2> QED
      BY <2>2, <2>6
  <1> QED
    BY <1>8, <1>9, <1>10 DEF K

\* When all is read the report tells it all (speicher_check).
LEMMA ReportTells ==
  ASSUME CheckInv, ReportBattery
  PROVE  CheckInv'
  <1> DEFINE D == DOMAIN days
             r == minuteRows
             f == [total |-> Together(D), lines |-> Lines, verdict |-> Judged(Together(D), FALSE), source |-> SourceTold]
  <1>1. MinutesCome /\ SectionsCut
    BY DEF CheckInv
  <1>2. RowsSeen(r, window) = DOMAIN r
    <2>1. \A m \in DOMAIN r : m \in Nat /\ m < minuteNext
      BY <1>1, RowsNumbers
    <2>2. minuteNext \in Nat /\ window \in Nat /\ minuteNext <= window
      BY <1>1, CheckAssumption DEF MinutesCome, ReportBattery
    <2> QED
      BY <2>1, <2>2 DEF RowsSeen
  <1>3. Joint(RowsByDay, D, DOMAIN r) = DOMAIN r
    BY <1>1, <1>2, SectionsPart DEF Joint
  <1>4. AgreesWith(r, f.total, DOMAIN r)
    BY <1>1, <1>3, TogetherAgrees
  <1>5. ASSUME NEW day \in Midnights \cup {CheckStart}
        PROVE  IF RowsOfDay(r, day) = {} THEN day \notin DOMAIN f.lines
               ELSE day \in DOMAIN f.lines /\ AgreesWith(r, f.lines[day], RowsOfDay(r, day))
    <2> DEFINE T == StartsOn(day)
    <2>1. D \in SUBSET DOMAIN r
      BY <1>1 DEF SectionsCut, RowsSeen
    <2>2. T \in SUBSET D /\ \A d \in D : d \in T <=> DayOfMinute(d) = day
      BY DEF StartsOn
    <2>3. \A d \in D : \A m \in RowsByDay[d] : DayOfMinute(m) = DayOfMinute(d)
      BY <1>1 DEF SectionsCut, RowsByDay
    <2>4. \A m \in DOMAIN r : \E d \in D : m \in RowsByDay[d]
      BY <1>1, <1>2, SectionsPart
    <2>5. f.lines = Lines /\ DOMAIN Lines = {DayOfMinute(d) : d \in D}
      BY DEF Lines
    <2> HIDE DEF T
    <2>6. Joint(RowsByDay, T, DOMAIN r) = RowsOfDay(r, day)
      BY <2>2, <2>3, <2>4 DEF Joint, RowsOfDay
    <2>7. CASE RowsOfDay(r, day) = {}
      BY <2>1, <2>5, <2>7 DEF RowsOfDay
    <2>8. CASE RowsOfDay(r, day) # {}
      <3>1. PICK m \in DOMAIN r : DayOfMinute(m) = day
        BY <2>8 DEF RowsOfDay
      <3>2. PICK d \in D : DayOfMinute(d) = day
        BY <2>3, <2>4, <3>1
      <3>3. day \in DOMAIN Lines /\ Lines[day] = Together(T)
        BY <2>5, <3>2 DEF Lines, T
      <3>4. AgreesWith(r, Together(T), RowsOfDay(r, day))
        BY <1>1, <2>2, <2>6, TogetherAgrees
      <3> QED
        BY <2>5, <2>8, <3>3, <3>4
    <2> QED
      BY <2>7, <2>8
  <1>6. ASSUME NEW x \in f.total.delta
        PROVE  x = (r[Max(LevelsIn(r, DOMAIN r))].level - r[Min(LevelsIn(r, DOMAIN r))].level) * LevelSize
    <2>1. x \in LevelChange(D)
      BY DEF Together, NoSection
    <2> QED
      BY <1>1, <1>2, <2>1, LevelsTogether
  <1>7. finding' = {f} /\ minuteRows' = minuteRows /\ minuteNext' = minuteNext /\ window' = window /\ days' = days
    BY DEF ReportBattery
  <1>8. Told(minuteRows, f)
    <2> HIDE DEF f
    <2> QED
      BY <1>4, <1>5, <1>6 DEF Told
  <1>9. \A g \in finding' : Told(minuteRows', g)
    <2> HIDE DEF f
    <2> QED
      BY <1>7, <1>8
  <1>10. SectionsCut'
    BY <1>1, <1>7 DEF SectionsCut
  <1>11. MinutesCome'
    BY <1>1, <1>7 DEF MinutesCome, ReportBattery
  <1> QED
    BY <1>9, <1>10, <1>11 DEF CheckInv

\* Sets of rows that cut the rows from one minute to another, one after the other.
Cuts(SS, r, from, to) ==
  /\ \A s \in SS : s # {} /\ \A m \in s : m \in DOMAIN r /\ from <= m /\ m < to
  /\ \A m \in DOMAIN r : from <= m /\ m < to => \E s \in SS : m \in s
  /\ \A s, t \in SS : s # t => (\A m \in s : \A n \in t : m < n) \/ (\A m \in s : \A n \in t : n < m)
WithStarts(D, SS) == D \cup {Min(s) : s \in SS}
SectionsGrown(r, w, to, D, SS, E) ==
  /\ \A s \in SS : Min(s) \in s /\ RowsFrom(r, to, E, Min(s)) = s
  /\ \A s, t \in SS : Min(s) = Min(t) => s = t
  /\ \A d \in D : RowsFrom(r, to, E, d) = RowsFrom(r, w, D, d)
OneDay(s) == \A m, n \in s : DayOfMinute(m) = DayOfMinute(n)

\* The bounds of the days cut the rows of a window, each into rows of one day (_tagesgrenzen,
\* pruefe_speicher).
LEMMA WindowCut ==
  ASSUME MinutesCome, NEW to \in Nat, window < to
  PROVE  /\ Cuts(SectionsOf(window, to), minuteRows, window, to)
         /\ \A s \in SectionsOf(window, to) : OneDay(s)
  <1> DEFINE r == minuteRows
             bounds == DayBounds(window, to)
             Of(b) == {m \in DOMAIN r : m >= b /\ m < to /\ \A c \in bounds : c > b => m < c}
             SS == SectionsOf(window, to)
  <1>1. SS = {Of(b) : b \in bounds} \ {{}}
    BY DEF SectionsOf
  <1>2. /\ window \in Nat /\ CheckStart \in Nat /\ CheckStart <= window /\ DOMAIN r \in SUBSET Nat
    BY RowsNumbers, CheckAssumption DEF MinutesCome
  <1>3. /\ bounds \in SUBSET Nat /\ window \in bounds /\ \A b \in bounds : window <= b
        /\ \A e \in Midnights : window < e /\ e < to => e \in bounds
    <2>1. bounds = {window} \cup {m \in Midnights : m > window /\ m < to}
      BY DEF DayBounds
    <2>2. \A m \in Midnights : m \in Nat
      BY CheckAssumption
    <2> HIDE DEF bounds, Of
    <2> QED
      BY <1>2, <2>1, <2>2
  <1>4. ASSUME NEW b, NEW m PROVE m \in Of(b) <=> m \in DOMAIN r /\ m >= b /\ m < to /\ \A c \in bounds : c > b => m < c
    OBVIOUS
  <1> HIDE DEF bounds, Of
  <1>5. ASSUME NEW s \in SS PROVE s # {} /\ \A m \in s : m \in DOMAIN r /\ window <= m /\ m < to
    <2>1. PICK b \in bounds : s = Of(b)
      BY <1>1
    <2>2. \A m \in s : m \in DOMAIN r /\ b <= m /\ m < to
      BY <1>2, <1>3, <1>4, <2>1
    <2> QED
      BY <1>1, <1>2, <1>3, <2>2
  <1>6. ASSUME NEW m \in DOMAIN r, window <= m, m < to PROVE \E s \in SS : m \in s
    <2> DEFINE B == {b \in bounds : b <= m}
    <2>1. B \in SUBSET Nat /\ B # {} /\ m \in Nat /\ \A b \in B : b <= m
      BY <1>2, <1>3, <1>6
    <2>2. Max(B) \in B /\ \A b \in B : b <= Max(B)
      BY <2>1, MaxIs
    <2>3. \A c \in bounds : c > Max(B) => m < c
      <3> SUFFICES ASSUME NEW c \in bounds, c > Max(B), ~(m < c) PROVE FALSE
        OBVIOUS
      <3>1. c \in B /\ c \in Nat /\ Max(B) \in Nat
        BY <1>3, <2>1, <2>2
      <3>2. c <= Max(B)
        BY <2>2, <3>1
      <3> QED
        BY <3>1, <3>2
    <2>4. Max(B) \in bounds /\ m >= Max(B)
      BY <1>3, <2>1, <2>2
    <2>5. m \in Of(Max(B))
      BY <1>4, <1>6, <2>3, <2>4
    <2> QED
      BY <1>1, <2>4, <2>5
  <1>7. ASSUME NEW s \in SS, NEW t \in SS, s # t
        PROVE  (\A m \in s : \A n \in t : m < n) \/ (\A m \in s : \A n \in t : n < m)
    <2>1. PICK b \in bounds : s = Of(b)
      BY <1>1
    <2>2. PICK c \in bounds : t = Of(c)
      BY <1>1
    <2>3. b \in Nat /\ c \in Nat /\ b # c
      BY <1>3, <1>7, <2>1, <2>2
    <2>4. \A m \in s : m \in Nat /\ b <= m /\ (b < c => m < c)
      BY <1>2, <1>4, <2>1, <2>3
    <2>5. \A m \in t : m \in Nat /\ c <= m /\ (c < b => m < b)
      BY <1>2, <1>4, <2>2, <2>3
    <2>6. CASE b < c
      <3>1. \A m \in s : \A n \in t : m < n
        BY <2>3, <2>4, <2>5, <2>6
      <3> QED
        BY <3>1
    <2>7. CASE c < b
      <3>1. \A m \in s : \A n \in t : n < m
        BY <2>3, <2>4, <2>5, <2>7
      <3> QED
        BY <3>1
    <2> QED
      BY <2>3, <2>6, <2>7
  <1>8. ASSUME NEW s \in SS, NEW m \in s, NEW n \in s PROVE DayOfMinute(m) = DayOfMinute(n)
    <2>1. PICK b \in bounds : s = Of(b)
      BY <1>1
    <2>2. /\ m \in Nat /\ n \in Nat /\ b \in Nat /\ window <= b /\ b <= m /\ b <= n /\ m < to /\ n < to
          /\ \A c \in bounds : c > b => m < c /\ n < c
      BY <1>2, <1>3, <1>4, <2>1
    <2>3. ASSUME NEW e \in Midnights \cup {CheckStart} PROVE e <= m <=> e <= n
      <3>1. e \in Nat
        BY CheckAssumption
      <3>2. CASE e = CheckStart
        BY <1>2, <2>2, <3>2
      <3>3. CASE e \in Midnights /\ window < e /\ e < to
        <4>1. e \in bounds
          BY <1>3, <3>3
        <4>2. e > b => m < e /\ n < e
          BY <2>2, <4>1
        <4> QED
          BY <2>2, <3>1, <4>2
      <3>4. CASE e \in Midnights /\ ~(window < e /\ e < to)
        BY <1>2, <2>2, <3>1, <3>4
      <3> QED
        BY <3>2, <3>3, <3>4
    <2>4. {e \in Midnights \cup {CheckStart} : e <= m} = {e \in Midnights \cup {CheckStart} : e <= n}
      BY <2>3
    <2> QED
      BY <2>4 DEF DayOfMinute
  <1> QED
    BY <1>5, <1>6, <1>7, <1>8 DEF Cuts, OneDay

\* Sections that start at the first rows of the cuts leave those before as they are.
LEMMA SectionsGrow ==
  ASSUME NEW r, DOMAIN r \in SUBSET Nat, NEW w \in Nat, NEW to \in Nat, w < to, NEW D, D \in SUBSET RowsSeen(r, w),
         NEW SS, Cuts(SS, r, w, to), NEW E, E = WithStarts(D, SS)
  PROVE  SectionsGrown(r, w, to, D, SS, E)
  <1>1. ASSUME NEW s \in SS PROVE /\ s \in SUBSET Nat /\ Min(s) \in s /\ \A m \in s : Min(s) <= m /\ w <= m /\ m < to /\ m \in DOMAIN r
    <2>1. s # {} /\ s \in SUBSET Nat /\ \A m \in s : w <= m /\ m < to /\ m \in DOMAIN r
      BY DEF Cuts
    <2> QED
      BY <2>1, MinIs
  <1>2. D \in SUBSET Nat /\ \A d \in D : d < w /\ d \in DOMAIN r
    BY DEF RowsSeen
  <1>3. ASSUME NEW s \in SS, NEW t \in SS, s # t
        PROVE  (\A m \in s : \A n \in t : m < n) \/ (\A m \in s : \A n \in t : n < m)
    BY <1>3 DEF Cuts
  <1>4. ASSUME NEW s \in SS, NEW t \in SS, Min(s) = Min(t) PROVE s = t
    <2>1. Min(s) \in s /\ Min(s) \in t /\ Min(s) \in Nat
      BY <1>1, <1>4
    <2> QED
      BY <1>3, <2>1
  <1>0. \A c : c \in E <=> c \in D \/ \E t \in SS : c = Min(t)
    BY DEF WithStarts
  <1>5. ASSUME NEW d, NEW m
        PROVE  /\ m \in RowsFrom(r, to, E, d) <=> m \in DOMAIN r /\ m < to /\ d <= m /\ \A c \in E : d < c => m < c
               /\ m \in RowsFrom(r, w, D, d) <=> m \in DOMAIN r /\ m < w /\ d <= m /\ \A c \in D : d < c => m < c
    BY DEF RowsFrom, RowsSeen
  <1>6. ASSUME NEW m \in DOMAIN r, w <= m, m < to PROVE \E s \in SS : m \in s
    BY <1>6 DEF Cuts
  <1>7. ASSUME NEW s \in SS, NEW m \in s PROVE m \in RowsFrom(r, to, E, Min(s))
    <2>1. ASSUME NEW c \in E, Min(s) < c PROVE m < c
      <3>1. CASE c \in D
        BY <1>1, <1>2, <2>1, <3>1
      <3>2. CASE \E t \in SS : c = Min(t)
        <4>1. PICK t \in SS : c = Min(t)
          BY <3>2
        <4>2. Min(s) \in s /\ Min(s) \in Nat /\ c \in t /\ c \in Nat
          BY <1>1, <4>1
        <4>3. s # t
          BY <2>1, <4>1, <4>2
        <4>4. (\A k \in s : \A n \in t : k < n) \/ (\A k \in s : \A n \in t : n < k)
          BY <1>3, <4>3
        <4> QED
          BY <2>1, <4>2, <4>4
      <3> QED
        BY <1>0, <2>1, <3>1, <3>2
    <2> QED
      BY <1>1, <1>5, <2>1
  <1>8. ASSUME NEW s \in SS, NEW m \in RowsFrom(r, to, E, Min(s)) PROVE m \in s
    <2>1. m \in DOMAIN r /\ m \in Nat /\ m < to /\ Min(s) <= m /\ \A c \in E : Min(s) < c => m < c
      BY <1>5
    <2>2. Min(s) \in s /\ Min(s) \in Nat /\ w <= Min(s)
      BY <1>1
    <2>3. PICK t \in SS : m \in t
      BY <1>6, <2>1, <2>2
    <2>4. ASSUME s # t PROVE FALSE
      <3>1. Min(t) \in t /\ Min(t) \in Nat /\ Min(t) <= m /\ Min(t) \in E
        BY <1>0, <1>1, <2>3
      <3>2. (\A k \in s : \A n \in t : k < n) \/ (\A k \in s : \A n \in t : n < k)
        BY <1>3, <2>4
      <3>3. Min(s) < Min(t) \/ m < Min(s)
        BY <2>2, <2>3, <3>1, <3>2
      <3>4. Min(s) < Min(t) => m < Min(t)
        BY <2>1, <3>1
      <3> QED
        BY <2>1, <2>2, <3>1, <3>3, <3>4
    <2> QED
      BY <2>3, <2>4
  <1>9. ASSUME NEW d \in D, NEW m PROVE m \in RowsFrom(r, to, E, d) <=> m \in RowsFrom(r, w, D, d)
    <2>1. ASSUME m \in RowsFrom(r, to, E, d) PROVE m \in RowsFrom(r, w, D, d)
      <3>1. m \in DOMAIN r /\ m \in Nat /\ m < to /\ d <= m /\ \A c \in E : d < c => m < c
        BY <1>5, <2>1
      <3>2. ASSUME ~(m < w) PROVE FALSE
        <4>1. PICK s \in SS : m \in s
          BY <1>6, <3>1, <3>2
        <4>2. Min(s) \in E /\ Min(s) \in Nat /\ w <= Min(s) /\ Min(s) <= m
          BY <1>0, <1>1, <4>1
        <4>3. d < Min(s)
          BY <1>2, <4>2
        <4>4. m < Min(s)
          BY <3>1, <4>2, <4>3
        <4> QED
          BY <3>1, <4>2, <4>4
      <3> QED
        BY <1>0, <1>5, <3>1, <3>2
    <2>2. ASSUME m \in RowsFrom(r, w, D, d) PROVE m \in RowsFrom(r, to, E, d)
      <3>1. m \in DOMAIN r /\ m \in Nat /\ m < w /\ d <= m /\ \A c \in D : d < c => m < c
        BY <1>5, <2>2
      <3>2. ASSUME NEW s \in SS PROVE m < Min(s)
        <4>1. Min(s) \in Nat /\ w <= Min(s)
          BY <1>1
        <4> QED
          BY <3>1, <4>1
      <3> QED
        BY <1>0, <1>5, <3>1, <3>2
    <2> QED
      BY <2>1, <2>2
  <1>10. \A s \in SS : RowsFrom(r, to, E, Min(s)) = s
    BY <1>7, <1>8
  <1>11. \A d \in D : RowsFrom(r, to, E, d) = RowsFrom(r, w, D, d)
    BY <1>9
  <1> QED
    BY <1>1, <1>4, <1>10, <1>11 DEF SectionsGrown

LEMMA WindowKept ==
  ASSUME CheckInv, CheckWindow
  PROVE  CheckInv'
  <1> DEFINE r == minuteRows
             D == DOMAIN days
             to == Min({window + WindowLength, CheckEnd})
             SS == SectionsOf(window, to)
             E == WithStarts(D, SS)
  <1>0. MinutesCome /\ SectionsCut
    BY DEF CheckInv
  <1>1. to \in Nat /\ window < to /\ to <= CheckEnd
    <2> DEFINE M == {window + WindowLength, CheckEnd}
    <2>1. M \in SUBSET Nat /\ M # {} /\ window \in Nat /\ \A m \in M : window < m
      BY <1>0, CheckAssumption DEF MinutesCome, CheckWindow
    <2>2. Min(M) \in M /\ \A m \in M : Min(M) <= m
      BY <2>1, MinIs
    <2>3. CheckEnd \in M
      OBVIOUS
    <2> QED
      BY <2>1, <2>2, <2>3
  <1>2. /\ minuteRows' = r /\ minuteNext' = minuteNext /\ finding' = finding /\ window' = to
        /\ days' = [d \in E |-> IF d \in D THEN days[d] ELSE Section(CHOOSE s \in SS : Min(s) = d)]
    BY DEF CheckWindow, WithDays, WithStarts
  <1>3. MinutesCome'
    <2>1. finding = {}
      BY <1>0, CheckAssumption DEF CheckWindow, MinutesCome
    <2> HIDE DEF to
    <2> QED
      BY <1>0, <1>1, <1>2, <2>1, CheckAssumption DEF CheckWindow, MinutesCome
  <1>4. Cuts(SS, r, window, to) /\ \A s \in SS : OneDay(s)
    <2> HIDE DEF to
    <2> QED
      BY <1>0, <1>1, WindowCut
  <1>5. /\ DOMAIN r \in SUBSET Nat /\ window \in Nat /\ D \in SUBSET RowsSeen(r, window)
        /\ \A m \in RowsSeen(r, window) : \E d \in D : d <= m
    BY <1>0, RowsNumbers DEF MinutesCome, SectionsCut
  <1> HIDE DEF to, SS, E
  <1>6. /\ \A s \in SS : Min(s) \in s /\ RowsFrom(r, to, E, Min(s)) = s
        /\ \A s, t \in SS : Min(s) = Min(t) => s = t
        /\ \A d \in D : RowsFrom(r, to, E, d) = RowsFrom(r, window, D, d)
    <2>1. E = WithStarts(D, SS)
      BY DEF E
    <2> HIDE DEF D
    <2>2. SectionsGrown(r, window, to, D, SS, E)
      BY <1>1, <1>4, <1>5, <2>1, SectionsGrow
    <2> QED
      BY <2>2 DEF SectionsGrown
  <1>7. ASSUME NEW s \in SS PROVE s # {} /\ s \in SUBSET DOMAIN r /\ \A m \in s : window <= m /\ m < to /\ m \in Nat
    BY <1>4, <1>5 DEF Cuts
  <1>8. ASSUME NEW s \in SS PROVE days'[Min(s)] = Section(s)
    <2>1. Min(s) \in s /\ window <= Min(s) /\ Min(s) \in Nat
      BY <1>6, <1>7
    <2>2. Min(s) \notin D
      BY <1>5, <2>1 DEF RowsSeen
    <2>3. (CHOOSE t \in SS : Min(t) = Min(s)) = s
      BY <1>6
    <2>4. Min(s) \in E
      BY DEF E, WithStarts
    <2> QED
      BY <1>2, <2>2, <2>3, <2>4
  <1>9. ASSUME NEW d \in D PROVE days'[d] = days[d]
    BY <1>2 DEF E, WithStarts
  <1>10. DOMAIN days' = E
    BY <1>2
  <1>11. ASSUME NEW m \in RowsSeen(r, to) PROVE \E d \in E : d <= m
    <2>1. CASE m < window
      BY <1>5, <2>1 DEF RowsSeen, E, WithStarts
    <2>2. CASE ~(m < window)
      <3>1. m \in DOMAIN r /\ m \in Nat /\ window <= m /\ m < to
        BY <1>5, <2>2 DEF RowsSeen
      <3>2. PICK s \in SS : m \in s
        BY <1>4, <3>1 DEF Cuts
      <3>3. s \in SUBSET Nat /\ s # {}
        BY <1>7
      <3>4. Min(s) <= m
        BY <3>2, <3>3, MinIs
      <3> QED
        BY <3>2, <3>4 DEF E, WithStarts
    <2> QED
      BY <2>1, <2>2
  <1>12. ASSUME NEW d \in E PROVE d \in RowsSeen(r, to)
    <2>1. CASE d \in D
      BY <1>1, <1>5, <2>1 DEF RowsSeen
    <2>2. CASE d \notin D
      <3>1. PICK s \in SS : d = Min(s)
        BY <2>2 DEF E, WithStarts
      <3> QED
        BY <1>6, <1>7, <3>1 DEF RowsSeen
    <2> QED
      BY <2>1, <2>2
  <1>13. ASSUME NEW d \in E
         PROVE  LET S == RowsFrom(r, to, E, d)
                IN  /\ AgreesWith(r, days'[d], S) /\ LevelsTold(r, days'[d], S)
                    /\ \A m \in S : DayOfMinute(m) = DayOfMinute(d)
    <2>1. CASE d \in D
      BY <1>0, <1>6, <1>9, <2>1 DEF SectionsCut
    <2>2. CASE d \notin D
      <3>1. PICK s \in SS : d = Min(s)
        BY <2>2 DEF E, WithStarts
      <3>2. RowsFrom(r, to, E, d) = s /\ days'[d] = Section(s) /\ d \in s
        BY <1>6, <1>8, <3>1
      <3>3. AgreesWith(r, Section(s), s) /\ LevelsTold(r, Section(s), s)
        BY <1>0, <1>7, SectionTells
      <3>4. \A m \in s : DayOfMinute(m) = DayOfMinute(d)
        BY <1>4, <3>2 DEF OneDay
      <3> QED
        BY <3>2, <3>3, <3>4
    <2> QED
      BY <2>1, <2>2
  <1>14. SectionsCut'
    <2> HIDE DEF E
    <2> QED
      BY <1>2, <1>10, <1>11, <1>12, <1>13 DEF SectionsCut
  <1> QED
    BY <1>2, <1>3, <1>14 DEF CheckInv

LEMMA RowsKept ==
  ASSUME CheckInv, (\E row \in BatteryRows : RowStored(row)) \/ RowLost
  PROVE  CheckInv'
  <1>1. minuteNext < CheckEnd /\ minuteNext' = minuteNext + 1 /\ UNCHANGED <<window, days, finding>>
    BY DEF RowStored, RowLost
  <1>2. MinutesCome /\ SectionsCut
    BY DEF CheckInv
  <1>3. /\ minuteNext \in Nat /\ CheckStart \in Nat /\ CheckEnd \in Nat /\ CheckStart <= minuteNext
        /\ window = CheckStart /\ finding = {}
        /\ \A m \in DOMAIN minuteRows : m \in Nat /\ CheckStart <= m /\ m < minuteNext
    BY <1>1, <1>2, RowsNumbers, CheckAssumption DEF MinutesCome
  <1>4. DOMAIN days = {}
    <2>1. RowsSeen(minuteRows, window) = {}
      BY <1>3 DEF RowsSeen
    <2> QED
      BY <1>2, <2>1 DEF SectionsCut
  <1>5. \A m \in DOMAIN minuteRows' : m \in CheckStart..minuteNext /\ minuteRows'[m] \in BatteryRows
    <2>1. CASE RowLost
      BY <1>2, <1>3, <2>1 DEF RowLost, MinutesCome
    <2>2. ASSUME NEW row \in BatteryRows, RowStored(row)
          PROVE  \A m \in DOMAIN minuteRows' : m \in CheckStart..minuteNext /\ minuteRows'[m] \in BatteryRows
      <3>1. minuteRows' = [m \in DOMAIN minuteRows \cup {minuteNext} |-> IF m = minuteNext THEN row ELSE minuteRows[m]]
        BY <2>2 DEF RowStored
      <3> QED
        BY <1>2, <1>3, <3>1 DEF MinutesCome
    <2> QED
      BY <2>1, <2>2
  <1>6. MinutesCome'
    <2>1. DOMAIN minuteRows' \in SUBSET (CheckStart..(minuteNext' - 1))
      BY <1>1, <1>3, <1>5
    <2> QED
      BY <1>1, <1>3, <1>5, <2>1 DEF MinutesCome
  <1>7. RowsSeen(minuteRows', window') = {} /\ DOMAIN days' = {}
    BY <1>1, <1>3, <1>4, <1>5 DEF RowsSeen
  <1>8. SectionsCut'
    BY <1>7 DEF SectionsCut
  <1>9. finding' = {}
    BY <1>1, <1>3
  <1> QED
    BY <1>6, <1>8, <1>9 DEF CheckInv

LEMMA CheckStarts == CheckInit => CheckInv
  <1> SUFFICES ASSUME CheckInit PROVE CheckInv
    OBVIOUS
  <1>1. /\ DOMAIN minuteRows = {} /\ minuteNext = CheckStart /\ window = CheckStart /\ DOMAIN days = {} /\ finding = {}
    BY DEF CheckInit
  <1>2. MinutesCome
    BY <1>1, CheckAssumption DEF MinutesCome
  <1>3. SectionsCut
    BY <1>1 DEF SectionsCut, RowsSeen
  <1> QED
    BY <1>1, <1>2, <1>3 DEF CheckInv

\* The invariant holds of every behaviour.
LEMMA CheckInvariance == CheckSpec => []CheckInv
  <1>1. CheckInv /\ [CheckNext]_checkVars => CheckInv'
    <2> SUFFICES ASSUME CheckInv, [CheckNext]_checkVars PROVE CheckInv'
      OBVIOUS
    <2>1. CASE (\E row \in BatteryRows : RowStored(row)) \/ RowLost
      BY <2>1, RowsKept
    <2>2. CASE CheckWindow
      BY <2>2, WindowKept
    <2>3. CASE ReportBattery
      BY <2>3, ReportTells
    <2>4. CASE UNCHANGED checkVars
      <3>1. MinutesCome /\ SectionsCut /\ UNCHANGED <<minuteRows, minuteNext, window, days, finding>>
        BY <2>4 DEF CheckInv, checkVars
      <3>2. MinutesCome'
        BY <3>1 DEF MinutesCome
      <3>3. SectionsCut'
        BY <3>1 DEF SectionsCut
      <3> QED
        BY <3>1, <3>2, <3>3 DEF CheckInv
    <2> QED
      BY <2>1, <2>2, <2>3, <2>4 DEF CheckNext
  <1> QED
    BY <1>1, CheckStarts, PTL DEF CheckSpec

\* What is told of the rows is what the property asks for.
LEMMA ToldAddsUp ==
  ASSUME CheckInv
  PROVE  CheckAddsUp
  <1> DEFINE r == minuteRows
  <1>1. MinutesCome /\ \A f \in finding : Told(r, f)
    BY DEF CheckInv
  <1>2. ASSUME NEW part, NEW S \in SUBSET DOMAIN r, AgreesWith(r, part, S)
        PROVE  part.minutes = Cardinality(S) /\ part.charged = MapThenSumSet(In, S) /\ part.discharged = MapThenSumSet(Out, S)
    BY <1>1, <1>2, EnergySums DEF AgreesWith, MinutesIn
  <1>3. ASSUME NEW f \in finding
        PROVE  /\ f.total.minutes = Cardinality(DOMAIN r)
               /\ f.total.charged = MapThenSumSet(In, DOMAIN r) /\ f.total.discharged = MapThenSumSet(Out, DOMAIN r)
    <2>1. AgreesWith(r, f.total, DOMAIN r)
      BY <1>1 DEF Told
    <2> QED
      BY <1>2, <2>1
  <1>4. ASSUME NEW f \in finding, NEW day \in Midnights \cup {CheckStart}
        PROVE  LET taken == {m \in DOMAIN r : DayOfMinute(m) = day}
               IN  IF taken = {} THEN day \notin DOMAIN f.lines
                   ELSE /\ day \in DOMAIN f.lines
                        /\ /\ f.lines[day].minutes = Cardinality(taken)
                           /\ f.lines[day].charged = MapThenSumSet(In, taken) /\ f.lines[day].discharged = MapThenSumSet(Out, taken)
    <2> DEFINE S == RowsOfDay(r, day)
    <2>1. IF S = {} THEN day \notin DOMAIN f.lines ELSE day \in DOMAIN f.lines /\ AgreesWith(r, f.lines[day], S)
      BY <1>1 DEF Told
    <2>2. S = {m \in DOMAIN r : DayOfMinute(m) = day} /\ S \in SUBSET DOMAIN r
      BY DEF RowsOfDay
    <2> HIDE DEF S
    <2>3. CASE S = {}
      BY <2>1, <2>2, <2>3
    <2>4. CASE S # {}
      <3>1. /\ day \in DOMAIN f.lines
            /\ f.lines[day].minutes = Cardinality(S)
            /\ f.lines[day].charged = MapThenSumSet(In, S) /\ f.lines[day].discharged = MapThenSumSet(Out, S)
        BY <1>2, <2>1, <2>2, <2>4
      <3> QED
        BY <2>2, <2>4, <3>1
    <2> QED
      BY <2>3, <2>4
  <1>5. EnergyKept
    BY <1>3, <1>4 DEF EnergyKept
  <1>6. LevelChangeKept
    <2>1. WithLevel(DOMAIN r) = LevelsIn(r, DOMAIN r)
      BY DEF WithLevel, LevelsIn
    <2> QED
      BY <1>1, <2>1 DEF Told, LevelChangeKept
  <1> QED
    BY <1>5, <1>6 DEF CheckAddsUp

\* Whatever minutes the period has, whenever its midnights are and however the windows cut it, every
\* stored minute's energy is in the total and in the line of its day, once, and the change of the
\* content is the one between the first level and the last (speicher_check, summe_abschnitte).
THEOREM CheckOfTheBattery == CheckSpec => []CheckAddsUp
  <1>1. CheckInv => CheckAddsUp
    BY ToldAddsUp
  <1> QED
    BY <1>1, CheckInvariance, PTL

----------------------------------------------------------------------------
(* The bill *)

\* Rounding is half a cent away at most.
RoundsTo(x, per, q) ==
    q \in Nat /\ 2 * (per * q) <= 2 * x + per /\ 2 * x <= 2 * (per * q) + per
LEMMA Rounded ==
  ASSUME NEW x \in Nat, NEW per \in Nat \ {0}
  PROVE  RoundsTo(x, per, InCents(x, per))
  <1> DEFINE q == InCents(x, per)
             y == 2 * x + per
             a == 2 * per
  <1>1. y \in Nat /\ a \in Nat \ {0} /\ q = y \div a
    BY DEF InCents
  <1>2. q \in Nat /\ a * q <= y /\ y < a * q + a
    BY <1>1, DivWhole
  <1>3. a * q = 2 * (per * q)
    BY <1>2
  <1> HIDE DEF q
  <1>4. per * q \in Nat
    BY <1>2
  <1> QED
    BY <1>2, <1>3, <1>4 DEF q, RoundsTo

\* A product grows with a factor.
LEMMA TimesMonotone ==
  ASSUME NEW a \in Int, NEW b \in Int, NEW c \in Nat, a <= b
  PROVE  a * c <= b * c
  <1>1. b * c = a * c + (b - a) * c /\ (b - a) * c \in Nat /\ a * c \in Int
    BY SMTT(30)
  <1> QED
    BY <1>1

\* Numbers one after another are a sequence.
LEMMA SequenceOf ==
  ASSUME NEW n \in Nat, NEW f \in [1..n -> Nat]
  PROVE  f \in Seq(Nat) /\ Len(f) = n
  OBVIOUS

\* What adds up the amounts of a bill.
LEMMA AmountsSum ==
  ASSUME NEW s, IsFiniteSet(DOMAIN s)
  PROVE  SumBill(s) = SumOver(s, DOMAIN s)
  <1> DEFINE S == DOMAIN s
             Sums(F) == F = [r \in SUBSET S |-> IF r = {} THEN 0 ELSE s[CHOOSE x \in r : TRUE] + F[r \ {CHOOSE x \in r : TRUE}]]
  <1>1. ASSUME NEW F PROVE Sums(F) <=> Adds(F, s, S)
    BY PickedIn DEF Picked, Adds
  <1>2. SumBill(s) = (CHOOSE F : Sums(F))[S]
    BY DEF SumBill, FoldSeq, FoldFunction, FoldFunctionOnSet, MapThenFoldSet
  <1> HIDE DEF Sums
  <1>3. (CHOOSE F : Sums(F)) = (CHOOSE F : Adds(F, s, S))
    BY <1>1
  <1> QED
    BY <1>2, <1>3 DEF SumOver

\* Numbers near each other one by one have sums as near as there are numbers.
Below(u, v, S, c, d, e) == \A x \in S : c * u[x] <= d * v[x] + e
LEMMA SumsNear ==
  ASSUME NEW S, IsFiniteSet(S), NEW u, NEW v, Numbers(u, S), Numbers(v, S),
         NEW c \in Int, NEW d \in Int, NEW e \in Int, Below(u, v, S, c, d, e)
  PROVE  c * SumOver(u, S) <= d * SumOver(v, S) + e * Cardinality(S)
  <1> DEFINE P == {T \in SUBSET S : c * SumOver(u, T) <= d * SumOver(v, T) + e * Cardinality(T)}
  <1>1. {} \in P
    BY SumEmpty, FS_EmptySet
  <1>2. ASSUME NEW T \in SUBSET S, NEW x \in S, T \in P, x \notin T PROVE T \cup {x} \in P
    <2> DEFINE a == SumOver(u, T)
               b == SumOver(v, T)
               n == Cardinality(T)
    <2>1. IsFiniteSet(T) /\ Numbers(u, T) /\ Numbers(v, T) /\ Numbers(u, T \cup {x}) /\ Numbers(v, T \cup {x})
      BY FS_Subset DEF Numbers
    <2>2. a \in Int /\ b \in Int /\ n \in Nat /\ u[x] \in Int /\ v[x] \in Int
      BY <2>1, SumInt, FS_CardinalityType DEF Numbers
    <2>3. SumOver(u, T \cup {x}) = u[x] + a /\ SumOver(v, T \cup {x}) = v[x] + b /\ Cardinality(T \cup {x}) = n + 1
      BY <1>2, <2>1, SumWith, FS_AddElement
    <2>4. c * a <= d * b + e * n /\ c * u[x] <= d * v[x] + e
      BY <1>2 DEF Below
    <2> HIDE DEF a, b, n
    <2>5. c * (u[x] + a) = c * u[x] + c * a /\ d * (v[x] + b) = d * v[x] + d * b /\ e * (n + 1) = e * n + e
      BY <2>2
    <2>6. c * u[x] \in Int /\ c * a \in Int /\ d * v[x] \in Int /\ d * b \in Int /\ e * n \in Int
      BY <2>2
    <2>7. c * (u[x] + a) <= d * (v[x] + b) + e * (n + 1)
      BY <2>4, <2>5, <2>6
    <2> QED
      BY <2>3, <2>7
  <1>3. S \in P
    <2> HIDE DEF P
    <2> QED
      BY <1>1, <1>2, SetsByInduction
  <1> QED
    BY <1>3

\* Two amounts.
LEMMA TwoAmounts ==
  ASSUME NEW x \in Int, NEW y \in Int
  PROVE  SumBill(<<x, y>>) = x + y
  <1> DEFINE s == <<x, y>>
  <1>1. DOMAIN s = {1, 2} /\ s[1] = x /\ s[2] = y
    OBVIOUS
  <1>2. IsFiniteSet({1, 2}) /\ IsFiniteSet({2}) /\ IsFiniteSet({})
    <2>1. IsFiniteSet({}) /\ IsFiniteSet({2})
      BY FS_EmptySet, FS_Singleton
    <2>2. {1, 2} = {2} \cup {1}
      OBVIOUS
    <2> QED
      BY <2>1, <2>2, FS_AddElement
  <1>3. {1, 2} = {2} \cup {1} /\ {2} = {} \cup {2} /\ 1 \notin {2} /\ 2 \notin {}
    OBVIOUS
  <1>4. SumBill(s) = SumOver(s, {1, 2})
    BY <1>1, <1>2, AmountsSum
  <1> HIDE DEF s
  <1>5. Numbers(s, {2} \cup {1}) /\ Numbers(s, {} \cup {2})
    BY <1>1 DEF Numbers
  <1>6. SumOver(s, {2} \cup {1}) = s[1] + SumOver(s, {2})
    BY <1>2, <1>3, <1>5, SumWith
  <1>7. SumOver(s, {} \cup {2}) = s[2] + SumOver(s, {})
    BY <1>2, <1>3, <1>5, SumWith
  <1>8. SumBill(s) = x + (y + 0)
    BY <1>1, <1>3, <1>4, <1>6, <1>7, SumEmpty
  <1> QED
    BY <1>8 DEF s

\* A sequence of amounts.
LEMMA AmountsRead ==
  ASSUME NEW s \in Seq(Nat)
  PROVE  /\ DOMAIN s = 1..Len(s) /\ Len(s) \in Nat
         /\ IsFiniteSet(1..Len(s)) /\ Cardinality(1..Len(s)) = Len(s)
         /\ \A k \in 1..Len(s) : s[k] \in Nat
         /\ SumBill(s) = SumOver(s, 1..Len(s)) /\ SumBill(s) \in Nat
  <1>1. DOMAIN s = 1..Len(s) /\ Len(s) \in Nat /\ \A k \in 1..Len(s) : s[k] \in Nat
    OBVIOUS
  <1>2. IsFiniteSet(1..Len(s)) /\ Cardinality(1..Len(s)) = Len(s)
    BY <1>1, FS_Interval
  <1>3. SumBill(s) = SumOver(s, 1..Len(s))
    BY <1>1, <1>2, AmountsSum
  <1>4. SumOver(s, 1..Len(s)) \in Nat
    BY <1>1, <1>2, SumNat
  <1> QED
    BY <1>1, <1>2, <1>3, <1>4

\* The tax, rounded amount by amount, is as near as half a cent for each.
LEMMA Taxed ==
  ASSUME NEW s \in Seq(Nat)
  PROVE  /\ WithTax(s, 119) \in Nat
         /\ 200 * WithTax(s, 119) <= 238 * SumBill(s) + 100 * Len(s)
         /\ 238 * SumBill(s) <= 200 * WithTax(s, 119) + 100 * Len(s)
  <1> DEFINE S == 1..Len(s)
             t == [k \in 1..Len(s) |-> InCents(s[k] * 119, 100)]
  <1>1. /\ Len(s) \in Nat /\ IsFiniteSet(S) /\ Cardinality(S) = Len(s)
        /\ \A k \in S : s[k] \in Nat
        /\ SumBill(s) = SumOver(s, S) /\ SumBill(s) \in Nat
    BY AmountsRead
  <1>2. ASSUME NEW k \in S
        PROVE  t[k] \in Nat /\ 200 * t[k] <= 238 * s[k] + 100 /\ 238 * s[k] <= 200 * t[k] + 100
    <2> DEFINE a == s[k]
               c == InCents(a * 119, 100)
    <2>1. a \in Nat /\ t[k] = c
      BY <1>1
    <2>2. a * 119 \in Nat
      BY <2>1
    <2>3. RoundsTo(a * 119, 100, c)
      BY <2>2, Rounded
    <2> HIDE DEF a, c, t
    <2>4. c \in Nat /\ 200 * c <= 238 * a + 100 /\ 238 * a <= 200 * c + 100
      BY <2>1, <2>3 DEF RoundsTo
    <2> QED
      BY <2>1, <2>4 DEF a
  <1>3. t \in Seq(Nat) /\ Len(t) = Len(s)
    <2>1. t \in [1..Len(s) -> Nat]
      BY <1>2
    <2> QED
      BY <1>1, <2>1, SequenceOf
  <1>4. SumBill(t) = SumOver(t, S) /\ SumBill(t) \in Nat
    BY <1>3, AmountsRead
  <1>5. Numbers(t, S) /\ Numbers(s, S) /\ Below(t, s, S, 200, 238, 100) /\ Below(s, t, S, 238, 200, 100)
    BY <1>1, <1>2 DEF Numbers, Below
  <1>6. WithTax(s, 119) = SumBill(t)
    BY DEF WithTax
  <1> HIDE DEF t, S
  <1>7. 200 * SumOver(t, S) <= 238 * SumOver(s, S) + 100 * Cardinality(S)
    <2>1. IsFiniteSet(S) /\ Numbers(t, S) /\ Numbers(s, S) /\ Below(t, s, S, 200, 238, 100)
      BY <1>1, <1>5
    <2> QED
      BY ONLY <2>1, SumsNear
  <1>8. 238 * SumOver(s, S) <= 200 * SumOver(t, S) + 100 * Cardinality(S)
    <2>1. IsFiniteSet(S) /\ Numbers(t, S) /\ Numbers(s, S) /\ Below(s, t, S, 238, 200, 100)
      BY <1>1, <1>5
    <2> QED
      BY ONLY <2>1, SumsNear
  <1> QED
    BY <1>1, <1>4, <1>6, <1>7, <1>8

\* What a bill is made of.
LEMMA BillParts ==
  ASSUME NEW b \in Bill
  PROVE  /\ b.prices \in Seq(Nat) /\ b.prices # <<>> /\ Len(b.prices) \in Nat \ {0}
         /\ b.period[1] \in Nat /\ b.period[2] \in Nat /\ DaysOf(b) \in Nat \ {0}
         /\ EnergyOf(b) \in Nat \ {0}
         /\ b.number \in BillNumbers /\ b.slip \in Slips \cup {"none"}
  <1>1. /\ b.prices \in PriceLists /\ b.period \in BillPeriods
        /\ b.number \in BillNumbers /\ b.slip \in Slips \cup {"none"}
    BY DEF Bill
  <1>2. b.prices \in Seq(Nat) /\ b.prices # <<>>
    BY <1>1, InvoiceAssumption
  <1>3. b.period \in Nat \X Nat /\ b.period[1] <= b.period[2]
    BY <1>1, InvoiceAssumption
  <1>4. Len(b.prices) \in Nat \ {0}
    BY <1>2
  <1>5. b.period[1] \in Nat /\ b.period[2] \in Nat
    BY <1>3
  <1>6. DaysOf(b) \in Nat \ {0}
    BY <1>3, <1>5 DEF DaysOf
  <1>7. DailyUse * DaysOf(b) \in Nat \ {0}
    BY <1>6, InvoiceAssumption
  <1> QED
    BY <1>1, <1>2, <1>4, <1>5, <1>6, <1>7 DEF EnergyOf

\* The amounts of the positions are as near to price times energy as rounding lets them.
LEMMA PositionsNear ==
  ASSUME NEW b \in Bill, NEW kwh \in Nat \ {0}
  PROVE  LET s == AmountsOf(b, kwh)  p == [k \in DOMAIN b.prices |-> InCents(b.prices[k], 10)]  S == 1..Len(b.prices)
         IN  /\ s \in Seq(Nat) /\ Len(s) = Len(b.prices) /\ p \in Seq(Nat) /\ Len(p) = Len(b.prices)
             /\ DOMAIN s = S /\ DOMAIN p = S
             /\ Below(p, s, S, 2 * kwh, 200, kwh + 100) /\ Below(s, p, S, 200, 2 * kwh, kwh + 100)
  <1> DEFINE s == AmountsOf(b, kwh)
             p == [k \in DOMAIN b.prices |-> InCents(b.prices[k], 10)]
             S == 1..Len(b.prices)
  <1>1. b.prices \in Seq(Nat) /\ DOMAIN b.prices = S /\ Len(b.prices) \in Nat /\ \A k \in S : b.prices[k] \in Nat
    BY BillParts, AmountsRead
  <1>2. s = [k \in S |-> InCents(b.prices[k] * kwh, 1000)] /\ p = [k \in S |-> InCents(b.prices[k], 10)]
    BY <1>1 DEF AmountsOf
  <1> HIDE DEF s, p
  <1>3. ASSUME NEW k \in S
        PROVE  /\ s[k] \in Nat /\ p[k] \in Nat
               /\ 2 * kwh * p[k] <= 200 * s[k] + (kwh + 100)
               /\ 200 * s[k] <= 2 * kwh * p[k] + (kwh + 100)
    <2> DEFINE x == b.prices[k]
               a == s[k]
               c == p[k]
    <2>1. x \in Nat /\ a = InCents(x * kwh, 1000) /\ c = InCents(x, 10)
      BY <1>1, <1>2
    <2>2. x * kwh \in Nat
      BY <2>1
    <2>3. RoundsTo(x * kwh, 1000, a)
      BY <2>1, <2>2, Rounded
    <2>4. RoundsTo(x, 10, c)
      BY <2>1, Rounded
    <2> HIDE DEF x, a, c
    <2>5. a \in Nat /\ c \in Nat /\ 20 * c <= 2 * x + 10 /\ 2 * x <= 20 * c + 10
      <3>1. a \in Nat
        BY <2>3 DEF RoundsTo
      <3>2. c \in Nat /\ 2 * (10 * c) <= 2 * x + 10 /\ 2 * x <= 2 * (10 * c) + 10
        BY <2>4 DEF RoundsTo
      <3>3. x \in Nat
        BY <2>1
      <3> QED
        BY <3>1, <3>2, <3>3
    <2>6. (20 * c) * kwh <= (2 * x + 10) * kwh /\ (2 * x) * kwh <= (20 * c + 10) * kwh
      <3>1. 20 * c \in Int /\ 2 * x + 10 \in Int /\ 2 * x \in Int /\ 20 * c + 10 \in Int
        BY <2>1, <2>5
      <3> QED
        BY <2>5, <3>1, TimesMonotone
    <2>7. /\ (20 * c) * kwh = 20 * (c * kwh) /\ (2 * x + 10) * kwh = 2 * (x * kwh) + 10 * kwh
          /\ (2 * x) * kwh = 2 * (x * kwh) /\ (20 * c + 10) * kwh = 20 * (c * kwh) + 10 * kwh
          /\ 2 * kwh * c = 2 * (c * kwh) /\ c * kwh \in Nat
      <3>1. x \in Nat /\ c \in Nat
        BY <2>1, <2>5
      <3>2. (20 * c) * kwh = 20 * (c * kwh) /\ (20 * c + 10) * kwh = 20 * (c * kwh) + 10 * kwh
        BY <3>1
      <3>3. (2 * x + 10) * kwh = 2 * (x * kwh) + 10 * kwh /\ (2 * x) * kwh = 2 * (x * kwh)
        BY <3>1
      <3>4. 2 * kwh * c = 2 * (c * kwh) /\ c * kwh \in Nat
        BY <3>1
      <3> QED
        BY <3>2, <3>3, <3>4
    <2>8. 2000 * a <= 2 * (x * kwh) + 1000 /\ 2 * (x * kwh) <= 2000 * a + 1000
      BY <2>2, <2>3, <2>5 DEF RoundsTo
    <2>9. 2 * kwh * c <= 200 * a + (kwh + 100) /\ 200 * a <= 2 * kwh * c + (kwh + 100)
      <3> DEFINE y == x * kwh
                 z == c * kwh
      <3>1. y \in Nat /\ z \in Nat /\ a \in Nat /\ kwh \in Nat /\ 2 * kwh * c = 2 * z
        BY <2>2, <2>5, <2>7
      <3>2. 20 * z <= 2 * y + 10 * kwh /\ 2 * y <= 20 * z + 10 * kwh
        BY <2>6, <2>7
      <3>3. 2000 * a <= 2 * y + 1000 /\ 2 * y <= 2000 * a + 1000
        BY <2>8
      <3> HIDE DEF y, z
      <3>4. 2 * z <= 200 * a + (kwh + 100) /\ 200 * a <= 2 * z + (kwh + 100)
        BY <3>1, <3>2, <3>3
      <3> QED
        BY <3>1, <3>4
    <2> QED
      BY <2>1, <2>5, <2>9 DEF a, c
  <1>4. s \in Seq(Nat) /\ Len(s) = Len(b.prices) /\ p \in Seq(Nat) /\ Len(p) = Len(b.prices)
    <2>1. (\A k \in S : s[k] \in Nat) /\ (\A k \in S : p[k] \in Nat)
      BY <1>3
    <2>2. s = [k \in S |-> s[k]] /\ p = [k \in S |-> p[k]]
      BY <1>2
    <2>3. s \in [S -> Nat] /\ p \in [S -> Nat]
      <3> HIDE DEF S
      <3> QED
        BY <2>1, <2>2
    <2> QED
      BY <1>1, <2>3, SequenceOf
  <1>5. DOMAIN s = S /\ DOMAIN p = S
    BY <1>2
  <1>6. Below(p, s, S, 2 * kwh, 200, kwh + 100) /\ Below(s, p, S, 200, 2 * kwh, kwh + 100)
    BY <1>3 DEF Below
  <1> QED
    BY <1>4, <1>5, <1>6 DEF s, p

\* What a check that fails leaves among the findings, and that alone.
LEMMA FoundWhat ==
  ASSUME NEW i
  PROVE  /\ \A c \in DOMAIN Checks(i) : ~Checks(i)[c] => [code |-> c, severity |-> "error"] \in CheckInvoice(i)
         /\ (\A c \in DOMAIN Checks(i) : Checks(i)[c]) => CheckInvoice(i) = {}
  <1>1. ASSUME NEW c \in DOMAIN Checks(i), ~Checks(i)[c]
        PROVE  [code |-> c, severity |-> "error"] \in CheckInvoice(i)
    <2>1. Found(c, "error", ~Checks(i)[c]) = {[code |-> c, severity |-> "error"]}
      BY <1>1 DEF Found
    <2>2. Found(c, "error", ~Checks(i)[c]) \in {Found(d, "error", ~Checks(i)[d]) : d \in DOMAIN Checks(i)}
      OBVIOUS
    <2> QED
      BY <2>1, <2>2 DEF CheckInvoice
  <1>2. ASSUME \A c \in DOMAIN Checks(i) : Checks(i)[c]
        PROVE  CheckInvoice(i) = {}
    <2>1. \A c \in DOMAIN Checks(i) : Found(c, "error", ~Checks(i)[c]) = {}
      BY <1>2 DEF Found
    <2> QED
      BY <2>1 DEF CheckInvoice
  <1> QED
    BY <1>1, <1>2

\* The checks, one by one.
ChecksOne(i) ==
    /\ \A k \in DOMAIN i.amounts : Near(2 * i.prices[k] * i.kwh, 200 * i.amounts[k], i.kwh + 200)
    /\ Near(SumBill(i.amounts), i.energyNet, 2)
    /\ Near(SumBill(i.prices), i.average, 2)
    /\ Near(1000 * i.energyNet, 10 * i.average * i.kwh, 11 * i.kwh)
    /\ Near(119 * i.average, 100 * i.averageGross, 200)
ChecksTwo(i) ==
    /\ GrossNear(i.energyNet, i.energyGross, Len(i.amounts))
    /\ Near(MonthFee * Min({i.feeDays, MonthDays}), i.fees[1] * MonthDays, MonthDays)
    /\ Near(DayFee * i.feeDays, i.fees[2], 1)
    /\ i.feeDays = i.end - i.start + 1
    /\ Near(SumBill(i.fees), i.feesNet, 2)
    /\ GrossNear(i.feesNet, i.feesGross, Len(i.fees))
ChecksThree(i) ==
    /\ Near(i.energyNet + i.feesNet, i.totalNet, 1)
    /\ GrossNear(i.totalNet, i.totalGross, Len(i.amounts) + Len(i.fees))
    /\ Near(i.totalGross - i.totalNet, i.vat, 1)
    /\ Near(190 * i.totalNet, 1000 * i.vat, i.totalNet)
    /\ Near(100 * (i.meterEnd - i.meterStart), 100 * i.kwh, 2)

\* When each holds, they all hold; one that does not is among them.
LEMMA ChecksAll ==
  ASSUME NEW i
  PROVE  /\ ChecksOne(i) /\ ChecksTwo(i) /\ ChecksThree(i) => \A c \in DOMAIN Checks(i) : Checks(i)[c]
         /\ {"positions_sum", "energy_gross", "fee_days", "meter_delta"} \subseteq DOMAIN Checks(i)
         /\ Checks(i)["positions_sum"] <=> Near(SumBill(i.amounts), i.energyNet, 2)
         /\ Checks(i)["energy_gross"] <=> GrossNear(i.energyNet, i.energyGross, Len(i.amounts))
         /\ Checks(i)["fee_days"] <=> i.feeDays = i.end - i.start + 1
         /\ Checks(i)["meter_delta"] <=> Near(100 * (i.meterEnd - i.meterStart), 100 * i.kwh, 2)
  <1>1. ASSUME ChecksOne(i), ChecksTwo(i), ChecksThree(i)
        PROVE  \A c \in DOMAIN Checks(i) : Checks(i)[c]
    <2>1. Checks(i)["position"] /\ Checks(i)["positions_sum"] /\ Checks(i)["positions_ct_sum"] /\ Checks(i)["avg_price"] /\ Checks(i)["avg_price_gross"]
      <3>1. Checks(i)["position"]
        BY <1>1 DEF Checks, ChecksOne
      <3>2. Checks(i)["positions_sum"]
        BY <1>1 DEF Checks, ChecksOne
      <3>3. Checks(i)["positions_ct_sum"]
        BY <1>1 DEF Checks, ChecksOne
      <3>4. Checks(i)["avg_price"]
        BY <1>1 DEF Checks, ChecksOne
      <3>5. Checks(i)["avg_price_gross"]
        BY <1>1 DEF Checks, ChecksOne
      <3> QED
        BY <3>1, <3>2, <3>3, <3>4, <3>5
    <2>2. Checks(i)["energy_gross"] /\ Checks(i)["fee"] /\ Checks(i)["fee_days"] /\ Checks(i)["fees_sum"] /\ Checks(i)["fees_gross"]
      <3>1. Checks(i)["energy_gross"]
        BY <1>1 DEF Checks, ChecksTwo
      <3>2. Checks(i)["fee"]
        BY <1>1 DEF Checks, ChecksTwo
      <3>3. Checks(i)["fee_days"]
        BY <1>1 DEF Checks, ChecksTwo
      <3>4. Checks(i)["fees_sum"]
        BY <1>1 DEF Checks, ChecksTwo
      <3>5. Checks(i)["fees_gross"]
        BY <1>1 DEF Checks, ChecksTwo
      <3> QED
        BY <3>1, <3>2, <3>3, <3>4, <3>5
    <2>3. Checks(i)["total_net"] /\ Checks(i)["total_gross"] /\ Checks(i)["vat"] /\ Checks(i)["vat_rate"] /\ Checks(i)["meter_delta"]
      <3>1. Checks(i)["total_net"]
        BY <1>1 DEF Checks, ChecksThree
      <3>2. Checks(i)["total_gross"]
        BY <1>1 DEF Checks, ChecksThree
      <3>3. Checks(i)["vat"]
        BY <1>1 DEF Checks, ChecksThree
      <3>4. Checks(i)["vat_rate"]
        BY <1>1 DEF Checks, ChecksThree
      <3>5. Checks(i)["meter_delta"]
        BY <1>1 DEF Checks, ChecksThree
      <3> QED
        BY <3>1, <3>2, <3>3, <3>4, <3>5
    <2>4. DOMAIN Checks(i) = {"position", "positions_sum", "positions_ct_sum", "avg_price", "avg_price_gross",
                              "energy_gross", "fee", "fee_days", "fees_sum", "fees_gross",
                              "total_net", "total_gross", "vat", "vat_rate", "meter_delta"}
      BY DEF Checks
    <2> QED
      BY <2>1, <2>2, <2>3, <2>4
  <1>2. {"positions_sum", "energy_gross", "fee_days", "meter_delta"} \subseteq DOMAIN Checks(i)
    BY DEF Checks
  <1>3. Checks(i)["positions_sum"] <=> Near(SumBill(i.amounts), i.energyNet, 2)
    BY DEF Checks
  <1>4. Checks(i)["energy_gross"] <=> GrossNear(i.energyNet, i.energyGross, Len(i.amounts))
    BY DEF Checks
  <1>5. Checks(i)["fee_days"] <=> i.feeDays = i.end - i.start + 1
    BY DEF Checks
  <1>6. Checks(i)["meter_delta"] <=> Near(100 * (i.meterEnd - i.meterStart), 100 * i.kwh, 2)
    BY DEF Checks
  <1> QED
    BY <1>1, <1>2, <1>3, <1>4, <1>5, <1>6

\* The two basic fees of a bill.
FeeDays(b) == DaysOf(b) + (IF b.slip = "days" THEN 1 ELSE 0)
LEMMA FeesRead ==
  ASSUME NEW b \in Bill
  PROVE  /\ FeeDays(b) \in Nat /\ Min({FeeDays(b), MonthDays}) \in Nat
         /\ FeesOf(b) \in Seq(Nat) /\ Len(FeesOf(b)) = 2 /\ SumBill(FeesOf(b)) \in Nat
         /\ RoundsTo(MonthFee * Min({FeeDays(b), MonthDays}), MonthDays, FeesOf(b)[1])
         /\ FeesOf(b)[2] = DayFee * FeeDays(b)
  <1> DEFINE d == FeeDays(b)
             m == Min({FeeDays(b), MonthDays})
             x == InCents(MonthFee * m, MonthDays)
  <1>1. d \in Nat
    BY BillParts DEF FeeDays
  <1>2. m \in Nat
    <2>1. {FeeDays(b), MonthDays} \in SUBSET Nat /\ {FeeDays(b), MonthDays} # {}
      BY <1>1, InvoiceAssumption
    <2>2. m \in {FeeDays(b), MonthDays}
      BY <2>1, MinIs
    <2> QED
      BY <2>1, <2>2
  <1>3. FeesOf(b) = <<x, DayFee * d>>
    BY DEF FeesOf, FeeDays
  <1> HIDE DEF d, m
  <1>4. MonthFee * m \in Nat /\ DayFee * d \in Nat
    BY <1>1, <1>2, InvoiceAssumption
  <1>5. RoundsTo(MonthFee * m, MonthDays, x)
    BY <1>4, Rounded, InvoiceAssumption
  <1>6. x \in Nat
    BY <1>5 DEF RoundsTo
  <1> HIDE DEF x
  <1>7. FeesOf(b) \in Seq(Nat) /\ Len(FeesOf(b)) = 2 /\ FeesOf(b)[1] = x /\ FeesOf(b)[2] = DayFee * d
    BY <1>3, <1>4, <1>6
  <1>8. SumBill(FeesOf(b)) \in Nat
    BY <1>7, AmountsRead
  <1> QED
    BY <1>1, <1>2, <1>5, <1>7, <1>8 DEF d, m

\* What is printed on a bill without a slip, ...
PricesOf(b) == [k \in DOMAIN b.prices |-> InCents(b.prices[k], 10)]
PrintedRight(b, i) ==
    LET kwh == EnergyOf(b)  s == AmountsOf(b, kwh)
    IN  /\ i.start = b.period[1] /\ i.end = b.period[2] /\ i.kwh = kwh
        /\ i.meterStart = MeterAt(b.period[1]) /\ i.meterEnd = MeterAt(b.period[2] + 1)
        /\ i.prices = PricesOf(b) /\ i.amounts = s /\ i.fees = FeesOf(b) /\ i.feeDays = DaysOf(b)
        /\ i.energyNet = SumBill(s) /\ i.energyGross = WithTax(s, 119)
        /\ i.feesNet = SumBill(FeesOf(b)) /\ i.feesGross = WithTax(FeesOf(b), 119)
        /\ i.totalNet = i.energyNet + i.feesNet /\ i.totalGross = i.energyGross + i.feesGross
        /\ i.vat = i.energyGross + i.feesGross - i.energyNet - i.feesNet
        /\ i.average = InCents(i.energyNet * 100, kwh) /\ i.averageGross = InCents(i.energyNet * 119, kwh)
LEMMA RightPrinted ==
  ASSUME NEW b \in Bill, b.slip = "none"
  PROVE  PrintedRight(b, Printed(b)) /\ FeeDays(b) = DaysOf(b)
  <1> DEFINE i == Printed(b)
             s == AmountsOf(b, EnergyOf(b))
  <1>1. SumBill(s) \in Nat /\ WithTax(s, 119) \in Nat /\ EnergyOf(b) \in Nat /\ DaysOf(b) \in Nat
    <2>1. EnergyOf(b) \in Nat \ {0} /\ DaysOf(b) \in Nat
      BY BillParts
    <2>2. s \in Seq(Nat)
      BY <2>1, PositionsNear
    <2> HIDE DEF s
    <2>3. SumBill(s) \in Nat
      BY <2>2, AmountsRead
    <2>4. WithTax(s, 119) \in Nat
      BY <2>2, Taxed
    <2> QED
      BY <2>1, <2>3, <2>4
  <1>2. /\ DaysOf(b) + (IF b.slip = "days" THEN 1 ELSE 0) = DaysOf(b)
        /\ EnergyOf(b) + (IF b.slip = "meter" THEN 1 ELSE 0) = EnergyOf(b)
    BY <1>1
  <1>3. i.kwh = EnergyOf(b) /\ i.feeDays = DaysOf(b) /\ FeeDays(b) = DaysOf(b)
    BY <1>2 DEF Printed, FeeDays
  <1>4. i.amounts = s
    BY <1>2 DEF Printed
  <1>5. i.energyNet = SumBill(s) - 0 /\ i.energyGross = WithTax(s, 119) - 0 + 0
    BY <1>2 DEF Printed
  <1>6. i.energyNet = SumBill(s) /\ i.energyGross = WithTax(s, 119)
    BY <1>1, <1>5
  <1>7. /\ i.start = b.period[1] /\ i.end = b.period[2] /\ i.prices = PricesOf(b) /\ i.fees = FeesOf(b)
        /\ i.meterStart = MeterAt(b.period[1]) /\ i.meterEnd = MeterAt(b.period[2] + 1)
        /\ i.feesNet = SumBill(FeesOf(b)) /\ i.feesGross = WithTax(FeesOf(b), 119)
    BY DEF Printed, PricesOf
  <1>8. /\ i.totalNet = i.energyNet + i.feesNet /\ i.totalGross = i.energyGross + i.feesGross
        /\ i.vat = i.energyGross + i.feesGross - i.energyNet - i.feesNet
    <2>1. i.totalNet = i.energyNet + i.feesNet
      BY DEF Printed
    <2>2. i.totalGross = i.energyGross + i.feesGross
      BY DEF Printed
    <2>3. i.vat = i.energyGross + i.feesGross - i.energyNet - i.feesNet
      BY DEF Printed
    <2> QED
      BY <2>1, <2>2, <2>3
  <1>9. i.average = InCents(i.energyNet * 100, EnergyOf(b)) /\ i.averageGross = InCents(i.energyNet * 119, EnergyOf(b))
    BY <1>2 DEF Printed
  <1> HIDE DEF i, s
  <1> QED
    BY <1>3, <1>4, <1>6, <1>7, <1>8, <1>9 DEF PrintedRight, i, s

\* ... whose positions are in order, ...
LEMMA RightPositions ==
  ASSUME NEW b \in Bill, b.slip = "none", BillTells(b)
  PROVE  ChecksOne(Printed(b))
  <1> DEFINE i == Printed(b)
             kwh == EnergyOf(b)
             n == Len(b.prices)
             S == 1..n
             s == AmountsOf(b, kwh)
             p == PricesOf(b)
             net == SumBill(s)
             sum == SumBill(p)
             mean == InCents(net * 100, kwh)
             gross == InCents(net * 119, kwh)
  <1>1. kwh \in Nat \ {0} /\ n \in Nat \ {0} /\ PrintedRight(b, i)
    BY BillParts, RightPrinted
  <1>2. /\ s \in Seq(Nat) /\ Len(s) = n /\ DOMAIN s = S /\ p \in Seq(Nat) /\ Len(p) = n
        /\ Below(p, s, S, 2 * kwh, 200, kwh + 100) /\ Below(s, p, S, 200, 2 * kwh, kwh + 100)
    BY <1>1, PositionsNear DEF PricesOf
  <1>3. /\ IsFiniteSet(S) /\ Cardinality(S) = n /\ (\A k \in S : s[k] \in Nat /\ p[k] \in Nat)
        /\ net = SumOver(s, S) /\ net \in Nat /\ sum = SumOver(p, S) /\ sum \in Nat
    BY <1>2, AmountsRead
  <1>4. (n + 1) * kwh + 100 * n < 6 * kwh
    BY DEF BillTells
  <1>5. i.kwh = kwh /\ i.amounts = s /\ i.prices = p /\ i.energyNet = net /\ i.average = mean /\ i.averageGross = gross
    BY <1>1 DEF PrintedRight
  <1>6. RoundsTo(net * 100, kwh, mean) /\ RoundsTo(net * 119, kwh, gross)
    <2> HIDE DEF net, kwh
    <2>1. net * 100 \in Nat /\ net * 119 \in Nat
      BY <1>3
    <2> QED
      BY <1>1, <2>1, Rounded
  <1> HIDE DEF i, kwh, n, S, s, p, net, sum, mean, gross
  <1>7. \A k \in DOMAIN s : Near(2 * p[k] * kwh, 200 * s[k], kwh + 200)
    <2> SUFFICES ASSUME NEW k \in S PROVE Near(2 * p[k] * kwh, 200 * s[k], kwh + 200)
      BY <1>2
    <2>1. /\ 2 * kwh * p[k] <= 200 * s[k] + (kwh + 100) /\ 200 * s[k] <= 2 * kwh * p[k] + (kwh + 100)
          /\ s[k] \in Nat /\ p[k] \in Nat
      BY <1>2, <1>3 DEF Below
    <2>2. 2 * p[k] * kwh = 2 * kwh * p[k] /\ 2 * kwh * p[k] \in Nat
      BY <1>1, <2>1
    <2> QED
      BY <1>1, <2>1, <2>2 DEF Near
  <1>8. Near(SumBill(s), net, 2)
    BY <1>3 DEF Near, net
  <1> DEFINE M == kwh * mean
             G == kwh * gross
             P == kwh * sum
             E == n * kwh
  <1>9. /\ mean \in Nat /\ M \in Nat /\ 2 * M <= 200 * net + kwh /\ 200 * net <= 2 * M + kwh
        /\ gross \in Nat /\ G \in Nat /\ 2 * G <= 238 * net + kwh /\ 238 * net <= 2 * G + kwh
    <2>1. mean \in Nat /\ 2 * (kwh * mean) <= 2 * (net * 100) + kwh /\ 2 * (net * 100) <= 2 * (kwh * mean) + kwh
      BY <1>6 DEF RoundsTo
    <2>2. gross \in Nat /\ 2 * (kwh * gross) <= 2 * (net * 119) + kwh /\ 2 * (net * 119) <= 2 * (kwh * gross) + kwh
      BY <1>6 DEF RoundsTo
    <2>3. M \in Nat /\ G \in Nat
      BY <1>1, <2>1, <2>2
    <2> HIDE DEF M, G
    <2>4. 2 * M <= 2 * (net * 100) + kwh /\ 2 * (net * 100) <= 2 * M + kwh
      BY <2>1 DEF M
    <2>5. 2 * G <= 2 * (net * 119) + kwh /\ 2 * (net * 119) <= 2 * G + kwh
      BY <2>2 DEF G
    <2> QED
      BY <1>1, <1>3, <2>1, <2>2, <2>3, <2>4, <2>5
  <1>10. /\ P \in Nat /\ E \in Nat /\ 2 * P <= 200 * net + E + 100 * n /\ 200 * net <= 2 * P + E + 100 * n
    <2>1. Numbers(s, S) /\ Numbers(p, S) /\ 2 * kwh \in Int /\ kwh + 100 \in Int
      BY <1>1, <1>3 DEF Numbers
    <2> DEFINE c == 2 * kwh
               e == kwh + 100
    <2>2. c \in Int /\ e \in Int /\ Below(p, s, S, c, 200, e) /\ Below(s, p, S, 200, c, e)
      BY <1>2, <2>1
    <2> HIDE DEF c, e
    <2>3. /\ c * SumOver(p, S) <= 200 * SumOver(s, S) + e * Cardinality(S)
          /\ 200 * SumOver(s, S) <= c * SumOver(p, S) + e * Cardinality(S)
      <3>1. IsFiniteSet(S) /\ Numbers(s, S) /\ Numbers(p, S) /\ 200 \in Int
        BY <1>3, <2>1
      <3>2. c * SumOver(p, S) <= 200 * SumOver(s, S) + e * Cardinality(S)
        BY <2>2, <3>1, SumsNear
      <3>3. 200 * SumOver(s, S) <= c * SumOver(p, S) + e * Cardinality(S)
        BY <2>2, <3>1, SumsNear
      <3> QED
        BY <3>2, <3>3
    <2>4. (2 * kwh) * sum <= 200 * net + (kwh + 100) * n /\ 200 * net <= (2 * kwh) * sum + (kwh + 100) * n
      BY <1>3, <2>3 DEF c, e
    <2>5. (2 * kwh) * sum = 2 * P /\ (kwh + 100) * n = E + 100 * n /\ P \in Nat /\ E \in Nat
      BY <1>1, <1>3
    <2> HIDE DEF P, E
    <2> QED
      BY <1>1, <1>3, <2>4, <2>5
  <1>11. E + kwh + 100 * n < 6 * kwh
    <2>1. (n + 1) * kwh = E + kwh
      BY <1>1
    <2> QED
      BY <1>4, <2>1
  <1> HIDE DEF M, G, P, E
  <1>12. Near(sum, mean, 2)
    <2>1. ASSUME sum - mean > 2 PROVE FALSE
      <3>1. sum - mean >= 3
        BY <1>3, <1>9, <2>1
      <3>2. 3 * kwh <= (sum - mean) * kwh
        BY <1>1, <1>3, <1>9, <3>1, TimesMonotone
      <3>3. (sum - mean) * kwh = P - M
        BY <1>1, <1>3, <1>9 DEF P, M
      <3> QED
        BY <1>1, <1>3, <1>9, <1>10, <1>11, <3>2, <3>3
    <2>2. ASSUME mean - sum > 2 PROVE FALSE
      <3>1. mean - sum >= 3
        BY <1>3, <1>9, <2>2
      <3>2. 3 * kwh <= (mean - sum) * kwh
        BY <1>1, <1>3, <1>9, <3>1, TimesMonotone
      <3>3. (mean - sum) * kwh = M - P
        BY <1>1, <1>3, <1>9 DEF P, M
      <3> QED
        BY <1>1, <1>3, <1>9, <1>10, <1>11, <3>2, <3>3
    <2> QED
      BY <1>3, <1>9, <2>1, <2>2 DEF Near
  <1>13. Near(1000 * net, 10 * mean * kwh, 11 * kwh)
    <2>1. 10 * mean * kwh = 10 * M
      BY <1>1, <1>9 DEF M
    <2> QED
      BY <1>1, <1>3, <1>9, <2>1 DEF Near
  <1>14. Near(119 * mean, 100 * gross, 200)
    <2> DEFINE d == 119 * mean - 100 * gross
    <2>1. d \in Int /\ d * kwh = 119 * M - 100 * G
      BY <1>1, <1>9 DEF M, G
    <2>2. 2 * (d * kwh) <= 219 * kwh /\ -(219 * kwh) <= 2 * (d * kwh)
      BY <1>1, <1>3, <1>9, <2>1
    <2> HIDE DEF d
    <2>3. ASSUME d > 200 PROVE FALSE
      <3>1. 200 * kwh <= d * kwh
        BY <1>1, <2>1, <2>3, TimesMonotone
      <3> QED
        BY <1>1, <2>1, <2>2, <3>1
    <2>4. ASSUME -d > 200 PROVE FALSE
      <3>1. d * kwh <= (-200) * kwh
        BY <1>1, <2>1, <2>4, TimesMonotone
      <3> QED
        BY <1>1, <2>1, <2>2, <3>1
    <2>5. d <= 200 /\ -d <= 200
      BY <2>1, <2>3, <2>4
    <2> QED
      BY <1>9, <2>5 DEF d, Near
  <1>15. SumBill(i.prices) = sum
    BY <1>5 DEF sum
  <1> QED
    BY <1>5, <1>7, <1>8, <1>12, <1>13, <1>14, <1>15 DEF ChecksOne, i

\* ... and so are its taxes and fees ...
LEMMA RightTaxes ==
  ASSUME NEW b \in Bill, b.slip = "none", BillTells(b)
  PROVE  ChecksTwo(Printed(b)) /\ ChecksThree(Printed(b))
  <1> DEFINE i == Printed(b)
             kwh == EnergyOf(b)
             n == Len(b.prices)
             s == AmountsOf(b, kwh)
             f == FeesOf(b)
             d == DaysOf(b)
             m == Min({d, MonthDays})
             net == SumBill(s)
             gross == WithTax(s, 119)
             fees == SumBill(f)
             feesGross == WithTax(f, 119)
  <1>1. kwh \in Nat \ {0} /\ n \in Nat \ {0} /\ d \in Nat /\ PrintedRight(b, i) /\ FeeDays(b) = d
    BY BillParts, RightPrinted
  <1>2. s \in Seq(Nat) /\ Len(s) = n
    BY <1>1, PositionsNear
  <1>3. /\ net \in Nat /\ gross \in Nat
        /\ 200 * gross <= 238 * net + 100 * n /\ 238 * net <= 200 * gross + 100 * n
    <2> HIDE DEF s, n
    <2>1. net \in Nat
      BY <1>2, AmountsRead
    <2>2. /\ gross \in Nat
          /\ 200 * gross <= 238 * net + 100 * Len(s) /\ 238 * net <= 200 * gross + 100 * Len(s)
      <3>1. s \in Seq(Nat)
        BY <1>2
      <3> QED
        BY ONLY <3>1, Taxed
    <2> QED
      BY <1>2, <2>1, <2>2
  <1>4. /\ f \in Seq(Nat) /\ Len(f) = 2 /\ fees \in Nat /\ m \in Nat
        /\ RoundsTo(MonthFee * m, MonthDays, f[1]) /\ f[2] = DayFee * d
    BY <1>1, FeesRead
  <1>5. /\ feesGross \in Nat
        /\ 200 * feesGross <= 238 * fees + 100 * 2 /\ 238 * fees <= 200 * feesGross + 100 * 2
    <2>1. f \in Seq(Nat) /\ Len(f) = 2
      BY <1>4
    <2> HIDE DEF f
    <2>2. /\ feesGross \in Nat
          /\ 200 * feesGross <= 238 * fees + 100 * Len(f) /\ 238 * fees <= 200 * feesGross + 100 * Len(f)
      BY ONLY <2>1, Taxed
    <2> QED
      BY <2>1, <2>2
  <1>6. net + fees >= 500 * (n + 2)
    BY DEF BillTells
  <1>7. /\ i.start = b.period[1] /\ i.end = b.period[2] /\ i.kwh = kwh
        /\ i.meterStart = MeterAt(b.period[1]) /\ i.meterEnd = MeterAt(b.period[2] + 1)
    BY <1>1 DEF PrintedRight
  <1>8. /\ i.amounts = s /\ i.fees = f /\ i.feeDays = d
        /\ i.energyNet = net /\ i.energyGross = gross /\ i.feesNet = fees /\ i.feesGross = feesGross
        /\ i.totalNet = net + fees /\ i.totalGross = gross + feesGross
        /\ i.vat = gross + feesGross - net - fees
    BY <1>1 DEF PrintedRight
  <1>9. /\ d = b.period[2] - b.period[1] + 1 /\ kwh = DailyUse * d
        /\ b.period[1] \in Nat /\ b.period[2] \in Nat /\ DailyUse \in Nat /\ MonthFee \in Nat
        /\ DayFee \in Nat /\ MonthDays \in Nat
    BY BillParts, InvoiceAssumption DEF EnergyOf, DaysOf
  <1>10. SumBill(i.fees) = fees /\ SumBill(i.amounts) = net
    BY <1>8
  <1> HIDE DEF i, kwh, n, s, f, d, m, net, gross, fees, feesGross
  <1>11. GrossNear(net, gross, n) /\ GrossNear(fees, feesGross, 2) /\ GrossNear(net + fees, gross + feesGross, n + 2)
    BY <1>1, <1>3, <1>4, <1>5 DEF GrossNear, Near
  <1>12. Near(MonthFee * m, f[1] * MonthDays, MonthDays)
    <2>1. f[1] \in Nat /\ 2 * (MonthDays * f[1]) <= 2 * (MonthFee * m) + MonthDays
          /\ 2 * (MonthFee * m) <= 2 * (MonthDays * f[1]) + MonthDays
      BY <1>4 DEF RoundsTo
    <2>2. MonthDays * f[1] = f[1] * MonthDays /\ f[1] * MonthDays \in Nat /\ MonthFee * m \in Nat
      <3>1. MonthDays * f[1] = f[1] * MonthDays /\ f[1] * MonthDays \in Nat
        BY <1>9, <2>1
      <3>2. MonthFee * m \in Nat
        BY <1>4, <1>9
      <3> QED
        BY <3>1, <3>2
    <2> QED
      BY <1>9, <2>1, <2>2 DEF Near
  <1>13. Near(DayFee * d, f[2], 1) /\ Near(fees, fees, 2)
    <2>1. DayFee * d \in Nat
      BY <1>1, <1>9
    <2> QED
      BY <1>4, <2>1 DEF Near
  <1>14. d = i.end - i.start + 1
    BY <1>7, <1>9
  <1>15. ChecksTwo(i)
    BY <1>2, <1>4, <1>8, <1>10, <1>11, <1>12, <1>13, <1>14 DEF ChecksTwo, m
  <1>16. Near(net + fees, net + fees, 1) /\ Near(gross + feesGross - (net + fees), gross + feesGross - net - fees, 1)
    BY <1>3, <1>4, <1>5 DEF Near
  <1>17. Near(190 * (net + fees), 1000 * (gross + feesGross - net - fees), net + fees)
    BY <1>1, <1>3, <1>4, <1>5, <1>6 DEF Near
  <1>18. Near(100 * (i.meterEnd - i.meterStart), 100 * kwh, 2)
    <2>1. i.meterEnd - i.meterStart = kwh
      <3>1. (b.period[2] + 1) * DailyUse - b.period[1] * DailyUse = DailyUse * (b.period[2] - b.period[1] + 1)
        BY <1>9
      <3> QED
        BY <1>7, <1>9, <3>1 DEF MeterAt
    <2> QED
      BY <1>1, <2>1 DEF Near
  <1>19. ChecksThree(i)
    <2>1. Near(i.energyNet + i.feesNet, i.totalNet, 1)
      BY <1>8, <1>16
    <2>2. GrossNear(i.totalNet, i.totalGross, Len(i.amounts) + Len(i.fees))
      BY <1>2, <1>4, <1>8, <1>11
    <2>3. Near(i.totalGross - i.totalNet, i.vat, 1)
      <3>1. i.totalGross - i.totalNet = gross + feesGross - (net + fees) /\ i.vat = gross + feesGross - net - fees
        BY <1>3, <1>4, <1>5, <1>8
      <3> QED
        BY <1>16, <3>1
    <2>4. Near(190 * i.totalNet, 1000 * i.vat, i.totalNet)
      BY <1>8, <1>17
    <2>5. Near(100 * (i.meterEnd - i.meterStart), 100 * i.kwh, 2)
      BY <1>7, <1>18
    <2> QED
      BY <2>1, <2>2, <2>3, <2>4, <2>5 DEF ChecksThree
  <1> QED
    BY <1>15, <1>19 DEF i

\* A bill with a slip: the check that fails.
LEMMA SlipShows ==
  ASSUME NEW b \in Bill, b.slip # "none", BillTells(b)
  PROVE  \E c \in DOMAIN Checks(Printed(b)) : ~Checks(Printed(b))[c]
  <1> DEFINE i == Printed(b)
             kwh == EnergyOf(b)
             n == Len(b.prices)
             s == AmountsOf(b, kwh)
             net == SumBill(s)
             gross == WithTax(s, 119)
  <1>1. kwh \in Nat \ {0} /\ n \in Nat \ {0} /\ DaysOf(b) \in Nat /\ b.slip \in {"position", "tax", "days", "meter"}
    BY BillParts, InvoiceAssumption
  <1>2. s \in Seq(Nat) /\ Len(s) = n /\ s[1] \in Nat
    <2>1. s \in Seq(Nat) /\ Len(s) = n
      BY <1>1, PositionsNear
    <2> QED
      BY <1>1, <2>1, AmountsRead
  <1>3. /\ net \in Nat /\ gross \in Nat
        /\ 238 * net <= 200 * gross + 100 * n
    BY <1>2, AmountsRead, Taxed
  <1>4. s[1] >= 3 /\ net >= 100 * (n + 2)
    BY DEF BillTells
  <1>5. /\ i.start = b.period[1] /\ i.end = b.period[2]
        /\ i.meterStart = MeterAt(b.period[1]) /\ i.meterEnd = MeterAt(b.period[2] + 1)
    BY DEF Printed
  <1>6. /\ {"positions_sum", "energy_gross", "fee_days", "meter_delta"} \subseteq DOMAIN Checks(i)
        /\ Checks(i)["positions_sum"] <=> Near(SumBill(i.amounts), i.energyNet, 2)
        /\ Checks(i)["energy_gross"] <=> GrossNear(i.energyNet, i.energyGross, Len(i.amounts))
        /\ Checks(i)["fee_days"] <=> i.feeDays = i.end - i.start + 1
        /\ Checks(i)["meter_delta"] <=> Near(100 * (i.meterEnd - i.meterStart), 100 * i.kwh, 2)
    BY ChecksAll
  <1>7. /\ DaysOf(b) = b.period[2] - b.period[1] + 1 /\ kwh = DailyUse * DaysOf(b)
        /\ b.period[1] \in Nat /\ b.period[2] \in Nat /\ DailyUse \in Nat
    BY BillParts, InvoiceAssumption DEF EnergyOf, DaysOf
  <1>8. b.slip # "meter" => EnergyOf(b) + (IF b.slip = "meter" THEN 1 ELSE 0) = kwh
    BY <1>1
  <1>9. CASE b.slip = "position"
    <2>1. i.amounts = s /\ i.energyNet = net - s[1]
      <3>1. i.amounts = s
        BY <1>8, <1>9 DEF Printed
      <3>2. i.energyNet = SumBill(i.amounts) - i.amounts[1]
        BY <1>9 DEF Printed
      <3> QED
        BY <3>1, <3>2
    <2>2. SumBill(i.amounts) = net
      BY <2>1
    <2> HIDE DEF i, s, net
    <2>3. ~(SumBill(i.amounts) - i.energyNet <= 2)
      BY <1>2, <1>3, <1>4, <2>1, <2>2
    <2>4. ~Near(SumBill(i.amounts), i.energyNet, 2)
      BY <2>3 DEF Near
    <2> QED
      BY <1>6, <2>4 DEF i
  <1>10. CASE b.slip = "tax"
    <2> DEFINE t == InCents(net, 100)
    <2>1. i.amounts = s /\ i.energyNet = net /\ i.energyGross = gross + t
      <3>1. i.amounts = s
        BY <1>8, <1>10 DEF Printed
      <3>2. i.energyNet = SumBill(i.amounts) - 0 /\ i.energyGross = WithTax(i.amounts, 119) - 0 + InCents(i.energyNet, 100)
        BY <1>10 DEF Printed
      <3>3. i.energyNet = net - 0 /\ i.energyGross = gross - 0 + InCents(i.energyNet, 100)
        BY <3>1, <3>2
      <3> HIDE DEF i, net, gross, s
      <3>4. i.energyNet = net
        BY <1>3, <3>3
      <3> QED
        BY <1>3, <3>1, <3>3, <3>4
    <2>2. RoundsTo(net, 100, t)
      BY <1>3, Rounded
    <2> HIDE DEF i, kwh, n, s, net, gross, t
    <2>3. t \in Nat /\ 2 * net <= 200 * t + 100
      BY <2>2 DEF RoundsTo
    <2>4. ~GrossNear(net, gross + t, n)
      <3>1. n \in Nat /\ net \in Nat /\ gross \in Nat /\ gross + t \in Nat
        BY <1>1, <1>3, <2>3
      <3>2. 200 * t >= 200 * n + 300
        BY <1>4, <2>3, <3>1
      <3>3. 200 * (gross + t) = 200 * gross + 200 * t
        BY <1>3, <2>3
      <3>4. 200 * (gross + t) - 238 * net > 200 + 100 * n
        BY <1>3, <2>3, <3>1, <3>2, <3>3
      <3> QED
        BY <3>1, <3>4 DEF GrossNear, Near
    <2>5. ~GrossNear(i.energyNet, i.energyGross, Len(i.amounts))
      BY <1>2, <2>1, <2>4
    <2> QED
      BY <1>6, <2>5 DEF i
  <1>11. CASE b.slip = "days"
    <2>1. i.feeDays = DaysOf(b) + 1
      BY <1>11 DEF Printed
    <2> HIDE DEF i
    <2>2. i.feeDays # i.end - i.start + 1
      BY <1>1, <1>5, <1>7, <2>1
    <2> QED
      BY <1>6, <2>2 DEF i
  <1>12. CASE b.slip = "meter"
    <2>1. i.kwh = kwh + 1
      BY <1>12 DEF Printed
    <2>2. i.meterEnd - i.meterStart = kwh
      <3>1. (b.period[2] + 1) * DailyUse - b.period[1] * DailyUse = DailyUse * (b.period[2] - b.period[1] + 1)
        BY <1>7
      <3> QED
        BY <1>5, <1>7, <3>1 DEF MeterAt
    <2> HIDE DEF i, kwh
    <2>3. ~Near(100 * (i.meterEnd - i.meterStart), 100 * i.kwh, 2)
      BY <1>1, <2>1, <2>2 DEF Near
    <2> QED
      BY <1>6, <2>3 DEF i
  <1> QED
    BY <1>1, <1>9, <1>10, <1>11, <1>12

\* The findings of a bill by its own numbers.
ErrorsOf(i) == {f \in CheckInvoice(i) : f.severity = "error"}
JudgedRight(b) ==
    /\ b.slip = "none" => ErrorsOf(Printed(b)) = {}
    /\ b.slip # "none" => ErrorsOf(Printed(b)) # {}
LEMMA BillJudged ==
  ASSUME NEW b \in Bill, BillTells(b)
  PROVE  JudgedRight(b)
  <1> DEFINE i == Printed(b)
  <1>1. ASSUME b.slip = "none" PROVE ErrorsOf(i) = {}
    <2>1. ChecksOne(i) /\ ChecksTwo(i) /\ ChecksThree(i)
      BY <1>1, RightPositions, RightTaxes
    <2>2. \A c \in DOMAIN Checks(i) : Checks(i)[c]
      BY <2>1, ChecksAll
    <2>3. CheckInvoice(i) = {}
      BY <2>2, FoundWhat
    <2> QED
      BY <2>3 DEF ErrorsOf
  <1>2. ASSUME b.slip # "none" PROVE ErrorsOf(i) # {}
    <2>1. PICK c \in DOMAIN Checks(i) : ~Checks(i)[c]
      BY <1>2, SlipShows
    <2>2. [code |-> c, severity |-> "error"] \in CheckInvoice(i)
      BY <2>1, FoundWhat
    <2> HIDE DEF i
    <2>3. [code |-> c, severity |-> "error"] \in ErrorsOf(i)
      BY <2>2 DEF ErrorsOf
    <2> QED
      BY <2>3
  <1> QED
    BY <1>1, <1>2 DEF JudgedRight

\* A report that holds what the check finds on the bill it is of, and the verdict of that.
BillReport(r, n) ==
    /\ r.bill \in Bill /\ r.bill.number = n /\ r.invoice = Printed(r.bill)
    /\ CheckInvoice(r.invoice) \subseteq r.findings /\ r.verdict = Verdict(r.findings)
ReportsHeld(kept) == \A n \in DOMAIN kept : BillReport(kept[n], n)
UploadHeld(up) == up.step \in {"loaded", "measured"} => up.bill \in Bill
UploadsHeld(ups) == DOMAIN ups = Uploaders /\ \A u \in Uploaders : UploadHeld(ups[u])
InvoiceInv == ReportsHeld(reports) /\ UploadsHeld(uploading) /\ uploads \in 0..MaxUploads

\* A saved report is one.
LEMMA ReportSaved ==
  ASSUME NEW u \in Uploaders, InvoiceInv, SaveInvoice(u)
  PROVE  ReportsHeld(reports')
  <1> DEFINE up == uploading[u]
             i == Printed(up.bill)
             findings == CheckInvoice(i) \cup CheckMeterChain(i, up.previous) \cup Compared(i, up.own)
             report == [bill |-> up.bill, invoice |-> i, findings |-> findings, verdict |-> Verdict(findings),
                        known |-> up.known]
  <1>1. up.bill \in Bill
    BY DEF SaveInvoice, InvoiceInv, UploadsHeld, UploadHeld
  <1>2. i.number = up.bill.number
    BY DEF Printed
  <1>3. reports' = [n \in DOMAIN reports \cup {i.number} |-> IF n # i.number THEN reports[n] ELSE report]
    BY DEF SaveInvoice
  <1>4. CheckInvoice(i) \subseteq findings
    OBVIOUS
  <1> HIDE DEF i, findings
  <1>5. BillReport(report, i.number)
    BY <1>1, <1>2, <1>4 DEF BillReport, i
  <1> HIDE DEF report, up
  <1>6. ASSUME NEW n \in DOMAIN reports' PROVE BillReport(reports'[n], n)
    <2>1. CASE n = i.number
      <3>1. reports'[n] = report
        BY <1>3, <2>1
      <3> QED
        BY <1>5, <2>1, <3>1
    <2>2. CASE n # i.number
      <3>1. n \in DOMAIN reports /\ reports'[n] = reports[n]
        BY <1>3, <2>2
      <3> QED
        BY <3>1 DEF InvoiceInv, ReportsHeld
    <2> QED
      BY <2>1, <2>2
  <1> QED
    BY <1>6 DEF ReportsHeld

\* It is kept.
LEMMA InvoiceInvariance == InvoiceSpec => []InvoiceInv
  <1>1. InvoiceInit => InvoiceInv
    BY InvoiceAssumption DEF InvoiceInit, InvoiceInv, ReportsHeld, UploadsHeld, UploadHeld, Idle
  <1>2. InvoiceInv /\ [InvoiceNext]_invoiceVars => InvoiceInv'
    <2> SUFFICES ASSUME InvoiceInv, [InvoiceNext]_invoiceVars PROVE InvoiceInv'
      OBVIOUS
    <2>0. MaxUploads \in Nat /\ ReportsHeld(reports) /\ UploadsHeld(uploading) /\ uploads \in 0..MaxUploads
      BY InvoiceAssumption DEF InvoiceInv
    <2>1. ASSUME NEW u \in Uploaders, Unreadable(u) PROVE InvoiceInv'
      <3>1. UploadsHeld(uploading')
        BY <2>0, <2>1 DEF Unreadable, UploadsHeld, UploadHeld
      <3>2. uploads' \in 0..MaxUploads /\ reports' = reports
        BY <2>0, <2>1 DEF Unreadable
      <3> QED
        BY <2>0, <3>1, <3>2 DEF InvoiceInv
    <2>2. ASSUME NEW u \in Uploaders, SaveInvoice(u) PROVE InvoiceInv'
      <3>1. ReportsHeld(reports')
        BY <2>2, ReportSaved
      <3>2. UploadsHeld(uploading')
        BY <2>0, <2>2 DEF SaveInvoice, UploadsHeld, UploadHeld, Idle
      <3>3. uploads' = uploads
        BY <2>2 DEF SaveInvoice
      <3> QED
        BY <2>0, <3>1, <3>2, <3>3 DEF InvoiceInv
    <2>3. ASSUME NEW u \in Uploaders, NEW b \in Bill, Uploaded(u, b) PROVE InvoiceInv'
      <3>1. UploadsHeld(uploading')
        BY <2>0, <2>3 DEF Uploaded, UploadsHeld, UploadHeld
      <3>2. uploads' \in 0..MaxUploads /\ reports' = reports
        BY <2>0, <2>3 DEF Uploaded
      <3> QED
        BY <2>0, <3>1, <3>2 DEF InvoiceInv
    <2>4. ASSUME NEW u \in Uploaders, NEW covered \in Covered, MeasurePeriod(u, covered) PROVE InvoiceInv'
      <3>1. UploadsHeld(uploading')
        BY <2>0, <2>4 DEF MeasurePeriod, UploadsHeld, UploadHeld
      <3>2. uploads' = uploads /\ reports' = reports
        BY <2>4 DEF MeasurePeriod
      <3> QED
        BY <2>0, <3>1, <3>2 DEF InvoiceInv
    <2>5. CASE UNCHANGED invoiceVars
      BY <2>0, <2>5 DEF invoiceVars, InvoiceInv
    <2> QED
      BY <2>1, <2>2, <2>3, <2>4, <2>5 DEF InvoiceNext
  <1> QED
    BY <1>1, <1>2, PTL DEF InvoiceSpec

\* Whatever is uploaded, in whatever order, the types hold: a report is of the bill of
\* its number.
THEOREM BillsWellFormed == InvoiceSpec => []InvoiceTypeOK
  <1>1. InvoiceInv => InvoiceTypeOK
    <2> SUFFICES ASSUME InvoiceInv PROVE InvoiceTypeOK
      OBVIOUS
    <2>1. ASSUME NEW n \in DOMAIN reports
          PROVE  /\ n \in BillNumbers /\ reports[n].bill \in Bill /\ reports[n].bill.number = n
                 /\ reports[n].verdict \in {"ok", "info", "warning", "error"}
      <3>1. BillReport(reports[n], n)
        BY DEF InvoiceInv, ReportsHeld
      <3>2. reports[n].bill \in Bill /\ reports[n].bill.number = n
        BY <3>1 DEF BillReport
      <3>3. n \in BillNumbers
        BY <3>2, BillParts
      <3>4. reports[n].verdict \in {"ok", "info", "warning", "error"}
        BY <3>1 DEF BillReport, Verdict
      <3> QED
        BY <3>2, <3>3, <3>4
    <2> QED
      BY <2>1 DEF InvoiceTypeOK, InvoiceInv
  <1> QED
    BY <1>1, InvoiceInvariance, PTL

\* A bill that is right and large enough for the tolerances has no error, however its taxes
\* are rounded, and one with a slip is judged wrong.
THEOREM BillsJudgedRight == BillsTell => (InvoiceSpec => []VerdictRight)
  <1> SUFFICES ASSUME BillsTell PROVE InvoiceSpec => []VerdictRight
    OBVIOUS
  <1>1. InvoiceInv => VerdictRight
    <2> SUFFICES ASSUME InvoiceInv, NEW n \in DOMAIN reports
                 PROVE  /\ reports[n].bill.slip = "none" => ErrorsOf(reports[n].invoice) = {}
                        /\ reports[n].bill.slip # "none" => ErrorsOf(reports[n].invoice) # {} /\ reports[n].verdict = "error"
      BY DEF VerdictRight, ErrorsOf
    <2> DEFINE r == reports[n]
    <2>1. BillReport(r, n)
      BY DEF InvoiceInv, ReportsHeld
    <2>2. r.bill \in Bill /\ r.invoice = Printed(r.bill)
      BY <2>1 DEF BillReport
    <2>3. JudgedRight(r.bill)
      BY <2>2, BillJudged DEF BillsTell
    <2> HIDE DEF r
    <2>4. ASSUME ErrorsOf(r.invoice) # {} PROVE r.verdict = "error"
      <3>1. PICK f \in CheckInvoice(r.invoice) : f.severity = "error"
        BY <2>4 DEF ErrorsOf
      <3>2. f \in r.findings /\ r.verdict = Verdict(r.findings)
        BY <2>1, <3>1 DEF BillReport
      <3>3. "error" \in {g.severity : g \in r.findings}
        BY <3>1, <3>2
      <3> QED
        BY <3>2, <3>3 DEF Verdict
    <2> QED
      BY <2>2, <2>3, <2>4 DEF JudgedRight, r
  <1> QED
    BY <1>1, InvoiceInvariance, PTL
===============================================================================
