------------------------------ MODULE SumLemmas ------------------------------
(***************************************************************************)
(* Sums over finite sets, divisions, and functions defined by recursion,   *)
(* for the proofs about what is made of the measurements.  FoldSet and     *)
(* MapThenSumSet take their elements in an order nobody knows: a sum is    *)
(* defined here as they unfold, and the laws of sums are proved from that  *)
(* by induction, stated for sets of numbers and sets of sets.              *)
(***************************************************************************)
EXTENDS Integers, FiniteSets, FiniteSetsExt, FiniteSetTheorems, WellFoundedInduction, TLAPS

\* A set of numbers that holds 0 and with a number the next one holds them all.
LEMMA NatsByInduction ==
  ASSUME NEW P, 0 \in P, \A n \in Nat : n \in P => n + 1 \in P
  PROVE  \A n \in Nat : n \in P
  <1> SUFFICES ASSUME NEW k \in Nat, k \notin P PROVE FALSE
    OBVIOUS
  <1> DEFINE T == {n \in Nat : n \notin P}
  <1>1. T \subseteq Nat /\ T # {}
    OBVIOUS
  <1>2. PICK x \in T : \A y \in T : ~(<<y, x>> \in OpToRel(<, Nat))
    BY <1>1, NatLessThanWellFounded, WFMin
  <1>3. \A y \in T : ~(y < x)
    BY <1>2 DEF OpToRel
  <1>4. x \in Nat /\ x \notin P
    OBVIOUS
  <1>5. x - 1 \in Nat /\ x - 1 < x /\ (x - 1) + 1 = x
    BY <1>4
  <1>6. x - 1 \in P
    BY <1>3, <1>5
  <1>7. (x - 1) + 1 \in P
    BY <1>5, <1>6
  <1> QED
    BY <1>4, <1>5, <1>7

\* A set of sets that holds {} and with a part of S every part larger by one holds S.
LEMMA SetsByInduction ==
  ASSUME NEW S, IsFiniteSet(S), NEW P, {} \in P,
         \A T \in SUBSET S : \A x \in S : T \in P /\ x \notin T => T \cup {x} \in P
  PROVE  S \in P
  <1> DEFINE Q == {n \in Nat : \A T \in SUBSET S : Cardinality(T) = n => T \in P}
  <1>1. 0 \in Q
    <2>1. \A T \in SUBSET S : Cardinality(T) = 0 => T = {}
      BY FS_Subset, FS_EmptySet
    <2> QED
      BY <2>1
  <1>2. ASSUME NEW n \in Nat, n \in Q PROVE n + 1 \in Q
    <2> SUFFICES ASSUME NEW T \in SUBSET S, Cardinality(T) = n + 1 PROVE T \in P
      OBVIOUS
    <2>1. IsFiniteSet(T) /\ T # {}
      BY FS_Subset, FS_EmptySet
    <2>2. PICK x \in T : TRUE
      BY <2>1
    <2>3. IsFiniteSet(T \ {x}) /\ Cardinality(T \ {x}) = n
      <3>1. Cardinality(T \ {x}) = Cardinality(T) - 1
        BY <2>1, <2>2, FS_RemoveElement
      <3>2. IsFiniteSet(T \ {x})
        BY <2>1, FS_Subset
      <3> QED
        BY <3>1, <3>2
    <2>4. T \ {x} \in P
      BY <1>2, <2>3
    <2>5. (T \ {x}) \cup {x} \in P
      BY <2>2, <2>4
    <2>6. (T \ {x}) \cup {x} = T
      BY <2>2
    <2> QED
      BY <2>5, <2>6
  <1>3. \A n \in Nat : n \in Q
    <2> HIDE DEF Q
    <2> QED
      BY <1>1, <1>2, NatsByInduction
  <1>4. Cardinality(S) \in Nat
    BY FS_CardinalityType
  <1> QED
    BY <1>3, <1>4

----------------------------------------------------------------------------
(* Sums *)

\* The element that a fold over a set takes first.
Picked(s) == CHOOSE x \in s : TRUE

\* F adds up w over every part of S, as MapThenFoldSet does.
Adds(F, w, S) ==
  F = [s \in SUBSET S |-> IF s = {} THEN 0 ELSE w[Picked(s)] + F[s \ {Picked(s)}]]

\* The sum of w over a finite set S.
SumOver(w, S) == (CHOOSE F : Adds(F, w, S))[S]

\* w has a whole number for each member of S.
Numbers(w, S) == \A x \in S : w[x] \in Int

\* What is picked is a member.
LEMMA PickedIn == ASSUME NEW s, s # {} PROVE Picked(s) \in s
  BY DEF Picked

\* Such a function exists.
LEMMA AddsExists ==
  ASSUME NEW w, NEW S, IsFiniteSet(S)
  PROVE  \E F : Adds(F, w, S)
  <1> DEFINE Small(n) == {s \in SUBSET S : Cardinality(s) <= n}
             AddsTo(F, n) ==
               /\ F = [s \in Small(n) |-> F[s]]
               /\ \A s \in Small(n) : F[s] = IF s = {} THEN 0 ELSE w[Picked(s)] + F[s \ {Picked(s)}]
             P == {n \in Nat : \E F : AddsTo(F, n)}
  <1>0. \A s \in SUBSET S : IsFiniteSet(s) /\ Cardinality(s) \in Nat
    BY FS_Subset, FS_CardinalityType
  <1>1. 0 \in P
    <2>1. \A s \in Small(0) : s = {}
      BY <1>0, FS_EmptySet
    <2>2. AddsTo([s \in Small(0) |-> 0], 0)
      BY <2>1
    <2> QED
      BY <2>2
  <1>2. ASSUME NEW n \in Nat, n \in P PROVE n + 1 \in P
    <2>1. PICK F : AddsTo(F, n)
      BY <1>2
    <2> DEFINE G == [s \in Small(n + 1) |-> IF s = {} THEN 0 ELSE w[Picked(s)] + F[s \ {Picked(s)}]]
    <2>2. ASSUME NEW s \in Small(n) PROVE s \in Small(n + 1) /\ G[s] = F[s]
      <3>1. s \in Small(n + 1)
        BY <1>0
      <3>2. F[s] = IF s = {} THEN 0 ELSE w[Picked(s)] + F[s \ {Picked(s)}]
        BY <2>1
      <3> QED
        BY <3>1, <3>2
    <2>3. ASSUME NEW s \in Small(n + 1), s # {} PROVE s \ {Picked(s)} \in Small(n)
      <3>1. Picked(s) \in s
        BY <2>3, PickedIn
      <3>2. Cardinality(s \ {Picked(s)}) = Cardinality(s) - 1
        BY <1>0, <3>1, FS_RemoveElement
      <3> QED
        BY <1>0, <3>2
    <2>4. ASSUME NEW s \in Small(n + 1)
          PROVE  G[s] = IF s = {} THEN 0 ELSE w[Picked(s)] + G[s \ {Picked(s)}]
      <3>1. CASE s = {}
        BY <3>1
      <3>2. CASE s # {}
        BY <2>2, <2>3, <3>2
      <3> QED
        BY <3>1, <3>2
    <2>5. G = [s \in Small(n + 1) |-> G[s]]
      OBVIOUS
    <2> HIDE DEF G
    <2>6. AddsTo(G, n + 1)
      BY <2>4, <2>5
    <2> HIDE DEF AddsTo
    <2> QED
      BY <2>6
  <1>3. \A n \in Nat : n \in P
    <2> HIDE DEF P
    <2> QED
      BY <1>1, <1>2, NatsByInduction
  <1>4. Cardinality(S) \in Nat /\ \A s \in SUBSET S : Cardinality(s) <= Cardinality(S)
    BY FS_Subset, FS_CardinalityType
  <1>5. Small(Cardinality(S)) = SUBSET S
    BY <1>4
  <1>6. PICK F : AddsTo(F, Cardinality(S))
    BY <1>3, <1>4
  <1>7. F = [s \in SUBSET S |-> IF s = {} THEN 0 ELSE w[Picked(s)] + F[s \ {Picked(s)}]]
    <2>1. F = [s \in SUBSET S |-> F[s]]
      BY <1>5, <1>6
    <2>2. \A s \in SUBSET S : F[s] = IF s = {} THEN 0 ELSE w[Picked(s)] + F[s \ {Picked(s)}]
      BY <1>5, <1>6
    <2> QED
      BY <2>1, <2>2
  <1> QED
    BY <1>7 DEF Adds

\* A set of sets that holds {} and each part that it holds with any member less, holds every part.
LEMMA PartsByAny ==
  ASSUME NEW S, IsFiniteSet(S), NEW P, {} \in P,
         \A s \in SUBSET S : s # {} /\ (\A x \in s : s \ {x} \in P) => s \in P
  PROVE  \A s \in SUBSET S : s \in P
  <1> DEFINE Q == {n \in Nat : \A s \in SUBSET S : Cardinality(s) = n => s \in P}
  <1>0. \A s \in SUBSET S : IsFiniteSet(s) /\ Cardinality(s) \in Nat
    BY FS_Subset, FS_CardinalityType
  <1>1. 0 \in Q
    <2>1. \A s \in SUBSET S : Cardinality(s) = 0 => s = {}
      BY <1>0, FS_EmptySet
    <2> QED
      BY <2>1
  <1>2. ASSUME NEW n \in Nat, n \in Q PROVE n + 1 \in Q
    <2> SUFFICES ASSUME NEW s \in SUBSET S, Cardinality(s) = n + 1 PROVE s \in P
      OBVIOUS
    <2>1. s # {}
      BY FS_EmptySet
    <2>2. ASSUME NEW x \in s PROVE s \ {x} \in P
      <3>1. Cardinality(s \ {x}) = n
        BY <1>0, FS_RemoveElement
      <3> QED
        BY <1>2, <3>1
    <2> QED
      BY <2>1, <2>2
  <1>3. \A n \in Nat : n \in Q
    <2> HIDE DEF Q
    <2> QED
      BY <1>1, <1>2, NatsByInduction
  <1> QED
    BY <1>0, <1>3

\* What it is, step by step.
LEMMA AddsSteps ==
  ASSUME NEW F, NEW w, NEW S, Adds(F, w, S)
  PROVE  /\ F[{}] = 0
         /\ \A s \in SUBSET S : s # {} => F[s] = w[Picked(s)] + F[s \ {Picked(s)}]
  <1>1. \A s \in SUBSET S : F[s] = IF s = {} THEN 0 ELSE w[Picked(s)] + F[s \ {Picked(s)}]
    BY DEF Adds
  <1>2. {} \in SUBSET S
    OBVIOUS
  <1> QED
    BY <1>1, <1>2

\* An induction over the parts of S: a property of a part that follows from the part without
\* the element that is picked.
LEMMA PartsByInduction ==
  ASSUME NEW S, IsFiniteSet(S), NEW P, {} \in P,
         \A s \in SUBSET S : s # {} /\ s \ {Picked(s)} \in P => s \in P
  PROVE  \A s \in SUBSET S : s \in P
  <1> DEFINE Q == {n \in Nat : \A s \in SUBSET S : Cardinality(s) = n => s \in P}
  <1>0. \A s \in SUBSET S : IsFiniteSet(s) /\ Cardinality(s) \in Nat
    BY FS_Subset, FS_CardinalityType
  <1>1. 0 \in Q
    <2>1. \A s \in SUBSET S : Cardinality(s) = 0 => s = {}
      BY <1>0, FS_EmptySet
    <2> QED
      BY <2>1
  <1>2. ASSUME NEW n \in Nat, n \in Q PROVE n + 1 \in Q
    <2> SUFFICES ASSUME NEW s \in SUBSET S, Cardinality(s) = n + 1 PROVE s \in P
      OBVIOUS
    <2>1. IsFiniteSet(s) /\ s # {}
      BY <1>0, FS_EmptySet
    <2>2. Picked(s) \in s
      BY <2>1, PickedIn
    <2>3. Cardinality(s \ {Picked(s)}) = n
      <3>1. Cardinality(s \ {Picked(s)}) = Cardinality(s) - 1
        BY <2>1, <2>2, FS_RemoveElement
      <3> QED
        BY <3>1
    <2>4. s \ {Picked(s)} \in P
      BY <1>2, <2>3
    <2> QED
      BY <2>1, <2>4
  <1>3. \A n \in Nat : n \in Q
    <2> HIDE DEF Q
    <2> QED
      BY <1>1, <1>2, NatsByInduction
  <1> QED
    BY <1>0, <1>3

\* Sums of whole numbers are whole numbers.
LEMMA AddsToInt ==
  ASSUME NEW F, NEW w, NEW S, IsFiniteSet(S), Numbers(w, S), Adds(F, w, S)
  PROVE  \A s \in SUBSET S : F[s] \in Int
  <1> DEFINE P == {s \in SUBSET S : F[s] \in Int}
  <1>1. {} \in P
    BY AddsSteps
  <1>2. ASSUME NEW s \in SUBSET S, s # {}, s \ {Picked(s)} \in P PROVE s \in P
    <2>1. w[Picked(s)] \in Int
      BY <1>2, PickedIn DEF Numbers
    <2>2. F[s] = w[Picked(s)] + F[s \ {Picked(s)}]
      BY <1>2, AddsSteps
    <2> QED
      BY <1>2, <2>1, <2>2
  <1>3. \A s \in SUBSET S : s \in P
    <2> HIDE DEF P
    <2> QED
      BY <1>1, <1>2, PartsByInduction
  <1> QED
    BY <1>3

\* Two of them agree where their numbers do.
LEMMA AddsAgree ==
  ASSUME NEW F, NEW w, NEW S, IsFiniteSet(S), Adds(F, w, S),
         NEW G, NEW v, NEW T, Adds(G, v, T), S \subseteq T, \A x \in S : v[x] = w[x]
  PROVE  \A s \in SUBSET S : F[s] = G[s]
  <1> DEFINE P == {s \in SUBSET S : F[s] = G[s]}
  <1>1. {} \in P
    BY AddsSteps
  <1>2. ASSUME NEW s \in SUBSET S, s # {}, s \ {Picked(s)} \in P PROVE s \in P
    <2>1. w[Picked(s)] = v[Picked(s)] /\ s \in SUBSET T
      BY <1>2, PickedIn
    <2>2. F[s] = w[Picked(s)] + F[s \ {Picked(s)}]
      BY <1>2, AddsSteps
    <2>3. G[s] = v[Picked(s)] + G[s \ {Picked(s)}]
      <3>1. \A t \in SUBSET T : t # {} => G[t] = v[Picked(t)] + G[t \ {Picked(t)}]
        BY AddsSteps
      <3> QED
        BY <1>2, <2>1, <3>1
    <2> QED
      BY <1>2, <2>1, <2>2, <2>3
  <1>3. \A s \in SUBSET S : s \in P
    <2> HIDE DEF P
    <2> QED
      BY <1>1, <1>2, PartsByInduction
  <1> QED
    BY <1>3

\* It does not matter which element is taken first.
AnyFirst(F, w, S) == \A s \in SUBSET S : \A x \in s : F[s] = w[x] + F[s \ {x}]

\* A sum may begin with any member.
LEMMA AddsAny ==
  ASSUME NEW F, NEW w, NEW S, IsFiniteSet(S), Numbers(w, S), Adds(F, w, S)
  PROVE  AnyFirst(F, w, S)
  <1> DEFINE Q == {n \in Nat : \A s \in SUBSET S : Cardinality(s) = n => \A x \in s : F[s] = w[x] + F[s \ {x}]}
  <1>0. \A s \in SUBSET S : IsFiniteSet(s) /\ Cardinality(s) \in Nat /\ F[s] \in Int
    BY FS_Subset, FS_CardinalityType, AddsToInt
  <1>1. 0 \in Q
    <2>1. \A s \in SUBSET S : Cardinality(s) = 0 => s = {}
      BY <1>0, FS_EmptySet
    <2> QED
      BY <2>1
  <1>2. ASSUME NEW n \in Nat, n \in Q PROVE n + 1 \in Q
    <2> SUFFICES ASSUME NEW s \in SUBSET S, Cardinality(s) = n + 1, NEW x \in s
                 PROVE  F[s] = w[x] + F[s \ {x}]
      OBVIOUS
    <2> DEFINE p == Picked(s)
    <2>1. p \in s
      BY PickedIn
    <2>4. F[s] = w[p] + F[s \ {p}]
      <3>1. s # {}
        OBVIOUS
      <3> QED
        BY <3>1, AddsSteps
    <2> HIDE DEF p
    <2>2. CASE x = p
      BY <2>2, <2>4
    <2>3. CASE x # p
      <3>1. /\ s \ {p} \in SUBSET S /\ s \ {x} \in SUBSET S
            /\ x \in s \ {p} /\ p \in s \ {x} /\ (s \ {p}) \ {x} = (s \ {x}) \ {p}
        BY <2>1, <2>3
      <3>2. Cardinality(s \ {p}) = n /\ Cardinality(s \ {x}) = n
        <4>1. Cardinality(s \ {p}) = Cardinality(s) - 1 /\ Cardinality(s \ {x}) = Cardinality(s) - 1
          BY <1>0, <2>1, FS_RemoveElement
        <4> QED
          BY <4>1
      <3>3. F[s \ {p}] = w[x] + F[(s \ {p}) \ {x}]
        BY <1>2, <3>1, <3>2
      <3>4. F[s \ {x}] = w[p] + F[(s \ {x}) \ {p}]
        BY <1>2, <3>1, <3>2
      <3>5. w[x] \in Int /\ w[p] \in Int /\ F[(s \ {x}) \ {p}] \in Int
        BY <1>0, <2>1 DEF Numbers
      <3> DEFINE rest == F[(s \ {x}) \ {p}]
      <3>6. F[s \ {p}] = w[x] + rest /\ F[s \ {x}] = w[p] + rest /\ rest \in Int
        BY <3>1, <3>3, <3>4, <3>5
      <3> HIDE DEF rest
      <3>7. w[p] + (w[x] + rest) = w[x] + (w[p] + rest)
        BY <3>5, <3>6
      <3> QED
        BY <2>4, <3>6, <3>7
    <2> QED
      BY <2>2, <2>3
  <1>3. \A n \in Nat : n \in Q
    <2> HIDE DEF Q
    <2> QED
      BY <1>1, <1>2, NatsByInduction
  <1> QED
    BY <1>0, <1>3 DEF AnyFirst

----------------------------------------------------------------------------
(* The laws of sums *)

\* A sum taken by another function of the same kind.
LEMMA SumByAny ==
  ASSUME NEW F, NEW w, NEW S, IsFiniteSet(S), Adds(F, w, S)
  PROVE  F[S] = SumOver(w, S)
  <1> DEFINE G == CHOOSE H : Adds(H, w, S)
  <1>1. Adds(G, w, S)
    BY AddsExists
  <1>2. G[S] = SumOver(w, S)
    BY DEF SumOver
  <1> HIDE DEF G
  <1>3. \A s \in SUBSET S : F[s] = G[s]
    BY <1>1, AddsAgree
  <1> QED
    BY <1>2, <1>3

\* The sum over nothing.
LEMMA SumEmpty == ASSUME NEW w PROVE SumOver(w, {}) = 0
  <1>1. IsFiniteSet({})
    BY FS_EmptySet
  <1>2. PICK F : Adds(F, w, {})
    BY <1>1, AddsExists
  <1>3. F[{}] = 0
    BY <1>2, AddsSteps
  <1>4. F[{}] = SumOver(w, {})
    BY <1>1, <1>2, SumByAny
  <1> QED
    BY <1>3, <1>4

\* A sum of whole numbers is one.
LEMMA SumInt ==
  ASSUME NEW w, NEW S, IsFiniteSet(S), Numbers(w, S)
  PROVE  SumOver(w, S) \in Int
  <1>1. PICK F : Adds(F, w, S)
    BY AddsExists
  <1>2. F[S] \in Int
    <2>1. S \in SUBSET S
      OBVIOUS
    <2> QED
      BY <1>1, <2>1, AddsToInt
  <1> QED
    BY <1>1, <1>2, SumByAny

\* Only the numbers of the members matter.
LEMMA SumSame ==
  ASSUME NEW w, NEW v, NEW S, IsFiniteSet(S), \A x \in S : v[x] = w[x]
  PROVE  SumOver(w, S) = SumOver(v, S)
  <1>1. PICK F : Adds(F, w, S)
    BY AddsExists
  <1>2. PICK G : Adds(G, v, S)
    BY AddsExists
  <1>3. F[S] = G[S]
    <2>1. \A s \in SUBSET S : F[s] = G[s]
      BY <1>1, <1>2, AddsAgree
    <2> QED
      BY <2>1
  <1>4. F[S] = SumOver(w, S)
    BY <1>1, SumByAny
  <1>5. G[S] = SumOver(v, S)
    BY <1>2, SumByAny
  <1> QED
    BY <1>3, <1>4, <1>5

\* A sum is a member's number and the sum over the rest.
LEMMA SumPoint ==
  ASSUME NEW w, NEW S, IsFiniteSet(S), Numbers(w, S), NEW x \in S
  PROVE  SumOver(w, S) = w[x] + SumOver(w, S \ {x})
  <1> DEFINE T == S \ {x}
  <1>0. IsFiniteSet(T) /\ T \subseteq S
    BY FS_Subset
  <1> HIDE DEF T
  <1>1. PICK F : Adds(F, w, S)
    BY AddsExists
  <1>2. PICK G : Adds(G, w, T)
    BY <1>0, AddsExists
  <1>3. F[T] = G[T]
    <2>1. \A s \in SUBSET T : G[s] = F[s]
      BY <1>0, <1>1, <1>2, AddsAgree
    <2> QED
      BY <2>1
  <1>4. F[S] = w[x] + F[S \ {x}]
    <2>1. AnyFirst(F, w, S)
      BY <1>1, AddsAny
    <2> QED
      BY <2>1 DEF AnyFirst
  <1>5. F[S] = SumOver(w, S)
    BY <1>1, SumByAny
  <1>6. G[T] = SumOver(w, T)
    BY <1>0, <1>2, SumByAny
  <1> QED
    BY <1>3, <1>4, <1>5, <1>6 DEF T

\* The same, for a member that comes in.
LEMMA SumWith ==
  ASSUME NEW w, NEW S, IsFiniteSet(S), NEW x, x \notin S, Numbers(w, S \cup {x})
  PROVE  SumOver(w, S \cup {x}) = w[x] + SumOver(w, S)
  <1>1. IsFiniteSet(S \cup {x})
    BY FS_AddElement
  <1>2. (S \cup {x}) \ {x} = S
    OBVIOUS
  <1> QED
    BY <1>1, <1>2, SumPoint

\* Larger numbers, larger sums.
LEMMA SumMonotone ==
  ASSUME NEW w, NEW v, NEW S, IsFiniteSet(S), Numbers(w, S), Numbers(v, S), \A x \in S : w[x] <= v[x]
  PROVE  SumOver(w, S) <= SumOver(v, S)
  <1> DEFINE P == {T \in SUBSET S : SumOver(w, T) <= SumOver(v, T)}
  <1>1. {} \in P
    BY SumEmpty
  <1>2. ASSUME NEW T \in SUBSET S, NEW x \in S, T \in P, x \notin T PROVE T \cup {x} \in P
    <2>1. IsFiniteSet(T) /\ Numbers(w, T) /\ Numbers(v, T) /\ Numbers(w, T \cup {x}) /\ Numbers(v, T \cup {x})
      BY FS_Subset DEF Numbers
    <2>2. SumOver(w, T) \in Int /\ SumOver(v, T) \in Int
      BY <2>1, SumInt
    <2>3. SumOver(w, T \cup {x}) = w[x] + SumOver(w, T)
      BY <1>2, <2>1, SumWith
    <2>4. SumOver(v, T \cup {x}) = v[x] + SumOver(v, T)
      BY <1>2, <2>1, SumWith
    <2>5. w[x] \in Int /\ v[x] \in Int /\ w[x] <= v[x]
      BY DEF Numbers
    <2>6. SumOver(w, T) <= SumOver(v, T)
      BY <1>2
    <2>7. SumOver(w, T \cup {x}) <= SumOver(v, T \cup {x})
      BY <2>2, <2>3, <2>4, <2>5, <2>6
    <2> QED
      BY <2>7
  <1>3. S \in P
    <2> HIDE DEF P
    <2> QED
      BY <1>1, <1>2, SetsByInduction
  <1> QED
    BY <1>3

\* Sums add up member by member.
LEMMA SumPlus ==
  ASSUME NEW w, NEW v, NEW u, NEW S, IsFiniteSet(S), Numbers(w, S), Numbers(v, S),
         \A x \in S : u[x] = w[x] + v[x]
  PROVE  SumOver(u, S) = SumOver(w, S) + SumOver(v, S)
  <1> DEFINE P == {T \in SUBSET S : SumOver(u, T) = SumOver(w, T) + SumOver(v, T)}
  <1>0. Numbers(u, S)
    BY DEF Numbers
  <1>1. {} \in P
    BY SumEmpty
  <1>2. ASSUME NEW T \in SUBSET S, NEW x \in S, T \in P, x \notin T PROVE T \cup {x} \in P
    <2>1. /\ IsFiniteSet(T) /\ Numbers(w, T) /\ Numbers(v, T)
          /\ Numbers(w, T \cup {x}) /\ Numbers(v, T \cup {x}) /\ Numbers(u, T \cup {x})
      BY <1>0, FS_Subset DEF Numbers
    <2>2. SumOver(w, T) \in Int /\ SumOver(v, T) \in Int
      BY <2>1, SumInt
    <2>3. SumOver(w, T \cup {x}) = w[x] + SumOver(w, T)
      BY <1>2, <2>1, SumWith
    <2>4. SumOver(v, T \cup {x}) = v[x] + SumOver(v, T)
      BY <1>2, <2>1, SumWith
    <2>5. SumOver(u, T \cup {x}) = u[x] + SumOver(u, T)
      BY <1>2, <2>1, SumWith
    <2>6. w[x] \in Int /\ v[x] \in Int /\ u[x] = w[x] + v[x]
      BY DEF Numbers
    <2>7. SumOver(u, T) = SumOver(w, T) + SumOver(v, T)
      BY <1>2
    <2>8. SumOver(u, T \cup {x}) = SumOver(w, T \cup {x}) + SumOver(v, T \cup {x})
      BY <2>2, <2>3, <2>4, <2>5, <2>6, <2>7
    <2> QED
      BY <2>8
  <1>3. S \in P
    <2> HIDE DEF P
    <2> QED
      BY <1>1, <1>2, SetsByInduction
  <1> QED
    BY <1>3

\* A sum over two sets that share nothing.
LEMMA SumUnion ==
  ASSUME NEW w, NEW S, IsFiniteSet(S), NEW R, IsFiniteSet(R), R \cap S = {}, Numbers(w, R \cup S)
  PROVE  SumOver(w, R \cup S) = SumOver(w, R) + SumOver(w, S)
  <1> DEFINE P == {T \in SUBSET S : SumOver(w, R \cup T) = SumOver(w, R) + SumOver(w, T)}
  <1>0. Numbers(w, R) /\ SumOver(w, R) \in Int
    BY SumInt DEF Numbers
  <1>1. {} \in P
    <2>1. R \cup {} = R
      OBVIOUS
    <2> QED
      BY <1>0, <2>1, SumEmpty
  <1>2. ASSUME NEW T \in SUBSET S, NEW x \in S, T \in P, x \notin T PROVE T \cup {x} \in P
    <2>1. IsFiniteSet(T) /\ Numbers(w, T) /\ Numbers(w, T \cup {x}) /\ Numbers(w, R \cup T) /\ Numbers(w, (R \cup T) \cup {x})
      BY FS_Subset DEF Numbers
    <2>2. IsFiniteSet(R \cup T) /\ x \notin R \cup T
      BY <1>2, <2>1, FS_Union
    <2>3. SumOver(w, T) \in Int
      BY <2>1, SumInt
    <2>4. SumOver(w, T \cup {x}) = w[x] + SumOver(w, T)
      BY <1>2, <2>1, SumWith
    <2>5. SumOver(w, (R \cup T) \cup {x}) = w[x] + SumOver(w, R \cup T)
      BY <2>1, <2>2, SumWith
    <2>6. w[x] \in Int /\ (R \cup T) \cup {x} = R \cup (T \cup {x})
      BY DEF Numbers
    <2>7. SumOver(w, R \cup T) = SumOver(w, R) + SumOver(w, T)
      BY <1>2
    <2>8. SumOver(w, R \cup (T \cup {x})) = SumOver(w, R) + SumOver(w, T \cup {x})
      <3> DEFINE a == SumOver(w, R)
                 b == SumOver(w, T)
      <3>1. SumOver(w, R \cup (T \cup {x})) = w[x] + (a + b)
        BY <2>5, <2>6, <2>7
      <3>2. a \in Int /\ b \in Int /\ w[x] \in Int /\ SumOver(w, T \cup {x}) = w[x] + b
        BY <1>0, <2>3, <2>4, <2>6
      <3> HIDE DEF a, b
      <3>3. w[x] + (a + b) = a + (w[x] + b)
        BY <3>2
      <3> QED
        BY <3>1, <3>2, <3>3 DEF a
    <2> QED
      BY <2>8
  <1>3. S \in P
    <2> HIDE DEF P
    <2> QED
      BY <1>1, <1>2, SetsByInduction
  <1> QED
    BY <1>3

\* A sum of numbers that are not negative is none.
LEMMA SumNat ==
  ASSUME NEW w, NEW S, IsFiniteSet(S), \A x \in S : w[x] \in Nat
  PROVE  SumOver(w, S) \in Nat
  <1> DEFINE zero == [x \in S |-> 0]
             P == {T \in SUBSET S : SumOver(w, T) \in Nat}
  <1>1. {} \in P
    BY SumEmpty
  <1>2. ASSUME NEW T \in SUBSET S, NEW x \in S, T \in P, x \notin T PROVE T \cup {x} \in P
    <2>1. IsFiniteSet(T) /\ Numbers(w, T \cup {x})
      BY FS_Subset DEF Numbers
    <2>2. SumOver(w, T \cup {x}) = w[x] + SumOver(w, T)
      BY <1>2, <2>1, SumWith
    <2>3. SumOver(w, T \cup {x}) \in Nat
      BY <1>2, <2>2
    <2> QED
      BY <2>3
  <1>3. S \in P
    <2> HIDE DEF P
    <2> QED
      BY <1>1, <1>2, SetsByInduction
  <1> QED
    BY <1>3

----------------------------------------------------------------------------
(* Recursion over numbers *)

\* A function that is built from each number to the next, within a set of values.
Builds(F, N, base, step) == F[0] = base /\ \A n \in 1..N : F[n] = step[n][F[n - 1]]

\* Such a function exists when every step stays in the set of values.
LEMMA Built ==
  ASSUME NEW N \in Nat, NEW V, NEW base \in V, NEW step,
         \A n \in 1..N : \A v \in V : step[n][v] \in V
  PROVE  \E F \in [0..N -> V] : Builds(F, N, base, step)
  <1> DEFINE P == {k \in Nat : k <= N =>
                     \E F \in [0..k -> V] : F[0] = base /\ \A n \in 1..k : F[n] = step[n][F[n - 1]]}
  <1>1. 0 \in P
    <2> DEFINE F == [n \in 0..0 |-> base]
    <2>1. F \in [0..0 -> V] /\ F[0] = base
      OBVIOUS
    <2> HIDE DEF F
    <2>2. \A n \in 1..0 : F[n] = step[n][F[n - 1]]
      OBVIOUS
    <2>3. \E G \in [0..0 -> V] : G[0] = base /\ \A n \in 1..0 : G[n] = step[n][G[n - 1]]
      BY <2>1, <2>2
    <2> QED
      BY <2>3
  <1>2. ASSUME NEW k \in Nat, k \in P PROVE k + 1 \in P
    <2> SUFFICES ASSUME k + 1 <= N
                 PROVE  \E G \in [0..(k + 1) -> V] :
                          G[0] = base /\ \A n \in 1..(k + 1) : G[n] = step[n][G[n - 1]]
      OBVIOUS
    <2>1. PICK F \in [0..k -> V] : F[0] = base /\ \A n \in 1..k : F[n] = step[n][F[n - 1]]
      BY <1>2
    <2> DEFINE G == [n \in 0..(k + 1) |-> IF n <= k THEN F[n] ELSE step[n][F[n - 1]]]
    <2>2. step[k + 1][F[k]] \in V
      <3>1. k \in 0..k /\ k + 1 \in 1..N
        OBVIOUS
      <3> QED
        BY <3>1
    <2>3. \A n \in 0..k : G[n] = F[n]
      OBVIOUS
    <2>4. G[k + 1] = step[k + 1][F[k]]
      OBVIOUS
    <2>5. G \in [0..(k + 1) -> V]
      BY <2>2
    <2> HIDE DEF G
    <2>6. G[0] = base
      BY <2>1, <2>3
    <2>7. ASSUME NEW n \in 1..(k + 1) PROVE G[n] = step[n][G[n - 1]]
      <3>1. CASE n = k + 1
        <4>1. n - 1 = k /\ k \in 0..k
          BY <3>1
        <4> QED
          BY <2>3, <2>4, <3>1, <4>1
      <3>2. CASE n <= k
        <4>1. n \in 0..k /\ n - 1 \in 0..k /\ n \in 1..k
          BY <3>2
        <4> QED
          BY <2>1, <2>3, <4>1
      <3> QED
        BY <3>1, <3>2
    <2> QED
      BY <2>5, <2>6, <2>7
  <1>3. \A k \in Nat : k \in P
    <2> HIDE DEF P
    <2> QED
      BY <1>1, <1>2, NatsByInduction
  <1> QED
    BY <1>3 DEF Builds

\* What the community's sum over a set of a function's values is.
LEMMA SumOfValues ==
  ASSUME NEW w, NEW S, IsFiniteSet(S)
  PROVE  MapThenSumSet(LAMBDA x : w[x], S) = SumOver(w, S)
  <1> DEFINE Sums(F) == F = [s \in SUBSET S |-> IF s = {} THEN 0
                               ELSE w[CHOOSE x \in s : TRUE] + F[s \ {CHOOSE x \in s : TRUE}]]
  <1>1. ASSUME NEW F PROVE Sums(F) <=> Adds(F, w, S)
    BY DEF Picked, Adds
  <1>2. MapThenSumSet(LAMBDA x : w[x], S) = (CHOOSE F : Sums(F))[S]
    BY DEF MapThenSumSet, MapThenFoldSet
  <1> HIDE DEF Sums
  <1>3. (CHOOSE F : Sums(F)) = (CHOOSE F : Adds(F, w, S))
    BY <1>1
  <1> QED
    BY <1>2, <1>3 DEF SumOver

\* A sum of multiples.
LEMMA SumTimes ==
  ASSUME NEW w, NEW v, NEW S, IsFiniteSet(S), Numbers(w, S), NEW c \in Int, \A x \in S : v[x] = c * w[x]
  PROVE  SumOver(v, S) = c * SumOver(w, S)
  <1> DEFINE P == {T \in SUBSET S : SumOver(v, T) = c * SumOver(w, T)}
  <1>0. Numbers(v, S)
    BY DEF Numbers
  <1>1. {} \in P
    BY SumEmpty
  <1>2. ASSUME NEW T \in SUBSET S, NEW x \in S, T \in P, x \notin T PROVE T \cup {x} \in P
    <2>1. IsFiniteSet(T) /\ Numbers(w, T) /\ Numbers(w, T \cup {x}) /\ Numbers(v, T \cup {x})
      BY <1>0, FS_Subset DEF Numbers
    <2> DEFINE a == SumOver(w, T)
    <2>2. a \in Int /\ w[x] \in Int
      BY <2>1, SumInt DEF Numbers
    <2>3. SumOver(w, T \cup {x}) = w[x] + a
      BY <1>2, <2>1, SumWith
    <2>4. SumOver(v, T \cup {x}) = c * w[x] + c * a
      <3>1. SumOver(v, T \cup {x}) = v[x] + SumOver(v, T)
        BY <1>2, <2>1, SumWith
      <3> QED
        BY <1>2, <3>1
    <2> HIDE DEF a
    <2>5. c * w[x] + c * a = c * (w[x] + a)
      BY <2>2
    <2> QED
      BY <2>3, <2>4, <2>5
  <1>3. S \in P
    <2> HIDE DEF P
    <2> QED
      BY <1>1, <1>2, SetsByInduction
  <1> QED
    BY <1>3

\* What is none in all is none for any.
LEMMA SumZero ==
  ASSUME NEW w, NEW S, IsFiniteSet(S), \A x \in S : w[x] \in Nat, SumOver(w, S) = 0
  PROVE  \A x \in S : w[x] = 0
  <1> TAKE x \in S
  <1>1. SumOver(w, S) = w[x] + SumOver(w, S \ {x})
    BY SumPoint DEF Numbers
  <1>2. SumOver(w, S \ {x}) \in Nat
    BY FS_Subset, SumNat
  <1> QED
    BY <1>1, <1>2

\* Numbers that are none outside of a part add up over the part.
LEMMA SumPart ==
  ASSUME NEW w, NEW S, IsFiniteSet(S), NEW T \in SUBSET S, Numbers(w, S), \A x \in S \ T : w[x] = 0
  PROVE  SumOver(w, S) = SumOver(w, T)
  <1> DEFINE R == S \ T
  <1>1. IsFiniteSet(T) /\ IsFiniteSet(R) /\ R \cap T = {} /\ R \cup T = S
    BY FS_Subset
  <1>2. \A x \in R : w[x] = 0
    OBVIOUS
  <1> HIDE DEF R
  <1>3. SumOver(w, S) = SumOver(w, R) + SumOver(w, T)
    BY <1>1, SumUnion
  <1>4. SumOver(w, R) = 0
    <2> DEFINE v == [x \in R |-> 0]
    <2>1. \A x \in R : w[x] = 0 * w[x] /\ w[x] \in Int
      BY <1>2
    <2>2. Numbers(w, R)
      BY <2>1 DEF Numbers
    <2>3. SumOver(w, R) = 0 * SumOver(w, R)
      BY <1>1, <2>1, <2>2, SumTimes
    <2>4. SumOver(w, R) \in Int
      BY <1>1, <2>2, SumInt
    <2> QED
      BY <2>3, <2>4
  <1>5. SumOver(w, T) \in Int
    BY <1>1, SumInt DEF Numbers
  <1> QED
    BY <1>3, <1>4, <1>5

----------------------------------------------------------------------------
(* Divisions *)

\* The quotient of a natural number and a positive one is a natural number.
LEMMA DivWhole ==
  ASSUME NEW y \in Nat, NEW a \in Nat \ {0}
  PROVE  y \div a \in Nat /\ a * (y \div a) <= y /\ y < a * (y \div a) + a
  OBVIOUS

\* What leaves no rest is a multiple.
LEMMA DivideEvenly ==
  ASSUME NEW y \in Nat, NEW a \in Nat \ {0}, y % a = 0
  PROVE  \E k \in Nat : y = a * k
  <1>1. y \div a \in Nat
    OBVIOUS
  <1>2. y = a * (y \div a) + (y % a)
    OBVIOUS
  <1>3. y = a * (y \div a)
    BY <1>1, <1>2
  <1> QED
    BY <1>1, <1>3

\* A quotient lies below what it is not to reach.
LEMMA DivUpper ==
  ASSUME NEW y \in Nat, NEW a \in Nat \ {0}, NEW z \in Int, y <= a * z
  PROVE  y \div a <= z
  <1> DEFINE q == y \div a
  <1>1. q \in Nat /\ a * q <= y
    BY DivWhole
  <1> HIDE DEF q
  <1>2. SUFFICES ASSUME q >= z + 1 PROVE FALSE
    BY <1>1 DEF q
  <1>3. a * q <= a * z
    BY <1>1
  <1>4. a * (q - z) >= a
    BY <1>1, <1>2
  <1>5. a * (q - z) = a * q - a * z
    BY <1>1
  <1> QED
    BY <1>1, <1>3, <1>4, <1>5

\* A quotient is at least what times the divisor fits in.
LEMMA DivLower ==
  ASSUME NEW y \in Nat, NEW a \in Nat \ {0}, NEW z \in Int, a * z <= y
  PROVE  z <= y \div a
  <1> DEFINE q == y \div a
  <1>1. q \in Nat /\ y < a * q + a
    BY DivWhole
  <1> HIDE DEF q
  <1>2. SUFFICES ASSUME q + 1 <= z PROVE FALSE
    BY <1>1 DEF q
  <1>4. a * (z - q) >= a
    BY <1>1, <1>2
  <1>5. a * (z - q) = a * z - a * q
    BY <1>1
  <1> QED
    BY <1>1, <1>4, <1>5

\* A part of x, in the proportion of b to a.
LEMMA DivPart ==
  ASSUME NEW x \in Nat, NEW a \in Nat \ {0}, NEW b \in 0..a
  PROVE  (x * b) \div a \in 0..x
  <1>1. x * b \in Nat /\ x * b <= a * x
    <2>1. x * (a - b) >= 0
      OBVIOUS
    <2>2. x * (a - b) = a * x - x * b
      OBVIOUS
    <2> QED
      BY <2>1, <2>2
  <1> QED
    BY <1>1, DivUpper, DivWhole

\* Parts of an amount in proportion to weights, rounded down, are no more than the amount.
LEMMA SharesFit ==
  ASSUME NEW w, NEW S, IsFiniteSet(S), \A x \in S : w[x] \in Nat, SumOver(w, S) # 0,
         NEW t \in Nat, NEW v, \A x \in S : v[x] = (t * w[x]) \div SumOver(w, S)
  PROVE  (\A x \in S : v[x] \in Nat) /\ SumOver(v, S) \in Nat /\ SumOver(v, S) <= t
  <1> DEFINE W == SumOver(w, S)
  <1>1. W \in Nat \ {0}
    BY SumNat
  <1>2. \A x \in S : w[x] \in Nat /\ v[x] = (t * w[x]) \div W
    OBVIOUS
  <1> HIDE DEF W
  <1>3. \A x \in S : v[x] \in Nat /\ W * v[x] <= t * w[x]
    <2> TAKE x \in S
    <2>1. t * w[x] \in Nat
      BY <1>2
    <2> QED
      BY <1>1, <1>2, <2>1, DivWhole
  <1>4. SumOver(v, S) \in Nat
    BY <1>3, SumNat
  <1> DEFINE a == [x \in S |-> W * v[x]]
             b == [x \in S |-> t * w[x]]
  <1>5. /\ \A x \in S : a[x] = W * v[x] /\ b[x] = t * w[x] /\ a[x] <= b[x]
        /\ Numbers(a, S) /\ Numbers(b, S) /\ Numbers(v, S) /\ Numbers(w, S)
    BY <1>1, <1>2, <1>3 DEF Numbers
  <1> HIDE DEF a, b
  <1>6. SumOver(a, S) = W * SumOver(v, S)
    BY <1>1, <1>5, SumTimes
  <1>7. SumOver(b, S) = t * W
    BY <1>5, SumTimes DEF W
  <1>8. SumOver(a, S) <= SumOver(b, S)
    BY <1>5, SumMonotone
  <1> DEFINE y == SumOver(v, S)
  <1>9. y \in Nat /\ W * y <= t * W
    BY <1>4, <1>6, <1>7, <1>8
  <1> HIDE DEF y
  <1>10. y <= t
    <2> SUFFICES ASSUME y >= t + 1 PROVE FALSE
      BY <1>9
    <2>1. W * (y - t) >= W
      BY <1>1, <1>9
    <2>2. W * (y - t) = W * y - t * W
      BY <1>1, <1>9
    <2> QED
      BY <1>1, <1>9, <2>1, <2>2
  <1> QED
    BY <1>3, <1>4, <1>10 DEF y

----------------------------------------------------------------------------
(* The first and the last of some numbers *)

\* A set that has no two numbers is empty or has just one.
LEMMA OneOrNone == ASSUME NEW S \in SUBSET Int, \A x, y \in S : x = y
                   PROVE  S = {} \/ \E x \in Int : S = {x}
  OBVIOUS

\* A set of minutes has a first one, and if it is bounded a last one.
LEMMA FirstOne == ASSUME NEW S \in SUBSET Nat, S # {} PROVE \E x \in S : \A y \in S : x <= y
  <1>1. PICK x \in S : \A y \in S : ~(<<y, x>> \in OpToRel(<, Nat))
    BY NatLessThanWellFounded, WFMin
  <1>2. \A y \in S : ~(y < x)
    BY <1>1 DEF OpToRel
  <1> QED
    BY <1>2

\* A set of numbers with a bound has a largest member.
LEMMA LastOne == ASSUME NEW S \in SUBSET Nat, S # {}, NEW n \in Nat, \A y \in S : y <= n
                 PROVE  \E x \in S : \A y \in S : y <= x
  <1> DEFINE T == {n - y : y \in S}
  <1>1. T \in SUBSET Nat /\ T # {}
    <2>1. \A y \in S : n - y \in Nat
      OBVIOUS
    <2>2. PICK y \in S : TRUE
      OBVIOUS
    <2>3. n - y \in T
      BY <2>2
    <2> QED
      BY <2>1, <2>3
  <1>2. PICK t \in T : \A u \in T : t <= u
    BY <1>1, FirstOne
  <1>3. PICK x \in S : t = n - x
    BY <1>2
  <1>4. \A y \in S : n - x <= n - y
    BY <1>2, <1>3
  <1> QED
    BY <1>4

----------------------------------------------------------------------------
(* The greatest and the smallest number *)

\* The largest of one number, of two, and of some numbers with a bound.
LEMMA MaxOfOne == ASSUME NEW x \in Int PROVE Max({x}) = x
  <1>1. \E y \in {x} : \A z \in {x} : y >= z
    OBVIOUS
  <1> QED
    BY <1>1 DEF Max

\* See MaxOfOne.
LEMMA MaxOfTwo == ASSUME NEW x \in Int, NEW y \in Int PROVE Max({x, y}) \in {x, y}
  <1>1. \E u \in {x, y} : \A z \in {x, y} : u >= z
    OBVIOUS
  <1> QED
    BY <1>1 DEF Max

\* See MaxOfOne.
LEMMA MaxBoth == ASSUME NEW x \in Int, NEW y \in Int
                 PROVE  Max({x, y}) \in Int /\ Max({x, y}) >= x /\ Max({x, y}) >= y
  <1>1. \E u \in {x, y} : \A z \in {x, y} : u >= z
    OBVIOUS
  <1> QED
    BY <1>1 DEF Max

\* The same for the smallest.
LEMMA MinOfTwo == ASSUME NEW x \in Int, NEW y \in Int PROVE Min({x, y}) \in {x, y}
  <1>1. \E u \in {x, y} : \A z \in {x, y} : u <= z
    OBVIOUS
  <1> QED
    BY <1>1 DEF Min

\* See MaxOfOne.
LEMMA MaxIs ==
  ASSUME NEW S \in SUBSET Nat, S # {}, NEW n \in Nat, \A y \in S : y <= n
  PROVE  Max(S) \in S /\ \A y \in S : y <= Max(S)
  <1>1. PICK x \in S : \A y \in S : y <= x
    BY LastOne
  <1>2. \A y \in S : x >= y
    BY <1>1
  <1>3. Max(S) \in S /\ \A y \in S : Max(S) >= y
    BY <1>2 DEF Max
  <1> QED
    BY <1>3

\* See MinOfTwo.
LEMMA MinIs ==
  ASSUME NEW S \in SUBSET Nat, S # {}
  PROVE  Min(S) \in S /\ \A y \in S : Min(S) <= y
  <1>1. PICK x \in S : \A y \in S : x <= y
    BY FirstOne
  <1> QED
    BY <1>1 DEF Min

=============================================================================
