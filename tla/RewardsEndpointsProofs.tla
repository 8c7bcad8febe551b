----------------------- MODULE RewardsEndpointsProofs -----------------------
(***************************************************************************)
(* Proofs about the two rewards endpoints, for any number and length of    *)
(* days and any ledgers. Sums first: a fold over a finite set, taken apart *)
(* by induction over its subsets. Then days and slots, and what a change   *)
(* of the balance says with the withdrawals of the same time. Then what a  *)
(* request to either version has read at each of its steps (V2Inv, V1Inv), *)
(* which no write of an indexer undoes, and what follows for the answers.  *)
(***************************************************************************)
EXTENDS RewardsEndpoints, FiniteSetTheorems, WellFoundedInduction, TLAPS

-----------------------------------------------------------------------------
(* A sum over a finite set adds one element after the other. *)

Pick(S) == CHOOSE x \in S : TRUE
Iterates(g, f, S) ==
    g = [s \in SUBSET S |-> IF s = {} THEN 0 ELSE f[Pick(s)] + g[s \ {Pick(s)}]]

LEMMA SumMeans ==
    ASSUME NEW f, NEW S
    PROVE  SumOver(f, S) = (CHOOSE g : Iterates(g, f, S))[S]
  BY DEF SumOver, MapThenSumSet, MapThenFoldSet, Iterates, Pick

\* Induction over the subsets of a finite set; a set stands for the property.
LEMMA SetInduction ==
    ASSUME NEW S, IsFiniteSet(S), NEW C,
           \A T \in SUBSET S : (\A U \in SUBSET T : U # T => U \in C) => T \in C
    PROVE  SUBSET S \subseteq C
<1> DEFINE R == StrictSubsetOrdering(S)
           D == (SUBSET S) \ C
<1>1. SUFFICES ASSUME D # {} PROVE FALSE
  OBVIOUS
<1>2. IsWellFoundedOn(R, SUBSET S)
  BY FS_StrictSubsetOrderingWellFounded, FS_FiniteSubsetsOfFinite
<1>3. \A T, U \in SUBSET S : U \subseteq T /\ U # T => <<U, T>> \in R
  BY DEF StrictSubsetOrdering
<1>4. D \subseteq SUBSET S
  OBVIOUS
<1>5. PICK T \in D : \A U \in D : ~ (<<U, T>> \in R)
  <2> HIDE DEF D, R
  <2>1. QED
    BY <1>1, <1>2, <1>4, WFMin
<1> HIDE DEF R
<1>6. ASSUME NEW U \in SUBSET T, U # T PROVE U \in C
  <2>1. T \in SUBSET S /\ U \in SUBSET S
    BY <1>5
  <2>2. <<U, T>> \in R
    BY <1>3, <1>6, <2>1
  <2>3. QED
    BY <1>5, <2>1, <2>2
<1>7. QED
  BY <1>5, <1>6

LEMMA IteratesAgree ==
    ASSUME NEW f, NEW S, IsFiniteSet(S), NEW T \in SUBSET S,
           NEW g, Iterates(g, f, S), NEW h, Iterates(h, f, T)
    PROVE  \A s \in SUBSET T : g[s] = h[s]
<1> DEFINE C == {s \in SUBSET T : g[s] = h[s]}
<1>1. ASSUME NEW s \in SUBSET T, \A u \in SUBSET s : u # s => u \in C
      PROVE  s \in C
  <2>1. g[s] = IF s = {} THEN 0 ELSE f[Pick(s)] + g[s \ {Pick(s)}]
    BY <1>1 DEF Iterates
  <2>2. h[s] = IF s = {} THEN 0 ELSE f[Pick(s)] + h[s \ {Pick(s)}]
    BY <1>1 DEF Iterates
  <2>3. s # {} => Pick(s) \in s
    BY DEF Pick
  <2>4. s # {} => g[s \ {Pick(s)}] = h[s \ {Pick(s)}]
    BY <1>1, <2>3
  <2>5. QED
    BY <1>1, <2>1, <2>2, <2>4
<1>2. IsFiniteSet(T)
  BY FS_Subset
<1>3. SUBSET T \subseteq C
  <2> HIDE DEF C
  <2>1. QED
    BY <1>1, <1>2, SetInduction
<1>4. QED
  BY <1>3

LEMMA IterateExists ==
    ASSUME NEW f, NEW S, IsFiniteSet(S)
    PROVE  \E g : Iterates(g, f, S)
<1> DEFINE C == {T \in SUBSET S : \E g : Iterates(g, f, T)}
           It(T) == CHOOSE g : Iterates(g, f, T)
<1>1. ASSUME NEW T \in SUBSET S, \A U \in SUBSET T : U # T => U \in C
      PROVE  T \in C
  <2> DEFINE h == [s \in SUBSET T |-> IF s = {} THEN 0
                                      ELSE f[Pick(s)] + It(s \ {Pick(s)})[s \ {Pick(s)}]]
  <2>1. ASSUME NEW U \in SUBSET T, U # T PROVE Iterates(It(U), f, U)
    <3>1. \E g : Iterates(g, f, U)
      BY <1>1, <2>1
    <3>2. QED
      BY <3>1
  <2> HIDE DEF It
  <2>2. \A s : s # {} => Pick(s) \in s
    BY DEF Pick
  <2>3. ASSUME NEW s \in SUBSET T, s # {}
        PROVE  h[s \ {Pick(s)}] = It(s \ {Pick(s)})[s \ {Pick(s)}]
    <3> DEFINE u == s \ {Pick(s)}
               v == u \ {Pick(u)}
    <3>1. u \in SUBSET T /\ u # T /\ v \in SUBSET u /\ v # T
      BY <2>2, <2>3
    <3>2. Iterates(It(u), f, u) /\ Iterates(It(v), f, v) /\ IsFiniteSet(u)
      <4>1. IsFiniteSet(T)
        BY <1>1, FS_Subset
      <4>2. QED
        BY <2>1, <3>1, <4>1, FS_Subset
    <3>3. It(u)[v] = It(v)[v]
      <4>1. v \in SUBSET v
        OBVIOUS
      <4> HIDE DEF u, v
      <4>2. QED
        BY <3>1, <3>2, <4>1, IteratesAgree
    <3>4. It(u)[u] = IF u = {} THEN 0 ELSE f[Pick(u)] + It(u)[v]
      BY <3>2 DEF Iterates
    <3>5. h[u] = IF u = {} THEN 0 ELSE f[Pick(u)] + It(v)[v]
      BY <3>1
    <3>6. QED
      BY <3>3, <3>4, <3>5
  <2>4. h = [s \in SUBSET T |-> IF s = {} THEN 0 ELSE f[Pick(s)] + h[s \ {Pick(s)}]]
    BY <2>3
  <2>5. Iterates(h, f, T)
    BY <2>4 DEF Iterates
  <2>6. QED
    BY <1>1, <2>5
<1>2. SUBSET S \subseteq C
  <2> HIDE DEF C
  <2>1. QED
    BY <1>1, SetInduction
<1>3. QED
  BY <1>2

LEMMA SumIs ==
    ASSUME NEW f, NEW S, IsFiniteSet(S), NEW g, Iterates(g, f, S), NEW T \in SUBSET S
    PROVE  SumOver(f, T) = g[T]
<1>1. IsFiniteSet(T)
  BY FS_Subset
<1> DEFINE h == CHOOSE h : Iterates(h, f, T)
<1>2. Iterates(h, f, T)
  BY <1>1, IterateExists
<1>3. SumOver(f, T) = h[T]
  BY SumMeans
<1> HIDE DEF h
<1>4. g[T] = h[T]
  BY <1>2, IteratesAgree
<1>5. QED
  BY <1>3, <1>4

\* The sum, one element after the other.
LEMMA SumStep ==
    ASSUME NEW f, NEW S, IsFiniteSet(S)
    PROVE  SumOver(f, S) = IF S = {} THEN 0 ELSE f[Pick(S)] + SumOver(f, S \ {Pick(S)})
<1>1. PICK g : Iterates(g, f, S)
  BY IterateExists
<1>2. g[S] = IF S = {} THEN 0 ELSE f[Pick(S)] + g[S \ {Pick(S)}]
  BY <1>1 DEF Iterates
<1>3. QED
  BY <1>1, <1>2, SumIs

(* Sums of integers. *)

LEMMA SumTake ==
    ASSUME NEW f, NEW S, IsFiniteSet(S), \A y \in S : f[y] \in Int
    PROVE  /\ SumOver(f, S) \in Int
           /\ \A x \in S : SumOver(f, S) = f[x] + SumOver(f, S \ {x})
<1> DEFINE Good(T) == /\ SumOver(f, T) \in Int
                      /\ \A x \in T : SumOver(f, T) = f[x] + SumOver(f, T \ {x})
           C == {T \in SUBSET S : Good(T)}
<1>1. ASSUME NEW T \in SUBSET S, \A U \in SUBSET T : U # T => U \in C
      PROVE  T \in C
  <2> DEFINE c == Pick(T)
  <2>1. \A U \in SUBSET T : U # T => Good(U)
    BY <1>1
  <2>2. SumOver(f, T) = IF T = {} THEN 0 ELSE f[c] + SumOver(f, T \ {c})
    BY SumStep, FS_Subset
  <2>3. CASE T = {}
    BY <2>2, <2>3
  <2>4. CASE T # {}
    <3>1. c \in T
      BY <2>4 DEF Pick
    <3> HIDE DEF c, Good, C
    <3>2. Good(T \ {c}) /\ f[c] \in Int
      BY <2>1, <3>1
    <3>3. SumOver(f, T) \in Int /\ SumOver(f, T \ {c}) \in Int
      BY <2>2, <2>4, <3>2 DEF Good
    <3>4. ASSUME NEW x \in T, x # c PROVE SumOver(f, T) = f[x] + SumOver(f, T \ {x})
      <4> DEFINE R == (T \ {c}) \ {x}
      <4>1. SumOver(f, T \ {c}) = f[x] + SumOver(f, R)
        BY <3>2, <3>4 DEF Good
      <4>2. (T \ {x}) \ {c} = R /\ c \in T \ {x} /\ T \ {x} # T /\ R # T
        BY <3>1, <3>4
      <4>3. SumOver(f, T \ {x}) = f[c] + SumOver(f, R)
        BY <2>1, <4>2 DEF Good
      <4>4. SumOver(f, R) \in Int /\ f[x] \in Int
        BY <2>1, <4>2 DEF Good
      <4> HIDE DEF R
      <4>5. QED
        BY <2>2, <2>4, <3>2, <3>3, <4>1, <4>3, <4>4
    <3>5. QED
      BY <2>2, <2>4, <3>3, <3>4 DEF Good, C
  <2>5. QED
    BY <2>3, <2>4
<1>2. SUBSET S \subseteq C
  <2> HIDE DEF C
  <2>1. QED
    BY <1>1, SetInduction
<1>3. QED
  BY <1>2

LEMMA SumEmpty ==
    ASSUME NEW f PROVE SumOver(f, {}) = 0
  BY SumStep, FS_EmptySet

\* A disjoint union.
LEMMA SumUnion ==
    ASSUME NEW f, NEW A, NEW B, IsFiniteSet(A), IsFiniteSet(B), A \cap B = {},
           \A y \in A \cup B : f[y] \in Int
    PROVE  SumOver(f, A \cup B) = SumOver(f, A) + SumOver(f, B)
<1> DEFINE Good(T) == SumOver(f, T \cup B) = SumOver(f, T) + SumOver(f, B)
           C == {T \in SUBSET A : Good(T)}
<1>1. ASSUME NEW T \in SUBSET A, \A U \in SUBSET T : U # T => U \in C
      PROVE  T \in C
  <2>1. SumOver(f, B) \in Int
    BY SumTake
  <2>2. CASE T = {}
    <3>1. T \cup B = B
      BY <2>2
    <3>2. QED
      BY <2>1, <2>2, <3>1, SumEmpty
  <2>3. CASE T # {}
    <3>1. PICK c : c \in T
      BY <2>3
    <3> DEFINE U == T \ {c}
    <3>2. Good(U)
      BY <1>1, <3>1
    <3>3. SumOver(f, T) = f[c] + SumOver(f, U) /\ SumOver(f, U) \in Int /\ f[c] \in Int
      <4>1. IsFiniteSet(T) /\ IsFiniteSet(U)
        BY FS_Subset
      <4>2. QED
        BY <3>1, <4>1, SumTake
    <3>4. SumOver(f, T \cup B) = f[c] + SumOver(f, U \cup B)
      <4>1. IsFiniteSet(T \cup B)
        BY FS_Subset, FS_Union
      <4>2. (T \cup B) \ {c} = U \cup B
        BY <3>1
      <4>3. QED
        BY <3>1, <4>1, <4>2, SumTake
    <3>5. QED
      BY <2>1, <3>2, <3>3, <3>4
  <2>4. QED
    BY <2>2, <2>3
<1>2. SUBSET A \subseteq C
  <2> HIDE DEF C
  <2>1. QED
    BY <1>1, SetInduction
<1>3. QED
  BY <1>2

\* A sum of differences.
LEMMA SumMinus ==
    ASSUME NEW f, NEW g, NEW h, NEW S, IsFiniteSet(S),
           \A y \in S : f[y] \in Int /\ g[y] \in Int /\ h[y] = f[y] - g[y]
    PROVE  SumOver(h, S) = SumOver(f, S) - SumOver(g, S)
<1> DEFINE Good(T) == SumOver(h, T) = SumOver(f, T) - SumOver(g, T)
           C == {T \in SUBSET S : Good(T)}
<1>1. ASSUME NEW T \in SUBSET S, \A U \in SUBSET T : U # T => U \in C
      PROVE  T \in C
  <2>1. CASE T = {}
    BY <2>1, SumEmpty
  <2>2. CASE T # {}
    <3>1. PICK c : c \in T
      BY <2>2
    <3> DEFINE U == T \ {c}
    <3>2. Good(U)
      BY <1>1, <3>1
    <3>3. \A y \in T : f[y] \in Int /\ g[y] \in Int /\ h[y] \in Int /\ h[y] = f[y] - g[y]
      OBVIOUS
    <3>4. IsFiniteSet(T) /\ IsFiniteSet(U)
      BY FS_Subset
    <3>5. /\ SumOver(f, T) = f[c] + SumOver(f, U) /\ SumOver(f, U) \in Int
          /\ SumOver(g, T) = g[c] + SumOver(g, U) /\ SumOver(g, U) \in Int
          /\ SumOver(h, T) = h[c] + SumOver(h, U) /\ SumOver(h, U) \in Int
      BY <3>1, <3>3, <3>4, SumTake
    <3>6. QED
      BY <3>1, <3>2, <3>3, <3>5
  <2>3. QED
    BY <2>1, <2>2
<1>2. SUBSET S \subseteq C
  <2> HIDE DEF C
  <2>1. QED
    BY <1>1, SetInduction
<1>3. QED
  BY <1>2

\* A sum of amounts that are all the same, or none.
LEMMA SumSame ==
    ASSUME NEW f, NEW n \in Nat \ {0}, NEW S, IsFiniteSet(S), \A y \in S : f[y] \in {0, n}
    PROVE  SumOver(f, S) = n * Cardinality({y \in S : f[y] = n})
<1> DEFINE Those(T) == {y \in T : f[y] = n}
           Good(T) == SumOver(f, T) = n * Cardinality(Those(T))
           C == {T \in SUBSET S : Good(T)}
<1>1. ASSUME NEW T \in SUBSET S, \A U \in SUBSET T : U # T => U \in C
      PROVE  T \in C
  <2>1. CASE T = {}
    <3>1. Cardinality(Those(T)) = 0
      BY <2>1, FS_EmptySet
    <3>2. QED
      BY <2>1, <3>1, SumEmpty
  <2>2. CASE T # {}
    <3>1. PICK c : c \in T
      BY <2>2
    <3> DEFINE U == T \ {c}
    <3>2. Good(U) /\ IsFiniteSet(T)
      BY <1>1, <3>1, FS_Subset
    <3>3. SumOver(f, T) = f[c] + SumOver(f, U) /\ f[c] \in {0, n}
      BY <3>1, <3>2, SumTake
    <3>4. IsFiniteSet(Those(T)) /\ Those(U) = Those(T) \ {c}
      BY <3>2, FS_Subset
    <3>5. /\ Cardinality(Those(T)) \in Nat /\ Cardinality(Those(U)) \in Nat
          /\ Cardinality(Those(U)) = IF f[c] = n THEN Cardinality(Those(T)) - 1
                                     ELSE Cardinality(Those(T))
      <4>1. c \in Those(T) <=> f[c] = n
        BY <3>1
      <4>2. /\ IsFiniteSet(Those(T) \ {c})
            /\ Cardinality(Those(T) \ {c}) =
                  IF c \in Those(T) THEN Cardinality(Those(T)) - 1 ELSE Cardinality(Those(T))
        BY <3>4, FS_RemoveElement
      <4> HIDE DEF Those
      <4>3. QED
        BY <3>4, <4>1, <4>2, FS_CardinalityType
    <3> DEFINE a == Cardinality(Those(T))
               b == Cardinality(Those(U))
    <3>6. n * (b + 1) = n * b + n
      BY <3>5
    <3> HIDE DEF a, b
    <3>7. a \in Nat /\ b \in Nat /\ b = (IF f[c] = n THEN a - 1 ELSE a)
      BY <3>5 DEF a, b
    <3>8. SumOver(f, T) = f[c] + n * b
      BY <3>2, <3>3 DEF b
    <3>9. SumOver(f, T) = n * a
      <4>1. CASE f[c] = n
        <5>1. a = b + 1
          BY <3>7, <4>1
        <5>2. QED
          BY <3>6, <3>7, <3>8, <4>1, <5>1
      <4>2. CASE f[c] # n
        BY <3>3, <3>7, <3>8, <4>2
      <4>3. QED
        BY <4>1, <4>2
    <3>10. QED
      BY <3>9 DEF a
  <2>3. QED
    BY <2>1, <2>2
<1>2. SUBSET S \subseteq C
  <2> HIDE DEF C
  <2>1. QED
    BY <1>1, SetInduction
<1>3. QED
  BY <1>2

\* The largest and the smallest of some numbers.
LEMMA MaxMin ==
    ASSUME NEW S, IsFiniteSet(S), S # {}, S \subseteq Int
    PROVE  /\ Max(S) \in S /\ \A y \in S : y <= Max(S)
           /\ Min(S) \in S /\ \A y \in S : Min(S) <= y
<1> DEFINE Good(T) == T # {} => /\ \E x \in T : \A y \in T : x >= y
                                /\ \E x \in T : \A y \in T : x <= y
           C == {T \in SUBSET S : Good(T)}
<1>1. ASSUME NEW T \in SUBSET S, \A U \in SUBSET T : U # T => U \in C
      PROVE  T \in C
  <2>1. SUFFICES ASSUME T # {} PROVE Good(T)
    OBVIOUS
  <2>2. PICK c : c \in T
    BY <2>1
  <2> DEFINE U == T \ {c}
  <2>3. Good(U)
    BY <1>1, <2>2
  <2>4. CASE U = {}
    <3>1. \A y \in T : y = c
      BY <2>4
    <3>2. QED
      BY <2>2, <3>1
  <2>5. CASE U # {}
    <3>1. PICK x \in U : \A y \in U : x >= y
      BY <2>3, <2>5
    <3>2. PICK z \in U : \A y \in U : z <= y
      BY <2>3, <2>5
    <3>3. \E t \in T : \A y \in T : t >= y
      <4>1. CASE x >= c
        BY <2>2, <3>1, <4>1
      <4>2. CASE ~ (x >= c)
        BY <2>2, <3>1, <4>2
      <4>3. QED
        BY <4>1, <4>2
    <3>4. \E t \in T : \A y \in T : t <= y
      <4>1. CASE z <= c
        BY <2>2, <3>2, <4>1
      <4>2. CASE ~ (z <= c)
        BY <2>2, <3>2, <4>2
      <4>3. QED
        BY <4>1, <4>2
    <3>5. QED
      BY <3>3, <3>4
  <2>6. QED
    BY <2>4, <2>5
<1>2. SUBSET S \subseteq C
  <2> HIDE DEF C
  <2>1. QED
    BY <1>1, SetInduction
<1>3. /\ \E x \in S : \A y \in S : x >= y
      /\ \E x \in S : \A y \in S : x <= y
  BY <1>2
<1>4. Max(S) \in S /\ \A y \in S : Max(S) >= y
  BY <1>3 DEF Max
<1>5. Min(S) \in S /\ \A y \in S : Min(S) <= y
  BY <1>3 DEF Min
<1>6. QED
  BY <1>4, <1>5

-----------------------------------------------------------------------------
(* Which slots are those of a range of days. *)

LEMMA DivMeans ==
    ASSUME NEW L \in Nat \ {0}, NEW n \in Int
    PROVE  n \div L \in Int /\ L * (n \div L) <= n /\ n < L * (n \div L) + L
  OBVIOUS

LEMMA Times ==
    ASSUME NEW L \in Nat \ {0}, NEW a \in Int, NEW b \in Int, a < b
    PROVE  L * a \in Int /\ L * b \in Int /\ L * a + L <= L * b
<1>1. L * (b - a - 1) >= 0
  OBVIOUS
<1>2. L * (b - a - 1) = L * b - L * a - L
  OBVIOUS
<1>3. QED
  BY <1>1, <1>2

LEMMA DaySlots ==
    /\ \A d \in Int : StartSlot(d) \in Int /\ EodSlot(d) = StartSlot(d + 1)
                      /\ DateOf(EodSlot(d)) = d
    /\ \A d, e \in Int : d < e => StartSlot(d) + DayLen <= StartSlot(e)
<1>1. DayLen \in Nat \ {0}
  BY DaysAssumption
<1>2. \A d, e \in Int : d < e => StartSlot(d) + DayLen <= StartSlot(e)
  BY <1>1, Times DEF StartSlot
<1>3. ASSUME NEW d \in Int
      PROVE  StartSlot(d) \in Int /\ EodSlot(d) = StartSlot(d + 1) /\ DateOf(EodSlot(d)) = d
  <2> DEFINE n == DayLen * (d + 1) - 1
             q == n \div DayLen
  <2>1. n \in Int /\ DayLen * (d + 1) = DayLen * d + DayLen
    BY <1>1
  <2>2. q \in Int /\ DayLen * q <= n /\ n < DayLen * q + DayLen
    BY <1>1, <2>1, DivMeans
  <2>3. q < d => DayLen * q + DayLen <= DayLen * d
    BY <1>1, <2>2, Times
  <2>4. d < q => DayLen * d + DayLen <= DayLen * q
    BY <1>1, <2>2, Times
  <2> HIDE DEF q
  <2>5. q = d
    <3>1. DayLen * q \in Int /\ DayLen * d \in Int
      BY <1>1, <2>2
    <3>2. QED
      BY <1>1, <2>1, <2>2, <2>3, <2>4, <3>1
  <2>6. QED
    BY <1>1, <2>5 DEF q, StartSlot, EodSlot, DateOf
<1>4. QED
  BY <1>2, <1>3

LEMMA RangeIsDays ==
    ASSUME NEW slot \in Slots, NEW s \in Int, NEW e \in Int, s <= e + 1
    PROVE  StartSlot(s) <= slot /\ slot <= EodSlot(e)
             <=> DateOf(slot) \in s .. e \/ slot = StartSlot(s)
<1> DEFINE q == DateOf(slot)
<1>1. DayLen \in Nat \ {0} /\ slot \in Int
  BY DaysAssumption DEF StartSlot, Slots
<1>2. /\ q \in Int /\ DayLen * q <= slot - 1 /\ slot - 1 < DayLen * q + DayLen
  BY <1>1, DivMeans DEF DateOf
<1> HIDE DEF q
<1>3. /\ DayLen * s \in Int /\ DayLen * q \in Int /\ DayLen * e \in Int
      /\ DayLen * (e + 1) = DayLen * e + DayLen
  BY <1>1, <1>2
<1>4. /\ q < s => DayLen * q + DayLen <= DayLen * s
      /\ s < q => DayLen * s + DayLen <= DayLen * q
      /\ q < e => DayLen * q + DayLen <= DayLen * e
      /\ e < q => DayLen * e + DayLen <= DayLen * q
      /\ s < e => DayLen * s + DayLen <= DayLen * e
  BY <1>1, <1>2, Times
<1>5. StartSlot(s) = DayLen * s /\ EodSlot(e) = DayLen * e + DayLen
  BY <1>3 DEF StartSlot, EodSlot
<1>6. (DayLen * s <= slot /\ slot <= DayLen * e + DayLen)
        <=> (s <= q /\ q <= e) \/ slot = DayLen * s
  BY <1>1, <1>2, <1>3, <1>4
<1>7. QED
  BY <1>2, <1>5, <1>6 DEF q

-----------------------------------------------------------------------------
(* What a balance change and the withdrawals of the same time say together. *)

LEMMA SlotsMean ==
    /\ DayLen \in Nat \ {0} /\ Today \in Nat \ {0}
    /\ StartSlot(Today) \in Nat /\ Slots = 0 .. StartSlot(Today) /\ 0 \in Slots
<1>1. StartSlot(Today) \in Nat
  BY DaysAssumption DEF StartSlot
<1>2. QED
  BY <1>1, DaysAssumption DEF Slots

LEMMA LedgerMeans ==
    ASSUME ledger \in Ledgers
    PROVE  /\ ledger.activation \in Slots \cup {NoSlot} /\ ledger.activation \in Int
           /\ \A s \in Slots : /\ ledger.earned[s] \in Int /\ ledger.deposited[s] \in Nat
                               /\ ledger.withdrawn[s] \in Nat
<1> DEFINE l == ledger
<1>1. /\ l.activation \in Slots \cup {NoSlot}
      /\ l.earned \in [Slots -> Int] /\ l.deposited \in [Slots -> Nat]
      /\ l.withdrawn \in [Slots -> Nat]
  BY LedgersAssumption
<1>2. l.activation \in Int
  BY <1>1, SlotsMean DEF NoSlot
<1>3. QED
  BY <1>1, <1>2

LEMMA BetweenMeans ==
    ASSUME NEW p \in Slots, NEW e \in Slots, p <= e
    PROVE  /\ UpTo(e) = UpTo(p) \cup Between(p, e) /\ UpTo(p) \cap Between(p, e) = {}
           /\ IsFiniteSet(UpTo(e)) /\ IsFiniteSet(UpTo(p)) /\ IsFiniteSet(Between(p, e))
           /\ UpTo(e) \subseteq Slots /\ UpTo(p) \subseteq Slots /\ Between(p, e) \subseteq Slots
<1>1. IsFiniteSet(Slots)
  BY SlotsMean, FS_Interval
<1>2. /\ UpTo(e) \subseteq Slots /\ UpTo(p) \subseteq Slots /\ Between(p, e) \subseteq Slots
  BY DEF UpTo, Between
<1>3. IsFiniteSet(UpTo(e)) /\ IsFiniteSet(UpTo(p)) /\ IsFiniteSet(Between(p, e))
  BY <1>1, <1>2, FS_Subset
<1>4. p \in Nat /\ e \in Nat /\ \A s \in Slots : s \in Nat
  BY SlotsMean
<1>5. \A s \in Slots : /\ s <= e <=> s <= p \/ (p < s /\ s <= e)
                       /\ ~ (s <= p /\ p < s)
  BY <1>4
<1>6. UpTo(e) = UpTo(p) \cup Between(p, e) /\ UpTo(p) \cap Between(p, e) = {}
  BY <1>5 DEF UpTo, Between
<1>7. QED
  BY <1>2, <1>3, <1>6

LEMMA ChangeMeans ==
    ASSUME ledger \in Ledgers, NEW p \in Slots, NEW e \in Slots, p <= e
    PROVE  /\ SumOver(ledger.earned, Between(p, e)) \in Int
           /\ SumOver(ledger.deposited, Between(p, e)) \in Int
           /\ SumOver(ledger.withdrawn, Between(p, e)) \in Int
           /\ BalanceAt(p) \in Int /\ BalanceAt(e) \in Int
           /\ BalanceAt(e) - BalanceAt(p) =
                SumOver(ledger.earned, Between(p, e)) + SumOver(ledger.deposited, Between(p, e))
                  - SumOver(ledger.withdrawn, Between(p, e))
<1> DEFINE A == UpTo(p)
           B == Between(p, e)
           C == UpTo(e)
<1>1. /\ C = A \cup B /\ A \cap B = {} /\ IsFiniteSet(A) /\ IsFiniteSet(B)
      /\ A \subseteq Slots /\ B \subseteq Slots
  BY BetweenMeans
<1>2. /\ BalanceAt(p) = SumOver(ledger.deposited, A) + SumOver(ledger.earned, A)
                           - SumOver(ledger.withdrawn, A)
      /\ BalanceAt(e) = SumOver(ledger.deposited, C) + SumOver(ledger.earned, C)
                           - SumOver(ledger.withdrawn, C)
  BY DEF BalanceAt
<1> HIDE DEF A, B, C
<1>3. ASSUME NEW f, \A s \in Slots : f[s] \in Int
      PROVE  /\ SumOver(f, A) \in Int /\ SumOver(f, B) \in Int
             /\ SumOver(f, C) = SumOver(f, A) + SumOver(f, B)
  BY <1>1, <1>3, SumUnion, SumTake
<1>4. /\ \A s \in Slots : ledger.earned[s] \in Int
      /\ \A s \in Slots : ledger.deposited[s] \in Int
      /\ \A s \in Slots : ledger.withdrawn[s] \in Int
  BY LedgerMeans
<1>5. /\ SumOver(ledger.earned, A) \in Int /\ SumOver(ledger.earned, B) \in Int
      /\ SumOver(ledger.earned, C) = SumOver(ledger.earned, A) + SumOver(ledger.earned, B)
  BY <1>3, <1>4
<1>6. /\ SumOver(ledger.deposited, A) \in Int /\ SumOver(ledger.deposited, B) \in Int
      /\ SumOver(ledger.deposited, C) = SumOver(ledger.deposited, A) + SumOver(ledger.deposited, B)
  BY <1>3, <1>4
<1>7. /\ SumOver(ledger.withdrawn, A) \in Int /\ SumOver(ledger.withdrawn, B) \in Int
      /\ SumOver(ledger.withdrawn, C) = SumOver(ledger.withdrawn, A) + SumOver(ledger.withdrawn, B)
  BY <1>3, <1>4
<1>8. QED
  BY <1>2, <1>5, <1>6, <1>7 DEF B

LEMMA CountedMeans ==
    ASSUME NEW n \in Nat, ~ Rejected(n)
    PROVE  Capital(n) \in Int /\ Counted(n) \in Int /\ Counted(n) = n - Capital(n)
  BY DEF Counted, Rejected, Capital

\* What the handler adds up for a day is what was earned and deposited, less the
\* capital, and less what it has not seen.
LEMMA IncomeMeans ==
    ASSUME ledger \in Ledgers, NEW p \in Slots, NEW e \in Slots, p <= e,
           NEW W, W \subseteq Between(p, e), NEW S, S \subseteq Between(p, e),
           W = {s \in S : ledger.withdrawn[s] > 0},
           \A s \in W : ~ Rejected(ledger.withdrawn[s])
    PROVE  BalanceAt(e) - BalanceAt(p)
             + SumOver([s \in Slots |-> Counted(ledger.withdrawn[s])], W)
           = SumOver(ledger.earned, Between(p, e)) + SumOver(ledger.deposited, Between(p, e))
             - SumOver([s \in Slots |-> Capital(ledger.withdrawn[s])], S)
             - SumOver(ledger.withdrawn, Between(p, e) \ S)
<1> DEFINE B == Between(p, e)
           c == [s \in Slots |-> Counted(ledger.withdrawn[s])]
           x == [s \in Slots |-> Capital(ledger.withdrawn[s])]
           w == ledger.withdrawn
<1>1. IsFiniteSet(B) /\ B \subseteq Slots /\ W \subseteq S /\ S \subseteq B
  BY BetweenMeans
<1>2. IsFiniteSet(S) /\ IsFiniteSet(W) /\ IsFiniteSet(S \ W) /\ IsFiniteSet(B \ S)
  BY <1>1, FS_Subset
<1>3. \A s \in B : w[s] \in Int
  BY <1>1, LedgerMeans
<1>4. ASSUME NEW s \in S
      PROVE  /\ w[s] \in Int /\ x[s] \in Int /\ c[s] \in Int /\ c[s] = w[s] - x[s]
             /\ s \notin W => c[s] = 0
  <2>1. s \in Slots /\ ledger.withdrawn[s] \in Nat
    BY <1>1, LedgerMeans
  <2>2. ~ Rejected(ledger.withdrawn[s])
    BY <2>1 DEF Rejected
  <2>3. s \notin W => ledger.withdrawn[s] = 0
    BY <2>1
  <2>4. Counted(0) = 0
    BY DEF Counted
  <2>5. QED
    BY <2>1, <2>2, <2>3, <2>4, CountedMeans
<1> HIDE DEF c, x, w, B
<1>5. SumOver(c, S) = SumOver(w, S) - SumOver(x, S)
  BY <1>2, <1>4, SumMinus
<1>6. SumOver(c, S \ W) = 0
  <2>1. \A s \in S \ W : c[s] \in {0, 1}
    BY <1>4
  <2>2. SumOver(c, S \ W) = 1 * Cardinality({s \in S \ W : c[s] = 1})
    BY <1>2, <2>1, SumSame
  <2>3. {s \in S \ W : c[s] = 1} = {}
    BY <1>4
  <2>4. QED
    BY <2>2, <2>3, FS_EmptySet
<1>7. SumOver(c, S) = SumOver(c, W) + SumOver(c, S \ W)
  <2>1. W \cup (S \ W) = S /\ W \cap (S \ W) = {}
    BY <1>1
  <2>2. QED
    BY <1>2, <1>4, <2>1, SumUnion
<1>8. SumOver(w, B) = SumOver(w, S) + SumOver(w, B \ S)
  <2>1. S \cup (B \ S) = B /\ S \cap (B \ S) = {}
    BY <1>1
  <2>2. QED
    BY <1>2, <1>3, <2>1, SumUnion
<1>9. /\ SumOver(c, W) \in Int /\ SumOver(x, S) \in Int
      /\ SumOver(w, S) \in Int /\ SumOver(w, B \ S) \in Int
  BY <1>1, <1>2, <1>3, <1>4, SumTake
<1>10. /\ SumOver(ledger.earned, B) \in Int /\ SumOver(ledger.deposited, B) \in Int
       /\ BalanceAt(p) \in Int /\ BalanceAt(e) \in Int
       /\ BalanceAt(e) - BalanceAt(p) =
            SumOver(ledger.earned, B) + SumOver(ledger.deposited, B) - SumOver(w, B)
  BY ChangeMeans DEF B, w
<1>11. BalanceAt(e) - BalanceAt(p) + SumOver(c, W)
         = SumOver(ledger.earned, B) + SumOver(ledger.deposited, B)
             - SumOver(x, S) - SumOver(w, B \ S)
  BY <1>5, <1>6, <1>7, <1>8, <1>9, <1>10
<1>12. QED
  BY <1>11 DEF B, c, x, w

-----------------------------------------------------------------------------
(* A request to v2: what it has read, and what that is over complete tables. *)

RangeOK == req.start \in 0 .. Today /\ req.end \in 0 .. Today - 1 /\ req.start <= req.end + 1

Since(stages) == pc \in stages \/ Answered

Begun == Since({"eods", "withdrawals", "rewards", "walk"}) =>
    Active(ledger) /\ initial = InitialSlot /\ initial \in balance

RangeEods == {EodSlot(d) : d \in req.start .. req.end}
EodsRead == Since({"withdrawals", "rewards", "walk"}) =>
    /\ eods \subseteq {s \in RangeEods \cap balance : s >= ledger.activation}
    /\ req.settled => eods = {s \in RangeEods : s >= ledger.activation}

RangeWithdrawals == {s \in Slots : ledger.withdrawn[s] > 0 /\ InRange(s)}
WithdrawalsRead == Since({"rewards", "walk"}) =>
    /\ seen \subseteq RangeWithdrawals
    /\ req.settled => seen = RangeWithdrawals

RangeBlocks == {s \in Proposals : InRange(s)}
BlocksRead == Since({"walk"}) => (req.settled => blocks = RangeBlocks)

Reported ==
    /\ answer.kind = "ok" => pc = "done"
    /\ Answered =>
        /\ answer.days = [e \in eods |-> DayIncome(e)]
        /\ answer.paid = {<<DateOf(s), s>> : s \in blocks}
        /\ \A e \in eods : \A s \in WithdrawnSince(PreviousBalance(e), e) :
              ~ Rejected(ledger.withdrawn[s])

V2Inv ==
    /\ TablesOK /\ (req.settled => Settled)
    /\ RangeOK /\ Begun /\ EodsRead /\ WithdrawalsRead /\ BlocksRead /\ Reported

-----------------------------------------------------------------------------
(* The tables only grow, and complete ones stay as they are. *)

Grown ==
    /\ ledger' = ledger /\ balance \subseteq balance' /\ TablesOK'
    /\ Settled => Settled' /\ UNCHANGED tables

LEMMA TablesGrow ==
    ASSUME TablesOK, Index \/ UNCHANGED tables
    PROVE  Grown
<1>1. CASE UNCHANGED tables
  BY <1>1 DEF Grown, tables, TablesOK, Settled, BalanceSlots, Active, Proposals
<1>2. ASSUME NEW s \in BalanceSlots, IndexBalance(s) PROVE Grown
  BY <1>2 DEF Grown, IndexBalance, TablesOK, Settled, BalanceSlots, Active, Proposals
<1>3. CASE IndexWithdrawals
  <2>1. withdrawal \in Slots /\ withdrawal + 1 \in Slots /\ withdrawal # StartSlot(Today)
    BY <1>3, SlotsMean DEF IndexWithdrawals, TablesOK
  <2>2. QED
    BY <1>3, <2>1 DEF Grown, IndexWithdrawals, TablesOK, Settled, BalanceSlots, Active, Proposals
<1>4. ASSUME NEW s \in Proposals, NEW failed \in BOOLEAN, IndexReward(s, failed) PROVE Grown
  BY <1>4 DEF Grown, IndexReward, TablesOK, Settled, BalanceSlots, Active, Proposals
<1>5. QED
  BY <1>1, <1>2, <1>3, <1>4 DEF Index

\* Nothing a request to v2 has in hand depends on what is written meanwhile.
LEMMA V2Stays ==
    ASSUME V2Inv, Grown, UNCHANGED request
    PROVE  V2Inv'
<1>1. /\ UNCHANGED <<pc, req, initial, eods, seen, blocks, answer, ledger>>
      /\ balance \subseteq balance' /\ TablesOK' /\ (Settled => Settled')
  BY DEF request, Grown
<1>2. /\ Answered' = Answered /\ InitialSlot' = InitialSlot /\ Active(ledger)' = Active(ledger)
      /\ RangeEods' = RangeEods /\ RangeWithdrawals' = RangeWithdrawals
      /\ RangeBlocks' = RangeBlocks
  BY <1>1 DEF Answered, Active, InitialSlot, RangeEods, RangeWithdrawals, RangeBlocks, InRange,
              Proposals
<1>3. /\ [e \in eods |-> DayIncome(e)]' = [e \in eods |-> DayIncome(e)]
      /\ \A e : PreviousBalance(e)' = PreviousBalance(e)
      /\ \A a, b : WithdrawnSince(a, b)' = WithdrawnSince(a, b)
  BY <1>1 DEF DayIncome, PreviousBalance, WithdrawnSince, BalanceAt
<1>4. RangeOK' /\ Begun' /\ EodsRead'
  BY <1>1, <1>2 DEF V2Inv, RangeOK, Begun, EodsRead, Since
<1>5. WithdrawalsRead' /\ BlocksRead'
  BY <1>1, <1>2 DEF V2Inv, WithdrawalsRead, BlocksRead, Since
<1>6. Reported'
  BY <1>1, <1>2, <1>3 DEF V2Inv, Reported
<1>7. QED
  BY <1>1, <1>4, <1>5, <1>6 DEF V2Inv

LEMMA V2Initially == ASSUME TablesInit, RequestInit PROVE V2Inv
<1>1. TablesOK
  BY SlotsMean DEF TablesInit, TablesOK
<1>2. RangeOK
  BY SlotsMean DEF RequestInit, RangeOK
<1>3. QED
  BY <1>1, <1>2 DEF RequestInit, V2Inv, Begun, EodsRead, WithdrawalsRead, BlocksRead, Reported,
                    Since, Answered, NoAnswer

LEMMA V2Asked ==
    ASSUME V2Inv, NEW start \in 0 .. Today, NEW end \in 0 .. Today + 1, NEW expected,
           Receive(start, end, expected)
    PROVE  V2Inv'
<1>1. /\ pc = "idle" /\ pc' = "initial" /\ end > start
      /\ req'.start = start /\ req'.end = CappedEnd(end) /\ req'.settled = Settled
      /\ UNCHANGED <<tables, initial, eods, seen, blocks, answer>>
  BY DEF Receive
<1>2. Grown
  BY <1>1, TablesGrow DEF V2Inv
<1>3. ~ Answered /\ answer.kind # "ok" /\ answer' = answer /\ ledger' = ledger
  BY <1>1 DEF V2Inv, Reported, Answered, tables
<1>4. RangeOK'
  BY <1>1, SlotsMean DEF RangeOK, CappedEnd
<1>5. QED
  BY <1>1, <1>2, <1>3, <1>4
     DEF V2Inv, Grown, Begun, EodsRead, WithdrawalsRead, BlocksRead, Reported, Since, Answered

LEMMA V2ReadsInitial == ASSUME V2Inv, ReadInitial PROVE V2Inv'
<1>1. /\ pc = "initial" /\ UNCHANGED <<tables, req, eods, seen, blocks>>
      /\ ~ Answered /\ answer.kind # "ok"
  BY DEF ReadInitial, V2Inv, Reported, Answered
<1>2. Grown
  BY <1>1, TablesGrow DEF V2Inv
<1>3. /\ InitialSlot' = InitialSlot /\ UNCHANGED <<ledger, balance>>
  BY <1>1 DEF InitialSlot, tables
<1>4. CASE pc' = "done"
  <2>1. answer'.kind = "ok" => ~ Active(ledger)
    BY <1>1, <1>4 DEF ReadInitial, Finish, Error
  <2>2. ~ Answered'
    BY <1>3, <2>1 DEF Answered
  <2>3. QED
    BY <1>1, <1>2, <1>4, <2>2
       DEF V2Inv, Grown, RangeOK, Begun, EodsRead, WithdrawalsRead, BlocksRead, Reported, Since
<1>5. CASE pc' # "done"
  <2>1. /\ pc' = "eods" /\ answer' = answer
        /\ Active(ledger) /\ initial' = InitialSlot /\ InitialSlot \in balance
    BY <1>1, <1>5 DEF ReadInitial, Finish
  <2>2. ~ Answered' /\ answer'.kind # "ok"
    BY <1>1, <1>3, <2>1 DEF Answered
  <2>3. QED
    BY <1>1, <1>2, <1>3, <2>1, <2>2
       DEF V2Inv, Grown, RangeOK, Begun, EodsRead, WithdrawalsRead, BlocksRead, Reported, Since
<1>6. QED
  BY <1>4, <1>5

\* Every day's end of the range is a slot whose balance complete tables hold.
LEMMA EodsStored ==
    ASSUME RangeOK
    PROVE  RangeEods \subseteq {StartSlot(d) : d \in 0 .. Today}
<1>1. ASSUME NEW d \in req.start .. req.end PROVE EodSlot(d) \in {StartSlot(e) : e \in 0 .. Today}
  <2>1. d \in Int /\ d + 1 \in 0 .. Today
    BY SlotsMean DEF RangeOK
  <2>2. EodSlot(d) = StartSlot(d + 1)
    BY <2>1, DaySlots
  <2>3. QED
    BY <2>1, <2>2
<1>2. QED
  BY <1>1 DEF RangeEods

LEMMA V2ReadsEods == ASSUME V2Inv, ReadEods PROVE V2Inv'
<1>1. /\ pc = "eods" /\ pc' = "withdrawals"
      /\ UNCHANGED <<tables, req, initial, seen, blocks, answer>>
      /\ ~ Answered /\ answer.kind # "ok"
      /\ eods' = {s \in balance : s \in RangeEods /\ s >= ledger.activation}
  BY DEF ReadEods, V2Inv, Reported, Answered, RangeEods
<1>2. Grown
  BY <1>1, TablesGrow DEF V2Inv
<1>3. /\ InitialSlot' = InitialSlot /\ UNCHANGED <<ledger, balance>> /\ RangeEods' = RangeEods
      /\ ~ Answered'
  BY <1>1 DEF InitialSlot, tables, RangeEods, Answered
<1>4. req.settled => RangeEods \subseteq balance
  BY EodsStored DEF V2Inv, Settled, BalanceSlots
<1>5. EodsRead'
  BY <1>1, <1>3, <1>4 DEF EodsRead, Since
<1>6. QED
  BY <1>1, <1>2, <1>3, <1>5
     DEF V2Inv, Grown, RangeOK, Begun, WithdrawalsRead, BlocksRead, Reported, Since

LEMMA V2ReadsWithdrawals == ASSUME V2Inv, ReadWithdrawals PROVE V2Inv'
<1>1. /\ pc = "withdrawals" /\ pc' = "rewards"
      /\ UNCHANGED <<tables, req, initial, eods, blocks, answer>>
      /\ ~ Answered /\ answer.kind # "ok"
      /\ seen' = {s \in 0 .. withdrawal : ledger.withdrawn[s] > 0 /\ InRange(s)}
  BY DEF ReadWithdrawals, V2Inv, Reported, Answered
<1>2. Grown
  BY <1>1, TablesGrow DEF V2Inv
<1>3. /\ InitialSlot' = InitialSlot /\ UNCHANGED <<ledger, balance>> /\ RangeEods' = RangeEods
      /\ RangeWithdrawals' = RangeWithdrawals /\ ~ Answered'
  BY <1>1 DEF InitialSlot, tables, RangeEods, Answered, RangeWithdrawals, InRange
<1>4. /\ 0 .. withdrawal \subseteq Slots
      /\ req.settled => 0 .. withdrawal = Slots
  BY SlotsMean DEF V2Inv, Settled, TablesOK
<1>5. WithdrawalsRead'
  BY <1>1, <1>3, <1>4 DEF WithdrawalsRead, RangeWithdrawals, Since
<1>6. QED
  BY <1>1, <1>2, <1>3, <1>5
     DEF V2Inv, Grown, RangeOK, Begun, EodsRead, BlocksRead, Reported, Since

LEMMA V2ReadsRewards == ASSUME V2Inv, ReadRewards PROVE V2Inv'
<1>1. /\ pc = "rewards" /\ UNCHANGED <<tables, req, initial, eods, seen>>
      /\ ~ Answered /\ answer.kind # "ok"
  BY DEF ReadRewards, V2Inv, Reported, Answered
<1>2. Grown
  BY <1>1, TablesGrow DEF V2Inv
<1>3. /\ InitialSlot' = InitialSlot /\ UNCHANGED <<ledger, balance>> /\ RangeEods' = RangeEods
      /\ RangeWithdrawals' = RangeWithdrawals /\ RangeBlocks' = RangeBlocks
  BY <1>1 DEF InitialSlot, tables, RangeEods, RangeWithdrawals, RangeBlocks, InRange, Proposals
<1>4. CASE pc' = "done" /\ answer'.kind = "error"
  BY <1>1, <1>2, <1>4 DEF V2Inv, Grown, RangeOK, Begun, EodsRead, WithdrawalsRead, BlocksRead,
                          Reported, Since, Answered
<1>5. CASE pc' = "walk" /\ answer' = answer /\ blocks' = {s \in reward.stored : InRange(s)}
  <2>1. ~ Answered'
    BY <1>1, <1>5 DEF Answered
  <2>2. req.settled => reward.stored = Proposals
    BY DEF V2Inv, Settled
  <2>3. req.settled => blocks' = RangeBlocks
    BY <1>5, <2>2 DEF RangeBlocks
  <2>4. BlocksRead'
    BY <1>1, <1>3, <2>3 DEF BlocksRead
  <2>5. QED
    BY <1>1, <1>2, <1>3, <1>5, <2>1, <2>4
       DEF V2Inv, Grown, RangeOK, Begun, EodsRead, WithdrawalsRead, Reported, Since
<1>6. QED
  BY <1>4, <1>5 DEF ReadRewards, Finish, Error

LEMMA V2Walks == ASSUME V2Inv, Walk PROVE V2Inv'
<1>1. /\ pc = "walk" /\ pc' = "done" /\ UNCHANGED <<tables, req, initial, eods, seen, blocks>>
  BY DEF Walk, Finish
<1>2. Grown
  BY <1>1, TablesGrow DEF V2Inv
<1>3. /\ InitialSlot' = InitialSlot /\ UNCHANGED <<ledger, balance>> /\ RangeEods' = RangeEods
      /\ RangeWithdrawals' = RangeWithdrawals /\ RangeBlocks' = RangeBlocks
      /\ [e \in eods |-> DayIncome(e)]' = [e \in eods |-> DayIncome(e)]
      /\ \A e : PreviousBalance(e)' = PreviousBalance(e)
      /\ \A a, b : WithdrawnSince(a, b)' = WithdrawnSince(a, b)
  BY <1>1 DEF InitialSlot, tables, RangeEods, RangeWithdrawals, RangeBlocks, InRange, Proposals,
              DayIncome, PreviousBalance, WithdrawnSince, BalanceAt
<1>4. \/ answer'.kind = "error"
      \/ /\ \A e \in eods : \A s \in WithdrawnSince(PreviousBalance(e), e) :
              ~ Rejected(ledger.withdrawn[s])
         /\ answer'.days = [e \in eods |-> DayIncome(e)]
         /\ answer'.paid = {<<DateOf(s), s>> : s \in blocks}
  BY DEF Walk, Finish, Error
<1>5. Begun' /\ EodsRead' /\ WithdrawalsRead' /\ BlocksRead'
  BY <1>1, <1>3 DEF V2Inv, Begun, EodsRead, WithdrawalsRead, BlocksRead, Since
<1>6. Reported'
  BY <1>1, <1>3, <1>4 DEF Reported, Answered
<1>7. QED
  BY <1>1, <1>2, <1>5, <1>6 DEF V2Inv, Grown, RangeOK

-----------------------------------------------------------------------------
(* Days, slots and tables are the same ones for both endpoints. *)

LEMMA V1Sums == ASSUME NEW f, NEW S PROVE V1!SumOver(f, S) = SumOver(f, S)
<1>1. V1!SumOver(f, S) = (CHOOSE g : Iterates(g, f, S))[S]
  BY DEF V1!SumOver, V1!MapThenSumSet, V1!MapThenFoldSet, Iterates, Pick
<1>2. QED
  BY <1>1, SumMeans

LEMMA V1Days ==
    /\ \A d : V1!StartSlot(d) = StartSlot(d) /\ V1!EodSlot(d) = EodSlot(d)
    /\ \A s : V1!DateOf(s) = DateOf(s)
    /\ \A e : V1!CappedEnd(e) = CappedEnd(e)
    /\ \A a, b : V1!Between(a, b) = Between(a, b)
    /\ \A a : V1!UpTo(a) = UpTo(a)
    /\ V1!Slots = Slots /\ V1!NoSlot = NoSlot
    /\ \A S : V1!Max(S) = Max(S) /\ V1!Min(S) = Min(S)
  BY DEF V1!StartSlot, StartSlot, V1!EodSlot, EodSlot, V1!DateOf, DateOf, V1!CappedEnd, CappedEnd,
         V1!Between, Between, V1!UpTo, UpTo, V1!Slots, Slots, V1!NoSlot, NoSlot, V1!Max, Max, V1!Min, Min

LEMMA V1Tables ==
    /\ V1!Active(ledger) = Active(ledger) /\ V1!Settled = Settled /\ V1!tables = tables
    /\ V1!Proposals = Proposals
    /\ \A s : V1!BalanceAt(s) = BalanceAt(s)
<1>1. \A s : V1!BalanceAt(s) = BalanceAt(s)
  BY V1Sums, V1Days DEF V1!BalanceAt, BalanceAt
<1>2. V1!Active(ledger) = Active(ledger) /\ V1!tables = tables /\ V1!Proposals = Proposals
  BY V1Days DEF V1!Active, Active, V1!tables, tables, V1!Proposals, Proposals
<1>3. V1!Settled = Settled
  BY <1>2, V1Days DEF V1!Settled, Settled, V1!BalanceSlots, BalanceSlots
<1>4. QED
  BY <1>1, <1>2, <1>3

-----------------------------------------------------------------------------
(* A request to v1. *)

Going(stages) == pc1 \in stages \/ kind = "ok"

Days1 == req1.start .. req1.end
RangeOK1 == Going({"initial", "eods", "prices", "walk"}) =>
    /\ req1.start \in 0 .. Today /\ req1.end \in -1 .. Today - 1
    /\ req1.start <= req1.end \/ (req1.start = 0 /\ req1.end = -1)

NotYet ==
    /\ pc1 \in {"idle", "initial", "eods"} => balances = {} /\ date_eth_price = {}
    /\ pc1 \in {"idle", "initial", "eods", "prices"} => days = <<>>
    /\ pc1 # "done" => kind = "none" /\ paid = {}

InitialSlot1 ==
    IF ledger.activation > StartSlot(req1.start)
    THEN ledger.activation ELSE StartSlot(req1.start)
InitialBalance1 ==
    IF ledger.activation > StartSlot(req1.start) THEN 32 ELSE BalanceAt(StartSlot(req1.start))
Begun1 ==
    /\ Active(ledger) /\ (Going({"eods", "prices", "walk"}) \/ DOMAIN days # {}) =>
            /\ initial1 = [slot |-> InitialSlot1, balance |-> InitialBalance1]
            /\ InitialSlot1 \in Slots
    /\ pc1 = "walk" \/ DOMAIN days # {} => Active(ledger)

RangeEods1 == {EodSlot(d) : d \in Days1}
EodsRead1 ==
    /\ balances \subseteq RangeEods1 \cap balance
    /\ req1.settled /\ (pc1 \in {"prices", "walk"} \/ V1!Answered) => balances = RangeEods1

Priced1 ==
    /\ date_eth_price \subseteq Days1
    /\ pc1 = "walk" \/ V1!Answered => date_eth_price = Days1

\* The rows walked are the first ones, and each is measured from the one before.
WithdrawnUpTo(upto, p, s) == {t \in 0 .. upto : p <= t /\ t <= s}
DayOK(s) ==
    /\ days[s].upto \in Slots /\ (req1.settled => days[s].upto = StartSlot(Today))
    /\ days[s].income =
          BalanceAt(s) - BalanceAt(V1!LastBalance(s)) + V1!Misjudged(s)
            + SumOver(ledger.withdrawn, WithdrawnUpTo(days[s].upto, V1!LastBalance(s), s))
Walked1 ==
    /\ DOMAIN days \subseteq V1!Walked
    /\ \A s \in DOMAIN days : \A t \in V1!Walked \ DOMAIN days : s < t
    /\ \A s \in DOMAIN days : DayOK(s)
    /\ V1!Answered => DOMAIN days = V1!Walked

RangeBlocks1 ==
    {s \in Proposals : StartSlot(req1.start) <= s /\ s <= EodSlot(req1.end)}
Reported1 ==
    /\ kind = "error" /\ req1.settled /\ req1.start < req1.end =>
          StartSlot(req1.start) \in Proposals
    /\ V1!Answered /\ req1.settled =>
        /\ paid = {<<DateOf(s), s>> : s \in {s \in Proposals : DateOf(s) \in Days1}}
        /\ Days1 # {} => \A s \in RangeBlocks1 : DateOf(s) \in Days1

V1Inv ==
    /\ TablesOK /\ price \subseteq 0 .. Today - 1
    /\ req1.settled => AllSettled
    /\ RangeOK1 /\ NotYet /\ Begun1 /\ EodsRead1 /\ Priced1 /\ Walked1 /\ Reported1

PricesGrow ==
    /\ price \subseteq price' /\ price' \subseteq 0 .. Today - 1

LEMMA V1Stays ==
    ASSUME V1Inv, Grown, PricesGrow, UNCHANGED request1
    PROVE  V1Inv'
<1>1. /\ UNCHANGED <<pc1, req1, initial1, balances, date_eth_price, days, kind, paid, ledger>>
      /\ balance \subseteq balance' /\ TablesOK' /\ (Settled => Settled')
  BY DEF request1, Grown
<1>2. /\ V1!Answered' = V1!Answered /\ Active(ledger)' = Active(ledger) /\ Days1' = Days1
      /\ InitialSlot1' = InitialSlot1 /\ RangeEods1' = RangeEods1 /\ V1!Walked' = V1!Walked
      /\ RangeBlocks1' = RangeBlocks1 /\ Proposals' = Proposals
  BY <1>1 DEF V1!Answered, V1!Active, V1!NoSlot, Active, Days1, InitialSlot1, RangeEods1,
              V1!Walked, Proposals, RangeBlocks1
<1>3. /\ \A s : BalanceAt(s)' = BalanceAt(s) /\ V1!LastBalance(s)' = V1!LastBalance(s)
      /\ \A s : V1!Misjudged(s)' = V1!Misjudged(s) /\ InitialBalance1' = InitialBalance1
  BY <1>1, V1Tables DEF BalanceAt, V1!LastBalance, V1!Misjudged, V1!FirstRow, V1!BalanceAt,
                        InitialBalance1
<1>4. price' \subseteq 0 .. Today - 1 /\ (req1.settled => AllSettled')
  BY <1>1 DEF V1Inv, PricesGrow, AllSettled
<1>5. RangeOK1' /\ NotYet'
  BY <1>1 DEF V1Inv, RangeOK1, NotYet, Going
<1>6. Begun1'
  BY <1>1, <1>2, <1>3 DEF V1Inv, Begun1, Going
<1>7. EodsRead1' /\ Priced1'
  BY <1>1, <1>2 DEF V1Inv, EodsRead1, Priced1
<1>8. \A s : DayOK(s)' <=> DayOK(s)
  BY <1>1, <1>3 DEF DayOK, WithdrawnUpTo
<1>9. Walked1'
  BY <1>1, <1>2, <1>8 DEF V1Inv, Walked1
<1>10. Reported1'
  BY <1>1, <1>2 DEF V1Inv, Reported1
<1>11. QED
  BY <1>1, <1>4, <1>5, <1>6, <1>7, <1>9, <1>10 DEF V1Inv

LEMMA V1Initially == ASSUME TablesInit, V1!RequestInit PROVE V1Inv
<1>1. TablesOK
  BY SlotsMean DEF TablesInit, TablesOK
<1>2. /\ pc1 = "idle" /\ req1.settled = FALSE /\ balances = {} /\ date_eth_price = {}
      /\ days = <<>> /\ DOMAIN days = {} /\ kind = "none" /\ paid = {}
      /\ price \subseteq 0 .. Today - 1 /\ ~ V1!Answered
  BY DEF V1!RequestInit, V1!Answered
<1>3. RangeOK1 /\ NotYet /\ Begun1 /\ EodsRead1 /\ Priced1
  BY <1>2 DEF RangeOK1, NotYet, Begun1, EodsRead1, Priced1, Going
<1>4. Walked1 /\ Reported1
  BY <1>2 DEF Walked1, Reported1
<1>5. QED
  BY <1>1, <1>2, <1>3, <1>4 DEF V1Inv

LEMMA V1Asked ==
    ASSUME V1Inv, NEW start \in -2 .. Today, NEW end \in -1 .. Today + 1,
           V1!Receive(start, end)
    PROVE  V1Inv'
<1>1. /\ pc1 = "idle" /\ UNCHANGED <<tables, price, initial1, balances, date_eth_price, days, paid>>
      /\ req1'.start = (IF start < 0 THEN 0 ELSE start) /\ req1'.end = CappedEnd(end)
      /\ req1'.settled => AllSettled
      /\ IF start >= CappedEnd(end) THEN pc1' = "done" /\ kind' = "error"
         ELSE pc1' = "initial" /\ kind' = kind
  BY V1Days, V1Tables DEF V1!Receive, AllSettled, V1!Finish, tables, V1!tables
<1>2. Grown /\ AllSettled' = AllSettled
  BY <1>1, TablesGrow DEF V1Inv, AllSettled, tables, Settled, BalanceSlots, Proposals, Active
<1>3. /\ balances' = {} /\ date_eth_price' = {} /\ days' = <<>> /\ DOMAIN days' = {}
      /\ kind = "none" /\ paid' = {} /\ kind' # "ok" /\ ~ V1!Answered'
  BY <1>1 DEF V1Inv, NotYet, V1!Answered
<1>4. CappedEnd(end) \in -1 .. Today - 1
  BY SlotsMean DEF CappedEnd
<1>5. CASE start >= CappedEnd(end)
  <2>1. ~ (req1'.start < req1'.end)
    BY <1>1, <1>4, <1>5
  <2>2. QED
    BY <1>1, <1>2, <1>3, <1>5, <2>1
       DEF V1Inv, Grown, RangeOK1, NotYet, Begun1, EodsRead1, Priced1, Walked1, Reported1, Going
<1>6. CASE ~ (start >= CappedEnd(end))
  <2>1. /\ req1'.start \in 0 .. Today /\ req1'.end \in -1 .. Today - 1
        /\ req1'.start <= req1'.end \/ (req1'.start = 0 /\ req1'.end = -1)
    BY <1>1, <1>4, <1>6, SlotsMean
  <2>2. QED
    BY <1>1, <1>2, <1>3, <1>6, <2>1
       DEF V1Inv, Grown, RangeOK1, NotYet, Begun1, EodsRead1, Priced1, Walked1, Reported1, Going
<1>7. QED
  BY <1>5, <1>6

LEMMA ActivationIsSlot ==
    ASSUME ledger \in Ledgers, Active(ledger)
    PROVE  ledger.activation \in Slots
  BY LedgerMeans DEF Active

LEMMA StartsAreSlots == \A d \in 0 .. Today : StartSlot(d) \in Slots
<1>1. ASSUME NEW d \in 0 .. Today PROVE StartSlot(d) \in Slots
  <2>1. StartSlot(d) \in Nat /\ d <= Today
    BY SlotsMean DEF StartSlot
  <2>2. d < Today => StartSlot(d) <= StartSlot(Today)
    BY <2>1, SlotsMean, DaySlots
  <2>3. QED
    BY <2>1, <2>2, SlotsMean
<1>2. QED
  BY <1>1

\* The actions of v1 that read leave the tables and the prices alone.
LEMMA V1Reads ==
    ASSUME V1Inv, UNCHANGED <<tables, price, req1>>
    PROVE  /\ TablesOK' /\ price' \subseteq 0 .. Today - 1 /\ (req1'.settled => AllSettled')
           /\ UNCHANGED <<ledger, balance>> /\ Active(ledger)' = Active(ledger)
           /\ Days1' = Days1 /\ RangeEods1' = RangeEods1 /\ InitialSlot1' = InitialSlot1
           /\ Proposals' = Proposals /\ RangeBlocks1' = RangeBlocks1
           /\ \A s : BalanceAt(s)' = BalanceAt(s)
           /\ InitialBalance1' = InitialBalance1
<1>1. Grown
  BY TablesGrow DEF V1Inv
<1>2. AllSettled' = AllSettled
  BY DEF AllSettled, tables, Settled, BalanceSlots, Proposals, Active
<1>3. QED
  BY <1>1, <1>2 DEF V1Inv, Grown, tables, Active, Days1, RangeEods1, InitialSlot1, Proposals,
                    RangeBlocks1, BalanceAt, InitialBalance1

LEMMA V1ReadsInitial == ASSUME V1Inv, V1!ReadInitial PROVE V1Inv'
<1>1. /\ pc1 = "initial"
      /\ UNCHANGED <<tables, price, req1, balances, date_eth_price, days, paid>>
  BY V1Tables DEF V1!ReadInitial, tables, V1!tables
<1>2. /\ balances' = {} /\ date_eth_price' = {} /\ days' = <<>> /\ DOMAIN days' = {}
      /\ kind = "none" /\ paid = {} /\ paid' = {}
  BY <1>1 DEF V1Inv, NotYet
<1>3. CASE pc1' = "done" /\ kind' = "error"
  <2>1. ~ (req1.settled /\ req1.start < req1.end)
    <3>1. StartSlot(req1.start) \notin balance
      BY <1>2, <1>3, V1Days DEF V1!ReadInitial, V1!Finish
    <3>2. req1.start \in 0 .. Today
      BY <1>1 DEF V1Inv, RangeOK1, Going
    <3>3. QED
      BY <3>1, <3>2 DEF V1Inv, AllSettled, Settled, BalanceSlots
  <2>2. ~ V1!Answered'
    BY <1>3 DEF V1!Answered
  <2>3. QED
    BY <1>1, <1>2, <1>3, <2>1, <2>2, V1Reads
       DEF V1Inv, RangeOK1, NotYet, Begun1, EodsRead1, Priced1, Walked1, Reported1, Going
<1>4. CASE pc1' = "eods" /\ kind' = kind
  <2>1. ~ V1!Answered'
    BY <1>2, <1>4 DEF V1!Answered
  <2>2. RangeOK1' /\ req1.start \in 0 .. Today
    BY <1>1, <1>4 DEF V1Inv, RangeOK1, Going
  <2>3. Begun1'
    <3>1. SUFFICES ASSUME Active(ledger)
          PROVE /\ initial1' = [slot |-> InitialSlot1, balance |-> InitialBalance1]
                /\ InitialSlot1 \in Slots
      BY <1>1, <1>2, <1>4, V1Reads DEF Begun1
    <3>2. ledger \in Ledgers /\ ledger.activation \in Slots
      BY <3>1, ActivationIsSlot DEF V1Inv, TablesOK
    <3>3. StartSlot(req1.start) \in Slots
      BY <2>2, StartsAreSlots
    <3>4. \/ ledger.activation > StartSlot(req1.start)
                /\ initial1' = [slot |-> ledger.activation, balance |-> 32]
          \/ /\ ~ (ledger.activation > StartSlot(req1.start))
             /\ initial1' = [slot |-> StartSlot(req1.start),
                             balance |-> BalanceAt(StartSlot(req1.start))]
      <4>1. /\ V1!Active(ledger) /\ V1!StartSlot(req1.start) = StartSlot(req1.start)
            /\ V1!BalanceAt(StartSlot(req1.start)) = BalanceAt(StartSlot(req1.start))
        BY <3>1, V1Days, V1Tables
      <4>2. ledger.activation \in Int /\ StartSlot(req1.start) \in Int
        BY <3>2, <3>3, SlotsMean
      <4>3. QED
        BY <1>4, <4>1, <4>2 DEF V1!ReadInitial, V1!Finish
    <3>5. QED
      BY <3>2, <3>3, <3>4 DEF InitialSlot1, InitialBalance1
  <2>4. QED
    BY <1>1, <1>2, <1>4, <2>1, <2>2, <2>3, V1Reads
       DEF V1Inv, NotYet, EodsRead1, Priced1, Walked1, Reported1
<1>5. QED
  BY <1>3, <1>4 DEF V1!ReadInitial, V1!Finish

LEMMA Eods1Stored ==
    ASSUME RangeOK1, Going({"eods"})
    PROVE  RangeEods1 \subseteq {StartSlot(d) : d \in 0 .. Today}
<1>1. ASSUME NEW d \in Days1 PROVE EodSlot(d) \in {StartSlot(e) : e \in 0 .. Today}
  <2>1. d \in Int /\ d + 1 \in 0 .. Today
    BY SlotsMean DEF RangeOK1, Days1, Going
  <2>2. EodSlot(d) = StartSlot(d + 1)
    BY <2>1, DaySlots
  <2>3. QED
    BY <2>1, <2>2
<1>2. QED
  BY <1>1 DEF RangeEods1

LEMMA V1ReadsEods == ASSUME V1Inv, V1!ReadEods PROVE V1Inv'
<1>1. /\ pc1 = "eods"
      /\ UNCHANGED <<tables, price, req1, initial1, date_eth_price, days, paid>>
      /\ V1!Requested = Days1
  BY V1Tables DEF V1!ReadEods, tables, V1!tables, V1!Requested, Days1
<1>2. /\ balances = {} /\ date_eth_price' = {} /\ days' = <<>> /\ DOMAIN days' = {}
      /\ kind = "none" /\ paid' = {}
  BY <1>1 DEF V1Inv, NotYet
<1>3. RangeOK1' /\ Begun1'
  <2>1. pc1' = "prices" \/ (pc1' = "done" /\ kind' = "ok")
    BY DEF V1!ReadEods, V1!Finish
  <2>2. QED
    BY <1>1, <1>2, <2>1, V1Reads DEF V1Inv, RangeOK1, Begun1, Going
<1>4. CASE Days1 = {} /\ pc1' = "done" /\ kind' = "ok" /\ balances' = {}
  <2>1. V1!Walked' = {} /\ RangeEods1 = {}
    BY <1>4 DEF V1!Walked, RangeEods1
  <2>2. QED
    BY <1>1, <1>2, <1>3, <1>4, <2>1, V1Reads
       DEF V1Inv, NotYet, EodsRead1, Priced1, Walked1, Reported1
<1>5. CASE /\ pc1' = "prices" /\ kind' = kind
           /\ balances' = {s \in balance : s \in RangeEods1}
  <2>1. ~ V1!Answered'
    BY <1>2, <1>5 DEF V1!Answered
  <2>2. req1.settled => RangeEods1 \subseteq balance
    BY <1>1, Eods1Stored DEF V1Inv, AllSettled, Settled, BalanceSlots, RangeOK1, Going
  <2>3. QED
    BY <1>1, <1>2, <1>3, <1>5, <2>1, <2>2, V1Reads
       DEF V1Inv, NotYet, EodsRead1, Priced1, Walked1, Reported1
<1>6. QED
  <2>1. \A d : V1!EodSlot(d) = EodSlot(d)
    BY V1Days
  <2>2. {V1!EodSlot(d) : d \in Days1} = RangeEods1
    BY <2>1 DEF RangeEods1
  <2>3. QED
    BY <1>1, <1>2, <1>4, <1>5, <2>2 DEF V1!ReadEods, V1!Finish

LEMMA V1ReadsPrice == ASSUME V1Inv, V1!ReadPrice PROVE V1Inv'
<1>1. /\ pc1 = "prices"
      /\ UNCHANGED <<tables, price, req1, initial1, balances, days, paid>>
      /\ V1!Requested = Days1
  BY V1Tables DEF V1!ReadPrice, tables, V1!tables, V1!Requested, Days1
<1>2. days = <<>> /\ DOMAIN days = {} /\ kind = "none" /\ paid = {}
  BY <1>1 DEF V1Inv, NotYet
<1>3. CASE pc1' = "done" /\ kind' = "error" /\ date_eth_price' = date_eth_price
  <2>1. ~ req1.settled
    <3>1. Days1 \ date_eth_price # {} /\ Min(Days1 \ date_eth_price) \notin price
      BY <1>1, <1>2, <1>3, V1Days DEF V1!ReadPrice, V1!Finish
    <3>2. /\ Days1 \subseteq 0 .. Today - 1 /\ Days1 \subseteq Int
          /\ req1.start \in Int /\ req1.end \in Int
      BY <1>1, SlotsMean DEF V1Inv, RangeOK1, Going, Days1
    <3>3. IsFiniteSet(Days1)
      BY <3>2, FS_Interval DEF Days1
    <3>4. IsFiniteSet(Days1 \ date_eth_price)
      BY <3>3, FS_Subset
    <3>5. Min(Days1 \ date_eth_price) \in Days1
      BY <3>1, <3>2, <3>4, MaxMin
    <3>6. QED
      BY <3>1, <3>2, <3>5 DEF V1Inv, AllSettled
  <2>2. ~ V1!Answered'
    BY <1>3 DEF V1!Answered
  <2>3. QED
    BY <1>1, <1>2, <1>3, <2>1, <2>2, V1Reads
       DEF V1Inv, RangeOK1, NotYet, Begun1, EodsRead1, Priced1, Walked1, Reported1, Going
<1>4. CASE /\ pc1' = "prices" /\ kind' = kind
           /\ date_eth_price' = date_eth_price \cup {Min(Days1 \ date_eth_price)}
           /\ Days1 \ date_eth_price # {}
  <2>1. Min(Days1 \ date_eth_price) \in Days1
    <3>1. req1.start \in Int /\ req1.end \in Int /\ Days1 \subseteq Int
      BY <1>1 DEF V1Inv, RangeOK1, Going, Days1
    <3>2. IsFiniteSet(Days1)
      BY <3>1, FS_Interval DEF Days1
    <3>3. IsFiniteSet(Days1 \ date_eth_price)
      BY <3>2, FS_Subset
    <3>4. QED
      BY <1>4, <3>1, <3>3, MaxMin
  <2>2. ~ V1!Answered'
    BY <1>2, <1>4 DEF V1!Answered
  <2>3. QED
    BY <1>1, <1>2, <1>4, <2>1, <2>2, V1Reads
       DEF V1Inv, RangeOK1, NotYet, Begun1, EodsRead1, Priced1, Walked1, Reported1, Going
<1>5. CASE /\ date_eth_price' = date_eth_price /\ Days1 \subseteq date_eth_price
           /\ IF Active(ledger) THEN pc1' = "walk" /\ kind' = kind
              ELSE pc1' = "done" /\ kind' = "ok"
  <2>1. date_eth_price' = Days1
    BY <1>5 DEF V1Inv, Priced1
  <2>2. ~ V1!Answered'
    BY <1>1, <1>2, <1>5, V1Reads DEF V1!Answered, V1!Active, Active, V1!NoSlot, NoSlot
  <2>3. QED
    BY <1>1, <1>2, <1>5, <2>1, <2>2, V1Reads
       DEF V1Inv, RangeOK1, NotYet, Begun1, EodsRead1, Priced1, Walked1, Reported1, Going
<1>6. QED
  BY <1>1, <1>3, <1>4, <1>5, V1Days, V1Tables DEF V1!ReadPrice, V1!Finish

LEMMA Eods1AreSlots ==
    ASSUME V1Inv, pc1 = "walk" \/ DOMAIN days # {}
    PROVE  /\ Active(ledger) /\ ledger \in Ledgers
           /\ initial1 = [slot |-> InitialSlot1, balance |-> InitialBalance1]
           /\ initial1.slot \in Slots
           /\ V1!Walked \subseteq Slots /\ IsFiniteSet(V1!Walked) /\ DOMAIN days \subseteq V1!Walked
<1>1. Active(ledger) /\ ledger \in Ledgers /\ DOMAIN days \subseteq V1!Walked
  BY DEF V1Inv, TablesOK, Begun1, Walked1
<1>2. /\ initial1 = [slot |-> InitialSlot1, balance |-> InitialBalance1]
      /\ initial1.slot \in Slots
  BY <1>1 DEF V1Inv, Begun1, Going
<1>3. BalanceSlots \subseteq Slots
  BY <1>1, StartsAreSlots, ActivationIsSlot DEF BalanceSlots
<1>4. V1!Walked \subseteq Slots
  BY <1>3 DEF V1Inv, TablesOK, EodsRead1, V1!Walked
<1>5. IsFiniteSet(V1!Walked)
  <2>1. IsFiniteSet(Slots)
    BY SlotsMean, FS_Interval
  <2>2. QED
    BY <1>4, <2>1, FS_Subset
<1>6. QED
  BY <1>1, <1>2, <1>4, <1>5

\* The balance a walked row is measured from, and by how much the first is off.
LEMMA LastIsPrevious ==
    ASSUME V1Inv, pc1 = "walk", NEW s \in V1!Walked, \A t \in DOMAIN days : t < s
    PROVE  /\ V1!PreviousBalance(s).slot = V1!LastBalance(s)
           /\ BalanceAt(V1!LastBalance(s)) \in Int /\ V1!Misjudged(s) \in Int
           /\ V1!PreviousBalance(s).balance = BalanceAt(V1!LastBalance(s)) - V1!Misjudged(s)
<1> DEFINE before == {t \in DOMAIN days : t < s}
           i == initial1.slot
<1>1. /\ i \in Slots /\ i \in Int /\ before \subseteq Int /\ before \subseteq Slots
      /\ s \in Int /\ \A t \in before : i <= t
  <2>1. \A t \in Slots : t \in Int
    BY SlotsMean
  <2>2. \A t \in V1!Walked : t >= i
    BY DEF V1!Walked
  <2>3. QED
    BY <2>1, <2>2, Eods1AreSlots
<1>2. IsFiniteSet(before) /\ IsFiniteSet({i} \cup before)
  <2>1. IsFiniteSet(before)
    BY Eods1AreSlots, FS_Subset
  <2>2. QED
    BY <2>1, FS_AddElement
<1>3. V1!LastBalance(s) = Max({i} \cup before)
  BY V1Days DEF V1!LastBalance
<1>4. V1!PreviousBalance(s) = IF before = {} THEN initial1
                              ELSE [slot |-> Max(before), balance |-> BalanceAt(Max(before))]
  BY V1Days, V1Tables DEF V1!PreviousBalance
<1>5. V1!Misjudged(s) = IF before = {} /\ ledger.activation > StartSlot(req1.start)
                        THEN BalanceAt(ledger.activation) - 32 ELSE 0
  <2>1. V1!FirstRow(s) <=> before = {}
    BY <1>1 DEF V1!FirstRow
  <2>2. QED
    BY <2>1, V1Days, V1Tables DEF V1!Misjudged
<1>6. \A t \in Slots : BalanceAt(t) \in Int
  <2>1. ledger \in Ledgers /\ \A t \in Slots : t <= t
    BY SlotsMean DEF V1Inv, TablesOK
  <2>2. QED
    BY <2>1, ChangeMeans
<1>7. /\ initial1.balance = InitialBalance1 /\ i = InitialSlot1
      /\ ledger.activation \in Slots
  <2>1. initial1 = [slot |-> InitialSlot1, balance |-> InitialBalance1]
    BY Eods1AreSlots
  <2>2. ledger.activation \in Slots
    BY Eods1AreSlots, ActivationIsSlot
  <2>3. QED
    BY <2>1, <2>2
<1> HIDE DEF before, i
<1>8. CASE before = {}
  <2>1. Max({i} \cup before) = i
    BY <1>1, <1>2, <1>8, MaxMin
  <2>2. /\ BalanceAt(i) \in Int /\ BalanceAt(ledger.activation) \in Int
        /\ ledger.activation > StartSlot(req1.start) => i = ledger.activation
        /\ ~ (ledger.activation > StartSlot(req1.start)) => i = StartSlot(req1.start)
    BY <1>1, <1>6, <1>7 DEF InitialSlot1
  <2>3. /\ V1!LastBalance(s) = i /\ V1!PreviousBalance(s) = initial1
        /\ V1!PreviousBalance(s).slot = i
        /\ V1!PreviousBalance(s).balance = InitialBalance1
    BY <1>3, <1>4, <1>7, <1>8, <2>1 DEF i
  <2>4. InitialBalance1 = BalanceAt(i) - V1!Misjudged(s) /\ V1!Misjudged(s) \in Int
    BY <1>5, <1>8, <2>2 DEF InitialBalance1
  <2>5. QED
    BY <2>2, <2>3, <2>4
<1>9. CASE before # {}
  <2>1. Max(before) \in before /\ \A t \in before : t <= Max(before)
    BY <1>1, <1>2, <1>9, MaxMin
  <2>2. /\ Max({i} \cup before) \in {i} \cup before
        /\ \A t \in {i} \cup before : t <= Max({i} \cup before)
    BY <1>1, <1>2, MaxMin
  <2>3. Max({i} \cup before) = Max(before)
    <3> DEFINE m == Max(before)
               n == Max({i} \cup before)
    <3>1. m \in Int /\ n \in Int /\ i <= m /\ m <= n
      BY <1>1, <2>1, <2>2
    <3>2. n = i \/ n <= m
      BY <2>1, <2>2
    <3> HIDE DEF m, n
    <3>3. m = n
      BY <1>1, <3>1, <3>2
    <3>4. QED
      BY <3>3 DEF m, n
  <2>4. V1!Misjudged(s) = 0 /\ BalanceAt(Max(before)) \in Int
    BY <1>1, <1>5, <1>6, <1>9, <2>1
  <2>5. QED
    BY <1>3, <1>4, <1>9, <2>3, <2>4
<1>10. QED
  BY <1>8, <1>9

LEMMA V1WalksDay == ASSUME V1Inv, V1!WalkDay PROVE V1Inv'
<1>1. /\ pc1 = "walk" /\ V1!Walked \ DOMAIN days # {}
      /\ UNCHANGED <<tables, price, pc1, req1, initial1, balances, date_eth_price, kind, paid>>
      /\ kind = "none" /\ ~ V1!Answered' /\ ~ V1!Answered
  BY V1Tables DEF V1!WalkDay, tables, V1!tables, V1Inv, NotYet, V1!Answered
<1>2. PICK slot \in V1!Walked \ DOMAIN days :
        slot = Min(V1!Walked \ DOMAIN days) /\ \A t \in V1!Walked \ DOMAIN days : slot <= t
  <2>1. V1!Walked \ DOMAIN days \subseteq Int
    BY <1>1, Eods1AreSlots, SlotsMean
  <2>2. IsFiniteSet(V1!Walked \ DOMAIN days)
    BY <1>1, Eods1AreSlots, FS_Subset
  <2>3. QED
    BY <1>1, <2>1, <2>2, MaxMin
<1> DEFINE prev == V1!LastBalance(slot)
<1>0. \A s \in DOMAIN days : s < slot /\ s \in V1!Walked
  BY <1>2, Eods1AreSlots DEF V1Inv, Walked1
<1>3. days' = [s \in DOMAIN days \cup {slot} |->
                 IF s = slot
                 THEN [income |-> BalanceAt(slot) - BalanceAt(prev) + V1!Misjudged(slot)
                         + SumOver(ledger.withdrawn, WithdrawnUpTo(withdrawal, prev, slot)),
                       upto |-> withdrawal]
                 ELSE days[s]]
  <2>1. V1!Min(V1!Walked \ DOMAIN days) = slot /\ V1!BalanceAt(slot) = BalanceAt(slot)
    BY <1>2, V1Days, V1Tables
  <2>2. /\ V1!PreviousBalance(slot).slot = prev
        /\ BalanceAt(prev) \in Int /\ V1!Misjudged(slot) \in Int
        /\ V1!PreviousBalance(slot).balance = BalanceAt(prev) - V1!Misjudged(slot)
    BY <1>0, <1>1, <1>2, LastIsPrevious
  <2>3. V1!SumOver(ledger.withdrawn, V1!WithdrawnThisDay(prev, slot))
          = SumOver(ledger.withdrawn, WithdrawnUpTo(withdrawal, prev, slot))
    BY V1Sums DEF V1!WithdrawnThisDay, WithdrawnUpTo
  <2>4. /\ BalanceAt(slot) \in Int
        /\ SumOver(ledger.withdrawn, WithdrawnUpTo(withdrawal, prev, slot)) \in Int
    <3>1. ledger \in Ledgers /\ slot \in Slots /\ slot <= slot
      BY <1>1, <1>2, Eods1AreSlots, SlotsMean
    <3>2. WithdrawnUpTo(withdrawal, prev, slot) \subseteq Slots /\ IsFiniteSet(Slots)
      BY SlotsMean, FS_Interval DEF WithdrawnUpTo, V1Inv, TablesOK
    <3>3. IsFiniteSet(WithdrawnUpTo(withdrawal, prev, slot))
      BY <3>2, FS_Subset
    <3>4. \A t \in WithdrawnUpTo(withdrawal, prev, slot) : ledger.withdrawn[t] \in Int
      BY <3>1, <3>2, LedgerMeans
    <3>5. QED
      BY <3>1, <3>3, <3>4, ChangeMeans, SumTake
  <2> DEFINE b == V1!PreviousBalance(slot).balance
             m == V1!Misjudged(slot)
             sum == SumOver(ledger.withdrawn, WithdrawnUpTo(withdrawal, prev, slot))
  <2>5. days' = [s \in DOMAIN days \cup {slot} |->
                   IF s = slot THEN [income |-> BalanceAt(slot) - b + sum, upto |-> withdrawal]
                   ELSE days[s]]
    <3> HIDE DEF prev, b
    <3>1. QED
      BY <1>2, <2>1, <2>2, <2>3 DEF V1!WalkDay, b
  <2>6. BalanceAt(slot) - b + sum = BalanceAt(slot) - BalanceAt(prev) + m + sum
    <3> HIDE DEF prev, b, m, sum
    <3>1. BalanceAt(prev) \in Int /\ m \in Int /\ b = BalanceAt(prev) - m
          /\ BalanceAt(slot) \in Int /\ sum \in Int
      BY <2>2, <2>4 DEF b, m, sum
    <3>2. QED
      BY <3>1
  <2> HIDE DEF prev, b
  <2>7. QED
    BY <2>5, <2>6
<1>4. V1!Walked' = V1!Walked /\ DOMAIN days' = DOMAIN days \cup {slot}
  BY <1>1, <1>3 DEF V1!Walked
<1>5. \A s \in DOMAIN days' : V1!Misjudged(s)' = V1!Misjudged(s)
  <2>1. slot <= slot /\ \A s \in DOMAIN days : s <= slot
    <3>1. slot \in Int /\ \A s \in DOMAIN days : s \in Int
      BY <1>0, <1>1, <1>2, Eods1AreSlots, SlotsMean
    <3>2. QED
      BY <1>0, <3>1
  <2>2. \A s \in DOMAIN days' : V1!FirstRow(s)' <=> V1!FirstRow(s)
    BY <1>4, <2>1 DEF V1!FirstRow
  <2>3. \A s : BalanceAt(s)' = BalanceAt(s)
    BY <1>1, V1Reads
  <2>4. V1!BalanceAt(ledger.activation)' = V1!BalanceAt(ledger.activation)
    BY <1>1 DEF V1!BalanceAt, V1!tables, tables
  <2>5. QED
    BY <1>1, <2>2, <2>4 DEF V1!Misjudged, tables
<1>6. \A s \in DOMAIN days' : V1!LastBalance(s)' = V1!LastBalance(s)
  <2>1. ~ (slot < slot) /\ \A s \in DOMAIN days : ~ (slot < s)
    BY <1>0, <1>1, Eods1AreSlots, SlotsMean
  <2>2. \A s \in DOMAIN days' : {t \in DOMAIN days' : t < s} = {t \in DOMAIN days : t < s}
    BY <1>4, <2>1
  <2>3. QED
    BY <1>1, <2>2 DEF V1!LastBalance
<1>7. \A s \in DOMAIN days : DayOK(s)'
  <2>1. \A s \in DOMAIN days : days'[s] = days[s]
    BY <1>2, <1>3
  <2>2. QED
    BY <1>1, <1>4, <1>5, <1>6, <2>1, V1Reads DEF V1Inv, Walked1, DayOK, WithdrawnUpTo
<1>8. DayOK(slot)'
  <2>1. withdrawal \in Slots /\ (req1.settled => withdrawal = StartSlot(Today))
    BY DEF V1Inv, TablesOK, AllSettled, Settled
  <2>2. /\ days'[slot].upto = withdrawal
        /\ days'[slot].income = BalanceAt(slot) - BalanceAt(prev) + V1!Misjudged(slot)
               + SumOver(ledger.withdrawn, WithdrawnUpTo(withdrawal, prev, slot))
    BY <1>3
  <2>3. V1!LastBalance(slot)' = prev /\ V1!Misjudged(slot)' = V1!Misjudged(slot)
    BY <1>4, <1>5, <1>6
  <2>4. QED
    BY <1>1, <2>1, <2>2, <2>3, V1Reads DEF DayOK, WithdrawnUpTo
<1>9. Walked1'
  <2>1. ASSUME NEW s \in DOMAIN days', NEW t \in V1!Walked' \ DOMAIN days' PROVE s < t
    <3>1. t \in V1!Walked \ DOMAIN days /\ t # slot /\ slot <= t
      BY <1>2, <1>4, <2>1
    <3>2. t \in Int /\ slot \in Int
      BY <1>1, <3>1, Eods1AreSlots, SlotsMean
    <3>3. s = slot \/ s \in DOMAIN days
      BY <1>4, <2>1
    <3>4. QED
      BY <3>1, <3>2, <3>3 DEF V1Inv, Walked1
  <2>2. QED
    BY <1>0, <1>1, <1>2, <1>4, <1>7, <1>8, <2>1 DEF Walked1
<1>10. Begun1'
  BY <1>1, V1Reads DEF V1Inv, Begun1, Going
<1>11. QED
  BY <1>1, <1>9, <1>10, V1Reads
     DEF V1Inv, RangeOK1, NotYet, EodsRead1, Priced1, Reported1, Going

LEMMA V1ReadsRewards == ASSUME V1Inv, V1!ReadRewards PROVE V1Inv'
<1> DEFINE rows == {s \in reward.stored :
                      StartSlot(req1.start) <= s /\ s <= EodSlot(req1.end)}
<1>1. /\ pc1 = "walk" /\ V1!Walked \subseteq DOMAIN days
      /\ UNCHANGED <<tables, price, req1, initial1, balances, date_eth_price, days>>
  BY V1Tables DEF V1!ReadRewards, tables, V1!tables
<1>2. /\ kind = "none" /\ paid = {} /\ ~ V1!Answered /\ Active(ledger)
      /\ date_eth_price = Days1 /\ DOMAIN days = V1!Walked
      /\ req1.settled => balances = RangeEods1
  BY <1>1 DEF V1Inv, NotYet, V1!Answered, Begun1, Priced1, Walked1, EodsRead1
<1>3. /\ V1!Walked' = V1!Walked
      /\ \A s : /\ V1!LastBalance(s)' = V1!LastBalance(s)
                /\ V1!Misjudged(s)' = V1!Misjudged(s)
      /\ req1.start \in Int /\ req1.end \in Int /\ req1.start <= req1.end + 1
  BY <1>1 DEF V1!Walked, V1!LastBalance, V1!Misjudged, V1!FirstRow, V1!BalanceAt, tables,
              V1Inv, RangeOK1, Going
<1>4. \A s : DayOK(s)' <=> DayOK(s)
  <2>1. /\ \A s : BalanceAt(s)' = BalanceAt(s)
        /\ UNCHANGED <<ledger, days, req1>>
    BY <1>1, V1Reads
  <2>2. \A s : /\ V1!LastBalance(s)' = V1!LastBalance(s)
              /\ V1!Misjudged(s)' = V1!Misjudged(s)
    BY <1>3
  <2>3. QED
    BY <2>1, <2>2 DEF DayOK, WithdrawnUpTo
<1>5. req1.settled => rows = RangeBlocks1 /\ reward.failed = {}
  BY DEF V1Inv, AllSettled, Settled, RangeBlocks1
<1>6. \A s \in Proposals : s \in RangeBlocks1
                              <=> DateOf(s) \in Days1 \/ s = StartSlot(req1.start)
  BY <1>3, RangeIsDays DEF RangeBlocks1, Proposals, Days1
<1>7. \/ /\ pc1' = "done" /\ kind' = "error" /\ paid' = paid
         /\ rows \cap reward.failed # {} \/ \E s \in rows : DateOf(s) \notin Days1
      \/ /\ pc1' = "done" /\ kind' = "ok" /\ paid' = {<<DateOf(s), s>> : s \in rows}
         /\ \A s \in rows : DateOf(s) \in Days1
  <2>1. /\ V1!StartSlot(req1.start) = StartSlot(req1.start)
        /\ V1!EodSlot(req1.end) = EodSlot(req1.end) /\ \A s : V1!DateOf(s) = DateOf(s)
    BY V1Days
  <2>2. {<<V1!DateOf(s), s>> : s \in rows} = {<<DateOf(s), s>> : s \in rows}
    BY <2>1
  <2>3. QED
    BY <1>2, <2>1, <2>2 DEF V1!ReadRewards, V1!Finish
<1> HIDE DEF rows
<1>8. Begun1' /\ RangeOK1'
  BY <1>1, <1>2, <1>7, V1Reads DEF V1Inv, RangeOK1, Begun1, Going
<1>9. Walked1' /\ EodsRead1' /\ Priced1'
  BY <1>1, <1>2, <1>3, <1>4, V1Reads DEF V1Inv, Walked1, EodsRead1, Priced1
<1>10. Reported1'
  <2>1. CASE kind' = "error"
    <3>1. req1.settled => StartSlot(req1.start) \in Proposals
      BY <1>5, <1>6, <1>7, <2>1 DEF RangeBlocks1
    <3>2. QED
      BY <1>1, <2>1, <3>1, V1Reads DEF Reported1, V1!Answered
  <2>2. CASE kind' = "ok"
    <3>1. \A s \in rows : DateOf(s) \in Days1
      BY <1>7, <2>2
    <3>2. req1.settled => rows = {s \in Proposals : DateOf(s) \in Days1}
      BY <1>5, <1>6, <3>1 DEF RangeBlocks1
    <3>3. QED
      BY <1>1, <1>5, <1>7, <2>2, <3>1, <3>2, V1Reads DEF Reported1
  <2>3. QED
    BY <1>7, <2>1, <2>2
<1>11. QED
  BY <1>1, <1>2, <1>7, <1>8, <1>9, <1>10, V1Reads DEF V1Inv, NotYet

-----------------------------------------------------------------------------
(* Both requests together. *)

LEMMA AnyStep == ASSUME V2Inv, V1Inv, [Next]_vars PROVE V2Inv' /\ V1Inv'
<1>1. CASE UNCHANGED <<tables, price, request1>> /\ V2Inv'
  <2>1. Grown /\ PricesGrow
    BY <1>1, TablesGrow DEF V1Inv, PricesGrow
  <2>2. QED
    BY <1>1, <2>1, V1Stays
<1>2. CASE UNCHANGED <<tables, request>> /\ V1Inv'
  <2>1. Grown
    BY <1>2, TablesGrow DEF V2Inv
  <2>2. QED
    BY <1>2, <2>1, V2Stays
<1>3. ASSUME NEW start \in 0 .. Today + 1, NEW end \in 0 .. Today + 1,
             NEW expected, ReceiveV2(start, end, expected)
      PROVE  V2Inv' /\ V1Inv'
  <2>1. /\ start \in 0 .. Today /\ Receive(start, end, expected)
        /\ UNCHANGED <<tables, price, request1>>
    BY <1>3, SlotsMean DEF ReceiveV2, Receive
  <2>2. QED
    BY <1>1, <2>1, V2Asked
<1>4. CASE Handle /\ UNCHANGED <<price, request1>>
  <2>1. UNCHANGED tables
    BY <1>4 DEF Handle, ReadInitial, ReadEods, ReadWithdrawals, ReadRewards, Walk
  <2>2. QED
    BY <1>1, <1>4, <2>1, V2ReadsInitial, V2ReadsEods, V2ReadsWithdrawals, V2ReadsRewards,
       V2Walks DEF Handle
<1>5. ASSUME NEW start \in -2 .. Today, NEW end \in -1 .. Today + 1, ReceiveV1(start, end)
      PROVE  V2Inv' /\ V1Inv'
  <2>1. V1!Receive(start, end) /\ UNCHANGED <<tables, request>>
    BY <1>5, V1Tables DEF ReceiveV1, V1!Receive, tables, V1!tables
  <2>2. QED
    BY <1>2, <2>1, V1Asked
<1>6. CASE V1!Handle /\ UNCHANGED request
  <2>1. UNCHANGED tables
    BY <1>6 DEF V1!Handle, V1!ReadInitial, V1!ReadEods, V1!ReadPrice, V1!WalkDay, V1!ReadRewards,
                tables, V1!tables
  <2>2. QED
    BY <1>2, <1>6, <2>1, V1ReadsInitial, V1ReadsEods, V1ReadsPrice, V1WalksDay, V1ReadsRewards
       DEF V1!Handle
<1>7. CASE Write
  <2>1. UNCHANGED <<request, request1>>
    BY <1>7 DEF Write
  <2>2. CASE Index /\ UNCHANGED price
    <3>1. Grown /\ PricesGrow
      BY <2>2, TablesGrow DEF V1Inv, PricesGrow
    <3>2. QED
      BY <2>1, <3>1, V1Stays, V2Stays
  <2>3. ASSUME NEW d \in 0 .. Today - 1, V1!IndexPrice(d) PROVE V2Inv' /\ V1Inv'
    <3>1. UNCHANGED tables /\ PricesGrow
      BY <2>3 DEF V1!IndexPrice, tables, V1!tables, V1Inv, PricesGrow
    <3>2. QED
      BY <2>1, <3>1, TablesGrow, V1Stays, V2Stays DEF V1Inv
  <2>4. QED
    BY <1>7, <2>2, <2>3 DEF Write
<1>8. CASE UNCHANGED vars
  <2>1. UNCHANGED <<tables, price, request, request1>>
    BY <1>8 DEF vars
  <2>2. Grown /\ PricesGrow
    BY <2>1, TablesGrow DEF V1Inv, PricesGrow
  <2>3. QED
    BY <2>1, <2>2, V1Stays, V2Stays
<1>9. QED
  BY <1>3, <1>4, <1>5, <1>6, <1>7, <1>8 DEF Next

LEMMA Always == Spec => [](V2Inv /\ V1Inv)
<1>1. Init => V2Inv /\ V1Inv
  BY V2Initially, V1Initially DEF Init
<1>2. (V2Inv /\ V1Inv) /\ [Next]_vars => (V2Inv /\ V1Inv)'
  BY AnyStep
<1>3. QED
  BY <1>1, <1>2, PTL DEF Spec

-----------------------------------------------------------------------------
(* What the answers say. *)

\* The balance before an end-of-day row of v2, and the rows themselves.
LEMMA RowsOfV2 ==
    ASSUME V2Inv, Answered, NEW e \in eods
    PROVE  /\ e \in Slots /\ PreviousBalance(e) \in Slots
           /\ PreviousBalance(e) <= e /\ initial <= PreviousBalance(e)
           /\ initial = InitialSlot /\ initial \in Slots /\ StartSlot(req.start) <= initial
           /\ e \in RangeEods /\ e <= EodSlot(req.end)
<1>1. /\ initial = InitialSlot /\ initial \in balance /\ e \in RangeEods /\ e \in balance
      /\ eods \subseteq balance /\ ledger \in Ledgers /\ Active(ledger)
      /\ eods \subseteq RangeEods /\ \A t \in eods : t >= ledger.activation
  BY DEF V2Inv, TablesOK, Begun, EodsRead, Since, Answered
<1>2. balance \subseteq Slots
  BY <1>1, StartsAreSlots, ActivationIsSlot DEF V2Inv, TablesOK, BalanceSlots
<1>3. PICK d \in req.start .. req.end : e = EodSlot(d)
  BY <1>1 DEF RangeEods
<1>4. /\ d \in Int /\ req.start \in 0 .. Today /\ req.end \in Int /\ req.start <= d /\ d <= req.end
  BY <1>3, SlotsMean DEF V2Inv, RangeOK
<1>5. StartSlot(req.start) <= e /\ e <= EodSlot(req.end) /\ StartSlot(req.start) \in Slots
  <2>1. DayLen \in Nat \ {0} /\ StartSlot(req.start) \in Slots
    BY <1>4, SlotsMean, StartsAreSlots
  <2>2. /\ StartSlot(req.start) + DayLen <= StartSlot(d + 1) /\ StartSlot(d + 1) \in Int
        /\ e = StartSlot(d + 1) /\ EodSlot(req.end) = StartSlot(req.end + 1)
        /\ StartSlot(req.end + 1) \in Int
        /\ d < req.end => StartSlot(d + 1) + DayLen <= StartSlot(req.end + 1)
    <3>1. d + 1 \in Int /\ req.end + 1 \in Int /\ req.start < d + 1
      BY <1>4
    <3>2. e = StartSlot(d + 1) /\ EodSlot(req.end) = StartSlot(req.end + 1)
      BY <1>3, <1>4, DaySlots
    <3>3. StartSlot(req.start) + DayLen <= StartSlot(d + 1)
      <4>1. req.start \in Int
        BY <1>4, SlotsMean
      <4>2. QED
        BY <3>1, <4>1, DaySlots
    <3>4. StartSlot(d + 1) \in Int /\ StartSlot(req.end + 1) \in Int
      BY <3>1, DaySlots
    <3>5. d < req.end => StartSlot(d + 1) + DayLen <= StartSlot(req.end + 1)
      <4>1. d < req.end => d + 1 < req.end + 1
        BY <1>4
      <4>2. QED
        BY <3>1, <4>1, DaySlots
    <3>6. QED
      BY <3>2, <3>3, <3>4, <3>5
  <2>3. StartSlot(req.start) \in Int
    BY <2>1, SlotsMean
  <2>4. QED
    BY <1>4, <2>1, <2>2, <2>3
<1>6. /\ e \in Int /\ initial \in Int /\ ledger.activation \in Int
      /\ StartSlot(req.start) <= initial /\ initial <= e
  <2>1. e \in Int /\ initial \in Int /\ ledger.activation \in Int /\ e >= ledger.activation
    BY <1>1, <1>2, SlotsMean, ActivationIsSlot
  <2>2. StartSlot(req.start) \in Int
    BY <1>5, SlotsMean
  <2>3. QED
    BY <1>1, <1>5, <2>1, <2>2 DEF InitialSlot
<1> DEFINE S == {initial} \cup {s \in eods : s < e}
<1>7. /\ S \subseteq Slots /\ S # {} /\ S \subseteq Int /\ initial \in S
      /\ \A s \in S : s <= e
  <2>1. S \subseteq Slots /\ initial \in S
    BY <1>1, <1>2
  <2>2. \A s \in S : s \in Int /\ s <= e
    BY <1>6, <2>1, SlotsMean
  <2>3. QED
    BY <2>1, <2>2
<1>8. IsFiniteSet(S)
  <2>1. IsFiniteSet(Slots)
    BY SlotsMean, FS_Interval
  <2>2. QED
    BY <1>7, <2>1, FS_Subset
<1>9. PreviousBalance(e) = Max(S)
  BY DEF PreviousBalance
<1> HIDE DEF S
<1>10. Max(S) \in S /\ initial <= Max(S)
  BY <1>7, <1>8, MaxMin
<1>11. QED
  BY <1>1, <1>2, <1>5, <1>6, <1>7, <1>9, <1>10

LEMMA IncomeFollows == ASSUME V2Inv PROVE IncomeIsExplained
<1> SUFFICES ASSUME Answered, NEW e \in eods
             PROVE  /\ answer.days[e] =
                          EarnedBy(e) + DepositedBy(e) - CapitalBy(e) - UnseenBy(e)
                    /\ req.settled => UnseenBy(e) = 0
  BY DEF IncomeIsExplained
<1> DEFINE p == PreviousBalance(e)
           B == Between(p, e)
           S == B \cap seen
           W == WithdrawnSince(p, e)
           R == {s \in B : ledger.withdrawn[s] > 0}
<1>1. p \in Slots /\ e \in Slots /\ p <= e /\ initial <= p /\ B \subseteq Slots
  BY RowsOfV2 DEF Between
<1>2. ledger \in Ledgers /\ seen \subseteq RangeWithdrawals
  BY DEF V2Inv, TablesOK, WithdrawalsRead, Since
<1>3. W = {s \in S : ledger.withdrawn[s] > 0} /\ W \subseteq B
  BY <1>2 DEF WithdrawnSince, Between, RangeWithdrawals
<1>4. \A s \in W : ~ Rejected(ledger.withdrawn[s])
  BY DEF V2Inv, Reported
<1>5. answer.days[e] = BalanceAt(e) - BalanceAt(p)
                         + SumOver([s \in Slots |-> Counted(ledger.withdrawn[s])], W)
  BY DEF V2Inv, Reported, DayIncome
<1>6. B \ S = B \ seen
  OBVIOUS
<1>7. answer.days[e] = EarnedBy(e) + DepositedBy(e) - CapitalBy(e) - UnseenBy(e)
  <2>1. S \subseteq B
    OBVIOUS
  <2> HIDE DEF p, B, S, W
  <2>2. BalanceAt(e) - BalanceAt(p)
          + SumOver([s \in Slots |-> Counted(ledger.withdrawn[s])], W)
        = SumOver(ledger.earned, Between(p, e)) + SumOver(ledger.deposited, Between(p, e))
          - SumOver([s \in Slots |-> Capital(ledger.withdrawn[s])], S)
          - SumOver(ledger.withdrawn, Between(p, e) \ S)
    BY <1>1, <1>2, <1>3, <1>4, <2>1, IncomeMeans DEF B
  <2>3. /\ EarnedBy(e) = SumOver(ledger.earned, Between(p, e))
        /\ DepositedBy(e) = SumOver(ledger.deposited, Between(p, e))
        /\ CapitalBy(e) = SumOver([s \in Slots |-> Capital(ledger.withdrawn[s])], S)
        /\ UnseenBy(e) = SumOver(ledger.withdrawn, Between(p, e) \ S)
    BY <1>6 DEF EarnedBy, DepositedBy, CapitalBy, UnseenBy, Passed, p, B, S
  <2>4. QED
    BY <1>5, <2>2, <2>3
\* Nothing of the day is missing from the withdrawals of complete tables.
<1>8. ASSUME req.settled PROVE UnseenBy(e) = 0
  <2>1. seen = RangeWithdrawals
    BY <1>8 DEF V2Inv, WithdrawalsRead, Since
  <2>2. ASSUME NEW s \in B PROVE InRange(s)
    <3>1. /\ StartSlot(req.start) <= initial /\ e <= EodSlot(req.end) /\ initial \in Slots
          /\ req.start \in Int /\ req.end \in Int
      BY RowsOfV2, SlotsMean DEF V2Inv, RangeOK
    <3>2. StartSlot(req.start) \in Int /\ EodSlot(req.end) \in Int
      BY <3>1, DaySlots
    <3>3. s \in Slots /\ p < s /\ s <= e
      BY <2>2 DEF Between
    <3> HIDE DEF p, B
    <3>4. QED
      BY <1>1, <3>1, <3>2, <3>3, SlotsMean DEF InRange
  <2>3. \A s \in B \ seen : ledger.withdrawn[s] \in Nat /\ ~ (ledger.withdrawn[s] > 0)
    BY <1>1, <1>2, <2>1, <2>2, LedgerMeans DEF RangeWithdrawals
  <2>4. \A s \in B \ seen : ledger.withdrawn[s] = 0
    BY <2>3
  <2>5. IsFiniteSet(B \ seen)
    BY <1>1, BetweenMeans, FS_Subset
  <2>6. UnseenBy(e) = SumOver(ledger.withdrawn, B \ seen)
    BY DEF UnseenBy, Passed
  <2> HIDE DEF B
  <2>7. SumOver(ledger.withdrawn, B \ seen) =
          1 * Cardinality({s \in B \ seen : ledger.withdrawn[s] = 1})
    BY <2>4, <2>5, SumSame
  <2>8. {s \in B \ seen : ledger.withdrawn[s] = 1} = {}
    BY <2>4
  <2>9. QED
    BY <2>6, <2>7, <2>8, FS_EmptySet
<1>9. QED
  BY <1>7, <1>8

\* v2: every reported amount is what was earned and deposited since the balance
\* the amount is measured from, less the capital of an exit in that time and less
\* the withdrawals that were not in the table when it was read, of which there are
\* none when the tables missed nothing.
THEOREM IncomeExplained == Spec => []IncomeIsExplained
<1>1. V2Inv /\ V1Inv => IncomeIsExplained
  BY IncomeFollows
<1>2. QED
  BY <1>1, Always, PTL

LEMMA CompleteFollows == ASSUME V2Inv PROVE SettledAnswerComplete
<1> SUFFICES ASSUME Answered, req.settled
             PROVE  /\ {DateOf(e) : e \in eods} =
                          {d \in req.start .. req.end : EodSlot(d) >= ledger.activation}
                    /\ {s \in Proposals : DateOf(s) \in req.start .. req.end} =
                          {p[2] : p \in {q \in answer.paid : q[1] \in req.start .. req.end}}
  BY DEF SettledAnswerComplete
<1>1. /\ eods = {s \in RangeEods : s >= ledger.activation}
      /\ answer.paid = {<<DateOf(s), s>> : s \in blocks} /\ pc = "done"
      /\ req.start \in Int /\ req.end \in Int /\ req.start <= req.end + 1
  BY SlotsMean DEF V2Inv, RangeOK, EodsRead, Since, Reported, Answered
<1>2. blocks = RangeBlocks
  BY DEF V2Inv, BlocksRead, Since
<1>3. \A d \in req.start .. req.end : DateOf(EodSlot(d)) = d
  BY <1>1, DaySlots
<1>4. {DateOf(e) : e \in eods} = {d \in req.start .. req.end : EodSlot(d) >= ledger.activation}
  BY <1>1, <1>3 DEF RangeEods
<1>5. \A s \in Proposals : DateOf(s) \in req.start .. req.end => s \in blocks
  <2>1. ASSUME NEW s \in Proposals, DateOf(s) \in req.start .. req.end PROVE InRange(s)
    <3>1. s \in Slots
      BY DEF Proposals
    <3>2. QED
      BY <1>1, <2>1, <3>1, RangeIsDays DEF InRange
  <2>2. QED
    BY <1>2, <2>1 DEF RangeBlocks
<1>6. blocks \subseteq Proposals
  BY <1>2 DEF RangeBlocks
<1>7. {p[2] : p \in {q \in answer.paid : q[1] \in req.start .. req.end}}
        = {s \in blocks : DateOf(s) \in req.start .. req.end}
  <2> DEFINE P == {s \in blocks : DateOf(s) \in req.start .. req.end}
             In == {q \in answer.paid : q[1] \in req.start .. req.end}
  <2>1. In = {<<DateOf(s), s>> : s \in P}
    BY <1>1
  <2> HIDE DEF P, In
  <2>2. ASSUME NEW q \in In PROVE q[2] \in P
    <3>1. PICK s \in P : q = <<DateOf(s), s>>
      BY <2>1, <2>2
    <3>2. QED
      BY <3>1
  <2>3. ASSUME NEW s \in P PROVE \E q \in In : q[2] = s
    <3>1. <<DateOf(s), s>> \in In /\ <<DateOf(s), s>>[2] = s
      BY <2>1, <2>3
    <3>2. QED
      BY <3>1
  <2>4. {q[2] : q \in In} = P
    BY <2>2, <2>3
  <2>5. QED
    BY <2>4 DEF P, In
<1>8. QED
  BY <1>4, <1>5, <1>6, <1>7

\* v2: over tables that missed nothing, an answer has every requested day that is
\* over and not before the activation, and every block proposed on those days.
THEOREM AnswerComplete == Spec => []SettledAnswerComplete
<1>1. V2Inv /\ V1Inv => SettledAnswerComplete
  BY CompleteFollows
<1>2. QED
  BY <1>1, Always, PTL

\* The balance before a walked row of v1.
LEMMA RowsOfV1 ==
    ASSUME V1Inv, NEW s \in DOMAIN days
    PROVE  /\ ledger \in Ledgers /\ s \in Slots /\ s \in V1!Walked
           /\ V1!LastBalance(s) \in Slots /\ V1!LastBalance(s) <= s
           /\ V1!Misjudged(s) \in Int
<1>1. /\ ledger \in Ledgers /\ Active(ledger) /\ initial1.slot \in Slots /\ s \in V1!Walked
      /\ V1!Walked \subseteq Slots /\ DOMAIN days \subseteq V1!Walked
  BY Eods1AreSlots
<1>2. initial1.slot <= s
  BY <1>1, SlotsMean DEF V1!Walked
<1> DEFINE S == {initial1.slot} \cup {t \in DOMAIN days : t < s}
<1>3. S \subseteq Slots /\ S # {} /\ \A t \in S : t <= s
  <2>1. \A t \in S : t \in Slots /\ (t = initial1.slot \/ t < s)
    BY <1>1
  <2>2. QED
    BY <1>1, <1>2, <2>1, SlotsMean
<1>4. IsFiniteSet(S) /\ S \subseteq Int
  <2>1. IsFiniteSet(Slots)
    BY SlotsMean, FS_Interval
  <2>2. QED
    BY <1>3, <2>1, FS_Subset, SlotsMean
<1>5. V1!LastBalance(s) = Max(S)
  BY V1Days DEF V1!LastBalance
<1> HIDE DEF S
<1>6. Max(S) \in S
  BY <1>3, <1>4, MaxMin
<1>7. V1!Misjudged(s) \in Int
  <2>1. ledger.activation \in Slots /\ ledger.activation <= ledger.activation
    BY <1>1, ActivationIsSlot, SlotsMean
  <2>2. BalanceAt(ledger.activation) \in Int
    BY <1>1, <2>1, ChangeMeans
  <2>3. QED
    BY <2>2, V1Tables DEF V1!Misjudged
<1>8. QED
  BY <1>1, <1>3, <1>5, <1>6, <1>7

LEMMA IncomeFollowsV1 == ASSUME V1Inv PROVE IncomeIsExplainedV1
<1> SUFFICES ASSUME NEW s \in DOMAIN days, days[s].upto >= s
             PROVE  days[s].income = V1!EarnedSince(s) + V1!DepositedSince(s)
                                       + ledger.withdrawn[V1!LastBalance(s)] + V1!Misjudged(s)
  BY DEF IncomeIsExplainedV1, V1!IncomeIsExplained
<1> DEFINE p == V1!LastBalance(s)
           B == Between(p, s)
           m == V1!Misjudged(s)
<1>1. ledger \in Ledgers /\ s \in Slots /\ p \in Slots /\ p <= s /\ m \in Int
  BY RowsOfV1
<1>2. /\ days[s].upto \in Slots
      /\ days[s].income = BalanceAt(s) - BalanceAt(p) + m
                            + SumOver(ledger.withdrawn, WithdrawnUpTo(days[s].upto, p, s))
  BY DEF V1Inv, Walked1, DayOK
<1>3. /\ V1!EarnedSince(s) = SumOver(ledger.earned, B)
      /\ V1!DepositedSince(s) = SumOver(ledger.deposited, B)
  BY V1Sums, V1Days DEF V1!EarnedSince, V1!DepositedSince
<1> HIDE DEF p, m
<1>4. WithdrawnUpTo(days[s].upto, p, s) = {p} \cup B /\ p \notin B
  <2>1. \A t \in Slots : t \in 0 .. days[s].upto /\ p <= t /\ t <= s <=> t = p \/ (p < t /\ t <= s)
    BY <1>1, <1>2, SlotsMean
  <2>2. 0 .. days[s].upto \subseteq Slots
    BY <1>2, SlotsMean
  <2>3. p \in Nat
    BY <1>1, SlotsMean
  <2>4. QED
    BY <1>1, <2>1, <2>2, <2>3 DEF WithdrawnUpTo, Between
<1>5. /\ IsFiniteSet(B) /\ IsFiniteSet({p} \cup B) /\ ({p} \cup B) \ {p} = B
      /\ {p} \cup B \subseteq Slots
  <2>1. IsFiniteSet(B) /\ B \subseteq Slots
    BY <1>1, BetweenMeans
  <2>2. QED
    BY <1>1, <1>4, <2>1, FS_AddElement
<1> HIDE DEF B
<1>6. SumOver(ledger.withdrawn, {p} \cup B) = ledger.withdrawn[p] + SumOver(ledger.withdrawn, B)
  <2>1. \A t \in {p} \cup B : ledger.withdrawn[t] \in Int
    BY <1>1, <1>5, LedgerMeans
  <2>2. QED
    BY <1>5, <2>1, SumTake
<1>7. /\ SumOver(ledger.earned, B) \in Int /\ SumOver(ledger.deposited, B) \in Int
      /\ SumOver(ledger.withdrawn, B) \in Int
      /\ ledger.withdrawn[p] \in Int /\ BalanceAt(p) \in Int /\ BalanceAt(s) \in Int
      /\ BalanceAt(s) - BalanceAt(p) = SumOver(ledger.earned, B) + SumOver(ledger.deposited, B)
                                         - SumOver(ledger.withdrawn, B)
  BY <1>1, ChangeMeans, LedgerMeans DEF B
<1>8. days[s].income
        = SumOver(ledger.earned, B) + SumOver(ledger.deposited, B) + ledger.withdrawn[p] + m
  BY <1>1, <1>2, <1>4, <1>6, <1>7
<1>9. QED
  BY <1>3, <1>8 DEF p, m

\* v1: every amount added for a day is what was earned and deposited since the
\* balance before, with a withdrawal in the slot of that balance counted twice and
\* the balance at an activation taken to be 32, if the table of withdrawals was
\* filled that far when it was read.
THEOREM IncomeExplainedV1 == Spec => []IncomeIsExplainedV1
<1>1. V2Inv /\ V1Inv => IncomeIsExplainedV1
  BY IncomeFollowsV1
<1>2. QED
  BY <1>1, Always, PTL

\* From its initial balance on v1 walks the rows from the activation on.
LEMMA WalkedMeans ==
    ASSUME V1Inv, V1!Answered, req1.settled
    PROVE  V1!Walked = {s \in RangeEods1 : s >= ledger.activation}
<1>1. /\ Active(ledger) /\ ledger \in Ledgers /\ kind = "ok" /\ balances = RangeEods1
      /\ initial1.slot = InitialSlot1
  <2>1. Active(ledger) /\ kind = "ok"
    BY V1Tables DEF V1!Answered
  <2>2. QED
    BY <2>1 DEF V1Inv, TablesOK, EodsRead1, Begun1, Going
<1>2. req1.start \in 0 .. Today /\ req1.end \in Int
  BY <1>1 DEF V1Inv, RangeOK1, Going
<1>3. ASSUME NEW d \in Days1 PROVE EodSlot(d) \in Int /\ StartSlot(req1.start) <= EodSlot(d)
  <2>1. d \in Int /\ d + 1 \in Int /\ req1.start < d + 1 /\ req1.start \in Int
    BY <1>2 DEF Days1
  <2>2. /\ EodSlot(d) = StartSlot(d + 1) /\ StartSlot(d + 1) \in Int
        /\ StartSlot(req1.start) \in Int /\ StartSlot(req1.start) + DayLen <= StartSlot(d + 1)
    BY <2>1, DaySlots
  <2>3. QED
    BY <2>2, DaysAssumption
<1>4. ledger.activation \in Int /\ StartSlot(req1.start) \in Int
  BY <1>1, <1>2, ActivationIsSlot, StartsAreSlots, SlotsMean
<1>5. \A s \in RangeEods1 : s >= InitialSlot1 <=> s >= ledger.activation
  <2>1. \A s \in RangeEods1 : s \in Int /\ StartSlot(req1.start) <= s
    BY <1>3 DEF RangeEods1
  <2>2. QED
    BY <1>4, <2>1 DEF InitialSlot1
<1>6. QED
  BY <1>1, <1>5 DEF V1!Walked

LEMMA AnsweredFollowsV1 == ASSUME V1Inv PROVE SettledRequestAnsweredV1
<1>1. kind = "error" /\ req1.settled /\ req1.start < req1.end =>
        V1!StartSlot(req1.start) \in V1!Proposals
  BY V1Days, V1Tables DEF V1Inv, Reported1
<1>2. ASSUME V1!Answered, req1.settled
      PROVE  /\ {V1!DateOf(s) : s \in DOMAIN days} =
                   {d \in V1!Requested : V1!EodSlot(d) >= ledger.activation}
             /\ paid = {<<V1!DateOf(s), s>> :
                          s \in {s \in V1!Proposals : V1!DateOf(s) \in date_eth_price}}
             /\ date_eth_price = V1!Requested
  <2>1. date_eth_price = Days1 /\ V1!Requested = Days1
    BY <1>2 DEF V1Inv, Priced1, V1!Requested, Days1
  <2>2. DOMAIN days = {s \in RangeEods1 : s >= ledger.activation}
    BY <1>2, WalkedMeans DEF V1Inv, Walked1
  <2>3. \A d \in Days1 : DateOf(EodSlot(d)) = d
    <3>1. \A d \in Days1 : d \in Int
      BY DEF Days1
    <3>2. QED
      BY <3>1, DaySlots
  <2>4. {DateOf(s) : s \in DOMAIN days} = {d \in Days1 : EodSlot(d) >= ledger.activation}
    BY <2>2, <2>3 DEF RangeEods1
  <2>5. {V1!DateOf(s) : s \in DOMAIN days} = {DateOf(s) : s \in DOMAIN days}
    BY V1Days
  <2>6. {d \in Days1 : V1!EodSlot(d) >= ledger.activation}
          = {d \in Days1 : EodSlot(d) >= ledger.activation}
    BY V1Days
  <2>7. paid = {<<DateOf(s), s>> : s \in {s \in Proposals : DateOf(s) \in Days1}}
    BY <1>2 DEF V1Inv, Reported1
  <2>8. {s \in V1!Proposals : V1!DateOf(s) \in Days1} = {s \in Proposals : DateOf(s) \in Days1}
    BY V1Days, V1Tables
  <2>9. {<<V1!DateOf(s), s>> : s \in {s \in Proposals : DateOf(s) \in Days1}}
          = {<<DateOf(s), s>> : s \in {s \in Proposals : DateOf(s) \in Days1}}
    BY V1Days
  <2>10. QED
    BY <2>1, <2>4, <2>5, <2>6, <2>7, <2>8, <2>9
<1>3. QED
  BY <1>1, <1>2 DEF SettledRequestAnsweredV1, V1!SettledRequestAnswered

\* v1: over complete tables a request is answered with every day and every block
\* reward, unless a block was proposed in the slot the range begins in.
THEOREM RequestAnsweredV1 == Spec => []SettledRequestAnsweredV1
<1>1. V2Inv /\ V1Inv => SettledRequestAnsweredV1
  BY AnsweredFollowsV1
<1>2. QED
  BY <1>1, Always, PTL

LEMMA AgreementFollows == ASSUME V2Inv, V1Inv PROVE VersionsAgree
<1> SUFFICES ASSUME Answered, V1!Answered, req.settled, req1.settled,
                    req.start = req1.start, req.end = req1.end
             PROVE  /\ eods = V1!Walked /\ answer.paid = paid
                    /\ \A e \in eods :
                          days[e].income = answer.days[e] + CapitalBy(e)
                             + ledger.withdrawn[PreviousBalance(e)] + V1!Misjudged(e)
  BY DEF VersionsAgree
<1>1. /\ Active(ledger) /\ kind = "ok" /\ req1.end \in 0 .. Today - 1
      /\ req1.start <= req1.end /\ req1.start \in Int /\ req1.end \in Int
  <2>1. Active(ledger) /\ kind = "ok" /\ req1.end \in 0 .. Today - 1
    BY DEF Answered, V1!Answered, V2Inv, RangeOK
  <2>2. QED
    BY <2>1, SlotsMean DEF V1Inv, RangeOK1, Going
<1>2. eods = V1!Walked /\ DOMAIN days = eods
  <2>1. RangeEods = RangeEods1
    BY DEF RangeEods, RangeEods1, Days1
  <2>2. eods = {s \in RangeEods : s >= ledger.activation}
    BY DEF V2Inv, EodsRead, Since
  <2>3. QED
    BY <2>1, <2>2, WalkedMeans DEF V1Inv, Walked1
<1>3. answer.paid = paid
  <2>1. answer.paid = {<<DateOf(s), s>> : s \in RangeBlocks}
    BY DEF V2Inv, Reported, BlocksRead, Since
  <2>2. RangeBlocks = RangeBlocks1
    BY DEF RangeBlocks, RangeBlocks1, InRange
  <2>3. /\ paid = {<<DateOf(s), s>> : s \in {s \in Proposals : DateOf(s) \in Days1}}
        /\ \A s \in RangeBlocks1 : DateOf(s) \in Days1
    <3>1. req1.start \in Days1
      BY <1>1 DEF Days1
    <3>2. QED
      BY <3>1 DEF V1Inv, Reported1
  <2>4. RangeBlocks1 = {s \in Proposals : DateOf(s) \in Days1}
    <3>1. \A s \in Proposals : DateOf(s) \in Days1 =>
             StartSlot(req1.start) <= s /\ s <= EodSlot(req1.end)
      BY <1>1, RangeIsDays DEF Proposals, Days1
    <3>2. QED
      BY <2>3, <3>1 DEF RangeBlocks1
  <2>5. QED
    BY <2>1, <2>2, <2>3, <2>4
<1>4. ASSUME NEW e \in eods
      PROVE  days[e].income = answer.days[e] + CapitalBy(e)
                                + ledger.withdrawn[PreviousBalance(e)] + V1!Misjudged(e)
  <2>1. V1!LastBalance(e) = PreviousBalance(e)
    <3>1. initial1.slot = initial
      BY <1>1 DEF V1Inv, Begun1, Going, InitialSlot1, V2Inv, Begun, Since, InitialSlot
    <3>2. QED
      BY <1>2, <3>1, V1Days DEF V1!LastBalance, PreviousBalance
  <2>2. V1!EarnedSince(e) = EarnedBy(e) /\ V1!DepositedSince(e) = DepositedBy(e)
    BY <2>1, V1Sums, V1Days
       DEF V1!EarnedSince, V1!DepositedSince, EarnedBy, DepositedBy, Passed
  <2>3. /\ e \in Slots /\ PreviousBalance(e) \in Slots /\ PreviousBalance(e) <= e
        /\ ledger \in Ledgers
    BY RowsOfV2 DEF V2Inv, TablesOK
  <2>4. EarnedBy(e) \in Int /\ DepositedBy(e) \in Int
    BY <2>3, ChangeMeans DEF EarnedBy, DepositedBy, Passed
  <2>5. CapitalBy(e) \in Int
    <3> DEFINE S == Passed(e) \cap seen
               x == [s \in Slots |-> Capital(ledger.withdrawn[s])]
    <3>1. S \subseteq Slots /\ IsFiniteSet(S)
      <4>1. Passed(e) \subseteq Slots /\ IsFiniteSet(Passed(e))
        BY <2>3, BetweenMeans DEF Passed
      <4>2. QED
        BY <4>1, FS_Subset
    <3>2. \A s \in S : ledger.withdrawn[s] \in Nat
      BY <2>3, <3>1, LedgerMeans
    <3>3. \A s \in S : x[s] \in Int
      BY <3>1, <3>2 DEF Capital
    <3>4. CapitalBy(e) = SumOver(x, S)
      BY DEF CapitalBy
    <3> HIDE DEF S, x
    <3>5. QED
      BY <3>1, <3>3, <3>4, SumTake
  <2>6. days[e].income = EarnedBy(e) + DepositedBy(e)
                           + ledger.withdrawn[PreviousBalance(e)] + V1!Misjudged(e)
    <3>1. days[e].upto = StartSlot(Today)
      BY <1>2 DEF V1Inv, Walked1, DayOK
    <3>2. days[e].upto >= e
      BY <2>3, <3>1, SlotsMean
    <3>3. days[e].income = V1!EarnedSince(e) + V1!DepositedSince(e)
                             + ledger.withdrawn[V1!LastBalance(e)] + V1!Misjudged(e)
      BY <1>2, <3>2, IncomeFollowsV1 DEF IncomeIsExplainedV1, V1!IncomeIsExplained
    <3>4. QED
      BY <2>1, <2>2, <3>3
  <2>7. answer.days[e] = EarnedBy(e) + DepositedBy(e) - CapitalBy(e)
    <3>1. /\ answer.days[e] = EarnedBy(e) + DepositedBy(e) - CapitalBy(e) - UnseenBy(e)
          /\ UnseenBy(e) = 0
      BY IncomeFollows DEF IncomeIsExplained
    <3>2. QED
      BY <2>4, <2>5, <3>1
  <2>8. ledger.withdrawn[PreviousBalance(e)] \in Int /\ V1!Misjudged(e) \in Int
    BY <1>2, <2>3, LedgerMeans, RowsOfV1
  <2>9. QED
    BY <2>4, <2>5, <2>6, <2>7, <2>8
<1>5. QED
  BY <1>2, <1>3, <1>4

\* Asked for the same days of the same complete tables, the two endpoints report
\* the same days and blocks, and incomes that differ by exactly the capital of
\* exits, the doubly counted slots and the 32 ETH v1 takes every validator to
\* start with.
THEOREM EndpointsAgree == Spec => []VersionsAgree
<1>1. V2Inv /\ V1Inv => VersionsAgree
  BY AgreementFollows
<1>2. QED
  BY <1>1, Always, PTL
=============================================================================
