----------------------------- MODULE BootProofs -----------------------------
(***************************************************************************)
(* Proofs about Boot: what the card is known for, what LoadFile loads,     *)
(* and what is loaded when the program is started, for every number of     *)
(* losses, every volume in order and every manifest; and what becomes of   *)
(* the records that a remote machine sends.                                *)
(***************************************************************************)
EXTENDS Boot, FiniteSetTheorems, WellFoundedInduction, SequenceTheorems, TLAPS

(***************************************************************************)
(* Folds, of which nothing is known but that they exist; induction over    *)
(* the sets that are left gives their values.                              *)
(***************************************************************************)
\* What holds of the empty set, and of a set with an element more, holds of every finite set. The
\* library's theorem takes an operator; this one takes the set G of what has the property.
LEMMA SetInduction ==
  ASSUME NEW Base, IsFiniteSet(Base), NEW G, {} \in G,
         \A T \in SUBSET Base : T \in G => \A x \in Base \ T : T \cup {x} \in G
  PROVE  \A T \in SUBSET Base : T \in G
<1> DEFINE Bad == {T \in SUBSET Base : T \notin G}
           R == StrictSubsetOrdering(Base)
<1> SUFFICES ASSUME Bad # {} PROVE FALSE
  OBVIOUS
<1>1. FiniteSubsetsOf(Base) = SUBSET Base
  BY FS_FiniteSubsetsOfFinite
<1>2. IsWellFoundedOn(R, SUBSET Base)
  BY <1>1, FS_StrictSubsetOrderingWellFounded
<1>3. PICK T \in Bad : \A U \in Bad : ~(<<U, T>> \in R)
  <2>1. Bad \subseteq SUBSET Base
    OBVIOUS
  <2> HIDE DEF Bad, R
  <2> QED
    BY <1>2, <2>1, WFMin
<1>4. PICK x \in T : TRUE
  OBVIOUS
<1>5. /\ T \ {x} \in SUBSET Base /\ T \ {x} # T /\ T \ {x} \subseteq T
      /\ (T \ {x}) \cup {x} = T /\ x \in Base \ (T \ {x})
  BY <1>4
<1>6. <<T \ {x}, T>> \in R
  BY <1>5 DEF StrictSubsetOrdering
<1>7. T \ {x} \in G
  BY <1>3, <1>5, <1>6
<1> QED
  BY <1>3, <1>5, <1>7

\* Natural numbers likewise.
LEMMA NumberInduction ==
  ASSUME NEW G, 0 \in G, \A n \in Nat : n \in G => n + 1 \in G
  PROVE  \A n \in Nat : n \in G
<1> SUFFICES ASSUME NEW n \in Nat PROVE n \in G
  OBVIOUS
<1> DEFINE Base == 1 .. n
           H == {T \in SUBSET Base : Cardinality(T) \in G}
<1>1. IsFiniteSet(Base) /\ Cardinality(Base) = n
  BY FS_Interval
<1>2. {} \in H
  BY FS_EmptySet
<1>3. ASSUME NEW T \in SUBSET Base, T \in H, NEW x \in Base \ T
      PROVE  T \cup {x} \in H
  <2>1. IsFiniteSet(T)
    BY <1>1, FS_Subset
  <2>2. Cardinality(T) \in Nat /\ Cardinality(T \cup {x}) = Cardinality(T) + 1
    BY <2>1, FS_CardinalityType, FS_AddElement
  <2> QED
    BY <1>3, <2>2
<1> HIDE DEF H
<1>4. \A T \in SUBSET Base : T \in H
  <2> HIDE DEF Base
  <2> QED
    BY <1>1, <1>2, <1>3, SetInduction
<1> QED
  BY <1>1, <1>4 DEF H

\* A fold takes the elements of a finite set one after the other in the order of Ch: it exists as a
\* function of the sets that are left, with values in every set that its operation keeps.
Foldable(Base, Ch, Good, base, Op) ==
  /\ IsFiniteSet(Base) /\ \A T \in SUBSET Base : T # {} => Ch[T] \in T
  /\ base \in Good /\ \A x \in Base, g \in Good : Op[<<x, g>>] \in Good
Folded(f, Base, Ch, Good, base, Op) ==
  /\ f \in [SUBSET Base -> Good] /\ f[{}] = base
  /\ \A T \in SUBSET Base : T # {} => f[T] = Op[<<Ch[T], f[T \ {Ch[T]}]>>]
\* Such a function exists.
LEMMA FoldExists ==
  ASSUME NEW Base, NEW Ch, NEW Good, NEW base, NEW Op, Foldable(Base, Ch, Good, base, Op)
  PROVE  \E f : Folded(f, Base, Ch, Good, base, Op)
<1> USE DEF Foldable
<1> DEFINE Small(n) == {T \in SUBSET Base : Cardinality(T) <= n}
           Is(f, n) == f[{}] = base /\ \A T \in Small(n) : T # {} => f[T] = Op[<<Ch[T], f[T \ {Ch[T]}]>>]
           G == {n \in Nat : \E f \in [Small(n) -> Good] : Is(f, n)}
<1>1. \A T \in SUBSET Base : IsFiniteSet(T) /\ Cardinality(T) \in Nat
  BY FS_Subset, FS_CardinalityType
<1>2. 0 \in G
  <2>1. Small(0) = {{}}
    <3>1. \A T \in SUBSET Base : Cardinality(T) = 0 <=> T = {}
      BY <1>1, FS_EmptySet
    <3>2. QED
      BY <1>1, <3>1
  <2>2. [s \in {{}} |-> base] \in [Small(0) -> Good] /\ Is([s \in {{}} |-> base], 0)
    BY <2>1
  <2>3. QED
    BY <2>2
<1>3. ASSUME NEW n \in Nat, n \in G PROVE n + 1 \in G
  <2>1. PICK f \in [Small(n) -> Good] : Is(f, n)
    BY <1>3
  <2> DEFINE g == [s \in Small(n + 1) |-> IF s = {} THEN base ELSE Op[<<Ch[s], f[s \ {Ch[s]}]>>]]
  <2>2. ASSUME NEW s \in Small(n + 1), s # {}
        PROVE  Ch[s] \in Base /\ s \ {Ch[s]} \in Small(n)
    <3>1. Ch[s] \in s
      BY <2>2
    <3>2. Cardinality(s \ {Ch[s]}) = Cardinality(s) - 1
      BY <1>1, <3>1, FS_RemoveElement
    <3>3. QED
      BY <1>1, <3>1, <3>2
  <2>3. ASSUME NEW s \in Small(n) PROVE s \in Small(n + 1) /\ f[s] = g[s]
    <3>1. s \in Small(n + 1)
      BY <1>1
    <3> HIDE DEF Small
    <3> QED
      BY <2>1, <3>1
  <2>4. {} \in Small(n + 1)
    BY <1>1, FS_EmptySet
  <2> HIDE DEF Small
  <2>5. g \in [Small(n + 1) -> Good]
    <3>1. ASSUME NEW s \in Small(n + 1), s # {} PROVE Op[<<Ch[s], f[s \ {Ch[s]}]>>] \in Good
      BY <2>1, <2>2, <3>1
    <3> QED
      BY <3>1
  <2>6. Is(g, n + 1)
    <3>1. g[{}] = base
      BY <2>4
    <3>2. ASSUME NEW s \in Small(n + 1), s # {} PROVE g[s] = Op[<<Ch[s], g[s \ {Ch[s]}]>>]
      <4>1. f[s \ {Ch[s]}] = g[s \ {Ch[s]}]
        <5> HIDE DEF g
        <5> QED
          BY <2>2, <2>3, <3>2
      <4>2. g[s] = Op[<<Ch[s], f[s \ {Ch[s]}]>>]
        BY <3>2
      <4> HIDE DEF g
      <4> QED
        BY <4>1, <4>2
    <3> QED
      BY <3>1, <3>2
  <2> HIDE DEF g, Is
  <2>7. n + 1 \in Nat /\ \E h \in [Small(n + 1) -> Good] : Is(h, n + 1)
    BY <2>5, <2>6
  <2> QED
    BY <2>7
<1>4. Cardinality(Base) \in G
  <2> HIDE DEF G
  <2> QED
    BY <1>1, <1>2, <1>3, NumberInduction
<1>5. \A T \in SUBSET Base : Cardinality(T) <= Cardinality(Base)
  BY FS_Subset
<1>6. Small(Cardinality(Base)) = SUBSET Base
  BY <1>5
<1> HIDE DEF Small
<1>7. QED
  BY <1>4, <1>6 DEF Folded

\* Every function that takes the elements so has its values there.
LEMMA FoldStays ==
  ASSUME NEW Base, IsFiniteSet(Base), NEW Ch, \A T \in SUBSET Base : T # {} => Ch[T] \in T,
         NEW Good, NEW f, f[{}] \in Good,
         \A T \in SUBSET Base : T # {} /\ f[T \ {Ch[T]}] \in Good => f[T] \in Good
  PROVE  f[Base] \in Good
<1> DEFINE G == {n \in Nat : \A T \in SUBSET Base : Cardinality(T) = n => f[T] \in Good}
<1>1. \A T \in SUBSET Base : IsFiniteSet(T) /\ Cardinality(T) \in Nat
  BY FS_Subset, FS_CardinalityType
<1>2. 0 \in G
  <2>1. ASSUME NEW T \in SUBSET Base, Cardinality(T) = 0 PROVE f[T] \in Good
    <3>1. T = {}
      BY <1>1, <2>1, FS_EmptySet
    <3> QED
      BY <3>1
  <2> QED
    BY <2>1
<1>3. ASSUME NEW n \in Nat, n \in G PROVE n + 1 \in G
  <2>1. ASSUME NEW T \in SUBSET Base, Cardinality(T) = n + 1 PROVE f[T] \in Good
    <3>1. T # {}
      <4>1. Cardinality({}) = 0
        BY FS_EmptySet
      <4>2. n + 1 # 0
        OBVIOUS
      <4> QED
        BY <2>1, <4>1, <4>2, Zenon
    <3>2. Ch[T] \in T
      BY <3>1
    <3>3. Cardinality(T \ {Ch[T]}) = Cardinality(T) - 1
      BY <1>1, <3>2, FS_RemoveElement
    <3>4. Cardinality(T \ {Ch[T]}) = n /\ T \ {Ch[T]} \in SUBSET Base
      BY <2>1, <3>3
    <3>5. f[T \ {Ch[T]}] \in Good
      BY <1>3, <3>4
    <3> QED
      BY <3>1, <3>5
  <2> QED
    BY <2>1
<1>4. Cardinality(Base) \in Nat /\ Cardinality(Base) \in G
  <2> HIDE DEF G
  <2> QED
    BY <1>1, <1>2, <1>3, NumberInduction
<1> QED
  BY <1>4

\* A finite set of integers has its largest among its elements.
LEMMA MaxIn ==
  ASSUME NEW Base, IsFiniteSet(Base), Base \subseteq Int, NEW T \in SUBSET Base, T # {}
  PROVE  Max(T) \in T
<1>1. IsFiniteSet(T) /\ T \subseteq Int
  BY FS_Subset
<1> DEFINE G == {U \in SUBSET T : U = {} \/ \E x \in U : \A y \in U : x >= y}
<1>2. {} \in G
  OBVIOUS
<1>3. ASSUME NEW U \in SUBSET T, U \in G, NEW x \in T \ U
      PROVE  U \cup {x} \in G
  <2>1. CASE U = {}
    BY <1>1, <2>1
  <2>2. CASE U # {}
    <3>1. PICK y \in U : \A z \in U : y >= z
      BY <1>3, <2>2
    <3>2. CASE x >= y
      BY <1>1, <3>1, <3>2
    <3>3. CASE ~(x >= y)
      BY <1>1, <3>1, <3>3
    <3> QED
      BY <3>2, <3>3
  <2> QED
    BY <2>1, <2>2
<1>4. T \in G
  <2> HIDE DEF G
  <2> QED
    BY <1>1, <1>2, <1>3, SetInduction
<1>5. \E x \in T : \A y \in T : x >= y
  BY <1>4
<1> QED
  BY <1>5 DEF Max

\* The sum of numbers is one.
SumStep(f, T, b, s) == IF T = {} THEN b ELSE f[T \ {Max(T)}] + s[Max(T)]
SumSteps(f, b, s) == f = [T \in SUBSET (DOMAIN s) |-> SumStep(f, T, b, s)]
\* FoldLeft of an addition, without operators for parameters.
LEMMA SumDef ==
  ASSUME NEW b, NEW s
  PROVE  FoldLeft(+, b, s) = (CHOOSE f : SumSteps(f, b, s))[DOMAIN s]
BY DEF FoldLeft, MapThenFoldSet, SumSteps, SumStep

\* The sum of natural numbers is one.
LEMMA SumIsNumber ==
  ASSUME NEW s \in Seq(Nat), NEW b \in Nat
  PROVE  FoldLeft(+, b, s) \in Nat
<1> DEFINE Base == DOMAIN s
           Ch == [T \in SUBSET Base |-> Max(T)]
           Op == [p \in Base \X Nat |-> p[2] + s[p[1]]]
<1>1. Base = 1 .. Len(s) /\ \A i \in Base : s[i] \in Nat
  OBVIOUS
<1>2. IsFiniteSet(Base) /\ Base \subseteq Int
  BY <1>1, FS_Interval
<1>3. \A T \in SUBSET Base : T # {} => Ch[T] = Max(T) /\ Ch[T] \in T
  BY <1>2, MaxIn
<1>4. \A x \in Base, g \in Nat : Op[<<x, g>>] = g + s[x] /\ Op[<<x, g>>] \in Nat
  BY <1>1
<1> HIDE DEF Base, Ch, Op
<1>5. PICK f : Folded(f, Base, Ch, Nat, b, Op)
  <2>1. Foldable(Base, Ch, Nat, b, Op)
    BY <1>2, <1>3, <1>4 DEF Foldable
  <2> QED
    BY <2>1, FoldExists
<1>6. SumSteps(f, b, s)
  <2>1. ASSUME NEW T \in SUBSET Base, T # {} PROVE f[T] = f[T \ {Max(T)}] + s[Max(T)]
    <3>1. Ch[T] \in Base /\ f[T \ {Ch[T]}] \in Nat
      BY <1>3, <1>5, <2>1 DEF Folded
    <3> QED
      BY <1>3, <1>4, <1>5, <2>1, <3>1 DEF Folded
  <2>2. \A T \in SUBSET Base : f[T] = SumStep(f, T, b, s)
    BY <1>5, <2>1 DEF SumStep, Folded
  <2>3. f = [T \in SUBSET Base |-> f[T]]
    BY <1>5 DEF Folded
  <2> QED
    BY <2>2, <2>3 DEF SumSteps, Base
<1> DEFINE h == CHOOSE h : SumSteps(h, b, s)
<1>7. SumSteps(h, b, s) /\ FoldLeft(+, b, s) = h[Base]
  BY <1>6, SumDef DEF Base
<1> HIDE DEF h
<1>8. \A T \in SUBSET Base : h[T] = SumStep(h, T, b, s)
  BY <1>7 DEF SumSteps, Base
<1>9. h[{}] \in Nat
  BY <1>8 DEF SumStep
<1>10. ASSUME NEW T \in SUBSET Base, T # {}, h[T \ {Ch[T]}] \in Nat PROVE h[T] \in Nat
  <2>1. s[Ch[T]] \in Nat
    BY <1>1, <1>3, <1>10 DEF Base
  <2>2. h[T] = h[T \ {Ch[T]}] + s[Ch[T]]
    BY <1>3, <1>8, <1>10, Zenon DEF SumStep
  <2> QED
    BY <1>10, <2>1, <2>2
<1>11. h[Base] \in Nat
  BY <1>2, <1>3, <1>9, <1>10, FoldStays
<1> QED
  BY <1>7, <1>11

\* Bit by bit: a fold over the places of the bits.
OrBit(n, k) == (n \div 2^k) % 2
OrBits(a, b) == [k \in 0 .. 7 |-> 2^k * (IF OrBit(a, k) + OrBit(b, k) > 0 THEN 1 ELSE 0)]
AnyOf(T) == CHOOSE k \in T : TRUE
OrStep(f, T, s) == IF T = {} THEN 0 ELSE s[AnyOf(T)] + f[T \ {AnyOf(T)}]
OrSteps(f, s) == f = [T \in SUBSET (DOMAIN s) |-> OrStep(f, T, s)]

\* Or is such a fold's value for all eight places.
LEMMA OrDef ==
  ASSUME NEW a, NEW b
  PROVE  Or(a, b) = (CHOOSE f : OrSteps(f, OrBits(a, b)))[DOMAIN OrBits(a, b)] + 256 * (a \div 256)
BY DEF Or, FoldFunction, FoldFunctionOnSet, MapThenFoldSet, OrSteps, OrStep, OrBits, OrBit, AnyOf

\* A byte's bits make up a number.
LEMMA OrIsNumber == ASSUME NEW a \in Nat, NEW b \in Nat PROVE Or(a, b) \in Nat
<1> DEFINE s == OrBits(a, b)
           Base == 0 .. 7
           Ch == [T \in SUBSET Base |-> AnyOf(T)]
           Op == [p \in Base \X Nat |-> s[p[1]] + p[2]]
<1>1. DOMAIN s = Base /\ \A k \in Base : s[k] \in Nat
  <2>1. /\ 2^0 \in Nat /\ 2^1 \in Nat /\ 2^2 \in Nat /\ 2^3 \in Nat /\ 2^4 \in Nat /\ 2^5 \in Nat
        /\ 2^6 \in Nat /\ 2^7 \in Nat
    BY SMT
  <2>2. ASSUME NEW k \in Base PROVE 2^k \in Nat
    <3>1. k = 0 \/ k = 1 \/ k = 2 \/ k = 3 \/ k = 4 \/ k = 5 \/ k = 6 \/ k = 7
      OBVIOUS
    <3> QED
      BY <2>1, <3>1, Zenon
  <2>3. ASSUME NEW k \in Base PROVE s[k] \in Nat
    <3>1. s[k] = 2^k * (IF OrBit(a, k) + OrBit(b, k) > 0 THEN 1 ELSE 0)
      BY DEF OrBits
    <3>2. \A p \in Nat : p * 1 \in Nat /\ p * 0 \in Nat
      OBVIOUS
    <3> QED
      BY <2>2, <3>1, <3>2, Zenon
  <2> QED
    BY <2>3 DEF OrBits
<1>2. IsFiniteSet(Base)
  <2>1. 0 \in Int /\ 7 \in Int
    OBVIOUS
  <2>2. \A m, n \in Int : IsFiniteSet(m .. n)
    BY FS_Interval
  <2> QED
    BY <2>1, <2>2, Zenon
<1>3. \A T \in SUBSET Base : T # {} => Ch[T] = AnyOf(T) /\ Ch[T] \in T
  BY DEF AnyOf
<1>4. \A x \in Base, g \in Nat : Op[<<x, g>>] = s[x] + g /\ Op[<<x, g>>] \in Nat
  BY <1>1
<1> HIDE DEF Base, Ch, Op, s
<1>5. PICK f : Folded(f, Base, Ch, Nat, 0, Op)
  <2>1. Foldable(Base, Ch, Nat, 0, Op)
    BY <1>2, <1>3, <1>4 DEF Foldable
  <2> QED
    BY <2>1, FoldExists
<1>6. OrSteps(f, s)
  <2>1. ASSUME NEW T \in SUBSET Base, T # {} PROVE f[T] = s[AnyOf(T)] + f[T \ {AnyOf(T)}]
    <3>1. Ch[T] \in Base /\ f[T \ {Ch[T]}] \in Nat
      BY <1>3, <1>5, <2>1 DEF Folded
    <3> QED
      BY <1>3, <1>4, <1>5, <2>1, <3>1 DEF Folded
  <2>2. \A T \in SUBSET Base : f[T] = OrStep(f, T, s)
    BY <1>5, <2>1 DEF OrStep, Folded
  <2>3. f = [T \in SUBSET Base |-> f[T]]
    BY <1>5 DEF Folded
  <2> QED
    BY <1>1, <2>2, <2>3 DEF OrSteps
<1> DEFINE h == CHOOSE h : OrSteps(h, s)
<1>7. OrSteps(h, s) /\ Or(a, b) = h[Base] + 256 * (a \div 256)
  BY <1>1, <1>6, OrDef DEF s
<1> HIDE DEF h
<1>8. \A T \in SUBSET Base : h[T] = OrStep(h, T, s)
  BY <1>1, <1>7 DEF OrSteps
<1>9. h[{}] \in Nat
  BY <1>8 DEF OrStep
<1>10. ASSUME NEW T \in SUBSET Base, T # {}, h[T \ {Ch[T]}] \in Nat PROVE h[T] \in Nat
  <2>1. s[Ch[T]] \in Nat
    BY <1>1, <1>3, <1>10
  <2>2. h[T] = s[Ch[T]] + h[T \ {Ch[T]}]
    BY <1>3, <1>8, <1>10, Zenon DEF OrStep
  <2> QED
    BY <1>10, <2>1, <2>2
<1>11. h[Base] \in Nat
  BY <1>2, <1>3, <1>9, <1>10, FoldStays
<1>12. 256 * (a \div 256) \in Nat
  OBVIOUS
<1> QED
  BY <1>7, <1>11, <1>12

\* One digit after the other.
ParseStep(f, T, b, s) == IF T = {} THEN b ELSE Or(16 * f[T \ {Max(T)}], Digit(s[Max(T)]))
ParseSteps(f, b, s) == f = [T \in SUBSET (DOMAIN s) |-> ParseStep(f, T, b, s)]

\* ParseAddress is its value for all digits.
LEMMA ParseDef ==
  ASSUME NEW b, NEW s
  PROVE  ParseAddress(s, b) = (CHOOSE f : ParseSteps(f, b, s))[DOMAIN s]
BY DEF ParseAddress, FoldLeft, MapThenFoldSet, ParseSteps, ParseStep

\* What the manifest's parser takes for an address is a number.
LEMMA AddressIsNumber == ASSUME NEW s \in Seq(0 .. 15), NEW b \in Nat PROVE ParseAddress(s, b) \in Nat
<1> DEFINE Base == DOMAIN s
           Ch == [T \in SUBSET Base |-> Max(T)]
           Op == [p \in Base \X Nat |-> Or(16 * p[2], Digit(s[p[1]]))]
<1>1. Base = 1 .. Len(s) /\ \A i \in Base : Digit(s[i]) \in Nat
  BY DEF Digit
<1>2. IsFiniteSet(Base) /\ Base \subseteq Int
  BY <1>1, FS_Interval
<1>3. \A T \in SUBSET Base : T # {} => Ch[T] = Max(T) /\ Ch[T] \in T
  BY <1>2, MaxIn
<1>4. ASSUME NEW x \in Base, NEW g \in Nat
      PROVE  Op[<<x, g>>] = Or(16 * g, Digit(s[x])) /\ Or(16 * g, Digit(s[x])) \in Nat
  <2>1. 16 * g \in Nat
    OBVIOUS
  <2> QED
    BY <1>1, <2>1, OrIsNumber
<1> HIDE DEF Base, Ch, Op
<1>5. PICK f : Folded(f, Base, Ch, Nat, b, Op)
  <2>1. Foldable(Base, Ch, Nat, b, Op)
    BY <1>2, <1>3, <1>4 DEF Foldable
  <2> QED
    BY <2>1, FoldExists
<1>6. ParseSteps(f, b, s)
  <2>1. ASSUME NEW T \in SUBSET Base, T # {} PROVE f[T] = Or(16 * f[T \ {Max(T)}], Digit(s[Max(T)]))
    <3>1. Ch[T] \in Base /\ f[T \ {Ch[T]}] \in Nat
      BY <1>3, <1>5, <2>1 DEF Folded
    <3> QED
      BY <1>3, <1>4, <1>5, <2>1, <3>1 DEF Folded
  <2>2. \A T \in SUBSET Base : f[T] = ParseStep(f, T, b, s)
    BY <1>5, <2>1 DEF ParseStep, Folded
  <2>3. f = [T \in SUBSET Base |-> f[T]]
    BY <1>5 DEF Folded
  <2> QED
    BY <2>2, <2>3 DEF ParseSteps, Base
<1> DEFINE h == CHOOSE h : ParseSteps(h, b, s)
<1>7. ParseSteps(h, b, s) /\ ParseAddress(s, b) = h[Base]
  BY <1>6, ParseDef DEF Base
<1> HIDE DEF h
<1>8. \A T \in SUBSET Base : h[T] = ParseStep(h, T, b, s)
  BY <1>7 DEF ParseSteps, Base
<1>9. h[{}] \in Nat
  BY <1>8 DEF ParseStep
<1>10. ASSUME NEW T \in SUBSET Base, T # {}, h[T \ {Ch[T]}] \in Nat PROVE h[T] \in Nat
  <2>1. Ch[T] \in Base
    BY <1>3, <1>10
  <2>2. h[T] = Or(16 * h[T \ {Ch[T]}], Digit(s[Ch[T]]))
    BY <1>3, <1>8, <1>10, Zenon DEF ParseStep
  <2> QED
    BY <1>4, <1>10, <2>1, <2>2
<1>11. h[Base] \in Nat
  BY <1>2, <1>3, <1>9, <1>10, FoldStays
<1> QED
  BY <1>7, <1>11

(***************************************************************************)
(* What a card does while it is brought up.                                *)
(***************************************************************************)
\* The commands that the card may still let go by or lose.
Slack(c, f, n) == c.warm + (MaxFaults - f) <= n
Delays(n) == Slack(card, faults, n)

Fresh == card.warm \in WarmUp
Waiting == SDHCtype /\ selected

CardUp == ~ (typeMissed /\ kind = "SDHC") => card.state = "ready" /\ SDHCtype = (kind = "SDHC")

SdStage ==
  /\ kind = "none" => sd.at \in {"off", "reset", "dead"}
  /\ kind # "SDHC" => card.block = SectorBytes
  /\ typeMissed => faults # 0
  /\ sd.at \in {"off", "reset", "cmd8"} => Fresh
  /\ sd.at \in {"reset", "cmd8", "cmd1", "cmd55", "cmd41", "cmd58"} => Waiting
  /\ sd.at = "reset" => sd.i \in 2 .. ResetLoop - 1
  /\ sd.at = "cmd8" => card.state = "idle"
  /\ sd.at = "cmd1" => /\ sd.i \in 1 .. OldInitLoop - 1
                       /\ IF kind = "SDHC" THEN typeMissed
                          ELSE IF card.state = "ready" THEN card.warm = 0 ELSE card.state = "idle" /\ Delays(sd.i - 1)
  /\ sd.at \in {"cmd55", "cmd41", "cmd58"} =>
       /\ kind \in {"V2", "SDHC"}
       /\ sd.i \in 2 .. TypeLoop - 1 /\ sd.j \in 1 .. InitLoop - 1
  /\ sd.at = "cmd55" => IF card.state = "ready" THEN typeMissed ELSE card.state = "idle" /\ Delays(sd.j - 1)
  /\ sd.at = "cmd41" => card.state = "idle" /\ card.app /\ Delays(sd.j - 1)
  /\ sd.at = "cmd58" => card.state = "ready"
  /\ sd.at = "cmd16" => CardUp /\ selected
  /\ sd.at = "up" => CardUp

SdInv == SdType /\ SdStage

(***************************************************************************)
(* What the FAT reader knows.                                              *)
(***************************************************************************)
RightType == SDHCtype = (kind = "SDHC")
Found == RightType /\ drive = Own(volume) /\ volume.recognised /\ volume.start < SwapRange

NoManifest == ~ (sector_buffer.is = "dir" /\ ManifestName \in volume.dir[sector_buffer.n])
BufferNames == sector_buffer.is = "dir" => sector_buffer.n \in DOMAIN volume.dir

Untouched(g) == drive = [g EXCEPT !.fat32 = drive.fat32]
Stray == drive.fat32 => volume.fat32 /\ ~ volume.recognised

LoadedSoFar(name, to, n) == \A k \in 0 .. n - 1 : to + k \in DOMAIN memory /\ memory[to + k] = Piece(name, k)

Buffered == buffered_fat_index # -1 => sector_buffer = Sector("fat", "", buffered_fat_index)

Holding(c, name, n) == c \in DOMAIN volume.link /\ volume.holds[c] = Piece(name, n)

Total == SectorsIn(volume.files[fat.name].size)

AtData == /\ fat.name \in DOMAIN volume.files
          /\ fat.cluster \in Nat /\ fat.sector \in Nat /\ fat.left > 0 /\ fat.left = Total - fat.sector /\ ~ fat.ok
          /\ ~ misled => /\ Buffered /\ LoadedSoFar(fat.name, fat.to, fat.sector)
                         /\ Holding(fat.cluster, fat.name, fat.sector - (fat.sector % volume.clusterSize))

AtLink == /\ fat.name \in DOMAIN volume.files
          /\ fat.cluster \in Nat /\ fat.sector \in Nat /\ fat.sector % volume.clusterSize = 0
          /\ fat.left = Total - fat.sector /\ (fat.ok <=> fat.left = 0)
          /\ ~ misled => /\ Buffered /\ LoadedSoFar(fat.name, fat.to, fat.sector)
                         /\ Holding(fat.cluster, fat.name, fat.sector - volume.clusterSize)

AtDir == /\ buffered_fat_index = -1 /\ ~ fat.ok
         /\ fat.cluster \in {volume.rootCluster, 0}
         /\ fat.left \in Nat

Returned == fat.ok /\ ~ misled => fat.name \in DOMAIN volume.files /\ LoadedSoFar(fat.name, fat.to, Total)

InFile == /\ fat.at = "dir" => AtDir
          /\ fat.at = "data" => AtData
          /\ fat.at = "link" => AtLink
          /\ fat.at = "returned" => Returned

Astray == /\ fat.at \in {"dir", "returned"} /\ ~ fat.ok /\ fat.name = ManifestName
          /\ boot.at \in {"manifest", "ended"} /\ NoManifest
          /\ RightType => \E g \in Geometries :
               /\ Untouched(g) /\ Stray
               /\ fat.at = "dir" =>
                    /\ fat.cluster \in StrayClusters(volume, g)
                    /\ \/ \A i \in 0 .. fat.left - 1 : fat.sector + i \in StrayRoot(volume, g)
                       \/ drive.fat32 /\ \A i \in 0 .. fat.left - 1 : fat.sector + i \in StrayData(volume, g)

Loading == {"dir", "data", "link", "returned"}

Stages == /\ boot.at \in {"start", "card"} => fat.at = "idle"
          /\ boot.at = "drive" => fat.at \in {"find", "partition", "found", "nothing"}
          /\ boot.at \in {"manifest", "image"} => fat.at \in Loading
          /\ boot.at \in {"parse", "lost", "started", "halted"} => fat.at = "returned"
          /\ boot.at = "ended" => fat.at \in {"returned", "idle"}
          /\ boot.at = "start" => sd.at = "off"
          /\ boot.at \notin {"start", "card", "ended"} => sd.at = "up"
          /\ boot.at = "parse" => boot.line \in DOMAIN Manifest /\ boot.ptr \in {0, 43}
          /\ boot.at \in {"manifest", "parse", "image"} => boot.line \in DOMAIN Manifest
          /\ boot.at \in {"start", "card", "drive", "manifest"} => boot.line = 1 /\ boot.ptr = 0
          /\ boot.at = "image" => Line.is = "load"
          /\ fat.at \in Loading => fat.to \in Nat

\* A card that is not large is never taken for one.
TypeKnown == /\ kind \in Kinds /\ SDHCtype \in BOOLEAN
             /\ sd.at \in {"cmd16", "up"} => (SDHCtype => kind = "SDHC")

Shapes == /\ DOMAIN fat = {"at", "name", "to", "cluster", "sector", "left", "ok"}
          /\ DOMAIN boot = {"at", "line", "ptr"} /\ DOMAIN sd = {"at", "i", "j"}
          /\ rom = "RS232" => boot.at = "start"

Numeric == /\ drive \in Drives
           /\ fat.at = "dir" => fat.sector \in Int /\ fat.cluster \in Nat

Basics == FatType /\ TypeKnown /\ Shapes /\ Stages /\ BufferNames /\ Numeric

Before == fat.at \notin Loading =>
            /\ NoManifest
            /\ fat.at # "found" => \E g \in Geometries : Untouched(g) /\ (fat.at \in {"nothing", "partition"} => Stray)
            /\ fat.at = "found" => Found \/ ~ RightType

After == fat.at \in Loading => IF Found THEN InFile ELSE Astray

FatInv == Basics /\ Before /\ After

(***************************************************************************)
(* With nothing lost.                                                      *)
(***************************************************************************)
Reachable == volume.start < SwapRange /\ (kind # "SDHC" => CardSectors <= ByteAddresses)
Clean == faults = 0 /\ Reachable

Ahead == \A n \in 0 .. drive.root_directory_size - 1 :
           fat.name \in volume.dir[n] => n >= fat.sector - drive.root_directory_start

Searching == /\ fat.cluster = volume.rootCluster
             /\ fat.sector = drive.root_directory_start + drive.root_directory_size - fat.left
             /\ fat.left <= drive.root_directory_size
             /\ Ahead

CleanInv ==
  /\ fat.at \notin Loading => ~ misled
  /\ Clean =>
       /\ volume.recognised => fat.at # "nothing" /\ (fat.at \in {"found"} \cup Loading => Found)
       /\ ~ misled
       /\ fat.at = "dir" /\ Found => Searching
       /\ fat.at = "returned" /\ Found => (fat.ok <=> fat.name \in DOMAIN volume.files)

(***************************************************************************)
(* The manifest.                                                           *)
(***************************************************************************)
Passed(i) == i \in 1 .. boot.line - 1
Taken == IF boot.at = "image" THEN boot.line ELSE boot.line - 1
Lasting(i) == /\ Passed(i) /\ Manifest[i].is = "load" /\ Manifest[i].name \in DOMAIN volume.files
              /\ \A k \in i + 1 .. Taken : Manifest[k].is = "load" => Manifest[k].digits # Manifest[i].digits

Round == \E l \in DOMAIN Manifest :
           /\ Manifest[l].is = "L" /\ boot.line <= l /\ boot.at # "started"
           /\ \A i \in 1 .. l - 1 : Manifest[i].is \in {"#", "load"}

Onward == /\ \A i \in 1 .. boot.line - 1 : Manifest[i].is \in {"#", "load"}
          /\ boot.at = "parse" => boot.ptr = 0
          /\ boot.at = "image" => fat.to = Address0(Line) /\ fat.name = Line.name
          /\ \A i \in 1 .. boot.line - 1 : Lasting(i) /\ i \notin missed => ExactlyLoaded(Manifest[i].name, Address0(Manifest[i]))
          /\ Clean => \A i \in 1 .. boot.line - 1 : Manifest[i].is = "load" /\ Manifest[i].name \in DOMAIN volume.files => i \notin missed

StartInv == Round \/ Onward

-----------------------------------------------------------------------------
\* The card is known for what it is.

\* The numbers a card is described with.
LEMMA SdNumbers ==
  /\ SectorBytes \in Nat \ {0} /\ ByteAddresses \in Nat \ {0, 1} /\ MaxFaults \in Nat
  /\ InitLoop \in Nat \ {0, 1} /\ TypeLoop \in Nat \ {0, 1, 2} /\ WarmUp \subseteq Nat
  /\ Kinds \subseteq {"none", "V1", "V2", "SDHC"} /\ CardSectors \in Nat
BY SdAssumption DEF SdAssumption

Cards == [state : {"native", "idle", "ready"}, app : BOOLEAN, warm : Nat, block : Nat]
Spots == [at : {"off", "reset", "cmd8", "cmd1", "cmd55", "cmd41", "cmd58", "cmd16", "up", "dead"}, i : Nat, j : Nat]

\* A product of natural numbers is one.
LEMMA Times ==
  ASSUME NEW a \in Int, NEW b \in Int, NEW s \in Nat, a <= b
  PROVE  a * s <= b * s /\ a * s \in Int /\ b * s \in Int
<1>1. (b - a) * s >= 0
  OBVIOUS
<1>2. (b - a) * s = b * s - a * s
  OBVIOUS
<1> QED
  BY <1>1, <1>2

\* Quotient and remainder by the length of a sector.
LEMMA WholeAndRest ==
  ASSUME NEW n \in Int, NEW s \in Nat, s > 0
  PROVE  n = (n \div s) * s + (n % s) /\ n \div s \in Int /\ n % s \in 0 .. s - 1
OBVIOUS

\* Quotient and remainder by any length.
LEMMA WholeAndRestOf ==
  ASSUME NEW n \in Int, NEW s \in Nat, s > 0, NEW q \in Int, NEW r \in 0 .. s - 1, n = q * s + r
  PROVE  n \div s = q /\ n % s = r
<1> DEFINE d == n \div s
           e == n % s
<1>1. n = d * s + e /\ d \in Int /\ e \in 0 .. s - 1
  BY WholeAndRest
<1> HIDE DEF d, e
<1>2. d = q
  <2>1. CASE d < q
    <3>1. (d + 1) * s <= q * s
      BY <1>1, <2>1, Times
    <3>2. (d + 1) * s = d * s + s
      BY <1>1
    <3>3. d * s \in Int /\ q * s \in Int
      BY <1>1
    <3> QED
      BY <1>1, <3>1, <3>2, <3>3
  <2>2. CASE q < d
    <3>1. (q + 1) * s <= d * s
      BY <1>1, <2>2, Times
    <3>2. (q + 1) * s = q * s + s
      BY <1>1
    <3>3. d * s \in Int /\ q * s \in Int
      BY <1>1
    <3> QED
      BY <1>1, <3>1, <3>2, <3>3
  <2> QED
    BY <1>1, <2>1, <2>2
<1>3. q * s \in Int
  OBVIOUS
<1> QED
  BY <1>1, <1>2, <1>3 DEF d, e

\* A byte address of 32 bits names a sector up to a multiple of those it reaches.
LEMMA ByteAddress ==
  ASSUME NEW lba \in Int
  PROVE  /\ Address(lba, FALSE) = (lba % ByteAddresses) * SectorBytes
         /\ Address(lba, FALSE) \div SectorBytes = lba % ByteAddresses
         /\ Address(lba, FALSE) % SectorBytes = 0
         /\ lba % ByteAddresses \in 0 .. ByteAddresses - 1
<1> DEFINE s == SectorBytes
           b == ByteAddresses
           q == lba \div b
           e == lba % b
<1>1. s \in Nat /\ s > 0 /\ b \in Nat /\ b > 0
  BY SdNumbers
<1>2. lba = q * b + e /\ q \in Int /\ e \in 0 .. b - 1
  BY <1>1, WholeAndRest
<1> HIDE DEF q, e, s, b
<1>3. b * s \in Nat /\ b * s > 0
  BY <1>1
<1>4. e * s \in 0 .. b * s - 1
  <2>1. 0 * s <= e * s /\ e * s <= (b - 1) * s /\ e * s \in Int
    BY <1>1, <1>2, Times
  <2>2. (b - 1) * s = b * s - s
    BY <1>1
  <2> QED
    BY <1>1, <1>3, <2>1, <2>2
<1>5. lba * s = q * (b * s) + e * s
  <2>1. lba * s = (q * b + e) * s
    BY <1>2
  <2>2. (q * b + e) * s = (q * b) * s + e * s
    BY <1>1, <1>2
  <2>3. (q * b) * s = q * (b * s)
    BY <1>1, <1>2
  <2> QED
    BY <2>1, <2>2, <2>3
<1>6. (lba * s) % (b * s) = e * s
  BY <1>1, <1>2, <1>3, <1>4, <1>5, WholeAndRestOf
<1>7. (e * s) \div s = e /\ (e * s) % s = 0
  <2>1. e * s = e * s + 0 /\ 0 \in 0 .. s - 1 /\ e * s \in Int
    BY <1>1, <1>4
  <2> QED
    BY <1>1, <1>2, <2>1, WholeAndRestOf
<1> QED
  BY <1>2, <1>6, <1>7 DEF Address, e, s, b

\* Nothing is known of a card that has not been asked.
LEMMA CardStarts ==
  ASSUME SdInit
  PROVE  SdInv
<1>1. card.state = "native" /\ card.warm \in WarmUp /\ card.block = SectorBytes /\ sd.at = "off"
  BY DEF SdInit
<1>2. card \in Cards
  BY SdNumbers DEF SdInit, Cards
<1>3. sd \in Spots
  BY DEF SdInit, Spots
<1>4. SdType
  <2>1. selected \in BOOLEAN /\ SDHCtype \in BOOLEAN /\ typeMissed \in BOOLEAN /\ kind \in Kinds
    BY DEF SdInit
  <2>2. faults \in 0 .. MaxFaults
    BY SdNumbers DEF SdInit
  <2> QED
    BY <1>2, <1>3, <2>1, <2>2, Zenon DEF SdType, Cards, Spots
<1> QED
  BY <1>1, <1>4 DEF SdInit, SdInv, SdStage, Fresh

\* spi_init keeps what is known of the card.
LEMMA SpiInitKeeps ==
  ASSUME SdInv, SpiInit
  PROVE  SdInv'
<1>0. sd \in Spots
  BY DEF SdInv, SdType, Spots
<1>1. sd' \in Spots /\ sd'.at = "reset" /\ sd'.i = 7
  <2>1. ResetLoop - 1 = 7
    BY DEF ResetLoop
  <2>2. sd' = [sd EXCEPT !.at = "reset", !.i = 7]
    BY <2>1 DEF SpiInit
  <2> QED
    BY <1>0, <2>2 DEF Spots
<1>2. SdType'
  BY <1>1 DEF SpiInit, SdInv, SdType, Spots
<1> QED
  BY <1>1, <1>2 DEF SpiInit, SdInv, SdStage, Fresh, Waiting, ResetLoop

\* What a command leaves of the card.
LEMMA CommandKeeps ==
  ASSUME SdInv, NEW cmd, cmd # "CMD16", NEW lba, NEW r, cmd_write(cmd, lba, r)
  PROVE  /\ card' \in Cards /\ (kind # "SDHC" => card'.block = SectorBytes)
         /\ faults' \in 0 .. MaxFaults /\ faults' >= faults /\ typeMissed' \in BOOLEAN
         /\ typeMissed' => faults' # 0
         /\ kind = "none" => r = NoAnswer
<1> DEFINE arg == Address(lba, SDHCtype)
           c == AfterCommand(cmd, arg)
<1>1. card \in Cards /\ faults \in 0 .. MaxFaults /\ typeMissed \in BOOLEAN /\ (typeMissed => faults # 0)
      /\ (kind # "SDHC" => card.block = SectorBytes)
  BY DEF SdInv, SdType, SdStage, Cards
<1>2. [card EXCEPT !.app = FALSE] \in Cards /\ [card EXCEPT !.app = FALSE].block = card.block
  BY <1>1 DEF Cards
<1>3. [card EXCEPT !.app = TRUE] \in Cards /\ [card EXCEPT !.app = TRUE].block = card.block
  BY <1>1 DEF Cards
<1>4. [card EXCEPT !.state = "idle", !.app = FALSE] \in Cards /\ [card EXCEPT !.state = "idle", !.app = FALSE].block = card.block
  BY <1>1 DEF Cards
<1>5. [card EXCEPT !.state = "ready", !.app = FALSE] \in Cards /\ [card EXCEPT !.state = "ready", !.app = FALSE].block = card.block
  BY <1>1 DEF Cards
<1>6. [card EXCEPT !.warm = IF @ = 0 THEN 0 ELSE @ - 1, !.app = FALSE] \in Cards
      /\ [card EXCEPT !.warm = IF @ = 0 THEN 0 ELSE @ - 1, !.app = FALSE].block = card.block
  <2> DEFINE w == IF card.warm = 0 THEN 0 ELSE card.warm - 1
  <2>1. w \in Nat
    BY <1>1 DEF Cards
  <2> HIDE DEF w
  <2>2. [card EXCEPT !.warm = w, !.app = FALSE] \in Cards /\ [card EXCEPT !.warm = w, !.app = FALSE].block = card.block
    BY <1>1, <2>1 DEF Cards
  <2> QED
    BY <2>2, Zenon DEF w
<1>7. c \in Cards /\ c.block = card.block
  BY <1>1, <1>2, <1>3, <1>4, <1>5, <1>6, Zenon DEF AfterCommand
<1>8. kind = "none" => Answer(cmd, arg) = NoAnswer
  BY DEF Answer
<1>9. card' \in {card, c} /\ (r = Answer(cmd, arg) \/ r = NoAnswer)
  BY DEF cmd_write
<1>10. CASE UNCHANGED <<faults, typeMissed>>
  BY <1>1, <1>7, <1>8, <1>9, <1>10, SdNumbers
<1>11. CASE faults < MaxFaults /\ faults' = faults + 1 /\ typeMissed' = (typeMissed \/ TellsType(cmd, arg))
  <2>1. typeMissed' \in BOOLEAN
    BY <1>11
  <2> QED
    BY <1>1, <1>7, <1>8, <1>9, <1>11, <2>1, SdNumbers
<1> QED
  BY <1>10, <1>11 DEF cmd_write

\* CMD0, repeated, keeps it.
LEMMA ResetKeeps ==
  ASSUME WarmsUpInTime, SdInv, Reset
  PROVE  SdInv'
<1>1. PICK r \in Answers :
        /\ cmd_write("CMD0", 0, r)
        /\ sd' = IF r = 1 THEN [sd EXCEPT !.at = "cmd8"]
                 ELSE IF sd.i = 2 THEN [sd EXCEPT !.at = "dead"]
                 ELSE [sd EXCEPT !.i = @ - 1]
  BY DEF Reset
<1>2. /\ card' \in Cards /\ (kind # "SDHC" => card'.block = SectorBytes)
      /\ faults' \in 0 .. MaxFaults /\ faults' >= faults /\ typeMissed' \in BOOLEAN
      /\ typeMissed' => faults' # 0
      /\ kind = "none" => r = NoAnswer
  BY <1>1, CommandKeeps
<1>3. sd.at = "reset" /\ sd \in Spots /\ sd.i \in 2 .. ResetLoop - 1 /\ Waiting /\ Fresh
  BY DEF Reset, SdInv, SdStage, SdType, Spots
<1>4. card'.warm = card.warm /\ (r = 1 => card'.state = "idle")
  <2>1. card' = card \/ card' = [card EXCEPT !.state = "idle", !.app = FALSE]
    BY <1>1, Zenon DEF cmd_write, AfterCommand
  <2>2. r = 1 => card' = [card EXCEPT !.state = "idle", !.app = FALSE]
    BY <1>1 DEF cmd_write, AfterCommand, NoAnswer
  <2> QED
    BY <2>1, <2>2 DEF SdInv, SdType
<1>5. sd' \in Spots /\ (IF r = 1 THEN sd'.at = "cmd8" ELSE sd'.at = "dead" \/ (sd'.at = "reset" /\ sd'.i \in 2 .. ResetLoop - 1))
  BY <1>1, <1>3 DEF Spots, ResetLoop
<1>6. SdType'
  BY <1>2, <1>5 DEF Reset, SdInv, SdType, Cards, Spots
<1>7. kind' = "none" => sd'.at \in {"off", "reset", "dead"}
  BY <1>2, <1>5 DEF Reset, NoAnswer
<1> QED
  BY <1>2, <1>3, <1>4, <1>5, <1>6, <1>7 DEF Reset, SdInv, SdStage, Fresh, Waiting

\* CMD8, which tells the type, keeps it.
LEMMA Cmd8Keeps ==
  ASSUME WarmsUpInTime, SdInv, Cmd8
  PROVE  SdInv'
<1>1. PICK r \in Answers :
        /\ cmd_write("CMD8", 426, r)
        /\ sd' = IF r = 1 /\ Address(426, SDHCtype) = 426
                 THEN [at |-> "cmd55", i |-> TypeLoop - 1, j |-> InitLoop - 1]
                 ELSE [sd EXCEPT !.at = "cmd1", !.i = OldInitLoop - 1]
  BY DEF Cmd8
<1>2. /\ card' \in Cards /\ (kind # "SDHC" => card'.block = SectorBytes)
      /\ faults' \in 0 .. MaxFaults /\ faults' >= faults /\ typeMissed' \in BOOLEAN
      /\ typeMissed' => faults' # 0
      /\ kind = "none" => r = NoAnswer
  BY <1>1, CommandKeeps
<1>3. sd.at = "cmd8" /\ sd \in Spots /\ Waiting /\ Fresh /\ card.state = "idle" /\ kind \in {"V1", "V2", "SDHC"}
  BY SdNumbers DEF Cmd8, SdInv, SdStage, SdType, Spots
<1>4. card'.warm = card.warm /\ card'.state = "idle"
  <2>1. card' = card \/ card' = [card EXCEPT !.app = FALSE]
    BY <1>1, Zenon DEF cmd_write, AfterCommand
  <2> QED
    BY <1>3, <2>1 DEF SdInv, SdType
<1>5. card'.warm \in WarmUp /\ Slack(card', faults', 18) /\ Slack(card', faults', InitLoop - 2)
  <2>1. card'.warm \in Nat /\ card'.warm + MaxFaults < 19 /\ card'.warm + MaxFaults < InitLoop - 1
    <3>1. card.warm \in WarmUp /\ card.warm \in Nat
      BY <1>3, SdNumbers DEF Fresh
    <3>2. OldInitLoop - 1 = 19
      BY DEF OldInitLoop
    <3> QED
      BY <1>4, <3>1, <3>2 DEF WarmsUpInTime
  <2>2. faults' \in Nat /\ faults' <= MaxFaults
    BY <1>2, SdNumbers
  <2>3. card'.warm + (MaxFaults - faults') <= 18 /\ card'.warm + (MaxFaults - faults') <= InitLoop - 2
    BY <2>1, <2>2, SdNumbers
  <2> QED
    BY <1>3, <1>4, <2>3 DEF Slack, Fresh
<1>6. Answer("CMD8", Address(426, SDHCtype)) = IF kind = "V1" THEN 5 ELSE 1
  BY <1>3 DEF Answer, Waiting
<1>7. r = 1 => kind \in {"V2", "SDHC"}
  BY <1>1, <1>3, <1>6 DEF cmd_write, NoAnswer
<1>8. Address(426, SDHCtype) = 426
  BY <1>3 DEF Address, Waiting
<1>9. r # 1 /\ kind = "SDHC" => typeMissed'
  BY <1>1, <1>6 DEF cmd_write, TellsType
<1>10. CASE r = 1
  <2>1. sd' = [at |-> "cmd55", i |-> TypeLoop - 1, j |-> InitLoop - 1]
    BY <1>1, <1>8, <1>10
  <2>2. sd' \in Spots /\ sd'.at = "cmd55" /\ sd'.i \in 2 .. TypeLoop - 1 /\ sd'.j \in 1 .. InitLoop - 1 /\ sd'.j = InitLoop - 1
    BY <2>1, SdNumbers DEF Spots
  <2>3. SdType'
    BY <1>2, <2>2 DEF Cmd8, SdInv, SdType, Cards, Spots
  <2>4. Delays(sd.j - 1)'
    BY <1>5, <2>2, SdNumbers DEF Delays, Slack
  <2> QED
    BY <1>2, <1>3, <1>4, <1>7, <1>10, <2>2, <2>3, <2>4 DEF Cmd8, SdInv, SdStage, Waiting
<1>11. CASE r # 1
  <2>0. OldInitLoop - 1 = 19
    BY DEF OldInitLoop
  <2>1. sd' = [sd EXCEPT !.at = "cmd1", !.i = 19]
    BY <1>1, <1>11, <2>0
  <2>2. sd' \in Spots /\ sd'.at = "cmd1" /\ sd'.i = 19
    BY <1>3, <2>1 DEF Spots
  <2>3. SdType'
    BY <1>2, <2>2 DEF Cmd8, SdInv, SdType, Cards, Spots
  <2>4. Delays(sd.i - 1)'
    BY <1>5, <2>2 DEF Delays, Slack
  <2>5. IF kind' = "SDHC" THEN typeMissed'
        ELSE IF card'.state = "ready" THEN card'.warm = 0 ELSE card'.state = "idle" /\ Delays(sd.i - 1)'
    BY <1>4, <1>9, <1>11, <2>4, Zenon DEF Cmd8
  <2>6. sd'.i \in 1 .. OldInitLoop - 1
    BY <2>0, <2>2
  <2>7. kind' # "none"
    BY <1>3 DEF Cmd8
  <2> QED
    BY <1>2, <1>3, <2>2, <2>3, <2>5, <2>6, <2>7 DEF Cmd8, SdInv, SdStage, Waiting
<1> QED
  BY <1>10, <1>11

\* wait_init's CMD1 keeps it, within its loop.
LEMMA WaitInitKeeps ==
  ASSUME WarmsUpInTime, SdInv, WaitInit
  PROVE  SdInv'
<1>1. PICK r \in Answers :
        /\ cmd_write("CMD1", 0, r)
        /\ IF r = 0 \/ sd.i = 1
           THEN sd' = [sd EXCEPT !.at = "cmd16"] /\ SDHCtype' = FALSE
           ELSE sd' = [sd EXCEPT !.i = @ - 1] /\ UNCHANGED SDHCtype
  BY DEF WaitInit
<1>2. /\ card' \in Cards /\ (kind # "SDHC" => card'.block = SectorBytes)
      /\ faults' \in 0 .. MaxFaults /\ faults' >= faults /\ typeMissed' \in BOOLEAN
      /\ typeMissed' => faults' # 0
      /\ kind = "none" => r = NoAnswer
  BY <1>1, CommandKeeps
<1>3. /\ sd.at = "cmd1" /\ sd \in Spots /\ Waiting /\ kind \in {"V1", "V2", "SDHC"} /\ sd.i \in 1 .. 19
      /\ card \in Cards /\ faults \in 0 .. MaxFaults
      /\ IF kind = "SDHC" THEN typeMissed
         ELSE IF card.state = "ready" THEN card.warm = 0 ELSE card.state = "idle" /\ Delays(sd.i - 1)
  BY SdNumbers DEF WaitInit, SdInv, SdStage, SdType, Spots, Cards, OldInitLoop
<1>4. typeMissed => typeMissed'
  BY <1>1 DEF cmd_write
<1>5. ASSUME kind # "SDHC"
      PROVE  /\ r = 0 \/ sd.i = 1 => card'.state = "ready"
             /\ ~ (r = 0 \/ sd.i = 1) =>
                  IF card'.state = "ready" THEN card'.warm = 0 ELSE card'.state = "idle" /\ Slack(card', faults', sd.i - 2)
  <2> DEFINE a == Answer("CMD1", Address(0, SDHCtype))
             c == AfterCommand("CMD1", Address(0, SDHCtype))
  <2>1. a = IF card.warm = 0 THEN 0 ELSE 1
    BY <1>3, <1>5 DEF Answer, Waiting
  <2>2. card.warm = 0 => c = [card EXCEPT !.state = "ready", !.app = FALSE]
    BY <1>3, <1>5, <2>1 DEF AfterCommand, NoAnswer
  <2>3. card.warm # 0 => c.state = card.state /\ c.warm = card.warm - 1
    <3>1. card.warm # 0 => c = [card EXCEPT !.warm = IF @ = 0 THEN 0 ELSE @ - 1, !.app = FALSE]
      BY <1>3, <1>5, <2>1 DEF AfterCommand, NoAnswer
    <3>2. card.warm # 0 => c = [card EXCEPT !.warm = card.warm - 1, !.app = FALSE]
      BY <3>1, Zenon
    <3> QED
      BY <1>3, <3>2 DEF Cards
  <2>4. card.warm = 0 => c.state = "ready" /\ c.warm = 0
    BY <1>3, <2>2 DEF Cards
  <2>5. CASE r = a /\ card' = c /\ UNCHANGED faults
    <3>1. r = 0 => card'.state = "ready"
      BY <2>1, <2>4, <2>5
    <3>2. sd.i = 1 => card'.state = "ready"
      <4>1. sd.i = 1 => card.warm = 0
        BY <1>3, <1>5, SdNumbers DEF Delays, Slack, Cards
      <4> QED
        BY <4>1, <2>4, <2>5
    <3>3. r # 0 => IF card'.state = "ready" THEN card'.warm = 0 ELSE card'.state = "idle" /\ Slack(card', faults', sd.i - 2)
      BY <1>3, <1>5, <2>1, <2>3, <2>5, SdNumbers DEF Delays, Slack, Cards
    <3> QED
      BY <3>1, <3>2, <3>3
  <2>6. CASE r = NoAnswer /\ faults < MaxFaults /\ card' \in {card, c} /\ faults' = faults + 1
    <3>1. sd.i = 1 => card.state = "ready"
      BY <1>3, <1>5, <2>6, SdNumbers DEF Delays, Slack, Cards
    <3>2. sd.i = 1 => card'.state = "ready"
      BY <1>3, <3>1, <1>5, <2>3, <2>4, <2>6
    <3>3. card' = card => IF card'.state = "ready" THEN card'.warm = 0 ELSE card'.state = "idle" /\ Slack(card', faults', sd.i - 2)
      BY <1>3, <1>5, <2>6, SdNumbers DEF Delays, Slack, Cards
    <3>4. card' = c => IF card'.state = "ready" THEN card'.warm = 0 ELSE card'.state = "idle" /\ Slack(card', faults', sd.i - 2)
      BY <1>3, <1>5, <2>3, <2>4, <2>6, SdNumbers DEF Delays, Slack, Cards
    <3> QED
      BY <2>6, <3>2, <3>3, <3>4 DEF NoAnswer
  <2> QED
    BY <1>1, <2>5, <2>6 DEF cmd_write
<1>6. CASE r = 0 \/ sd.i = 1
  <2>1. sd' = [sd EXCEPT !.at = "cmd16"] /\ SDHCtype' = FALSE
    BY <1>1, <1>6
  <2>2. sd' \in Spots /\ sd'.at = "cmd16"
    BY <1>3, <2>1 DEF Spots
  <2>3. SdType'
    BY <1>2, <2>1, <2>2 DEF WaitInit, SdInv, SdType, Cards, Spots
  <2>4. CardUp'
    BY <1>3, <1>4, <1>5, <1>6, <2>1 DEF CardUp, WaitInit
  <2> QED
    BY <1>2, <1>3, <2>2, <2>3, <2>4 DEF WaitInit, SdInv, SdStage, Waiting
<1>7. CASE ~ (r = 0 \/ sd.i = 1)
  <2>1. sd' = [sd EXCEPT !.i = sd.i - 1] /\ UNCHANGED SDHCtype
    BY <1>1, <1>7
  <2>0. sd.i - 1 \in Nat /\ sd.i - 1 \in 1 .. 19
    BY <1>3, <1>7
  <2>2. sd' \in Spots /\ sd'.at = "cmd1" /\ sd'.i = sd.i - 1
    BY <1>3, <2>1, <2>0 DEF Spots
  <2>3. SdType'
    BY <1>2, <2>1, <2>2 DEF WaitInit, SdInv, SdType, Cards, Spots
  <2>4. OldInitLoop - 1 = 19
    BY DEF OldInitLoop
  <2>5. Slack(card', faults', sd.i - 2) => Delays(sd.i - 1)'
    BY <1>2, <1>3, <2>2, SdNumbers DEF Delays, Slack, Cards
  <2>6. kind # "SDHC" => IF card'.state = "ready" THEN card'.warm = 0 ELSE card'.state = "idle" /\ Delays(sd.i - 1)'
    <3>1. card'.warm \in Nat /\ faults' \in Nat /\ sd.i \in Nat
      BY <1>2, <1>3 DEF Cards
    <3>2. sd'.i - 2 < sd'.i - 1
      BY <2>2, <2>0
    <3> QED
      BY <1>5, <1>7, <2>2, <2>0, <1>3, <3>1, SdNumbers DEF Delays, Slack
  <2> QED
    BY <1>2, <1>3, <1>4, <2>0, <2>1, <2>2, <2>3, <2>4, <2>6 DEF WaitInit, SdInv, SdStage, Waiting
<1> QED
  BY <1>6, <1>7

\* A round of is_sdhc that has not told the type has left a card ready: it has missed an answer.
LEMMA NextRoundKeeps ==
  ASSUME SdInv, kind \in {"V2", "SDHC"}, sd.i \in 2 .. TypeLoop - 1, Waiting,
         card' \in Cards, kind # "SDHC" => card'.block = SectorBytes,
         faults' \in 0 .. MaxFaults, typeMissed' \in BOOLEAN, typeMissed' => faults' # 0,
         card'.state = "ready", typeMissed', NextRound, UNCHANGED <<kind, selected>>
  PROVE  SdInv'
<1>1. sd \in Spots
  BY DEF SdInv, SdType, Spots
<1>2. CASE sd.i = 2
  <2>1. sd' = [sd EXCEPT !.at = "cmd16"] /\ SDHCtype' = FALSE
    BY <1>2 DEF NextRound
  <2>2. sd' \in Spots /\ sd'.at = "cmd16"
    BY <1>1, <2>1 DEF Spots
  <2>3. SdType'
    BY <2>1, <2>2 DEF SdInv, SdType, Cards, Spots
  <2>4. CardUp'
    BY <2>1 DEF CardUp
  <2> QED
    BY <2>2, <2>3, <2>4 DEF SdInv, SdStage, Waiting
<1>3. CASE sd.i # 2
  <2>0. sd.i - 1 \in 2 .. TypeLoop - 1 /\ InitLoop - 1 \in 1 .. InitLoop - 1 /\ sd.i - 1 \in Nat /\ InitLoop - 1 \in Nat
    BY <1>3, SdNumbers
  <2>1. sd' = [at |-> "cmd55", i |-> sd.i - 1, j |-> InitLoop - 1] /\ UNCHANGED SDHCtype
    BY <1>3 DEF NextRound
  <2>2. sd' \in Spots /\ sd'.at = "cmd55" /\ sd'.i = sd.i - 1 /\ sd'.j = InitLoop - 1
    BY <2>0, <2>1 DEF Spots
  <2>3. SdType'
    BY <2>1, <2>2 DEF SdInv, SdType, Cards, Spots
  <2> QED
    BY <2>0, <2>1, <2>2, <2>3 DEF SdInv, SdStage, Waiting
<1> QED
  BY <1>2, <1>3

\* wait_initV2's CMD55 keeps it, within its loop.
LEMMA Cmd55Keeps ==
  ASSUME WarmsUpInTime, SdInv, Cmd55
  PROVE  SdInv'
<1>1. PICK r \in Answers :
        /\ cmd_write("CMD55", 0, r)
        /\ IF r = 1 THEN sd' = [sd EXCEPT !.at = "cmd41"] /\ UNCHANGED SDHCtype
           ELSE IF sd.j = 1 THEN NextRound
           ELSE sd' = [sd EXCEPT !.j = @ - 1] /\ UNCHANGED SDHCtype
  BY DEF Cmd55
<1>2. /\ card' \in Cards /\ (kind # "SDHC" => card'.block = SectorBytes)
      /\ faults' \in 0 .. MaxFaults /\ faults' >= faults /\ typeMissed' \in BOOLEAN
      /\ typeMissed' => faults' # 0
      /\ kind = "none" => r = NoAnswer
  BY <1>1, CommandKeeps
<1>3. /\ sd.at = "cmd55" /\ sd \in Spots /\ Waiting /\ kind \in {"V2", "SDHC"}
      /\ sd.i \in 2 .. TypeLoop - 1 /\ sd.j \in 1 .. InitLoop - 1
      /\ card \in Cards /\ faults \in 0 .. MaxFaults
      /\ IF card.state = "ready" THEN typeMissed ELSE card.state = "idle" /\ Delays(sd.j - 1)
  BY DEF Cmd55, SdInv, SdStage, SdType, Spots, Cards
<1>4. typeMissed => typeMissed'
  BY <1>1 DEF cmd_write
<1>5. Answer("CMD55", Address(0, SDHCtype)) = IF card.state = "ready" THEN 0 ELSE 1
  BY <1>3 DEF Answer, Waiting, Cards
<1>6. AfterCommand("CMD55", Address(0, SDHCtype)) = [card EXCEPT !.app = TRUE]
  BY <1>5 DEF AfterCommand, NoAnswer
<1>7. card'.state = card.state /\ card'.warm = card.warm
  <2>1. card' = card \/ card' = [card EXCEPT !.app = TRUE]
    BY <1>1, <1>6, Zenon DEF cmd_write
  <2> QED
    BY <1>3, <2>1 DEF Cards
<1>8. r = 1 => card.state = "idle" /\ card'.app /\ faults' = faults
  <2>1. r = 1 => card.state = "idle" /\ card' = [card EXCEPT !.app = TRUE] /\ faults' = faults
    BY <1>1, <1>3, <1>5, <1>6 DEF cmd_write, NoAnswer
  <2> QED
    BY <1>3, <2>1 DEF Cards
<1>9. r # 1 /\ card.state = "idle" => faults' = faults + 1 /\ faults < MaxFaults
  BY <1>1, <1>5 DEF cmd_write
<1>10. CASE r = 1
  <2>1. sd' = [sd EXCEPT !.at = "cmd41"] /\ UNCHANGED SDHCtype
    BY <1>1, <1>10
  <2>2. sd' \in Spots /\ sd'.at = "cmd41" /\ sd'.i = sd.i /\ sd'.j = sd.j
    BY <1>3, <2>1 DEF Spots
  <2>3. SdType'
    BY <1>2, <2>1, <2>2 DEF Cmd55, SdInv, SdType, Cards, Spots
  <2>4. Delays(sd.j - 1)'
    BY <1>3, <1>7, <1>8, <1>10, <2>2 DEF Delays, Slack
  <2> QED
    BY <1>2, <1>3, <1>7, <1>8, <1>10, <2>1, <2>2, <2>3, <2>4 DEF Cmd55, SdInv, SdStage, Waiting
<1>11. CASE r # 1 /\ sd.j = 1
  <2>1. card.state = "ready"
    <3>1. card.state # "ready" => card.warm + (MaxFaults - faults) <= 0 /\ faults < MaxFaults
      BY <1>3, <1>9, <1>11 DEF Delays, Slack
    <3> QED
      BY <1>3, <3>1, SdNumbers DEF Cards
  <2>2. NextRound
    BY <1>1, <1>11
  <2> QED
    BY <1>2, <1>3, <1>4, <1>7, <2>1, <2>2, NextRoundKeeps DEF Cmd55
<1>12. CASE r # 1 /\ sd.j # 1
  <2>0. sd.j - 1 \in 1 .. InitLoop - 1 /\ sd.j - 1 \in Nat
    BY <1>3, <1>12, SdNumbers
  <2>1. sd' = [sd EXCEPT !.j = sd.j - 1] /\ UNCHANGED SDHCtype
    BY <1>1, <1>12
  <2>2. sd' \in Spots /\ sd'.at = "cmd55" /\ sd'.i = sd.i /\ sd'.j = sd.j - 1
    BY <1>3, <2>0, <2>1 DEF Spots
  <2>3. SdType'
    BY <1>2, <2>1, <2>2 DEF Cmd55, SdInv, SdType, Cards, Spots
  <2>4. IF card'.state = "ready" THEN typeMissed' ELSE card'.state = "idle" /\ Delays(sd.j - 1)'
    <3>1. card.state # "ready" => Slack(card', faults', sd.j - 2)
      BY <1>3, <1>7, <1>9, <1>12, <2>0, SdNumbers DEF Delays, Slack, Cards
    <3>2. sd'.j - 1 = sd.j - 2
      BY <1>3, <2>2
    <3>3. card.state # "ready" => Delays(sd.j - 1)'
      BY <3>1, <3>2, Zenon DEF Delays
    <3> QED
      BY <1>3, <1>4, <1>7, <3>3, Zenon
  <2> QED
    BY <1>2, <1>3, <2>0, <2>1, <2>2, <2>3, <2>4 DEF Cmd55, SdInv, SdStage, Waiting
<1> QED
  BY <1>10, <1>11, <1>12

\* wait_initV2's ACMD41 keeps it.
LEMMA Cmd41Keeps ==
  ASSUME WarmsUpInTime, SdInv, Cmd41
  PROVE  SdInv'
<1>1. PICK r \in Answers :
        /\ cmd_write("CMD41", 0, r)
        /\ IF r = 0 THEN sd' = [sd EXCEPT !.at = "cmd58"] /\ UNCHANGED SDHCtype
           ELSE IF sd.j = 1 THEN NextRound
           ELSE sd' = [sd EXCEPT !.at = "cmd55", !.j = @ - 1] /\ UNCHANGED SDHCtype
  BY DEF Cmd41
<1>2. /\ card' \in Cards /\ (kind # "SDHC" => card'.block = SectorBytes)
      /\ faults' \in 0 .. MaxFaults /\ faults' >= faults /\ typeMissed' \in BOOLEAN
      /\ typeMissed' => faults' # 0
      /\ kind = "none" => r = NoAnswer
  BY <1>1, CommandKeeps
<1>3. /\ sd.at = "cmd41" /\ sd \in Spots /\ Waiting /\ kind \in {"V2", "SDHC"}
      /\ sd.i \in 2 .. TypeLoop - 1 /\ sd.j \in 1 .. InitLoop - 1
      /\ card \in Cards /\ faults \in 0 .. MaxFaults
      /\ card.state = "idle" /\ card.app /\ Delays(sd.j - 1)
  BY DEF Cmd41, SdInv, SdStage, SdType, Spots, Cards
<1> DEFINE a == Answer("CMD41", Address(0, SDHCtype))
           c == AfterCommand("CMD41", Address(0, SDHCtype))
<1>4. a = IF card.warm = 0 THEN 0 ELSE 1
  BY <1>3 DEF Answer, Waiting
<1>5. card.warm = 0 => c.state = "ready" /\ c.warm = 0
  <2>1. card.warm = 0 => c = [card EXCEPT !.state = "ready", !.app = FALSE]
    BY <1>4 DEF AfterCommand, NoAnswer
  <2> QED
    BY <1>3, <2>1 DEF Cards
<1>6. card.warm # 0 => c.state = "idle" /\ c.warm = card.warm - 1
  <2>1. card.warm # 0 => c = [card EXCEPT !.warm = IF @ = 0 THEN 0 ELSE @ - 1, !.app = FALSE]
    BY <1>4 DEF AfterCommand, NoAnswer
  <2>2. card.warm # 0 => c = [card EXCEPT !.warm = card.warm - 1, !.app = FALSE]
    BY <2>1, Zenon
  <2> QED
    BY <1>3, <2>2 DEF Cards
<1>7. \/ r = a /\ card' = c /\ UNCHANGED <<faults, typeMissed>>
      \/ r = NoAnswer /\ faults < MaxFaults /\ card' \in {card, c} /\ faults' = faults + 1
         /\ typeMissed' = (typeMissed \/ TellsType("CMD41", Address(0, SDHCtype)))
  BY <1>1 DEF cmd_write
<1>8. r = 0 => card'.state = "ready"
  BY <1>4, <1>5, <1>7 DEF NoAnswer
<1>9. r # 0 => IF card'.state = "ready" THEN typeMissed' ELSE card'.state = "idle" /\ Slack(card', faults', sd.j - 2)
  <2>1. ASSUME r # 0, card' = card, faults' = faults + 1
        PROVE  card'.state = "idle" /\ Slack(card', faults', sd.j - 2)
    BY <1>3, <2>1, SdNumbers DEF Delays, Slack, Cards
  <2>2. ASSUME r # 0, card' = c, card.warm # 0, faults' \in {faults, faults + 1}
        PROVE  card'.state = "idle" /\ Slack(card', faults', sd.j - 2)
    BY <1>3, <1>6, <2>2, SdNumbers DEF Delays, Slack, Cards
  <2>3. ASSUME r # 0, card' = c, card.warm = 0
        PROVE  card'.state = "ready" /\ typeMissed'
    BY <1>4, <1>5, <1>7, <2>3 DEF TellsType
  <2> QED
    BY <1>7, <2>1, <2>2, <2>3, Zenon
<1>10. CASE r = 0
  <2>1. sd' = [sd EXCEPT !.at = "cmd58"] /\ UNCHANGED SDHCtype
    BY <1>1, <1>10
  <2>2. sd' \in Spots /\ sd'.at = "cmd58" /\ sd'.i = sd.i /\ sd'.j = sd.j
    BY <1>3, <2>1 DEF Spots
  <2>3. SdType'
    BY <1>2, <2>1, <2>2 DEF Cmd41, SdInv, SdType, Cards, Spots
  <2> QED
    BY <1>2, <1>3, <1>8, <1>10, <2>1, <2>2, <2>3 DEF Cmd41, SdInv, SdStage, Waiting
<1>11. CASE r # 0 /\ sd.j = 1
  <2>1. card'.state = "ready" /\ typeMissed'
    <3>1. ~ Slack(card', faults', -1)
      BY <1>2, SdNumbers DEF Slack, Cards
    <3> QED
      BY <1>9, <1>11, <3>1
  <2>2. NextRound
    BY <1>1, <1>11
  <2> QED
    BY <1>2, <1>3, <2>1, <2>2, NextRoundKeeps DEF Cmd41
<1>12. CASE r # 0 /\ sd.j # 1
  <2>0. sd.j - 1 \in 1 .. InitLoop - 1 /\ sd.j - 1 \in Nat
    BY <1>3, <1>12, SdNumbers
  <2>1. sd' = [sd EXCEPT !.at = "cmd55", !.j = sd.j - 1] /\ UNCHANGED SDHCtype
    BY <1>1, <1>12
  <2>2. sd' \in Spots /\ sd'.at = "cmd55" /\ sd'.i = sd.i /\ sd'.j = sd.j - 1
    BY <1>3, <2>0, <2>1 DEF Spots
  <2>3. SdType'
    BY <1>2, <2>1, <2>2 DEF Cmd41, SdInv, SdType, Cards, Spots
  <2>4. IF card'.state = "ready" THEN typeMissed' ELSE card'.state = "idle" /\ Delays(sd.j - 1)'
    <3>1. sd'.j - 1 = sd.j - 2
      BY <1>3, <2>2
    <3> QED
      BY <1>9, <1>12, <3>1, Zenon DEF Delays
  <2> QED
    BY <1>2, <1>3, <2>0, <2>1, <2>2, <2>3, <2>4 DEF Cmd41, SdInv, SdStage, Waiting
<1> QED
  BY <1>10, <1>11, <1>12

\* CMD58, which tells a large card from a small one, keeps it.
LEMMA Cmd58Keeps ==
  ASSUME WarmsUpInTime, SdInv, Cmd58
  PROVE  SdInv'
<1>1. PICK r \in Answers :
        /\ cmd_write("CMD58", 0, r)
        /\ IF r = 0 THEN sd' = [sd EXCEPT !.at = "cmd16"] /\ SDHCtype' = (kind = "SDHC")
           ELSE NextRound
  BY DEF Cmd58
<1>2. /\ card' \in Cards /\ (kind # "SDHC" => card'.block = SectorBytes)
      /\ faults' \in 0 .. MaxFaults /\ faults' >= faults /\ typeMissed' \in BOOLEAN
      /\ typeMissed' => faults' # 0
      /\ kind = "none" => r = NoAnswer
  BY <1>1, CommandKeeps
<1>3. /\ sd.at = "cmd58" /\ sd \in Spots /\ Waiting /\ kind \in {"V2", "SDHC"}
      /\ sd.i \in 2 .. TypeLoop - 1 /\ card \in Cards /\ card.state = "ready"
  BY DEF Cmd58, SdInv, SdStage, SdType, Spots, Cards
<1>4. Answer("CMD58", Address(0, SDHCtype)) = 0
  BY <1>3 DEF Answer, Waiting
<1>5. AfterCommand("CMD58", Address(0, SDHCtype)) = [card EXCEPT !.app = FALSE]
  BY <1>4 DEF AfterCommand, NoAnswer
<1>6. card'.state = "ready"
  <2>1. card' = card \/ card' = [card EXCEPT !.app = FALSE]
    BY <1>1, <1>5, Zenon DEF cmd_write
  <2> QED
    BY <1>3, <2>1 DEF Cards
<1>7. r # 0 => typeMissed'
  BY <1>1, <1>4 DEF cmd_write, TellsType
<1>8. CASE r = 0
  <2>1. sd' = [sd EXCEPT !.at = "cmd16"] /\ SDHCtype' = (kind = "SDHC")
    BY <1>1, <1>8
  <2>2. sd' \in Spots /\ sd'.at = "cmd16"
    BY <1>3, <2>1 DEF Spots
  <2>3. SDHCtype' \in BOOLEAN
    BY <2>1
  <2>4. SdType'
    BY <1>2, <2>2, <2>3 DEF Cmd58, SdInv, SdType, Cards, Spots
  <2>5. CardUp'
    BY <1>6, <2>1, Zenon DEF CardUp, Cmd58
  <2> QED
    BY <1>2, <1>3, <2>2, <2>4, <2>5 DEF Cmd58, SdInv, SdStage, Waiting
<1>9. CASE r # 0
  <2>1. NextRound
    BY <1>1, <1>9
  <2> QED
    BY <1>2, <1>3, <1>6, <1>7, <1>9, <2>1, NextRoundKeeps DEF Cmd58
<1> QED
  BY <1>8, <1>9

\* CMD16, the length of a block, keeps it.
LEMMA Cmd16Keeps ==
  ASSUME SdInv, Cmd16
  PROVE  SdInv'
<1>1. PICK r \in Answers : cmd_write("CMD16", 1, r)
  BY DEF Cmd16
<1> DEFINE arg == Address(1, SDHCtype)
           c == AfterCommand("CMD16", arg)
<1>2. /\ sd.at = "cmd16" /\ sd \in Spots /\ CardUp /\ selected /\ card \in Cards /\ kind \in Kinds /\ kind # "none"
      /\ faults \in 0 .. MaxFaults /\ typeMissed \in BOOLEAN /\ (typeMissed => faults # 0)
      /\ (kind # "SDHC" => card.block = SectorBytes) /\ SDHCtype \in BOOLEAN
  BY DEF Cmd16, SdInv, SdStage, SdType, Spots, Cards
<1>3. arg \in Nat /\ (kind # "SDHC" => arg = SectorBytes)
  <2>1. kind # "SDHC" => SDHCtype = FALSE
    BY <1>2 DEF CardUp
  <2>2. 1 % ByteAddresses = 1
    BY SdNumbers
  <2>3. Address(1, FALSE) = SectorBytes
    <3>1. Address(1, FALSE) = (1 % ByteAddresses) * SectorBytes
      <4>1. 1 \in Int
        OBVIOUS
      <4> QED
        BY <4>1, ByteAddress, Zenon
    <3>2. 1 * SectorBytes = SectorBytes
      BY SdNumbers
    <3> QED
      BY <2>2, <3>1, <3>2, Zenon
  <2>4. Address(1, TRUE) = 1
    BY DEF Address
  <2>5. arg \in {SectorBytes, 1}
    BY <1>2, <2>3, <2>4, Zenon
  <2>6. kind # "SDHC" => arg = SectorBytes
    BY <2>1, <2>3, Zenon
  <2> QED
    BY <2>5, <2>6, SdNumbers
<1> HIDE DEF arg
<1>4. c \in Cards /\ c.state = card.state /\ (kind # "SDHC" => c.block = SectorBytes)
  <2>1. c \in {card, [card EXCEPT !.block = arg, !.app = FALSE], [card EXCEPT !.app = FALSE]}
    BY Zenon DEF AfterCommand
  <2>2. kind # "SDHC" => c \in {card, [card EXCEPT !.block = arg, !.app = FALSE]}
    BY Zenon DEF AfterCommand
  <2>3. [card EXCEPT !.block = arg, !.app = FALSE] \in Cards /\ [card EXCEPT !.block = arg, !.app = FALSE].block = arg
        /\ [card EXCEPT !.block = arg, !.app = FALSE].state = card.state
    BY <1>2, <1>3 DEF Cards
  <2>4. [card EXCEPT !.app = FALSE] \in Cards /\ [card EXCEPT !.app = FALSE].state = card.state
    BY <1>2 DEF Cards
  <2> QED
    BY <1>2, <1>3, <2>1, <2>2, <2>3, <2>4, Zenon
<1>5. card' \in Cards /\ card'.state = card.state /\ (kind # "SDHC" => card'.block = SectorBytes)
  BY <1>1, <1>2, <1>4, Zenon DEF cmd_write, arg
<1>6. faults' \in 0 .. MaxFaults /\ typeMissed' = typeMissed /\ faults' >= faults
  <2>1. ~ TellsType("CMD16", arg)
    BY DEF TellsType
  <2>2. typeMissed' = typeMissed
    <3>1. typeMissed' = typeMissed \/ typeMissed' = (typeMissed \/ TellsType("CMD16", arg))
      BY <1>1, Zenon DEF cmd_write, arg
    <3> QED
      BY <1>2, <2>1, <3>1
  <2> QED
    BY <1>1, <1>2, <2>2, SdNumbers DEF cmd_write
<1>7. sd' = [sd EXCEPT !.at = "up"] /\ selected' = FALSE /\ UNCHANGED <<kind, SDHCtype>>
  BY DEF Cmd16
<1>8. sd' \in Spots /\ sd'.at = "up"
  BY <1>2, <1>7 DEF Spots
<1>9. SdType'
  BY <1>2, <1>5, <1>6, <1>7, <1>8 DEF SdType, Cards, Spots
<1>10. CardUp'
  BY <1>2, <1>5, <1>6, <1>7, Zenon DEF CardUp
<1> QED
  BY <1>2, <1>5, <1>6, <1>7, <1>8, <1>9, <1>10, SdNumbers DEF SdInv, SdStage

\* Every step of spi_init keeps what is known of the card.
LEMMA CardStep ==
  ASSUME WarmsUpInTime, SdInv, SdNext
  PROVE  SdInv'
BY SpiInitKeeps, ResetKeeps, Cmd8Keeps, WaitInitKeeps, Cmd55Keeps, Cmd41Keeps, Cmd58Keeps, Cmd16Keeps, Zenon DEF SdNext

\* So does a step that leaves the card alone.
LEMMA CardStands ==
  ASSUME SdInv, UNCHANGED sdVars
  PROVE  SdInv'
BY Zenon DEF sdVars, SdInv, SdType, SdStage, Fresh, Waiting, Delays, CardUp

\* Reading sectors leaves card and driver as they are.
Reading == /\ UNCHANGED <<kind, card, SDHCtype, sd, typeMissed>>
           /\ selected' \in BOOLEAN /\ faults' \in 0 .. MaxFaults /\ faults' >= faults

\* And sd_read_sector, which may lose an answer.
LEMMA SectorReads ==
  ASSUME SdInv, NEW lba, NEW got, sd_read_sector(lba, got)
  PROVE  Reading
<1>1. faults \in 0 .. MaxFaults /\ selected \in BOOLEAN
  BY DEF SdInv, SdType
<1>2. faults' \in 0 .. MaxFaults /\ faults' >= faults
  BY <1>1, SdNumbers DEF sd_read_sector
<1>3. selected' \in BOOLEAN
  BY Zenon DEF sd_read_sector
<1> QED
  BY <1>2, <1>3 DEF sd_read_sector, Reading

\* Every step of the FAT reader reads no sector or one.
LEMMA SectorsRead ==
  ASSUME SdInv, FatNext
  PROVE  Reading
<1>1. UNCHANGED sdVars => Reading
  BY SdNumbers DEF sdVars, Reading, SdInv, SdType
<1>2. ASSUME NEW cluster, NEW link, GetCluster(cluster, link)
      PROVE  Reading
  <2>1. UNCHANGED sdVars \/ \E got \in Outcomes(drive.fat_start + LinkSector(cluster)) : sd_read_sector(drive.fat_start + LinkSector(cluster), got)
    BY <1>2, Zenon DEF GetCluster, sdVars
  <2> QED
    BY <1>1, <2>1, SectorReads, Zenon
<1>3. CASE ReadMbr
  BY <1>3, SectorReads, Zenon DEF ReadMbr
<1>4. CASE ReadBoot
  BY <1>4, SectorReads, Zenon DEF ReadBoot
<1>5. CASE DirSector
  BY <1>5, SectorReads, Zenon DEF DirSector
<1>6. CASE DirEnd
  BY <1>6, <1>1, Zenon DEF DirEnd
<1>7. CASE DirLink
  BY <1>7, <1>2, Zenon DEF DirLink
<1>8. CASE DataSector
  BY <1>8, SectorReads, Zenon DEF DataSector
<1>9. CASE DataLink
  BY <1>9, <1>2, Zenon DEF DataLink
<1> QED
  BY <1>3, <1>4, <1>5, <1>6, <1>7, <1>8, <1>9, Zenon DEF FatNext

\* Reading a sector keeps what is known of the card.
LEMMA ReadingKeeps ==
  ASSUME SdInv, Reading, sd.at \in {"off", "up"}
  PROVE  SdInv'
<1>1. SdType'
  BY DEF SdInv, SdType, Reading
<1> QED
  BY <1>1, SdNumbers DEF SdInv, SdType, SdStage, Reading, Fresh, CardUp

\* main() of boot.c reads sectors when the card is up; the other program has no card.
MainStages == /\ DOMAIN boot = {"at", "line", "ptr"}
              /\ boot.at = "start" => sd.at = "off"
              /\ boot.at \notin {"start", "card", "ended"} => sd.at = "up"
              /\ rom = "RS232" => boot.at = "start"

CardInv == SdInv /\ MainStages

\* The invariant holds when the program starts.
LEMMA CardInvStarts == Init => CardInv
<1> SUFFICES ASSUME Init PROVE CardInv
  OBVIOUS
<1>1. SdInv
  BY CardStarts DEF Init
<1>2. boot = [at |-> "start", line |-> 1, ptr |-> 0] /\ sd.at = "off"
  BY DEF Init, SdInit
<1> QED
  BY <1>1, <1>2 DEF CardInv, MainStages

\* Every step of the boot programs keeps it.
LEMMA CardInvStep ==
  ASSUME WarmsUpInTime, CardInv, [Next]_vars
  PROVE  CardInv'
<1>1. SdInv /\ MainStages /\ DOMAIN boot = {"at", "line", "ptr"}
  BY DEF CardInv, MainStages
<1>2. CASE UNCHANGED vars
  <2>1. UNCHANGED sdVars
    BY <1>2 DEF vars
  <2>2. SdInv'
    BY <1>1, <2>1, CardStands
  <2> QED
    BY <1>1, <1>2, <2>2 DEF vars, sdVars, bootVars, CardInv, MainStages
<1>3. CASE SdBoot /\ UNCHANGED rom
  <2>1. rom = "SD"
    BY <1>3 DEF SdBoot
  <2>2. ASSUME CallInit
        PROVE  CardInv'
    <3>1. SpiInit /\ boot' = [boot EXCEPT !.at = "card"]
      BY <2>2 DEF CallInit
    <3>2. SdInv'
      BY <1>1, <3>1, SpiInitKeeps
    <3>3. DOMAIN boot' = {"at", "line", "ptr"} /\ boot'.at = "card"
      BY <1>1, <3>1
    <3> QED
      BY <1>3, <2>1, <3>2, <3>3 DEF CardInv, MainStages
  <2>3. ASSUME boot.at = "card" /\ SdNext /\ UNCHANGED <<fatVars, bootVars>>
        PROVE  CardInv'
    <3>1. SdInv'
      BY <1>1, <2>3, CardStep
    <3> QED
      BY <1>1, <1>3, <2>1, <2>3, <3>1 DEF CardInv, MainStages, bootVars
  <2>4. ASSUME boot.at \in {"drive", "manifest", "image"} /\ FatNext /\ UNCHANGED bootVars
        PROVE  CardInv'
    <3>1. Reading /\ sd.at = "up"
      BY <1>1, <2>4, SectorsRead DEF MainStages
    <3>2. SdInv'
      BY <1>1, <3>1, ReadingKeeps
    <3> QED
      BY <1>1, <1>3, <2>1, <2>4, <3>1, <3>2 DEF CardInv, MainStages, bootVars, Reading
  <2>5. ASSUME NoCard \/ CallFindDrive \/ LoadManifest \/ ManifestLoaded
        PROVE  CardInv'
    <3>1. UNCHANGED sdVars
      BY <2>5, Zenon DEF NoCard, CallFindDrive, LoadManifest, LoadFile, ManifestLoaded, sdVars
    <3>2. SdInv'
      BY <1>1, <3>1, CardStands
    <3>3. \E a \in {"ended", "drive", "manifest", "parse", "lost"} :
            boot' = [boot EXCEPT !.at = a] /\ (a # "ended" => sd.at = "up")
      BY <1>1, <2>5 DEF NoCard, CallFindDrive, LoadManifest, ManifestLoaded, MainStages
    <3>4. DOMAIN boot' = {"at", "line", "ptr"} /\ boot'.at # "start" /\ (boot'.at \notin {"card", "ended"} => sd.at = "up")
      BY <1>1, <3>3
    <3> QED
      BY <1>3, <2>1, <3>1, <3>2, <3>4 DEF CardInv, MainStages, sdVars
  <2>6. ASSUME Comment \/ Again \/ LoadImage \/ ImageLoaded \/ Go \/ Halt
        PROVE  CardInv'
    <3>1. UNCHANGED sdVars
      BY <2>6, Zenon DEF Comment, Again, LoadImage, ImageLoaded, LoadFile, Go, Halt, sdVars
    <3>2. SdInv'
      BY <1>1, <3>1, CardStands
    <3>3. sd.at = "up"
      BY <1>1, <2>6 DEF MainStages, Comment, Again, LoadImage, ImageLoaded, Go, Halt
    <3>4. DOMAIN boot' = {"at", "line", "ptr"} /\ boot'.at # "start"
      <4>1. CASE Comment
        BY <1>1, <4>1 DEF Comment
      <4>2. CASE Again
        BY <1>1, <4>2 DEF Again
      <4>3. CASE LoadImage
        BY <1>1, <4>3 DEF LoadImage
      <4>4. CASE ImageLoaded
        BY <4>4 DEF ImageLoaded
      <4>5. CASE Go \/ Halt
        BY <1>1, <4>5 DEF Go, Halt
      <4> QED
        BY <2>6, <4>1, <4>2, <4>3, <4>4, <4>5
    <3> QED
      BY <1>3, <2>1, <3>1, <3>2, <3>3, <3>4 DEF CardInv, MainStages, sdVars
  <2> QED
    BY <1>3, <2>2, <2>3, <2>4, <2>5, <2>6, Zenon DEF SdBoot
<1>4. CASE SerialBoot /\ UNCHANGED rom
  <2>1. UNCHANGED <<kind, card, selected, SDHCtype, sd, typeMissed, boot>> /\ rom = "RS232"
    BY <1>4 DEF SerialBoot, bootVars
  <2>2. faults' = faults \/ (faults < MaxFaults /\ faults' = faults + 1)
    BY <1>4, Zenon DEF SerialBoot, NextRecord, Arrives, GetsLost, Changes
  <2>3. sd.at = "off"
    BY <1>1, <2>1 DEF MainStages
  <2>4. Reading
    BY <1>1, <2>1, <2>2, SdNumbers DEF Reading, SdInv, SdType
  <2>5. SdInv'
    BY <1>1, <2>3, <2>4, ReadingKeeps
  <2> QED
    BY <1>1, <1>4, <2>1, <2>5 DEF CardInv, MainStages
<1> QED
  BY <1>2, <1>3, <1>4 DEF Next

\* spi.c: whatever is lost, a card that is up is known for what it is.
THEOREM CardAlwaysKnown ==
  ASSUME WarmsUpInTime
  PROVE  Spec => []CardKnown
<1>1. CardInv => CardKnown
  BY Zenon DEF CardInv, SdInv, SdStage, CardUp, CardKnown
<1> QED
  BY <1>1, CardInvStarts, CardInvStep, PTL DEF Spec

-----------------------------------------------------------------------------
\* Volumes, and what is read of them.

\* What is known of a volume.
LEMMA VolumeFacts ==
  ASSUME CardsInOrder, NEW v \in Volumes
  PROVE  /\ Placed(v) /\ Named(v) /\ Chained(v) /\ Readable(v) /\ OutOfTheWay(v)
         /\ v.fat32 \in BOOLEAN /\ v.mbr \in BOOLEAN /\ v.start \in Nat /\ v.clusterSize \in {1, 2, 4, 8}
         /\ DOMAIN v.holds = DOMAIN v.link /\ v.rootSectors \in Nat
BY FatAssumption, Zenon DEF CardsInOrder, FatAssumption

\* The numbers a volume is described with.
LEMMA FatNumbers ==
  /\ \A wide \in BOOLEAN : LinksPerSector[wide] \in Nat \ {0}
  /\ SwapRange \in Nat \ {0}
BY FatAssumption DEF FatAssumption

\* Where the parts of a volume lie.
LEMMA Layout ==
  ASSUME CardsInOrder, NEW v \in Volumes
  PROVE  /\ Own(v).fat_start = v.start + v.reserved
         /\ Own(v).cluster_size = v.clusterSize /\ Own(v).fat32 = v.fat32
         /\ Own(v).root_directory_cluster = v.rootCluster
         /\ v.reserved \in Nat /\ v.reserved > 0 /\ v.fatSize \in Nat /\ v.start \in Nat /\ v.rootCluster \in Nat
         /\ Own(v).data_start \in Nat /\ Own(v).data_start <= CardSectors
         /\ Own(v).data_start >= v.start + v.reserved + 2 * v.fatSize
         /\ ~ v.fat32 => Own(v).root_directory_start \in Nat
                         /\ Own(v).root_directory_start >= v.start + v.reserved + 2 * v.fatSize
                         /\ Own(v).data_start = Own(v).root_directory_start + v.rootSectors
         /\ Own(v).root_directory_start \in Int /\ Own(v).root_directory_size \in Nat
<1>1. /\ v.fat32 \in BOOLEAN /\ v.start \in Nat /\ v.clusterSize \in {1, 2, 4, 8} /\ v.rootSectors \in Nat
      /\ Own(v).data_start <= CardSectors
      /\ v.fatSize \in Nat /\ v.rootCluster \in Nat /\ v.reserved \in Nat \ {0}
  BY VolumeFacts DEF Placed
<1>2. (v.rootCluster - 2) * v.clusterSize \in Int
  BY <1>1
<1> QED
  BY <1>1, <1>2 DEF Own, Geometry

\* What is in a sector of the FAT.
LEMMA FatSector ==
  ASSUME CardsInOrder, NEW v \in Volumes, NEW sb \in Nat, sb < v.fatSize
  PROVE  /\ SectorOf(v, Own(v).fat_start + sb) = Sector("fat", "", sb)
         /\ Own(v).fat_start + sb \in 0 .. CardSectors - 1
<1> DEFINE lba == Own(v).fat_start + sb
<1>1. /\ v.reserved \in Nat /\ v.reserved > 0 /\ v.fatSize \in Nat /\ v.start \in Nat
      /\ Own(v).fat_start = v.start + v.reserved
      /\ Own(v).data_start \in Nat /\ Own(v).data_start <= CardSectors
      /\ Own(v).data_start >= v.start + v.reserved + 2 * v.fatSize
  BY Layout
<1>2. lba \in Nat /\ lba # 0 /\ lba # v.start /\ lba \in Own(v).fat_start .. Own(v).fat_start + 2 * v.fatSize - 1
  BY <1>1
<1>3. (lba - Own(v).fat_start) % v.fatSize = sb
  <2>1. lba - Own(v).fat_start = sb
    BY <1>1
  <2>2. sb % v.fatSize = sb
    BY <1>1
  <2> QED
    BY <2>1, <2>2
<1>4. SectorOf(v, lba) = Sector("fat", "", (lba - Own(v).fat_start) % v.fatSize)
  BY <1>2, Zenon DEF SectorOf, Own
<1>5. lba \in 0 .. CardSectors - 1
  BY <1>1, SdNumbers
<1> QED
  BY <1>3, <1>4, <1>5, Zenon

\* The sectors of a cluster.
LEMMA ClusterSector ==
  ASSUME CardsInOrder, NEW v \in Volumes, NEW c \in DOMAIN v.link, NEW r \in 0 .. v.clusterSize - 1
  PROVE  LET lba == Own(v).data_start + v.clusterSize * (c - 2) + r IN
         /\ SectorOf(v, lba) = [v.holds[c] EXCEPT !.n = @ + r]
         /\ lba \in 0 .. CardSectors - 1
<1> DEFINE s == v.clusterSize
           d == Own(v).data_start
           lba == d + s * (c - 2) + r
<1>1. /\ d \in Nat /\ d <= CardSectors /\ d >= v.start + v.reserved + 2 * v.fatSize
      /\ v.reserved \in Nat /\ v.reserved > 0 /\ v.fatSize \in Nat /\ v.start \in Nat
      /\ Own(v).fat_start = v.start + v.reserved
      /\ ~ v.fat32 => Own(v).root_directory_start \in Nat
  BY Layout
<1>2. s \in {1, 2, 4, 8} /\ DOMAIN v.holds = DOMAIN v.link
  BY VolumeFacts
<1>3. c \in Nat \ {0, 1} /\ d + s * (c - 1) <= CardSectors
  BY VolumeFacts DEF Placed
<1>4. r \in Nat /\ r < s
  BY <1>2
<1> HIDE DEF s, d
<1>5. lba - d = (c - 2) * s + r /\ lba \in Nat /\ lba >= d /\ lba < CardSectors
  BY <1>1, <1>2, <1>3, <1>4, SdNumbers
<1>6. (lba - d) \div s = c - 2 /\ (lba - d) % s = r
  BY <1>2, <1>3, <1>4, <1>5, WholeAndRestOf
<1>7. (lba - d) \div s + 2 = c
  BY <1>3, <1>6
<1>8. lba # 0 /\ lba # v.start /\ lba \notin Own(v).fat_start .. Own(v).fat_start + 2 * v.fatSize - 1
  BY <1>1, <1>5
<1>9. lba \notin Own(v).root_directory_start .. d - 1 \/ v.fat32
  BY <1>1, <1>5
<1> HIDE DEF lba
<1>10. SectorOf(v, lba) = [v.holds[c] EXCEPT !.n = @ + r]
  <2>1. lba \notin Geometry(v, v.start).root_directory_start .. Geometry(v, v.start).data_start - 1 \/ v.fat32
    BY <1>9 DEF Own, d
  <2>2. /\ (lba - Geometry(v, v.start).data_start) \div v.clusterSize + 2 = c
        /\ (lba - Geometry(v, v.start).data_start) % v.clusterSize = r
        /\ lba >= Geometry(v, v.start).data_start
    BY <1>5, <1>6, <1>7, Zenon DEF Own, d, s
  <2>3. lba \notin Geometry(v, v.start).fat_start .. Geometry(v, v.start).fat_start + 2 * v.fatSize - 1
    BY <1>8, Zenon DEF Own
  <2> QED
    BY <1>2, <1>8, <2>1, <2>2, <2>3, Zenon DEF SectorOf
<1> QED
  BY <1>5, <1>10, SdNumbers DEF lba, s, d

Kinded == {"other", "mbr", "boot", "fat", "dir", "data"}

\* A sector is one of these, a directory's has its entries, a boot sector begins the volume.
LEMMA SectorKinds ==
  ASSUME CardsInOrder, NEW v \in Volumes, NEW lba \in Int
  PROVE  /\ SectorOf(v, lba).is \in Kinded
         /\ SectorOf(v, lba).is = "dir" => SectorOf(v, lba).n \in DOMAIN v.dir
         /\ SectorOf(v, lba).is = "boot" => lba = v.start
<1> DEFINE s == SectorOf(v, lba)
           g == Geometry(v, v.start)
           c == (lba - g.data_start) \div v.clusterSize + 2
           r == (lba - g.data_start) % v.clusterSize
<1> SUFFICES /\ s.is \in Kinded /\ (s.is = "dir" => s.n \in DOMAIN v.dir) /\ (s.is = "boot" => lba = v.start)
  OBVIOUS
<1> HIDE DEF s, c, r
<1>1. CASE s \in {Sector("mbr", "", 0), Sector("fat", "", (lba - g.fat_start) % v.fatSize), Other}
  <2>1. s.is \in {"mbr", "fat", "other"}
    <3>1. CASE s = Sector("mbr", "", 0)
      BY <3>1 DEF Sector
    <3>2. CASE s = Sector("fat", "", (lba - g.fat_start) % v.fatSize)
      BY <3>2 DEF Sector
    <3>3. CASE s = Other
      BY <3>3 DEF Sector, Other
    <3> QED
      BY <1>1, <3>1, <3>2, <3>3, Zenon
  <2> QED
    BY <2>1 DEF Kinded
<1>2. CASE s = Sector("boot", "", 0) /\ lba = v.start
  BY <1>2 DEF Sector, Kinded
<1>3. CASE s = Sector("dir", "", lba - g.root_directory_start) /\ ~ v.fat32 /\ lba \in g.root_directory_start .. g.data_start - 1
  <2>1. g.root_directory_start \in Nat /\ g.data_start = g.root_directory_start + v.rootSectors /\ v.rootSectors \in Nat
    BY <1>3, Layout, VolumeFacts DEF Own
  <2> DEFINE a == g.root_directory_start
             e == g.data_start
  <2>2. lba - a \in 0 .. v.rootSectors - 1
    <3>1. a \in Nat /\ e = a + v.rootSectors /\ v.rootSectors \in Nat
      BY <2>1
    <3>2. lba \in a .. e - 1
      BY <1>3
    <3> HIDE DEF a, e
    <3> QED
      BY <3>1, <3>2
  <2>3. lba - g.root_directory_start \in DOMAIN v.dir
    BY <1>3, <2>2, VolumeFacts DEF Named
  <2> QED
    BY <1>3, <2>3 DEF Sector, Kinded
<1>4. CASE s = [v.holds[c] EXCEPT !.n = @ + r] /\ c \in DOMAIN v.holds
  <2>1. /\ v.holds[c].is \in {"dir", "data"} /\ v.holds[c].n \in Nat
        /\ v.holds[c] = Sector(v.holds[c].is, v.holds[c].of, v.holds[c].n)
        /\ c \in DOMAIN v.link
    BY <1>4, VolumeFacts DEF Placed
  <2> DEFINE h == v.holds[c]
  <2>2. s.is = h.is /\ s.n = h.n + r
    <3>1. DOMAIN v.holds[c] = {"is", "of", "n"}
      BY <2>1 DEF Sector
    <3> QED
      BY <1>4, <3>1
  <2>3. r \in 0 .. v.clusterSize - 1
    <3>1. v.clusterSize \in {1, 2, 4, 8} /\ lba - g.data_start \in Int
      BY VolumeFacts, Layout DEF Own
    <3> QED
      BY <3>1 DEF r
  <2>4. v.clusterSize \in Nat
    BY VolumeFacts
  <2>5. h.n + r \in h.n .. h.n + v.clusterSize - 1
    BY <2>1, <2>3, <2>4
  <2>6. h.is = "dir" => h.n + r \in DOMAIN v.dir
    BY <2>1, <2>5, VolumeFacts DEF Named
  <2> QED
    BY <2>1, <2>2, <2>6 DEF Kinded
<1>5. \/ s \in {Sector("mbr", "", 0), Sector("fat", "", (lba - g.fat_start) % v.fatSize), Other}
      \/ s = Sector("boot", "", 0) /\ lba = v.start
      \/ s = Sector("dir", "", lba - g.root_directory_start) /\ ~ v.fat32 /\ lba \in g.root_directory_start .. g.data_start - 1
      \/ s = [v.holds[c] EXCEPT !.n = @ + r] /\ c \in DOMAIN v.holds
  BY Zenon DEF s, c, r, SectorOf
<1> QED
  BY <1>1, <1>2, <1>3, <1>4, <1>5

-----------------------------------------------------------------------------
\* A card known for what it is delivers the sector asked for, if it has it.
LEMMA RightReads ==
  ASSUME CardsInOrder, TypeKnown, RightType, NEW lba \in Int, NEW got, sd_read_sector(lba, got)
  PROVE  /\ got \in {None, lba, lba % ByteAddresses}
         /\ lba \in 0 .. CardSectors - 1 => got \in {None, lba}
<1>0. got # None => got = SectorFor(Address(lba, SDHCtype)) /\ kind # "none"
  BY DEF sd_read_sector
<1>1. CASE kind = "SDHC"
  <2>1. SDHCtype
    BY <1>1 DEF RightType
  <2> QED
    BY <1>0, <1>1, <2>1 DEF SectorFor, Address
<1>2. CASE kind # "SDHC"
  <2>1. SDHCtype = FALSE
    BY <1>2 DEF RightType
  <2>2. Address(lba, FALSE) \div SectorBytes = lba % ByteAddresses
    BY ByteAddress
  <2>3. got # None => got = lba % ByteAddresses /\ kind # "none"
    BY <1>0, <1>2, <2>1, <2>2, Zenon DEF SectorFor
  <2>4. ASSUME lba \in 0 .. CardSectors - 1, kind # "none"
        PROVE  lba % ByteAddresses = lba
    <3>1. CASE CardSectors <= ByteAddresses
      BY <2>4, <3>1, SdNumbers
    <3>2. CASE Kinds \subseteq {"none", "SDHC"}
      BY <2>4, <3>2, <1>2 DEF TypeKnown
    <3> QED
      BY <3>1, <3>2 DEF CardsInOrder
  <2> QED
    BY <2>3, <2>4
<1> QED
  BY <1>1, <1>2

\* Taken for one that counts bytes, a large card delivers sectors that are multiples of a sector's length.
LEMMA WrongReads ==
  ASSUME TypeKnown, ~ RightType, sd.at = "up", NEW lba \in Int, NEW got, sd_read_sector(lba, got)
  PROVE  got = None \/ (got \in 0 .. CardSectors - 1 /\ got % SectorBytes = 0)
<1>1. kind = "SDHC" /\ SDHCtype = FALSE
  BY DEF TypeKnown, RightType
<1>2. got # None => got = Address(lba, FALSE) /\ got \in 0 .. CardSectors - 1
  BY <1>1 DEF sd_read_sector, SectorFor, InReach
<1> QED
  BY <1>2, ByteAddress

\* What a read may bring shows no manifest, where it does not look for one.
LEMMA ReadsNoManifest ==
  ASSUME CardsInOrder, TypeKnown, sd.at = "up", volume \in Volumes, NEW lba \in Int, NEW got, sd_read_sector(lba, got),
         RightType => Hidden(volume, lba), got # None
  PROVE  ~ ShowsManifest(volume, got) /\ got \in Int
<1>1. CASE RightType
  <2>1. got = lba \/ got = lba % ByteAddresses
    BY <1>1, RightReads
  <2> QED
    BY <1>1, <2>1, SdNumbers DEF Hidden
<1>2. CASE ~ RightType
  <2>1. got \in 0 .. CardSectors - 1 /\ got % SectorBytes = 0
    BY <1>2, WrongReads
  <2>2. \A n \in 0 .. CardSectors - 1 : ShowsManifest(volume, n) => n % SectorBytes # 0
    BY VolumeFacts DEF OutOfTheWay
  <2> QED
    BY <2>1, <2>2
<1> QED
  BY <1>1, <1>2

\* A step of the FAT reader changes neither the card's type nor the volume.
LEMMA CardStays ==
  ASSUME FatNext
  PROVE  UNCHANGED <<kind, SDHCtype, sd, volume>>
<1>1. ASSUME NEW lba, NEW got, sd_read_sector(lba, got)
      PROVE  UNCHANGED <<kind, SDHCtype, sd>>
  BY <1>1, Zenon DEF sd_read_sector
<1>2. ASSUME NEW cluster, NEW link, GetCluster(cluster, link)
      PROVE  UNCHANGED <<kind, SDHCtype, sd>>
  BY <1>1, <1>2, Zenon DEF GetCluster, sdVars
<1>3. CASE ReadMbr
  BY <1>1, <1>3, Zenon DEF ReadMbr
<1>4. CASE ReadBoot
  BY <1>1, <1>4, Zenon DEF ReadBoot
<1>5. CASE DirSector
  BY <1>1, <1>5, Zenon DEF DirSector
<1>6. CASE DirEnd
  BY <1>6, Zenon DEF DirEnd, sdVars
<1>7. CASE DirLink
  BY <1>2, <1>7, Zenon DEF DirLink
<1>8. CASE DataSector
  BY <1>1, <1>8, Zenon DEF DataSector
<1>9. CASE DataLink
  BY <1>2, <1>9, Zenon DEF DataLink
<1> QED
  BY <1>3, <1>4, <1>5, <1>6, <1>7, <1>8, <1>9, Zenon DEF FatNext

\* A buffer that a read may leave.
Known(buffer) == buffer.is \in Kinded /\ (buffer.is = "dir" => buffer.n \in DOMAIN volume.dir)

\* A sector that is read is of a known kind.
LEMMA ReadsKnown ==
  ASSUME CardsInOrder, volume \in Volumes, NEW lba, NEW got, sd_read_sector(lba, got), got # None
  PROVE  got \in 0 .. CardSectors - 1 /\ Known(SectorAt(got))
<1>1. got \in 0 .. CardSectors - 1
  BY DEF sd_read_sector, InReach
<1>2. got \in Int
  BY <1>1, SdNumbers
<1> QED
  BY <1>1, <1>2, SectorKinds DEF Known, SectorAt

\* So is the one in the buffer.
LEMMA BufferKnown ==
  ASSUME Basics
  PROVE  Known(sector_buffer) /\ volume \in Volumes /\ buffered_fat_index \in Int /\ misled \in BOOLEAN
BY DEF Basics, FatType, BufferNames, Known, Kinded

\* What is left of a volume's chain when a link is taken, and the buffer with it.
LinkOf(v, c) == IF c \in {0, 1} THEN EndOfChain ELSE IF c \in DOMAIN v.link THEN v.link[c] ELSE 0

\* A link is in the sector of the FAT where GetCluster looks.
LEMMA LinkPlace ==
  ASSUME NEW c \in Nat, drive.fat32 \in BOOLEAN
  PROVE  LinkSector(c) \in Nat /\ c = LinkSector(c) * LinksPerSector[drive.fat32] + (c % LinksPerSector[drive.fat32])
<1> DEFINE l == LinksPerSector[drive.fat32]
<1>1. l \in Nat \ {0}
  BY FatNumbers
<1> SUFFICES c \div l \in Nat /\ c = (c \div l) * l + (c % l)
  BY Zenon DEF LinkSector
<1> HIDE DEF l
<1> QED
  BY <1>1

\* In the sector of the FAT that holds it a cluster's link is found.
LEMMA LinkRead ==
  ASSUME CardsInOrder, volume \in Volumes, Found, NEW c \in Nat, NEW link,
         link \in LinksIn(Sector("fat", "", LinkSector(c)), c)
  PROVE  link = LinkOf(volume, c)
<1> DEFINE l == LinksPerSector[drive.fat32]
           entry == LinkSector(c) * l + (c % l)
<1>1. drive.fat32 \in BOOLEAN
  BY Layout, VolumeFacts DEF Found
<1>3. entry = c
  BY <1>1, LinkPlace
<1>4. Sector("fat", "", LinkSector(c)).is = "fat" /\ Sector("fat", "", LinkSector(c)).n = LinkSector(c)
  BY DEF Sector
<1>5. LinksIn(Sector("fat", "", LinkSector(c)), c) = {LinkOf(volume, entry)}
  BY <1>4, Zenon DEF LinksIn, LinkOf
<1> QED
  BY <1>3, <1>5

\* GetCluster finds the link, in the buffer or on the card.
LEMMA TakesLink ==
  ASSUME CardsInOrder, TypeKnown, volume \in Volumes, Found, Buffered, NEW c \in Nat,
         c \div LinksPerSector[volume.fat32] < volume.fatSize, NEW link, GetCluster(c, link)
  PROVE  /\ link = LinkOf(volume, c) \/ (link = 0 /\ UNCHANGED <<sector_buffer, buffered_fat_index>>)
         /\ Buffered'
<1> DEFINE sb == LinkSector(c)
           lba == drive.fat_start + sb
<1>1. drive = Own(volume) /\ drive.fat32 = volume.fat32 /\ volume.fat32 \in BOOLEAN /\ volume.fatSize \in Nat
      /\ drive.fat_start \in Nat
  BY Layout, VolumeFacts DEF Found
<1>2. sb \in Nat /\ sb < volume.fatSize
  BY <1>1, LinkPlace, Zenon DEF LinkSector
<1>3. SectorOf(volume, lba) = Sector("fat", "", sb) /\ lba \in 0 .. CardSectors - 1
  BY <1>1, <1>2, FatSector
<1>4. CASE sb = buffered_fat_index /\ link \in LinksIn(sector_buffer, c) /\ UNCHANGED <<sector_buffer, buffered_fat_index>>
  <2>1. sector_buffer = Sector("fat", "", sb)
    <3>1. sb # -1
      BY <1>2
    <3> QED
      BY <1>4, <3>1, Zenon DEF Buffered
  <2>2. link = LinkOf(volume, c)
    BY <1>4, <2>1, LinkRead
  <2> QED
    BY <1>4, <2>2 DEF Buffered
<1>5. ASSUME NEW got, sd_read_sector(lba, got), got = None, link = 0, UNCHANGED <<sector_buffer, buffered_fat_index>>
      PROVE  link = 0 /\ UNCHANGED <<sector_buffer, buffered_fat_index>> /\ Buffered'
  BY <1>5 DEF Buffered
<1>6. ASSUME NEW got, sd_read_sector(lba, got), got # None, sector_buffer' = SectorAt(got), buffered_fat_index' = sb,
             link \in LinksIn(SectorAt(got), c)
      PROVE  link = LinkOf(volume, c) /\ Buffered'
  <2>1. got = lba
    <3>1. lba \in Int
      BY <1>1, <1>2
    <3> HIDE DEF lba
    <3> QED
      BY <1>3, <1>6, <3>1, RightReads DEF Found
  <2>2. SectorAt(got) = Sector("fat", "", sb)
    BY <1>3, <2>1, Zenon DEF SectorAt
  <2>3. link = LinkOf(volume, c)
    BY <1>6, <2>2, LinkRead
  <2> QED
    BY <1>6, <2>2, <2>3 DEF Buffered
<1> QED
  BY <1>4, <1>5, <1>6, Zenon DEF GetCluster

\* With nothing lost the link is the volume's.
LEMMA LinkKnown ==
  ASSUME CardsInOrder, volume \in Volumes, Known(sector_buffer), buffered_fat_index \in Int, NEW c \in Nat, NEW link,
         GetCluster(c, link), drive.fat32 \in BOOLEAN, volume' = volume
  PROVE  Known(sector_buffer)' /\ buffered_fat_index' \in Int
<1>1. LinkSector(c) \in Int
  BY LinkPlace
<1>2. CASE UNCHANGED <<sector_buffer, buffered_fat_index>>
  BY <1>2 DEF Known
<1>3. ASSUME NEW got, sd_read_sector(drive.fat_start + LinkSector(c), got), got # None, sector_buffer' = SectorAt(got),
             buffered_fat_index' = LinkSector(c)
      PROVE  Known(sector_buffer)' /\ buffered_fat_index' \in Int
  <2>1. Known(SectorAt(got))
    BY <1>3, ReadsKnown
  <2> QED
    BY <1>1, <1>3, <2>1, Zenon DEF Known
<1> QED
  BY <1>2, <1>3, Zenon DEF GetCluster

-----------------------------------------------------------------------------
\* What every step of the reader does, whatever it reads.
Steady ==
  /\ UNCHANGED <<kind, SDHCtype, sd, volume, rom, boot>>
  /\ DOMAIN fat' = DOMAIN fat /\ fat'.to = fat.to /\ fat'.left \in Nat /\ fat'.ok \in BOOLEAN
  /\ misled' \in BOOLEAN /\ buffered_fat_index' \in Int /\ Known(sector_buffer)' /\ Numeric'
  /\ fat'.at \in (IF boot.at = "drive" THEN {"find", "partition", "found", "nothing"} ELSE Loading)

\* What a step of LoadFile leaves in place.
LEMMA BasicsStay ==
  ASSUME Basics, boot.at \in {"drive", "manifest", "image"}, Steady
  PROVE  Basics'
<1>1. FatType'
  BY DEF Basics, Steady, FatType, Known, Kinded, Loading
<1>2. TypeKnown' /\ Shapes'
  BY DEF Basics, Steady, TypeKnown, Shapes
<1>3. Stages'
  BY DEF Basics, Steady, Stages, Loading, Manifest, Line
<1>4. BufferNames'
  BY DEF Steady, Known, BufferNames
<1> QED
  BY <1>1, <1>2, <1>3, <1>4 DEF Basics, Steady

-----------------------------------------------------------------------------
\* FindDrive.

Quiet == UNCHANGED <<kind, SDHCtype, sd, volume, rom, boot>>

\* Setting the type of FAT leaves the rest of a geometry as it was found.
LEMMA Untouches ==
  ASSUME CardsInOrder, NEW g \in Geometries, Untouched(g), NEW b, drive' = [drive EXCEPT !.fat32 = b]
  PROVE  Untouched(g)' /\ drive'.fat32 = b
<1>1. g \in Drives
  BY DEF CardsInOrder
<1>2. drive = [g EXCEPT !.fat32 = drive.fat32]
  BY DEF Untouched
<1>3. DOMAIN drive = DOMAIN g /\ "fat32" \in DOMAIN g
  BY <1>1, <1>2 DEF Drives
<1>4. drive'.fat32 = b /\ DOMAIN drive' = DOMAIN g
  BY <1>3
<1>5. drive' = [g EXCEPT !.fat32 = b]
  BY <1>1, <1>2 DEF Drives
<1> QED
  BY <1>4, <1>5, Zenon DEF Untouched

\* What a read of sector 0 may give.
LEMMA OutcomeOfZero ==
  ASSUME NEW got, sd_read_sector(0, got)
  PROVE  got \in {None, 0}
<1>1. got # None => got = SectorFor(Address(0, SDHCtype))
  BY DEF sd_read_sector
<1>2. Address(0, FALSE) = 0
  <2>1. 0 * SectorBytes = 0 /\ ByteAddresses * SectorBytes \in Nat \ {0}
    BY SdNumbers
  <2>2. 0 % (ByteAddresses * SectorBytes) = 0
    BY <2>1
  <2> QED
    BY <2>1, <2>2, Zenon DEF Address
<1>3. Address(0, SDHCtype) = 0
  BY <1>2 DEF Address
<1>4. 0 \div SectorBytes = 0
  BY SdNumbers
<1> QED
  BY <1>1, <1>3, <1>4 DEF SectorFor

\* The beginning of the card.
LEMMA FirstSector ==
  ASSUME CardsInOrder, volume \in Volumes
  PROVE  IF volume.mbr THEN SectorAt(0).is = "mbr" ELSE SectorAt(0).is = "boot" /\ volume.start = 0
<1>1. volume.mbr \in BOOLEAN /\ volume.start \in Nat /\ (volume.mbr <=> volume.start > 0)
  BY VolumeFacts DEF Placed
<1>2. CASE volume.mbr
  <2>1. SectorAt(0) = Sector("mbr", "", 0)
    BY <1>2, Zenon DEF SectorAt, SectorOf
  <2>2. Sector("mbr", "", 0).is = "mbr"
    BY DEF Sector
  <2> QED
    BY <1>2, <2>1, <2>2, Zenon
<1>3. CASE ~ volume.mbr
  <2>1. volume.start = 0
    BY <1>1, <1>3
  <2>2. SectorAt(0) = Sector("boot", "", 0)
    BY <1>3, <2>1, Zenon DEF SectorAt, SectorOf
  <2>3. Sector("boot", "", 0).is = "boot"
    BY DEF Sector
  <2> QED
    BY <1>3, <2>1, <2>2, <2>3, Zenon
<1> QED
  BY <1>2, <1>3, Zenon

\* A volume's geometry is made of numbers.
LEMMA GeometryNumbers ==
  ASSUME CardsInOrder, NEW v \in Volumes, NEW start \in Int
  PROVE  Geometry(v, start) \in Drives
<1>1. /\ v.fat32 \in BOOLEAN /\ v.clusterSize \in {1, 2, 4, 8} /\ v.rootSectors \in Nat
      /\ v.fatSize \in Nat /\ v.rootCluster \in Nat /\ v.reserved \in Nat
  BY VolumeFacts DEF Placed
<1>2. (v.rootCluster - 2) * v.clusterSize \in Int
  BY <1>1
<1> QED
  BY <1>1, <1>2 DEF Geometry, Drives

\* What is known of the geometry after FindDrive.
Searched == \/ fat.at = "found" /\ (Found \/ ~ RightType)
            \/ /\ fat.at \in {"nothing", "partition"}
               /\ \E g \in Geometries : Untouched(g) /\ Stray

\* There is no manifest where it is looked for in vain.
LEMMA Gone ==
  ASSUME CardsInOrder, Basics, DOMAIN fat = {"at", "name", "to", "cluster", "sector", "left", "ok"}, Quiet,
         NEW g \in Geometries, Untouched(g),
         NEW a \in {"nothing", "partition"}, fat' = [fat EXCEPT !.at = a],
         NEW b \in BOOLEAN, drive' = [drive EXCEPT !.fat32 = b], b => volume.fat32 /\ ~ volume.recognised
  PROVE  Searched' /\ drive' \in Drives
<1>0. drive' \in Drives
  BY DEF Basics, Numeric, Drives
<1>1. Untouched(g)' /\ drive'.fat32 = b
  BY Untouches
<1>2. fat'.at = a
  OBVIOUS
<1>3. volume' = volume
  BY DEF Quiet
<1>4. Stray'
  BY <1>1, <1>3 DEF Stray
<1> QED
  BY <1>0, <1>1, <1>2, <1>4 DEF Searched

\* The geometry that FindDrive computes is the volume's.
LEMMA Parsed ==
  ASSUME CardsInOrder, Basics, DOMAIN fat = {"at", "name", "to", "cluster", "sector", "left", "ok"}, Quiet,
         NEW g \in Geometries, Untouched(g),
         NEW buffer, NEW start \in Int, Parse(buffer, start), start < SwapRange,
         buffer.is = "boot" /\ RightType => start = volume.start
  PROVE  Searched' /\ drive' \in Drives
<1>1. CASE buffer.is = "boot" /\ volume.recognised
  <2>1. drive' = Geometry(volume, start) /\ fat' = [fat EXCEPT !.at = "found"]
    BY <1>1 DEF Parse
  <2>2. fat'.at = "found"
    BY <2>1
  <2>3. RightType => drive' = Own(volume)
    BY <1>1, <2>1, Zenon DEF Own
  <2>4. RightType' = RightType /\ volume' = volume
    BY DEF RightType, Quiet
  <2>5. Geometry(volume, start) \in Drives
    BY GeometryNumbers DEF Basics, FatType
  <2> QED
    <3>1. RightType' => Found'
      <4>1. RightType => volume.recognised /\ volume.start < SwapRange
        BY <1>1
      <4> QED
        BY <2>3, <2>4, <4>1, Zenon DEF Found
    <3> QED
      BY <2>1, <2>2, <2>5, <3>1, Zenon DEF Searched
<1>2. CASE ~ (buffer.is = "boot" /\ volume.recognised)
  <2> DEFINE b == buffer.is = "boot" /\ volume.fat32
  <2>1. drive' = [drive EXCEPT !.fat32 = b] /\ fat' = [fat EXCEPT !.at = "nothing"]
    BY <1>2, Zenon DEF Parse
  <2>2. b => volume.fat32 /\ ~ volume.recognised
    BY <1>2
  <2>3. b \in BOOLEAN
    BY VolumeFacts DEF Basics, FatType
  <2> HIDE DEF b
  <2> QED
    BY <2>1, <2>2, <2>3, Gone
<1> QED
  BY <1>1, <1>2

\* FindDrive's first sector keeps what the reader knows.
LEMMA ReadMbrKeeps ==
  ASSUME CardsInOrder, FatInv, boot.at = "drive", ReadMbr, Quiet
  PROVE  FatInv'
<1>1. PICK got \in Outcomes(0) :
        /\ sd_read_sector(0, got)
        /\ sector_buffer' = Got(got)
        /\ IF got = None
           THEN /\ fat' = [fat EXCEPT !.at = "nothing"]
                /\ drive' = [drive EXCEPT !.fat32 = FALSE]
           ELSE IF SectorAt(got).is = "mbr"
           THEN /\ fat' = [fat EXCEPT !.at = "partition"]
                /\ drive' = [drive EXCEPT !.fat32 = FALSE]
           ELSE Parse(SectorAt(got), 0)
  BY DEF ReadMbr
<1>2. /\ fat.at = "find" /\ buffered_fat_index' = -1 /\ misled' = misled
      /\ DOMAIN fat = {"at", "name", "to", "cluster", "sector", "left", "ok"}
      /\ Basics /\ volume \in Volumes /\ Known(sector_buffer) /\ misled \in BOOLEAN
      /\ NoManifest /\ volume' = volume
  BY BufferKnown DEF ReadMbr, FatInv, Basics, Shapes, Before, Loading, Quiet
<1>3. PICK g \in Geometries : Untouched(g)
  BY <1>2 DEF FatInv, Before, Loading
<1>4. got \in {None, 0} /\ (got # None => Known(SectorAt(0)))
  BY <1>1, <1>2, OutcomeOfZero, ReadsKnown
<1>5. SectorAt(0).is \in {"mbr", "boot"} /\ (SectorAt(0).is = "boot" => volume.start = 0)
  BY <1>2, FirstSector
<1>6. Searched' /\ drive' \in Drives
  <2>1. CASE got = None
    BY <1>1, <1>2, <1>3, <2>1, Gone
  <2>2. CASE got # None /\ SectorAt(got).is = "mbr"
    BY <1>1, <1>2, <1>3, <2>2, Gone
  <2>3. CASE got # None /\ SectorAt(got).is # "mbr"
    <3>1. Parse(SectorAt(0), 0) /\ (SectorAt(0).is = "boot" /\ RightType => 0 = volume.start) /\ 0 \in Int /\ 0 < SwapRange
      BY <1>1, <1>4, <1>5, <2>3, FatNumbers
    <3> QED
      BY <1>2, <1>3, <3>1, Parsed, Zenon
  <2> QED
    BY <2>1, <2>2, <2>3
<1>7. \E a \in {"nothing", "partition", "found"} : fat' = [fat EXCEPT !.at = a]
  BY <1>1, Zenon DEF Parse
<1>8. /\ DOMAIN fat' = DOMAIN fat /\ fat'.to = fat.to /\ fat'.left = fat.left /\ fat'.ok = fat.ok
      /\ fat'.at \in {"nothing", "partition", "found"}
  BY <1>2, <1>7
<1>9. Known(sector_buffer)' /\ NoManifest'
  <2>1. CASE got = None
    BY <1>1, <1>2, <2>1 DEF Known, NoManifest, Got
  <2>2. CASE got = 0
    <3>1. sector_buffer' = SectorAt(0)
      BY <1>1, <2>2 DEF Got, None
    <3> QED
      BY <1>2, <1>5, <3>1 DEF Known, NoManifest, Kinded
  <2> QED
    BY <1>4, <2>1, <2>2
<1>10. Steady
  BY <1>2, <1>6, <1>8, <1>9 DEF Steady, Quiet, Basics, FatType, Numeric
<1>11. Basics'
  BY <1>2, <1>10, BasicsStay
<1> QED
  BY <1>6, <1>8, <1>9, <1>11, Zenon DEF FatInv, Before, After, Searched, Loading

\* A sector that shows no manifest.
LEMMA ShowsWhat ==
  ASSUME NEW lba
  PROVE  ~ ShowsManifest(volume, lba) <=> ~ (SectorAt(lba).is = "dir" /\ ManifestName \in volume.dir[SectorAt(lba).n])
BY Zenon DEF ShowsManifest, SectorAt

\* FindDrive's boot sector keeps what the reader knows.
LEMMA ReadBootKeeps ==
  ASSUME CardsInOrder, FatInv, boot.at = "drive", ReadBoot, Quiet
  PROVE  FatInv'
<1> DEFINE start == SwapBBBB(volume.start)
<1>1. PICK got \in Outcomes(start) :
        /\ sd_read_sector(start, got)
        /\ sector_buffer' = Got(got)
        /\ IF got = None THEN fat' = [fat EXCEPT !.at = "nothing"] /\ UNCHANGED drive
           ELSE Parse(SectorAt(got), start)
  BY DEF ReadBoot
<1>2. /\ fat.at = "partition" /\ UNCHANGED <<buffered_fat_index, misled>>
      /\ DOMAIN fat = {"at", "name", "to", "cluster", "sector", "left", "ok"}
      /\ Basics /\ volume \in Volumes /\ Known(sector_buffer) /\ misled \in BOOLEAN /\ buffered_fat_index \in Int
      /\ NoManifest /\ volume' = volume /\ TypeKnown /\ sd.at = "up"
  BY BufferKnown DEF ReadBoot, FatInv, Basics, Stages, Shapes, Before, Loading, Quiet
<1>3. PICK g \in Geometries : Untouched(g) /\ Stray
  BY <1>2 DEF FatInv, Before, Loading
<1>4. volume.start \in Nat /\ start \in Int /\ start <= volume.start /\ start < SwapRange /\ Hidden(volume, start)
  <2>1. volume.start \in Nat /\ SwapRange \in Nat \ {0}
    BY <1>2, VolumeFacts, FatNumbers
  <2>2. Hidden(volume, start)
    BY <1>2, VolumeFacts DEF OutOfTheWay
  <2> QED
    BY <2>1, <2>2 DEF SwapBBBB
<1> HIDE DEF start
<1>5. got # None => ~ ShowsManifest(volume, got) /\ got \in Int /\ Known(SectorAt(got))
                    /\ (RightType => got = start \/ got = start % ByteAddresses)
                    /\ (SectorAt(got).is = "boot" => got = volume.start)
  <2>1. got # None => ~ ShowsManifest(volume, got) /\ got \in Int
    BY <1>1, <1>2, <1>4, ReadsNoManifest
  <2>2. got # None => Known(SectorAt(got))
    BY <1>1, <1>2, ReadsKnown
  <2>3. got # None /\ RightType => got = start \/ got = start % ByteAddresses
    BY <1>1, <1>2, <1>4, RightReads
  <2>4. got # None => (SectorAt(got).is = "boot" => got = volume.start)
    BY <1>2, <2>1, SectorKinds DEF SectorAt
  <2> QED
    BY <2>1, <2>2, <2>3, <2>4, Zenon
<1>6. Searched' /\ drive' \in Drives
  <2>1. CASE got = None
    <3>1. fat' = [fat EXCEPT !.at = "nothing"] /\ drive' = drive
      BY <1>1, <2>1
    <3>2. fat'.at = "nothing"
      BY <1>2, <3>1
    <3>4. drive' \in Drives
      BY <1>2, <3>1 DEF Basics, Numeric
    <3>3. Untouched(g)' /\ Stray'
      BY <1>2, <1>3, <3>1, Zenon DEF Untouched, Stray
    <3> QED
      BY <3>2, <3>3, <3>4 DEF Searched
  <2>2. CASE got # None
    <3>1. Parse(SectorAt(got), start)
      BY <1>1, <2>2
    <3>2. SectorAt(got).is = "boot" /\ RightType => start = volume.start
      <4>1. SectorAt(got).is = "boot" /\ RightType => got = volume.start /\ (got = start \/ got = start % ByteAddresses)
        BY <1>5, <2>2
      <4>2. start % ByteAddresses = volume.start => start = volume.start
        <5>1. start \in Nat
          BY <1>4, FatNumbers DEF start, SwapBBBB
        <5>2. start % ByteAddresses <= start
          BY <5>1, SdNumbers
        <5> QED
          BY <1>4, <5>1, <5>2
      <4> QED
        BY <4>1, <4>2, Zenon
    <3> QED
      BY <1>2, <1>3, <1>4, <3>1, <3>2, Parsed, Zenon
  <2> QED
    BY <2>1, <2>2
<1>7. \E a \in {"nothing", "partition", "found"} : fat' = [fat EXCEPT !.at = a]
  BY <1>1, Zenon DEF Parse
<1>8. /\ DOMAIN fat' = DOMAIN fat /\ fat'.to = fat.to /\ fat'.left = fat.left /\ fat'.ok = fat.ok
      /\ fat'.at \in {"nothing", "partition", "found"}
  BY <1>2, <1>7
<1>9. Known(sector_buffer)' /\ NoManifest'
  <2>1. CASE got = None
    BY <1>1, <1>2, <2>1 DEF Known, NoManifest, Got
  <2>2. CASE got # None
    <3>1. sector_buffer' = SectorAt(got)
      BY <1>1, <2>2 DEF Got
    <3>2. Known(SectorAt(got)) /\ ~ (SectorAt(got).is = "dir" /\ ManifestName \in volume.dir[SectorAt(got).n])
      BY <1>5, <2>2, ShowsWhat
    <3> QED
      BY <1>2, <3>1, <3>2, Zenon DEF Known, NoManifest, ManifestName
  <2> QED
    BY <2>1, <2>2
<1>10. Steady
  BY <1>2, <1>6, <1>8, <1>9 DEF Steady, Quiet, Basics, FatType, Numeric
<1>11. Basics'
  BY <1>2, <1>10, BasicsStay
<1> QED
  BY <1>6, <1>8, <1>9, <1>11, Zenon DEF FatInv, Before, After, Searched, Loading

-----------------------------------------------------------------------------
\* A file's entry in the directory.
LEMMA FileFacts ==
  ASSUME CardsInOrder, NEW v \in Volumes, NEW name \in DOMAIN v.files
  PROVE  /\ v.files[name].size \in Nat /\ v.files[name].size < SwapRange /\ v.files[name].cluster \in Nat
         /\ SectorsIn(v.files[name].size) \in Nat
         /\ (SwapBBBB(v.files[name].size) + SectorBytes - 1) \div SectorBytes = SectorsIn(v.files[name].size)
         /\ SectorsIn(v.files[name].size) > 0 =>
              v.files[name].cluster \in DOMAIN v.link /\ v.holds[v.files[name].cluster] = Piece(name, 0)
<1> DEFINE z == v.files[name].size
<1>1. /\ z \in Nat /\ z < SwapRange /\ v.files[name].cluster \in Nat
      /\ z > 0 => v.files[name].cluster \in DOMAIN v.link /\ v.holds[v.files[name].cluster] = Piece(name, 0)
  BY VolumeFacts DEF Chained
<1> SUFFICES /\ SectorsIn(z) \in Nat /\ (SwapBBBB(z) + SectorBytes - 1) \div SectorBytes = SectorsIn(z)
             /\ SectorsIn(z) > 0 => z > 0
  BY <1>1
<1> HIDE DEF z
<1>2. SwapBBBB(z) = z
  BY <1>1, FatNumbers DEF SwapBBBB
<1>3. SectorsIn(z) \in Nat /\ (SectorsIn(z) > 0 => z > 0)
  <2>1. (0 + SectorBytes - 1) \div SectorBytes = 0
    BY SdNumbers
  <2>2. (z + SectorBytes - 1) \in Nat
    BY <1>1, SdNumbers
  <2>3. (z + SectorBytes - 1) \div SectorBytes \in Nat
    BY <2>2, SdNumbers
  <2> QED
    BY <1>1, <2>1, <2>3 DEF SectorsIn
<1> QED
  BY <1>2, <1>3 DEF SectorsIn

\* A step of LoadFile, put together.
LEMMA LoadsOn ==
  ASSUME Basics, boot.at \in {"manifest", "image"}, Steady, fat'.at \in Loading, drive' = drive,
         Found => InFile', ~ Found => Astray'
  PROVE  FatInv'
<1>1. Basics'
  BY BasicsStay
<1>2. Found' <=> Found
  BY Zenon DEF Found, RightType, Steady
<1> QED
  BY <1>1, <1>2, Zenon DEF FatInv, Before, After

\* The end of the directory keeps it.
LEMMA DirEndKeeps ==
  ASSUME CardsInOrder, FatInv, boot.at \in {"manifest", "image"}, DirEnd, Quiet
  PROVE  FatInv'
<1>1. /\ fat.at = "dir" /\ fat' = [fat EXCEPT !.at = "returned"]
      /\ UNCHANGED <<sector_buffer, buffered_fat_index, drive, misled, volume>>
      /\ DOMAIN fat = {"at", "name", "to", "cluster", "sector", "left", "ok"}
      /\ Basics /\ Known(sector_buffer) /\ buffered_fat_index \in Int /\ misled \in BOOLEAN
  BY BufferKnown DEF DirEnd, NotFound, FatInv, Basics, Shapes
<1>2. /\ DOMAIN fat' = DOMAIN fat /\ fat'.to = fat.to /\ fat'.left = fat.left /\ fat'.ok = fat.ok /\ fat'.name = fat.name
      /\ fat'.at = "returned"
  BY <1>1
<1>3. IF Found THEN AtDir ELSE Astray
  BY <1>1 DEF FatInv, After, InFile, Loading
<1>4. Steady
  BY <1>1, <1>2 DEF Steady, Quiet, Basics, FatType, Known, Loading, Numeric
<1>5. Found => InFile'
  BY <1>2, <1>3 DEF InFile, AtDir, Returned
<1>6. ~ Found => Astray'
  <2> SUFFICES ASSUME ~ Found PROVE Astray'
    OBVIOUS
  <2>1. ~ fat.ok /\ fat.name = ManifestName /\ boot.at = "manifest" /\ NoManifest
    BY <1>3, <1>1 DEF Astray
  <2>2. RightType => \E g \in Geometries : Untouched(g) /\ Stray
    BY <1>3, Zenon DEF Astray
  <2>3. RightType' => \E g \in Geometries : Untouched(g)' /\ Stray'
    BY <1>1, <2>2, Zenon DEF Untouched, Stray, RightType, Quiet
  <2>4. NoManifest'
    BY <1>1, <2>1 DEF NoManifest
  <2> QED
    BY <1>2, <2>1, <2>3, <2>4 DEF Astray, Quiet, ManifestName
<1> QED
  BY <1>1, <1>2, <1>4, <1>5, <1>6, LoadsOn DEF Loading

-----------------------------------------------------------------------------
\* LoadFile.

\* A sector of the directory keeps it.
LEMMA DirSectorKeeps ==
  ASSUME CardsInOrder, FatInv, boot.at \in {"manifest", "image"}, DirSector, Quiet
  PROVE  FatInv'
<1> DEFINE f == volume.files[fat.name]
           count == (SwapBBBB(f.size) + SectorBytes - 1) \div SectorBytes
           a == IF count = 0 THEN "returned" ELSE "data"
           here == fat.name \in Names(sector_buffer')
<1>1. PICK got \in Outcomes(fat.sector) : sd_read_sector(fat.sector, got) /\ sector_buffer' = Got(got)
  BY Zenon DEF DirSector
<1>2. /\ fat.at = "dir" /\ fat.left > 0 /\ fat.left \in Nat /\ fat.ok \in BOOLEAN
      /\ UNCHANGED <<buffered_fat_index, drive, misled, volume>>
      /\ DOMAIN fat = {"at", "name", "to", "cluster", "sector", "left", "ok"}
      /\ Basics /\ Known(sector_buffer) /\ buffered_fat_index \in Int /\ misled \in BOOLEAN /\ volume \in Volumes
      /\ fat.sector \in Int /\ fat.cluster \in Nat /\ TypeKnown /\ sd.at = "up" /\ drive \in Drives
  BY BufferKnown DEF DirSector, FatInv, Basics, Shapes, Numeric, FatType, Stages
<1>3. IF Found THEN AtDir ELSE Astray
  BY <1>2 DEF FatInv, After, InFile, Loading
<1>4. Known(sector_buffer)'
  <2>1. CASE got = None
    BY <1>1, <1>2, <2>1 DEF Known, Got
  <2>2. CASE got # None
    <3>1. Known(SectorAt(got)) /\ sector_buffer' = SectorAt(got)
      BY <1>1, <1>2, <2>2, ReadsKnown DEF Got
    <3> QED
      BY <1>2, <3>1, Zenon DEF Known
  <2> QED
    BY <2>1, <2>2
<1>5. CASE here /\ Found
  <2>1. fat.name \in DOMAIN volume.files
    <3>1. sector_buffer'.is = "dir" /\ fat.name \in volume.dir[sector_buffer'.n]
      BY <1>5, Zenon DEF Names
    <3>2. sector_buffer'.n \in DOMAIN volume.dir
      BY <1>2, <1>4, <3>1 DEF Known
    <3>3. volume.dir[sector_buffer'.n] \subseteq DOMAIN volume.files
      BY <1>2, <3>2, VolumeFacts DEF Named
    <3> QED
      BY <3>1, <3>3
  <2>2. /\ count = SectorsIn(f.size) /\ count \in Nat /\ f.cluster \in Nat
        /\ count > 0 => f.cluster \in DOMAIN volume.link /\ volume.holds[f.cluster] = Piece(fat.name, 0)
    BY <1>2, <2>1, FileFacts
  <2>3. fat' = [fat EXCEPT !.at = a, !.ok = count = 0, !.cluster = f.cluster, !.sector = 0, !.left = count]
    BY <1>5, Zenon DEF DirSector
  <2>4. a \in {"returned", "data"} /\ (a = "returned" <=> count = 0)
    OBVIOUS
  <2> DEFINE o == count = 0
             c == f.cluster
  <2>5. o \in BOOLEAN /\ (o <=> count = 0)
    OBVIOUS
  <2>6. SectorsIn(volume.files[fat.name].size) = count
    BY <2>2
  <2>7. c \in Nat /\ (count > 0 => c \in DOMAIN volume.link /\ volume.holds[c] = Piece(fat.name, 0))
    BY <2>2
  <2>8. count \in Nat
    BY <2>2
  <2> HIDE DEF a, count, o, c, f, here
  <2>9. fat' = [fat EXCEPT !.at = a, !.ok = o, !.cluster = c, !.sector = 0, !.left = count]
    BY <2>3, Zenon DEF o, c
  <2>10. /\ DOMAIN fat' = DOMAIN fat /\ fat'.to = fat.to /\ fat'.left = count /\ fat'.name = fat.name
         /\ fat'.cluster = c /\ fat'.sector = 0 /\ fat'.at = a
    BY <1>2, <2>9
  <2>11. fat'.ok = o
    BY <1>2, <2>9, Zenon
  <2>12. volume' = volume /\ SectorsIn(volume.files[fat.name].size)' = count
    BY <1>2, <2>6, <2>10, Zenon
  <2>13. Steady
    BY <1>2, <1>4, <2>4, <2>5, <2>8, <2>10, <2>11 DEF Steady, Quiet, Loading, Numeric
  <2>14. CASE count = 0
    <3>1. Returned'
      <4>1. LoadedSoFar(fat.name, fat.to, 0)'
        BY DEF LoadedSoFar
      <4>2. Total' = 0
        BY <2>12, <2>14 DEF Total
      <4>3. fat'.name \in DOMAIN volume'.files
        BY <2>1, <2>10, <2>12
      <4> QED
        BY <4>1, <4>2, <4>3, Zenon DEF Returned
    <3>2. InFile'
      BY <2>4, <2>10, <2>14, <3>1 DEF InFile
    <3> QED
      BY <1>2, <1>5, <2>4, <2>10, <2>13, <3>2, LoadsOn DEF Loading
  <2>15. CASE count > 0
    <3>1. Total' = count
      BY <2>12 DEF Total
    <3>2. Buffered'
      BY <1>2, <1>3, <1>5 DEF Buffered, AtDir
    <3>3. LoadedSoFar(fat.name, fat.to, fat.sector)'
      BY <2>10 DEF LoadedSoFar
    <3>4. Holding(fat.cluster, fat.name, fat.sector - (fat.sector % volume.clusterSize))'
      <4>1. volume.clusterSize \in Nat \ {0}
        BY <1>2, VolumeFacts
      <4>2. 0 - (0 % volume.clusterSize) = 0
        BY <4>1
      <4>3. c \in DOMAIN volume'.link /\ volume'.holds[c] = Piece(fat.name, 0)
        BY <2>7, <2>12, <2>15
      <4>4. fat'.sector - (fat'.sector % volume'.clusterSize) = 0
        BY <2>10, <2>12, <4>2
      <4> QED
        BY <2>10, <4>3, <4>4, Zenon DEF Holding
    <3>5. ~ fat'.ok
      <4>1. count # 0
        BY <2>8, <2>15
      <4> QED
        BY <2>5, <2>11, <4>1, Zenon
    <3>6. fat'.name \in DOMAIN volume'.files /\ fat'.cluster \in Nat /\ fat'.sector \in Nat /\ fat'.left > 0
          /\ fat'.left = count - fat'.sector
      BY <2>1, <2>7, <2>8, <2>10, <2>12, <2>15
    <3>7. AtData'
      BY <3>1, <3>2, <3>3, <3>4, <3>5, <3>6, Zenon DEF AtData
    <3>8. InFile'
      BY <2>4, <2>8, <2>10, <2>15, <3>7 DEF InFile
    <3> QED
      BY <1>2, <1>5, <2>4, <2>10, <2>13, <3>8, LoadsOn DEF Loading
  <2> QED
    BY <2>8, <2>14, <2>15
<1>6. ~ Found => NoManifest' /\ fat.name = ManifestName /\ boot.at = "manifest"
  <2> SUFFICES ASSUME ~ Found PROVE NoManifest' /\ fat.name = ManifestName /\ boot.at = "manifest"
    OBVIOUS
  <2>1. Astray
    BY <1>3
  <2>2. NoManifest /\ fat.name = ManifestName /\ boot.at = "manifest"
    BY <2>1 DEF Astray
  <2>3. CASE got = None
    BY <1>1, <1>2, <2>2, <2>3 DEF NoManifest, Got
  <2>4. CASE got # None
    <3>1. RightType => Hidden(volume, fat.sector)
      <4> SUFFICES ASSUME RightType PROVE Hidden(volume, fat.sector)
        OBVIOUS
      <4>1. PICK g \in Geometries :
              /\ Stray
              /\ \/ \A i \in 0 .. fat.left - 1 : fat.sector + i \in StrayRoot(volume, g)
                 \/ drive.fat32 /\ \A i \in 0 .. fat.left - 1 : fat.sector + i \in StrayData(volume, g)
        BY <1>2, <2>1, Zenon DEF Astray
      <4>2. 0 \in 0 .. fat.left - 1 /\ fat.sector + 0 = fat.sector
        BY <1>2
      <4>3. fat.sector \in StrayRoot(volume, g) \/ (drive.fat32 /\ fat.sector \in StrayData(volume, g))
        BY <4>1, <4>2, Zenon
      <4>4. drive.fat32 => volume.fat32 /\ ~ volume.recognised
        BY <4>1 DEF Stray
      <4> QED
        BY <1>2, <4>3, <4>4, VolumeFacts, Zenon DEF OutOfTheWay
    <3>2. ~ ShowsManifest(volume, got)
      BY <1>1, <1>2, <2>4, <3>1, ReadsNoManifest
    <3>3. sector_buffer' = SectorAt(got)
      BY <1>1, <2>4 DEF Got
    <3> QED
      BY <1>2, <2>2, <3>2, <3>3, ShowsWhat, Zenon DEF NoManifest, ManifestName
  <2> QED
    BY <2>3, <2>4
<1>7. CASE ~ here
  <2>1. fat' = [fat EXCEPT !.sector = @ + 1, !.left = @ - 1]
    BY <1>7, Zenon DEF DirSector
  <2>2. /\ DOMAIN fat' = DOMAIN fat /\ fat'.to = fat.to /\ fat'.left = fat.left - 1 /\ fat'.name = fat.name
        /\ fat'.cluster = fat.cluster /\ fat'.sector = fat.sector + 1 /\ fat'.at = "dir" /\ fat'.ok = fat.ok
    BY <1>2, <2>1
  <2>3. Steady
    BY <1>2, <1>4, <2>2 DEF Steady, Quiet, Loading, Numeric
  <2>4. Found => InFile'
    BY <1>2, <1>3, <2>2 DEF InFile, AtDir
  <2>5. ~ Found => Astray'
    <3> SUFFICES ASSUME ~ Found PROVE Astray'
      OBVIOUS
    <3>1. ASSUME RightType
          PROVE  \E g \in Geometries :
                   /\ Untouched(g)' /\ Stray'
                   /\ fat'.cluster \in StrayClusters(volume, g)
                   /\ \/ \A i \in 0 .. fat'.left - 1 : fat'.sector + i \in StrayRoot(volume, g)
                      \/ drive.fat32 /\ \A i \in 0 .. fat'.left - 1 : fat'.sector + i \in StrayData(volume, g)
      <4>1. PICK g \in Geometries :
              /\ Untouched(g) /\ Stray
              /\ fat.cluster \in StrayClusters(volume, g)
              /\ \/ \A i \in 0 .. fat.left - 1 : fat.sector + i \in StrayRoot(volume, g)
                 \/ drive.fat32 /\ \A i \in 0 .. fat.left - 1 : fat.sector + i \in StrayData(volume, g)
        BY <1>2, <1>3, <3>1, Zenon DEF Astray
      <4>2. Untouched(g)' /\ Stray'
        BY <1>2, <4>1, Zenon DEF Untouched, Stray
      <4>3. \A i \in 0 .. fat'.left - 1 : i + 1 \in 0 .. fat.left - 1 /\ fat'.sector + i = fat.sector + (i + 1)
        BY <1>2, <2>2
      <4>4. \/ \A i \in 0 .. fat'.left - 1 : fat'.sector + i \in StrayRoot(volume, g)
            \/ drive.fat32 /\ \A i \in 0 .. fat'.left - 1 : fat'.sector + i \in StrayData(volume, g)
        BY <4>1, <4>3, Zenon
      <4> QED
        BY <2>2, <4>1, <4>2, <4>4
    <3>2. RightType' <=> RightType
      BY Zenon DEF RightType, Quiet
    <3>3. ~ fat.ok
      BY <1>3 DEF Astray
    <3> QED
      BY <1>2, <1>6, <2>2, <3>1, <3>2, <3>3, Zenon DEF Astray, Quiet, ManifestName
  <2> QED
    BY <1>2, <2>2, <2>3, <2>4, <2>5, LoadsOn DEF Loading
<1>8. ~ Found => ~ here
  <2>1. ~ Found /\ here => sector_buffer'.is = "dir" /\ ManifestName \in volume'.dir[sector_buffer'.n]
    BY <1>2, <1>6, Zenon DEF Names
  <2> QED
    BY <1>6, <2>1, Zenon DEF NoManifest, ManifestName
<1> QED
  BY <1>5, <1>7, <1>8

\* Links are numbers.
LEMMA LinksAreNumbers ==
  ASSUME CardsInOrder, volume \in Volumes, NEW link \in Links
  PROVE  link \in Nat
BY VolumeFacts DEF Links, CardsInOrder, Placed, EndOfChain

\* GetCluster gives one of the volume's links, or junk.
LEMMA LinkIsAny ==
  ASSUME NEW c, NEW link, GetCluster(c, link)
  PROVE  link \in AnyLink(volume) \cup {EndOfChain}
<1>1. ASSUME NEW buffer, link \in LinksIn(buffer, c)
      PROVE  link \in AnyLink(volume) \cup {EndOfChain}
  <2> DEFINE entry == buffer.n * LinksPerSector[drive.fat32] + (c % LinksPerSector[drive.fat32])
  <2>1. \/ link \in JunkLinks
        \/ link = EndOfChain \/ link = 0
        \/ entry \in DOMAIN volume.link /\ link = volume.link[entry]
    BY <1>1, Zenon DEF LinksIn
  <2> HIDE DEF entry
  <2> QED
    BY <2>1 DEF AnyLink
<1>2. link = 0 => link \in AnyLink(volume)
  BY DEF AnyLink
<1> QED
  BY <1>1, <1>2, Zenon DEF GetCluster

\* The directory's chain, where the geometry is not the volume's.
LEMMA StrayLink ==
  ASSUME CardsInOrder, Basics, fat.at = "dir", drive.fat32, Astray, sd.at = "up", volume' = volume,
         NEW link, GetCluster(fat.cluster, link)
  PROVE  NoManifest'
<1>1. /\ volume \in Volumes /\ TypeKnown /\ NoManifest /\ fat.cluster \in Nat /\ drive \in Drives
      /\ buffered_fat_index \in Int
  BY DEF Basics, FatType, Astray, Numeric
<1> DEFINE lba == drive.fat_start + LinkSector(fat.cluster)
<1>2. drive.fat32 = TRUE /\ drive.fat_start \in Int /\ LinkSector(fat.cluster) \in Nat
  BY <1>1, LinkPlace DEF Drives
<1>3. lba \in Int
  BY <1>2
<1>4. RightType => Hidden(volume, lba)
  <2> SUFFICES ASSUME RightType PROVE Hidden(volume, lba)
    OBVIOUS
  <2>1. PICK g \in Geometries : Untouched(g) /\ Stray /\ fat.cluster \in StrayClusters(volume, g)
    BY Zenon DEF Astray
  <2>2. volume.fat32 /\ ~ volume.recognised
    BY <2>1 DEF Stray
  <2>3. drive.fat_start = g.fat_start
    BY <2>1 DEF Untouched, CardsInOrder, Drives
  <2>4. lba = g.fat_start + fat.cluster \div LinksPerSector[TRUE]
    BY <1>2, <2>3 DEF LinkSector
  <2>5. lba \in StrayFat(volume, g)
    BY <2>1, <2>4 DEF StrayFat
  <2> QED
    BY <1>1, <2>2, <2>5, VolumeFacts DEF OutOfTheWay
<1>5. CASE UNCHANGED <<sector_buffer, buffered_fat_index>>
  BY <1>1, <1>5 DEF NoManifest
<1> HIDE DEF lba
<1>6. ASSUME NEW got, sd_read_sector(lba, got), got # None, sector_buffer' = SectorAt(got)
      PROVE  NoManifest'
  <2>1. ~ ShowsManifest(volume, got)
    BY <1>1, <1>3, <1>4, <1>6, ReadsNoManifest
  <2> QED
    BY <1>6, <2>1, ShowsWhat, Zenon DEF NoManifest, ManifestName
<1> QED
  BY <1>5, <1>6, Zenon DEF GetCluster, lba

\* The link of a directory's cluster keeps what the reader knows.
LEMMA DirLinkKeeps ==
  ASSUME CardsInOrder, FatInv, boot.at \in {"manifest", "image"}, DirLink, Quiet
  PROVE  FatInv'
<1>1. PICK link \in Links :
        /\ GetCluster(fat.cluster, link)
        /\ IF link = EndOfChain THEN NotFound
           ELSE fat' = [fat EXCEPT !.cluster = link, !.sector = ClusterStart(link), !.left = drive.cluster_size]
  BY DEF DirLink
<1>2. /\ fat.at = "dir" /\ fat.left \in Nat /\ fat.ok \in BOOLEAN /\ drive.fat32
      /\ UNCHANGED <<drive, misled, volume>>
      /\ DOMAIN fat = {"at", "name", "to", "cluster", "sector", "left", "ok"}
      /\ Basics /\ Known(sector_buffer) /\ buffered_fat_index \in Int /\ misled \in BOOLEAN /\ volume \in Volumes
      /\ fat.sector \in Int /\ fat.cluster \in Nat /\ TypeKnown /\ sd.at = "up" /\ drive \in Drives
  BY BufferKnown DEF DirLink, FatInv, Basics, Shapes, Numeric, FatType, Stages
<1>3. IF Found THEN AtDir ELSE Astray
  BY <1>2 DEF FatInv, After, InFile, Loading
<1>4. link \in Nat /\ drive.fat32 \in BOOLEAN
  BY <1>2, LinksAreNumbers DEF Drives
<1>5. Known(sector_buffer)' /\ buffered_fat_index' \in Int
  BY <1>1, <1>2, <1>4, LinkKnown
<1>6. ClusterStart(link) \in Int /\ drive.cluster_size \in Nat
  <2>1. drive.cluster_size \in Nat /\ drive.data_start \in Int
    BY <1>2 DEF Drives
  <2>2. drive.cluster_size * (link - 2) \in Int
    BY <1>4, <2>1
  <2> QED
    BY <2>1, <2>2 DEF ClusterStart
<1>7. Found => link = EndOfChain \/ (link = 0 /\ buffered_fat_index' = -1)
  <2> SUFFICES ASSUME Found PROVE link = EndOfChain \/ (link = 0 /\ buffered_fat_index' = -1)
    OBVIOUS
  <2>1. buffered_fat_index = -1 /\ fat.cluster \in {volume.rootCluster, 0} /\ Buffered
    BY <1>3 DEF AtDir, Buffered
  <2>2. volume.fat32 /\ volume.fat32 \in BOOLEAN
    BY <1>2, Layout, VolumeFacts DEF Found
  <2>3. volume.rootCluster \in DOMAIN volume.link /\ volume.link[volume.rootCluster] = EndOfChain
    BY <1>2, <2>2, VolumeFacts DEF Named
  <2>4. volume.rootCluster \in Nat \ {0, 1} /\ volume.rootCluster \div LinksPerSector[volume.fat32] < volume.fatSize
    BY <1>2, <2>3, VolumeFacts DEF Placed
  <2>5. fat.cluster \div LinksPerSector[volume.fat32] < volume.fatSize
    <3> DEFINE l == LinksPerSector[volume.fat32]
    <3>1. l \in Nat \ {0} /\ volume.fatSize \in Nat
      BY <1>2, <2>2, FatNumbers, Layout
    <3> HIDE DEF l
    <3>2. 0 \div l = 0 /\ volume.rootCluster \div l \in Nat
      BY <2>4, <3>1
    <3>3. 0 \div l < volume.fatSize
      BY <2>4, <3>1, <3>2 DEF l
    <3>4. fat.cluster = 0 => fat.cluster \div l < volume.fatSize
      BY <3>3
    <3> QED
      BY <2>1, <2>4, <3>4 DEF l
  <2>6. LinkOf(volume, fat.cluster) = EndOfChain
    BY <2>1, <2>3, Zenon DEF LinkOf
  <2> QED
    BY <1>1, <1>2, <2>1, <2>5, <2>6, TakesLink, Zenon
<1>8. ~ Found => NoManifest'
  BY <1>1, <1>2, <1>3, StrayLink
<1>9. CASE link = EndOfChain
  <2>1. fat' = [fat EXCEPT !.at = "returned"]
    BY <1>1, <1>9 DEF NotFound
  <2>2. /\ DOMAIN fat' = DOMAIN fat /\ fat'.to = fat.to /\ fat'.left = fat.left /\ fat'.ok = fat.ok /\ fat'.name = fat.name
        /\ fat'.at = "returned"
    BY <1>2, <2>1
  <2>3. Steady
    BY <1>2, <1>5, <2>2 DEF Steady, Quiet, Loading, Numeric
  <2>4. Found => InFile'
    BY <1>3, <2>2 DEF InFile, AtDir, Returned
  <2>5. ~ Found => Astray'
    <3> SUFFICES ASSUME ~ Found PROVE Astray'
      OBVIOUS
    <3>1. ~ fat.ok /\ fat.name = ManifestName /\ boot.at = "manifest"
      BY <1>2, <1>3 DEF Astray
    <3>2. RightType => \E g \in Geometries : Untouched(g) /\ Stray
      BY <1>3, Zenon DEF Astray
    <3>3. RightType' => \E g \in Geometries : Untouched(g)' /\ Stray'
      BY <1>2, <3>2, Zenon DEF Untouched, Stray, RightType, Quiet
    <3> QED
      BY <1>8, <2>2, <3>1, <3>3 DEF Astray, Quiet, ManifestName
  <2> QED
    BY <1>2, <2>2, <2>3, <2>4, <2>5, LoadsOn DEF Loading
<1>10. CASE link # EndOfChain
  <2> DEFINE s == ClusterStart(link)
             n == drive.cluster_size
  <2>1. fat' = [fat EXCEPT !.cluster = link, !.sector = s, !.left = n]
    BY <1>1, <1>10
  <2> HIDE DEF s, n
  <2>2. /\ DOMAIN fat' = DOMAIN fat /\ fat'.to = fat.to /\ fat'.left = n /\ fat'.name = fat.name
        /\ fat'.cluster = link /\ fat'.sector = s /\ fat'.at = "dir" /\ fat'.ok = fat.ok
    BY <1>2, <2>1
  <2>3. Steady
    BY <1>2, <1>4, <1>5, <1>6, <2>2 DEF Steady, Quiet, Loading, Numeric, s, n
  <2>4. Found => InFile'
    BY <1>2, <1>3, <1>6, <1>7, <1>10, <2>2 DEF InFile, AtDir, n
  <2>5. ~ Found => Astray'
    <3> SUFFICES ASSUME ~ Found PROVE Astray'
      OBVIOUS
    <3>1. ~ fat.ok /\ fat.name = ManifestName /\ boot.at = "manifest"
      BY <1>2, <1>3 DEF Astray
    <3>2. ASSUME RightType
          PROVE  \E g \in Geometries :
                   /\ Untouched(g)' /\ Stray'
                   /\ fat'.cluster \in StrayClusters(volume', g)
                   /\ drive'.fat32 /\ \A i \in 0 .. fat'.left - 1 : fat'.sector + i \in StrayData(volume', g)
      <4>1. PICK g \in Geometries : Untouched(g) /\ Stray
        BY <1>3, <3>2, Zenon DEF Astray
      <4>2. Untouched(g)' /\ Stray'
        BY <1>2, <4>1, Zenon DEF Untouched, Stray
      <4>3. link \in AnyLink(volume)
        BY <1>1, <1>10, LinkIsAny
      <4>4. drive.data_start = g.data_start /\ drive.cluster_size = g.cluster_size
        BY <4>1 DEF Untouched, CardsInOrder, Drives
      <4>5. \A i \in 0 .. n - 1 : s + i \in StrayData(volume, g)
        <5>1. s = g.data_start + g.cluster_size * (link - 2) /\ n = g.cluster_size
          BY <4>4, Zenon DEF s, n, ClusterStart
        <5> SUFFICES ASSUME NEW i \in 0 .. n - 1 PROVE s + i \in StrayData(volume, g)
          OBVIOUS
        <5>2. i \in 0 .. g.cluster_size - 1
          BY <5>1
        <5>3. g.data_start + g.cluster_size * (link - 2) + i \in StrayData(volume, g)
          BY <4>3, <5>2 DEF StrayData
        <5> QED
          BY <5>1, <5>3, Zenon
      <4> QED
        BY <1>2, <2>2, <4>2, <4>3, <4>5, Zenon DEF StrayClusters
    <3>3. RightType' <=> RightType
      BY Zenon DEF RightType, Quiet
    <3> QED
      BY <1>8, <2>2, <3>1, <3>2, <3>3, Zenon DEF Astray, Quiet, ManifestName
  <2> QED
    BY <1>2, <2>2, <2>3, <2>4, <2>5, LoadsOn DEF Loading
<1> QED
  BY <1>9, <1>10

\* Places in a cluster.
LEMMA Positions ==
  ASSUME NEW s \in Nat, NEW k \in {1, 2, 4, 8}
  PROVE  /\ s % k \in 0 .. k - 1 /\ s - (s % k) \in Nat
         /\ (s + 1) % k = 0 => (s + 1) - k = s - (s % k)
         /\ (s + 1) % k # 0 => (s + 1) - ((s + 1) % k) = s - (s % k)
<1>1. CASE k = 1
  BY <1>1
<1>2. CASE k = 2
  BY <1>2
<1>3. CASE k = 4
  BY <1>3
<1>4. CASE k = 8
  BY <1>4
<1> QED
  BY <1>1, <1>2, <1>3, <1>4

\* The sector of the file that is due.
LEMMA DataDue ==
  ASSUME CardsInOrder, Basics, Found, AtData, ~ misled, NEW got,
         sd_read_sector(ClusterStart(fat.cluster) + (fat.sector % drive.cluster_size), got), got # None
  PROVE  SectorAt(got) = Piece(fat.name, fat.sector)
<1> DEFINE k == volume.clusterSize
           r == fat.sector % k
           c == fat.cluster
           lba == Own(volume).data_start + k * (c - 2) + r
<1>1. /\ volume \in Volumes /\ TypeKnown /\ fat.sector \in Nat /\ k \in {1, 2, 4, 8}
      /\ c \in DOMAIN volume.link /\ volume.holds[c] = Piece(fat.name, fat.sector - r)
  BY VolumeFacts DEF Basics, FatType, AtData, Holding
<1>2. r \in 0 .. k - 1 /\ fat.sector - r \in Nat /\ fat.sector \in Int /\ r \in Int
  BY <1>1, Positions
<1>3. SectorOf(volume, lba) = [volume.holds[c] EXCEPT !.n = @ + r] /\ lba \in 0 .. CardSectors - 1
  BY <1>1, <1>2, ClusterSector
<1>4. ClusterStart(fat.cluster) + (fat.sector % drive.cluster_size) = lba
  BY <1>1, Layout, Zenon DEF Found, ClusterStart
<1> HIDE DEF lba, r, k, c
<1>5. lba \in Int
  BY <1>3, SdNumbers
<1>6. got = lba
  <2>1. sd_read_sector(lba, got)
    BY <1>4
  <2> QED
    BY <1>1, <1>3, <1>5, <2>1, RightReads DEF Found
<1>7. [volume.holds[c] EXCEPT !.n = @ + r] = Piece(fat.name, fat.sector)
  <2>1. [Piece(fat.name, fat.sector - r) EXCEPT !.n = @ + r] = Piece(fat.name, (fat.sector - r) + r)
    BY DEF Piece, Sector
  <2>2. (fat.sector - r) + r = fat.sector
    BY <1>2
  <2> QED
    BY <1>1, <2>1, <2>2, Zenon
<1> QED
  BY <1>3, <1>6, <1>7, Zenon DEF SectorAt

\* A sector of the file keeps it.
LEMMA DataSectorKeeps ==
  ASSUME CardsInOrder, FatInv, boot.at \in {"manifest", "image"}, DataSector, Quiet
  PROVE  FatInv'
<1> DEFINE lba == ClusterStart(fat.cluster) + (fat.sector % drive.cluster_size)
           here == fat.to + fat.sector
           a == IF ClusterEnds(fat.sector) THEN "link" ELSE IF fat.left = 1 THEN "returned" ELSE "data"
           o == fat.left = 1
           k == volume.clusterSize
<1>1. PICK got \in Outcomes(lba) :
        /\ sd_read_sector(lba, got)
        /\ IF got = None THEN LoadFails /\ UNCHANGED memory
           ELSE /\ memory' = [x \in DOMAIN memory \cup {here} |-> IF x = here THEN SectorAt(got) ELSE memory[x]]
                /\ fat' = [fat EXCEPT !.sector = @ + 1, !.left = @ - 1, !.at = a, !.ok = o]
  BY DEF DataSector
<1>2. /\ fat.at = "data" /\ fat.left \in Nat
      /\ UNCHANGED <<sector_buffer, buffered_fat_index, drive, misled, volume>>
      /\ DOMAIN fat = {"at", "name", "to", "cluster", "sector", "left", "ok"}
      /\ Basics /\ Known(sector_buffer) /\ buffered_fat_index \in Int /\ misled \in BOOLEAN /\ volume \in Volumes
      /\ drive \in Drives /\ fat.to \in Nat
  BY BufferKnown DEF DataSector, FatInv, Basics, Shapes, Numeric, FatType, Stages, Loading
<1>3. Found /\ AtData
  BY <1>2 DEF FatInv, After, InFile, Loading, Astray
<1>4. Known(sector_buffer)'
  BY <1>2 DEF Known
<1>5. CASE got = None
  <2>1. fat' = [fat EXCEPT !.at = "returned", !.ok = FALSE]
    BY <1>1, <1>5 DEF LoadFails
  <2>2. /\ DOMAIN fat' = DOMAIN fat /\ fat'.to = fat.to /\ fat'.left = fat.left /\ fat'.ok = FALSE
        /\ fat'.at = "returned"
    BY <1>2, <2>1
  <2>3. Steady
    BY <1>2, <1>4, <2>2 DEF Steady, Quiet, Loading, Numeric
  <2>4. InFile'
    BY <2>2 DEF InFile, Returned
  <2> QED
    BY <1>2, <1>3, <2>2, <2>3, <2>4, LoadsOn DEF Loading
<1>6. CASE got # None
  <2>1. /\ memory' = [x \in DOMAIN memory \cup {here} |-> IF x = here THEN SectorAt(got) ELSE memory[x]]
        /\ fat' = [fat EXCEPT !.sector = @ + 1, !.left = @ - 1, !.at = a, !.ok = o]
    BY <1>1, <1>6
  <2>2. /\ k \in {1, 2, 4, 8} /\ drive.cluster_size = k /\ fat.sector \in Nat /\ fat.left > 0
        /\ fat.name \in DOMAIN volume.files /\ fat.left = Total - fat.sector /\ Total \in Nat /\ fat.cluster \in Nat
    BY <1>2, <1>3, VolumeFacts, Layout, FileFacts DEF Found, AtData, Total
  <2>3. o \in BOOLEAN /\ (o <=> fat.left = 1) /\ a \in {"link", "returned", "data"}
    OBVIOUS
  <2>4. /\ a = "link" <=> (fat.sector + 1) % k = 0
        /\ a = "returned" => fat.left = 1
        /\ a = "data" => fat.left # 1
    BY <2>2 DEF ClusterEnds
  <2>5. ~ misled => SectorAt(got) = Piece(fat.name, fat.sector)
    BY <1>1, <1>2, <1>3, <1>6, DataDue
  <2> HIDE DEF a, o, here, k, lba
  <2>6. /\ DOMAIN fat' = DOMAIN fat /\ fat'.to = fat.to /\ fat'.left = fat.left - 1 /\ fat'.name = fat.name
        /\ fat'.cluster = fat.cluster /\ fat'.sector = fat.sector + 1 /\ fat'.at = a
    BY <1>2, <2>1
  <2>7. fat'.ok = o
    BY <1>2, <2>1, Zenon
  <2>8. Steady
    BY <1>2, <1>4, <2>2, <2>3, <2>6, <2>7 DEF Steady, Quiet, Loading, Numeric
  <2>9. Total' = Total /\ volume' = volume /\ volume'.clusterSize = k
    BY <1>2, <2>6, Zenon DEF Total, k
  <2>10. ~ misled => LoadedSoFar(fat.name, fat.to, fat.sector)'
    <3> SUFFICES ASSUME ~ misled, NEW i \in 0 .. fat'.sector - 1
                 PROVE  fat'.to + i \in DOMAIN memory' /\ memory'[fat'.to + i] = Piece(fat'.name, i)
      BY DEF LoadedSoFar
    <3>1. fat'.to + i = fat.to + i /\ i \in 0 .. fat.sector /\ i \in Nat /\ fat.to + i \in Nat /\ here \in Nat
      BY <1>2, <2>2, <2>6 DEF here
    <3>2. CASE i = fat.sector
      <4>1. fat.to + i = here
        BY <3>2 DEF here
      <4> QED
        BY <2>1, <2>5, <2>6, <3>1, <3>2, <4>1
    <3>3. CASE i # fat.sector
      <4>1. i \in 0 .. fat.sector - 1 /\ fat.to + i # here
        BY <1>2, <2>2, <3>1, <3>3 DEF here
      <4>2. fat.to + i \in DOMAIN memory /\ memory[fat.to + i] = Piece(fat.name, i)
        BY <1>3, <4>1 DEF AtData, LoadedSoFar
      <4> QED
        BY <2>1, <2>6, <3>1, <4>1, <4>2
    <3> QED
      BY <3>2, <3>3
  <2>11. Buffered /\ misled' = misled => Buffered'
    BY <1>2 DEF Buffered
  <2>12. /\ (fat.sector + 1) % k = 0 => (fat.sector + 1) - k = fat.sector - (fat.sector % k)
         /\ (fat.sector + 1) % k # 0 => (fat.sector + 1) - ((fat.sector + 1) % k) = fat.sector - (fat.sector % k)
    BY <2>2, Positions
  <2>13. ~ misled => Buffered' /\ Holding(fat.cluster, fat.name, fat.sector - (fat.sector % k))
    BY <1>2, <1>3, <2>11 DEF AtData, k
  <2>14. CASE a = "link"
    <3>1. fat'.sector - volume'.clusterSize = fat.sector - (fat.sector % k)
      BY <2>4, <2>6, <2>9, <2>12, <2>14
    <3>2. ~ misled => Holding(fat.cluster, fat.name, fat.sector - volume.clusterSize)'
      BY <2>6, <2>9, <2>13, <3>1, Zenon DEF Holding
    <3>3. fat'.sector \in Nat /\ fat'.cluster \in Nat /\ fat'.sector % volume'.clusterSize = 0 /\ fat'.left = Total' - fat'.sector
          /\ fat'.name \in DOMAIN volume'.files
      BY <2>2, <2>4, <2>6, <2>9, <2>14
    <3>4. fat'.ok <=> fat'.left = 0
      <4>1. fat.left = 1 <=> fat'.left = 0
        BY <1>2, <2>6
      <4> QED
        BY <2>3, <2>7, <4>1, Zenon
    <3>5. AtLink'
      BY <1>2, <2>10, <2>13, <3>2, <3>3, <3>4, Zenon DEF AtLink
    <3>6. InFile'
      BY <2>6, <2>14, <3>5 DEF InFile
    <3> QED
      BY <1>2, <1>3, <2>3, <2>6, <2>8, <3>6, LoadsOn DEF Loading
  <2>15. CASE a = "returned"
    <3>1. Total = fat.sector + 1
      BY <2>2, <2>4, <2>15
    <3>2. Returned'
      BY <1>2, <2>2, <2>6, <2>9, <2>10, <3>1, Zenon DEF Returned
    <3>3. InFile'
      BY <2>6, <2>15, <3>2 DEF InFile
    <3> QED
      BY <1>2, <1>3, <2>3, <2>6, <2>8, <3>3, LoadsOn DEF Loading
  <2>16. CASE a = "data"
    <3>1. fat'.sector - (fat'.sector % volume'.clusterSize) = fat.sector - (fat.sector % k)
      BY <2>4, <2>6, <2>9, <2>12, <2>16
    <3>2. ~ misled => Holding(fat.cluster, fat.name, fat.sector - (fat.sector % volume.clusterSize))'
      BY <2>6, <2>9, <2>13, <3>1, Zenon DEF Holding
    <3>3. fat'.sector \in Nat /\ fat'.cluster \in Nat /\ fat'.left > 0 /\ fat'.left = Total' - fat'.sector
          /\ fat'.name \in DOMAIN volume'.files
      BY <1>2, <2>2, <2>4, <2>6, <2>9, <2>16
    <3>4. ~ fat'.ok
      BY <2>3, <2>4, <2>7, <2>16, Zenon
    <3>5. AtData'
      BY <1>2, <2>10, <2>13, <3>2, <3>3, <3>4, Zenon DEF AtData
    <3>6. InFile'
      BY <2>6, <2>16, <3>5 DEF InFile
    <3> QED
      BY <1>2, <1>3, <2>3, <2>6, <2>8, <3>6, LoadsOn DEF Loading
  <2> QED
    BY <2>3, <2>14, <2>15, <2>16
<1> QED
  BY <1>5, <1>6

\* The link of a file's cluster keeps it.
LEMMA DataLinkKeeps ==
  ASSUME CardsInOrder, FatInv, boot.at \in {"manifest", "image"}, DataLink, Quiet
  PROVE  FatInv'
<1> DEFINE k == volume.clusterSize
           a == IF fat.left = 0 THEN "returned" ELSE "data"
<1>1. PICK link \in Links :
        /\ GetCluster(fat.cluster, link)
        /\ fat' = [fat EXCEPT !.cluster = link, !.at = a]
        /\ misled' = (misled \/ (link = 0 /\ fat.left > 0))
  BY DEF DataLink
<1>2. /\ fat.at = "link" /\ fat.left \in Nat /\ UNCHANGED <<drive, volume, memory>>
      /\ DOMAIN fat = {"at", "name", "to", "cluster", "sector", "left", "ok"}
      /\ Basics /\ Known(sector_buffer) /\ buffered_fat_index \in Int /\ misled \in BOOLEAN /\ volume \in Volumes
      /\ drive \in Drives /\ TypeKnown /\ fat.ok \in BOOLEAN
  BY BufferKnown DEF DataLink, FatInv, Basics, Shapes, Numeric, FatType, Stages, Loading
<1>3. Found /\ AtLink
  BY <1>2 DEF FatInv, After, InFile, Loading, Astray
<1>4. /\ link \in Nat /\ fat.cluster \in Nat /\ drive.fat32 \in BOOLEAN /\ fat.sector \in Nat /\ fat.sector % k = 0
      /\ fat.name \in DOMAIN volume.files /\ fat.left = Total - fat.sector /\ (fat.ok <=> fat.left = 0)
      /\ k \in {1, 2, 4, 8}
  BY <1>1, <1>2, <1>3, LinksAreNumbers, VolumeFacts DEF Drives, AtLink
<1>5. Known(sector_buffer)' /\ buffered_fat_index' \in Int
  BY <1>1, <1>2, <1>4, LinkKnown
<1>6. misled' \in BOOLEAN /\ (~ misled' => ~ misled /\ (link # 0 \/ fat.left = 0))
  <2>1. fat.left > 0 \/ fat.left = 0
    BY <1>2
  <2> QED
    BY <1>1, <1>2, <2>1, Zenon
<1>7. a \in {"returned", "data"} /\ (a = "returned" <=> fat.left = 0)
  OBVIOUS
<1> HIDE DEF a
<1>8. /\ DOMAIN fat' = DOMAIN fat /\ fat'.to = fat.to /\ fat'.left = fat.left /\ fat'.name = fat.name /\ fat'.ok = fat.ok
      /\ fat'.cluster = link /\ fat'.sector = fat.sector /\ fat'.at = a
  BY <1>1, <1>2
<1>9. Steady
  BY <1>2, <1>5, <1>6, <1>7, <1>8 DEF Steady, Quiet, Loading, Numeric
<1>10. Total' = Total
  BY <1>2, <1>8, Zenon DEF Total
<1>11. ~ misled => LoadedSoFar(fat.name, fat.to, fat.sector)'
  <2>1. ~ misled => LoadedSoFar(fat.name, fat.to, fat.sector)
    BY <1>3 DEF AtLink
  <2> QED
    BY <1>2, <1>8, <2>1, Zenon DEF LoadedSoFar
<1>12. CASE fat.left = 0
  <2>1. Total = fat.sector
    BY <1>4, <1>12, <1>2, FileFacts DEF Total
  <2>2. Returned'
    BY <1>2, <1>4, <1>6, <1>8, <1>10, <1>11, <2>1, Zenon DEF Returned
  <2>3. InFile'
    BY <1>7, <1>8, <1>12, <2>2 DEF InFile
  <2> QED
    BY <1>2, <1>3, <1>7, <1>8, <1>9, <2>3, LoadsOn DEF Loading
<1>13. CASE fat.left # 0
  <2>1. ASSUME ~ misled'
        PROVE  Buffered' /\ Holding(link, fat.name, fat.sector)
    <3>1. ~ misled /\ link # 0
      BY <1>6, <1>13, <2>1
    <3>2. Buffered /\ Holding(fat.cluster, fat.name, fat.sector - k)
      BY <1>3, <3>1 DEF AtLink
    <3>3. fat.cluster \in DOMAIN volume.link /\ volume.holds[fat.cluster] = Piece(fat.name, fat.sector - k)
      BY <3>2 DEF Holding
    <3>4. fat.cluster \in Nat \ {0, 1} /\ fat.cluster \div LinksPerSector[volume.fat32] < volume.fatSize
      BY <1>2, <3>3, VolumeFacts DEF Placed
    <3>5. link = LinkOf(volume, fat.cluster) /\ Buffered'
      BY <1>1, <1>2, <1>3, <1>4, <3>1, <3>2, <3>4, TakesLink
    <3>6. link = volume.link[fat.cluster]
      BY <3>3, <3>4, <3>5 DEF LinkOf
    <3>7. Piece(fat.name, fat.sector - k).is = "data" /\ Piece(fat.name, fat.sector - k).of = fat.name
          /\ Piece(fat.name, fat.sector - k).n = fat.sector - k
      BY DEF Piece, Sector
    <3>8. (fat.sector - k) + k = fat.sector /\ fat.sector < Total
      <4>1. Total \in Nat
        BY <1>2, <1>4, FileFacts DEF Total
      <4> QED
        BY <1>2, <1>4, <1>13, <4>1
    <3>9. volume.link[fat.cluster] \in DOMAIN volume.link
          /\ volume.holds[volume.link[fat.cluster]] = Piece(fat.name, (fat.sector - k) + k)
      <4>1. /\ volume.holds[fat.cluster].is = "data" /\ volume.holds[fat.cluster].of = fat.name
            /\ volume.holds[fat.cluster].n = fat.sector - k
        BY <3>3, <3>7, Zenon
      <4>2. volume.holds[fat.cluster].n + volume.clusterSize < SectorsIn(volume.files[fat.name].size)
        BY <3>8, <4>1, Zenon DEF Total
      <4>3. Chained(volume)
        BY <1>2, VolumeFacts
      <4> QED
        BY <1>4, <3>3, <4>1, <4>2, <4>3, Zenon DEF Chained
    <3> QED
      BY <3>5, <3>6, <3>8, <3>9, Zenon DEF Holding
  <2>2. ~ misled' => Holding(fat.cluster, fat.name, fat.sector - (fat.sector % volume.clusterSize))'
    <3>1. fat'.sector - (fat'.sector % volume'.clusterSize) = fat.sector
      BY <1>2, <1>4, <1>8
    <3> QED
      BY <1>2, <1>8, <2>1, <3>1, Zenon DEF Holding
  <2>3. fat'.sector \in Nat /\ fat'.cluster \in Nat /\ fat'.left > 0 /\ fat'.left = Total' - fat'.sector
        /\ fat'.name \in DOMAIN volume'.files
    BY <1>2, <1>4, <1>8, <1>10, <1>13
  <2>4. ~ fat'.ok
    BY <1>4, <1>8, <1>13
  <2>5. AtData'
    BY <1>6, <1>11, <2>1, <2>2, <2>3, <2>4, Zenon DEF AtData
  <2>6. InFile'
    BY <1>7, <1>8, <1>13, <2>5 DEF InFile
  <2> QED
    BY <1>2, <1>3, <1>7, <1>8, <1>9, <2>6, LoadsOn DEF Loading
<1> QED
  BY <1>12, <1>13

-----------------------------------------------------------------------------
\* main() and the whole.

\* The type of a card is settled while it is brought up.
LEMMA TypeStays ==
  ASSUME TypeKnown, DOMAIN sd = {"at", "i", "j"}, SdNext
  PROVE  TypeKnown' /\ DOMAIN sd' = {"at", "i", "j"}
<1> SUFFICES /\ DOMAIN sd' = {"at", "i", "j"} /\ kind' = kind /\ SDHCtype' \in BOOLEAN
             /\ sd'.at \in {"cmd16", "up"} => (SDHCtype' => kind = "SDHC")
  BY DEF TypeKnown
<1>1. CASE SpiInit
  BY <1>1 DEF SpiInit
<1>2. CASE Reset
  <2>1. PICK a \in {"cmd8", "dead", "reset"} : \E n : sd' = [sd EXCEPT !.at = a] \/ (sd.at = "reset" /\ sd' = [sd EXCEPT !.i = n])
    BY <1>2, Zenon DEF Reset
  <2>2. DOMAIN sd' = {"at", "i", "j"} /\ sd'.at \in {"cmd8", "dead", "reset"}
    BY <2>1
  <2> QED
    BY <1>2, <2>2 DEF Reset, TypeKnown
<1>3. CASE Cmd8
  <2>1. \/ sd' = [sd EXCEPT !.at = "cmd1", !.i = OldInitLoop - 1]
        \/ sd' = [at |-> "cmd55", i |-> TypeLoop - 1, j |-> InitLoop - 1]
    BY <1>3, Zenon DEF Cmd8
  <2>2. DOMAIN sd' = {"at", "i", "j"} /\ sd'.at \in {"cmd1", "cmd55"}
    <3>1. CASE sd' = [sd EXCEPT !.at = "cmd1", !.i = OldInitLoop - 1]
      BY <3>1 DEF OldInitLoop
    <3>2. CASE sd' = [at |-> "cmd55", i |-> TypeLoop - 1, j |-> InitLoop - 1]
      BY <3>2
    <3> QED
      BY <2>1, <3>1, <3>2
  <2> QED
    BY <1>3, <2>2 DEF Cmd8, TypeKnown
<1>4. CASE WaitInit
  <2>1. \/ sd' = [sd EXCEPT !.at = "cmd16"] /\ SDHCtype' = FALSE
        \/ sd.at = "cmd1" /\ (\E n : sd' = [sd EXCEPT !.i = n]) /\ SDHCtype' = SDHCtype
    BY <1>4, Zenon DEF WaitInit
  <2> QED
    BY <1>4, <2>1 DEF WaitInit, TypeKnown
<1>5. ASSUME NextRound, kind' = kind
      PROVE  /\ DOMAIN sd' = {"at", "i", "j"} /\ kind' = kind /\ SDHCtype' \in BOOLEAN
             /\ sd'.at \in {"cmd16", "up"} => (SDHCtype' => kind = "SDHC")
  <2>1. \/ sd' = [sd EXCEPT !.at = "cmd16"] /\ SDHCtype' = FALSE
        \/ sd' = [at |-> "cmd55", i |-> sd.i - 1, j |-> InitLoop - 1] /\ SDHCtype' = SDHCtype
    BY <1>5, Zenon DEF NextRound
  <2>2. CASE sd' = [sd EXCEPT !.at = "cmd16"] /\ SDHCtype' = FALSE
    BY <1>5, <2>2
  <2>3. CASE sd' = [at |-> "cmd55", i |-> sd.i - 1, j |-> InitLoop - 1] /\ SDHCtype' = SDHCtype
    BY <1>5, <2>3 DEF TypeKnown
  <2> QED
    BY <2>1, <2>2, <2>3
<1>6. CASE Cmd55
  <2>1. \/ SDHCtype' = SDHCtype /\ sd' = [sd EXCEPT !.at = "cmd41"]
        \/ SDHCtype' = SDHCtype /\ sd.at = "cmd55" /\ \E n : sd' = [sd EXCEPT !.j = n]
        \/ NextRound
    BY <1>6, Zenon DEF Cmd55
  <2>2. kind' = kind
    BY <1>6 DEF Cmd55
  <2> QED
    BY <1>5, <2>1, <2>2 DEF TypeKnown
<1>7. CASE Cmd41
  <2>1. \/ SDHCtype' = SDHCtype /\ sd' = [sd EXCEPT !.at = "cmd58"]
        \/ SDHCtype' = SDHCtype /\ \E n : sd' = [sd EXCEPT !.at = "cmd55", !.j = n]
        \/ NextRound
    BY <1>7, Zenon DEF Cmd41
  <2>2. kind' = kind
    BY <1>7 DEF Cmd41
  <2> QED
    BY <1>5, <2>1, <2>2 DEF TypeKnown
<1>8. CASE Cmd58
  <2>1. \/ SDHCtype' = (kind = "SDHC") /\ sd' = [sd EXCEPT !.at = "cmd16"]
        \/ NextRound
    BY <1>8, Zenon DEF Cmd58
  <2>2. kind' = kind
    BY <1>8 DEF Cmd58
  <2> QED
    BY <1>5, <2>1, <2>2 DEF TypeKnown
<1>9. CASE Cmd16
  BY <1>9 DEF Cmd16, TypeKnown
<1> QED
  BY <1>1, <1>2, <1>3, <1>4, <1>6, <1>7, <1>8, <1>9, Zenon DEF SdNext

-----------------------------------------------------------------------------
\* The reader's invariant holds when the program starts.
LEMMA FatInvStarts ==
  ASSUME CardsInOrder, Init
  PROVE  FatInv
<1>1. fat = [at |-> "idle", name |-> "", to |-> 0, cluster |-> 0, sector |-> 0, left |-> 0, ok |-> FALSE]
      /\ boot = [at |-> "start", line |-> 1, ptr |-> 0] /\ sd = [at |-> "off", i |-> 0, j |-> 0]
  BY DEF Init, FatInit, SdInit
<1>2. volume \in Volumes /\ drive \in Geometries /\ buffered_fat_index = 0 /\ misled = FALSE
      /\ kind \in Kinds /\ SDHCtype \in BOOLEAN
  BY DEF Init, FatInit, SdInit
<1>3. sector_buffer.is = "other"
  BY DEF Init, FatInit, Other, Sector
<1>4. drive \in Drives
  BY <1>2 DEF CardsInOrder
<1>5. Untouched(drive)
  BY <1>4 DEF Untouched, Drives
<1>6. 1 \in DOMAIN Manifest
  BY <1>2, VolumeFacts DEF Readable, Manifest
<1>7. FatType
  <2>1. fat.at = "idle" /\ fat.left = 0 /\ fat.ok \in BOOLEAN /\ misled \in BOOLEAN
    BY <1>1, <1>2
  <2> QED
    BY <1>2, <1>3, <2>1 DEF FatType
<1>8. Shapes /\ Stages
  BY <1>1, <1>6 DEF Shapes, Stages, Loading
<1>9. Basics
  BY <1>1, <1>2, <1>3, <1>4, <1>7, <1>8 DEF Basics, TypeKnown, Numeric, BufferNames
<1>10. Before
  BY <1>1, <1>2, <1>3, <1>5 DEF Before, NoManifest, Loading
<1> QED
  BY <1>1, <1>9, <1>10 DEF FatInv, After, Loading

\* A step of main() that leaves card and file system alone.
LEMMA MainMoves ==
  ASSUME FatInv, UNCHANGED <<kind, SDHCtype, sd, rom, volume, sector_buffer, buffered_fat_index, drive, fat, memory, misled>>,
         rom = "SD", DOMAIN boot' = {"at", "line", "ptr"}, Stages',
         fat.at \in Loading /\ ~ Found => boot'.at \in {"manifest", "ended"}
  PROVE  FatInv'
<1>1. Basics'
  BY DEF FatInv, Basics, FatType, TypeKnown, Shapes, BufferNames, Numeric
<1>2. Before'
  BY Zenon DEF FatInv, Before, NoManifest, Untouched, Stray, Found, RightType
<1>3. After'
  <2>1. Found' <=> Found
    BY Zenon DEF Found, RightType
  <2>2. InFile => InFile'
    BY Zenon DEF InFile, AtDir, AtData, AtLink, Returned, Buffered, LoadedSoFar, Holding, Total
  <2>3. Astray /\ boot'.at \in {"manifest", "ended"} => Astray'
    BY Zenon DEF Astray, NoManifest, RightType, Untouched, Stray
  <2> QED
    BY <2>1, <2>2, <2>3, Zenon DEF FatInv, After
<1> QED
  BY <1>1, <1>2, <1>3 DEF FatInv

FatStill == UNCHANGED <<kind, SDHCtype, sd, rom, volume, sector_buffer, buffered_fat_index, drive, fat, memory, misled>>

\* A step that leaves the reader alone keeps it.
LEMMA StandsStill ==
  ASSUME FatInv, FatStill, boot' = boot
  PROVE  FatInv'
<1>1. Basics'
  BY DEF FatStill, FatInv, Basics, FatType, TypeKnown, Shapes, Stages, Line, Manifest, Loading, BufferNames, Numeric
<1>2. Before' /\ After'
  BY Zenon DEF FatStill, FatInv, Before, After, NoManifest, Untouched, Stray, Found, RightType, InFile, AtDir, AtData, AtLink,
     Returned, Buffered, LoadedSoFar, Holding, Total, Astray
<1> QED
  BY <1>1, <1>2 DEF FatInv

\* main() while the card is brought up.
LEMMA BringingUp ==
  ASSUME CardsInOrder, FatInv, rom = "SD", rom' = rom, boot.at \in {"start", "card"}, UNCHANGED fatVars,
         TypeKnown', DOMAIN sd' = {"at", "i", "j"}, DOMAIN boot' = {"at", "line", "ptr"}, boot'.at = "card",
         boot'.line = boot.line, boot'.ptr = boot.ptr
  PROVE  FatInv'
<1>1. fat.at = "idle"
  BY DEF FatInv, Basics, Stages
<1>2. Stages'
  BY <1>1 DEF FatInv, Basics, Stages, fatVars, Loading, Manifest
<1>3. Basics'
  BY <1>1, <1>2 DEF FatInv, Basics, FatType, Shapes, BufferNames, Numeric, fatVars
<1>4. Before' /\ After'
  BY <1>1 DEF FatInv, Before, After, NoManifest, Untouched, fatVars, Loading
<1> QED
  BY <1>3, <1>4 DEF FatInv

\* Calling LoadFile keeps it.
LEMMA OpenKeeps ==
  ASSUME CardsInOrder, FatInv, rom = "SD", UNCHANGED rom, NEW name, NEW to \in Nat, LoadFile(name, to),
         DOMAIN boot' = {"at", "line", "ptr"}, boot'.at \in {"manifest", "image"}, Stages',
         sd.at = "up", ~ Found => /\ boot'.at = "manifest" /\ name = ManifestName /\ NoManifest
                                  /\ RightType => \E g \in Geometries : Untouched(g) /\ Stray
  PROVE  FatInv'
<1>1. /\ fat' = OpenFrom(name, to) /\ buffered_fat_index' = -1 /\ misled' = FALSE
      /\ UNCHANGED <<volume, sector_buffer, drive, memory, sdVars>>
  BY DEF LoadFile
<1>2. UNCHANGED <<kind, SDHCtype, sd>>
  BY <1>1 DEF sdVars
<1>3. drive \in Drives /\ Basics
  BY DEF FatInv, Basics, Numeric
<1>4. /\ DOMAIN fat' = {"at", "name", "to", "cluster", "sector", "left", "ok"}
      /\ fat'.at = "dir" /\ fat'.name = name /\ fat'.to = to /\ fat'.cluster = drive.root_directory_cluster
      /\ fat'.sector = drive.root_directory_start
      /\ fat'.left = IF drive.fat32 THEN drive.cluster_size ELSE drive.root_directory_size
      /\ fat'.ok \in BOOLEAN /\ ~ fat'.ok
  BY <1>1 DEF OpenFrom
<1>5. /\ drive.root_directory_cluster \in Nat /\ drive.root_directory_start \in Int
      /\ drive.root_directory_size \in Nat /\ drive.cluster_size \in Nat
  BY <1>3 DEF Drives
<1>6. Basics'
  <2>1. fat'.left \in Nat /\ fat'.sector \in Int /\ fat'.cluster \in Nat
    BY <1>4, <1>5
  <2>2. FatType'
    <3>1. fat'.ok \in BOOLEAN /\ fat'.at \in {"idle", "find", "partition", "found", "nothing", "dir", "data", "link", "returned"}
      <4>1. fat'.at = "dir" /\ fat'.ok \in BOOLEAN
        BY <1>4, Zenon
      <4> QED
        BY <4>1
    <3>2. buffered_fat_index' \in Int /\ misled' \in BOOLEAN
      <4>1. misled' = FALSE /\ buffered_fat_index' = -1
        BY <1>1, Zenon
      <4>2. buffered_fat_index' \in Int
        BY <4>1
      <4>3. misled' \in BOOLEAN
        BY <4>1, Zenon
      <4> QED
        BY <4>2, <4>3
    <3>3. volume' \in Volumes /\ sector_buffer'.is \in {"other", "mbr", "boot", "fat", "dir", "data"}
      BY <1>1, <1>3 DEF Basics, FatType
    <3> QED
      BY <2>1, <3>1, <3>2, <3>3, Zenon DEF FatType
  <2>3. TypeKnown' /\ BufferNames'
    BY <1>1, <1>2, <1>3, Zenon DEF Basics, TypeKnown, BufferNames
  <2>4. Shapes'
    BY <1>2, <1>3, <1>4 DEF Basics, Shapes
  <2>5. Numeric'
    BY <1>1, <1>3, <2>1 DEF Numeric
  <2> QED
    BY <2>2, <2>3, <2>4, <2>5 DEF Basics
<1>7. Found' <=> Found
  BY <1>1, <1>2, Zenon DEF Found, RightType
<1>8. Found => InFile'
  <2>1. Found => drive.root_directory_cluster = volume.rootCluster
    BY <1>3, Layout DEF Found, Basics, FatType
  <2> QED
    BY <1>1, <1>4, <1>5, <2>1 DEF InFile, AtDir
<1>9. ~ Found => Astray'
  <2> SUFFICES ASSUME ~ Found PROVE Astray'
    OBVIOUS
  <2>1. ASSUME RightType
        PROVE  \E g \in Geometries :
                 /\ Untouched(g)' /\ Stray'
                 /\ fat'.cluster \in StrayClusters(volume', g)
                 /\ \A i \in 0 .. fat'.left - 1 : fat'.sector + i \in StrayRoot(volume', g)
    <3>1. PICK g \in Geometries : Untouched(g) /\ Stray
      BY <2>1
    <3>2. Untouched(g)' /\ Stray'
      BY <1>1, <3>1, Zenon DEF Untouched, Stray
    <3>3. /\ drive.root_directory_cluster = g.root_directory_cluster
          /\ drive.root_directory_start = g.root_directory_start
          /\ drive.root_directory_size = g.root_directory_size /\ drive.cluster_size = g.cluster_size
      BY <3>1 DEF Untouched, CardsInOrder, Drives
    <3>4. fat'.cluster \in StrayClusters(volume', g)
      BY <1>4, <3>3 DEF StrayClusters
    <3>5. \A i \in 0 .. fat'.left - 1 : fat'.sector + i \in StrayRoot(volume', g)
      <4>1. fat'.left = g.root_directory_size \/ (fat'.left = g.cluster_size /\ ~ volume.recognised)
        BY <1>4, <3>1, <3>3 DEF Stray
      <4> QED
        BY <1>1, <1>4, <3>3, <4>1 DEF StrayRoot
    <3> QED
      BY <3>2, <3>4, <3>5
  <2>2. RightType' <=> RightType
    BY <1>2, Zenon DEF RightType
  <2>3. NoManifest' /\ name = ManifestName /\ boot'.at = "manifest"
    BY <1>1 DEF NoManifest
  <2> QED
    BY <1>4, <2>1, <2>2, <2>3, Zenon DEF Astray, ManifestName
<1> QED
  BY <1>4, <1>6, <1>7, <1>8, <1>9 DEF FatInv, Before, After, Loading

\* So does every other step of main().
LEMMA MainKeeps ==
  ASSUME CardsInOrder, FatInv, rom = "SD", UNCHANGED rom,
         CallInit \/ NoCard \/ CallFindDrive \/ LoadManifest \/ ManifestLoaded
         \/ Comment \/ Again \/ LoadImage \/ ImageLoaded \/ Go \/ Halt
  PROVE  FatInv'
<1>1. /\ DOMAIN boot = {"at", "line", "ptr"} /\ DOMAIN sd = {"at", "i", "j"}
      /\ DOMAIN fat = {"at", "name", "to", "cluster", "sector", "left", "ok"}
      /\ volume \in Volumes /\ Stages /\ Basics /\ TypeKnown /\ Readable(volume)
  BY VolumeFacts DEF FatInv, Basics, Shapes, FatType
<1>2. CASE CallInit
  <2>1. SpiInit /\ boot' = [boot EXCEPT !.at = "card"] /\ UNCHANGED fatVars /\ boot.at = "start"
    BY <1>2 DEF CallInit
  <2>2. TypeKnown' /\ DOMAIN sd' = {"at", "i", "j"}
    BY <1>1, <2>1, TypeStays DEF SdNext
  <2>3. DOMAIN boot' = {"at", "line", "ptr"} /\ boot'.at = "card" /\ boot'.line = boot.line /\ boot'.ptr = boot.ptr
    BY <1>1, <2>1
  <2> QED
    BY <2>1, <2>2, <2>3, BringingUp
<1>3. CASE NoCard
  <2>1. boot' = [boot EXCEPT !.at = "ended"] /\ boot.at = "card" /\ FatStill
    BY <1>3 DEF NoCard, sdVars, fatVars, FatStill
  <2>2. DOMAIN boot' = {"at", "line", "ptr"} /\ boot'.at = "ended" /\ fat.at = "idle"
    BY <1>1, <2>1 DEF Stages
  <2>3. Stages'
    BY <1>1, <2>1, <2>2 DEF Stages, FatStill, Loading
  <2> QED
    BY <2>1, <2>2, <2>3, MainMoves DEF FatStill, Loading
<1>4. CASE CallFindDrive
  <2>1. /\ boot' = [boot EXCEPT !.at = "drive"] /\ fat' = [fat EXCEPT !.at = "find"] /\ boot.at = "card" /\ sd.at = "up"
        /\ UNCHANGED <<kind, SDHCtype, sd, volume, sector_buffer, buffered_fat_index, drive, memory, misled>>
    BY <1>4 DEF CallFindDrive, sdVars
  <2>2. DOMAIN boot' = {"at", "line", "ptr"} /\ boot'.at = "drive" /\ boot'.line = boot.line /\ boot'.ptr = boot.ptr
    BY <1>1, <2>1
  <2>3. DOMAIN fat' = DOMAIN fat /\ fat'.at = "find" /\ fat'.left = fat.left /\ fat'.ok = fat.ok /\ fat.at = "idle"
    BY <1>1, <2>1 DEF Stages
  <2>4. Stages'
    BY <1>1, <2>1, <2>2, <2>3 DEF Stages, Loading, Manifest
  <2>5. Basics'
    BY <1>1, <2>1, <2>2, <2>3, <2>4 DEF Basics, FatType, TypeKnown, Shapes, BufferNames, Numeric
  <2>6. Before' /\ After'
    BY <2>1, <2>3 DEF FatInv, Before, After, NoManifest, Untouched, Loading
  <2> QED
    BY <2>5, <2>6 DEF FatInv
<1>5. CASE LoadManifest
  <2>1. /\ LoadFile(ManifestName, ManifestAt) /\ boot' = [boot EXCEPT !.at = "manifest"] /\ boot.at = "drive"
        /\ fat.at \in {"found", "nothing"}
    BY <1>5 DEF LoadManifest
  <2>2. DOMAIN boot' = {"at", "line", "ptr"} /\ boot'.at = "manifest" /\ boot'.line = boot.line /\ boot'.ptr = boot.ptr
    BY <1>1, <2>1
  <2>3. sd.at = "up" /\ sd' = sd /\ volume' = volume /\ fat'.at = "dir" /\ fat'.to = 900 /\ ManifestAt \in Nat
    BY <1>1, <2>1 DEF Stages, LoadFile, sdVars, OpenFrom, ManifestAt
  <2>7. 1 \in DOMAIN Manifest
    BY <1>1 DEF Readable, Manifest
  <2>4. Stages'
    BY <1>1, <2>1, <2>2, <2>3, <2>7 DEF Stages, Loading, Manifest
  <2>5. NoManifest
    BY <2>1 DEF FatInv, Before, Loading
  <2>6. ~ Found /\ RightType => \E g \in Geometries : Untouched(g) /\ Stray
    BY <2>1 DEF FatInv, Before, Loading
  <2> QED
    BY <2>1, <2>2, <2>3, <2>4, <2>5, <2>6, OpenKeeps
<1>6. CASE ManifestLoaded
  <2>1. /\ boot.at = "manifest" /\ fat.at = "returned" /\ FatStill
        /\ \E a \in {"ended", "parse", "lost"} : boot' = [boot EXCEPT !.at = a] /\ (~ fat.ok => a = "ended")
    <3>1. boot.at = "manifest" /\ fat.at = "returned" /\ FatStill
      BY <1>6 DEF ManifestLoaded, FatStill, sdVars, fatVars
    <3> DEFINE a == IF ~ fat.ok THEN "ended" ELSE IF ExactlyLoaded(ManifestName, ManifestAt) THEN "parse" ELSE "lost"
    <3>2. boot' = [boot EXCEPT !.at = a]
      BY <1>6 DEF ManifestLoaded
    <3>3. a \in {"ended", "parse", "lost"} /\ (~ fat.ok => a = "ended")
      OBVIOUS
    <3> QED
      BY <3>1, <3>2, <3>3, Zenon
  <2>2. /\ DOMAIN boot' = {"at", "line", "ptr"} /\ boot'.at \in {"ended", "parse", "lost"} /\ (~ fat.ok => boot'.at = "ended")
        /\ boot'.line = boot.line /\ boot'.ptr = boot.ptr
    BY <1>1, <2>1
  <2>3. Stages'
    BY <1>1, <2>1, <2>2 DEF Stages, FatStill, Loading, Manifest
  <2>4. ~ Found => ~ fat.ok
    BY <2>1 DEF FatInv, After, Astray, Loading
  <2> QED
    BY <2>1, <2>2, <2>3, <2>4, MainMoves DEF FatStill
<1>7. ASSUME boot.at \in {"parse", "image"}
      PROVE  /\ Found /\ sd.at = "up" /\ boot.line \in DOMAIN Manifest /\ boot.line \in Nat
             /\ boot.at = "parse" => fat.at = "returned" /\ boot.ptr \in {0, 43}
             /\ fat.at \in Loading /\ fat.to \in Nat
             /\ Line.is \in {"#", "load"} => boot.line + 1 \in DOMAIN Manifest
  <2>1. boot.line \in DOMAIN Manifest /\ fat.at \in Loading /\ sd.at = "up" /\ fat.to \in Nat
    BY <1>1, <1>7 DEF Stages, Loading
  <2>2. Found
    BY <1>7, <2>1 DEF FatInv, After, Astray
  <2>3. boot.line \in Nat /\ (Line.is \in {"#", "load"} => boot.line + 1 \in DOMAIN Manifest)
    BY <1>1, <2>1 DEF Readable, Manifest, Line
  <2> QED
    BY <1>1, <1>7, <2>1, <2>2, <2>3 DEF Stages
<1>8. CASE Comment
  <2>1. boot.at = "parse" /\ Line.is = "#" /\ boot' = [boot EXCEPT !.line = @ + 1, !.ptr = 0] /\ FatStill
    BY <1>8 DEF Comment, FatStill, sdVars, fatVars
  <2>2. DOMAIN boot' = {"at", "line", "ptr"} /\ boot'.at = "parse" /\ boot'.line = boot.line + 1 /\ boot'.ptr = 0
    BY <1>1, <2>1
  <2>3. Stages'
    BY <1>1, <1>7, <2>1, <2>2 DEF Stages, FatStill, Loading, Manifest
  <2> QED
    BY <1>7, <2>1, <2>2, <2>3, MainMoves DEF FatStill
<1>9. CASE Again
  <2>1. boot.at = "parse" /\ boot' = [boot EXCEPT !.line = 1, !.ptr = 43] /\ FatStill
    BY <1>9 DEF Again, FatStill, sdVars, fatVars
  <2>2. DOMAIN boot' = {"at", "line", "ptr"} /\ boot'.at = "parse" /\ boot'.line = 1 /\ boot'.ptr = 43
    BY <1>1, <2>1
  <2>3. 1 \in DOMAIN Manifest
    BY <1>1 DEF Readable, Manifest
  <2>4. Stages'
    BY <1>1, <1>7, <2>1, <2>2, <2>3 DEF Stages, FatStill, Loading, Manifest
  <2> QED
    BY <1>7, <2>1, <2>2, <2>4, MainMoves DEF FatStill
<1>10. CASE LoadImage
  <2> DEFINE ptr == ParseAddress(Line.digits, boot.ptr)
  <2>1. boot.at = "parse" /\ Line.is = "load" /\ LoadFile(Line.name, ptr) /\ boot' = [boot EXCEPT !.at = "image", !.ptr = ptr]
    BY <1>10 DEF LoadImage
  <2>2. ptr \in Nat
    <3>1. Line.digits \in Seq(0 .. 15) /\ boot.ptr \in {0, 43}
      BY <1>1, <1>7, <2>1, Zenon DEF Readable, Manifest, Line
    <3>2. boot.ptr \in Nat
      BY <3>1
    <3> QED
      BY <3>1, <3>2, AddressIsNumber
  <2> HIDE DEF ptr
  <2>3. DOMAIN boot' = {"at", "line", "ptr"} /\ boot'.at = "image" /\ boot'.line = boot.line /\ boot'.ptr = ptr
    BY <1>1, <2>1
  <2>4. sd' = sd /\ volume' = volume /\ fat'.at = "dir" /\ fat'.to = ptr
    BY <2>1 DEF LoadFile, sdVars, OpenFrom
  <2>5. Stages'
    BY <1>1, <1>7, <2>1, <2>2, <2>3, <2>4 DEF Stages, Loading, Manifest, Line
  <2> QED
    BY <1>7, <2>1, <2>2, <2>3, <2>5, OpenKeeps
<1>11. CASE ImageLoaded
  <2>1. boot.at = "image" /\ fat.at = "returned" /\ boot' = [at |-> "parse", line |-> boot.line + 1, ptr |-> 0] /\ FatStill
    BY <1>11 DEF ImageLoaded, FatStill, sdVars, fatVars
  <2>2. DOMAIN boot' = {"at", "line", "ptr"} /\ boot'.at = "parse" /\ boot'.line = boot.line + 1 /\ boot'.ptr = 0
    BY <2>1
  <2>3. Line.is = "load"
    BY <1>1, <2>1 DEF Stages
  <2>4. Stages'
    BY <1>1, <1>7, <2>1, <2>2, <2>3 DEF Stages, FatStill, Loading, Manifest
  <2> QED
    BY <1>7, <2>1, <2>2, <2>4, MainMoves DEF FatStill
<1>12. CASE Go \/ Halt
  <2>1. boot.at = "parse" /\ FatStill /\ \E a \in {"started", "halted"} : boot' = [boot EXCEPT !.at = a]
    BY <1>12, Zenon DEF Go, Halt, FatStill, sdVars, fatVars
  <2>2. DOMAIN boot' = {"at", "line", "ptr"} /\ boot'.at \in {"started", "halted"} /\ boot'.line = boot.line /\ boot'.ptr = boot.ptr
    BY <1>1, <2>1
  <2>3. Stages'
    BY <1>1, <1>7, <2>1, <2>2 DEF Stages, FatStill, Loading, Manifest
  <2> QED
    BY <1>7, <2>1, <2>2, <2>3, MainMoves DEF FatStill
<1> QED
  BY <1>2, <1>3, <1>4, <1>5, <1>6, <1>8, <1>9, <1>10, <1>11, <1>12, Zenon

\* Every step of the boot programs keeps it.
LEMMA FatInvStep ==
  ASSUME CardsInOrder, FatInv, [Next]_vars
  PROVE  FatInv'
<1>1. CASE UNCHANGED vars
  BY <1>1, StandsStill DEF vars, sdVars, fatVars, bootVars, FatStill
<1>2. CASE SerialBoot /\ UNCHANGED rom
  BY <1>2, StandsStill DEF SerialBoot, fatVars, bootVars, FatStill
<1>3. CASE SdBoot /\ UNCHANGED rom
  <2>1. rom = "SD" /\ rom' = rom
    BY <1>3 DEF SdBoot
  <2>2. ASSUME boot.at = "card" /\ SdNext /\ UNCHANGED <<fatVars, bootVars>>
        PROVE  FatInv'
    <3>1. TypeKnown /\ DOMAIN sd = {"at", "i", "j"} /\ DOMAIN boot = {"at", "line", "ptr"}
      BY DEF FatInv, Basics, Shapes
    <3>2. TypeKnown' /\ DOMAIN sd' = {"at", "i", "j"}
      BY <2>2, <3>1, TypeStays
    <3>3. boot' = boot /\ UNCHANGED fatVars
      BY <2>2 DEF bootVars
    <3> QED
      BY <2>1, <2>2, <3>1, <3>2, <3>3, BringingUp
  <2>3. ASSUME boot.at \in {"drive", "manifest", "image"} /\ FatNext /\ UNCHANGED bootVars
        PROVE  FatInv'
    <3>1. Quiet
      BY <2>1, <2>3, CardStays DEF bootVars, Quiet
    <3>2. Stages
      BY DEF FatInv, Basics
    <3>3. CASE ReadMbr
      <4>1. boot.at = "drive"
        BY <2>3, <3>2, <3>3 DEF ReadMbr, Stages, Loading
      <4> QED
        BY <3>1, <3>3, <4>1, ReadMbrKeeps
    <3>4. CASE ReadBoot
      <4>1. boot.at = "drive"
        BY <2>3, <3>2, <3>4 DEF ReadBoot, Stages, Loading
      <4> QED
        BY <3>1, <3>4, <4>1, ReadBootKeeps
    <3>5. ASSUME fat.at \in {"dir", "data", "link"}
          PROVE  boot.at \in {"manifest", "image"}
      BY <2>3, <3>2, <3>5 DEF Stages
    <3>6. CASE DirSector
      BY <3>1, <3>5, <3>6, DirSectorKeeps DEF DirSector
    <3>7. CASE DirEnd
      BY <3>1, <3>5, <3>7, DirEndKeeps DEF DirEnd
    <3>8. CASE DirLink
      BY <3>1, <3>5, <3>8, DirLinkKeeps DEF DirLink
    <3>9. CASE DataSector
      BY <3>1, <3>5, <3>9, DataSectorKeeps DEF DataSector
    <3>10. CASE DataLink
      BY <3>1, <3>5, <3>10, DataLinkKeeps DEF DataLink
    <3> QED
      BY <2>3, <3>3, <3>4, <3>6, <3>7, <3>8, <3>9, <3>10, Zenon DEF FatNext
  <2> QED
    BY <1>3, <2>1, <2>2, <2>3, MainKeeps, Zenon DEF SdBoot
<1> QED
  BY <1>1, <1>2, <1>3 DEF Next

\* LoadedExactly, of every card and volume in order: a file that LoadFile reports loaded is
\* that file, whatever reads fail, unless a link was misread (minfat.c, LoadFile).
THEOREM LoadedAlwaysExactly ==
  ASSUME CardsInOrder
  PROVE  Spec => []LoadedExactly
<1>1. FatInv => LoadedExactly
  <2> SUFFICES ASSUME FatInv PROVE LoadedExactly
    OBVIOUS
  <2>1. FatType
    BY DEF FatInv, Basics
  <2>2. ASSUME fat.at = "returned", fat.ok, ~ misled
        PROVE  ExactlyLoaded(fat.name, fat.to)
    <3>1. Found /\ Returned
      BY <2>2 DEF FatInv, After, InFile, Astray, Loading
    <3>2. LoadedSoFar(fat.name, fat.to, Total)
      BY <2>2, <3>1 DEF Returned
    <3> QED
      BY <3>2, Zenon DEF LoadedSoFar, Total, SectorsIn, ExactlyLoaded
  <2> QED
    BY <2>1, <2>2 DEF LoadedExactly
<1>2. Init => FatInv
  BY FatInvStarts
<1>3. FatInv /\ [Next]_vars => FatInv'
  BY FatInvStep
<1> QED
  BY <1>1, <1>2, <1>3, PTL DEF Spec

-----------------------------------------------------------------------------
\* With nothing lost.

\* A card with nothing lost so far is known for what it is, and ready.
LEMMA UpKnown ==
  ASSUME SdInv, sd.at = "up", faults = 0
  PROVE  RightType /\ card.state = "ready" /\ kind # "none"
BY DEF SdInv, SdType, SdStage, CardUp, RightType

\* Where nothing has been lost nothing had been.
LEMMA CleanWas ==
  ASSUME SdInv, Reading, volume' = volume, Clean'
  PROVE  Clean /\ faults = 0 /\ faults' = 0 /\ Reachable
<1>1. faults' = 0 /\ Reachable'
  BY DEF Clean
<1>2. faults = 0
  BY <1>1, SdNumbers DEF SdInv, SdType, Reading
<1>3. Reachable
  BY <1>1, Zenon DEF Reachable, Reading
<1> QED
  BY <1>1, <1>2, <1>3 DEF Clean

\* A sector of the card that is asked for comes, where nothing is lost.
LEMMA CleanRead ==
  ASSUME CardsInOrder, SdInv, sd.at = "up", NEW lba \in 0 .. CardSectors - 1, NEW got, sd_read_sector(lba, got),
         faults = 0, faults' = 0, Reachable
  PROVE  got = lba
<1> DEFINE arg == Address(lba, SDHCtype)
<1>1. RightType /\ card.state = "ready" /\ kind # "none"
  BY UpKnown
<1>2. got = IF kind # "none" /\ card.state = "ready" /\ InReach(arg) THEN SectorFor(arg) ELSE None
  BY SdNumbers DEF sd_read_sector
<1>3. SectorFor(arg) = lba
  <2>1. CASE kind = "SDHC"
    <3>1. SDHCtype
      BY <1>1, <2>1 DEF RightType
    <3> QED
      BY <2>1, <3>1 DEF SectorFor, Address
  <2>2. CASE kind # "SDHC"
    <3>1. SDHCtype = FALSE
      BY <1>1, <2>2 DEF RightType
    <3>2. lba \in Int /\ CardSectors <= ByteAddresses
      BY <2>2, SdNumbers DEF Reachable
    <3>3. lba % ByteAddresses = lba
      BY <3>2, SdNumbers
    <3>4. Address(lba, FALSE) \div SectorBytes = lba % ByteAddresses
      BY <3>2, ByteAddress
    <3> QED
      BY <2>2, <3>1, <3>3, <3>4, Zenon DEF SectorFor
  <2> QED
    BY <2>1, <2>2
<1>4. InReach(arg)
  BY <1>3 DEF InReach
<1> QED
  BY <1>1, <1>2, <1>3, <1>4, Zenon

\* The same for a link.
LEMMA CleanLink ==
  ASSUME CardsInOrder, TypeKnown, SdInv, sd.at = "up", volume \in Volumes, Found, Buffered, NEW c \in Nat,
         c \div LinksPerSector[volume.fat32] < volume.fatSize, NEW link, GetCluster(c, link),
         faults = 0, faults' = 0, Reachable
  PROVE  link = LinkOf(volume, c)
<1> DEFINE sb == LinkSector(c)
           lba == drive.fat_start + sb
<1>1. drive = Own(volume) /\ drive.fat32 = volume.fat32 /\ volume.fat32 \in BOOLEAN /\ volume.fatSize \in Nat
      /\ drive.fat_start \in Nat
  BY Layout, VolumeFacts DEF Found
<1>2. sb \in Nat /\ sb < volume.fatSize
  BY <1>1, LinkPlace, Zenon DEF LinkSector
<1>3. SectorOf(volume, lba) = Sector("fat", "", sb) /\ lba \in 0 .. CardSectors - 1
  BY <1>1, <1>2, FatSector
<1>4. CASE sb = buffered_fat_index /\ link \in LinksIn(sector_buffer, c)
  <2>1. sb # -1
    BY <1>2
  <2>2. sector_buffer = Sector("fat", "", sb)
    BY <1>4, <2>1, Zenon DEF Buffered
  <2> QED
    BY <1>4, <2>2, LinkRead
<1>5. ASSUME NEW got, sd_read_sector(lba, got), got = None
      PROVE  FALSE
  <2>1. got = lba
    <3> HIDE DEF lba
    <3> QED
      BY <1>3, <1>5, CleanRead
  <2>2. lba # -1
    <3>1. lba \in 0 .. CardSectors - 1
      BY <1>3
    <3> HIDE DEF lba
    <3> QED
      BY <3>1, SdNumbers
  <2> QED
    BY <1>5, <2>1, <2>2 DEF None
<1>6. ASSUME NEW got, sd_read_sector(lba, got), link \in LinksIn(SectorAt(got), c)
      PROVE  link = LinkOf(volume, c)
  <2>1. got = lba
    <3> HIDE DEF lba
    <3> QED
      BY <1>3, <1>6, CleanRead
  <2>2. SectorAt(got) = Sector("fat", "", sb)
    BY <1>3, <2>1, Zenon DEF SectorAt
  <2> QED
    BY <1>6, <2>2, LinkRead
<1> QED
  BY <1>4, <1>5, <1>6, Zenon DEF GetCluster

\* Where the directory's sectors lie.
LEMMA DirectorySector ==
  ASSUME CardsInOrder, FilesListed, NEW v \in Volumes, NEW n \in 0 .. Own(v).root_directory_size - 1
  PROVE  /\ SectorOf(v, Own(v).root_directory_start + n) = Sector("dir", "", n)
         /\ Own(v).root_directory_start + n \in 0 .. CardSectors - 1
<1> DEFINE lba == Own(v).root_directory_start + n
<1>1. v.fat32 \in BOOLEAN /\ v.rootSectors \in Nat /\ v.start \in Nat /\ v.clusterSize \in {1, 2, 4, 8} /\ Listed(v)
  BY VolumeFacts DEF FilesListed
<1>2. CASE v.fat32
  <2> DEFINE d == Own(v).data_start
             c == v.rootCluster
             k == v.clusterSize
  <2>1. Own(v).root_directory_size = k
    BY <1>2 DEF Own, Geometry
  <2>2. c \in DOMAIN v.link /\ v.holds[c] = Sector("dir", "", 0)
    BY <1>1, <1>2, VolumeFacts DEF Named, Listed
  <2>3. SectorOf(v, d + k * (c - 2) + n) = [v.holds[c] EXCEPT !.n = @ + n] /\ d + k * (c - 2) + n \in 0 .. CardSectors - 1
    BY <2>1, <2>2, ClusterSector
  <2>4. Own(v).root_directory_start = (c - 2) * k + d /\ c \in Nat /\ d \in Nat
    <3>1. Own(v).root_directory_start = (c - 2) * k + d
      BY <1>2 DEF Own, Geometry
    <3> QED
      BY <3>1, Layout
  <2>5. n \in Int
    BY <1>1, <2>1
  <2> HIDE DEF d, c, k
  <2>6. k \in {1, 2, 4, 8}
    BY <1>1 DEF k
  <2>7. lba = d + k * (c - 2) + n
    BY <2>4, <2>5, <2>6
  <2>8. [v.holds[c] EXCEPT !.n = @ + n] = Sector("dir", "", n)
    <3> DEFINE is == "dir"
               of == ""
               z == 0
    <3>1. v.holds[c] = Sector(is, of, z)
      BY <2>2, Zenon
    <3>4. z + n = n
      BY <2>5
    <3>2. Sector(is, of, n) = Sector("dir", "", n)
      OBVIOUS
    <3> HIDE DEF is, of, z
    <3>3. [Sector(is, of, z) EXCEPT !.n = @ + n] = Sector(is, of, z + n)
      BY DEF Sector
    <3> QED
      BY <3>1, <3>2, <3>3, <3>4, Zenon
  <2> QED
    BY <2>3, <2>7, <2>8, Zenon
<1>3. CASE ~ v.fat32
  <2> DEFINE a == Own(v).root_directory_start
             d == Own(v).data_start
             f == Own(v).fat_start
  <2>1. Own(v).root_directory_size = v.rootSectors
    BY <1>3 DEF Own, Geometry
  <2>2. /\ a \in Nat /\ d \in Nat /\ d <= CardSectors /\ d = a + v.rootSectors /\ a >= v.start + v.reserved + 2 * v.fatSize
        /\ v.reserved \in Nat /\ v.reserved > 0 /\ v.fatSize \in Nat /\ v.start \in Nat
        /\ f = v.start + v.reserved
    BY <1>3, Layout
  <2>3. n \in 0 .. v.rootSectors - 1
    BY <2>1
  <2> HIDE DEF a, d, f
  <2>4. /\ a + n # 0 /\ a + n # v.start /\ a + n \notin f .. f + 2 * v.fatSize - 1
        /\ a + n \in a .. d - 1 /\ (a + n) - a = n /\ a + n \in 0 .. CardSectors - 1
    BY <1>1, <2>2, <2>3, SdNumbers
  <2>5. /\ lba # 0 /\ lba # v.start
        /\ lba \notin Geometry(v, v.start).fat_start .. Geometry(v, v.start).fat_start + 2 * v.fatSize - 1
        /\ lba \in Geometry(v, v.start).root_directory_start .. Geometry(v, v.start).data_start - 1
        /\ lba - Geometry(v, v.start).root_directory_start = n
    BY <2>4, Zenon DEF a, d, f, Own
  <2> HIDE DEF lba
  <2>6. SectorOf(v, lba) = Sector("dir", "", lba - Geometry(v, v.start).root_directory_start)
    BY <1>3, <2>5, Zenon DEF SectorOf
  <2>7. SectorOf(v, lba) = Sector("dir", "", n)
    BY <2>5, <2>6, Zenon
  <2> QED
    BY <2>4, <2>7, Zenon DEF lba, a
<1> QED
  BY <1>2, <1>3

\* Where the volume begins.
LEMMA BootSector ==
  ASSUME CardsInOrder, NEW v \in Volumes
  PROVE  SectorOf(v, v.start).is = "boot" /\ v.start \in 0 .. CardSectors - 1 /\ 0 \in 0 .. CardSectors - 1
<1>1. v.mbr \in BOOLEAN /\ v.start \in Nat /\ (v.mbr <=> v.start > 0)
  BY VolumeFacts DEF Placed
<1>2. ~ (v.start = 0 /\ v.mbr)
  BY <1>1
<1>3. SectorOf(v, v.start) = Sector("boot", "", 0)
  BY <1>2, Zenon DEF SectorOf
<1>4. Sector("boot", "", 0).is = "boot"
  BY DEF Sector
<1>5. SectorOf(v, v.start).is = "boot"
  BY <1>3, <1>4, Zenon
<1>6. v.start \in 0 .. CardSectors - 1 /\ 0 \in 0 .. CardSectors - 1
  <2>1. /\ v.reserved \in Nat /\ v.reserved > 0 /\ v.fatSize \in Nat /\ v.start \in Nat
        /\ Own(v).data_start \in Nat /\ Own(v).data_start <= CardSectors
        /\ Own(v).data_start >= v.start + v.reserved + 2 * v.fatSize
    BY Layout
  <2> QED
    BY <2>1, SdNumbers
<1> QED
  BY <1>5, <1>6

\* Steps that leave what the reader knows alone.
LEMMA CleanStands ==
  ASSUME CleanInv, UNCHANGED <<kind, SDHCtype, volume, drive, fat, misled>>, faults' = 0 => faults = 0
  PROVE  CleanInv'
<1>1. Found' <=> Found
  BY Zenon DEF Found, RightType
<1>2. Clean' => Clean
  BY Zenon DEF Clean, Reachable
<1>3. Searching => Searching'
  BY Zenon DEF Searching, Ahead
<1> QED
  BY <1>1, <1>2, <1>3, Zenon DEF CleanInv

\* Before the volume is looked for.
LEMMA CleanIdles ==
  ASSUME CleanInv, fat.at = "idle", misled' = misled, DOMAIN fat = {"at", "name", "to", "cluster", "sector", "left", "ok"},
         fat' = fat \/ fat' = [fat EXCEPT !.at = "find"]
  PROVE  CleanInv'
<1>1. fat'.at \in {"idle", "find"}
  OBVIOUS
<1>2. ~ misled
  BY DEF CleanInv, Loading
<1> QED
  BY <1>1, <1>2 DEF CleanInv, Loading

\* A step of LoadFile, put together.
LEMMA CleanGoesOn ==
  ASSUME CleanInv, SdInv, Reading, Quiet, drive' = drive, fat.at \in Loading, fat'.at \in Loading,
         Clean /\ faults = 0 /\ faults' = 0 /\ Reachable => ~ misled',
         Clean /\ faults = 0 /\ faults' = 0 /\ Reachable /\ Found /\ fat'.at = "dir" => Searching',
         Clean /\ faults = 0 /\ faults' = 0 /\ Reachable /\ Found /\ fat'.at = "returned" =>
           (fat'.ok <=> fat'.name \in DOMAIN volume'.files)
  PROVE  CleanInv'
<1>1. Clean' => Clean /\ faults = 0 /\ faults' = 0 /\ Reachable
  BY CleanWas DEF Quiet
<1>2. (Found' <=> Found) /\ volume' = volume
  BY Zenon DEF Found, RightType, Quiet
<1>3. fat'.at # "nothing" /\ fat.at # "nothing"
  BY DEF Loading
<1> QED
  BY <1>1, <1>2, <1>3, Zenon DEF CleanInv

\* LoadFile is called.
LEMMA CleanOpens ==
  ASSUME CardsInOrder, CleanInv, Basics, NEW name, NEW to, LoadFile(name, to),
         fat.at \in {"found", "nothing"} \cup Loading
  PROVE  CleanInv'
<1>1. /\ fat' = OpenFrom(name, to) /\ misled' = FALSE
      /\ UNCHANGED <<volume, sector_buffer, drive, memory, sdVars>>
  BY DEF LoadFile
<1>2. UNCHANGED <<kind, SDHCtype, sd, faults>>
  BY <1>1 DEF sdVars
<1>3. drive \in Drives /\ volume \in Volumes
  BY DEF Basics, Numeric, FatType
<1>4. /\ fat'.at = "dir" /\ fat'.cluster = drive.root_directory_cluster
      /\ fat'.sector = drive.root_directory_start
      /\ fat'.left = IF drive.fat32 THEN drive.cluster_size ELSE drive.root_directory_size
  BY <1>1 DEF OpenFrom
<1>5. /\ drive.root_directory_start \in Int /\ drive.root_directory_size \in Nat
  BY <1>3 DEF Drives
<1>6. (Found' <=> Found) /\ (Clean' <=> Clean)
  BY <1>1, <1>2, Zenon DEF Found, RightType, Clean, Reachable
<1>7. Found => Searching'
  <2> SUFFICES ASSUME Found PROVE Searching'
    OBVIOUS
  <2>1. fat'.cluster = volume'.rootCluster
    BY <1>1, <1>3, <1>4, Layout DEF Found
  <2>2. fat'.sector = drive'.root_directory_start + drive'.root_directory_size - fat'.left
        /\ fat'.left <= drive'.root_directory_size
    <3>1. drive.fat32 => drive.root_directory_size = drive.cluster_size
      BY DEF Found, Own, Geometry
    <3> QED
      BY <1>1, <1>4, <1>5, <3>1
  <2>3. Ahead'
    <3> SUFFICES ASSUME NEW n \in 0 .. drive'.root_directory_size - 1
                 PROVE  n >= fat'.sector - drive'.root_directory_start
      BY DEF Ahead
    <3> QED
      BY <1>1, <1>4, <1>5
  <2> QED
    BY <2>1, <2>2, <2>3 DEF Searching
<1>8. Clean => (volume.recognised => Found)
  <2>1. fat.at = "nothing" \/ fat.at \in {"found"} \cup Loading
    OBVIOUS
  <2> QED
    BY <2>1, Zenon DEF CleanInv
<1>9. fat'.at \in Loading /\ fat'.at # "nothing" /\ fat'.at # "returned"
  BY <1>4 DEF Loading
<1> QED
  BY <1>1, <1>6, <1>7, <1>8, <1>9, Zenon DEF CleanInv

-----------------------------------------------------------------------------
\* FindDrive.
LEMMA CleanParse ==
  ASSUME CardsInOrder, CleanInv, SdInv, Reading, Quiet, misled' = misled, fat.at \notin Loading,
         DOMAIN fat = {"at", "name", "to", "cluster", "sector", "left", "ok"}, volume \in Volumes,
         \E a \in {"nothing", "partition", "found"} : fat' = [fat EXCEPT !.at = a],
         Clean /\ faults = 0 /\ faults' = 0 /\ Reachable /\ volume.recognised =>
           fat'.at # "nothing" /\ (fat'.at = "found" => drive' = Own(volume) /\ RightType)
  PROVE  CleanInv'
<1>1. fat'.at \in {"nothing", "partition", "found"}
  OBVIOUS
<1>2. ~ misled
  BY DEF CleanInv
<1>3. Clean' => Clean /\ faults = 0 /\ faults' = 0 /\ Reachable
  BY CleanWas DEF Quiet
<1>4. drive' = Own(volume) /\ RightType /\ volume.recognised /\ Clean => Found'
  BY Zenon DEF Found, RightType, Quiet, Clean, Reachable
<1>5. volume' = volume
  BY DEF Quiet
<1>6. fat'.at \notin Loading /\ fat'.at # "dir" /\ fat'.at # "returned"
  BY <1>1 DEF Loading
<1> QED
  BY <1>1, <1>2, <1>3, <1>4, <1>5, <1>6 DEF CleanInv

\* With nothing lost FindDrive's first sector finds the partition.
LEMMA CleanMbr ==
  ASSUME CardsInOrder, FatInv, CleanInv, SdInv, Reading, Quiet, sd.at = "up", ReadMbr
  PROVE  CleanInv'
<1>1. PICK got \in Outcomes(0) :
        /\ sd_read_sector(0, got)
        /\ IF got = None
           THEN /\ fat' = [fat EXCEPT !.at = "nothing"]
                /\ drive' = [drive EXCEPT !.fat32 = FALSE]
           ELSE IF SectorAt(got).is = "mbr"
           THEN /\ fat' = [fat EXCEPT !.at = "partition"]
                /\ drive' = [drive EXCEPT !.fat32 = FALSE]
           ELSE Parse(SectorAt(got), 0)
  BY DEF ReadMbr
<1>2. /\ fat.at = "find" /\ misled' = misled /\ volume \in Volumes
      /\ DOMAIN fat = {"at", "name", "to", "cluster", "sector", "left", "ok"}
  BY DEF ReadMbr, FatInv, Basics, Shapes, FatType
<1>3. \E a \in {"nothing", "partition", "found"} : fat' = [fat EXCEPT !.at = a]
  BY <1>1, Zenon DEF Parse
<1>4. ASSUME Clean, faults = 0, faults' = 0, Reachable, volume.recognised
      PROVE  fat'.at # "nothing" /\ (fat'.at = "found" => drive' = Own(volume) /\ RightType)
  <2>1. got = 0
    BY <1>1, <1>2, <1>4, BootSector, CleanRead
  <2>2. got # None
    BY <2>1 DEF None
  <2>3. RightType
    BY <1>4, UpKnown
  <2>4. CASE SectorAt(0).is = "mbr"
    <3>1. fat' = [fat EXCEPT !.at = "partition"]
      BY <1>1, <2>1, <2>2, <2>4
    <3> QED
      BY <1>2, <3>1
  <2>5. CASE SectorAt(0).is # "mbr"
    <3>1. SectorAt(0).is = "boot" /\ volume.start = 0
      BY <1>2, <2>5, FirstSector
    <3>2. Parse(SectorAt(0), 0)
      BY <1>1, <2>1, <2>2, <2>5
    <3>3. drive' = Geometry(volume, 0) /\ fat' = [fat EXCEPT !.at = "found"]
      BY <1>4, <3>1, <3>2 DEF Parse
    <3>4. drive' = Own(volume)
      BY <3>1, <3>3, Zenon DEF Own
    <3> QED
      BY <1>2, <2>3, <3>3, <3>4
  <2> QED
    BY <2>4, <2>5
<1>5. fat.at \notin Loading
  BY <1>2 DEF Loading
<1> QED
  BY <1>2, <1>3, <1>4, <1>5, CleanParse

\* With nothing lost the boot sector gives the volume's geometry.
LEMMA CleanBoot ==
  ASSUME CardsInOrder, FatInv, CleanInv, SdInv, Reading, Quiet, sd.at = "up", ReadBoot
  PROVE  CleanInv'
<1> DEFINE start == SwapBBBB(volume.start)
<1>1. PICK got \in Outcomes(start) :
        /\ sd_read_sector(start, got)
        /\ IF got = None THEN fat' = [fat EXCEPT !.at = "nothing"] /\ UNCHANGED drive
           ELSE Parse(SectorAt(got), start)
  BY DEF ReadBoot
<1>2. /\ fat.at = "partition" /\ misled' = misled /\ volume \in Volumes
      /\ DOMAIN fat = {"at", "name", "to", "cluster", "sector", "left", "ok"}
  BY DEF ReadBoot, FatInv, Basics, Shapes, FatType
<1>3. \E a \in {"nothing", "partition", "found"} : fat' = [fat EXCEPT !.at = a]
  BY <1>1, Zenon DEF Parse
<1>4. ASSUME Clean, faults = 0, faults' = 0, Reachable, volume.recognised
      PROVE  fat'.at # "nothing" /\ (fat'.at = "found" => drive' = Own(volume) /\ RightType)
  <2>1. start = volume.start
    BY <1>2, <1>4, VolumeFacts, FatNumbers DEF Reachable, SwapBBBB
  <2>2. got = volume.start
    BY <1>1, <1>2, <1>4, <2>1, BootSector, CleanRead
  <2>3. got # None
    BY <1>2, <2>2, VolumeFacts DEF None
  <2>4. RightType
    BY <1>4, UpKnown
  <2>5. SectorAt(got).is = "boot"
    BY <1>2, <2>2, BootSector DEF SectorAt
  <2>6. Parse(SectorAt(got), volume.start)
    BY <1>1, <2>1, <2>3
  <2>7. drive' = Own(volume) /\ fat' = [fat EXCEPT !.at = "found"]
    BY <1>4, <2>5, <2>6 DEF Parse, Own
  <2> QED
    BY <1>2, <2>4, <2>7
<1>5. fat.at \notin Loading
  BY <1>2 DEF Loading
<1> QED
  BY <1>2, <1>3, <1>4, <1>5, CleanParse

\* Facts about LoadFile's steps.
LEMMA InLoad ==
  ASSUME FatInv, fat.at \in Loading
  PROVE  /\ DOMAIN fat = {"at", "name", "to", "cluster", "sector", "left", "ok"}
         /\ Basics /\ volume \in Volumes /\ TypeKnown /\ drive \in Drives /\ fat.left \in Nat /\ fat.ok \in BOOLEAN
         /\ misled \in BOOLEAN /\ Known(sector_buffer)
         /\ Found => InFile
         /\ ~ Found => Astray
BY BufferKnown DEF FatInv, Basics, Shapes, Numeric, FatType, After

\* Every entry has been looked at.
LEMMA NotListed ==
  ASSUME CardsInOrder, FilesListed, Found, Searching, volume \in Volumes, fat.left = 0
  PROVE  fat.name \notin DOMAIN volume.files
<1> SUFFICES ASSUME fat.name \in DOMAIN volume.files PROVE FALSE
  OBVIOUS
<1>1. drive = Own(volume) /\ drive.root_directory_start \in Int /\ drive.root_directory_size \in Nat
  BY Layout DEF Found
<1>2. PICK n \in 0 .. drive.root_directory_size - 1 : fat.name \in volume.dir[n]
  BY <1>1 DEF FilesListed, Listed
<1>3. n >= fat.sector - drive.root_directory_start
  BY <1>2 DEF Searching, Ahead
<1>4. fat.sector = drive.root_directory_start + drive.root_directory_size - fat.left
  BY DEF Searching
<1> QED
  BY <1>1, <1>2, <1>3, <1>4

\* With nothing lost the directory ends where no file of that name is.
LEMMA CleanDirEnd ==
  ASSUME CardsInOrder, FilesListed, FatInv, CleanInv, SdInv, Reading, Quiet, DirEnd
  PROVE  CleanInv'
<1>1. /\ fat.at = "dir" /\ fat.left = 0 /\ fat' = [fat EXCEPT !.at = "returned"] /\ UNCHANGED <<drive, misled, volume>>
      /\ fat.at \in Loading
  BY DEF DirEnd, NotFound, Loading
<1>2. /\ DOMAIN fat = {"at", "name", "to", "cluster", "sector", "left", "ok"} /\ volume \in Volumes
      /\ Found => InFile
  BY <1>1, InLoad
<1>3. fat'.at = "returned" /\ fat'.ok = fat.ok /\ fat'.name = fat.name /\ fat'.at \in Loading
  BY <1>1, <1>2 DEF Loading
<1>4. Clean /\ Found => fat.name \notin DOMAIN volume.files
  <2>1. Clean /\ Found => Searching
    BY <1>1 DEF CleanInv
  <2> QED
    BY <1>1, <1>2, <2>1, NotListed
<1>5. Found => ~ fat.ok
  BY <1>1, <1>2 DEF InFile, AtDir
<1>6. Clean => ~ misled
  BY DEF CleanInv
<1> QED
  BY <1>1, <1>3, <1>4, <1>5, <1>6, CleanGoesOn

\* With nothing lost a directory's link leads to its end.
LEMMA CleanDirLink ==
  ASSUME CardsInOrder, FilesListed, FatInv, CleanInv, SdInv, Reading, Quiet, sd.at = "up", DirLink
  PROVE  CleanInv'
<1>1. PICK link \in Links :
        /\ GetCluster(fat.cluster, link)
        /\ IF link = EndOfChain THEN NotFound
           ELSE fat' = [fat EXCEPT !.cluster = link, !.sector = ClusterStart(link), !.left = drive.cluster_size]
  BY DEF DirLink
<1>2. /\ fat.at = "dir" /\ fat.left = 0 /\ drive.fat32 /\ UNCHANGED <<drive, misled, volume>> /\ fat.at \in Loading
  BY DEF DirLink, Loading
<1>3. /\ DOMAIN fat = {"at", "name", "to", "cluster", "sector", "left", "ok"} /\ volume \in Volumes
      /\ TypeKnown
      /\ Found => InFile
  BY <1>2, InLoad
<1>4. fat'.at \in {"dir", "returned"} /\ fat'.at \in Loading /\ fat'.ok = fat.ok /\ fat'.name = fat.name
      /\ (link = EndOfChain => fat'.at = "returned")
  <2> DEFINE s == ClusterStart(link)
             n == drive.cluster_size
  <2>1. \/ link = EndOfChain /\ fat' = [fat EXCEPT !.at = "returned"]
        \/ link # EndOfChain /\ fat' = [fat EXCEPT !.cluster = link, !.sector = s, !.left = n]
    BY <1>1, Zenon DEF NotFound
  <2> HIDE DEF s, n
  <2> QED
    BY <1>2, <1>3, <2>1 DEF Loading
<1>5. ASSUME Clean, faults = 0, faults' = 0, Reachable, Found
      PROVE  fat'.at = "returned" /\ ~ fat.ok /\ fat.name \notin DOMAIN volume.files
  <2>1. Searching /\ AtDir /\ Buffered
    <3>1. Searching
      BY <1>2, <1>5, Zenon DEF CleanInv
    <3>2. AtDir
      BY <1>2, <1>3, <1>5, Zenon DEF InFile
    <3>3. buffered_fat_index = -1
      BY <3>2 DEF AtDir
    <3> QED
      BY <3>1, <3>2, <3>3, Zenon DEF Buffered
  <2>2. volume.fat32 /\ volume.fat32 \in BOOLEAN
    BY <1>2, <1>3, <1>5, Layout, VolumeFacts DEF Found
  <2>3. volume.rootCluster \in DOMAIN volume.link /\ volume.link[volume.rootCluster] = EndOfChain
    BY <1>3, <2>2, VolumeFacts DEF Named
  <2>4. volume.rootCluster \in Nat \ {0, 1} /\ volume.rootCluster \div LinksPerSector[volume.fat32] < volume.fatSize
    BY <1>3, <2>3, VolumeFacts DEF Placed
  <2>5. fat.cluster = volume.rootCluster
    BY <2>1 DEF Searching
  <2>6. link = LinkOf(volume, volume.rootCluster)
    <3>1. fat.cluster \in Nat /\ fat.cluster \div LinksPerSector[volume.fat32] < volume.fatSize
      BY <2>4, <2>5
    <3>2. link = LinkOf(volume, fat.cluster)
      BY <1>1, <1>3, <1>5, <2>1, <3>1, CleanLink, Zenon
    <3> QED
      BY <2>5, <3>2, Zenon
  <2>7. link = EndOfChain
    BY <2>3, <2>4, <2>6 DEF LinkOf
  <2>8. fat.name \notin DOMAIN volume.files
    BY <1>2, <1>3, <1>5, <2>1, NotListed
  <2> QED
    BY <1>4, <2>1, <2>7, <2>8 DEF AtDir
<1>6. Clean => ~ misled
  BY DEF CleanInv
<1> QED
  BY <1>2, <1>4, <1>5, <1>6, CleanGoesOn

\* With nothing lost a sector of the directory is searched whole.
LEMMA CleanDirSector ==
  ASSUME CardsInOrder, FilesListed, FatInv, CleanInv, SdInv, Reading, Quiet, sd.at = "up", DirSector, FatInv'
  PROVE  CleanInv'
<1> DEFINE f == volume.files[fat.name]
           count == (SwapBBBB(f.size) + SectorBytes - 1) \div SectorBytes
           a == IF count = 0 THEN "returned" ELSE "data"
           here == fat.name \in Names(sector_buffer')
<1>1. PICK got \in Outcomes(fat.sector) : sd_read_sector(fat.sector, got) /\ sector_buffer' = Got(got)
  BY Zenon DEF DirSector
<1>2. /\ fat.at = "dir" /\ fat.left > 0 /\ UNCHANGED <<drive, misled, volume>> /\ fat.at \in Loading
  BY DEF DirSector, Loading
<1>3. /\ DOMAIN fat = {"at", "name", "to", "cluster", "sector", "left", "ok"} /\ volume \in Volumes
      /\ fat.left \in Nat /\ drive \in Drives
  BY <1>2, InLoad
<1>4. Clean => ~ misled
  BY DEF CleanInv
<1>5. CASE here
  <2> DEFINE o == count = 0
             c == f.cluster
  <2>1. fat' = [fat EXCEPT !.at = a, !.ok = count = 0, !.cluster = f.cluster, !.sector = 0, !.left = count]
    BY <1>5, Zenon DEF DirSector
  <2>2. a \in {"returned", "data"} /\ (a = "returned" <=> count = 0) /\ (o <=> count = 0)
    OBVIOUS
  <2> HIDE DEF a, count, o, c, f, here
  <2>3. fat' = [fat EXCEPT !.at = a, !.ok = o, !.cluster = c, !.sector = 0, !.left = count]
    BY <2>1, Zenon DEF o, c
  <2>4. fat'.at = a /\ fat'.name = fat.name /\ fat'.at \in Loading /\ fat'.at # "dir"
    BY <1>3, <2>2, <2>3 DEF Loading
  <2>5. fat'.ok = o
    BY <1>3, <2>3, Zenon
  <2>6. ASSUME Clean, faults = 0, faults' = 0, Reachable, Found, fat'.at = "returned"
        PROVE  fat'.ok <=> fat'.name \in DOMAIN volume'.files
    <3>1. fat'.ok
      BY <2>2, <2>4, <2>5, <2>6, Zenon
    <3>2. ~ misled' /\ Found'
      BY <1>2, <1>4, <2>6, Zenon DEF Found, RightType, Quiet
    <3>3. Returned'
      <4>1. InFile'
        BY <2>4, <3>2, Zenon DEF FatInv, After
      <4> QED
        BY <2>6, <4>1 DEF InFile
    <3>4. fat'.name \in DOMAIN volume'.files
      BY <3>1, <3>2, <3>3, Zenon DEF Returned
    <3> QED
      BY <3>1, <3>4, Zenon
  <2> QED
    BY <1>2, <1>4, <2>4, <2>6, CleanGoesOn
<1>6. CASE ~ here
  <2>1. fat' = [fat EXCEPT !.sector = @ + 1, !.left = @ - 1]
    BY <1>6, Zenon DEF DirSector
  <2>2. /\ fat'.left = fat.left - 1 /\ fat'.name = fat.name
        /\ fat'.cluster = fat.cluster /\ fat'.sector = fat.sector + 1 /\ fat'.at = "dir" /\ fat'.at \in Loading
    BY <1>2, <1>3, <2>1 DEF Loading
  <2>3. ASSUME Clean, faults = 0, faults' = 0, Reachable, Found
        PROVE  Searching'
    <3> DEFINE d == drive.root_directory_start
               z == drive.root_directory_size
               m == z - fat.left
    <3>1. Searching
      BY <1>2, <2>3 DEF CleanInv
    <3>2. d \in Int /\ z \in Nat
      BY <1>3 DEF Drives
    <3>3. /\ fat.cluster = volume.rootCluster /\ fat.sector = d + z - fat.left /\ fat.left <= z
      BY <3>1 DEF Searching
    <3>4. \A n \in 0 .. z - 1 : fat.name \in volume.dir[n] => n >= fat.sector - d
      BY <3>1 DEF Searching, Ahead
    <3>5. m \in 0 .. z - 1 /\ fat.sector = d + m /\ fat.sector - d = m /\ m \in Int
      <4> HIDE DEF d, z
      <4> QED
        BY <1>2, <1>3, <3>2, <3>3
    <3>6. fat.name \notin volume.dir[m]
      <4>1. drive = Own(volume)
        BY <2>3 DEF Found
      <4>2. SectorOf(volume, d + m) = Sector("dir", "", m) /\ d + m \in 0 .. CardSectors - 1
        BY <1>3, <3>5, <4>1, DirectorySector
      <4>3. got = d + m
        BY <1>1, <2>3, <3>5, <4>2, CleanRead
      <4>4. d + m # None
        <5>1. \A x \in 0 .. CardSectors - 1 : x # -1
          BY SdNumbers
        <5> QED
          BY <4>2, <5>1, Zenon DEF None
      <4>5. sector_buffer' = Sector("dir", "", m)
        BY <1>1, <4>2, <4>3, <4>4, Zenon DEF Got, SectorAt
      <4>6. Sector("dir", "", m).is = "dir" /\ Sector("dir", "", m).n = m
        BY DEF Sector
      <4>7. Names(sector_buffer') = volume.dir[m]
        BY <4>5, <4>6, Zenon DEF Names
      <4> QED
        BY <1>6, <4>7, Zenon
    <3> HIDE DEF d, z, m
    <3>7. /\ fat'.sector = d + z - fat'.left /\ fat'.left <= z
          /\ \A n \in 0 .. z - 1 : fat.name \in volume.dir[n] => n >= fat'.sector - d
      <4>1. \A n \in 0 .. z - 1 : fat.name \in volume.dir[n] => n # m
        BY <3>6, Zenon
      <4>2. fat'.sector - d = m + 1
        BY <2>2, <3>2, <3>5
      <4>3. \A n \in 0 .. z - 1 : fat.name \in volume.dir[n] => n >= m
        BY <3>4, <3>5
      <4>4. \A n \in 0 .. z - 1 : n >= m /\ n # m => n >= m + 1
        BY <3>2, <3>5
      <4>5. \A n \in 0 .. z - 1 : fat.name \in volume.dir[n] => n >= m + 1
        BY <4>1, <4>3, <4>4, Zenon
      <4> QED
        BY <1>3, <2>2, <3>2, <3>3, <4>2, <4>5
    <3> QED
      BY <1>2, <2>2, <3>3, <3>7, Zenon DEF Searching, Ahead, d, z
  <2>4. fat'.at # "returned"
    BY <2>2
  <2> QED
    BY <1>2, <1>4, <2>2, <2>3, <2>4, CleanGoesOn
<1> QED
  BY <1>5, <1>6

\* With nothing lost a sector of the file is read.
LEMMA CleanDataSector ==
  ASSUME CardsInOrder, FatInv, CleanInv, SdInv, Reading, Quiet, sd.at = "up", DataSector, FatInv'
  PROVE  CleanInv'
<1> DEFINE lba == ClusterStart(fat.cluster) + (fat.sector % drive.cluster_size)
           a == IF ClusterEnds(fat.sector) THEN "link" ELSE IF fat.left = 1 THEN "returned" ELSE "data"
           o == fat.left = 1
           k == volume.clusterSize
           r == fat.sector % k
           c == fat.cluster
           due == Own(volume).data_start + k * (c - 2) + r
<1>1. PICK got \in Outcomes(lba) :
        /\ sd_read_sector(lba, got)
        /\ IF got = None THEN LoadFails
           ELSE fat' = [fat EXCEPT !.sector = @ + 1, !.left = @ - 1, !.at = a, !.ok = o]
  BY Zenon DEF DataSector
<1>2. /\ fat.at = "data" /\ UNCHANGED <<drive, misled, volume>> /\ fat.at \in Loading
  BY DEF DataSector, Loading
<1>3. /\ DOMAIN fat = {"at", "name", "to", "cluster", "sector", "left", "ok"} /\ volume \in Volumes
      /\ fat.left \in Nat
  BY <1>2, InLoad
<1>4. Found /\ AtData
  BY <1>2 DEF FatInv, After, InFile, Loading, Astray
<1>5. Clean => ~ misled
  BY DEF CleanInv
<1>6. ASSUME Clean, faults = 0, faults' = 0, Reachable
      PROVE  got # None
  <2>1. /\ fat.sector \in Nat /\ k \in {1, 2, 4, 8} /\ c \in DOMAIN volume.link
    BY <1>3, <1>4, <1>5, <1>6, VolumeFacts DEF AtData, Holding
  <2>2. r \in 0 .. k - 1
    BY <2>1, Positions
  <2>3. due \in 0 .. CardSectors - 1
    BY <1>3, <2>1, <2>2, ClusterSector
  <2>4. lba = due
    BY <1>3, <1>4, Layout, Zenon DEF Found, ClusterStart
  <2> HIDE DEF lba, due, k, r, c
  <2>5. got = due
    BY <1>1, <1>6, <2>3, <2>4, CleanRead
  <2> QED
    BY <2>3, <2>5, SdNumbers DEF None
<1>7. a \in {"link", "returned", "data"} /\ (a = "returned" => fat.left = 1)
  OBVIOUS
<1>8. CASE got = None
  <2>1. fat' = [fat EXCEPT !.at = "returned", !.ok = FALSE]
    BY <1>1, <1>8 DEF LoadFails
  <2>2. fat'.at \in Loading
    BY <1>3, <2>1 DEF Loading
  <2> QED
    BY <1>2, <1>6, <1>8, <2>2, CleanGoesOn
<1>9. CASE got # None
  <2>1. o \in BOOLEAN /\ (o <=> fat.left = 1)
    OBVIOUS
  <2> HIDE DEF a, o
  <2>2. fat' = [fat EXCEPT !.sector = @ + 1, !.left = @ - 1, !.at = a, !.ok = o]
    BY <1>1, <1>9, Zenon
  <2>3. fat'.at = a /\ fat'.name = fat.name /\ fat'.at \in Loading /\ fat'.at # "dir"
    BY <1>3, <1>7, <2>2 DEF Loading
  <2>4. fat'.ok = o
    BY <1>3, <2>2, Zenon
  <2>5. fat'.at = "returned" => (fat'.ok <=> fat'.name \in DOMAIN volume'.files)
    <3>1. fat'.at = "returned" => fat'.ok
      BY <1>7, <2>1, <2>3, <2>4, Zenon
    <3>2. fat'.name \in DOMAIN volume'.files
      BY <1>2, <1>4, <2>3 DEF AtData
    <3> QED
      BY <3>1, <3>2, Zenon
  <2> QED
    BY <1>2, <1>5, <2>3, <2>5, CleanGoesOn
<1> QED
  BY <1>8, <1>9

\* With nothing lost the file's next cluster is found.
LEMMA CleanDataLink ==
  ASSUME CardsInOrder, FatInv, CleanInv, SdInv, Reading, Quiet, sd.at = "up", DataLink, FatInv'
  PROVE  CleanInv'
<1> DEFINE k == volume.clusterSize
           a == IF fat.left = 0 THEN "returned" ELSE "data"
<1>1. PICK link \in Links :
        /\ GetCluster(fat.cluster, link)
        /\ fat' = [fat EXCEPT !.cluster = link, !.at = a]
        /\ misled' = (misled \/ (link = 0 /\ fat.left > 0))
  BY DEF DataLink
<1>2. /\ fat.at = "link" /\ UNCHANGED <<drive, volume>> /\ fat.at \in Loading
  BY DEF DataLink, Loading
<1>3. /\ DOMAIN fat = {"at", "name", "to", "cluster", "sector", "left", "ok"} /\ volume \in Volumes
      /\ fat.left \in Nat /\ TypeKnown /\ misled \in BOOLEAN /\ fat.ok \in BOOLEAN
  BY <1>2, InLoad
<1>4. Found /\ AtLink
  BY <1>2 DEF FatInv, After, InFile, Loading, Astray
<1>5. a \in {"returned", "data"} /\ (a = "returned" <=> fat.left = 0)
  OBVIOUS
<1> HIDE DEF a
<1>6. fat'.at = a /\ fat'.name = fat.name /\ fat'.ok = fat.ok /\ fat'.at \in Loading /\ fat'.at # "dir"
  BY <1>1, <1>3, <1>5 DEF Loading
<1>7. fat'.at = "returned" => (fat'.ok <=> fat'.name \in DOMAIN volume'.files)
  <2>1. fat.left = 0 => fat.ok
    BY <1>4 DEF AtLink
  <2>2. fat.name \in DOMAIN volume.files
    BY <1>4 DEF AtLink
  <2> QED
    BY <1>2, <1>5, <1>6, <2>1, <2>2, Zenon
<1>8. ASSUME Clean, faults = 0, faults' = 0, Reachable
      PROVE  ~ misled'
  <2>1. ~ misled
    BY <1>8 DEF CleanInv
  <2>2. CASE fat.left = 0
    <3>1. ~ (fat.left > 0)
      BY <2>2
    <3> QED
      BY <1>1, <2>1, <3>1, Zenon
  <2>3. CASE fat.left # 0
    <3>1. Buffered /\ Holding(fat.cluster, fat.name, fat.sector - k) /\ fat.cluster \in Nat
          /\ fat.name \in DOMAIN volume.files /\ fat.left = Total - fat.sector /\ fat.sector \in Nat
      BY <1>4, <2>1 DEF AtLink
    <3>2. fat.cluster \in DOMAIN volume.link /\ volume.holds[fat.cluster] = Piece(fat.name, fat.sector - k)
      BY <3>1 DEF Holding
    <3>3. fat.cluster \in Nat \ {0, 1} /\ fat.cluster \div LinksPerSector[volume.fat32] < volume.fatSize
      BY <1>3, <3>2, VolumeFacts DEF Placed
    <3>4. link = LinkOf(volume, fat.cluster)
      BY <1>1, <1>3, <1>4, <1>8, <3>1, <3>3, CleanLink
    <3>5. link = volume.link[fat.cluster]
      BY <3>2, <3>3, <3>4 DEF LinkOf
    <3>6. fat.sector < Total /\ k \in {1, 2, 4, 8}
      <4>1. Total \in Nat
        BY <1>3, <3>1, FileFacts DEF Total
      <4> QED
        BY <1>3, <2>3, <3>1, <4>1, VolumeFacts
    <3>7. Piece(fat.name, fat.sector - k).is = "data" /\ Piece(fat.name, fat.sector - k).of = fat.name
          /\ Piece(fat.name, fat.sector - k).n = fat.sector - k
      BY DEF Piece, Sector
    <3>8. (fat.sector - k) + k = fat.sector
      BY <3>1, <3>6
    <3>9. volume.link[fat.cluster] \in DOMAIN volume.link
      <4>1. /\ volume.holds[fat.cluster].is = "data" /\ volume.holds[fat.cluster].of = fat.name
            /\ volume.holds[fat.cluster].n = fat.sector - k
        BY <3>2, <3>7, Zenon
      <4>2. volume.holds[fat.cluster].n + volume.clusterSize < SectorsIn(volume.files[fat.name].size)
        BY <3>6, <3>8, <4>1, Zenon DEF Total
      <4>3. Chained(volume)
        BY <1>3, VolumeFacts
      <4> QED
        BY <3>1, <3>2, <4>1, <4>2, <4>3, Zenon DEF Chained
    <3>10. link # 0
      BY <1>3, <3>5, <3>9, VolumeFacts DEF Placed
    <3> QED
      BY <1>1, <2>1, <3>10, Zenon
  <2> QED
    BY <2>2, <2>3
<1>9. drive' = drive
  BY <1>2
<1> QED
  BY <1>2, <1>6, <1>7, <1>8, <1>9, CleanGoesOn

\* The invariant holds when the program starts.
LEMMA CleanInvStarts ==
  ASSUME Init
  PROVE  CleanInv
<1>1. fat.at = "idle" /\ misled = FALSE
  BY DEF Init, FatInit
<1> QED
  BY <1>1 DEF CleanInv, Loading

\* Every step keeps it.
LEMMA CleanInvStep ==
  ASSUME CardsInOrder, FilesListed, CardInv, FatInv, CleanInv, [Next]_vars, FatInv'
  PROVE  CleanInv'
<1>1. SdInv /\ MainStages /\ DOMAIN fat = {"at", "name", "to", "cluster", "sector", "left", "ok"} /\ Stages /\ Basics
  BY DEF CardInv, FatInv, Basics, Shapes
<1>2. CASE UNCHANGED vars
  BY <1>2, CleanStands DEF vars, sdVars, fatVars
<1>3. CASE SerialBoot /\ UNCHANGED rom
  <2>1. UNCHANGED fatVars /\ rom = "RS232"
    BY <1>3 DEF SerialBoot
  <2>2. fat.at = "idle"
    BY <1>1, <2>1 DEF MainStages, Stages
  <2> QED
    BY <1>1, <2>1, <2>2, CleanIdles DEF fatVars
<1>4. CASE SdBoot /\ UNCHANGED rom
  <2>1. ASSUME CallInit \/ CallFindDrive \/ (boot.at = "card" /\ SdNext /\ UNCHANGED <<fatVars, bootVars>>)
        PROVE  CleanInv'
    <3>1. boot.at \in {"start", "card"} /\ misled' = misled /\ (fat' = fat \/ fat' = [fat EXCEPT !.at = "find"])
      BY <2>1 DEF CallInit, CallFindDrive, fatVars
    <3>2. fat.at = "idle"
      BY <1>1, <3>1 DEF Stages
    <3> QED
      BY <1>1, <3>1, <3>2, CleanIdles
  <2>2. ASSUME NoCard \/ ManifestLoaded \/ Comment \/ Again \/ ImageLoaded \/ Go \/ Halt
        PROVE  CleanInv'
    <3>1. UNCHANGED <<sdVars, fatVars>>
      BY <2>2, Zenon DEF NoCard, ManifestLoaded, Comment, Again, ImageLoaded, Go, Halt
    <3> QED
      BY <3>1, CleanStands DEF sdVars, fatVars
  <2>3. CASE LoadManifest
    BY <1>1, <2>3, CleanOpens DEF LoadManifest
  <2>4. CASE LoadImage
    <3>1. boot.at = "parse" /\ LoadFile(Line.name, ParseAddress(Line.digits, boot.ptr))
      BY <2>4 DEF LoadImage
    <3>2. fat.at \in Loading
      BY <1>1, <3>1 DEF Stages, Loading
    <3> QED
      BY <1>1, <3>1, <3>2, CleanOpens
  <2>5. ASSUME boot.at \in {"drive", "manifest", "image"} /\ FatNext /\ UNCHANGED bootVars
        PROVE  CleanInv'
    <3>1. Quiet
      BY <1>4, <2>5, CardStays DEF bootVars, Quiet
    <3>2. Reading /\ sd.at = "up"
      BY <1>1, <2>5, SectorsRead DEF MainStages
    <3>3. CASE ReadMbr
      BY <1>1, <3>1, <3>2, <3>3, CleanMbr
    <3>4. CASE ReadBoot
      BY <1>1, <3>1, <3>2, <3>4, CleanBoot
    <3>5. CASE DirSector
      BY <1>1, <3>1, <3>2, <3>5, CleanDirSector
    <3>6. CASE DirEnd
      BY <1>1, <3>1, <3>2, <3>6, CleanDirEnd
    <3>7. CASE DirLink
      BY <1>1, <3>1, <3>2, <3>7, CleanDirLink
    <3>8. CASE DataSector
      BY <1>1, <3>1, <3>2, <3>8, CleanDataSector
    <3>9. CASE DataLink
      BY <1>1, <3>1, <3>2, <3>9, CleanDataLink
    <3> QED
      BY <2>5, <3>3, <3>4, <3>5, <3>6, <3>7, <3>8, <3>9, Zenon DEF FatNext
  <2> QED
    BY <1>4, <2>1, <2>2, <2>3, <2>4, <2>5, Zenon DEF SdBoot
<1> QED
  BY <1>2, <1>3, <1>4 DEF Next

BootInv == CardInv /\ FatInv /\ CleanInv

\* Card, reader and what is loaded with nothing lost, in every state.
LEMMA BootInvHolds ==
  ASSUME WarmsUpInTime, CardsInOrder, FilesListed
  PROVE  Spec => []BootInv
<1>1. Init => BootInv
  BY CardInvStarts, FatInvStarts, CleanInvStarts DEF BootInv
<1>2. BootInv /\ [Next]_vars => BootInv'
  <2> SUFFICES ASSUME BootInv, [Next]_vars PROVE BootInv'
    OBVIOUS
  <2>1. CardInv /\ FatInv /\ CleanInv
    BY DEF BootInv
  <2>2. CardInv' /\ FatInv'
    BY <2>1, CardInvStep, FatInvStep
  <2>3. CleanInv'
    BY <2>1, <2>2, CleanInvStep
  <2> QED
    BY <2>2, <2>3 DEF BootInv
<1> QED
  BY <1>1, <1>2, PTL DEF Spec

\* minfat.c: with nothing lost, the files that are on a usable volume, and no others, are loaded,
\* and none of a volume that FindDrive refused or did not reach.
THEOREM WhatIsThereIsLoaded ==
  ASSUME WarmsUpInTime, CardsInOrder, FilesListed
  PROVE  Spec => []LoadsWhatIsThere
<1>1. BootInv => LoadsWhatIsThere
  <2> SUFFICES ASSUME CleanInv, FatInv, fat.at = "returned", faults = 0, Addressable
               PROVE  fat.ok <=> Usable /\ fat.name \in DOMAIN volume.files
    BY Zenon DEF BootInv, LoadsWhatIsThere
  <2>1. "returned" \in {"found"} \cup Loading
    BY DEF Loading
  <2>2. CASE Usable
    <3>1. Clean
      BY <2>2, Zenon DEF Clean, Reachable, Usable, Addressable
    <3>2. Found
      BY <2>1, <2>2, <3>1, Zenon DEF CleanInv, Usable
    <3> QED
      BY <2>2, <3>1, <3>2, Zenon DEF CleanInv
  <2>3. CASE ~ Usable
    <3>1. ~ Found
      BY <2>3, Zenon DEF Found, Usable
    <3>2. Astray
      BY <2>1, <3>1 DEF FatInv, After
    <3> QED
      BY <2>3, <3>2 DEF Astray
  <2> QED
    BY <2>2, <2>3
<1> QED
  BY <1>1, BootInvHolds, PTL

-----------------------------------------------------------------------------
\* The manifest.

\* LoadFile keeps the name and the place it was called with, and stores what it reads there.
LEMMA LoadsTo ==
  ASSUME DOMAIN fat = {"at", "name", "to", "cluster", "sector", "left", "ok"},
         DirSector \/ DirEnd \/ DirLink \/ DataSector \/ DataLink
  PROVE  /\ fat'.name = fat.name /\ fat'.to = fat.to
         /\ DOMAIN memory \subseteq DOMAIN memory'
         /\ \A x \in DOMAIN memory : (fat.at = "data" => x # fat.to + fat.sector) => memory'[x] = memory[x]
<1>1. CASE DirSector
  <2> DEFINE f == volume.files[fat.name]
             count == (SwapBBBB(f.size) + SectorBytes - 1) \div SectorBytes
             a == IF count = 0 THEN "returned" ELSE "data"
             o == count = 0
             c == f.cluster
  <2> HIDE DEF a, o, count, c
  <2>1. \/ fat' = [fat EXCEPT !.at = a, !.ok = o, !.cluster = c, !.sector = 0, !.left = count]
        \/ fat' = [fat EXCEPT !.sector = @ + 1, !.left = @ - 1]
    BY <1>1, Zenon DEF DirSector, a, o, count, c
  <2>2. memory' = memory
    BY <1>1 DEF DirSector
  <2> QED
    BY <2>1, <2>2
<1>2. CASE DirEnd
  BY <1>2 DEF DirEnd, NotFound
<1>3. CASE DirLink
  <2> DEFINE s(link) == ClusterStart(link)
             n == drive.cluster_size
  <2>1. PICK link \in Links : \/ fat' = [fat EXCEPT !.at = "returned"]
                              \/ fat' = [fat EXCEPT !.cluster = link, !.sector = s(link), !.left = n]
    BY <1>3, Zenon DEF DirLink, NotFound
  <2>2. memory' = memory
    BY <1>3 DEF DirLink
  <2> HIDE DEF s, n
  <2> QED
    BY <2>1, <2>2
<1>4. CASE DataSector
  <2> DEFINE lba == ClusterStart(fat.cluster) + (fat.sector % drive.cluster_size)
             here == fat.to + fat.sector
             a == IF ClusterEnds(fat.sector) THEN "link" ELSE IF fat.left = 1 THEN "returned" ELSE "data"
             o == fat.left = 1
  <2>1. PICK got \in Outcomes(lba) :
          IF got = None THEN LoadFails /\ UNCHANGED memory
          ELSE /\ memory' = [x \in DOMAIN memory \cup {here} |-> IF x = here THEN SectorAt(got) ELSE memory[x]]
               /\ fat' = [fat EXCEPT !.sector = @ + 1, !.left = @ - 1, !.at = a, !.ok = o]
    BY <1>4 DEF DataSector
  <2>2. fat.at = "data"
    BY <1>4 DEF DataSector
  <2> HIDE DEF lba, a, o, here
  <2>3. CASE got = None
    BY <2>1, <2>3 DEF LoadFails
  <2>4. CASE got # None
    <3>1. /\ memory' = [x \in DOMAIN memory \cup {here} |-> IF x = here THEN SectorAt(got) ELSE memory[x]]
          /\ fat' = [fat EXCEPT !.sector = @ + 1, !.left = @ - 1, !.at = a, !.ok = o]
      BY <2>1, <2>4
    <3>2. fat'.name = fat.name /\ fat'.to = fat.to
      BY <3>1
    <3>3. DOMAIN memory \subseteq DOMAIN memory' /\ \A x \in DOMAIN memory : x # here => memory'[x] = memory[x]
      BY <3>1
    <3> QED
      BY <2>2, <3>2, <3>3 DEF here
  <2> QED
    BY <2>3, <2>4
<1>5. CASE DataLink
  <2> DEFINE a == IF fat.left = 0 THEN "returned" ELSE "data"
  <2> HIDE DEF a
  <2>1. PICK link \in Links : fat' = [fat EXCEPT !.cluster = link, !.at = a]
    BY <1>5, Zenon DEF DataLink, a
  <2>2. memory' = memory
    BY <1>5 DEF DataLink
  <2> QED
    BY <2>1, <2>2
<1> QED
  BY <1>1, <1>2, <1>3, <1>4, <1>5

-----------------------------------------------------------------------------
\* A manifest that goes round is never started.
LEMMA RoundStays ==
  ASSUME Round, boot'.line = boot.line, volume' = volume, boot'.at # "started"
  PROVE  Round'
BY Zenon DEF Round, Manifest

\* An image that is not loaded over stays loaded.
LEMMA LastingStays ==
  ASSUME NEW i, boot'.line = boot.line, volume' = volume, boot'.at = boot.at
  PROVE  Lasting(i)' => Lasting(i)
BY Zenon DEF Lasting, Passed, Taken, Manifest

\* Lines already passed stay passed.
LEMMA OnwardStays ==
  ASSUME Onward, boot' = boot, missed' = missed, volume' = volume, memory' = memory, Clean' => Clean,
         boot.at = "image" => fat'.to = fat.to /\ fat'.name = fat.name
  PROVE  Onward'
BY Zenon DEF Onward, Lasting, Passed, Taken, Manifest, Line, ExactlyLoaded, Address0

\* main() up to the manifest.
LEMMA OnwardFrom ==
  ASSUME boot'.line = 1, boot'.ptr = 0, boot'.at # "image"
  PROVE  Onward'
<1>1. 1 .. boot'.line - 1 = {}
  OBVIOUS
<1> QED
  BY <1>1 DEF Onward

\* The lines of a manifest.
LEMMA Lines ==
  ASSUME CardsInOrder, Basics
  PROVE  /\ DOMAIN Manifest \subseteq Nat \ {0} /\ \A i \in DOMAIN Manifest : 1 .. i \subseteq DOMAIN Manifest
         /\ \A i \in DOMAIN Manifest : Manifest[i].is = "load" => Address0(Manifest[i]) \in Nat
<1>1. Readable(volume)
  BY VolumeFacts DEF Basics, FatType
<1>2. Len(Manifest) \in Nat /\ DOMAIN Manifest = 1 .. Len(Manifest)
  BY <1>1 DEF Readable, Manifest
<1>3. \A i \in DOMAIN Manifest : Manifest[i].is = "load" => Address0(Manifest[i]) \in Nat
  <2>1. \A i \in DOMAIN Manifest : Manifest[i].is = "load" => Manifest[i].digits \in Seq(0 .. 15)
    BY <1>1, Zenon DEF Readable, Manifest
  <2>2. \A s \in Seq(0 .. 15) : ParseAddress(s, 0) \in Nat
    BY AddressIsNumber
  <2> QED
    BY <2>1, <2>2, Zenon DEF Address0
<1> QED
  BY <1>2, <1>3

\* A sector of an image goes where no other image lies.
LEMMA ImagesLast ==
  ASSUME CardsInOrder, ImagesApart, Basics, Found, Onward, boot.at = "image", Quiet, InFile,
         DirSector \/ DirEnd \/ DirLink \/ DataSector \/ DataLink, Clean' => Clean, missed' = missed,
         boot.line \in DOMAIN Manifest, Line.is = "load"
  PROVE  Onward'
<1>1. /\ fat'.name = fat.name /\ fat'.to = fat.to
      /\ DOMAIN memory \subseteq DOMAIN memory'
      /\ \A x \in DOMAIN memory : (fat.at = "data" => x # fat.to + fat.sector) => memory'[x] = memory[x]
  BY LoadsTo DEF Basics, Shapes
<1>2. boot' = boot /\ volume' = volume /\ volume \in Volumes
  BY DEF Quiet, Basics, FatType
<1>3. ASSUME NEW i \in 1 .. boot.line - 1, Lasting(i), i \notin missed
      PROVE  ExactlyLoaded(Manifest[i].name, Address0(Manifest[i]))'
  <2> DEFINE name == Manifest[i].name
             to == Address0(Manifest[i])
             n == SectorsIn(volume.files[name].size)
  <2>1. ExactlyLoaded(name, to)
    BY <1>3 DEF Onward
  <2>2. \A a \in 0 .. n - 1 : to + a \in DOMAIN memory /\ memory[to + a] = Piece(name, a)
    BY <2>1, Zenon DEF ExactlyLoaded, SectorsIn
  <2>3. ASSUME fat.at = "data", NEW a \in 0 .. n - 1
        PROVE  to + a # fat.to + fat.sector
    <3> DEFINE j == boot.line
               m == SectorsIn(volume.files[Manifest[j].name].size)
               b == fat.sector
    <3>1. j \in Nat \ {0} /\ i \in DOMAIN Manifest /\ i \in Nat /\ j \in i + 1 .. j /\ Taken = j
      BY Lines DEF Taken
    <3>2. /\ Manifest[i].is = "load" /\ Manifest[i].name \in DOMAIN volume.files
          /\ Manifest[j].is = "load" /\ Manifest[j].digits # Manifest[i].digits
      <4>1. Manifest[i].is = "load" /\ Manifest[i].name \in DOMAIN volume.files
            /\ \A k \in i + 1 .. Taken : Manifest[k].is = "load" => Manifest[k].digits # Manifest[i].digits
        BY <1>3 DEF Lasting
      <4>2. Manifest[j].is = "load"
        BY DEF Line
      <4> QED
        BY <3>1, <4>1, <4>2
    <3>3. fat.name = Manifest[j].name /\ fat.to = Address0(Manifest[j])
      BY DEF Onward, Line
    <3>4. /\ fat.name \in DOMAIN volume.files /\ b \in Nat /\ fat.left > 0 /\ fat.left = Total - b
      BY <2>3 DEF InFile, AtData
    <3>5. Total = m /\ m \in Nat /\ b \in 0 .. m - 1 /\ fat.left \in Nat
      <4>1. Total = m
        BY <3>3, Zenon DEF Total
      <4>2. Total \in Nat /\ fat.left \in Nat
        BY <1>2, <3>4, FileFacts DEF Total, Basics, FatType
      <4> HIDE DEF m, b
      <4> QED
        BY <3>4, <4>1, <4>2
    <3>6. Apart(volume)
      BY <1>2 DEF ImagesApart
    <3>7. Address0(Manifest[i]) + a # Address0(Manifest[j]) + b
      <4>1. i \in DOMAIN volume.manifest /\ j \in DOMAIN volume.manifest
        BY <3>1 DEF Manifest
      <4>2. /\ volume.manifest[i].is = "load" /\ volume.manifest[j].is = "load"
            /\ volume.manifest[i].digits # volume.manifest[j].digits
            /\ volume.manifest[i].name \in DOMAIN volume.files /\ volume.manifest[j].name \in DOMAIN volume.files
        BY <3>2, <3>3, <3>4, Zenon DEF Manifest
      <4>3. a \in 0 .. SectorsIn(volume.files[volume.manifest[i].name].size) - 1
            /\ b \in 0 .. SectorsIn(volume.files[volume.manifest[j].name].size) - 1
        BY <3>5, Zenon DEF Manifest
      <4> HIDE DEF b, j
      <4> QED
        BY <3>6, <4>1, <4>2, <4>3, Zenon DEF Apart, Manifest
    <3> QED
      BY <3>3, <3>7
  <2>4. \A a \in 0 .. n - 1 : to + a \in DOMAIN memory' /\ memory'[to + a] = Piece(name, a)
    <3> SUFFICES ASSUME NEW a \in 0 .. n - 1 PROVE to + a \in DOMAIN memory' /\ memory'[to + a] = Piece(name, a)
      OBVIOUS
    <3> HIDE DEF n, to, name
    <3> QED
      BY <1>1, <2>2, <2>3, Zenon
  <2>5. Manifest' = Manifest /\ SectorsIn(volume'.files[name].size) = n
    BY <1>2 DEF Manifest
  <2> QED
    BY <1>2, <2>4, <2>5, Zenon DEF ExactlyLoaded, SectorsIn, Address0, Manifest
<1>4. /\ \A i \in 1 .. boot'.line - 1 : Manifest'[i].is \in {"#", "load"}
      /\ boot'.at # "parse"
      /\ fat'.to = Address0(Line)' /\ fat'.name = Line'.name
  BY <1>1, <1>2 DEF Onward, Manifest, Line, Address0
<1>5. \A i \in 1 .. boot'.line - 1 : Lasting(i)' /\ i \notin missed' =>
         ExactlyLoaded(Manifest[i].name, Address0(Manifest[i]))'
  <2> SUFFICES ASSUME NEW i \in 1 .. boot.line - 1, Lasting(i)', i \notin missed
               PROVE  ExactlyLoaded(Manifest[i].name, Address0(Manifest[i]))'
    BY <1>2
  <2>1. Lasting(i)
    BY <1>2, LastingStays
  <2> QED
    BY <1>3, <2>1
<1>6. Clean' => \A i \in 1 .. boot'.line - 1 : Manifest[i].is = "load" /\ Manifest[i].name \in DOMAIN volume.files => i \notin missed'
  BY <1>2, Zenon DEF Onward
<1> QED
  BY <1>2, <1>4, <1>5, <1>6, Zenon DEF Onward, Manifest

\* Where nothing has been lost nothing had been.
LEMMA CleanBefore ==
  ASSUME CardInv, volume' = volume, Reading \/ UNCHANGED sdVars
  PROVE  Clean' => Clean
<1>1. CASE Reading
  BY <1>1, CleanWas DEF CardInv
<1>2. CASE UNCHANGED sdVars
  BY <1>2, Zenon DEF Clean, Reachable, sdVars
<1> QED
  BY <1>1, <1>2

\* A comment is passed.
LEMMA CommentPassed ==
  ASSUME CardsInOrder, BootInv, StartInv, Comment
  PROVE  StartInv'
<1>1. /\ boot.at = "parse" /\ Line.is = "#" /\ boot' = [boot EXCEPT !.line = @ + 1, !.ptr = 0]
      /\ missed' = missed /\ UNCHANGED <<sdVars, fatVars>>
  BY DEF Comment
<1>2. /\ DOMAIN boot = {"at", "line", "ptr"} /\ Basics /\ boot.line \in DOMAIN Manifest
  BY <1>1 DEF BootInv, FatInv, Basics, Shapes, Stages
<1>3. boot.line \in Nat \ {0} /\ boot.line \in DOMAIN Manifest
  BY <1>2, Lines
<1>4. boot'.at = "parse" /\ boot'.line = boot.line + 1 /\ boot'.ptr = 0 /\ volume' = volume /\ memory' = memory
  BY <1>1, <1>2 DEF fatVars
<1>5. Manifest' = Manifest /\ (Clean' <=> Clean)
  BY <1>1, <1>4, Zenon DEF Manifest, Clean, Reachable, sdVars
<1>6. CASE Round
  <2>1. PICK l \in DOMAIN Manifest :
          Manifest[l].is = "L" /\ boot.line <= l /\ \A i \in 1 .. l - 1 : Manifest[i].is \in {"#", "load"}
    BY <1>6 DEF Round
  <2>2. boot.line # l /\ l \in Nat
    BY <1>1, <2>1, <1>2, Lines DEF Line
  <2>3. boot.line + 1 <= l
    BY <1>3, <2>1, <2>2
  <2>4. Round'
    BY <1>4, <1>5, <2>1, <2>3, Zenon DEF Round
  <2> QED
    BY <2>4 DEF StartInv
<1>7. CASE Onward
  <2>1. \A i \in 1 .. boot'.line - 1 : i \in 1 .. boot.line - 1 \/ i = boot.line
    BY <1>3, <1>4
  <2>2. \A i \in 1 .. boot'.line - 1 : Manifest[i].is \in {"#", "load"}
    BY <1>1, <1>7, <2>1 DEF Onward, Line
  <2>3. ASSUME NEW i \in 1 .. boot'.line - 1, Lasting(i)'
        PROVE  i \in 1 .. boot.line - 1 /\ Lasting(i)
    <3>1. /\ Manifest[i].is = "load" /\ Manifest[i].name \in DOMAIN volume.files
          /\ \A k \in i + 1 .. Taken' : Manifest[k].is = "load" => Manifest[k].digits # Manifest[i].digits
      BY <1>4, <1>5, <2>3, Zenon DEF Lasting
    <3>2. i # boot.line
      BY <1>1, <3>1 DEF Line
    <3>3. i \in 1 .. boot.line - 1
      BY <2>1, <3>2
    <3>4. Taken' = boot.line /\ Taken = boot.line - 1
      BY <1>1, <1>3, <1>4 DEF Taken
    <3>5. \A k \in i + 1 .. Taken : k \in i + 1 .. Taken'
      BY <1>3, <3>3, <3>4
    <3>6. \A k \in i + 1 .. Taken : Manifest[k].is = "load" => Manifest[k].digits # Manifest[i].digits
      BY <3>1, <3>5
    <3> QED
      BY <3>1, <3>3, <3>6 DEF Lasting, Passed
  <2>4. \A i \in 1 .. boot'.line - 1 : Lasting(i)' /\ i \notin missed' =>
           ExactlyLoaded(Manifest[i].name, Address0(Manifest[i]))'
    <3> SUFFICES ASSUME NEW i \in 1 .. boot'.line - 1, Lasting(i)', i \notin missed
                 PROVE  ExactlyLoaded(Manifest[i].name, Address0(Manifest[i]))'
      BY <1>1
    <3>1. i \in 1 .. boot.line - 1 /\ Lasting(i)
      BY <2>3
    <3>2. ExactlyLoaded(Manifest[i].name, Address0(Manifest[i]))
      BY <1>7, <3>1 DEF Onward
    <3> QED
      BY <1>4, <1>5, <3>2, Zenon DEF ExactlyLoaded, Address0
  <2>5. Clean' => \A i \in 1 .. boot'.line - 1 : Manifest[i].is = "load" /\ Manifest[i].name \in DOMAIN volume.files => i \notin missed'
    <3> SUFFICES ASSUME Clean, NEW i \in 1 .. boot'.line - 1, Manifest[i].is = "load", Manifest[i].name \in DOMAIN volume.files
                 PROVE  i \notin missed
      BY <1>1, <1>5
    <3>1. i \in 1 .. boot.line - 1
      BY <1>1, <2>1 DEF Line
    <3> QED
      BY <1>7, <3>1, Zenon DEF Onward
  <2>6. Onward'
    <3>1. boot'.at # "image" /\ boot'.ptr = 0
      BY <1>4
    <3> QED
      BY <1>4, <1>5, <2>2, <2>4, <2>5, <3>1, Zenon DEF Onward
  <2> QED
    BY <2>6 DEF StartInv
<1> QED
  BY <1>6, <1>7 DEF StartInv

\* 'L' closes the round.
LEMMA AgainPassed ==
  ASSUME CardsInOrder, BootInv, StartInv, Again
  PROVE  StartInv'
<1>1. /\ boot.at = "parse" /\ Line.is = "L" /\ boot' = [boot EXCEPT !.line = 1, !.ptr = 43]
      /\ UNCHANGED <<sdVars, fatVars>>
  BY DEF Again
<1>2. /\ DOMAIN boot = {"at", "line", "ptr"} /\ Basics /\ boot.line \in DOMAIN Manifest
  BY <1>1 DEF BootInv, FatInv, Basics, Shapes, Stages
<1>3. boot'.at = "parse" /\ boot'.line = 1 /\ volume' = volume
  BY <1>1, <1>2 DEF fatVars
<1>4. Manifest' = Manifest
  BY <1>3 DEF Manifest
<1>5. \E l \in DOMAIN Manifest : Manifest[l].is = "L" /\ \A i \in 1 .. l - 1 : Manifest[i].is \in {"#", "load"}
  <2>1. CASE Round
    BY <2>1, Zenon DEF Round
  <2>2. CASE Onward
    BY <1>1, <1>2, <2>2, Zenon DEF Onward, Line
  <2> QED
    BY <2>1, <2>2 DEF StartInv
<1>6. \A l \in DOMAIN Manifest : 1 <= l
  BY <1>2, Lines
<1>7. Round'
  <2>1. boot'.at # "started"
    BY <1>3
  <2> QED
    BY <1>3, <1>4, <1>5, <1>6, <2>1, Zenon DEF Round
<1> QED
  BY <1>7 DEF StartInv

\* LoadFile is called with the line's name and address.
LEMMA ImageCalled ==
  ASSUME CardsInOrder, BootInv, StartInv, LoadImage
  PROVE  StartInv'
<1> DEFINE ptr == ParseAddress(Line.digits, boot.ptr)
<1>1. /\ boot.at = "parse" /\ Line.is = "load" /\ boot' = [boot EXCEPT !.at = "image", !.ptr = ptr]
      /\ fat' = OpenFrom(Line.name, ptr)
      /\ UNCHANGED <<volume, sector_buffer, drive, memory, sdVars, missed>>
  BY DEF LoadImage, LoadFile
<1>2. /\ DOMAIN boot = {"at", "line", "ptr"} /\ Basics /\ boot.line \in DOMAIN Manifest
  BY <1>1 DEF BootInv, FatInv, Basics, Shapes, Stages
<1>3. boot.line \in Nat \ {0}
  BY <1>2, Lines
<1>4. boot'.at = "image" /\ boot'.line = boot.line /\ boot'.ptr = ptr
  <2> HIDE DEF ptr
  <2> QED
    BY <1>1, <1>2
<1>5. fat'.to = ptr /\ fat'.name = Line.name
  BY <1>1 DEF OpenFrom
<1>6. Manifest' = Manifest /\ (Clean' <=> Clean) /\ Line' = Line
  BY <1>1, <1>4, Zenon DEF Manifest, Clean, Reachable, sdVars, Line
<1>7. CASE Round
  <2>1. boot'.at # "started"
    BY <1>4
  <2> QED
    BY <1>1, <1>4, <1>7, <2>1, RoundStays DEF StartInv
<1>8. CASE Onward
  <2>1. boot.ptr = 0
    BY <1>1, <1>8 DEF Onward
  <2>2. fat'.to = Address0(Line)' /\ fat'.name = Line'.name
    BY <1>5, <1>6, <2>1, Zenon DEF Address0
  <2>3. ASSUME NEW i \in 1 .. boot.line - 1, Lasting(i)'
        PROVE  Lasting(i)
    <3>1. /\ Manifest[i].is = "load" /\ Manifest[i].name \in DOMAIN volume.files
          /\ \A k \in i + 1 .. Taken' : Manifest[k].is = "load" => Manifest[k].digits # Manifest[i].digits
      BY <1>1, <1>6, <2>3, Zenon DEF Lasting
    <3>2. Taken' = boot.line /\ Taken = boot.line - 1
      BY <1>1, <1>3, <1>4 DEF Taken
    <3>3. \A k \in i + 1 .. Taken : k \in i + 1 .. Taken'
      BY <1>3, <3>2
    <3> QED
      BY <3>1, <3>3 DEF Lasting, Passed
  <2>4. \A i \in 1 .. boot'.line - 1 : Lasting(i)' /\ i \notin missed' =>
           ExactlyLoaded(Manifest[i].name, Address0(Manifest[i]))'
    <3> SUFFICES ASSUME NEW i \in 1 .. boot.line - 1, Lasting(i)', i \notin missed
                 PROVE  ExactlyLoaded(Manifest[i].name, Address0(Manifest[i]))'
      BY <1>1, <1>4
    <3>1. ExactlyLoaded(Manifest[i].name, Address0(Manifest[i]))
      BY <1>8, <2>3 DEF Onward
    <3> QED
      BY <1>1, <1>6, <3>1, Zenon DEF ExactlyLoaded, Address0
  <2>8. Clean' => \A i \in 1 .. boot'.line - 1 : Manifest[i].is = "load" /\ Manifest[i].name \in DOMAIN volume.files => i \notin missed'
    BY <1>1, <1>4, <1>6, <1>8, Zenon DEF Onward
  <2>5. \A i \in 1 .. boot'.line - 1 : Manifest'[i].is \in {"#", "load"}
    BY <1>4, <1>6, <1>8 DEF Onward
  <2>6. boot'.at # "parse"
    BY <1>4
  <2>7. Onward'
    BY <1>1, <1>6, <2>2, <2>4, <2>5, <2>6, <2>8, Zenon DEF Onward
  <2> QED
    BY <2>7 DEF StartInv
<1> QED
  BY <1>7, <1>8 DEF StartInv

\* An image that has been loaded, or is not there, is passed.
LEMMA ImagePassed ==
  ASSUME CardsInOrder, BootInv, StartInv, ImageLoaded
  PROVE  StartInv'
<1>1. /\ boot.at = "image" /\ boot' = [at |-> "parse", line |-> boot.line + 1, ptr |-> 0]
      /\ missed' = IF fat.ok /\ ~ misled THEN missed \ {boot.line} ELSE missed \cup {boot.line}
      /\ fat.at = "returned" /\ UNCHANGED <<sdVars, fatVars>>
  BY DEF ImageLoaded
<1>2. /\ DOMAIN boot = {"at", "line", "ptr"} /\ Basics /\ boot.line \in DOMAIN Manifest /\ Line.is = "load"
  BY <1>1 DEF BootInv, FatInv, Basics, Shapes, Stages
<1>3. boot.line \in Nat \ {0}
  BY <1>2, Lines
<1>4. boot'.at = "parse" /\ boot'.line = boot.line + 1 /\ boot'.ptr = 0 /\ volume' = volume /\ memory' = memory
  BY <1>1, <1>2 DEF fatVars
<1>5. Manifest' = Manifest /\ (Clean' <=> Clean)
  BY <1>1, <1>4, Zenon DEF Manifest, Clean, Reachable, sdVars
<1>6. CASE Round
  <2>1. PICK l \in DOMAIN Manifest :
          Manifest[l].is = "L" /\ boot.line <= l /\ \A i \in 1 .. l - 1 : Manifest[i].is \in {"#", "load"}
    BY <1>6 DEF Round
  <2>2. boot.line # l /\ l \in Nat
    BY <2>1, <1>2, Lines DEF Line
  <2>3. boot.line + 1 <= l
    BY <1>3, <2>1, <2>2
  <2>4. Round'
    BY <1>4, <1>5, <2>1, <2>3, Zenon DEF Round
  <2> QED
    BY <2>4 DEF StartInv
<1>7. CASE Onward
  <2>1. \A i \in 1 .. boot'.line - 1 : i \in 1 .. boot.line - 1 \/ i = boot.line
    BY <1>3, <1>4
  <2>2. \A i \in 1 .. boot'.line - 1 : Manifest[i].is \in {"#", "load"}
    BY <1>2, <1>7, <2>1 DEF Onward, Line
  <2>3. ASSUME NEW i \in 1 .. boot'.line - 1, Lasting(i)'
        PROVE  /\ Manifest[i].name \in DOMAIN volume.files
               /\ i # boot.line => i \in 1 .. boot.line - 1 /\ Lasting(i)
    <3>1. /\ Manifest[i].is = "load" /\ Manifest[i].name \in DOMAIN volume.files
          /\ \A k \in i + 1 .. Taken' : Manifest[k].is = "load" => Manifest[k].digits # Manifest[i].digits
      BY <1>4, <1>5, <2>3, Zenon DEF Lasting
    <3>2. Taken' = boot.line /\ Taken = boot.line
      BY <1>1, <1>3, <1>4 DEF Taken
    <3>3. i # boot.line => i \in 1 .. boot.line - 1
      BY <2>1
    <3> QED
      BY <3>1, <3>2, <3>3 DEF Lasting, Passed
  <2>4. Found /\ Returned /\ fat.to = Address0(Line) /\ fat.name = Line.name
    <3>1. Found
      BY <1>1 DEF BootInv, FatInv, After, Astray, Loading
    <3>2. Returned
      BY <1>1, <3>1 DEF BootInv, FatInv, After, InFile, Loading
    <3> QED
      BY <1>1, <1>7, <3>1, <3>2 DEF Onward
  <2>5. ASSUME fat.ok, ~ misled
        PROVE  ExactlyLoaded(Line.name, Address0(Line))
    <3>1. LoadedSoFar(fat.name, fat.to, Total)
      BY <2>4, <2>5, Zenon DEF Returned
    <3>2. ExactlyLoaded(fat.name, fat.to)
      BY <3>1, Zenon DEF LoadedSoFar, Total, SectorsIn, ExactlyLoaded
    <3> QED
      BY <2>4, <3>2, Zenon
  <2>6. \A i \in 1 .. boot'.line - 1 : Lasting(i)' /\ i \notin missed' =>
           ExactlyLoaded(Manifest[i].name, Address0(Manifest[i]))'
    <3> SUFFICES ASSUME NEW i \in 1 .. boot'.line - 1, Lasting(i)', i \notin missed'
                 PROVE  ExactlyLoaded(Manifest[i].name, Address0(Manifest[i]))'
      OBVIOUS
    <3>1. ExactlyLoaded(Manifest[i].name, Address0(Manifest[i]))
      <4>1. CASE i = boot.line
        BY <1>1, <2>5, <4>1 DEF Line
      <4>2. CASE i # boot.line
        BY <1>1, <1>7, <2>3, <4>2 DEF Onward
      <4> QED
        BY <4>1, <4>2
    <3> QED
      BY <1>4, <1>5, <3>1, Zenon DEF ExactlyLoaded, Address0
  <2>7. Clean' => \A i \in 1 .. boot'.line - 1 : Manifest[i].is = "load" /\ Manifest[i].name \in DOMAIN volume.files => i \notin missed'
    <3> SUFFICES ASSUME Clean, NEW i \in 1 .. boot'.line - 1, Manifest[i].is = "load", Manifest[i].name \in DOMAIN volume.files
                 PROVE  i \notin missed'
      BY <1>5
    <3>1. CASE i = boot.line
      <4>1. fat.name \in DOMAIN volume.files
        BY <2>4, <3>1 DEF Line
      <4>2. fat.ok /\ ~ misled
        BY <1>1, <2>4, <4>1, Zenon DEF BootInv, CleanInv
      <4> QED
        BY <1>1, <3>1, <4>2
    <3>2. CASE i # boot.line
      <4>1. i \notin missed
        BY <1>7, <2>1, <3>2 DEF Onward
      <4> QED
        BY <1>1, <3>2, <4>1
    <3> QED
      BY <3>1, <3>2
  <2>8. Onward'
    <3>1. boot'.at # "image" /\ boot'.ptr = 0
      BY <1>4
    <3> QED
      BY <1>4, <1>5, <2>2, <2>6, <2>7, <3>1, Zenon DEF Onward
  <2> QED
    BY <2>8 DEF StartInv
<1> QED
  BY <1>6, <1>7 DEF StartInv

\* The program is started, or halts.
LEMMA StartedOrHalted ==
  ASSUME CardsInOrder, BootInv, StartInv, Go \/ Halt
  PROVE  StartInv'
<1>1. /\ boot.at = "parse" /\ Line.is \in {"G", "blank"} /\ UNCHANGED <<sdVars, fatVars, missed>>
      /\ \E a \in {"started", "halted"} : boot' = [boot EXCEPT !.at = a] /\ (a = "started" => Line.is = "G")
  BY DEF Go, Halt
<1>2. /\ DOMAIN boot = {"at", "line", "ptr"} /\ Basics /\ boot.line \in DOMAIN Manifest
  BY <1>1 DEF BootInv, FatInv, Basics, Shapes, Stages
<1>3. boot.line \in Nat \ {0}
  BY <1>2, Lines
<1>4. /\ boot'.at \in {"started", "halted"} /\ (boot'.at = "started" => Line.is = "G") /\ boot'.line = boot.line
      /\ volume' = volume /\ memory' = memory /\ missed' = missed
  BY <1>1, <1>2 DEF fatVars
<1>5. Manifest' = Manifest /\ (Clean' <=> Clean)
  BY <1>1, <1>4, Zenon DEF Manifest, Clean, Reachable, sdVars
<1>6. CASE Round
  <2>1. PICK l \in DOMAIN Manifest :
          Manifest[l].is = "L" /\ boot.line <= l /\ \A i \in 1 .. l - 1 : Manifest[i].is \in {"#", "load"}
    BY <1>6 DEF Round
  <2>2. l \in Nat
    BY <1>2, Lines
  <2>3. boot.line = l \/ boot.line \in 1 .. l - 1
    BY <1>3, <2>1, <2>2
  <2>4. Line.is \in {"#", "load", "L"}
    BY <2>1, <2>3 DEF Line
  <2> QED
    BY <1>1, <2>4
<1>7. CASE Onward
  <2>1. Taken' = Taken /\ boot'.at # "image" /\ boot'.at # "parse"
    BY <1>1, <1>4 DEF Taken
  <2>2. \A i : Lasting(i)' => Lasting(i)
    BY <1>4, <1>5, <2>1, Zenon DEF Lasting, Passed
  <2>3. Onward'
    BY <1>4, <1>5, <1>7, <2>1, <2>2, Zenon DEF Onward, ExactlyLoaded, Address0
  <2> QED
    BY <2>3 DEF StartInv
<1> QED
  BY <1>6, <1>7 DEF StartInv

\* The manifest's invariant holds when the program starts.
LEMMA StartInvStarts ==
  ASSUME Init
  PROVE  StartInv
<1>1. boot.line = 1 /\ boot.at = "start"
  BY DEF Init
<1>2. 1 .. boot.line - 1 = {}
  BY <1>1
<1> QED
  BY <1>1, <1>2 DEF StartInv, Onward

\* Where neither main() nor LoadFile gets on.
LEMMA StartStands ==
  ASSUME BootInv, StartInv, UNCHANGED <<boot, missed, volume, memory, fat>>, Reading \/ UNCHANGED sdVars
  PROVE  StartInv'
<1>1. Clean' => Clean
  BY CleanBefore DEF BootInv
<1>2. CASE Round
  <2>1. Round'
    BY <1>2, Zenon DEF Round, Manifest
  <2> QED
    BY <2>1 DEF StartInv
<1>3. CASE Onward
  BY <1>1, <1>3, OnwardStays DEF StartInv
<1> QED
  BY <1>2, <1>3 DEF StartInv

\* Every step of the boot programs keeps it.
LEMMA StartInvStep ==
  ASSUME WarmsUpInTime, CardsInOrder, ImagesApart, BootInv, StartInv, [Next]_vars
  PROVE  StartInv'
<1>1. /\ CardInv /\ SdInv /\ MainStages /\ Stages /\ Basics
      /\ DOMAIN fat = {"at", "name", "to", "cluster", "sector", "left", "ok"} /\ DOMAIN boot = {"at", "line", "ptr"}
  BY DEF BootInv, CardInv, FatInv, Basics, Shapes
<1>2. CASE UNCHANGED vars
  BY <1>2, StartStands DEF vars, fatVars, bootVars
<1>3. ASSUME boot.at \in {"start", "card", "drive", "manifest"}, boot'.line = boot.line, boot'.ptr = boot.ptr, boot'.at # "image"
      PROVE  StartInv'
  <2>1. boot'.line = 1 /\ boot'.ptr = 0
    BY <1>1, <1>3 DEF Stages
  <2> QED
    BY <1>3, <2>1, OnwardFrom DEF StartInv
<1>4. CASE SerialBoot /\ UNCHANGED rom
  <2>1. rom = "RS232" /\ boot' = boot
    BY <1>4 DEF SerialBoot, bootVars
  <2>2. boot.at = "start"
    BY <1>1, <2>1 DEF MainStages
  <2> QED
    BY <1>3, <2>1, <2>2
<1>5. CASE SdBoot /\ UNCHANGED rom
  <2>1. ASSUME CallInit \/ NoCard \/ CallFindDrive \/ LoadManifest \/ ManifestLoaded
        PROVE  StartInv'
    <3>1. \E a \in {"card", "ended", "drive", "manifest", "parse", "lost"} : boot' = [boot EXCEPT !.at = a]
      BY <2>1, Zenon DEF CallInit, NoCard, CallFindDrive, LoadManifest, ManifestLoaded
    <3>2. boot'.line = boot.line /\ boot'.ptr = boot.ptr /\ boot'.at # "image"
      BY <1>1, <3>1
    <3>3. boot.at \in {"start", "card", "drive", "manifest"}
      BY <2>1, Zenon DEF CallInit, NoCard, CallFindDrive, LoadManifest, ManifestLoaded
    <3> QED
      BY <1>3, <3>2, <3>3
  <2>2. ASSUME boot.at = "card" /\ SdNext /\ UNCHANGED <<fatVars, bootVars>>
        PROVE  StartInv'
    <3>1. boot' = boot
      BY <2>2 DEF bootVars
    <3> QED
      BY <1>3, <2>2, <3>1
  <2>3. ASSUME boot.at \in {"drive", "manifest", "image"} /\ FatNext /\ UNCHANGED bootVars
        PROVE  StartInv'
    <3>1. boot' = boot /\ missed' = missed /\ Quiet /\ volume' = volume
      BY <1>5, <2>3, CardStays DEF bootVars, Quiet
    <3>2. CASE boot.at # "image"
      BY <1>3, <2>3, <3>1, <3>2
    <3>3. CASE boot.at = "image"
      <4>1. fat.at \in Loading /\ boot.line \in DOMAIN Manifest /\ Line.is = "load"
        BY <1>1, <3>3 DEF Stages
      <4>2. Found
        BY <3>3, <4>1 DEF BootInv, FatInv, After, Astray
      <4>3. InFile
        BY <4>1, <4>2 DEF BootInv, FatInv, After
      <4>4. DirSector \/ DirEnd \/ DirLink \/ DataSector \/ DataLink
        BY <2>3, <4>1 DEF FatNext, ReadMbr, ReadBoot, Loading
      <4>5. Clean' => Clean
        BY <1>1, <2>3, <3>1, SectorsRead, CleanBefore
      <4>6. CASE Round
        BY <3>1, <3>3, <4>6, RoundStays DEF StartInv
      <4>7. CASE Onward
        BY <1>1, <3>1, <3>3, <4>1, <4>2, <4>3, <4>4, <4>5, <4>7, ImagesLast DEF StartInv
      <4> QED
        BY <4>6, <4>7 DEF StartInv
    <3> QED
      BY <3>2, <3>3
  <2> QED
    BY <1>5, <2>1, <2>2, <2>3, CommentPassed, AgainPassed, ImageCalled, ImagePassed, StartedOrHalted, Zenon DEF SdBoot
<1> QED
  BY <1>2, <1>4, <1>5 DEF Next

\* boot.c: a program is started with everything in place that the manifest names, but for what
\* LoadFile itself did not load; with nothing lost that is nothing.
THEOREM StartedLoaded ==
  ASSUME WarmsUpInTime, CardsInOrder, FilesListed, ImagesApart
  PROVE  Spec => []StartsLoaded
<1>1. BootInv /\ StartInv => StartsLoaded
  <2> SUFFICES ASSUME BootInv, StartInv, boot.at = "started", NEW i \in 1 .. boot.line - 1,
                      Manifest[i].is = "load", Manifest[i].name \in DOMAIN volume.files
               PROVE  /\ \/ i \in missed
                         \/ \E k \in i + 1 .. boot.line - 1 : Manifest[k].is = "load" /\ Manifest[k].digits = Manifest[i].digits
                         \/ ExactlyLoaded(Manifest[i].name, ParseAddress(Manifest[i].digits, 0))
                      /\ faults = 0 /\ Addressable => i \notin missed
    BY Zenon DEF StartsLoaded
  <2>1. Onward
    BY Zenon DEF StartInv, Round
  <2>2. Taken = boot.line - 1
    BY DEF Taken
  <2>3. ASSUME ~ \E k \in i + 1 .. boot.line - 1 : Manifest[k].is = "load" /\ Manifest[k].digits = Manifest[i].digits
        PROVE  Lasting(i)
    BY <2>2, <2>3, Zenon DEF Lasting, Passed
  <2>4. ASSUME faults = 0, Addressable
        PROVE  i \notin missed
    <3>1. fat.at = "returned"
      BY DEF BootInv, FatInv, Basics, Stages
    <3>2. Found
      BY <3>1 DEF BootInv, FatInv, After, Astray, Loading
    <3>3. Clean
      BY <2>4, <3>2, Zenon DEF Clean, Reachable, Found, Addressable
    <3> QED
      BY <2>1, <3>3, Zenon DEF Onward
  <2> QED
    BY <2>1, <2>3, <2>4, Zenon DEF Onward, Address0
<1>2. Init => StartInv
  BY StartInvStarts
<1>3. BootInv /\ StartInv /\ [Next]_vars => StartInv'
  BY StartInvStep
<1>4. Spec => []BootInv
  BY BootInvHolds
<1> QED
  BY <1>1, <1>2, <1>3, <1>4, PTL DEF Spec

(***************************************************************************)
(* rs232boot.c: the records.                                               *)
(***************************************************************************)
\* The elements of a sequence.
LEMMA ElementIn ==
  ASSUME NEW T, NEW s \in Seq(T), NEW i \in 1 .. Len(s)
  PROVE  s[i] \in T
OBVIOUS

\* The elements of two sequences that are joined.
JoinOf(c, q, n, p, m) ==
  (\A i \in 1 .. n : c[i] = q[i]) /\ (\A i \in 1 .. m : c[n + i] = p[i])
\* Where the elements of a concatenation are.
LEMMA Joined ==
  ASSUME NEW T, NEW s \in Seq(T), NEW t \in Seq(T)
  PROVE  /\ s \o t \in Seq(T) /\ Len(s \o t) = Len(s) + Len(t)
         /\ s \o t = [i \in 1 .. Len(s) + Len(t) |-> IF i <= Len(s) THEN s[i] ELSE t[i - Len(s)]]
         /\ JoinOf(s \o t, s, Len(s), t, Len(t))
<1> DEFINE c == s \o t
<1>1. c \in Seq(T) /\ Len(c) = Len(s) + Len(t)
  BY ConcatProperties
<1>2. \A i \in 1 .. Len(s) + Len(t) : c[i] = IF i <= Len(s) THEN s[i] ELSE t[i - Len(s)]
  BY ConcatProperties
<1>3. Len(s) \in Nat /\ Len(t) \in Nat
  OBVIOUS
<1> HIDE DEF c
<1>4. c = [i \in 1 .. Len(s) + Len(t) |-> c[i]]
  BY <1>1
<1>5. c = [i \in 1 .. Len(s) + Len(t) |-> IF i <= Len(s) THEN s[i] ELSE t[i - Len(s)]]
  BY <1>2, <1>4
<1>6. \A i \in 1 .. Len(s) : c[i] = s[i]
  BY <1>2, <1>3
<1>7. \A i \in 1 .. Len(t) : c[Len(s) + i] = t[i]
  <2> TAKE i \in 1 .. Len(t)
  <2>1. Len(s) + i \in 1 .. Len(s) + Len(t) /\ ~(Len(s) + i <= Len(s)) /\ Len(s) + i - Len(s) = i
    BY <1>3
  <2> QED
    BY <1>2, <2>1
<1> QED
  BY <1>1, <1>5, <1>6, <1>7 DEF c, JoinOf

\* A byte as two digits.
LEMMA HexTwo ==
  ASSUME NEW n \in 0 .. 255
  PROVE  /\ HexDigits(n, 2) \in Seq(0 .. 15) /\ Len(HexDigits(n, 2)) = 2
         /\ HexDigits(n, 2)[1] = n \div 16 /\ HexDigits(n, 2)[2] = n % 16
<1>1. 16^(2 - 1) = 16 /\ 16^(2 - 2) = 1
  BY SMT
<1>2. HexDigits(n, 2) = [i \in 1 .. 2 |-> (n \div 16^(2 - i)) % 16]
  BY DEF HexDigits
<1>3. HexDigits(n, 2)[1] = (n \div 16^(2 - 1)) % 16 /\ HexDigits(n, 2)[2] = (n \div 16^(2 - 2)) % 16
  BY <1>2
<1>4. HexDigits(n, 2)[1] = n \div 16 /\ HexDigits(n, 2)[2] = n % 16
  BY <1>1, <1>3
<1>5. n \div 16 \in 0 .. 15 /\ n % 16 \in 0 .. 15
  OBVIOUS
<1>6. \A i \in 1 .. 2 : HexDigits(n, 2)[i] \in 0 .. 15
  BY <1>4, <1>5
<1>7. HexDigits(n, 2) = [i \in 1 .. 2 |-> HexDigits(n, 2)[i]]
  BY <1>2
<1> DEFINE H == HexDigits(n, 2)
<1>8. H = [i \in 1 .. 2 |-> H[i]] /\ \A i \in 1 .. 2 : H[i] \in 0 .. 15
  BY <1>6, <1>7
<1> HIDE DEF H
<1>9. H \in Seq(0 .. 15) /\ Len(H) = 2
  BY <1>8
<1> QED
  BY <1>4, <1>9 DEF H

Flat(f, s) == f = [i \in 1 .. Len(s) |-> IF i = 1 THEN s[i] ELSE f[i - 1] \o s[i]]
\* FlattenSeq is the last of the concatenations.
LEMMA FlatDef ==
  ASSUME NEW s, Len(s) # 0
  PROVE  FlattenSeq(s) = (CHOOSE f : Flat(f, s))[Len(s)]
BY DEF FlattenSeq, Flat

\* The characters of a record's data: two for a byte.
Halves(d, k) == IF k % 2 = 1 THEN d[(k + 1) \div 2] \div 16 ELSE d[k \div 2] % 16
HalvesOf(d, n) == [k \in 1 .. 2 * n |-> Halves(d, k)]
\* The digits of the first bytes, and of one more.
LEMMA HalvesJoin ==
  ASSUME NEW d \in Seq(0 .. 255), NEW n \in Nat, n + 1 <= Len(d)
  PROVE  /\ HalvesOf(d, n + 1) = HalvesOf(d, n) \o HexDigits(d[n + 1], 2)
         /\ HalvesOf(d, 1) = HexDigits(d[1], 2)
<1> DEFINE H == HexDigits(d[n + 1], 2)
<1>1. \A i \in 1 .. Len(d) : d[i] \in 0 .. 255
  BY ElementIn
<1>2. ASSUME NEW i \in 1 .. Len(d)
      PROVE /\ HexDigits(d[i], 2) \in Seq(0 .. 15) /\ Len(HexDigits(d[i], 2)) = 2
            /\ HexDigits(d[i], 2)[1] = Halves(d, 2 * i - 1) /\ HexDigits(d[i], 2)[2] = Halves(d, 2 * i)
  <2>1. (2 * i - 1) % 2 = 1 /\ (2 * i) % 2 # 1 /\ (2 * i - 1 + 1) \div 2 = i /\ (2 * i) \div 2 = i
    OBVIOUS
  <2> QED
    BY <1>1, <2>1, HexTwo DEF Halves
<1>3. ASSUME NEW i \in 0 .. Len(d), NEW k \in 1 .. 2 * i PROVE Halves(d, k) \in 0 .. 15
  <2>1. k % 2 = 1 => (k + 1) \div 2 \in 1 .. Len(d)
    OBVIOUS
  <2>2. k % 2 # 1 => k \div 2 \in 1 .. Len(d)
    OBVIOUS
  <2>3. \A b \in 0 .. 255 : b \div 16 \in 0 .. 15 /\ b % 16 \in 0 .. 15
    OBVIOUS
  <2> QED
    BY <1>1, <2>1, <2>2, <2>3 DEF Halves
<1>4. HalvesOf(d, n) \in Seq(0 .. 15) /\ Len(HalvesOf(d, n)) = 2 * n
  BY <1>3 DEF HalvesOf
<1>5. H \in Seq(0 .. 15) /\ Len(H) = 2 /\ H[1] = Halves(d, 2 * n + 1) /\ H[2] = Halves(d, 2 * n + 2)
  BY <1>2, 2 * (n + 1) - 1 = 2 * n + 1
<1>6. \A k \in 1 .. 2 * n : HalvesOf(d, n)[k] = Halves(d, k)
  BY DEF HalvesOf
<1> HIDE DEF H
<1>7. HalvesOf(d, n) \o H = [k \in 1 .. 2 * (n + 1) |-> Halves(d, k)]
  <2> DEFINE A == HalvesOf(d, n)
  <2>1. A \in Seq(0 .. 15) /\ Len(A) = 2 * n /\ \A k \in 1 .. 2 * n : A[k] = Halves(d, k)
    BY <1>4, <1>6
  <2> HIDE DEF A
  <2>2. A \o H = [k \in 1 .. 2 * n + 2 |-> IF k <= 2 * n THEN A[k] ELSE H[k - 2 * n]]
    <3>1. Len(A) + Len(H) = 2 * n + 2
      BY <1>5, <2>1
    <3>2. A \in Seq(0 .. 15) /\ H \in Seq(0 .. 15)
      BY <1>5, <2>1
    <3>3. A \o H = [i \in 1 .. Len(A) + Len(H) |-> IF i <= Len(A) THEN A[i] ELSE H[i - Len(A)]]
      BY <3>2, Joined
    <3> QED
      BY <2>1, <3>1, <3>3, Zenon
  <2>3. ASSUME NEW k \in 1 .. 2 * n + 2
        PROVE  (IF k <= 2 * n THEN A[k] ELSE H[k - 2 * n]) = Halves(d, k)
    <3>1. CASE k <= 2 * n
      BY <2>1, <3>1
    <3>2. CASE k = 2 * n + 1
      BY <1>5, <3>2
    <3>3. CASE k = 2 * n + 2
      BY <1>5, <3>3
    <3> QED
      BY <3>1, <3>2, <3>3
  <2>4. A \o H = [k \in 1 .. 2 * n + 2 |-> Halves(d, k)]
    BY <2>2, <2>3
  <2>5. 2 * n + 2 = 2 * (n + 1)
    OBVIOUS
  <2> QED
    BY <2>4, <2>5 DEF A
<1>8. HalvesOf(d, 1) = HexDigits(d[1], 2)
  <2> DEFINE K == HexDigits(d[1], 2)
  <2>1. K \in Seq(0 .. 15) /\ Len(K) = 2 /\ K[1] = Halves(d, 1) /\ K[2] = Halves(d, 2)
    BY <1>2
  <2> HIDE DEF K
  <2>2. K = [k \in 1 .. 2 |-> Halves(d, k)]
    BY <2>1
  <2> QED
    BY <2>2 DEF HalvesOf, K
<1> QED
  BY <1>7, <1>8 DEF HalvesOf, H

\* The text of a record's data: two digits for each byte.
LEMMA BytesRead ==
  ASSUME NEW d \in Seq(0 .. 255)
  PROVE  FlattenSeq([i \in 1 .. Len(d) |-> HexDigits(d[i], 2)]) = HalvesOf(d, Len(d))
<1> DEFINE n == Len(d)
           s == [i \in 1 .. n |-> HexDigits(d[i], 2)]
<1>1. n \in Nat /\ DOMAIN s = 1 .. n /\ Len(s) = n /\ \A i \in 1 .. n : s[i] = HexDigits(d[i], 2)
  OBVIOUS
<1>2. CASE n = 0
  <2>1. s = << >> /\ HalvesOf(d, n) = << >>
    BY <1>2 DEF HalvesOf
  <2> QED
    BY <1>1, <1>2, <2>1 DEF FlattenSeq
<1>3. CASE n # 0
  <2> HIDE DEF s
  <2>1. Flat([i \in 1 .. n |-> HalvesOf(d, i)], s)
    <3> DEFINE g == [i \in 1 .. n |-> HalvesOf(d, i)]
    <3>1. ASSUME NEW i \in 1 .. n PROVE g[i] = IF i = 1 THEN s[i] ELSE g[i - 1] \o s[i]
      <4>1. i - 1 \in Nat /\ (i - 1) + 1 = i /\ (i - 1) + 1 <= Len(d)
        OBVIOUS
      <4>2. HalvesOf(d, i) = HalvesOf(d, i - 1) \o HexDigits(d[i], 2) /\ HalvesOf(d, 1) = HexDigits(d[1], 2)
        BY <4>1, HalvesJoin
      <4> QED
        BY <1>1, <4>2
    <3> QED
      BY <1>1, <3>1 DEF Flat
  <2> DEFINE f == CHOOSE f : Flat(f, s)
  <2>2. Flat(f, s) /\ FlattenSeq(s) = f[n]
    BY <1>1, <1>3, <2>1, FlatDef
  <2> HIDE DEF f
  <2>3. \A i \in 1 .. n : f[i] = IF i = 1 THEN s[i] ELSE f[i - 1] \o s[i]
    BY <1>1, <2>2 DEF Flat
  <2> DEFINE G == {k \in Nat : k + 1 \in 1 .. n => f[k + 1] = HalvesOf(d, k + 1)}
  <2>4. 0 \in G
    BY <1>1, <2>3, HalvesJoin
  <2>5. ASSUME NEW k \in Nat, k \in G PROVE k + 1 \in G
    <3>1. SUFFICES ASSUME k + 2 \in 1 .. n PROVE f[k + 2] = HalvesOf(d, k + 2)
      OBVIOUS
    <3>2. f[k + 1] = HalvesOf(d, k + 1)
      BY <2>5, <3>1
    <3>3. f[k + 2] = f[k + 1] \o s[k + 2]
      <4>1. k + 2 # 1 /\ k + 2 - 1 = k + 1
        OBVIOUS
      <4>2. f[k + 2] = IF k + 2 = 1 THEN s[k + 2] ELSE f[k + 2 - 1] \o s[k + 2]
        BY <2>3, <3>1
      <4> QED
        BY <4>1, <4>2, Zenon
    <3>4. HalvesOf(d, k + 2) = HalvesOf(d, k + 1) \o HexDigits(d[k + 2], 2)
      <4>1. k + 1 \in Nat /\ (k + 1) + 1 = k + 2 /\ (k + 1) + 1 <= Len(d)
        BY <3>1
      <4> QED
        BY <4>1, HalvesJoin
    <3> QED
      BY <1>1, <3>1, <3>2, <3>3, <3>4
  <2> HIDE DEF G
  <2>6. n - 1 \in Nat /\ n - 1 \in G
    <3>1. n - 1 \in Nat
      BY <1>1, <1>3
    <3> HIDE DEF n
    <3> QED
      BY <2>4, <2>5, <3>1, NumberInduction
  <2> QED
    BY <1>1, <1>3, <2>2, <2>6 DEF G, s
<1> QED
  BY <1>2, <1>3

Characters == -2 .. 15

\* The powers of sixteen that an address needs.
LEMMA Powers ==
  /\ 16^0 = 1 /\ 16^1 = 16 /\ 16^2 = 256 /\ 16^3 = 4096 /\ 16^4 = 65536
  /\ 16^5 = 1048576 /\ 16^6 = 16777216 /\ 16^7 = 268435456 /\ 16^8 = 4294967296
BY SMT

\* They are positive.
LEMMA PowerType == \A k \in 0 .. 7 : 16^k \in Nat \ {0}
<1> TAKE k \in 0 .. 7
<1>1. CASE k = 0
  BY <1>1, Powers
<1>2. CASE k = 1
  BY <1>2, Powers
<1>3. CASE k = 2
  BY <1>3, Powers
<1>4. CASE k = 3
  BY <1>4, Powers
<1>5. CASE k = 4
  BY <1>5, Powers
<1>6. CASE k = 5
  BY <1>6, Powers
<1>7. CASE k = 6
  BY <1>7, Powers
<1>8. CASE k = 7
  BY <1>8, Powers
<1> QED
  BY <1>1, <1>2, <1>3, <1>4, <1>5, <1>6, <1>7, <1>8

\* A sequence of elements of a set is one of a larger set's.
LEMMA SequenceGrows == ASSUME NEW B, NEW C, B \subseteq C, NEW s \in Seq(B) PROVE s \in Seq(C)
<1>1. \A i \in 1 .. Len(s) : s[i] \in C
  BY ElementIn
<1>2. Len(s) \in Nat /\ s = [i \in 1 .. Len(s) |-> s[i]]
  OBVIOUS
<1> DEFINE n == Len(s)
<1> HIDE DEF n
<1>3. n \in Nat /\ s = [i \in 1 .. n |-> s[i]] /\ \A i \in 1 .. n : s[i] \in C
  BY <1>1, <1>2 DEF n
<1>4. s \in [1 .. n -> C]
  BY <1>3
<1> QED
  BY <1>3, <1>4

\* A part of a record's text, from its beginning.
Begins(q, n) == q \in Seq(Characters) /\ Len(q) = n /\ \A j \in 2 .. n : q[j] \in Characters \ {S}
\* A text goes on behind its beginning.
LEMMA Appended ==
  ASSUME NEW q, NEW n \in Nat \ {0}, Begins(q, n), NEW p \in Seq(Characters \ {S}), NEW m \in Nat, Len(p) = m
  PROVE  /\ Begins(q \o p, n + m)
         /\ JoinOf(q \o p, q, n, p, m)
<1>1. q \in Seq(Characters) /\ Len(q) = n /\ \A j \in 2 .. n : q[j] \in Characters \ {S}
  BY DEF Begins
<1> DEFINE C == Characters \ {S}
           c == q \o p
<1>2. C \subseteq Characters /\ p \in Seq(C)
  OBVIOUS
<1> HIDE DEF C
<1>3. p \in Seq(Characters)
  BY <1>2, SequenceGrows
<1>4. /\ c \in Seq(Characters) /\ Len(c) = Len(q) + Len(p)
      /\ JoinOf(c, q, Len(q), p, Len(p))
  <2>1. q \in Seq(Characters)
    BY <1>1
  <2> QED
    BY <2>1, <1>3, Joined, Zenon
<1>5. c \in Seq(Characters) /\ Len(c) = n + m /\ JoinOf(c, q, n, p, m)
  BY <1>1, <1>4, Zenon
<1> HIDE DEF c
<1>6. ASSUME NEW j \in 2 .. n + m PROVE c[j] \in C
  <2>1. CASE j <= n
    BY <1>1, <1>5, <2>1 DEF C, JoinOf
  <2>2. CASE ~(j <= n)
    <3>1. j - n \in 1 .. m /\ n + (j - n) = j
      BY <2>2
    <3>2. p[j - n] \in C
      BY <1>2, <3>1, ElementIn
    <3> QED
      BY <1>5, <3>1, <3>2 DEF JoinOf
  <2> QED
    BY <2>1, <2>2
<1> QED
  BY <1>5, <1>6, Zenon DEF Begins, C, c

\* A number's digits.
LEMMA DigitsType ==
  ASSUME NEW n \in Nat, NEW count \in 0 .. 8
  PROVE  /\ HexDigits(n, count) \in Seq(0 .. 15) /\ Len(HexDigits(n, count)) = count
         /\ \A i \in 1 .. count : HexDigits(n, count)[i] = (n \div 16^(count - i)) % 16
<1>1. ASSUME NEW i \in 1 .. count PROVE (n \div 16^(count - i)) % 16 \in 0 .. 15
  <2>1. count - i \in 0 .. 7
    OBVIOUS
  <2>2. 16^(count - i) \in Nat \ {0}
    BY <2>1, PowerType
  <2> DEFINE p == 16^(count - i)
  <2> HIDE DEF p
  <2>3. p \in Nat \ {0} => (n \div p) % 16 \in 0 .. 15
    <3>1. p \in Nat \ {0} => n \div p \in Int
      OBVIOUS
    <3> DEFINE q == n \div p
    <3> HIDE DEF q
    <3>2. q \in Int => q % 16 \in 0 .. 15
      OBVIOUS
    <3> QED
      BY <3>1, <3>2 DEF q
  <2> QED
    BY <2>2, <2>3 DEF p
<1> QED
  BY <1>1 DEF HexDigits

\* A record's fields.
LEMMA RecordType ==
  ASSUME NEW r, RecordInOrder(r)
  PROVE  /\ AddressDigits(r.type) \in {4, 6, 8} /\ Len(r.data) \in Nat /\ r.type \in 0 .. 9 /\ r.address \in Nat
         /\ r.data \in Seq(0 .. 255) /\ AddressDigits(r.type) \div 2 + Len(r.data) + 1 \in 0 .. 255
<1>1. AddressDigits(r.type) \in {4, 6, 8}
  BY DEF AddressDigits
<1>2. Len(r.data) \in Nat
  BY DEF RecordInOrder
<1> DEFINE a == AddressDigits(r.type)
           l == Len(r.data)
<1> HIDE DEF a, l
<1>3. a \in {4, 6, 8} /\ l \in Nat /\ a \div 2 + l + 1 < 256 => a \div 2 + l + 1 \in 0 .. 255
  OBVIOUS
<1> QED
  BY <1>1, <1>2, <1>3 DEF RecordInOrder, a, l

Count(r) == AddressDigits(r.type) \div 2 + Len(r.data) + 1
Checksum(r) == 255 - (FoldLeft(+, Count(r) + r.address, r.data) % 256)
\* A record's text, part by part.
LEMMA TextDef ==
  ASSUME NEW r, RecordInOrder(r)
  PROVE  Text(r) = <<S, r.type>> \o HexDigits(Count(r), 2) \o HexDigits(r.address, AddressDigits(r.type))
                     \o HalvesOf(r.data, Len(r.data)) \o HexDigits(Checksum(r), 2) \o <<NewLine>>
<1>1. FlattenSeq([i \in 1 .. Len(r.data) |-> HexDigits(r.data[i], 2)]) = HalvesOf(r.data, Len(r.data))
  BY RecordType, BytesRead
<1> QED
  BY <1>1, Zenon DEF Text, Count, Checksum

\* The checksum is a byte.
LEMMA ChecksumType == ASSUME NEW r, RecordInOrder(r) PROVE Checksum(r) \in 0 .. 255
<1>1. r.data \in Seq(Nat) /\ Count(r) + r.address \in Nat
  <2>1. 0 .. 255 \subseteq Nat /\ r.data \in Seq(0 .. 255)
    BY RecordType
  <2>2. r.data \in Seq(Nat)
    BY <2>1, SequenceGrows
  <2> QED
    BY <2>2, RecordType DEF Count
<1> DEFINE sum == FoldLeft(+, Count(r) + r.address, r.data)
<1>2. sum \in Nat
  BY <1>1, SumIsNumber
<1> HIDE DEF sum
<1>3. 255 - (sum % 256) \in 0 .. 255
  BY <1>2
<1> QED
  BY <1>3 DEF Checksum, sum

\* The digits of the data.
LEMMA HalvesType ==
  ASSUME NEW d \in Seq(0 .. 255)
  PROVE  /\ HalvesOf(d, Len(d)) \in Seq(0 .. 15) /\ Len(HalvesOf(d, Len(d))) = 2 * Len(d)
         /\ \A k \in 1 .. 2 * Len(d) : HalvesOf(d, Len(d))[k] = Halves(d, k)
<1>1. ASSUME NEW k \in 1 .. 2 * Len(d) PROVE Halves(d, k) \in 0 .. 15
  <2>1. k % 2 = 1 => (k + 1) \div 2 \in 1 .. Len(d)
    OBVIOUS
  <2>2. k % 2 # 1 => k \div 2 \in 1 .. Len(d)
    OBVIOUS
  <2>3. \A b \in 0 .. 255 : b \div 16 \in 0 .. 15 /\ b % 16 \in 0 .. 15
    OBVIOUS
  <2>4. \A i \in 1 .. Len(d) : d[i] \in 0 .. 255
    BY ElementIn
  <2> QED
    BY <2>1, <2>2, <2>3, <2>4 DEF Halves
<1>2. Len(d) \in Nat
  OBVIOUS
<1> QED
  BY <1>1, <1>2 DEF HalvesOf

\* The characters of a record.
LEMMA TextRight ==
  ASSUME NEW r, RecordInOrder(r)
  PROVE  LET A == AddressDigits(r.type)
             L == Len(r.data)
         IN  /\ Len(Text(r)) = A + 2 * L + 7 /\ Text(r)[1] = S /\ Text(r)[2] = r.type
             /\ Text(r)[3] = Count(r) \div 16 /\ Text(r)[4] = Count(r) % 16
             /\ \A k \in 1 .. A : Text(r)[4 + k] = (r.address \div 16^(A - k)) % 16
             /\ \A k \in 1 .. 2 * L : Text(r)[4 + A + k] = Halves(r.data, k)
             /\ \A j \in 2 .. Len(Text(r)) : Text(r)[j] \in Characters \ {S}
<1> DEFINE A == AddressDigits(r.type)
           L == Len(r.data)
           C == Characters \ {S}
           p1 == <<S, r.type>>
           p2 == HexDigits(Count(r), 2)
           p3 == HexDigits(r.address, A)
           p4 == HalvesOf(r.data, L)
           p5 == HexDigits(Checksum(r), 2)
           p6 == <<NewLine>>
<1>1. Text(r) = p1 \o p2 \o p3 \o p4 \o p5 \o p6
  BY TextDef
<1>2. A \in 0 .. 8 /\ L \in Nat /\ Count(r) \in 0 .. 255 /\ r.type \in 0 .. 9 /\ r.address \in Nat
  BY RecordType DEF Count
<1>3. 0 .. 15 \subseteq C /\ C \subseteq Characters
  BY DEF Characters, S
<1>4. p1 \in Seq(Characters) /\ Len(p1) = 2 /\ p1[1] = S /\ p1[2] = r.type
  BY <1>2 DEF Characters, S
<1>5. /\ p2 \in Seq(0 .. 15) /\ Len(p2) = 2
      /\ p2[1] = Count(r) \div 16 /\ p2[2] = Count(r) % 16
  BY <1>2, HexTwo
<1>6. p3 \in Seq(0 .. 15) /\ Len(p3) = A /\ \A k \in 1 .. A : p3[k] = (r.address \div 16^(A - k)) % 16
  BY <1>2, DigitsType
<1>7. p4 \in Seq(0 .. 15) /\ Len(p4) = 2 * L /\ \A k \in 1 .. 2 * L : p4[k] = Halves(r.data, k)
  BY RecordType, HalvesType
<1>8. p5 \in Seq(0 .. 15) /\ Len(p5) = 2
  BY ChecksumType, HexTwo
<1>9. p6 \in Seq(C) /\ Len(p6) = 1
  BY DEF NewLine, Characters, S
<1> HIDE DEF p1, p2, p3, p4, p5, p6, A, L, C
<1>10. p2 \in Seq(C) /\ p3 \in Seq(C) /\ p4 \in Seq(C) /\ p5 \in Seq(C) /\ p6 \in Seq(C)
  BY <1>3, <1>5, <1>6, <1>7, <1>8, <1>9, SequenceGrows
<1> DEFINE q2 == p1 \o p2
           q3 == q2 \o p3
           q4 == q3 \o p4
           q5 == q4 \o p5
           q6 == q5 \o p6
<1>11. Begins(p1, 2)
  BY <1>2, <1>3, <1>4 DEF Begins, C
<1>13. Begins(q2, 4) /\ JoinOf(q2, p1, 2, p2, 2)
  <2>1. 2 + 2 = 4 /\ 2 \in Nat \ {0} /\ 2 \in Nat
    BY <1>2
  <2>2. Begins(p1, 2) /\ p2 \in Seq(Characters \ {S}) /\ Len(p2) = 2
    BY <1>5, <1>11, <1>10, Zenon DEF C
  <2>3. Begins(p1 \o p2, 2 + 2) /\ JoinOf(p1 \o p2, p1, 2, p2, 2)
    BY <2>1, <2>2, Appended
  <2> QED
    BY <2>1, <2>3, Zenon
<1>14. Begins(q3, 4 + A) /\ JoinOf(q3, q2, 4, p3, A)
  <2> HIDE DEF q2
  <2>1. 4 \in Nat \ {0} /\ A \in Nat
    BY <1>2
  <2>2. Begins(q2, 4) /\ p3 \in Seq(Characters \ {S}) /\ Len(p3) = A
    BY <1>6, <1>13, <1>10, Zenon DEF C
  <2>3. Begins(q2 \o p3, 4 + A) /\ JoinOf(q2 \o p3, q2, 4, p3, A)
    BY <2>1, <2>2, Appended
  <2> QED
    BY <2>1, <2>3, Zenon
<1>15. Begins(q4, 4 + A + 2 * L) /\ JoinOf(q4, q3, 4 + A, p4, 2 * L)
  <2> HIDE DEF q3
  <2>1. 4 + A \in Nat \ {0} /\ 2 * L \in Nat
    BY <1>2
  <2>2. Begins(q3, 4 + A) /\ p4 \in Seq(Characters \ {S}) /\ Len(p4) = 2 * L
    BY <1>7, <1>14, <1>10, Zenon DEF C
  <2>3. Begins(q3 \o p4, 4 + A + 2 * L) /\ JoinOf(q3 \o p4, q3, 4 + A, p4, 2 * L)
    BY <2>1, <2>2, Appended
  <2> QED
    BY <2>1, <2>3, Zenon
<1>16. Begins(q5, 4 + A + 2 * L + 2) /\ JoinOf(q5, q4, 4 + A + 2 * L, p5, 2)
  <2> HIDE DEF q4
  <2>1. 4 + A + 2 * L \in Nat \ {0} /\ 2 \in Nat
    BY <1>2
  <2>2. Begins(q4, 4 + A + 2 * L) /\ p5 \in Seq(Characters \ {S}) /\ Len(p5) = 2
    BY <1>8, <1>15, <1>10, Zenon DEF C
  <2>3. Begins(q4 \o p5, 4 + A + 2 * L + 2) /\ JoinOf(q4 \o p5, q4, 4 + A + 2 * L, p5, 2)
    BY <2>1, <2>2, Appended
  <2> QED
    BY <2>1, <2>3, Zenon
<1>17. Begins(q6, 4 + A + 2 * L + 2 + 1) /\ JoinOf(q6, q5, 4 + A + 2 * L + 2, p6, 1)
  <2> HIDE DEF q5
  <2>1. 4 + A + 2 * L + 2 \in Nat \ {0} /\ 1 \in Nat
    BY <1>2
  <2>2. Begins(q5, 4 + A + 2 * L + 2) /\ p6 \in Seq(Characters \ {S}) /\ Len(p6) = 1
    BY <1>9, <1>16, <1>10, Zenon DEF C
  <2>3. Begins(q5 \o p6, 4 + A + 2 * L + 2 + 1) /\ JoinOf(q5 \o p6, q5, 4 + A + 2 * L + 2, p6, 1)
    BY <2>1, <2>2, Appended
  <2> QED
    BY <2>1, <2>3, Zenon
<1>18. Text(r) = q6
  BY <1>1
<1> HIDE DEF q2, q3, q4, q5, q6
<1>19. Begins(Text(r), A + 2 * L + 7)
  <2>1. 4 + A + 2 * L + 2 + 1 = A + 2 * L + 7
    BY <1>2
  <2> QED
    BY <1>17, <1>18, <2>1
<1>20. \A i \in 1 .. 4 + A + 2 * L : Text(r)[i] = q4[i]
  BY <1>2, <1>16, <1>17, <1>18 DEF JoinOf
<1>21. \A i \in 1 .. 4 + A : Text(r)[i] = q3[i]
  BY <1>2, <1>15, <1>20 DEF JoinOf
<1>22. \A i \in 1 .. 4 : Text(r)[i] = q2[i]
  BY <1>2, <1>14, <1>21 DEF JoinOf
<1>23. Text(r)[1] = S /\ Text(r)[2] = r.type
  BY <1>4, <1>13, <1>22 DEF JoinOf
<1>24. Text(r)[3] = Count(r) \div 16 /\ Text(r)[4] = Count(r) % 16
  <2>1. q2[2 + 1] = p2[1] /\ q2[2 + 2] = p2[2]
    BY <1>13 DEF JoinOf
  <2> QED
    BY <1>5, <1>22, <2>1
<1>25. \A k \in 1 .. A : Text(r)[4 + k] = p3[k]
  BY <1>2, <1>14, <1>21 DEF JoinOf
<1>26. \A k \in 1 .. 2 * L : Text(r)[4 + A + k] = p4[k]
  BY <1>2, <1>15, <1>20 DEF JoinOf
<1> QED
  <2>1. Len(Text(r)) = A + 2 * L + 7 /\ \A j \in 2 .. Len(Text(r)) : Text(r)[j] \in C
    BY <1>19, Zenon DEF Begins, C
  <2>2. \A k \in 1 .. A : Text(r)[4 + k] = (r.address \div 16^(A - k)) % 16
    BY <1>6, <1>25
  <2>3. \A k \in 1 .. 2 * L : Text(r)[4 + A + k] = Halves(r.data, k)
    BY <1>7, <1>26
  <2> QED
    BY <1>23, <1>24, <2>1, <2>2, <2>3, Zenon DEF A, L, C

\* What rs232boot.c has read when the first characters of a record have arrived: S, and col more.
TypeSize(type) == 2 * ((IF type > 3 THEN 10 - type ELSE type) + 1)
HeadRead(r, col) ==
  /\ SREC.COLUMN = col
  /\ col = 0 => SREC.TYPE = 0
  /\ col >= 1 => SREC.TYPE = r.type /\ SREC.ADDRSIZE = TypeSize(r.type)
  /\ col <= 1 => SREC.BYTECOUNT = 0
  /\ col = 2 => SREC.BYTECOUNT = Count(r) \div 16
  /\ col >= 3 => SREC.BYTECOUNT = Count(r)
  /\ col <= 3 => SREC.ADDR = 0
AddressRead(r, col) ==
  r.type \in {1, 2, 3, 7, 8, 9} /\ col \in 3 .. AddressDigits(r.type) + 3 =>
    /\ SREC.ADDR = r.address \div 16^(AddressDigits(r.type) + 3 - col)
    /\ col > 3 => SREC.COUNTER = 1
Stored(r, n) == \A i \in 1 .. n : r.address + i - 1 \in DOMAIN ram /\ ram[r.address + i - 1] = r.data[i]
DataStored(r, d) ==
  IF d <= 2 * Len(r.data)
  THEN /\ SREC.ADDR = (r.address + d \div 2) % AddressRange
       /\ SREC.COUNTER = 1 - (d % 2)
       /\ d % 2 = 1 => SREC.TEMP % 16 = r.data[(d + 1) \div 2] \div 16
       /\ Stored(r, d \div 2)
  ELSE SREC.COUNTER = 1 /\ Stored(r, Len(r.data))
DataRead(r, col) ==
  r.type \in 1 .. 3 /\ col >= AddressDigits(r.type) + 3 => DataStored(r, col - AddressDigits(r.type) - 3)
StartRead(r, col) ==
  /\ booted <=> r.type >= 7 /\ col = AddressDigits(r.type) + 4
  /\ r.type >= 7 => col <= AddressDigits(r.type) + 4
  /\ r.type >= 7 /\ col = AddressDigits(r.type) + 4 => SREC.ADDR = r.address
Followed(r, col) == HeadRead(r, col) /\ AddressRead(r, col) /\ DataRead(r, col) /\ StartRead(r, col)

\* What a record stores is in its place.
Span(r) == IF r.type \in 1 .. 3 THEN r.address .. r.address + Len(r.data) - 1 ELSE {}
Grows(r) == DOMAIN ram \subseteq DOMAIN ram' /\ DOMAIN ram' \subseteq DOMAIN ram \cup Span(r)

\* Which case of HandleByte a column belongs to.
LEMMA HandledBy ==
  ASSUME SrecType, NEW c, c # S, HandleByte(c)
  PROVE  LET col == SREC.COLUMN IN
         /\ ~booted
         /\ col = 0 => SREC' = TypeColumn(col + 1, c) /\ UNCHANGED <<ram, booted>>
         /\ col \in 1 .. 2 => SREC' = CountColumn(col + 1, c) /\ UNCHANGED <<ram, booted>>
         /\ col >= 3 /\ col < SREC.ADDRSIZE + 3 => SREC' = AddressColumn(col + 1, c) /\ UNCHANGED <<ram, booted>>
         /\ col >= 3 /\ col >= SREC.ADDRSIZE + 3 /\ SREC.TYPE \in 1 .. 3 =>
              (IF InData(col + 1) THEN DataColumn(col + 1, c) ELSE TailColumn(col + 1)) /\ UNCHANGED booted
         /\ col >= 3 /\ col >= SREC.ADDRSIZE + 3 /\ SREC.TYPE \notin 1 .. 3 =>
              SREC' = [SREC EXCEPT !.COLUMN = col + 1] /\ booted' = (SREC.TYPE >= 7) /\ UNCHANGED ram
<1> DEFINE col == SREC.COLUMN
           H1 == SREC' = TypeColumn(col + 1, c) /\ UNCHANGED <<ram, booted>>
           H2 == SREC' = CountColumn(col + 1, c) /\ UNCHANGED <<ram, booted>>
           H3 == SREC' = AddressColumn(col + 1, c) /\ UNCHANGED <<ram, booted>>
           H4 == (IF InData(col + 1) THEN DataColumn(col + 1, c) ELSE TailColumn(col + 1)) /\ UNCHANGED booted
           H5 == /\ booted' = (SREC.TYPE >= 7)
                 /\ SREC' = [SREC EXCEPT !.COLUMN = col + 1]
                 /\ UNCHANGED ram
<1>1. /\ ~booted
      /\ IF col + 1 = 1 THEN H1 ELSE IF col + 1 <= 3 THEN H2 ELSE IF col + 1 <= SREC.ADDRSIZE + 3 THEN H3
         ELSE IF SREC.TYPE \in 1 .. 3 THEN H4 ELSE H5
  BY Zenon DEF HandleByte
<1>2. col \in Nat /\ SREC.ADDRSIZE \in Int
  BY DEF SrecType
<1>3. H5 => SREC' = [SREC EXCEPT !.COLUMN = col + 1] /\ booted' = (SREC.TYPE >= 7) /\ UNCHANGED ram
  OBVIOUS
<1> DEFINE size == SREC.ADDRSIZE
<1> HIDE DEF H1, H2, H3, H4, H5, col, size
<1>4. /\ col = 0 => col + 1 = 1
      /\ col \in 1 .. 2 => col + 1 # 1 /\ col + 1 <= 3
      /\ col >= 3 => col + 1 # 1 /\ ~(col + 1 <= 3)
      /\ col < size + 3 => col + 1 <= size + 3
      /\ col >= size + 3 => ~(col + 1 <= size + 3)
  BY <1>2 DEF size
<1>5. /\ ~booted
      /\ col = 0 => H1
      /\ col \in 1 .. 2 => H2
      /\ col >= 3 /\ col < size + 3 => H3
      /\ col >= 3 /\ col >= size + 3 /\ SREC.TYPE \in 1 .. 3 => H4
      /\ col >= 3 /\ col >= size + 3 /\ SREC.TYPE \notin 1 .. 3 => H5
  BY <1>1, <1>4, Zenon DEF size
<1> QED
  BY <1>3, <1>5, Zenon DEF H1, H2, H3, H4, col, size

\* The loader expects the digits that the record has.
LEMMA SizeIsDigits == \A type \in {1, 2, 3, 7, 8, 9} : TypeSize(type) = AddressDigits(type)
BY DEF TypeSize, AddressDigits

\* The type's character.
LEMMA TypeFollowed ==
  ASSUME SrecType, NEW r, RecordInOrder(r), Followed(r, 0), HandleByte(Text(r)[2])
  PROVE  Followed(r, 1)'
<1> DEFINE c == Text(r)[2]
<1>1. c = r.type /\ c \in 0 .. 9 /\ c # S /\ c # NewLine /\ AddressDigits(r.type) \in {4, 6, 8}
  BY TextRight, RecordType DEF S, NewLine
<1>2. SREC.COLUMN = 0 /\ SREC.TYPE = 0 /\ SREC.BYTECOUNT = 0 /\ SREC.ADDR = 0
  BY DEF Followed, HeadRead
<1>3. ~booted /\ SREC' = TypeColumn(1, c) /\ UNCHANGED <<ram, booted>>
  BY <1>1, <1>2, HandledBy
<1> HIDE DEF c
<1>4. DoDecode(SREC.TYPE, c) = r.type
  BY <1>1, <1>2 DEF DoDecode
<1>5. SREC' = [SREC EXCEPT !.COLUMN = 1, !.TYPE = r.type, !.ADDRSIZE = TypeSize(r.type)]
  BY <1>3, <1>4, Zenon DEF TypeColumn, TypeSize
<1>6. /\ SREC'.COLUMN = 1 /\ SREC'.TYPE = r.type /\ SREC'.ADDRSIZE = TypeSize(r.type)
      /\ SREC'.BYTECOUNT = 0 /\ SREC'.ADDR = 0
  BY <1>2, <1>5 DEF SrecType
<1>7. HeadRead(r, 1)'
  BY <1>6 DEF HeadRead
<1>8. AddressRead(r, 1)' /\ DataRead(r, 1)'
  BY <1>1 DEF AddressRead, DataRead
<1>9. StartRead(r, 1)'
  BY <1>1, <1>3 DEF StartRead
<1> QED
  BY <1>7, <1>8, <1>9 DEF Followed

\* The two characters of the byte count.
LEMMA CountFollowed ==
  ASSUME SrecType, NEW r, RecordInOrder(r), NEW col \in 1 .. 2, Followed(r, col), HandleByte(Text(r)[col + 2])
  PROVE  Followed(r, col + 1)'
<1> DEFINE c == Text(r)[col + 2]
           n == Count(r)
           A == AddressDigits(r.type)
<1>1. n \in 0 .. 255 /\ A \in {4, 6, 8} /\ r.address \in Nat
  BY RecordType DEF Count
<1>2. c = (IF col = 1 THEN n \div 16 ELSE n % 16)
  <2>1. CASE col = 1
    BY <2>1, TextRight
  <2>2. CASE col = 2
    BY <2>2, TextRight
  <2> QED
    BY <2>1, <2>2
<1>3. /\ SREC.COLUMN = col /\ SREC.TYPE = r.type /\ SREC.ADDRSIZE = TypeSize(r.type) /\ SREC.ADDR = 0
      /\ SREC.BYTECOUNT = IF col = 1 THEN 0 ELSE n \div 16
  BY DEF Followed, HeadRead
<1> HIDE DEF n, A, c
<1>4. c \in 0 .. 15 /\ c # S /\ c # NewLine
  BY <1>1, <1>2 DEF S, NewLine
<1>5. ~booted /\ SREC' = CountColumn(col + 1, c) /\ UNCHANGED <<ram, booted>>
  BY <1>3, <1>4, HandledBy DEF c
<1>6. DoDecode(SREC.BYTECOUNT, c) = IF col = 1 THEN n \div 16 ELSE n
  BY <1>1, <1>2, <1>3, <1>4 DEF DoDecode
<1>7. SREC' = [SREC EXCEPT !.COLUMN = col + 1, !.BYTECOUNT = DoDecode(SREC.BYTECOUNT, c)]
  BY <1>5, Zenon DEF CountColumn
<1>8. /\ SREC'.COLUMN = col + 1 /\ SREC'.TYPE = r.type /\ SREC'.ADDRSIZE = TypeSize(r.type) /\ SREC'.ADDR = 0
      /\ SREC'.BYTECOUNT = DoDecode(SREC.BYTECOUNT, c)
  BY <1>3, <1>7 DEF SrecType
<1>9. HeadRead(r, col + 1)'
  BY <1>6, <1>8 DEF HeadRead, n
<1>10. r.address \div 16^(A + 3 - 3) = 0
  <2>1. CASE A = 4
    <3>1. r.address \div 4096 < 16
      <4>1. r.address \div 16^(4 - 1) < 16
        BY <2>1 DEF RecordInOrder, A
      <4>2. 4 - 1 = 3
        OBVIOUS
      <4> QED
        BY <4>1, <4>2, Powers
    <3>2. r.address \div 65536 = 0
      BY <1>1, <3>1
    <3>3. 4 + 3 - 3 = 4
      OBVIOUS
    <3> QED
      BY <2>1, <3>2, <3>3, Powers
  <2>2. CASE A = 6
    <3>1. r.address \div 1048576 < 16
      <4>1. r.address \div 16^(6 - 1) < 16
        BY <2>2 DEF RecordInOrder, A
      <4>2. 6 - 1 = 5
        OBVIOUS
      <4> QED
        BY <4>1, <4>2, Powers
    <3>2. r.address \div 16777216 = 0
      BY <1>1, <3>1
    <3>3. 6 + 3 - 3 = 6
      OBVIOUS
    <3> QED
      BY <2>2, <3>2, <3>3, Powers
  <2>3. CASE A = 8
    <3>1. r.address \div 268435456 < 16
      <4>1. r.address \div 16^(8 - 1) < 16
        BY <2>3 DEF RecordInOrder, A
      <4>2. 8 - 1 = 7
        OBVIOUS
      <4> QED
        BY <4>1, <4>2, Powers
    <3>2. r.address \div 4294967296 = 0
      BY <1>1, <3>1
    <3>3. 8 + 3 - 3 = 8
      OBVIOUS
    <3> QED
      BY <2>3, <3>2, <3>3, Powers
  <2> QED
    BY <1>1, <2>1, <2>2, <2>3
<1>11. AddressRead(r, col + 1)'
  <2>1. CASE col = 1
    BY <2>1 DEF AddressRead
  <2>2. CASE col = 2
    <3>1. col + 1 = 3 /\ ~(3 > 3)
      BY <2>2
    <3> QED
      BY <1>8, <1>10, <3>1, Zenon DEF AddressRead, A
  <2> QED
    BY <2>1, <2>2
<1>12. DataRead(r, col + 1)'
  BY <1>1 DEF DataRead, A
<1>13. StartRead(r, col + 1)'
  BY <1>1, <1>5 DEF StartRead, A
<1> QED
  BY <1>9, <1>11, <1>12, <1>13 DEF Followed

\* A digit of the address joins the ones before it.
LEMMA DigitJoins ==
  ASSUME NEW n \in Nat, NEW p \in Nat \ {0}
  PROVE  16 * (n \div (16 * p)) + ((n \div p) % 16) = n \div p /\ n \div p <= n /\ n \div p \in Nat
<1> DEFINE q == n \div p
           m == n \div (16 * p)
<1>1. q \in Nat /\ q * p <= n /\ n < (q + 1) * p
  OBVIOUS
<1>2. 16 * p \in Nat \ {0}
  OBVIOUS
<1>3. m \in Nat /\ m * (16 * p) <= n /\ n < (m + 1) * (16 * p)
  BY <1>2
<1> HIDE DEF q, m
<1>4. m = q \div 16
  <2>1. 16 * m <= q
    <3>1. CASE q < 16 * m
      <4>1. q + 1 <= 16 * m
        BY <1>1, <1>3, <3>1
      <4>2. (q + 1) * p <= (16 * m) * p
        BY <1>1, <1>3, <4>1
      <4>3. (16 * m) * p = m * (16 * p)
        BY <1>3
      <4> QED
        BY <1>1, <1>3, <4>2, <4>3
    <3> QED
      BY <1>1, <1>3, <3>1
  <2>2. q < 16 * (m + 1)
    <3>1. CASE q >= 16 * (m + 1)
      <4>1. (16 * (m + 1)) * p <= q * p
        BY <1>1, <1>3, <3>1
      <4>2. (16 * (m + 1)) * p = (m + 1) * (16 * p)
        BY <1>3
      <4> QED
        BY <1>1, <1>3, <4>1, <4>2
    <3> QED
      BY <1>1, <1>3, <3>1
  <2> QED
    BY <1>1, <1>3, <2>1, <2>2
<1>5. 16 * m + (q % 16) = q
  BY <1>1, <1>4
<1>6. q <= n
  BY <1>1
<1> QED
  BY <1>1, <1>5, <1>6 DEF q, m

\* One digit more.
LEMMA NextPower == \A k \in 0 .. 7 : 16^(k + 1) = 16 * 16^k
<1> TAKE k \in 0 .. 7
<1>1. CASE k = 0
  BY <1>1, 0 + 1 = 1, Powers
<1>2. CASE k = 1
  BY <1>2, 1 + 1 = 2, Powers
<1>3. CASE k = 2
  BY <1>3, 2 + 1 = 3, Powers
<1>4. CASE k = 3
  BY <1>4, 3 + 1 = 4, Powers
<1>5. CASE k = 4
  BY <1>5, 4 + 1 = 5, Powers
<1>6. CASE k = 5
  BY <1>6, 5 + 1 = 6, Powers
<1>7. CASE k = 6
  BY <1>7, 6 + 1 = 7, Powers
<1>8. CASE k = 7
  BY <1>8, 7 + 1 = 8, Powers
<1> QED
  BY <1>1, <1>2, <1>3, <1>4, <1>5, <1>6, <1>7, <1>8

\* The address's characters.
LEMMA AddressFollowed ==
  ASSUME SrecType, BootAssumption, NEW r, RecordInOrder(r), NEW col \in Nat, col >= 3, col + 2 <= Len(Text(r)),
         col < SREC.ADDRSIZE + 3, Followed(r, col), HandleByte(Text(r)[col + 2])
  PROVE  Followed(r, col + 1)'
<1> DEFINE c == Text(r)[col + 2]
           A == AddressDigits(r.type)
           Given == r.type \in {1, 2, 3, 7, 8, 9}
<1>1. A \in {4, 6, 8} /\ r.address \in Nat /\ r.address < AddressRange /\ AddressRange \in Nat \ {0} /\ r.type \in 0 .. 9
  BY RecordType DEF RecordInOrder, BootAssumption
<1>2. c \in Characters /\ c # S
  BY TextRight
<1>3. /\ SREC.COLUMN = col /\ SREC.TYPE = r.type /\ SREC.ADDRSIZE = TypeSize(r.type)
      /\ SREC.BYTECOUNT = Count(r)
  BY DEF Followed, HeadRead
<1>4. Given => TypeSize(r.type) = A
  BY SizeIsDigits
<1>5. ~booted /\ SREC' = AddressColumn(col + 1, c) /\ UNCHANGED <<ram, booted>>
  BY <1>2, <1>3, HandledBy
<1> HIDE DEF c, A
<1>6. SREC' = [SREC EXCEPT !.COLUMN = col + 1, !.ADDR = DoDecode(SREC.ADDR, c) % AddressRange, !.COUNTER = 1]
  BY <1>5, Zenon DEF AddressColumn
<1>7. /\ SREC'.COLUMN = col + 1 /\ SREC'.TYPE = r.type /\ SREC'.ADDRSIZE = TypeSize(r.type)
      /\ SREC'.BYTECOUNT = Count(r) /\ SREC'.COUNTER = 1 /\ SREC'.ADDR = DoDecode(SREC.ADDR, c) % AddressRange
  BY <1>3, <1>6 DEF SrecType
<1>8. HeadRead(r, col + 1)'
  BY <1>7 DEF HeadRead
<1>9. ASSUME Given PROVE col + 1 <= A + 3 /\ SREC'.ADDR = r.address \div 16^(A + 3 - (col + 1))
  <2> DEFINE k == A + 3 - (col + 1)
             p == 16^k
  <2>1. col < A + 3
    BY <1>1, <1>3, <1>4, <1>9
  <2>2. k \in 0 .. 7 /\ A + 3 - col = k + 1
    BY <1>1, <2>1
  <2>3. SREC.ADDR = r.address \div 16^(k + 1)
    <3>1. col \in 3 .. A + 3
      BY <1>1, <2>1
    <3>2. SREC.ADDR = r.address \div 16^(A + 3 - col)
      BY <1>9, <3>1, Zenon DEF Followed, AddressRead, A
    <3> HIDE DEF k
    <3> QED
      BY <2>2, <3>2, Zenon
  <2>4. c = (r.address \div p) % 16
    <3>1. A - (col - 2) = k /\ col - 2 \in 1 .. A /\ 4 + (col - 2) = col + 2
      BY <1>1, <2>1
    <3>2. Text(r)[4 + (col - 2)] = (r.address \div 16^(A - (col - 2))) % 16
      BY <3>1, TextRight DEF A
    <3> HIDE DEF k
    <3> QED
      BY <3>1, <3>2, Zenon DEF c
  <2> HIDE DEF k
  <2>5. p \in Nat \ {0} /\ 16^(k + 1) = 16 * p
    BY <2>2, PowerType, NextPower
  <2> HIDE DEF p
  <2>6. /\ 16 * (r.address \div (16 * p)) + ((r.address \div p) % 16) = r.address \div p
        /\ r.address \div p <= r.address /\ r.address \div p \in Nat
    BY <1>1, <2>5, DigitJoins
  <2>7. c # NewLine
    <3> DEFINE q == r.address \div p
    <3> HIDE DEF q
    <3>1. q \in Nat => q % 16 # -2
      OBVIOUS
    <3> QED
      BY <2>4, <2>6, <3>1 DEF q, NewLine
  <2>8. DoDecode(SREC.ADDR, c) = 16 * SREC.ADDR + c
    BY <2>7 DEF DoDecode
  <2>9. 16 * SREC.ADDR + c = r.address \div p
    BY <2>3, <2>4, <2>5, <2>6, Zenon
  <2>10. (r.address \div p) % AddressRange = r.address \div p
    <3> DEFINE q == r.address \div p
    <3> HIDE DEF q
    <3>1. q \in Nat /\ q < AddressRange => q % AddressRange = q
      BY <1>1
    <3>2. q \in Nat /\ q < AddressRange
      BY <1>1, <2>6 DEF q
    <3> QED
      BY <3>1, <3>2 DEF q
  <2>11. SREC'.ADDR = r.address \div p
    BY <1>7, <2>8, <2>9, <2>10, Zenon
  <2> QED
    BY <1>1, <2>1, <2>11 DEF p, k
<1>10. AddressRead(r, col + 1)'
  BY <1>7, <1>9, Zenon DEF AddressRead, A
<1>11. ASSUME r.type \in 1 .. 3, col + 1 >= A + 3
       PROVE  DataStored(r, col + 1 - A - 3)'
  <2>1. Given /\ col + 1 = A + 3
    BY <1>1, <1>9, <1>11
  <2>2. SREC'.ADDR = r.address
    <3>1. A + 3 - (col + 1) = 0 /\ r.address \div 1 = r.address
      BY <1>1, <2>1
    <3>2. r.address \div 16^(A + 3 - (col + 1)) = r.address
      <4>1. 16^(A + 3 - (col + 1)) = 1
        <5> DEFINE e == A + 3 - (col + 1)
        <5>1. e = 0
          BY <3>1
        <5> HIDE DEF e
        <5>2. 16^e = 1
          BY <5>1, Powers
        <5> QED
          BY <5>2 DEF e
      <4> QED
        BY <3>1, <4>1, Zenon
    <3> QED
      BY <1>9, <2>1, <3>2
  <2>3. DataStored(r, 0)'
    <3>1. 0 <= 2 * Len(r.data) /\ 0 \div 2 = 0 /\ 0 % 2 = 0 /\ 1 - 0 = 1
      BY RecordType
    <3>2. (r.address + 0) % AddressRange = r.address
      BY <1>1
    <3>3. Stored(r, 0)'
      BY DEF Stored
    <3>4. SREC'.COUNTER = 1
      BY <1>7
    <3> QED
      BY <2>2, <3>1, <3>2, <3>3, <3>4 DEF DataStored
  <2>4. col + 1 - A - 3 = 0
    BY <1>1, <2>1
  <2> QED
    BY <2>3, <2>4, Zenon
<1>12. DataRead(r, col + 1)'
  <2>1. (col + 1) - A - 3 = col + 1 - A - 3
    BY <1>1
  <2>2. ASSUME r.type \in 1 .. 3, col + 1 >= A + 3 PROVE DataStored(r, (col + 1) - A - 3)'
    <3> DEFINE d == (col + 1) - A - 3
    <3> HIDE DEF d
    <3>1. d = col + 1 - A - 3
      BY <2>1 DEF d
    <3>2. DataStored(r, d)'
      BY <1>11, <2>2, <3>1
    <3> QED
      BY <3>2 DEF d
  <2> QED
    BY <2>2, Zenon DEF DataRead, A
<1>13. StartRead(r, col + 1)'
  <2>1. r.type >= 7 => Given
    BY <1>1
  <2>2. r.type >= 7 => col + 1 <= A + 3
    BY <1>9, <2>1
  <2>3. ~booted'
    BY <1>5
  <2> QED
    BY <1>1, <2>2, <2>3 DEF StartRead, A
<1> QED
  BY <1>8, <1>10, <1>12, <1>13 DEF Followed

\* Two digits make a byte.
LEMMA HalfBytes ==
  /\ \A t \in 0 .. 255, h \in 0 .. 15 : ((16 * t + h) % 256) % 16 = h
  /\ \A t \in 0 .. 255, b \in 0 .. 255 : t % 16 = b \div 16 => (16 * t + (b % 16)) % 256 = b
OBVIOUS

\* The place in the data: of the d-th character the byte and its half.
LEMMA Places ==
  ASSUME NEW d \in Nat
  PROVE  /\ d % 2 = 0 => (d + 1) % 2 = 1 /\ (d + 1) \div 2 = d \div 2 /\ (d + 2) \div 2 = d \div 2 + 1
         /\ d % 2 = 1 => (d + 1) % 2 = 0 /\ (d + 1) \div 2 = d \div 2 + 1
         /\ d \div 2 \in Nat /\ d % 2 \in {0, 1} /\ 2 * (d \div 2) <= d /\ d <= 2 * (d \div 2) + 1
OBVIOUS

\* A character of the data.
LEMMA DataFollowed ==
  ASSUME SrecType, BootAssumption, NEW r, RecordInOrder(r), r.type \in 1 .. 3,
         NEW d \in Nat, d < 2 * Len(r.data), Followed(r, AddressDigits(r.type) + 3 + d),
         HandleByte(Text(r)[AddressDigits(r.type) + 5 + d])
  PROVE  Followed(r, AddressDigits(r.type) + 4 + d)' /\ Grows(r)
<1> DEFINE A == AddressDigits(r.type)
           L == Len(r.data)
           col == A + 3 + d
           c == Text(r)[A + 5 + d]
           a == r.address
           i == d \div 2 + 1
<1>1. /\ A \in {4, 6, 8} /\ L \in Nat /\ a \in Nat /\ a + L <= AddressRange /\ AddressRange \in Nat \ {0}
      /\ Count(r) = A \div 2 + L + 1 /\ r.data \in Seq(0 .. 255) /\ r.type \in 0 .. 9
  BY RecordType DEF RecordInOrder, BootAssumption, Count
<1>0. d < 2 * L /\ r.type \in 1 .. 3 /\ a = r.address /\ A = AddressDigits(r.type) /\ L = Len(r.data)
  OBVIOUS
<1> HIDE DEF A, L, a
<1>19. A \in {4, 6, 8} /\ L \in Nat /\ a \in Nat /\ a + L <= AddressRange /\ AddressRange \in Nat \ {0} /\ d < 2 * L
  BY <1>0, <1>1, Zenon
<1>2. c = Halves(r.data, d + 1) /\ d + 1 \in 1 .. 2 * L
  <2>1. d + 1 \in 1 .. 2 * L /\ 4 + A + (d + 1) = A + 5 + d
    BY <1>19
  <2>2. Text(r)[4 + A + (d + 1)] = Halves(r.data, d + 1)
    BY <1>0, <2>1, TextRight
  <2>3. c = Text(r)[A + 5 + d]
    BY <1>0
  <2> HIDE DEF c
  <2> QED
    BY <2>1, <2>2, <2>3, Zenon
<1>3. TypeSize(r.type) = A
  BY <1>0, SizeIsDigits DEF A
<1>4. /\ SREC.COLUMN = col /\ SREC.TYPE = r.type /\ SREC.ADDRSIZE = A /\ SREC.BYTECOUNT = Count(r)
      /\ SREC.TEMP \in 0 .. 255
  <2>1. HeadRead(r, col)
    BY DEF Followed, A
  <2>2. col >= 3
    BY <1>1
  <2> HIDE DEF col
  <2> QED
    BY <1>1, <1>3, <2>1, <2>2 DEF HeadRead, SrecType
<1>5. DataStored(r, d)
  <2>1. col >= A + 3 /\ col - A - 3 = d
    BY <1>1
  <2>2. DataRead(r, col)
    BY DEF Followed, A
  <2>3. DataStored(r, col - A - 3)
    <3> HIDE DEF col
    <3> QED
      BY <1>0, <2>1, <2>2, Zenon DEF DataRead
  <2> HIDE DEF col
  <2> QED
    BY <2>1, <2>3, Zenon
<1>6. /\ SREC.ADDR = (a + d \div 2) % AddressRange /\ SREC.COUNTER = 1 - (d % 2)
      /\ d % 2 = 1 => SREC.TEMP % 16 = r.data[(d + 1) \div 2] \div 16
      /\ Stored(r, d \div 2)
  <2>1. d <= 2 * L
    BY <1>0, <1>1
  <2> QED
    BY <1>0, <1>5, <2>1, Zenon DEF DataStored
<1>7. i \in 1 .. L /\ r.data[i] \in 0 .. 255
  <2>1. i \in 1 .. L
    BY <1>19, Places
  <2> HIDE DEF i
  <2>2. i \in 1 .. Len(r.data)
    BY <1>0, <2>1, Zenon
  <2>3. r.data \in Seq(0 .. 255)
    BY <1>1, Zenon
  <2>4. r.data[i] \in 0 .. 255
    BY <2>2, <2>3, ElementIn, Zenon
  <2> QED
    BY <2>1, <2>4, Zenon
<1>18. /\ r.data[i] \div 16 \in 0 .. 15 /\ r.data[i] % 16 \in 0 .. 15
      /\ \A n \in 0 .. 15 : n # S /\ n # NewLine
  <2> DEFINE b == r.data[i]
  <2>1. b \in 0 .. 255
    BY <1>7
  <2> HIDE DEF b
  <2>2. b \div 16 \in 0 .. 15 /\ b % 16 \in 0 .. 15
    BY <2>1
  <2> QED
    BY <2>2 DEF b, S, NewLine
<1>8. c = (IF d % 2 = 0 THEN r.data[i] \div 16 ELSE r.data[i] % 16) /\ c \in 0 .. 15 /\ c # S /\ c # NewLine
  <2>1. CASE d % 2 = 0
    <3>1. (d + 1) % 2 = 1 /\ (d + 1 + 1) \div 2 = i
      BY <2>1, Places
    <3>2. Halves(r.data, d + 1) = r.data[i] \div 16
      BY <3>1 DEF Halves
    <3> HIDE DEF c, i
    <3> QED
      BY <1>2, <1>18, <2>1, <3>2
  <2>2. CASE d % 2 = 1
    <3>1. (d + 1) % 2 # 1 /\ (d + 1) \div 2 = i
      BY <2>2, Places
    <3>2. Halves(r.data, d + 1) = r.data[i] % 16
      BY <3>1 DEF Halves
    <3>3. d % 2 # 0
      BY <2>2
    <3> HIDE DEF c, i
    <3> QED
      BY <1>2, <1>18, <3>2, <3>3
  <2> QED
    BY <2>1, <2>2, Places
<1>9. InData(col + 1)
  <2>1. col + 1 <= 2 * (A \div 2 + L + 1) + 1
    BY <1>19
  <2> QED
    BY <1>1, <1>4, <2>1, Zenon DEF InData
<1>10. ~booted /\ DataColumn(col + 1, c) /\ UNCHANGED booted
  <2>1. HandleByte(c) /\ c # S /\ col >= 3 /\ col >= SREC.ADDRSIZE + 3
    <3>1. col >= 3 /\ col >= A + 3
      BY <1>1
    <3> HIDE DEF col
    <3>2. HandleByte(c)
      BY <1>0
    <3> QED
      BY <1>4, <1>8, <3>1, <3>2
  <2> HIDE DEF c, col
  <2>2. ~booted /\ (IF InData(col + 1) THEN DataColumn(col + 1, c) ELSE TailColumn(col + 1)) /\ UNCHANGED booted
    BY <1>0, <1>4, <2>1, HandledBy
  <2> QED
    BY <1>9, <2>2
<1> HIDE DEF c
<1>11. DoDecode(SREC.TEMP, c) = 16 * SREC.TEMP + c
  BY <1>8 DEF DoDecode
<1> HIDE DEF col
<1>12. /\ SREC'.COLUMN = col + 1 /\ SREC'.TYPE = r.type /\ SREC'.ADDRSIZE = A /\ SREC'.BYTECOUNT = Count(r)
       /\ DataStored(r, d + 1)' /\ Grows(r)
  <2>1. CASE d % 2 = 0
    <3>1. SREC.COUNTER = 1
      BY <1>6, <2>1
    <3>2. SREC' = [SREC EXCEPT !.COLUMN = col + 1, !.TEMP = (16 * SREC.TEMP + c) % 256, !.COUNTER = SREC.COUNTER - 1]
          /\ UNCHANGED ram
      <4>1. SREC.COUNTER # 0
        BY <3>1
      <4> QED
        BY <1>10, <1>11, <4>1, Zenon DEF DataColumn
    <3>3. /\ SREC'.COLUMN = col + 1 /\ SREC'.TYPE = r.type /\ SREC'.ADDRSIZE = A /\ SREC'.BYTECOUNT = Count(r)
          /\ SREC'.TEMP = (16 * SREC.TEMP + c) % 256 /\ SREC'.COUNTER = SREC.COUNTER - 1 /\ SREC'.ADDR = SREC.ADDR
      BY <1>4, <3>2 DEF SrecType
    <3>4. d + 1 <= 2 * L /\ (d + 1) \div 2 = d \div 2 /\ (d + 1) % 2 = 1 /\ (d + 1 + 1) \div 2 = i
      BY <1>19, <2>1, Places
    <3>5. SREC'.TEMP % 16 = r.data[i] \div 16
      <4> DEFINE t == SREC.TEMP
                 h == r.data[i] \div 16
      <4>1. t \in 0 .. 255 /\ h \in 0 .. 15 /\ c = h
        BY <1>4, <1>8, <1>18, <2>1
      <4> HIDE DEF t, h
      <4>2. ((16 * t + h) % 256) % 16 = h
        BY <4>1, HalfBytes
      <4> QED
        BY <3>3, <4>1, <4>2, Zenon DEF t, h
    <3>6. Stored(r, d \div 2)'
      BY <1>6, <3>2 DEF Stored
    <3>7. SREC'.COUNTER = 1 - 1
      BY <3>1, <3>3
    <3>8. DataStored(r, d + 1)'
      <4> DEFINE k == d + 1
      <4>1. k <= 2 * L /\ k \div 2 = d \div 2 /\ k % 2 = 1 /\ (k + 1) \div 2 = i
        BY <3>4
      <4> HIDE DEF k
      <4>2. DataStored(r, k)'
        <5>1. /\ SREC'.ADDR = (r.address + k \div 2) % AddressRange /\ SREC'.COUNTER = 1 - (k % 2)
              /\ SREC'.TEMP % 16 = r.data[(k + 1) \div 2] \div 16
          BY <1>0, <1>6, <3>3, <3>5, <3>7, <4>1, Zenon
        <5>2. Stored(r, k \div 2)'
          BY <3>6, <4>1, Zenon
        <5> QED
          BY <1>0, <4>1, <5>1, <5>2, Zenon DEF DataStored
      <4> QED
        BY <4>2 DEF k
    <3>9. Grows(r)
      BY <3>2 DEF Grows
    <3> QED
      BY <3>3, <3>8, <3>9
  <2>2. CASE d % 2 = 1
    <3>1. SREC.COUNTER = 0
      BY <1>6, <2>2
    <3>2. /\ Store(16 * SREC.TEMP + c)
          /\ SREC' = [SREC EXCEPT !.COLUMN = col + 1, !.TEMP = (16 * SREC.TEMP + c) % 256, !.COUNTER = 1,
                                  !.ADDR = (SREC.ADDR + 1) % AddressRange]
      BY <1>10, <1>11, <3>1, Zenon DEF DataColumn
    <3>3. /\ SREC'.COLUMN = col + 1 /\ SREC'.TYPE = r.type /\ SREC'.ADDRSIZE = A /\ SREC'.BYTECOUNT = Count(r)
          /\ SREC'.COUNTER = 1 /\ SREC'.ADDR = (SREC.ADDR + 1) % AddressRange
      BY <1>4, <3>2 DEF SrecType
    <3>4. d + 1 <= 2 * L /\ (d + 1) \div 2 = i /\ (d + 1) % 2 = 0 /\ d \div 2 = i - 1
      BY <1>19, <2>2, Places
    <3>5. SREC.ADDR = a + i - 1
      <4>1. a + d \div 2 = a + i - 1 /\ a + i - 1 \in 0 .. AddressRange - 1
        BY <1>1, <1>7, <3>4
      <4> DEFINE n == a + i - 1
      <4> HIDE DEF n
      <4>2. n \in 0 .. AddressRange - 1 => n % AddressRange = n
        <5> HIDE DEF i
        <5> QED
          BY <1>1
      <4> QED
        BY <1>6, <4>1, <4>2 DEF n
    <3>6. SREC'.ADDR = (a + i) % AddressRange
      <4>1. a + i - 1 + 1 = a + i
        BY <1>1, <1>7
      <4> HIDE DEF i
      <4> QED
        BY <3>3, <3>5, <4>1, Zenon
    <3>7. (16 * SREC.TEMP + c) % 256 = r.data[i]
      <4>1. SREC.TEMP % 16 = r.data[i] \div 16 /\ c = r.data[i] % 16
        BY <1>6, <1>8, <2>2, <3>4
      <4> QED
        BY <1>4, <1>7, <4>1, HalfBytes
    <3>8. ram' = [k \in DOMAIN ram \cup {a + i - 1} |-> IF k = a + i - 1 THEN r.data[i] ELSE ram[k]]
      BY <3>2, <3>5, <3>7, Zenon DEF Store
    <3>9. Stored(r, i)'
      <4>1. ASSUME NEW k \in 1 .. i PROVE a + k - 1 \in DOMAIN ram' /\ ram'[a + k - 1] = r.data[k]
        <5>1. CASE k = i
          BY <3>8, <5>1
        <5>2. CASE k # i
          <6>1. k \in 1 .. d \div 2 /\ a + k - 1 # a + i - 1
            BY <1>19, <1>7, <3>4, <5>2
          <6>2. a + k - 1 \in DOMAIN ram /\ ram[a + k - 1] = r.data[k]
            BY <1>0, <1>6, <6>1 DEF Stored
          <6> QED
            BY <3>8, <6>1, <6>2
        <5> QED
          BY <5>1, <5>2
      <4> QED
        BY <1>0, <4>1 DEF Stored
    <3>10. DataStored(r, d + 1)'
      <4> DEFINE k == d + 1
      <4>1. k <= 2 * L /\ k \div 2 = i /\ k % 2 = 0 /\ 1 - 0 = 1 /\ k % 2 # 1
        BY <3>4
      <4> HIDE DEF k, i
      <4>2. DataStored(r, k)'
        <5>1. SREC'.ADDR = (r.address + k \div 2) % AddressRange /\ SREC'.COUNTER = 1 - (k % 2)
          BY <1>0, <3>3, <3>6, <4>1, Zenon
        <5>2. Stored(r, k \div 2)'
          BY <3>9, <4>1, Zenon
        <5> QED
          BY <1>0, <4>1, <5>1, <5>2, Zenon DEF DataStored
      <4> QED
        BY <4>2 DEF k
    <3>11. Grows(r)
      <4>1. a + i - 1 \in a .. a + L - 1
        BY <1>7, <1>19
      <4>2. a + i - 1 \in Span(r)
        BY <1>0, <4>1, Zenon DEF Span
      <4>3. DOMAIN ram' = DOMAIN ram \cup {a + i - 1}
        BY <3>8
      <4> QED
        BY <4>2, <4>3 DEF Grows
    <3> QED
      BY <3>3, <3>10, <3>11
  <2> QED
    BY <2>1, <2>2, Places
<1>13. col + 1 = A + 4 + d /\ col + 1 >= A + 3 /\ (col + 1) - A - 3 = d + 1 /\ col + 1 > 3
  BY <1>1 DEF col
<1>14. HeadRead(r, A + 4 + d)'
  BY <1>1, <1>3, <1>12, <1>13 DEF HeadRead
<1>15. AddressRead(r, A + 4 + d)'
  BY <1>0, <1>1 DEF AddressRead
<1>16. DataRead(r, col + 1)'
  <2> DEFINE e == d + 1
  <2>1. DataStored(r, e)' /\ (col + 1) - A - 3 = e
    BY <1>12, <1>13
  <2> HIDE DEF e
  <2> QED
    BY <1>0, <2>1, Zenon DEF DataRead
<1>17. StartRead(r, A + 4 + d)'
  <2>1. ~(r.type >= 7) /\ ~booted'
    BY <1>0, <1>10
  <2> QED
    BY <2>1, Zenon DEF StartRead
<1> QED
  BY <1>12, <1>13, <1>14, <1>15, <1>16, <1>17, Zenon DEF Followed, A

\* What comes behind the data.
LEMMA TailFollowed ==
  ASSUME SrecType, NEW r, RecordInOrder(r), r.type \in 1 .. 3, NEW col \in Nat,
         col >= AddressDigits(r.type) + 3 + 2 * Len(r.data), col + 2 <= Len(Text(r)), Followed(r, col),
         HandleByte(Text(r)[col + 2])
  PROVE  Followed(r, col + 1)' /\ UNCHANGED ram
<1> DEFINE A == AddressDigits(r.type)
           L == Len(r.data)
           c == Text(r)[col + 2]
           d == col - A - 3
<1>1. A \in {4, 6, 8} /\ L \in Nat /\ Count(r) = A \div 2 + L + 1
  BY RecordType DEF Count
<1>2. c # S
  BY TextRight
<1>3. TypeSize(r.type) = A
  BY SizeIsDigits
<1>4. r.type \in 1 .. 3 /\ A = AddressDigits(r.type) /\ L = Len(r.data) /\ HandleByte(c) /\ col >= A + 3 + 2 * L
  OBVIOUS
<1> HIDE DEF A, L, c
<1>18. A \in {4, 6, 8} /\ L \in Nat /\ col >= A + 3 + 2 * L
  BY <1>1, <1>4, Zenon
<1>5. d \in Nat /\ col >= A + 3 /\ d >= 2 * L /\ col >= 3
  BY <1>18
<1>6. SREC.COLUMN = col /\ SREC.TYPE = r.type /\ SREC.ADDRSIZE = A /\ SREC.BYTECOUNT = Count(r)
  BY <1>3, <1>5 DEF Followed, HeadRead
<1>7. DataStored(r, d)
  BY <1>4, <1>5, Zenon DEF Followed, DataRead
<1>8. SREC.COUNTER = 1 /\ Stored(r, L)
  <2> HIDE DEF d
  <2>1. CASE d <= 2 * L
    <3>1. d \div 2 = L /\ 1 - (d % 2) = 1
      BY <1>1, <1>5, <2>1
    <3>2. SREC.COUNTER = 1 - (d % 2) /\ Stored(r, d \div 2)
      BY <1>4, <1>7, <2>1, Zenon DEF DataStored
    <3> QED
      BY <3>1, <3>2, Zenon
  <2>2. CASE ~(d <= 2 * L)
    BY <1>4, <1>7, <2>2, Zenon DEF DataStored
  <2> QED
    BY <2>1, <2>2
<1>9. ~InData(col + 1)
  <2>1. ~(col + 1 <= 2 * (A \div 2 + L + 1) + 1)
    BY <1>18
  <2> QED
    BY <1>1, <1>6, <2>1, Zenon DEF InData
<1>10. ~booted /\ TailColumn(col + 1) /\ UNCHANGED booted
  <2>1. ~booted /\ (IF InData(col + 1) THEN DataColumn(col + 1, c) ELSE TailColumn(col + 1)) /\ UNCHANGED booted
    BY <1>2, <1>4, <1>5, <1>6, HandledBy
  <2> QED
    BY <1>9, <2>1
<1>11. SREC' = [SREC EXCEPT !.COLUMN = col + 1] /\ UNCHANGED ram
  <2>1. SREC.COUNTER # 0
    BY <1>8
  <2> QED
    BY <1>10, <2>1, Zenon DEF TailColumn
<1>12. /\ SREC'.COLUMN = col + 1 /\ SREC'.TYPE = r.type /\ SREC'.ADDRSIZE = A /\ SREC'.BYTECOUNT = Count(r)
       /\ SREC'.COUNTER = 1
  BY <1>6, <1>8, <1>11 DEF SrecType
<1>13. Stored(r, L)'
  BY <1>8, <1>11 DEF Stored
<1>14. HeadRead(r, col + 1)'
  BY <1>3, <1>5, <1>12 DEF HeadRead
<1>15. AddressRead(r, col + 1)'
  <2>1. col + 1 \notin 3 .. A + 3
    BY <1>18
  <2> QED
    BY <1>4, <2>1, Zenon DEF AddressRead
<1>16. DataRead(r, col + 1)'
  <2> DEFINE e == (col + 1) - A - 3
  <2>1. ~(e <= 2 * L)
    BY <1>18
  <2> HIDE DEF e
  <2>2. DataStored(r, e)'
    BY <1>4, <1>12, <1>13, <2>1, Zenon DEF DataStored
  <2> QED
    BY <1>4, <2>2, Zenon DEF DataRead, e
<1>17. StartRead(r, col + 1)'
  <2>1. ~(r.type >= 7) /\ ~booted'
    BY <1>4, <1>10
  <2> QED
    BY <2>1, Zenon DEF StartRead
<1> QED
  BY <1>11, <1>14, <1>15, <1>16, <1>17 DEF Followed

\* Records without data to store: the program is started behind the address, or nothing happens.
LEMMA OtherFollowed ==
  ASSUME SrecType, NEW r, RecordInOrder(r), r.type \notin 1 .. 3, NEW col \in Nat, col >= 3,
         col >= SREC.ADDRSIZE + 3, col + 2 <= Len(Text(r)), Followed(r, col), HandleByte(Text(r)[col + 2])
  PROVE  Followed(r, col + 1)' /\ UNCHANGED ram
<1> DEFINE A == AddressDigits(r.type)
           c == Text(r)[col + 2]
<1>1. A \in {4, 6, 8} /\ r.type \in 0 .. 9 /\ r.address \in Nat
  BY RecordType
<1>2. c # S
  BY TextRight
<1>3. r.type \notin 1 .. 3 /\ A = AddressDigits(r.type) /\ HandleByte(c) /\ col >= SREC.ADDRSIZE + 3
  OBVIOUS
<1>4. r.type >= 7 => TypeSize(r.type) = A
  BY <1>1, SizeIsDigits
<1> HIDE DEF A, c
<1>5. SREC.COLUMN = col /\ SREC.TYPE = r.type /\ SREC.ADDRSIZE = TypeSize(r.type) /\ SREC.BYTECOUNT = Count(r)
  BY DEF Followed, HeadRead
<1>6. ~booted /\ SREC' = [SREC EXCEPT !.COLUMN = col + 1] /\ booted' = (r.type >= 7) /\ UNCHANGED ram
  BY <1>2, <1>3, <1>5, HandledBy
<1>7. /\ SREC'.COLUMN = col + 1 /\ SREC'.TYPE = r.type /\ SREC'.ADDRSIZE = TypeSize(r.type)
      /\ SREC'.BYTECOUNT = Count(r) /\ SREC'.ADDR = SREC.ADDR
  BY <1>5, <1>6 DEF SrecType
<1>8. ASSUME r.type >= 7 PROVE col = A + 3 /\ SREC.ADDR = r.address
  <2>1. col <= A + 4 /\ (booted <=> col = A + 4)
    BY <1>8, Zenon DEF Followed, StartRead, A
  <2>2. col = A + 3
    BY <1>1, <1>3, <1>4, <1>5, <1>6, <1>8, <2>1
  <2>3. r.type \in {1, 2, 3, 7, 8, 9} /\ col \in 3 .. A + 3
    BY <1>1, <1>8, <2>2
  <2>4. SREC.ADDR = r.address \div 16^(A + 3 - col)
    BY <2>3, Zenon DEF Followed, AddressRead, A
  <2>5. SREC.ADDR = r.address
    <3> DEFINE e == A + 3 - col
    <3>1. e = 0
      BY <1>1, <2>2
    <3> HIDE DEF e
    <3>2. 16^e = 1
      BY <3>1, Powers
    <3>3. r.address \div 1 = r.address
      BY <1>1
    <3> QED
      BY <2>4, <3>2, <3>3, Zenon DEF e
  <2> QED
    BY <2>2, <2>5
<1>9. HeadRead(r, col + 1)'
  BY <1>7 DEF HeadRead
<1>10. AddressRead(r, col + 1)'
  <2>1. r.type \in {1, 2, 3, 7, 8, 9} => col + 1 \notin 3 .. A + 3
    BY <1>1, <1>3, <1>8
  <2> QED
    BY <2>1, Zenon DEF AddressRead, A
<1>11. DataRead(r, col + 1)'
  BY <1>3, Zenon DEF DataRead
<1>12. StartRead(r, col + 1)'
  <2>1. CASE r.type >= 7
    <3>1. col + 1 = A + 4 /\ col + 1 <= A + 4 /\ SREC'.ADDR = r.address /\ booted'
      <4>1. booted'
        BY <1>6, <2>1, Zenon
      <4>2. col = A + 3 => col + 1 = A + 4 /\ col + 1 <= A + 4
        BY <1>1
      <4> QED
        BY <1>7, <1>8, <2>1, <4>1, <4>2, Zenon
    <3> QED
      BY <2>1, <3>1, Zenon DEF StartRead, A
  <2>2. CASE ~(r.type >= 7)
    <3>1. ~booted'
      BY <1>6, <2>2
    <3> QED
      BY <2>2, <3>1, Zenon DEF StartRead
  <2> QED
    BY <2>1, <2>2
<1> QED
  BY <1>6, <1>9, <1>10, <1>11, <1>12 DEF Followed

\* The next character of a record is read for what it is.
LEMMA CharacterFollowed ==
  ASSUME SrecType, BootAssumption, NEW r, RecordInOrder(r), NEW col \in Nat, col + 2 <= Len(Text(r)), Followed(r, col),
         HandleByte(Text(r)[col + 2])
  PROVE  Followed(r, col + 1)' /\ Grows(r)
<1> DEFINE A == AddressDigits(r.type)
           L == Len(r.data)
<1>1. A \in {4, 6, 8} /\ L \in Nat /\ r.type \in 0 .. 9
  BY RecordType
<1>7. UNCHANGED ram => Grows(r)
  BY DEF Grows
<1>8. SREC.COLUMN = col /\ Text(r)[col + 2] # S
  BY TextRight DEF Followed, HeadRead
<1>2. CASE col = 0
  <2>1. Followed(r, 0 + 1)'
    BY <1>2, TypeFollowed
  <2>2. UNCHANGED ram
    BY <1>2, <1>8, HandledBy
  <2> QED
    BY <1>2, <1>7, <2>1, <2>2, Zenon
<1>3. CASE col \in 1 .. 2
  <2>1. UNCHANGED ram
    BY <1>3, <1>8, HandledBy
  <2> QED
    BY <1>3, <1>7, <2>1, CountFollowed
<1>4. CASE col >= 3 /\ col < SREC.ADDRSIZE + 3
  <2>1. UNCHANGED ram
    BY <1>4, <1>8, HandledBy
  <2> QED
    BY <1>4, <1>7, <2>1, AddressFollowed
<1>5. CASE col >= 3 /\ col >= SREC.ADDRSIZE + 3 /\ r.type \in 1 .. 3
  <2>1. SREC.ADDRSIZE = A
    BY <1>5, SizeIsDigits DEF Followed, HeadRead
  <2>2. CASE col >= A + 3 + 2 * L
    BY <1>5, <1>7, <2>2, TailFollowed
  <2>3. CASE col < A + 3 + 2 * L
    <3> DEFINE d == col - A - 3
    <3>1. d \in Nat /\ d < 2 * L /\ A + 3 + d = col /\ A + 5 + d = col + 2 /\ A + 4 + d = col + 1
      <4>1. col < A + 3 + 2 * L /\ col >= A + 3 /\ A \in {4, 6, 8} /\ L \in Nat
        BY <1>1, <1>5, <2>1, <2>3, Zenon
      <4> HIDE DEF A, L
      <4> QED
        BY <4>1
    <3> HIDE DEF d
    <3>2. Followed(r, A + 3 + d) /\ HandleByte(Text(r)[A + 5 + d])
      BY <3>1, Zenon
    <3>3. Followed(r, A + 4 + d)' /\ Grows(r)
      BY <1>5, <3>1, <3>2, DataFollowed
    <3> QED
      BY <3>1, <3>3, Zenon
  <2> QED
    BY <1>1, <2>2, <2>3
<1>6. CASE col >= 3 /\ col >= SREC.ADDRSIZE + 3 /\ r.type \notin 1 .. 3
  BY <1>6, <1>7, OtherFollowed
<1> QED
  <2>1. SREC.ADDRSIZE \in Int
    BY DEF SrecType
  <2> QED
    BY <1>2, <1>3, <1>4, <1>5, <1>6, <2>1

\* Where the remote machine is; what the loader has made of the record at hand; and, with nothing lost,
\* what is in memory.
LineType == /\ sent \in [program : Programs, record : Nat, char : Nat]
            /\ sent.record \in 1 .. Len(sent.program) /\ sent.char \in 0 .. Len(Current)
RecordFollowed == sent.record \notin damaged /\ sent.char > 0 =>
                    \A r \in {Record}, n \in {sent.char - 1} : Followed(r, n)
NothingElse == \A a \in DOMAIN ram : \E i \in 1 .. sent.record : a \in Span(sent.program[i])
PassedStored == \A i \in 1 .. sent.record - 1 : Span(sent.program[i]) \subseteq DOMAIN ram
WholeSoFar == damaged = {} => (sent.char = 0 => ~booted) /\ NothingElse /\ PassedStored
LineInv == /\ SrecType
           /\ rom # "RS232" => ~booted
           /\ rom = "RS232" => LineType /\ RecordFollowed /\ WholeSoFar

\* A character below the digits comes out as a number like the others.
LEMMA Decoded == ASSUME NEW a \in Int, NEW c \in Characters PROVE DoDecode(a, c) \in Int
BY DEF DoDecode, Characters

\* The loader's variables.
SrecRecords == [COLUMN : Nat, ADDR : 0 .. AddressRange - 1, ADDRSIZE : Int, BYTECOUNT : Int, TYPE : Int,
                COUNTER : {0, 1}, TEMP : 0 .. 255]
\* They keep to their ranges when some are set.
LEMMA RecordsMade ==
  ASSUME NEW q \in SrecRecords, NEW n \in Nat
  PROVE  /\ \A type, size \in Int : [q EXCEPT !.COLUMN = n, !.TYPE = type, !.ADDRSIZE = size] \in SrecRecords
         /\ \A count \in Int : [q EXCEPT !.COLUMN = n, !.BYTECOUNT = count] \in SrecRecords
         /\ \A a \in 0 .. AddressRange - 1 : [q EXCEPT !.COLUMN = n, !.ADDR = a, !.COUNTER = 1] \in SrecRecords
         /\ \A a \in 0 .. AddressRange - 1, temp \in 0 .. 255 :
              [q EXCEPT !.COLUMN = n, !.TEMP = temp, !.COUNTER = 1, !.ADDR = a] \in SrecRecords
         /\ \A temp \in 0 .. 255, c \in {0, 1} : [q EXCEPT !.COLUMN = n, !.TEMP = temp, !.COUNTER = c] \in SrecRecords
         /\ \A temp \in 0 .. 255 : [q EXCEPT !.COLUMN = n, !.TEMP = temp] \in SrecRecords
         /\ [q EXCEPT !.COLUMN = n] \in SrecRecords
         /\ 0 \in 0 .. AddressRange - 1 => [q EXCEPT !.COLUMN = 0, !.ADDR = 0, !.BYTECOUNT = 0, !.TYPE = 0] \in SrecRecords
<1> DEFINE R == 0 .. AddressRange - 1
           D == 0 .. 255
           Records == [COLUMN : Nat, ADDR : R, ADDRSIZE : Int, BYTECOUNT : Int, TYPE : Int, COUNTER : {0, 1}, TEMP : D]
<1>1. SrecRecords = Records
  BY DEF SrecRecords
<1>2. q \in Records
  BY <1>1
<1> HIDE DEF R, D
<1>3. /\ \A type, size \in Int : [q EXCEPT !.COLUMN = n, !.TYPE = type, !.ADDRSIZE = size] \in Records
      /\ \A count \in Int : [q EXCEPT !.COLUMN = n, !.BYTECOUNT = count] \in Records
      /\ \A a \in R : [q EXCEPT !.COLUMN = n, !.ADDR = a, !.COUNTER = 1] \in Records
  BY <1>2
<1>4. /\ \A a \in R, temp \in D : [q EXCEPT !.COLUMN = n, !.TEMP = temp, !.COUNTER = 1, !.ADDR = a] \in Records
      /\ \A temp \in D, c \in {0, 1} : [q EXCEPT !.COLUMN = n, !.TEMP = temp, !.COUNTER = c] \in Records
      /\ \A temp \in D : [q EXCEPT !.COLUMN = n, !.TEMP = temp] \in Records
  BY <1>2
<1>5. [q EXCEPT !.COLUMN = n] \in Records
  BY <1>2
<1>6. ASSUME 0 \in R PROVE [q EXCEPT !.COLUMN = 0, !.ADDR = 0, !.BYTECOUNT = 0, !.TYPE = 0] \in Records
  <2>1. ASSUME NEW z \in R, z \in Nat, z \in Int
        PROVE  [q EXCEPT !.COLUMN = z, !.ADDR = z, !.BYTECOUNT = z, !.TYPE = z] \in Records
    BY <1>2, <2>1
  <2>2. 0 \in Nat /\ 0 \in Int
    OBVIOUS
  <2> HIDE DEF Records
  <2> QED
    BY <1>6, <2>1, <2>2, Zenon
<1> HIDE DEF Records
<1> QED
  BY <1>1, <1>3, <1>4, <1>5, <1>6, Zenon DEF R, D

\* Whatever arrives, the variables keep to their ranges.
LEMMA HandleTyped ==
  ASSUME SrecType, BootAssumption, NEW c \in Characters, HandleByte(c)
  PROVE  SrecType'
<1> DEFINE col == SREC.COLUMN
<1>1. SREC \in SrecRecords /\ booted \in BOOLEAN
  BY DEF SrecType, SrecRecords
<1>5. col \in Nat /\ SREC.ADDR \in 0 .. AddressRange - 1 /\ SREC.ADDRSIZE \in Int /\ SREC.BYTECOUNT \in Int
      /\ SREC.TYPE \in Int /\ SREC.COUNTER \in {0, 1} /\ SREC.TEMP \in 0 .. 255 /\ col + 1 \in Nat
  BY <1>1 DEF SrecRecords
<1>6. SREC' \in SrecRecords /\ booted' \in BOOLEAN => SrecType'
  BY Zenon DEF SrecType, SrecRecords
<1> HIDE DEF col
<1>2. AddressRange \in Nat \ {0}
  BY DEF BootAssumption
<1>3. CASE c = S
  <2>1. SREC' = NewRecord /\ booted' = booted
    BY <1>3 DEF HandleByte
  <2>2. SREC' \in SrecRecords
    <3>1. 0 \in 0 .. AddressRange - 1
      BY <1>2
    <3>2. 0 \in Nat /\ 0 \in Int /\ 0 \in 0 .. 255 /\ 0 \in {0, 1}
      OBVIOUS
    <3> QED
      BY <1>1, <2>1, <3>1, <3>2, RecordsMade, Zenon DEF NewRecord
  <2> QED
    BY <1>1, <2>1, <2>2, <1>6
<1>4. CASE c # S
  <2>1. /\ col = 0 => SREC' = TypeColumn(col + 1, c) /\ booted' = booted
        /\ col \in 1 .. 2 => SREC' = CountColumn(col + 1, c) /\ booted' = booted
        /\ col >= 3 /\ col < SREC.ADDRSIZE + 3 => SREC' = AddressColumn(col + 1, c) /\ booted' = booted
        /\ col >= 3 /\ col >= SREC.ADDRSIZE + 3 /\ SREC.TYPE \in 1 .. 3 =>
             (IF InData(col + 1) THEN DataColumn(col + 1, c) ELSE TailColumn(col + 1)) /\ booted' = booted
        /\ col >= 3 /\ col >= SREC.ADDRSIZE + 3 /\ SREC.TYPE \notin 1 .. 3 =>
             SREC' = [SREC EXCEPT !.COLUMN = col + 1] /\ booted' = (SREC.TYPE >= 7)
    BY <1>4, HandledBy, Zenon DEF col
  <2>2. CASE col = 0
    <3> DEFINE type == DoDecode(SREC.TYPE, c)
               size == 2 * ((IF type > 3 THEN 10 - type ELSE type) + 1)
    <3>1. type \in Int
      BY <1>5, Decoded
    <3>2. size \in Int
      BY <3>1
    <3>3. SREC' = [SREC EXCEPT !.COLUMN = col + 1, !.TYPE = type, !.ADDRSIZE = size]
      BY <2>1, <2>2 DEF TypeColumn
    <3> HIDE DEF type, size
    <3>4. SREC' \in SrecRecords
      BY <1>1, <1>5, <3>1, <3>2, <3>3, RecordsMade, Zenon
    <3> QED
      BY <1>1, <2>1, <2>2, <3>4, <1>6
  <2>3. CASE col \in 1 .. 2
    <3> DEFINE count == DoDecode(SREC.BYTECOUNT, c)
    <3>1. count \in Int
      BY <1>5, Decoded
    <3>2. SREC' = [SREC EXCEPT !.COLUMN = col + 1, !.BYTECOUNT = count]
      BY <2>1, <2>3 DEF CountColumn
    <3> HIDE DEF count
    <3>3. SREC' \in SrecRecords
      BY <1>1, <1>5, <3>1, <3>2, RecordsMade, Zenon
    <3> QED
      BY <1>1, <2>1, <2>3, <3>3, <1>6
  <2>4. CASE col >= 3 /\ col < SREC.ADDRSIZE + 3
    <3> DEFINE address == DoDecode(SREC.ADDR, c) % AddressRange
    <3>1. address \in 0 .. AddressRange - 1
      <4>1. DoDecode(SREC.ADDR, c) \in Int
        BY <1>5, Decoded
      <4> QED
        BY <1>2, <4>1
    <3>2. SREC' = [SREC EXCEPT !.COLUMN = col + 1, !.ADDR = address, !.COUNTER = 1]
      BY <2>1, <2>4 DEF AddressColumn
    <3> HIDE DEF address
    <3>3. SREC' \in SrecRecords
      BY <1>1, <1>5, <3>1, <3>2, RecordsMade, Zenon
    <3> QED
      BY <1>1, <2>1, <2>4, <3>3, <1>6
  <2>5. CASE col >= 3 /\ col >= SREC.ADDRSIZE + 3 /\ SREC.TYPE \in 1 .. 3
    <3>1. (IF InData(col + 1) THEN DataColumn(col + 1, c) ELSE TailColumn(col + 1)) /\ booted' = booted
      BY <2>1, <2>5
    <3>2. CASE InData(col + 1)
      <4> DEFINE temp == DoDecode(SREC.TEMP, c) % 256
                 next == (SREC.ADDR + 1) % AddressRange
      <4>1. temp \in 0 .. 255
        <5>1. DoDecode(SREC.TEMP, c) \in Int
          BY <1>5, Decoded
        <5> QED
          BY <5>1
      <4>2. next \in 0 .. AddressRange - 1
        BY <1>2, <1>5
      <4>3. IF SREC.COUNTER = 0
            THEN SREC' = [SREC EXCEPT !.COLUMN = col + 1, !.TEMP = temp, !.COUNTER = 1, !.ADDR = next]
            ELSE SREC' = [SREC EXCEPT !.COLUMN = col + 1, !.TEMP = temp, !.COUNTER = SREC.COUNTER - 1]
        BY <3>1, <3>2, Zenon DEF DataColumn
      <4>5. SREC.COUNTER # 0 => SREC.COUNTER - 1 \in {0, 1}
        BY <1>5
      <4> HIDE DEF temp, next
      <4>4. SREC' \in SrecRecords
        <5>1. [SREC EXCEPT !.COLUMN = col + 1, !.TEMP = temp, !.COUNTER = 1, !.ADDR = next] \in SrecRecords
          BY <1>1, <1>5, <4>1, <4>2, RecordsMade, Zenon
        <5>2. \A k \in {0, 1} : [SREC EXCEPT !.COLUMN = col + 1, !.TEMP = temp, !.COUNTER = k] \in SrecRecords
          BY <1>1, <1>5, <4>1, RecordsMade, Zenon
        <5> QED
          BY <4>3, <4>5, <5>1, <5>2, Zenon
      <4> QED
        BY <1>1, <3>1, <4>4, <1>6
    <3>3. CASE ~InData(col + 1)
      <4> DEFINE temp == (16 * SREC.TEMP) % 256
      <4>1. temp \in 0 .. 255
        BY <1>5
      <4>2. \/ SREC' = [SREC EXCEPT !.COLUMN = col + 1, !.TEMP = temp]
            \/ SREC' = [SREC EXCEPT !.COLUMN = col + 1]
        BY <3>1, <3>3, Zenon DEF TailColumn
      <4> HIDE DEF temp
      <4>3. SREC' \in SrecRecords
        <5>1. /\ [SREC EXCEPT !.COLUMN = col + 1, !.TEMP = temp] \in SrecRecords
              /\ [SREC EXCEPT !.COLUMN = col + 1] \in SrecRecords
          BY <1>1, <1>5, <4>1, RecordsMade
        <5> QED
          BY <4>2, <5>1, Zenon
      <4> QED
        BY <1>1, <3>1, <4>3, <1>6
    <3> QED
      BY <3>2, <3>3
  <2>6. CASE col >= 3 /\ col >= SREC.ADDRSIZE + 3 /\ SREC.TYPE \notin 1 .. 3
    <3>1. SREC' = [SREC EXCEPT !.COLUMN = col + 1] /\ booted' = (SREC.TYPE >= 7)
      BY <2>1, <2>6, Zenon
    <3>2. SREC' \in SrecRecords
      BY <1>1, <1>5, <3>1, RecordsMade, Zenon
    <3>3. booted' \in BOOLEAN
      <4> DEFINE high == SREC.TYPE >= 7
      <4>1. high \in BOOLEAN
        BY <1>5
      <4> QED
        BY <3>1, <4>1, Zenon
    <3> QED
      BY <1>6, <3>2, <3>3
  <2> QED
    BY <2>2, <2>3, <2>4, <2>5, <2>6, <1>5
<1> QED
  BY <1>3, <1>4

\* A record begins with S, wherever the one before has ended.
LEMMA StartFollowed ==
  ASSUME SrecType, NEW r, RecordInOrder(r), HandleByte(S)
  PROVE  Followed(r, 0)' /\ UNCHANGED ram
<1>1. ~booted /\ SREC' = NewRecord /\ UNCHANGED <<ram, booted>>
  BY DEF HandleByte
<1>2. SREC'.COLUMN = 0 /\ SREC'.TYPE = 0 /\ SREC'.BYTECOUNT = 0 /\ SREC'.ADDR = 0
  BY <1>1 DEF NewRecord, SrecType
<1>3. AddressDigits(r.type) \in {4, 6, 8}
  BY RecordType
<1>4. HeadRead(r, 0)'
  BY <1>2 DEF HeadRead
<1>5. AddressRead(r, 0)' /\ DataRead(r, 0)'
  BY <1>3 DEF AddressRead, DataRead
<1>6. StartRead(r, 0)'
  BY <1>1, <1>3 DEF StartRead
<1> QED
  BY <1>1, <1>4, <1>5, <1>6 DEF Followed

\* A record that has been read to its end is stored; one without data does not start the program there.
LEMMA EndFollowed ==
  ASSUME NEW r, RecordInOrder(r), Followed(r, Len(Text(r)) - 1)
  PROVE  /\ r.type \in 1 .. 3 => Stored(r, Len(r.data))
         /\ Span(r) \subseteq DOMAIN ram /\ ~booted
<1> DEFINE A == AddressDigits(r.type)
           L == Len(r.data)
           col == Len(Text(r)) - 1
<1>1. A \in {4, 6, 8} /\ L \in Nat /\ col = A + 2 * L + 6 /\ r.address \in Nat
  <2>1. A \in {4, 6, 8} /\ L \in Nat /\ r.address \in Nat /\ Len(Text(r)) = A + 2 * L + 7
    BY RecordType, TextRight
  <2> HIDE DEF A, L
  <2> QED
    BY <2>1
<1>2. HeadRead(r, col) /\ DataRead(r, col) /\ StartRead(r, col)
  BY DEF Followed
<1>3. A = AddressDigits(r.type) /\ L = Len(r.data)
  OBVIOUS
<1> HIDE DEF A, L, col
<1>4. /\ col >= A + 3 /\ col # A + 4 /\ ~((col - A) - 3 <= 2 * L)
  BY <1>1
<1>5. ~booted
  BY <1>2, <1>3, <1>4, Zenon DEF StartRead
<1>6. ASSUME r.type \in 1 .. 3 PROVE Stored(r, L)
  <2>1. DataStored(r, (col - A) - 3)
    BY <1>2, <1>3, <1>4, <1>6, Zenon DEF DataRead
  <2> QED
    BY <1>3, <1>4, <2>1, Zenon DEF DataStored
<1>7. ASSUME r.type \in 1 .. 3 PROVE r.address .. r.address + L - 1 \subseteq DOMAIN ram
  <2> SUFFICES ASSUME NEW a \in r.address .. r.address + L - 1 PROVE a \in DOMAIN ram
    OBVIOUS
  <2> DEFINE i == a - r.address + 1
  <2>1. i \in 1 .. L /\ r.address + i - 1 = a
    BY <1>1
  <2> HIDE DEF i
  <2>2. r.address + i - 1 \in DOMAIN ram
    BY <1>6, <1>7, <2>1, Zenon DEF Stored
  <2> QED
    BY <2>1, <2>2
<1>8. Span(r) \subseteq DOMAIN ram
  BY <1>3, <1>7, Zenon DEF Span
<1> QED
  BY <1>3, <1>5, <1>6, <1>8

\* Every record has a text.
LEMMA RecordAt ==
  ASSUME ProgramsInOrder, NEW p \in Programs, NEW i \in 1 .. Len(p)
  PROVE  RecordInOrder(p[i]) /\ Len(Text(p[i])) \in Nat \ {0, 1}
<1>1. RecordInOrder(p[i])
  BY DEF ProgramsInOrder
<1>2. PICK r : r = p[i]
  OBVIOUS
<1>3. AddressDigits(r.type) \in {4, 6, 8} /\ Len(r.data) \in Nat /\ Len(Text(r)) = AddressDigits(r.type) + 2 * Len(r.data) + 7
  BY <1>1, <1>2, RecordType, TextRight
<1> DEFINE A == AddressDigits(r.type)
           L == Len(r.data)
<1>4. A \in {4, 6, 8} /\ L \in Nat /\ Len(Text(r)) = A + 2 * L + 7
  BY <1>3
<1> HIDE DEF A, L
<1>5. A + 2 * L + 7 \in Nat \ {0, 1}
  BY <1>4
<1> QED
  BY <1>1, <1>2, <1>4, <1>5

\* The remote machine's place, in names of its own.
At(p, k, n, r) == /\ sent.program = p /\ sent.record = k /\ sent.char = n
                  /\ Record = r /\ Current = Text(r) /\ r = p[k]
                  /\ p \in Programs /\ k \in Nat /\ k \in 1 .. Len(p) /\ n \in Nat /\ n <= Len(Text(r))
\* There are such names.
LEMMA Place ==
  ASSUME ProgramsInOrder, LineType
  PROVE  \E p, k, n, r : At(p, k, n, r) /\ RecordInOrder(r) /\ Len(Text(r)) \in Nat \ {0, 1}
<1>1. PICK p, k, n : p = sent.program /\ k = sent.record /\ n = sent.char
  OBVIOUS
<1>2. p \in Programs /\ k \in Nat /\ n \in Nat /\ k \in 1 .. Len(p)
  BY <1>1 DEF LineType
<1>3. PICK r : r = p[k]
  OBVIOUS
<1>4. RecordInOrder(r) /\ Len(Text(r)) \in Nat \ {0, 1}
  BY <1>2, <1>3, RecordAt
<1>5. Record = r /\ Current = Text(r)
  BY <1>1, <1>3, Zenon DEF Record, Current
<1>6. n <= Len(Text(r))
  BY <1>1, <1>4, <1>5 DEF LineType
<1> QED
  BY <1>1, <1>2, <1>3, <1>4, <1>5, <1>6, Zenon DEF At

\* The next character is due.
LEMMA Advanced ==
  ASSUME LineType, NEW p, NEW k, NEW n, NEW r, At(p, k, n, r), Len(Text(r)) \in Nat, n < Len(Text(r)), Advance
  PROVE  At(p, k, n + 1, r)' /\ LineType'
<1>1. sent \in [program : Programs, record : Nat, char : Nat]
  BY DEF LineType
<1>2. sent' = [sent EXCEPT !.char = n + 1]
  BY Zenon DEF At, Advance
<1>3. n \in Nat /\ n + 1 \in Nat /\ n + 1 <= Len(Text(r)) /\ n + 1 \in 0 .. Len(Text(r))
  BY DEF At
<1>4. sent'.program = p /\ sent'.record = k /\ sent'.char = n + 1
  BY <1>1, <1>2 DEF At
<1>5. sent' \in [program : Programs, record : Nat, char : Nat]
  BY <1>1, <1>2, <1>3
<1>6. Record' = r /\ Current' = Text(r)
  BY <1>4, Zenon DEF Record, Current, At
<1>7. At(p, k, n + 1, r)'
  BY <1>3, <1>4, <1>6, Zenon DEF At
<1>8. LineType'
  BY <1>3, <1>4, <1>5, <1>6 DEF LineType, At
<1> QED
  BY <1>7, <1>8

\* What is in memory stays, and only what the record at hand stores is added.
LEMMA StoreGrows ==
  ASSUME NEW p, NEW k \in Nat, NEW r, k \in 1 .. Len(p), r = p[k], NothingElse, PassedStored, Grows(r),
         sent.program = p, sent.record = k, sent'.program = p, sent'.record = k
  PROVE  NothingElse' /\ PassedStored'
<1>1. ASSUME NEW a \in DOMAIN ram' PROVE \E i \in 1 .. k : a \in Span(p[i])
  <2>1. CASE a \in DOMAIN ram
    BY <2>1 DEF NothingElse
  <2>2. CASE a \in Span(r)
    <3>1. k \in 1 .. k
      OBVIOUS
    <3> QED
      BY <2>2, <3>1
  <2> QED
    BY <2>1, <2>2 DEF Grows
<1>2. ASSUME NEW i \in 1 .. k - 1 PROVE Span(p[i]) \subseteq DOMAIN ram'
  BY DEF PassedStored, Grows
<1>3. NothingElse'
  BY <1>1, Zenon DEF NothingElse
<1>4. PassedStored'
  BY <1>2, Zenon DEF PassedStored
<1> QED
  BY <1>3, <1>4

\* A character arrives as it was sent.
LEMMA ArrivesKeeps ==
  ASSUME ProgramsInOrder, BootAssumption, LineInv, rom = "RS232", Arrives, UNCHANGED rom
  PROVE  LineInv'
<1>1. SrecType /\ LineType /\ RecordFollowed /\ WholeSoFar
  BY DEF LineInv
<1>2. PICK p, k, n, r : At(p, k, n, r) /\ RecordInOrder(r) /\ Len(Text(r)) \in Nat \ {0, 1}
  BY <1>1, Place
<1>3. n < Len(Text(r)) /\ HandleByte(Text(r)[n + 1]) /\ Advance /\ damaged' = damaged
  BY <1>2, Zenon DEF Arrives, At
<1>4. At(p, k, n + 1, r)' /\ LineType'
  BY <1>1, <1>2, <1>3, Advanced
<1>5. n \in Nat /\ k \in Nat
  BY <1>2 DEF At
<1>6. Text(r)[n + 1] \in Characters
  <2>1. CASE n = 0
    BY <1>2, <2>1, TextRight DEF Characters, S
  <2>2. CASE n # 0
    <3>1. n + 1 \in 2 .. Len(Text(r))
      BY <1>2, <1>3, <1>5, <2>2
    <3> QED
      BY <1>2, <3>1, TextRight
  <2> QED
    BY <2>1, <2>2
<1>7. SrecType'
  BY <1>1, <1>3, <1>6, HandleTyped
<1>8. ASSUME k \notin damaged PROVE Followed(r, n)' /\ Grows(r)
  <2>1. CASE n = 0
    <3>1. HandleByte(S)
      <4>1. Text(r)[1] = S
        BY <1>2, TextRight
      <4>2. n + 1 = 1
        BY <2>1
      <4> QED
        BY <1>3, <4>1, <4>2, Zenon
    <3>2. Followed(r, 0)' /\ UNCHANGED ram
      BY <1>1, <1>2, <3>1, StartFollowed
    <3> QED
      BY <2>1, <3>2, Zenon DEF Grows
  <2>2. CASE n # 0
    <3>1. PICK col \in Nat : n = col + 1
      BY <1>5, <2>2
    <3>2. n > 0 /\ n - 1 = col /\ n + 1 = col + 2 /\ col + 2 <= Len(Text(r))
      BY <1>2, <1>3, <3>1
    <3>3. Followed(r, col)
      <4>1. sent.record = k /\ sent.char = n /\ Record = r
        BY <1>2 DEF At
      <4> QED
        BY <1>1, <1>8, <3>2, <4>1, Zenon DEF RecordFollowed
    <3>4. HandleByte(Text(r)[col + 2])
      BY <1>3, <3>2, Zenon
    <3>5. Followed(r, col + 1)' /\ Grows(r)
      BY <1>1, <1>2, <3>2, <3>3, <3>4, CharacterFollowed
    <3> QED
      BY <3>1, <3>5, Zenon
  <2> QED
    BY <2>1, <2>2
<1>9. sent'.program = p /\ sent'.record = k /\ sent'.char = n + 1 /\ Record' = r
  BY <1>4, Zenon DEF At
<1>10. sent'.char - 1 = n /\ sent'.char # 0
  BY <1>5, <1>9
<1>11. RecordFollowed'
  BY <1>3, <1>8, <1>9, <1>10, Zenon DEF RecordFollowed
<1>12. WholeSoFar'
  <2>1. ASSUME damaged = {} PROVE NothingElse' /\ PassedStored'
    <3>1. NothingElse /\ PassedStored /\ Grows(r)
      BY <1>1, <1>8, <2>1, Zenon DEF WholeSoFar
    <3>2. k \in 1 .. Len(p) /\ r = p[k] /\ sent.program = p /\ sent.record = k
      BY <1>2 DEF At
    <3> QED
      BY <1>5, <1>9, <3>1, <3>2, StoreGrows
  <2> QED
    BY <1>3, <1>10, <2>1, Zenon DEF WholeSoFar
<1> QED
  BY <1>4, <1>7, <1>11, <1>12, Zenon DEF LineInv

\* A character is lost, or another one arrives: nothing is said of this record any more.
LEMMA DamageKeeps ==
  ASSUME ProgramsInOrder, BootAssumption, LineInv, rom = "RS232", GetsLost \/ Changes, UNCHANGED rom
  PROVE  LineInv'
<1>1. SrecType /\ LineType
  BY DEF LineInv
<1>2. PICK p, k, n, r : At(p, k, n, r) /\ RecordInOrder(r) /\ Len(Text(r)) \in Nat \ {0, 1}
  BY <1>1, Place
<1>3. n < Len(Text(r)) /\ Advance /\ damaged' = damaged \cup {k}
  BY <1>2, Zenon DEF GetsLost, Changes, At
<1>4. At(p, k, n + 1, r)' /\ LineType'
  BY <1>1, <1>2, <1>3, Advanced
<1>5. SrecType'
  <2>1. CASE GetsLost
    BY <1>1, <2>1 DEF GetsLost, srecVars, SrecType
  <2>2. CASE Changes
    <3>1. PICK c \in Damage : HandleByte(c)
      BY <2>2, Zenon DEF Changes
    <3>2. c \in Characters
      BY DEF BootAssumption, Characters
    <3> QED
      BY <1>1, <3>1, <3>2, HandleTyped
  <2> QED
    BY <2>1, <2>2
<1>6. sent'.record \in damaged'
  BY <1>3, <1>4 DEF At
<1> QED
  BY <1>4, <1>5, <1>6, Zenon DEF LineInv, RecordFollowed, WholeSoFar

\* The next record is due when this one has been read to its end.
LEMMA NextRecordKeeps ==
  ASSUME ProgramsInOrder, LineInv, rom = "RS232", NextRecord, UNCHANGED rom
  PROVE  LineInv'
<1>1. SrecType /\ LineType /\ RecordFollowed /\ WholeSoFar
  BY DEF LineInv
<1>2. PICK p, k, n, r : At(p, k, n, r) /\ RecordInOrder(r) /\ Len(Text(r)) \in Nat \ {0, 1}
  BY <1>1, Place
<1>3. n = Len(Text(r)) /\ k < Len(p) /\ sent' = [sent EXCEPT !.record = k + 1, !.char = 0]
      /\ UNCHANGED <<SREC, ram, booted, damaged>>
  BY <1>2, Zenon DEF NextRecord, srecVars, At
<1>4. sent.program = p /\ sent.record = k /\ sent.char = n /\ Record = r /\ r = p[k] /\ p \in Programs
      /\ k \in 1 .. Len(p) /\ k \in Nat
  BY <1>2 DEF At
<1>5. sent \in [program : Programs, record : Nat, char : Nat]
  BY <1>1 DEF LineType
<1>6. sent'.program = p /\ sent'.record = k + 1 /\ sent'.char = 0
  BY <1>3, <1>4, <1>5
<1>7. k + 1 \in 1 .. Len(p)
  <2>1. Len(p) \in Nat
    BY <1>4 DEF ProgramsInOrder
  <2> QED
    BY <1>3, <1>4, <2>1
<1>8. LineType'
  <2>1. sent' \in [program : Programs, record : Nat, char : Nat]
    <3>1. k + 1 \in Nat /\ 0 \in Nat
      BY <1>4
    <3> QED
      BY <1>3, <1>5, <3>1
  <2>2. Current' = Text(p[k + 1])
    BY <1>6, Zenon DEF Current, Record
  <2>3. 0 \in 0 .. Len(Text(p[k + 1]))
    BY <1>4, <1>7, RecordAt
  <2> QED
    BY <1>6, <1>7, <2>1, <2>2, <2>3 DEF LineType
<1>9. SrecType'
  BY <1>1, <1>3 DEF SrecType
<1>10. RecordFollowed'
  BY <1>6 DEF RecordFollowed
<1>11. ASSUME damaged = {} PROVE ~booted' /\ NothingElse' /\ PassedStored'
  <2>1. NothingElse /\ PassedStored
    BY <1>1, <1>11, Zenon DEF WholeSoFar
  <2>2. Followed(r, Len(Text(r)) - 1)
    <3>1. sent.char > 0
      BY <1>2, <1>3, <1>4
    <3> QED
      BY <1>1, <1>3, <1>4, <1>11, <3>1 DEF RecordFollowed
  <2>3. Span(r) \subseteq DOMAIN ram /\ ~booted
    BY <1>2, <2>2, EndFollowed
  <2>4. NothingElse'
    <3>1. ASSUME NEW a \in DOMAIN ram PROVE \E i \in 1 .. k + 1 : a \in Span(p[i])
      <4>1. PICK i \in 1 .. k : a \in Span(p[i])
        BY <1>4, <2>1 DEF NothingElse
      <4>2. i \in 1 .. k + 1
        BY <1>4
      <4> QED
        BY <4>1, <4>2
    <3> QED
      BY <1>3, <1>6, <3>1, Zenon DEF NothingElse
  <2>5. PassedStored'
    <3>1. ASSUME NEW i \in 1 .. k PROVE Span(p[i]) \subseteq DOMAIN ram
      <4>1. CASE i = k
        BY <1>4, <2>3, <4>1
      <4>2. CASE i # k
        <5>1. i \in 1 .. k - 1
          BY <1>4, <4>2
        <5> QED
          BY <1>4, <2>1, <5>1 DEF PassedStored
      <4> QED
        BY <4>1, <4>2
    <3>2. (k + 1) - 1 = k
      BY <1>4
    <3> QED
      BY <1>3, <1>6, <3>1, <3>2, Zenon DEF PassedStored
  <2> QED
    BY <1>3, <2>3, <2>4, <2>5
<1>12. WholeSoFar'
  BY <1>3, <1>11, Zenon DEF WholeSoFar
<1> QED
  BY <1>8, <1>9, <1>10, <1>12, Zenon DEF LineInv

\* The loader starts with nothing stored, before the first record.
LEMMA LineInvStarts == ASSUME ProgramsInOrder, BootAssumption, Init PROVE LineInv
<1>1. SREC \in SrecStates /\ ram = << >> /\ booted = FALSE
  BY DEF Init, SrecInit
<1>2. sent \in [program : Programs, record : {1}, char : {0}] /\ damaged = {}
  BY DEF Init
<1>3. SrecType
  <2> DEFINE R == 0 .. AddressRange - 1
             D == 0 .. 255
  <2>1. 0 \in R /\ 0 \in D
    BY DEF BootAssumption
  <2> HIDE DEF R, D
  <2>2. SREC \in [COLUMN : Nat, ADDR : R, ADDRSIZE : Int, BYTECOUNT : Int, TYPE : Int, COUNTER : {0, 1}, TEMP : D]
    BY <1>1, <2>1 DEF SrecStates
  <2> QED
    BY <1>1, <2>2 DEF SrecType, R, D
<1>4. PICK p \in Programs : sent.program = p /\ sent.record = 1 /\ sent.char = 0
  BY <1>2
<1>5. 1 \in 1 .. Len(p) /\ 0 \in 0 .. Len(Text(p[1]))
  <2>1. 1 \in 1 .. Len(p)
    BY <1>4 DEF ProgramsInOrder
  <2> QED
    BY <2>1, RecordAt
<1>6. LineType
  <2>1. sent \in [program : Programs, record : Nat, char : Nat]
    BY <1>2
  <2>2. Current = Text(p[1])
    BY <1>4, Zenon DEF Current, Record
  <2> QED
    BY <1>4, <1>5, <2>1, <2>2 DEF LineType
<1>7. RecordFollowed
  BY <1>4 DEF RecordFollowed
<1>8. WholeSoFar
  <2>1. DOMAIN ram = {}
    BY <1>1
  <2>2. 1 .. 1 - 1 = {}
    OBVIOUS
  <2>3. PassedStored
    BY <1>4, <2>2 DEF PassedStored
  <2> QED
    BY <1>1, <2>1, <2>3, Zenon DEF WholeSoFar, NothingElse
<1> QED
  BY <1>1, <1>3, <1>6, <1>7, <1>8, Zenon DEF LineInv

\* The card's program touches nothing of it.
LEMMA LineInvStays == ASSUME LineInv, UNCHANGED <<rom, SREC, ram, booted, sent, damaged>> PROVE LineInv'
<1>1. SrecType'
  BY DEF LineInv, SrecType
<1>2. LineType => LineType'
  BY Zenon DEF LineType, Current, Record
<1>3. ASSUME NEW r, NEW n, Followed(r, n) PROVE Followed(r, n)'
  BY <1>3 DEF Followed, HeadRead, AddressRead, DataRead, DataStored, Stored, StartRead
<1>4. RecordFollowed => RecordFollowed'
  BY <1>3, Zenon DEF RecordFollowed, Record
<1>5. WholeSoFar => WholeSoFar'
  BY Zenon DEF WholeSoFar, NothingElse, PassedStored
<1> QED
  BY <1>1, <1>2, <1>4, <1>5, Zenon DEF LineInv

\* Every step keeps to the record.
LEMMA LineInvStep == ASSUME ProgramsInOrder, BootAssumption, LineInv, [Next]_vars PROVE LineInv'
<1>1. CASE UNCHANGED vars
  BY <1>1, LineInvStays DEF vars, srecVars, lineVars
<1>2. CASE SdBoot /\ UNCHANGED rom
  BY <1>2, LineInvStays, Zenon DEF SdBoot, srecVars, lineVars
<1>3. CASE SerialBoot /\ UNCHANGED rom
  <2>1. rom = "RS232" /\ (NextRecord \/ Arrives \/ GetsLost \/ Changes)
    BY <1>3, Zenon DEF SerialBoot
  <2> QED
    BY <1>3, <2>1, NextRecordKeeps, ArrivesKeeps, DamageKeeps
<1> QED
  BY <1>1, <1>2, <1>3 DEF Next

\* What the invariant says when a record has ended, and when the program is started.
LEMMA LineInvSuffices == ASSUME ProgramsInOrder, LineInv PROVE RecordsLoaded
<1>1. SrecType
  BY DEF LineInv
<1>2. ASSUME rom = "RS232" PROVE RecordStored /\ StartedComplete
  <2>1. LineType /\ RecordFollowed /\ WholeSoFar
    BY <1>2 DEF LineInv
  <2>2. PICK p, k, n, r : At(p, k, n, r) /\ RecordInOrder(r) /\ Len(Text(r)) \in Nat \ {0, 1}
    BY <2>1, Place
  <2>3. sent.program = p /\ sent.record = k /\ sent.char = n /\ Record = r /\ Current = Text(r) /\ r = p[k] /\ k \in Nat
        /\ n \in Nat
    BY <2>2 DEF At
  <2>4. ASSUME n = Len(Text(r)), k \notin damaged, r.type \in 1 .. 3 PROVE Stored(r, Len(r.data))
    <3>1. Followed(r, Len(Text(r)) - 1)
      <4>1. n > 0
        BY <2>2, <2>4
      <4> QED
        BY <2>1, <2>3, <2>4, <4>1 DEF RecordFollowed
    <3> QED
      BY <2>2, <2>4, <3>1, EndFollowed
  <2>5. RecordStored
    BY <1>1, <2>3, <2>4, Zenon DEF RecordStored, Stored
  <2>6. ASSUME booted, damaged = {}
        PROVE  /\ r.type >= 7 /\ SREC.ADDR = r.address
               /\ \A a \in DOMAIN ram : \E i \in 1 .. k : p[i].type \in 1 .. 3 /\ a \in p[i].address .. p[i].address + Len(p[i].data) - 1
               /\ \A i \in 1 .. k : p[i].type \in 1 .. 3 =>
                    \A j \in 1 .. Len(p[i].data) : p[i].address + j - 1 \in DOMAIN ram
    <3>1. n # 0 /\ NothingElse /\ PassedStored
      BY <2>1, <2>3, <2>6, Zenon DEF WholeSoFar
    <3>2. Followed(r, n - 1)
      <4>1. n > 0
        BY <2>3, <3>1
      <4> QED
        BY <2>1, <2>3, <2>6, <4>1 DEF RecordFollowed
    <3>3. r.type >= 7 /\ SREC.ADDR = r.address
      BY <2>6, <3>2, Zenon DEF Followed, StartRead
    <3>4. ASSUME NEW a \in DOMAIN ram
          PROVE  \E i \in 1 .. k : p[i].type \in 1 .. 3 /\ a \in p[i].address .. p[i].address + Len(p[i].data) - 1
      <4>1. PICK i \in 1 .. k : a \in Span(p[i])
        BY <2>3, <3>1 DEF NothingElse
      <4> QED
        BY <4>1 DEF Span
    <3>5. ASSUME NEW i \in 1 .. k, p[i].type \in 1 .. 3, NEW j \in 1 .. Len(p[i].data)
          PROVE  p[i].address + j - 1 \in DOMAIN ram
      <4>1. i # k
        BY <2>3, <3>3, <3>5
      <4>2. i \in 1 .. k - 1
        BY <2>3, <4>1
      <4>3. Span(p[i]) \subseteq DOMAIN ram
        BY <2>3, <3>1, <4>2 DEF PassedStored
      <4>4. p[i].address + j - 1 \in p[i].address .. p[i].address + Len(p[i].data) - 1
        <5>1. i \in 1 .. Len(p) /\ p \in Programs
          <6>1. k \in 1 .. Len(p) /\ p \in Programs
            BY <2>2 DEF At
          <6>2. Len(p) \in Nat
            BY <6>1 DEF ProgramsInOrder
          <6> QED
            BY <6>1, <6>2
        <5>2. RecordInOrder(p[i])
          BY <5>1, RecordAt
        <5> DEFINE a == p[i].address
                   l == Len(p[i].data)
        <5>3. a \in Nat /\ l \in Nat /\ j \in 1 .. l
          BY <5>2 DEF RecordInOrder
        <5> HIDE DEF a, l
        <5>4. a + j - 1 \in a .. a + l - 1
          BY <5>3
        <5> QED
          BY <5>4 DEF a, l
      <4> QED
        BY <3>5, <4>3, <4>4, Zenon DEF Span
    <3> QED
      BY <3>3, <3>4, <3>5
  <2>7. StartedComplete
    BY <2>3, <2>6, Zenon DEF StartedComplete
  <2> QED
    BY <2>5, <2>7
<1>3. ASSUME rom # "RS232" PROVE RecordStored /\ StartedComplete
  BY <1>1, <1>3, Zenon DEF LineInv, RecordStored, StartedComplete
<1> QED
  BY <1>2, <1>3 DEF RecordsLoaded

\* rs232boot.c: a record that arrives as sent is stored as it says, whatever was lost before it; a program
\* that arrives whole is started when all of it, and nothing else, is in memory.
THEOREM RecordsAlwaysLoaded ==
  ASSUME ProgramsInOrder
  PROVE  Spec => []RecordsLoaded
<1>1. Init => LineInv
  BY BootAssumption, LineInvStarts
<1>2. LineInv /\ [Next]_vars => LineInv'
  BY BootAssumption, LineInvStep
<1>3. LineInv => RecordsLoaded
  BY LineInvSuffices
<1> QED
  BY <1>1, <1>2, <1>3, PTL DEF Spec
=============================================================================
