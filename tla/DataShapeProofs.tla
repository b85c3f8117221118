--------------------------- MODULE DataShapeProofs ---------------------------
(***************************************************************************)
(* Theorems about DataShape, for every width of usize, every port count    *)
(* and every length of a data set.                                         *)
(***************************************************************************)
EXTENDS MCDataShape, TLAPS

(* Of two naturals the smaller has the smaller square.                       *)
LEMMA SquaresGrow ==
    ASSUME NEW a \in Nat, NEW b \in Nat, a < b
    PROVE  a * a < b * b
<1>1. a * a <= a * b
  OBVIOUS
<1>2. a * b < b * b
  OBVIOUS
<1>. QED
  BY <1>1, <1>2

(* A square has one root.                                                    *)
LEMMA RootsAreUnique ==
    ASSUME NEW a \in Nat, NEW b \in Nat, a * a = b * b
    PROVE  a = b
<1>1. ~(a < b)
  BY SquaresGrow
<1>2. ~(b < a)
  BY SquaresGrow
<1>. QED
  BY <1>1, <1>2

(* What values_per_point answers: the exact size or, if that does not fit in *)
(* a usize, None; never a wrapped size.                                      *)
LEMMA SizeOrNone ==
    ASSUME NEW n \in Nat
    PROVE  /\ ValuesPerPoint(n) = None <=> n = 0 \/ 2 * n * n + 1 > MaxUsize
           /\ ValuesPerPoint(n) # None =>
                 /\ n > 0
                 /\ ValuesPerPoint(n) = 2 * n * n + 1
                 /\ ValuesPerPoint(n) \in 0..MaxUsize
<1>1. PICK q \in Nat : q = n * n
  OBVIOUS
<1>2. n * n * 2 + 1 = 2 * n * n + 1 /\ 2 * n * n + 1 = 2 * q + 1 /\ n * n * 2 = 2 * q
  BY <1>1
<1>. QED
  BY <1>1, <1>2, MaxUsizeAssumption DEF ValuesPerPoint, Fits, None

(* The states of the run are the naturals.                                   *)
LEMMA AsksNaturals == Spec => [](k \in Nat)
<1>1. Init => k \in Nat
  BY DEF Init
<1>2. k \in Nat /\ [Next]_k => (k \in Nat)'
  BY DEF Next
<1>. QED
  BY <1>1, <1>2, PTL DEF Spec

(* values_per_point gives a port count its exact size or None, whatever the  *)
(* width of usize.                                                           *)
THEOREM EverySizeIsExact == Spec => []SizesAreExact
<1>1. k \in Nat => SizesAreExact
  BY SizeOrNone DEF SizesAreExact
<1>. QED
  BY <1>1, AsksNaturals, PTL

(* nports_from_data_set inverts values_per_point: it finds the one port      *)
(* count with sets of that length, and None if there is none.                *)
THEOREM EveryLengthNamesPorts == Spec => []LengthNamesPorts
<1>1. ASSUME k \in Nat, k <= MaxUsize
      PROVE  {NportsFromDataSet(k)} \ {None} = {n \in 1..k : ValuesPerPoint(n) = k}
  <2> DEFINE half == (k - 1) \div 2
             Root(n) == n \in 1..half /\ n * n = half
             found == NportsFromDataSet(k)
  <2>1. ASSUME NEW n \in Nat, n > 0, 2 * n * n + 1 = k
        PROVE  k >= 3 /\ Odd(k) /\ Root(n)
    <3>1. PICK q \in Nat : q = n * n
      OBVIOUS
    <3>2. n <= q /\ k = 2 * q + 1 /\ q > 0
      BY <2>1, <3>1
    <3>3. half = q /\ k >= 3 /\ k % 2 = 1
      BY <3>2
    <3>. QED
      BY <2>1, <3>1, <3>2, <3>3 DEF Odd
  <2>2. ASSUME NEW n, k >= 3, Odd(k), Root(n)
        PROVE  n \in 1..k /\ ValuesPerPoint(n) = k
    <3>1. half \in Nat /\ half <= k /\ k = 2 * half + 1
      BY <1>1, <2>2 DEF Odd
    <3>2. n \in Nat /\ n > 0 /\ n <= half /\ n * n = half
      BY <2>2, <3>1
    <3>3. 2 * n * n = 2 * (n * n)
      BY <3>2
    <3>4. 2 * n * n + 1 = k
      BY <3>1, <3>2, <3>3
    <3>5. ~(n = 0 \/ 2 * n * n + 1 > MaxUsize)
      <4> HIDE DEF half
      <4>. QED
        BY <1>1, <3>2, <3>4, MaxUsizeAssumption
    <3>6. ValuesPerPoint(n) # None
      BY <3>2, <3>5, SizeOrNone
    <3>7. ValuesPerPoint(n) = k
      BY <3>2, <3>4, <3>6, SizeOrNone
    <3>. QED
      BY <1>1, <3>1, <3>2, <3>7
  <2>3. ASSUME found # None
        PROVE  k >= 3 /\ Odd(k) /\ Root(found)
    BY <2>3 DEF NportsFromDataSet
  <2>4. ASSUME NEW n, k >= 3, Odd(k), Root(n)
        PROVE  found = n
    <3>1. Root(found)
      BY <2>4 DEF NportsFromDataSet
    <3>2. n \in Nat /\ found \in Nat /\ n * n = found * found
      BY <2>4, <3>1
    <3>. QED
      BY <3>2, RootsAreUnique
  <2>5. ASSUME NEW n \in 1..k, ValuesPerPoint(n) = k
        PROVE  n = found /\ n # None
    <3>1. n \in Nat /\ n > 0 /\ 2 * n * n + 1 = k
      BY <1>1, <2>5, SizeOrNone DEF None
    <3>. QED
      BY <3>1, <2>1, <2>4 DEF None
  <2>6. found # None => found \in 1..k /\ ValuesPerPoint(found) = k
    BY <2>2, <2>3
  <2>. QED
    BY <2>5, <2>6
<1>2. k \in Nat => LengthNamesPorts
  BY <1>1 DEF LengthNamesPorts
<1>. QED
  BY <1>2, AsksNaturals, PTL

(* A triangular 2.0 point is shorter than the Full point whose size was      *)
(* checked, longer than the matrix it fills, and has an odd length.          *)
THEOREM EveryTriangleFits == Spec => []TrianglesFit
<1>1. ASSUME k \in Nat, ValuesPerPoint(k) # None
      PROVE  /\ TriangleValues(k) <= ValuesPerPoint(k)
             /\ k * k < TriangleValues(k)
             /\ TriangleValues(k) = 2 * Triangle(k) + 1
  <2>1. PICK q \in Nat : q = k * k
    BY <1>1
  <2>2. k \in Nat /\ k > 0 /\ k <= q /\ 2 * k * k = 2 * q
    BY <1>1, <2>1, SizeOrNone
  <2>3. (q + k) % 2 = 0
    <3>1. CASE k % 2 = 0
      <4>1. PICK h \in Nat : k = 2 * h
        BY <2>2, <3>1
      <4>2. q + k = 2 * (h * k + h)
        BY <2>1, <4>1
      <4>3. h * k + h \in Nat
        BY <2>2
      <4>. QED
        BY <4>2, <4>3
    <3>2. CASE k % 2 = 1
      <4>1. PICK h \in Nat : k = 2 * h + 1
        BY <2>2, <3>2
      <4>2. q + k = 2 * ((h + 1) * k)
        BY <2>1, <4>1
      <4>3. (h + 1) * k \in Nat
        BY <2>2
      <4>. QED
        BY <4>2, <4>3
    <3>. QED
      BY <2>2, <3>1, <3>2
  <2>4. k * (k + 1) = q + k
    BY <2>1, <2>2
  <2>5. 2 * Triangle(k) = q + k
    BY <2>2, <2>3, <2>4 DEF Triangle
  <2>6. ValuesPerPoint(k) = 2 * q + 1
    BY <1>1, <2>2, SizeOrNone
  <2>7. TriangleValues(k) = q + k + 1
    BY <2>1 DEF TriangleValues
  <2>8. Triangle(k) \in Int
    BY <2>2 DEF Triangle
  <2>. QED
    BY <2>1, <2>2, <2>5, <2>6, <2>7, <2>8
<1>2. k \in Nat => TrianglesFit
  BY <1>1 DEF TrianglesFit
<1>. QED
  BY <1>2, AsksNaturals, PTL
=============================================================================
