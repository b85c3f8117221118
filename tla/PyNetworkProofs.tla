---------------------------- MODULE PyNetworkProofs ----------------------------
(***************************************************************************)
(* Theorems about PyNetwork: what touchstone_rs.read makes of any network  *)
(* the readers may hand it, and Network(f, s, z0) of any arrays of the     *)
(* documented ranks, in any memory layout, for any number of points and    *)
(* ports; and what becomes of a text of any length on the way to a reader: *)
(* its lines, its first keyword and the reader it is given to.             *)
(***************************************************************************)
EXTENDS PyNetwork, CountingLemmas, FiniteSetTheorems

(* The sum a fold of + comes to.                                             *)
Sum(base, terms) == FoldLeft(+, base, terms)

(* A sequence's running product and running sum.                             *)
Multiplies(it, shape) ==
    /\ it[0] = 1
    /\ \A k \in 1..Len(shape) : it[k] = it[k - 1] * shape[k]
    /\ Size(shape) = it[Len(shape)]

Adds(it, base, terms) ==
    /\ it[0] = base
    /\ \A k \in 1..Len(terms) : it[k] = it[k - 1] + terms[k]
    /\ Sum(base, terms) = it[Len(terms)]
-----------------------------------------------------------------------------
(* Of the first k numbers the last is k.                                     *)
LEMMA LastOfTheFirst ==
    ASSUME NEW k \in Nat \ {0}
    PROVE  Max(1..k) = k /\ (1..k) \ {k} = 1..(k - 1) /\ 1..k # {}
<1>1. k \in 1..k
  OBVIOUS
<1>2. PICK T : T = 1..k
  OBVIOUS
<1>3. T \subseteq Nat /\ k \in T /\ \A y \in T : y <= k
  BY <1>1, <1>2
<1>4. Max(T) = k
  BY <1>3, MaxIsThat
<1>5. (1..k) \ {k} = 1..(k - 1)
  <2>1. \A x : x \in (1..k) \ {k} <=> x \in 1..(k - 1)
    OBVIOUS
  <2>. QED
    BY <2>1
<1>. QED
  BY <1>1, <1>2, <1>4, <1>5

(* The size of a shape is the product of its sides, from the first on.       *)
LEMMA SizeMultiplies ==
    ASSUME NEW shape \in Seq(Nat)
    PROVE  \E it : Multiplies(it, shape)
<1>1. PICK last \in Nat : last = Len(shape)
  OBVIOUS
<1>2. DOMAIN shape = 1..last /\ \A k \in 1..last : shape[k] \in Nat
  BY <1>1
<1> DEFINE step == [k \in 1..last |-> [x \in Nat |-> x * shape[k]]]
           Rec(g) == g = [t \in SUBSET (DOMAIN shape) |->
                             IF t = {} THEN 1 ELSE g[t \ {Max(t)}] * shape[Max(t)]]
<1>3. step \in [1..last -> [Nat -> Nat]]
  BY <1>2
<1>4. PICK it \in [SUBSET (1..last) -> Nat] : IsFold(it, last, 1, step)
  <2> HIDE DEF step
  <2>. QED
    BY <1>3, FoldIsDefined DEF FoldsOver
<1>5. Rec(it)
  <2>1. ASSUME NEW t \in SUBSET (1..last), t # {}
        PROVE  it[t] = it[t \ {Max(t)}] * shape[Max(t)]
    <3>1. it[t] = step[Max(t)][it[t \ {Max(t)}]]
      BY <1>4, <2>1 DEF IsFold
    <3>2. Max(t) \in 1..last
      BY <2>1, MaxIsInside
    <3>3. PICK m \in 1..last : m = Max(t)
      BY <3>2
    <3>4. it[t \ {m}] \in Nat
      OBVIOUS
    <3>5. step[m][it[t \ {m}]] = it[t \ {m}] * shape[m]
      BY <3>4
    <3>. QED
      BY <3>1, <3>3, <3>5
  <2>2. it[{}] = 1
    BY <1>4 DEF IsFold
  <2>. QED
    BY <1>2, <2>1, <2>2
<1>6. Size(shape) = (CHOOSE g : Rec(g))[DOMAIN shape]
  BY DEF Size, FoldLeft, MapThenFoldSet
<1>7. PICK g : Rec(g) /\ Size(shape) = g[1..last]
  <2> HIDE DEF Rec
  <2>. QED
    BY <1>2, <1>5, <1>6
<1>8. g[{}] = 1 /\ \A t \in SUBSET (1..last) :
                      t # {} => g[t] = g[t \ {Max(t)}] * shape[Max(t)]
  BY <1>2, <1>7
<1> DEFINE run == [k \in 0..last |-> g[1..k]]
<1>9. run[0] = 1
  <2>1. 1..0 = {}
    OBVIOUS
  <2>. QED
    BY <1>8, <2>1
<1>10. ASSUME NEW k \in 1..last
       PROVE  run[k] = run[k - 1] * shape[k]
  <2>1. Max(1..k) = k /\ (1..k) \ {k} = 1..(k - 1) /\ 1..k # {}
    BY LastOfTheFirst, SMTT(30)
  <2>2. 1..k \in SUBSET (1..last)
    OBVIOUS
  <2>3. g[1..k] = g[1..(k - 1)] * shape[k]
    BY <1>8, <2>1, <2>2
  <2>. QED
    BY <2>3
<1>11. run[last] = g[1..last]
  OBVIOUS
<1>12. Multiplies(run, shape)
  <2> HIDE DEF run
  <2>. QED
    BY <1>1, <1>7, <1>9, <1>10, <1>11 DEF Multiplies
<1>. QED
  BY <1>12

(* Sums alike.                                                               *)
LEMMA SumAdds ==
    ASSUME NEW base \in Int, NEW terms \in Seq(Int)
    PROVE  \E it : Adds(it, base, terms)
<1>1. PICK last \in Nat : last = Len(terms)
  OBVIOUS
<1>2. DOMAIN terms = 1..last /\ \A k \in 1..last : terms[k] \in Int
  BY <1>1
<1> DEFINE step == [k \in 1..last |-> [x \in Int |-> x + terms[k]]]
           Rec(g) == g = [t \in SUBSET (DOMAIN terms) |->
                             IF t = {} THEN base ELSE g[t \ {Max(t)}] + terms[Max(t)]]
<1>3. step \in [1..last -> [Int -> Int]]
  BY <1>2
<1>4. PICK it \in [SUBSET (1..last) -> Int] : IsFold(it, last, base, step)
  <2> HIDE DEF step
  <2>. QED
    BY <1>3, FoldIsDefined DEF FoldsOver
<1>5. Rec(it)
  <2>1. ASSUME NEW t \in SUBSET (1..last), t # {}
        PROVE  it[t] = it[t \ {Max(t)}] + terms[Max(t)]
    <3>1. it[t] = step[Max(t)][it[t \ {Max(t)}]]
      BY <1>4, <2>1 DEF IsFold
    <3>2. Max(t) \in 1..last
      BY <2>1, MaxIsInside
    <3>3. PICK m \in 1..last : m = Max(t)
      BY <3>2
    <3>4. it[t \ {m}] \in Int
      OBVIOUS
    <3>5. step[m][it[t \ {m}]] = it[t \ {m}] + terms[m]
      BY <3>4
    <3>. QED
      BY <3>1, <3>3, <3>5
  <2>2. it[{}] = base
    BY <1>4 DEF IsFold
  <2>. QED
    BY <1>2, <2>1, <2>2
<1>6. Sum(base, terms) = (CHOOSE g : Rec(g))[DOMAIN terms]
  BY DEF Sum, FoldLeft, MapThenFoldSet
<1>7. PICK g : Rec(g) /\ Sum(base, terms) = g[1..last]
  <2> HIDE DEF Rec
  <2>. QED
    BY <1>2, <1>5, <1>6
<1>8. g[{}] = base /\ \A t \in SUBSET (1..last) :
                         t # {} => g[t] = g[t \ {Max(t)}] + terms[Max(t)]
  BY <1>2, <1>7
<1> DEFINE run == [k \in 0..last |-> g[1..k]]
<1>9. run[0] = base
  <2>1. 1..0 = {}
    OBVIOUS
  <2>. QED
    BY <1>8, <2>1
<1>10. ASSUME NEW k \in 1..last
       PROVE  run[k] = run[k - 1] + terms[k]
  <2>1. Max(1..k) = k /\ (1..k) \ {k} = 1..(k - 1) /\ 1..k # {}
    BY LastOfTheFirst, SMTT(30)
  <2>2. 1..k \in SUBSET (1..last)
    OBVIOUS
  <2>3. g[1..k] = g[1..(k - 1)] + terms[k]
    BY <1>8, <2>1, <2>2
  <2>. QED
    BY <2>3
<1>11. run[last] = g[1..last]
  OBVIOUS
<1>12. Adds(run, base, terms)
  <2> HIDE DEF run
  <2>. QED
    BY <1>1, <1>7, <1>9, <1>10, <1>11 DEF Adds
<1>. QED
  BY <1>12
-----------------------------------------------------------------------------
(* The rest of a shape.                                                      *)
IsRest(rest, shape, from) ==
    /\ rest = SubSeq(shape, from, Len(shape))
    /\ rest \in Seq(Nat)
    /\ Len(rest) = Len(shape) - from + 1
    /\ \A i \in 1..(Len(shape) - from + 1) : rest[i] = shape[from + i - 1]

LEMMA RestOfAShape ==
    ASSUME NEW shape \in Seq(Nat), NEW from \in 1..Len(shape)
    PROVE  \E rest : IsRest(rest, shape, from)
<1>1. PICK last \in Nat : last = Len(shape)
  OBVIOUS
<1>2. from \in Int /\ last \in Int /\ \A i \in from..last : shape[i] \in Nat
  BY <1>1
<1>3. PICK rest : rest = SubSeq(shape, from, last)
  OBVIOUS
<1>4. /\ rest \in Seq(Nat)
      /\ Len(rest) = IF from <= last THEN last - from + 1 ELSE 0
      /\ \A i \in 1..(last - from + 1) : rest[i] = shape[from + i - 1]
  BY <1>2, <1>3, SubSeqProperties
<1>5. IsRest(rest, shape, from)
  BY <1>1, <1>2, <1>3, <1>4 DEF IsRest
<1>. QED
  BY <1>5

(* A shape is its sides.                                                     *)
LEMMA ShapeOfOne ==
    ASSUME NEW shape \in Seq(Nat), Len(shape) = 1
    PROVE  shape = <<shape[1]>>
<1>1. DOMAIN shape = 1..1 /\ shape = [i \in 1..1 |-> shape[i]]
  OBVIOUS
<1>. QED
  BY <1>1

LEMMA ShapeOfTwo ==
    ASSUME NEW shape \in Seq(Nat), Len(shape) = 2
    PROVE  shape = <<shape[1], shape[2]>>
<1>1. DOMAIN shape = 1..2 /\ shape = [i \in 1..2 |-> shape[i]]
  OBVIOUS
<1>. QED
  BY <1>1

LEMMA ShapeOfThree ==
    ASSUME NEW shape \in Seq(Nat), Len(shape) = 3
    PROVE  shape = <<shape[1], shape[2], shape[3]>>
<1>1. DOMAIN shape = 1..3 /\ shape = [i \in 1..3 |-> shape[i]]
  OBVIOUS
<1>. QED
  BY <1>1

(* Sizes and steps of the shapes there are.                                  *)
LEMMA NoAxis == Size(<<>>) = 1
<1>1. <<>> \in Seq(Nat) /\ Len(<<>>) = 0
  OBVIOUS
<1>2. PICK it : Multiplies(it, <<>>)
  BY <1>1, SizeMultiplies
<1>. QED
  BY <1>1, <1>2 DEF Multiplies

LEMMA OneAxis ==
    ASSUME NEW a \in Nat
    PROVE  Size(<<a>>) = a
<1>1. <<a>> \in Seq(Nat) /\ Len(<<a>>) = 1 /\ <<a>>[1] = a
  OBVIOUS
<1>2. PICK it : Multiplies(it, <<a>>)
  BY <1>1, SizeMultiplies
<1>3. it[0] = 1 /\ it[1] = it[1 - 1] * a /\ Size(<<a>>) = it[1]
  BY <1>1, <1>2 DEF Multiplies
<1>. QED
  BY <1>3

LEMMA TwoAxes ==
    ASSUME NEW a \in Nat, NEW b \in Nat
    PROVE  Size(<<a, b>>) = a * b
<1>1. /\ <<a, b>> \in Seq(Nat) /\ Len(<<a, b>>) = 2
      /\ <<a, b>>[1] = a /\ <<a, b>>[2] = b
  OBVIOUS
<1>2. PICK it : Multiplies(it, <<a, b>>)
  BY <1>1, SizeMultiplies
<1>3. /\ it[0] = 1 /\ it[1] = it[1 - 1] * a /\ it[2] = it[2 - 1] * b
      /\ Size(<<a, b>>) = it[2]
  BY <1>1, <1>2 DEF Multiplies
<1>4. it[1] = a /\ it[2] = it[1] * b
  BY <1>3
<1>. QED
  BY <1>3, <1>4

LEMMA ThreeAxes ==
    ASSUME NEW a \in Nat, NEW b \in Nat, NEW c \in Nat
    PROVE  Size(<<a, b, c>>) = (a * b) * c
<1>1. /\ <<a, b, c>> \in Seq(Nat) /\ Len(<<a, b, c>>) = 3
      /\ <<a, b, c>>[1] = a /\ <<a, b, c>>[2] = b /\ <<a, b, c>>[3] = c
  OBVIOUS
<1>2. PICK it : Multiplies(it, <<a, b, c>>)
  BY <1>1, SizeMultiplies
<1>3. /\ it[0] = 1 /\ it[1] = it[1 - 1] * a /\ it[2] = it[2 - 1] * b
      /\ it[3] = it[3 - 1] * c /\ Size(<<a, b, c>>) = it[3]
  BY <1>1, <1>2 DEF Multiplies
<1>4. it[1] = a /\ it[2] = it[1] * b /\ it[3] = it[2] * c
  BY <1>3
<1>. QED
  BY <1>3, <1>4

LEMMA StepOfOne ==
    ASSUME NEW a \in Nat
    PROVE  Step(<<a>>, 1) = 1
<1>1. SubSeq(<<a>>, 1 + 1, Len(<<a>>)) = <<>>
  OBVIOUS
<1>. QED
  BY <1>1, NoAxis DEF Step

LEMMA StepsOfTwo ==
    ASSUME NEW a \in Nat, NEW b \in Nat
    PROVE  Step(<<a, b>>, 1) = b /\ Step(<<a, b>>, 2) = 1
<1>1. SubSeq(<<a, b>>, 1 + 1, Len(<<a, b>>)) = <<b>>
  <2>1. <<a, b>> \in Seq(Nat) /\ Len(<<a, b>>) = 2 /\ 2 = 1 + 1 /\ 2 \in 1..Len(<<a, b>>)
    OBVIOUS
  <2>2. PICK rest : IsRest(rest, <<a, b>>, 2)
    BY <2>1, RestOfAShape
  <2>3. /\ rest = SubSeq(<<a, b>>, 2, 2) /\ rest \in Seq(Nat) /\ Len(rest) = 1
        /\ rest[1] = b
    BY <2>1, <2>2 DEF IsRest
  <2>4. rest = <<b>>
    BY <2>3, ShapeOfOne
  <2>. QED
    BY <2>1, <2>3, <2>4
<1>2. SubSeq(<<a, b>>, 2 + 1, Len(<<a, b>>)) = <<>>
  OBVIOUS
<1>. QED
  BY <1>1, <1>2, NoAxis, OneAxis DEF Step

LEMMA StepsOfThree ==
    ASSUME NEW a \in Nat, NEW b \in Nat, NEW c \in Nat
    PROVE  /\ Step(<<a, b, c>>, 1) = b * c
           /\ Step(<<a, b, c>>, 2) = c
           /\ Step(<<a, b, c>>, 3) = 1
<1>1. SubSeq(<<a, b, c>>, 1 + 1, Len(<<a, b, c>>)) = <<b, c>>
  <2>1. <<a, b, c>> \in Seq(Nat) /\ Len(<<a, b, c>>) = 3 /\ 2 = 1 + 1 /\ 2 \in 1..Len(<<a, b, c>>)
    OBVIOUS
  <2>2. PICK rest : IsRest(rest, <<a, b, c>>, 2)
    BY <2>1, RestOfAShape
  <2>3. /\ rest = SubSeq(<<a, b, c>>, 2, 3) /\ rest \in Seq(Nat) /\ Len(rest) = 2
        /\ rest[1] = b /\ rest[2] = c
    BY <2>1, <2>2 DEF IsRest
  <2>4. rest = <<b, c>>
    BY <2>3, ShapeOfTwo
  <2>. QED
    BY <2>1, <2>3, <2>4
<1>2. SubSeq(<<a, b, c>>, 2 + 1, Len(<<a, b, c>>)) = <<c>>
  <2>1. <<a, b, c>> \in Seq(Nat) /\ Len(<<a, b, c>>) = 3 /\ 3 = 2 + 1 /\ 3 \in 1..Len(<<a, b, c>>)
    OBVIOUS
  <2>2. PICK rest : IsRest(rest, <<a, b, c>>, 3)
    BY <2>1, RestOfAShape
  <2>3. /\ rest = SubSeq(<<a, b, c>>, 3, 3) /\ rest \in Seq(Nat) /\ Len(rest) = 1
        /\ rest[1] = c
    BY <2>1, <2>2 DEF IsRest
  <2>4. rest = <<c>>
    BY <2>3, ShapeOfOne
  <2>. QED
    BY <2>1, <2>3, <2>4
<1>3. SubSeq(<<a, b, c>>, 3 + 1, Len(<<a, b, c>>)) = <<>>
  OBVIOUS
<1>. QED
  BY <1>1, <1>2, <1>3, NoAxis, OneAxis, TwoAxes DEF Step

(* Quotient and remainder of a place.                                        *)
Splits(x, width, q, r) == x \div width = q /\ x % width = r

LEMMA PlaceSplits ==
    ASSUME NEW width \in Nat \ {0}, NEW q \in Int, NEW r \in 0..(width - 1),
           NEW x \in Int, x = q * width + r
    PROVE  Splits(x, width, q, r)
<1>1. (q * width + r) \div width = q /\ (q * width + r) % width = r
  BY OffsetNamesItsPlace
<1>. QED
  BY <1>1 DEF Splits

LEMMA SmallIsItsRemainder ==
    ASSUME NEW i \in Nat, NEW a \in Int, i < a
    PROVE  i % a = i
<1>1. a \in Nat \ {0} /\ i \in 0..(a - 1) /\ i = 0 * a + i
  OBVIOUS
<1>2. Splits(i, a, 0, i)
  BY <1>1, PlaceSplits
<1>. QED
  BY <1>2 DEF Splits

(* The index a place in logical order stands for.                            *)
LEMMA IndexOfOne ==
    ASSUME NEW a \in Nat, NEW i \in 0..(a - 1)
    PROVE  IndexAt(<<a>>, i) = <<i>>
<1>1. a \in Nat \ {0} /\ i \div 1 = i
  OBVIOUS
<1>2. i % a = i
  BY SmallIsItsRemainder
<1>3. IndexAt(<<a>>, i) = [axis \in 1..1 |-> (i \div Step(<<a>>, axis)) % <<a>>[axis]]
  BY DEF IndexAt
<1>. QED
  BY <1>1, <1>2, <1>3, StepOfOne

LEMMA IndexOfTwo ==
    ASSUME NEW a \in Nat, NEW b \in Nat, NEW i \in 0..(a - 1), NEW j \in 0..(b - 1)
    PROVE  IndexAt(<<a, b>>, i * b + j) = <<i, j>>
<1>1. a \in Nat \ {0} /\ b \in Nat \ {0}
  OBVIOUS
<1>2. PICK x \in Int : x = i * b + j
  OBVIOUS
<1>3. x \div b = i /\ x % b = j /\ x \div 1 = x
  <2>1. Splits(x, b, i, j)
    BY <1>1, <1>2, PlaceSplits
  <2>. QED
    BY <2>1 DEF Splits
<1>4. i % a = i
  BY SmallIsItsRemainder
<1>5. IndexAt(<<a, b>>, x) = [axis \in 1..2 |-> (x \div Step(<<a, b>>, axis)) % <<a, b>>[axis]]
  BY DEF IndexAt
<1>. QED
  BY <1>2, <1>3, <1>4, <1>5, StepsOfTwo

IsPlaceOf(x, i, j, k, b, c) == x = (i * b + j) * c + k

LEMMA IndexOfThree ==
    ASSUME NEW a \in Nat, NEW b \in Nat, NEW c \in Nat,
           NEW i \in 0..(a - 1), NEW j \in 0..(b - 1), NEW k \in 0..(c - 1),
           NEW x \in Int, IsPlaceOf(x, i, j, k, b, c)
    PROVE  IndexAt(<<a, b, c>>, x) = <<i, j, k>>
<1>1. a \in Nat \ {0} /\ b \in Nat \ {0} /\ c \in Nat \ {0}
  OBVIOUS
<1>2. PICK y \in Int : y = i * b + j
  OBVIOUS
<1>3. x = y * c + k
  BY <1>2 DEF IsPlaceOf
<1>4. x \div c = y /\ x % c = k /\ x \div 1 = x
  <2>1. Splits(x, c, y, k)
    BY <1>1, <1>3, PlaceSplits
  <2>. QED
    BY <2>1 DEF Splits
<1>5. y % b = j
  <2>1. Splits(y, b, i, j)
    BY <1>1, <1>2, PlaceSplits
  <2>. QED
    BY <2>1 DEF Splits
<1>6. PICK width \in Nat \ {0} : width = b * c
  BY <1>1
<1>7. x \div width = i
  <2>1. PICK r \in 0..(width - 1) : r = j * c + k
    BY <1>1, <1>6, OffsetIsInside
  <2>2. x = i * width + r
    BY <1>2, <1>3, <1>6, <2>1
  <2>3. Splits(x, width, i, r)
    BY <2>2, PlaceSplits
  <2>. QED
    BY <2>3 DEF Splits
<1>8. i % a = i
  BY SmallIsItsRemainder
<1>9. IndexAt(<<a, b, c>>, x)
        = [axis \in 1..3 |-> (x \div Step(<<a, b, c>>, axis)) % <<a, b, c>>[axis]]
  BY DEF IndexAt
<1>10. ASSUME NEW axis \in 1..3
       PROVE  (x \div Step(<<a, b, c>>, axis)) % <<a, b, c>>[axis] = <<i, j, k>>[axis]
  <2>1. CASE axis = 1
    <3>1. Step(<<a, b, c>>, axis) = width
      BY <1>6, <2>1, StepsOfThree
    <3>. QED
      BY <1>7, <1>8, <2>1, <3>1
  <2>2. CASE axis = 2
    <3>1. Step(<<a, b, c>>, axis) = c
      BY <2>2, StepsOfThree
    <3>. QED
      BY <1>4, <1>5, <2>2, <3>1
  <2>3. CASE axis = 3
    <3>1. Step(<<a, b, c>>, axis) = 1
      BY <2>3, StepsOfThree
    <3>. QED
      BY <1>4, <2>3, <3>1
  <2>. QED
    BY <2>1, <2>2, <2>3
<1>. QED
  BY <1>9, <1>10
-----------------------------------------------------------------------------
(* Where NumPy finds an item of an array it was given in one row.            *)
LEMMA ItemOfOne ==
    ASSUME NEW a \in Nat, NEW flat, NEW i \in Int
    PROVE  Item(Array(<<a>>, flat), <<i>>) = flat[i + 1]
<1> DEFINE terms == [axis \in 1..Len(<<i>>) |-> <<i>>[axis] * Step(<<a>>, axis)]
<1>1. terms = <<i>>
  BY StepOfOne
<1>2. PICK it : Adds(it, 1, <<i>>)
  <2>1. 1 \in Int /\ <<i>> \in Seq(Int)
    OBVIOUS
  <2>. QED
    BY <2>1, SumAdds
<1>3. it[0] = 1 /\ it[1] = it[1 - 1] + i /\ Sum(1, <<i>>) = it[1]
  BY <1>2 DEF Adds
<1>4. Sum(1, <<i>>) = i + 1
  BY <1>3
<1>5. Item(Array(<<a>>, flat), <<i>>) = flat[Sum(1, terms)]
  BY DEF Item, Array, Sum
<1>. QED
  BY <1>1, <1>4, <1>5

(* Where Item(array, <<i, j>>) of an array of b columns lies in its list.    *)
IsEntryOf(place, i, j, b) == place = i * b + j + 1

LEMMA ItemOfTwo ==
    ASSUME NEW a \in Nat, NEW b \in Nat, NEW flat, NEW i \in Int, NEW j \in Int
    PROVE  Item(Array(<<a, b>>, flat), <<i, j>>) = flat[i * b + j + 1]
<1> DEFINE terms == [axis \in 1..Len(<<i, j>>) |-> <<i, j>>[axis] * Step(<<a, b>>, axis)]
<1>0. PICK x \in Int : x = i * b
  OBVIOUS
<1>1. terms = <<x, j>>
  BY <1>0, StepsOfTwo
<1>2. PICK it : Adds(it, 1, <<x, j>>)
  <2>1. 1 \in Int /\ <<x, j>> \in Seq(Int)
    OBVIOUS
  <2>. QED
    BY <2>1, SumAdds
<1>3. /\ it[0] = 1 /\ it[1] = it[1 - 1] + x /\ it[2] = it[2 - 1] + j
      /\ Sum(1, <<x, j>>) = it[2]
  BY <1>2 DEF Adds
<1>4. Sum(1, <<x, j>>) = x + j + 1
  BY <1>3
<1>5. Item(Array(<<a, b>>, flat), <<i, j>>) = flat[Sum(1, terms)]
  BY DEF Item, Array, Sum
<1>. QED
  BY <1>0, <1>1, <1>4, <1>5

LEMMA ItemOfThree ==
    ASSUME NEW a \in Nat, NEW b \in Nat, NEW c \in Nat, NEW flat,
           NEW i \in Int, NEW j \in Int, NEW k \in Int,
           NEW place \in Int, IsPlaceOf(place, i, j, k, b, c)
    PROVE  Item(Array(<<a, b, c>>, flat), <<i, j, k>>) = flat[place + 1]
<1> DEFINE terms == [axis \in 1..Len(<<i, j, k>>) |->
                        <<i, j, k>>[axis] * Step(<<a, b, c>>, axis)]
<1>0. PICK x \in Int, y \in Int : x = i * (b * c) /\ y = j * c
  OBVIOUS
<1>1. terms = <<x, y, k>>
  BY <1>0, StepsOfThree
<1>2. PICK it : Adds(it, 1, <<x, y, k>>)
  <2>1. 1 \in Int /\ <<x, y, k>> \in Seq(Int)
    OBVIOUS
  <2>. QED
    BY <2>1, SumAdds
<1>3. /\ it[0] = 1 /\ it[1] = it[1 - 1] + x /\ it[2] = it[2 - 1] + y
      /\ it[3] = it[3 - 1] + k /\ Sum(1, <<x, y, k>>) = it[3]
  BY <1>2 DEF Adds
<1>4. Sum(1, <<x, y, k>>) = x + y + k + 1
  BY <1>3
<1>5. Item(Array(<<a, b, c>>, flat), <<i, j, k>>) = flat[Sum(1, terms)]
  BY DEF Item, Array, Sum
<1>6. x + y + k + 1 = place + 1
  BY <1>0 DEF IsPlaceOf
<1>. QED
  BY <1>1, <1>4, <1>5, <1>6
-----------------------------------------------------------------------------
(* What a reader hands over keeps its lengths together.                      *)
SweepInv ==
    /\ freqHz \in Seq(Frequencies)
    /\ ports \in PortCounts \cup {None}
    /\ ports = None <=> freqHz = <<>>
    /\ entries = Len(freqHz) * (ports * ports)
    /\ result \in {"reading", "network", "error"}
    /\ result = "network" => freqHz # <<>> /\ references = Len(freqHz) * ports

(* What Network(f, s, z0) builds of arrays whose shapes fit.                 *)
Constructed ==
    LET points == call.s.shape[1]
        n      == call.s.shape[2]
    IN  [nports |-> n,
         f      |-> Array(<<call.f.shape[1]>>, Elements(call.f)),
         s      |-> Array(<<points, n, n>>, Elements(call.s)),
         z0     |-> Array(<<points, n>>, References(call.z0, points, n)),
         noise  |-> <<>>]

(* Where an object comes from.                                               *)
ObjectInv ==
    /\ call \in Calls
    /\ object # NoObject =>
          \/ call.entry = "read" /\ result = "network" /\ object = FromCore
          \/ /\ call.entry = "new"
             /\ ShapesFit(call.s, call.f, call.z0)
             /\ object = Constructed

PyInv == SweepInv /\ ObjectInv /\ ReadRaisesOnlyTouchstoneError

(* A point adds its own square of entries.                                   *)
LEMMA OneMoreSquare ==
    ASSUME NEW count \in Nat, NEW square \in Int
    PROVE  count * square + square = (count + 1) * square
OBVIOUS

LEMMA ReaderKeepsSweep ==
    ASSUME SweepInv, Reader!Next
    PROVE  SweepInv'
<1>1. result = "reading"
  BY DEF Reader!Next, Reader!AddPoint, Reader!AddNoisePoint, Reader!Accept, Reader!Reject
<1>2. CASE Reader!AddPoint
  <2>1. PICK hz \in Frequencies : freqHz' = Append(freqHz, hz)
    BY <1>2 DEF Reader!AddPoint
  <2>2. freqHz' \in Seq(Frequencies) /\ Len(freqHz') = Len(freqHz) + 1 /\ Len(freqHz) \in Nat
    BY <2>1 DEF SweepInv
  <2>3. freqHz' # <<>>
    BY <2>2
  <2>4. ports' \in PortCounts /\ ports' \in Nat \ {0} /\ ports' # None
    BY <1>2, PortCountsAssumption DEF Reader!AddPoint, None
  <2>5. entries' = Len(freqHz') * (ports' * ports')
    <3>1. PICK count \in Nat, p \in Nat, square \in Nat :
             count = Len(freqHz) /\ p = ports' /\ square = p * p
      BY <2>2, <2>4
    <3>2. entries' = entries + square
      BY <1>2, <3>1 DEF Reader!AddPoint
    <3>3. entries = count * square
      <4>1. CASE ports = None
        <5>1. count = 0 /\ entries = 0
          BY <3>1, <4>1 DEF SweepInv, None
        <5>. QED
          BY <5>1
      <4>2. CASE ports # None
        <5>1. ports = p
          BY <1>2, <3>1, <4>2 DEF Reader!AddPoint
        <5>. QED
          BY <3>1, <5>1 DEF SweepInv
      <4>. QED
        BY <4>1, <4>2
    <3>4. count * square + square = (count + 1) * square
      BY OneMoreSquare
    <3>. QED
      BY <2>2, <3>1, <3>2, <3>3, <3>4
  <2>6. result' = "reading"
    BY <1>1, <1>2 DEF Reader!AddPoint
  <2>. QED
    BY <2>2, <2>3, <2>4, <2>5, <2>6 DEF SweepInv
<1>3. CASE Reader!AddNoisePoint
  BY <1>1, <1>3 DEF Reader!AddNoisePoint, SweepInv
<1>4. CASE Reader!Accept
  BY <1>1, <1>4 DEF Reader!Accept, SweepInv
<1>5. CASE Reader!Reject
  BY <1>1, <1>5 DEF Reader!Reject, SweepInv
<1>. QED
  BY <1>2, <1>3, <1>4, <1>5 DEF Reader!Next

(* The way to a reader changes nothing a reader has made.                    *)
LEMMA StepsKeepSweep ==
    ASSUME SweepInv, Steps
    PROVE  /\ SweepInv'
           /\ UNCHANGED <<call, sweep>>
           /\ result' # result => result = "reading"
<1>1. UNCHANGED <<call, sweep>>
  BY DEF Steps, OpenFile, CheckLineEndings, StripMarker, Sniff, Fail, GoOn
<1>2. result' = result \/ (result = "reading" /\ result' = "error")
  BY DEF Steps, OpenFile, CheckLineEndings, StripMarker, Sniff, Fail, GoOn, Returned
<1>. QED
  BY <1>1, <1>2 DEF SweepInv, sweep

(* The network of an accepted file has the shapes NumPy is asked for.        *)
LEMMA CoreFits ==
    ASSUME SweepInv, result = "network"
    PROVE  Reshapes(FromCore.s) /\ Reshapes(FromCore.z0)
<1>1. PICK points \in Nat, n \in Nat, square \in Nat :
         points = Len(freqHz) /\ n = ports /\ square = n * n
  BY PortCountsAssumption DEF SweepInv
<1>2. entries = points * square /\ references = points * n
  BY <1>1 DEF SweepInv
<1>3. entries \in Nat /\ references \in Nat
  BY <1>2
<1>4. PICK ss, zs : ss = [k \in 1..entries |-> k - 1] /\ zs = [k \in 1..references |-> k - 1]
  OBVIOUS
<1>5. Size(<<points, n, n>>) = entries
  <2>1. (points * n) * n = points * square
    BY <1>1
  <2>. QED
    BY <1>2, <2>1, ThreeAxes
<1>6. Size(<<points, n>>) = references
  BY <1>2, TwoAxes
<1>7. Len(ss) = entries /\ Len(zs) = references
  BY <1>3, <1>4
<1>8. FromCore.s = Array(<<points, n, n>>, ss) /\ FromCore.z0 = Array(<<points, n>>, zs)
  BY <1>1, <1>4 DEF FromCore, ReferenceShape
<1>9. /\ FromCore.s.shape = <<points, n, n>> /\ FromCore.s.flat = ss
      /\ FromCore.z0.shape = <<points, n>> /\ FromCore.z0.flat = zs
  BY <1>8 DEF Array
<1>. QED
  BY <1>5, <1>6, <1>7, <1>9 DEF Reshapes

LEMMA InitEstablishes == Init => PyInv
<1>. SUFFICES ASSUME Init PROVE PyInv
  OBVIOUS
<1>1. SweepInv
  <2>1. freqHz = <<>> /\ ports = None /\ entries = 0 /\ result = "reading"
    BY DEF Init, ReadInit, Reader!Init
  <2>2. freqHz \in Seq(Frequencies) /\ Len(freqHz) = 0
    BY <2>1
  <2>. QED
    BY <2>1, <2>2 DEF SweepInv, None
<1>2. ObjectInv
  BY DEF Init, ReadInit, ObjectInv
<1>3. ReadRaisesOnlyTouchstoneError
  BY DEF Init, ReadRaisesOnlyTouchstoneError
<1>. QED
  BY <1>1, <1>2, <1>3 DEF PyInv

(* While nothing it is made from changes, an object stays what it was.       *)
LEMMA ObjectIsKept ==
    ASSUME ObjectInv, UNCHANGED <<call, object>>,
           call.entry = "read" /\ object # NoObject => UNCHANGED <<sweep, result>>
    PROVE  ObjectInv'
<1>1. CASE object = NoObject
  BY <1>1 DEF ObjectInv, NoObject
<1>2. CASE object # NoObject /\ call.entry = "read"
  <2>1. UNCHANGED <<sweep, result>>
    BY <1>2
  <2>2. FromCore' = FromCore
    BY <2>1 DEF FromCore, Array, ReferenceShape, sweep
  <2>. QED
    BY <1>2, <2>1, <2>2 DEF ObjectInv, NoObject
<1>3. CASE object # NoObject /\ call.entry # "read"
  <2>1. Constructed' = Constructed
    BY DEF Constructed
  <2>. QED
    BY <1>3, <2>1 DEF ObjectInv, NoObject
<1>. QED
  BY <1>1, <1>2, <1>3

LEMMA ReadKeeps ==
    ASSUME PyInv, ReadNext, UNCHANGED <<object, raised>>
    PROVE  PyInv'
<1>1. /\ SweepInv'
      /\ UNCHANGED call
      /\ call.entry = "read" /\ object # NoObject => UNCHANGED <<sweep, result>>
  <2>1. CASE Read
    <3>1. Reader!Next /\ UNCHANGED call
      BY <2>1 DEF Read
    <3>2. result = "reading"
      BY <3>1 DEF Reader!Next, Reader!AddPoint, Reader!AddNoisePoint, Reader!Accept,
                  Reader!Reject
    <3>. QED
      BY <3>1, <3>2, ReaderKeepsSweep DEF PyInv, ObjectInv
  <2>2. CASE Steps
    <3>1. /\ SweepInv' /\ UNCHANGED <<call, sweep>>
          /\ result' # result => result = "reading"
      BY <2>2, StepsKeepSweep DEF PyInv
    <3>. QED
      BY <3>1 DEF PyInv, ObjectInv
  <2>. QED
    BY <2>1, <2>2 DEF ReadNext
<1>2. ObjectInv'
  BY <1>1, ObjectIsKept DEF PyInv
<1>3. ReadRaisesOnlyTouchstoneError'
  BY <1>1 DEF PyInv, ReadRaisesOnlyTouchstoneError
<1>. QED
  BY <1>1, <1>2, <1>3 DEF PyInv

LEMMA SweepStays ==
    ASSUME SweepInv, UNCHANGED readVars
    PROVE  SweepInv' /\ UNCHANGED <<call, sweep, result>>
BY DEF SweepInv, readVars, sweep

LEMMA HandOverKeeps ==
    ASSUME PyInv, HandOver
    PROVE  PyInv'
<1>1. call.entry = "read" /\ ~HasAnswer
  BY DEF HandOver
<1>2. object = NoObject
  BY <1>1 DEF HasAnswer
<1>3. CASE result = "error" /\ Raise("TouchstoneError")
  <2>1. SweepInv' /\ UNCHANGED <<call, sweep, result, object>> /\ raised' = "TouchstoneError"
    BY <1>3, SweepStays DEF PyInv, Raise
  <2>2. ObjectInv'
    BY <2>1, ObjectIsKept DEF PyInv
  <2>. QED
    BY <2>1, <2>2 DEF PyInv, ReadRaisesOnlyTouchstoneError
<1>4. CASE result = "network" /\ Build(FromCore)
  <2>1. /\ SweepInv' /\ UNCHANGED <<call, sweep, result, raised>>
        /\ object' = FromCore
    BY <1>4, SweepStays DEF PyInv, Build
  <2>2. FromCore' = FromCore
    BY <2>1 DEF FromCore, Array, ReferenceShape, sweep
  <2>3. ObjectInv'
    BY <1>1, <1>4, <2>1, <2>2 DEF PyInv, ObjectInv
  <2>. QED
    BY <2>1, <2>3 DEF PyInv, ReadRaisesOnlyTouchstoneError
<1>5. CASE result = "network" /\ ~(Reshapes(FromCore.s) /\ Reshapes(FromCore.z0))
  BY <1>5, CoreFits DEF PyInv
<1>. QED
  BY <1>3, <1>4, <1>5 DEF HandOver

LEMMA ConstructKeeps ==
    ASSUME PyInv, Construct
    PROVE  PyInv'
<1>1. call.entry = "new" /\ UNCHANGED readVars
  BY DEF Construct, Raise, Build
<1>2. SweepInv' /\ UNCHANGED <<call, sweep, result>>
  BY <1>1, SweepStays DEF PyInv
<1>3. ObjectInv'
  <2>1. CASE UNCHANGED object
    BY <1>1, <1>2, <2>1, ObjectIsKept DEF PyInv
  <2>2. CASE ShapesFit(call.s, call.f, call.z0) /\ Build(Constructed)
    <3>1. Constructed' = Constructed
      BY <1>2 DEF Constructed
    <3>2. object' = Constructed'
      BY <2>2, <3>1 DEF Build
    <3>. QED
      BY <1>1, <1>2, <2>2, <3>2 DEF PyInv, ObjectInv
  <2>3. \/ UNCHANGED object
        \/ ShapesFit(call.s, call.f, call.z0) /\ Build(Constructed)
    BY DEF Construct, Constructed, Raise
  <2>. QED
    BY <2>1, <2>2, <2>3
<1>. QED
  BY <1>1, <1>2, <1>3 DEF PyInv, ReadRaisesOnlyTouchstoneError

LEMMA StepPreserves == PyInv /\ [Next]_vars => PyInv'
<1>. SUFFICES ASSUME PyInv, [Next]_vars
              PROVE  PyInv'
  OBVIOUS
<1>1. CASE ReadNext /\ UNCHANGED <<object, raised>>
  BY <1>1, ReadKeeps
<1>2. CASE HandOver
  BY <1>2, HandOverKeeps
<1>3. CASE Construct
  BY <1>3, ConstructKeeps
<1>4. CASE UNCHANGED vars
  <2>1. SweepInv' /\ UNCHANGED <<call, sweep, result, object, raised>>
    BY <1>4, SweepStays DEF PyInv, vars
  <2>2. ObjectInv'
    BY <2>1, ObjectIsKept DEF PyInv
  <2>. QED
    BY <2>1, <2>2 DEF PyInv, ReadRaisesOnlyTouchstoneError
<1>. QED
  BY <1>1, <1>2, <1>3, <1>4 DEF Next, Done

(* From its readers' promise: whatever a file holds, touchstone_rs.read      *)
(* raises TouchstoneError or nothing.                                        *)
THEOREM OnlyTouchstoneError == Spec => []ReadRaisesOnlyTouchstoneError
<1>1. PyInv => ReadRaisesOnlyTouchstoneError
  BY DEF PyInv
<1>. QED
  BY <1>1, InitEstablishes, StepPreserves, PTL DEF Spec
-----------------------------------------------------------------------------
(* The elements of a view are found again at their place in logical order.   *)
LEMMA ElementsFillTheShape ==
    ASSUME NEW view, Size(view.shape) \in Nat
    PROVE  Len(Elements(view)) = Size(view.shape)
<1>1. PICK size \in Nat : size = Size(view.shape)
  OBVIOUS
<1>2. Elements(view) = [k \in 1..size |-> Address(view, IndexAt(view.shape, k - 1))]
  BY <1>1 DEF Elements
<1>. QED
  BY <1>1, <1>2

LEMMA ElementOfOne ==
    ASSUME NEW view, NEW a \in Nat, view.shape = <<a>>, NEW i \in 0..(a - 1)
    PROVE  Elements(view)[i + 1] = Address(view, <<i>>)
<1>1. Size(view.shape) = a /\ IndexAt(view.shape, i) = <<i>>
  BY OneAxis, IndexOfOne
<1>2. i + 1 \in 1..a /\ (i + 1) - 1 = i
  OBVIOUS
<1>3. Elements(view)[i + 1] = Address(view, IndexAt(view.shape, (i + 1) - 1))
  BY <1>1, <1>2 DEF Elements
<1>. QED
  BY <1>1, <1>2, <1>3

LEMMA ElementOfTwo ==
    ASSUME NEW view, NEW a \in Nat, NEW b \in Nat, view.shape = <<a, b>>,
           NEW i \in 0..(a - 1), NEW j \in 0..(b - 1)
    PROVE  Elements(view)[i * b + j + 1] = Address(view, <<i, j>>)
<1>1. PICK x \in 0..(a * b - 1) : x = i * b + j
  BY OffsetIsInside
<1>2. Size(view.shape) = a * b /\ IndexAt(view.shape, x) = <<i, j>>
  <2>1. Size(<<a, b>>) = a * b
    BY TwoAxes
  <2>2. IndexAt(<<a, b>>, i * b + j) = <<i, j>>
    BY IndexOfTwo
  <2>. QED
    BY <1>1, <2>1, <2>2
<1>3. x + 1 \in 1..(a * b) /\ (x + 1) - 1 = x
  OBVIOUS
<1>4. Elements(view)[x + 1] = Address(view, IndexAt(view.shape, (x + 1) - 1))
  BY <1>2, <1>3 DEF Elements
<1>. QED
  BY <1>1, <1>2, <1>3, <1>4

LEMMA ElementOfThree ==
    ASSUME NEW view, NEW a \in Nat, NEW b \in Nat, NEW c \in Nat, view.shape = <<a, b, c>>,
           NEW i \in 0..(a - 1), NEW j \in 0..(b - 1), NEW k \in 0..(c - 1),
           NEW place \in Int, IsPlaceOf(place, i, j, k, b, c)
    PROVE  Elements(view)[place + 1] = Address(view, <<i, j, k>>)
<1>1. PICK y \in 0..(a * b - 1) : y = i * b + j
  BY OffsetIsInside
<1>2. PICK rows \in Nat : rows = a * b
  OBVIOUS
<1>3. PICK x \in 0..(rows * c - 1) : x = y * c + k
  BY <1>1, <1>2, OffsetIsInside
<1>4. Size(view.shape) = rows * c /\ IndexAt(view.shape, x) = <<i, j, k>>
  <2>1. Size(<<a, b, c>>) = (a * b) * c
    BY ThreeAxes
  <2>2. IndexAt(<<a, b, c>>, x) = <<i, j, k>>
    <3>1. x \in Int /\ IsPlaceOf(x, i, j, k, b, c)
      BY <1>1, <1>3 DEF IsPlaceOf
    <3>. QED
      BY <3>1, IndexOfThree
  <2>. QED
    BY <1>1, <1>2, <1>3, <2>1, <2>2
<1>5. x + 1 \in 1..(rows * c) /\ (x + 1) - 1 = x
  OBVIOUS
<1>6. Elements(view)[x + 1] = Address(view, IndexAt(view.shape, (x + 1) - 1))
  BY <1>4, <1>5 DEF Elements
<1>7. x = place
  BY <1>1, <1>3 DEF IsPlaceOf
<1>. QED
  BY <1>4, <1>5, <1>6, <1>7

(* An object constructed, and what its arguments' shapes were.               *)
IsBuiltOf(points, width) ==
    /\ call.f.shape = <<points>>
    /\ call.s.shape = <<points, width, width>>
    /\ \/ call.z0.is = "none"
       \/ call.z0.is = "array" /\ call.z0.shape \in {<<width>>, <<points, width>>}
    /\ object.nports = width
    /\ object.f = Array(<<points>>, Elements(call.f))
    /\ object.s = Array(<<points, width, width>>, Elements(call.s))
    /\ object.z0 = Array(<<points, width>>, References(call.z0, points, width))

LEMMA ArgumentsFit ==
    ASSUME ObjectInv, object # NoObject, call.entry = "new"
    PROVE  \E points \in Nat, width \in Nat : IsBuiltOf(points, width)
<1>1. ShapesFit(call.s, call.f, call.z0) /\ object = Constructed
  BY DEF ObjectInv
<1>2. /\ call.f.shape \in Seq(Nat) /\ Len(call.f.shape) = 1
      /\ call.s.shape \in Seq(Nat) /\ Len(call.s.shape) = 3
  BY ViewsAssumption DEF ObjectInv
<1>3. PICK points \in Nat, width \in Nat :
         points = call.s.shape[1] /\ width = call.s.shape[2]
  <2>1. PICK shape \in Seq(Nat) : shape = call.s.shape /\ Len(shape) = 3
    BY <1>2
  <2>2. shape[1] \in Nat /\ shape[2] \in Nat
    BY <2>1
  <2>. QED
    BY <2>1, <2>2
<1>4. call.s.shape[3] = width /\ call.f.shape[1] = points
  BY <1>1, <1>3 DEF ShapesFit
<1>5. call.s.shape = <<points, width, width>>
  BY <1>2, <1>3, <1>4, ShapeOfThree
<1>6. call.f.shape = <<points>>
  BY <1>2, <1>4, ShapeOfOne
<1>7. \/ call.z0.is = "none"
      \/ call.z0.is = "array" /\ call.z0.shape \in {<<width>>, <<points, width>>}
  BY <1>1, <1>3 DEF ShapesFit
<1>8. object = [nports |-> width,
                f      |-> Array(<<points>>, Elements(call.f)),
                s      |-> Array(<<points, width, width>>, Elements(call.s)),
                z0     |-> Array(<<points, width>>, References(call.z0, points, width)),
                noise  |-> <<>>]
  BY <1>1, <1>3, <1>4 DEF Constructed
<1>9. IsBuiltOf(points, width)
  BY <1>5, <1>6, <1>7, <1>8 DEF IsBuiltOf
<1>. QED
  BY <1>9

(* The references of an object constructed, one for each point and port.     *)
LEMMA ReferencesFill ==
    ASSUME NEW z0, NEW points \in Nat, NEW width \in Nat,
           \/ z0.is = "none"
           \/ z0.is = "array" /\ z0.shape \in {<<width>>, <<points, width>>}
    PROVE  Len(References(z0, points, width)) = points * width
<1>1. PICK size \in Nat : size = points * width
  OBVIOUS
<1>2. CASE z0.is = "none"
  <2>1. References(z0, points, width) = [k \in 1..size |-> Fifty]
    BY <1>1, <1>2 DEF References
  <2>. QED
    BY <1>1, <2>1
<1>3. CASE z0.is = "array" /\ z0.shape = <<width>>
  <2>1. PICK flat : flat = Elements(z0)
    OBVIOUS
  <2>2. Len(z0.shape) = 1
    BY <1>3
  <2>3. References(z0, points, width) = [k \in 1..size |-> flat[((k - 1) % width) + 1]]
    BY <1>1, <1>3, <2>1, <2>2 DEF References, Z0Values, Array
  <2>. QED
    BY <1>1, <2>3
<1>4. CASE z0.is = "array" /\ z0.shape = <<points, width>>
  <2>1. Len(z0.shape) # 1
    BY <1>4
  <2>2. References(z0, points, width) = Elements(z0)
    BY <1>4, <2>1 DEF References, Z0Values, Array
  <2>3. Size(z0.shape) = size
    BY <1>1, <1>4, TwoAxes
  <2>. QED
    BY <1>1, <2>2, <2>3, ElementsFillTheShape
<1>. QED
  BY <1>2, <1>3, <1>4

(* Shapes of reference resistances a network of points by width takes.       *)
RefersTo(z0, points, width) ==
    \/ z0.is = "none"
    \/ z0.is = "array" /\ z0.shape \in {<<width>>, <<points, width>>}

LEMMA ReferenceIsGiven ==
    ASSUME NEW z0, NEW points \in Nat, NEW width \in Nat,
           RefersTo(z0, points, width),
           NEW point \in 0..(points - 1), NEW row \in 0..(width - 1),
           NEW place \in Int, IsEntryOf(place, point, row, width)
    PROVE  References(z0, points, width)[place]
             = IF z0.is = "none" THEN Fifty
               ELSE IF Len(z0.shape) = 1 THEN Address(z0, <<row>>)
               ELSE Address(z0, <<point, row>>)
<1>0. width \in Nat \ {0}
  OBVIOUS
<1>1. PICK x \in 0..(points * width - 1) : x = point * width + row
  BY <1>0, OffsetIsInside
<1>2. x + 1 \in 1..(points * width) /\ (x + 1) - 1 = x /\ place = x + 1
  BY <1>1 DEF IsEntryOf
<1>3. CASE z0.is = "none"
  <2>1. References(z0, points, width)[x + 1] = Fifty
    BY <1>2, <1>3 DEF References
  <2>. QED
    BY <1>2, <1>3, <2>1
<1>4. CASE z0.is = "array" /\ z0.shape = <<width>>
  <2>1. PICK flat : flat = Elements(z0)
    OBVIOUS
  <2>2. Len(z0.shape) = 1 /\ z0.is # "none"
    BY <1>4
  <2>3. References(z0, points, width)
          = [k \in 1..(points * width) |-> flat[((k - 1) % width) + 1]]
    BY <1>4, <2>1, <2>2 DEF References, Z0Values, Array
  <2>4. References(z0, points, width)[x + 1] = flat[(((x + 1) - 1) % width) + 1]
    BY <1>2, <2>3
  <2>5. x % width = row
    BY <1>0, <1>1, OffsetNamesItsPlace
  <2>6. References(z0, points, width)[x + 1] = flat[row + 1]
    BY <1>2, <2>4, <2>5
  <2>7. flat[row + 1] = Address(z0, <<row>>)
    BY <1>4, <2>1, ElementOfOne
  <2>. QED
    BY <1>2, <2>2, <2>6, <2>7
<1>5. CASE z0.is = "array" /\ z0.shape = <<points, width>>
  <2>1. Len(z0.shape) # 1 /\ z0.is # "none"
    BY <1>5
  <2>2. References(z0, points, width) = Elements(z0)
    BY <1>5, <2>1 DEF References, Z0Values, Array
  <2>3. Elements(z0)[place] = Address(z0, <<point, row>>)
    <3>1. Elements(z0)[point * width + row + 1] = Address(z0, <<point, row>>)
      BY <1>5, ElementOfTwo
    <3>. QED
      BY <3>1 DEF IsEntryOf
  <2>. QED
    BY <2>1, <2>2, <2>3
<1>. QED
  BY <1>3, <1>4, <1>5 DEF RefersTo
-----------------------------------------------------------------------------
(* An object read, of the network its reader made.                           *)
IsReadOf(points, width) ==
    /\ points = Len(freqHz) /\ width = ports
    /\ object.nports = width
    /\ object.f = Array(<<points>>, freqHz)
    /\ object.s = Array(<<points, width, width>>, [k \in 1..((points * width) * width) |-> k - 1])
    /\ object.z0 = Array(<<points, width>>, [k \in 1..(points * width) |-> k - 1])

LEMMA ReadNetworkFits ==
    ASSUME SweepInv, ObjectInv, object # NoObject, call.entry = "read"
    PROVE  \E points \in Nat, width \in Nat : IsReadOf(points, width)
<1>1. result = "network" /\ object = FromCore
  BY DEF ObjectInv
<1>2. PICK points \in Nat, width \in Nat : points = Len(freqHz) /\ width = ports
  BY <1>1, PortCountsAssumption DEF SweepInv
<1>3. entries = (points * width) * width /\ references = points * width
  <2>1. entries = points * (width * width) /\ references = points * width
    BY <1>1, <1>2 DEF SweepInv
  <2>. QED
    BY <2>1
<1>4. object = [nports |-> width,
                f      |-> Array(<<points>>, freqHz),
                s      |-> Array(<<points, width, width>>,
                                 [k \in 1..((points * width) * width) |-> k - 1]),
                z0     |-> Array(<<points, width>>, [k \in 1..(points * width) |-> k - 1]),
                noise  |-> noiseHz]
  BY <1>1, <1>2, <1>3 DEF FromCore, ReferenceShape
<1>5. IsReadOf(points, width)
  BY <1>2, <1>4 DEF IsReadOf
<1>. QED
  BY <1>5

(* The five things ObjectsAreWhole asks, of arrays given in one row.         *)
LEMMA WholeArrays ==
    ASSUME NEW points \in Nat, NEW width \in Nat, NEW f, NEW ss, NEW zs,
           object.nports = width,
           object.f = Array(<<points>>, f), Len(f) = points,
           object.s = Array(<<points, width, width>>, ss), Len(ss) = (points * width) * width,
           object.z0 = Array(<<points, width>>, zs), Len(zs) = points * width
    PROVE  ObjectsAreWhole
<1>1. /\ object.f.shape = <<points>> /\ object.f.flat = f
      /\ object.s.shape = <<points, width, width>> /\ object.s.flat = ss
      /\ object.z0.shape = <<points, width>> /\ object.z0.flat = zs
  BY DEF Array
<1>2. Size(<<points, width, width>>) = (points * width) * width
  BY ThreeAxes
<1>3. Size(<<points, width>>) = points * width
  BY TwoAxes
<1>4. Reshapes(object.s) /\ Reshapes(object.z0)
  BY <1>1, <1>2, <1>3 DEF Reshapes
<1>. QED
  BY <1>1, <1>4 DEF ObjectsAreWhole

LEMMA WholeByInvariant == PyInv => ObjectsAreWhole
<1>. SUFFICES ASSUME PyInv, object # NoObject
              PROVE  ObjectsAreWhole
  BY DEF ObjectsAreWhole
<1>1. CASE call.entry = "read"
  <2>1. PICK points \in Nat, width \in Nat : IsReadOf(points, width)
    BY <1>1, ReadNetworkFits DEF PyInv
  <2>2. PICK cells \in Nat, pairs \in Nat :
           cells = (points * width) * width /\ pairs = points * width
    OBVIOUS
  <2>3. PICK ss, zs : ss = [k \in 1..cells |-> k - 1] /\ zs = [k \in 1..pairs |-> k - 1]
    OBVIOUS
  <2>4. Len(ss) = cells /\ Len(zs) = pairs /\ Len(freqHz) = points
    BY <2>1, <2>3 DEF IsReadOf
  <2>5. /\ object.nports = width
        /\ object.f = Array(<<points>>, freqHz)
        /\ object.s = Array(<<points, width, width>>, ss)
        /\ object.z0 = Array(<<points, width>>, zs)
    BY <2>1, <2>2, <2>3 DEF IsReadOf
  <2>. QED
    BY <2>2, <2>4, <2>5, WholeArrays
<1>2. CASE call.entry = "new"
  <2>1. PICK points \in Nat, width \in Nat : IsBuiltOf(points, width)
    BY <1>2, ArgumentsFit DEF PyInv
  <2>2. Len(Elements(call.f)) = points
    BY <2>1, OneAxis, ElementsFillTheShape DEF IsBuiltOf
  <2>3. Len(Elements(call.s)) = (points * width) * width
    <3>1. Size(<<points, width, width>>) = (points * width) * width
      BY ThreeAxes
    <3>2. Size(call.s.shape) = (points * width) * width /\ Size(call.s.shape) \in Nat
      BY <2>1, <3>1 DEF IsBuiltOf
    <3>. QED
      BY <3>2, ElementsFillTheShape
  <2>4. Len(References(call.z0, points, width)) = points * width
    BY <2>1, ReferencesFill DEF IsBuiltOf
  <2>. QED
    BY <2>1, <2>2, <2>3, <2>4, WholeArrays DEF IsBuiltOf
<1>. QED
  BY <1>1, <1>2 DEF PyInv, ObjectInv

(* Every Network object has arrays of the documented shapes, full to the     *)
(* last element, whether it was read from a file or constructed.             *)
THEOREM EveryObjectIsWhole == Spec => []ObjectsAreWhole
  BY WholeByInvariant, InitEstablishes, StepPreserves, PTL DEF Spec

LEMMA ReadObjectHolds ==
    ASSUME PyInv, object # NoObject, call.entry = "read",
           NEW point \in 0..(Len(object.f.flat) - 1), NEW row \in 0..(object.nports - 1)
    PROVE  /\ \A col \in 0..(ports - 1) :
                 Item(object.s, <<point, row, col>>) = At(ports, point, row, col)
           /\ Item(object.z0, <<point, row>>) = ReferenceAt(ports, point, row)
           /\ Item(object.f, <<point>>) = freqHz[point + 1]
<1>1. PICK points \in Nat, width \in Nat : IsReadOf(points, width)
  BY ReadNetworkFits DEF PyInv
<1>2. object.f.flat = freqHz
  BY <1>1 DEF IsReadOf, Array
<1>3. point \in 0..(points - 1) /\ row \in 0..(width - 1)
  BY <1>1, <1>2 DEF IsReadOf
<1>4. width \in Nat \ {0}
  BY <1>3
<1>5. PICK y \in 0..(points * width - 1) : y = point * width + row
  BY <1>3, <1>4, OffsetIsInside
<1>6. Item(object.f, <<point>>) = freqHz[point + 1]
  BY <1>1, <1>3, ItemOfOne DEF IsReadOf
<1>7. Item(object.z0, <<point, row>>) = y
  <2>1. PICK zs : zs = [k \in 1..(points * width) |-> k - 1]
    OBVIOUS
  <2>2. object.z0 = Array(<<points, width>>, zs)
    BY <1>1, <2>1 DEF IsReadOf
  <2>3. Item(object.z0, <<point, row>>) = zs[point * width + row + 1]
    BY <1>3, <2>2, ItemOfTwo
  <2>4. y + 1 \in 1..(points * width) /\ (y + 1) - 1 = y
    OBVIOUS
  <2>5. zs[y + 1] = y
    BY <2>1, <2>4
  <2>. QED
    BY <1>5, <2>3, <2>5
<1>8. ASSUME NEW col \in 0..(width - 1)
      PROVE  Item(object.s, <<point, row, col>>) = At(width, point, row, col)
  <2>1. PICK pairs \in Nat : pairs = points * width
    OBVIOUS
  <2>2. PICK x \in 0..(pairs * width - 1) : x = y * width + col
    BY <1>4, <1>5, <2>1, OffsetIsInside
  <2>3. PICK ss : ss = [k \in 1..(pairs * width) |-> k - 1]
    OBVIOUS
  <2>4. object.s = Array(<<points, width, width>>, ss)
    BY <1>1, <2>1, <2>3 DEF IsReadOf
  <2>5. Item(object.s, <<point, row, col>>) = ss[x + 1]
    <3>1. IsPlaceOf(x, point, row, col, width, width)
      BY <1>5, <2>2 DEF IsPlaceOf
    <3>. QED
      BY <1>3, <2>4, <3>1, ItemOfThree
  <2>6. x + 1 \in 1..(pairs * width) /\ (x + 1) - 1 = x
    OBVIOUS
  <2>7. ss[x + 1] = x
    BY <2>3, <2>6
  <2>8. Item(object.s, <<point, row, col>>) = x
    BY <2>5, <2>7
  <2>9. x = point * width * width + row * width + col
    BY <1>3, <1>5, <2>2
  <2>. QED
    BY <2>8, <2>9 DEF At
<1>9. width = ports
  BY <1>1 DEF IsReadOf
<1>. QED
  BY <1>5, <1>6, <1>7, <1>8, <1>9 DEF ReferenceAt

LEMMA BuiltObjectHolds ==
    ASSUME PyInv, object # NoObject, call.entry = "new",
           NEW point \in 0..(Len(object.f.flat) - 1), NEW row \in 0..(object.nports - 1)
    PROVE  /\ \A col \in 0..(object.nports - 1) :
                 Item(object.s, <<point, row, col>>) = Address(call.s, <<point, row, col>>)
           /\ Item(object.f, <<point>>) = Address(call.f, <<point>>)
           /\ Item(object.z0, <<point, row>>)
                = IF call.z0.is = "none" THEN Fifty
                  ELSE IF Len(call.z0.shape) = 1 THEN Address(call.z0, <<row>>)
                  ELSE Address(call.z0, <<point, row>>)
<1>1. PICK points \in Nat, width \in Nat : IsBuiltOf(points, width)
  BY ArgumentsFit DEF PyInv
<1>2. object.f.flat = Elements(call.f)
  BY <1>1 DEF IsBuiltOf, Array
<1>3. Len(Elements(call.f)) = points
  BY <1>1, OneAxis, ElementsFillTheShape DEF IsBuiltOf
<1>4. point \in 0..(points - 1) /\ row \in 0..(width - 1)
  BY <1>1, <1>2, <1>3 DEF IsBuiltOf
<1>5. Item(object.f, <<point>>) = Address(call.f, <<point>>)
  <2>1. PICK flat : flat = Elements(call.f)
    OBVIOUS
  <2>2. object.f = Array(<<points>>, flat) /\ call.f.shape = <<points>>
    BY <1>1, <2>1 DEF IsBuiltOf
  <2>3. Item(object.f, <<point>>) = flat[point + 1]
    BY <1>4, <2>2, ItemOfOne
  <2>. QED
    BY <1>4, <2>1, <2>2, <2>3, ElementOfOne
<1>6. ASSUME NEW col \in 0..(width - 1)
      PROVE  Item(object.s, <<point, row, col>>) = Address(call.s, <<point, row, col>>)
  <2>1. PICK flat : flat = Elements(call.s)
    OBVIOUS
  <2>2. object.s = Array(<<points, width, width>>, flat) /\ call.s.shape = <<points, width, width>>
    BY <1>1, <2>1 DEF IsBuiltOf
  <2>3. PICK x \in Int : IsPlaceOf(x, point, row, col, width, width)
    BY <1>4 DEF IsPlaceOf
  <2>4. Item(object.s, <<point, row, col>>) = flat[x + 1]
    <3>1. point \in Int /\ row \in Int /\ col \in Int
      BY <1>4
    <3>. QED
      BY <2>2, <2>3, <3>1, ItemOfThree
  <2>5. flat[x + 1] = Address(call.s, <<point, row, col>>)
    BY <1>4, <2>1, <2>2, <2>3, ElementOfThree
  <2>. QED
    BY <2>4, <2>5
<1>7. Item(object.z0, <<point, row>>)
        = IF call.z0.is = "none" THEN Fifty
          ELSE IF Len(call.z0.shape) = 1 THEN Address(call.z0, <<row>>)
          ELSE Address(call.z0, <<point, row>>)
  <2>1. PICK flat : flat = References(call.z0, points, width)
    OBVIOUS
  <2>2. object.z0 = Array(<<points, width>>, flat)
    BY <1>1, <2>1 DEF IsBuiltOf
  <2>3. PICK place \in Int : IsEntryOf(place, point, row, width)
    BY <1>4 DEF IsEntryOf
  <2>4. Item(object.z0, <<point, row>>) = flat[place]
    <3>1. Item(object.z0, <<point, row>>) = flat[point * width + row + 1]
      BY <1>4, <2>2, ItemOfTwo
    <3>. QED
      BY <2>3, <3>1 DEF IsEntryOf
  <2>5. flat[place]
          = IF call.z0.is = "none" THEN Fifty
            ELSE IF Len(call.z0.shape) = 1 THEN Address(call.z0, <<row>>)
            ELSE Address(call.z0, <<point, row>>)
    <3>1. PICK z0 : z0 = call.z0
      OBVIOUS
    <3>2. RefersTo(z0, points, width)
      BY <1>1, <3>1 DEF IsBuiltOf, RefersTo
    <3>3. References(z0, points, width)[place]
            = IF z0.is = "none" THEN Fifty
              ELSE IF Len(z0.shape) = 1 THEN Address(z0, <<row>>)
              ELSE Address(z0, <<point, row>>)
      BY <1>4, <2>3, <3>2, ReferenceIsGiven
    <3>. QED
      BY <2>1, <3>1, <3>3
  <2>. QED
    BY <2>4, <2>5
<1>8. object.nports = width
  BY <1>1 DEF IsBuiltOf
<1>. QED
  BY <1>5, <1>6, <1>7, <1>8

LEMMA HeldByInvariant == PyInv => ObjectsHoldWhatWasGiven
<1>. SUFFICES ASSUME PyInv, object # NoObject
              PROVE  ObjectsHoldWhatWasGiven
  BY DEF ObjectsHoldWhatWasGiven
<1>1. CASE call.entry = "read"
  BY <1>1, ReadObjectHolds DEF ObjectsHoldWhatWasGiven
<1>2. CASE call.entry = "new"
  BY <1>2, BuiltObjectHolds DEF ObjectsHoldWhatWasGiven
<1>. QED
  BY <1>1, <1>2 DEF PyInv, ObjectInv

(* Every element of an object is the one Network::at or z0_at gives of the   *)
(* network read, or the caller's own at that index, whatever the order its   *)
(* arrays lie in memory in.                                                  *)
THEOREM EveryElementIsGiven == Spec => []ObjectsHoldWhatWasGiven
  BY HeldByInvariant, InitEstablishes, StepPreserves, PTL DEF Spec
-----------------------------------------------------------------------------
(* Reading a run of digits: each step is ten times the one before it and the *)
(* next digit.                                                               *)
Decimal(digits) == FoldLeft(LAMBDA sum, d : 10 * sum + Value(d), 0, digits)

IsDecimal(it, digits) ==
    /\ it[0] = 0
    /\ \A k \in 1..Len(digits) : it[k] = 10 * it[k - 1] + Value(digits[k])
    /\ Decimal(digits) = it[Len(digits)]

LEMMA DigitHasValue ==
    ASSUME NEW d \in Range(Digits)
    PROVE  Value(d) \in 0..9
<1>1. DOMAIN Digits = 1..10
  BY DEF Digits
<1>2. \E j \in 1..10 : Digits[j] = d
  BY <1>1 DEF Range
<1>3. (CHOOSE j \in 1..10 : Digits[j] = d) \in 1..10
  BY <1>2
<1>4. PICK place \in 1..10 : place = (CHOOSE j \in 1..10 : Digits[j] = d)
  BY <1>3
<1>5. Value(d) = place - 1
  BY <1>4 DEF Value
<1>. QED
  BY <1>5

LEMMA DecimalIsRead ==
    ASSUME NEW S, NEW digits \in Seq(S), \A k \in 1..Len(digits) : digits[k] \in Range(Digits)
    PROVE  \E it : IsDecimal(it, digits)
<1>1. PICK last \in Nat : last = Len(digits)
  OBVIOUS
<1>2. DOMAIN digits = 1..last
  BY <1>1
<1>0. \A k \in 1..last : Value(digits[k]) \in Int
  <2>1. SUFFICES ASSUME NEW k \in 1..last PROVE Value(digits[k]) \in Int
    OBVIOUS
  <2>2. Value(digits[k]) \in 0..9
    BY <1>1, DigitHasValue
  <2>. QED
    BY <2>2
<1> DEFINE step == [k \in 1..last |-> [x \in Int |-> 10 * x + Value(digits[k])]]
           Rec(g) == g = [t \in SUBSET (DOMAIN digits) |->
                             IF t = {} THEN 0
                             ELSE 10 * g[t \ {Max(t)}] + Value(digits[Max(t)])]
<1>3. step \in [1..last -> [Int -> Int]] /\ 0 \in Int
  BY <1>0
<1>4. PICK it \in [SUBSET (1..last) -> Int] : IsFold(it, last, 0, step)
  <2> HIDE DEF step
  <2>. QED
    BY <1>3, FoldIsDefined DEF FoldsOver
<1>5. Rec(it)
  <2>1. ASSUME NEW t \in SUBSET (1..last), t # {}
        PROVE  it[t] = 10 * it[t \ {Max(t)}] + Value(digits[Max(t)])
    <3>1. it[t] = step[Max(t)][it[t \ {Max(t)}]]
      BY <1>4, <2>1 DEF IsFold
    <3>2. Max(t) \in 1..last
      BY <2>1, MaxIsInside
    <3>3. PICK m \in 1..last : m = Max(t)
      BY <3>2
    <3>4. it[t \ {m}] \in Int
      OBVIOUS
    <3>5. step[m][it[t \ {m}]] = 10 * it[t \ {m}] + Value(digits[m])
      BY <3>4
    <3>. QED
      BY <3>1, <3>3, <3>5
  <2>2. it[{}] = 0
    BY <1>4 DEF IsFold
  <2>. QED
    BY <1>2, <2>1, <2>2
<1>6. Decimal(digits) = (CHOOSE g : Rec(g))[DOMAIN digits]
  BY DEF Decimal, FoldLeft, MapThenFoldSet
<1>7. PICK g : Rec(g) /\ Decimal(digits) = g[1..last]
  <2> HIDE DEF Rec
  <2>. QED
    BY <1>2, <1>5, <1>6
<1>8. g[{}] = 0 /\ \A t \in SUBSET (1..last) :
                      t # {} => g[t] = 10 * g[t \ {Max(t)}] + Value(digits[Max(t)])
  BY <1>2, <1>7
<1> DEFINE run == [k \in 0..last |-> g[1..k]]
<1>9. run[0] = 0
  <2>1. 1..0 = {}
    OBVIOUS
  <2>. QED
    BY <1>8, <2>1
<1>10. ASSUME NEW k \in 1..last
       PROVE  run[k] = 10 * run[k - 1] + Value(digits[k])
  <2>1. Max(1..k) = k /\ (1..k) \ {k} = 1..(k - 1) /\ 1..k # {}
    BY LastOfTheFirst, SMTT(30)
  <2>2. 1..k \in SUBSET (1..last)
    OBVIOUS
  <2>3. g[1..k] = 10 * g[1..(k - 1)] + Value(digits[k])
    BY <1>8, <2>1, <2>2
  <2>. QED
    BY <2>3
<1>11. run[last] = g[1..last]
  OBVIOUS
<1>12. IsDecimal(run, digits)
  <2> HIDE DEF run
  <2>. QED
    BY <1>1, <1>7, <1>9, <1>10, <1>11 DEF IsDecimal
<1>. QED
  BY <1>12

(* The powers of ten NamesPorts speaks of.                                   *)
ArePowers(power, last) ==
    /\ power[0] = 1
    /\ \A k \in 1..last : power[k] = 10 * power[k - 1]
    /\ \A k \in 0..last : power[k] \in Nat \ {0}

Powers(last) ==
    CHOOSE power : power = [k \in 0..last |-> IF k = 0 THEN 1 ELSE 10 * power[k - 1]]

LEMMA PowersArePowers ==
    ASSUME NEW last \in Nat
    PROVE  ArePowers(Powers(last), last)
<1> DEFINE Rec(g) == g = [k \in 0..last |-> IF k = 0 THEN 1 ELSE 10 * g[k - 1]]
           V == Nat \ {0}
           step == [k \in 1..last |-> [x \in V |-> 10 * x]]
<1>1. step \in [1..last -> [V -> V]] /\ 1 \in V
  OBVIOUS
<1>2. IsDefined(last, V, 1, step)
  <2> HIDE DEF V, step
  <2>. QED
    BY <1>1, RecursionDefines
<1>3. PICK g \in [0..last -> V] : g[0] = 1 /\ \A k \in 1..last : g[k] = step[k][g[k - 1]]
  BY <1>2 DEF IsDefined
<1>4. \A k \in 1..last : g[k] = 10 * g[k - 1]
  <2>1. SUFFICES ASSUME NEW k \in 1..last PROVE g[k] = 10 * g[k - 1]
    OBVIOUS
  <2>2. g[k - 1] \in V
    OBVIOUS
  <2>. QED
    BY <1>3, <2>2
<1>5. Rec(g)
  BY <1>3, <1>4
<1>6. Rec(Powers(last))
  <2> HIDE DEF Rec
  <2>1. Powers(last) = CHOOSE h : Rec(h)
    BY DEF Powers, Rec
  <2>. QED
    BY <1>5, <2>1
<1>7. PICK power : power = Powers(last)
  OBVIOUS
<1>8. power[0] = 1 /\ \A k \in 1..last : power[k] = 10 * power[k - 1]
  BY <1>6, <1>7
<1>9. \A k \in 0..last : power[k] \in V
  <2> DEFINE T == {k \in 0..last : power[k] \in V}
  <2>1. 0 \in T
    BY <1>8
  <2>2. \A k \in 1..last : k - 1 \in T => k \in T
    <3>1. SUFFICES ASSUME NEW k \in 1..last, k - 1 \in T PROVE k \in T
      OBVIOUS
    <3>2. power[k] = 10 * power[k - 1] /\ power[k - 1] \in V
      BY <1>8, <3>1
    <3>. QED
      BY <3>2
  <2>3. \A k \in 0..last : k \in T
    <3> HIDE DEF T
    <3>. QED
      BY <2>1, <2>2, StepByStep
  <2>. QED
    BY <2>3
<1>. QED
  BY <1>7, <1>8, <1>9 DEF ArePowers

(* Ten times the quotient by ten times q, and one more digit.                *)
Quotient(x, q) == x \div q
Digit(x, q) == (x \div q) % 10

LEMMA OneMoreDigit ==
    ASSUME NEW x \in Nat, NEW q \in Nat \ {0}, NEW p \in Nat, p = 10 * q
    PROVE  Quotient(x, q) = 10 * Quotient(x, p) + Digit(x, q)
<1>1. PICK a \in Int, r \in 0..(p - 1) : x \div p = a /\ x = p * a + r
  BY QuotientAndRemainder
<1>2. PICK d \in Int, e \in 0..(q - 1) : r \div q = d /\ r = q * d + e
  BY QuotientAndRemainder
<1>3. d \in 0..9
  <2>1. ~(d < 0)
    <3>1. SUFFICES ASSUME d + 1 <= 0 PROVE FALSE
      OBVIOUS
    <3>2. q * (d + 1) <= 0
      BY <3>1
    <3>3. q * (d + 1) = q * d + q
      OBVIOUS
    <3>. QED
      BY <1>2, <3>2, <3>3
  <2>2. ~(d > 9)
    <3>1. SUFFICES ASSUME d - 10 >= 0 PROVE FALSE
      OBVIOUS
    <3>2. q * (d - 10) >= 0
      BY <3>1
    <3>3. q * (d - 10) = q * d - p
      OBVIOUS
    <3>. QED
      BY <1>2, <3>2, <3>3
  <2>. QED
    BY <2>1, <2>2
<1>4. PICK y \in Int : y = 10 * a + d
  OBVIOUS
<1>5. x = y * q + e
  <2>1. p * a = q * (10 * a)
    OBVIOUS
  <2>2. y * q = q * (10 * a) + q * d
    BY <1>4
  <2>. QED
    BY <1>1, <1>2, <2>1, <2>2
<1>6. Splits(x, q, y, e)
  BY <1>5, PlaceSplits
<1>7. Splits(y, 10, a, d)
  <2>1. y = a * 10 + d /\ 10 \in Nat \ {0} /\ d \in 0..(10 - 1)
    BY <1>3, <1>4
  <2>. QED
    BY <2>1, PlaceSplits
<1>8. x \div q = y /\ y % 10 = d
  BY <1>6, <1>7 DEF Splits
<1>9. Quotient(x, q) = y /\ Quotient(x, p) = a
  BY <1>1, <1>8 DEF Quotient
<1>10. Digit(x, q) = d
  BY <1>8 DEF Digit
<1>. QED
  BY <1>1, <1>3, <1>4, <1>9, <1>10

(* What NamesPorts says, of its digits alone.                                *)
IsSpelt(extension, x, from, last, power) ==
    /\ from \in 2..3 /\ from <= last
    /\ from = 3 => extension[2] = "+"
    /\ \A i \in from..last :
          /\ extension[i] \in Range(Digits)
          /\ Value(extension[i]) = (x \div power[last - i]) % 10
    /\ x < power[last - from + 1]

AreDigitsOf(digits, extension, x, from, last, power) ==
    /\ ArePowers(power, last + 1)
    /\ IsSpelt(extension, x, from, last, power)
    /\ Len(digits) = last - from + 1
    /\ \A k \in 1..Len(digits) : digits[k] = extension[from + k - 1]

Spell(digits, x) ==
    \E extension, from, power : \E last \in Nat :
        AreDigitsOf(digits, extension, x, from, last, power)

LEMMA DigitsNameTheNumber ==
    ASSUME NEW x \in Nat, NEW digits \in Seq(STRING), Spell(digits, x)
    PROVE  Decimal(digits) = x /\ \A k \in 1..Len(digits) : digits[k] \in Range(Digits)
<1>0. PICK extension, from, power :
         \E last \in Nat : AreDigitsOf(digits, extension, x, from, last, power)
  BY DEF Spell
<1>00. PICK last \in Nat : AreDigitsOf(digits, extension, x, from, last, power)
  BY <1>0
<1>. /\ ArePowers(power, last + 1)
     /\ IsSpelt(extension, x, from, last, power)
     /\ Len(digits) = last - from + 1
     /\ \A k \in 1..Len(digits) : digits[k] = extension[from + k - 1]
  BY <1>00 DEF AreDigitsOf
<1>1. PICK m \in Nat : m = last - from + 1
  BY DEF IsSpelt
<1>2. from \in 2..3 /\ from \in Int /\ m <= last
  BY <1>1 DEF IsSpelt
<1>3. ASSUME NEW k \in 1..m
      PROVE  /\ digits[k] \in Range(Digits)
             /\ Value(digits[k]) = Digit(x, power[m - k])
  <2>1. from + k - 1 \in from..last /\ last - (from + k - 1) = m - k
    BY <1>1, <1>2
  <2>2. digits[k] = extension[from + k - 1]
    BY <1>1
  <2>. QED
    BY <2>1, <2>2 DEF IsSpelt, Digit
<1>4. PICK it : IsDecimal(it, digits)
  BY <1>1, <1>3, DecimalIsRead
<1> DEFINE T == {k \in 0..m : it[k] = Quotient(x, power[m - k])}
<1>5. 0 \in T
  <2>1. power[m] \in Nat \ {0} /\ x < power[m]
    BY <1>1, <1>2, SMTT(30) DEF ArePowers, IsSpelt
  <2>2. Splits(x, power[m], 0, x)
    <3>1. PICK p \in Nat \ {0} : p = power[m] /\ x \in 0..(p - 1) /\ x = 0 * p + x
      BY <2>1
    <3>. QED
      BY <3>1, PlaceSplits
  <2>3. it[0] = 0 /\ m - 0 = m
    BY <1>4 DEF IsDecimal
  <2>. QED
    BY <2>2, <2>3 DEF Splits, Quotient
<1>6. \A k \in 1..m : k - 1 \in T => k \in T
  <2>1. SUFFICES ASSUME NEW k \in 1..m, k - 1 \in T PROVE k \in T
    OBVIOUS
  <2>2. PICK q \in Nat \ {0}, p \in Nat : q = power[m - k] /\ p = power[m - k + 1] /\ p = 10 * q
    <3>1. m - k + 1 \in 1..(last + 1) /\ (m - k + 1) - 1 = m - k /\ m - k \in 0..(last + 1)
      BY <1>2
    <3>2. power[m - k] \in Nat \ {0} /\ power[m - k + 1] = 10 * power[m - k]
      BY <3>1 DEF ArePowers
    <3>3. PICK q \in Nat \ {0} : q = power[m - k]
      BY <3>2
    <3>4. 10 * q \in Nat /\ 10 * q = power[m - k + 1]
      BY <3>2, <3>3
    <3>. QED
      BY <3>3, <3>4
  <2>3. it[k - 1] = Quotient(x, p)
    <3>1. it[k - 1] = Quotient(x, power[m - (k - 1)]) /\ m - (k - 1) = m - k + 1
      BY <2>1
    <3>. QED
      BY <2>2, <3>1
  <2>4. it[k] = 10 * it[k - 1] + Value(digits[k])
    BY <1>1, <1>4 DEF IsDecimal
  <2>5. Value(digits[k]) = Digit(x, q)
    BY <1>3, <2>2
  <2>6. Quotient(x, q) = 10 * Quotient(x, p) + Digit(x, q)
    BY <2>2, OneMoreDigit
  <2>7. it[k] = Quotient(x, q)
    BY <2>3, <2>4, <2>5, <2>6
  <2>. QED
    BY <2>2, <2>7
<1>7. m \in T
  <2>1. m \in 0..m
    OBVIOUS
  <2> HIDE DEF T
  <2>. QED
    BY <1>5, <1>6, <2>1, StepByStep
<1>8. it[m] = x
  <2>1. power[m - m] = 1 /\ Quotient(x, 1) = x
    BY <1>1 DEF ArePowers, Quotient
  <2>. QED
    BY <1>7, <2>1
<1>. QED
  BY <1>1, <1>3, <1>4, <1>8 DEF IsDecimal

LEMMA PlusIsNoDigit == "+" \notin Range(Digits)
BY DEF Range, Digits

LEMMA DigitsParse ==
    ASSUME NEW chars, NEW digits \in Seq(STRING), NEW x \in 1..MaxUsize,
           digits = IF chars # <<>> /\ chars[1] = "+" THEN Tail(chars) ELSE chars,
           digits # <<>>, \A k \in 1..Len(digits) : digits[k] \in Range(Digits),
           Decimal(digits) = x
    PROVE  ParseUsize(chars) = x
<1>1. ToSet(digits) \subseteq Range(Digits)
  <2>1. DOMAIN digits = 1..Len(digits)
    OBVIOUS
  <2>. QED
    BY <2>1 DEF ToSet
<1>2. Fits(x)
  BY MaxUsizeAssumption DEF Fits
<1>3. ParseUsize(chars) = IF digits = <<>> \/ ~ToSet(digits) \subseteq Range(Digits)
                          THEN None
                          ELSE IF Fits(Decimal(digits)) THEN Decimal(digits) ELSE None
  BY DEF ParseUsize, Decimal
<1>. QED
  BY <1>1, <1>2, <1>3

(* An extension that names a port count asserts it.                          *)
LEMMA ExtensionNames ==
    ASSUME NEW extension \in Seq(STRING), NEW x \in 1..MaxUsize, NamesPorts(extension, x)
    PROVE  NportsFromExtension(extension) = x
<1>1. PICK length \in Nat : length = Len(extension)
  OBVIOUS
<1>2. PICK last \in Int : last = length - 1
  OBVIOUS
<1>3. PICK from \in 2..3 :
         /\ from <= last
         /\ extension[1] \in {"s", "S"} /\ Last(extension) \in {"p", "P"}
         /\ from = 3 => extension[2] = "+"
         /\ \A i \in from..last :
               /\ extension[i] \in Range(Digits)
               /\ Value(extension[i]) = (x \div Powers(length)[last - i]) % 10
         /\ x < Powers(length)[last - from + 1]
  BY <1>1, <1>2 DEF NamesPorts, Powers
<1>4. last \in Nat /\ length = last + 1 /\ length >= 3 /\ x \in Nat /\ x # 0
  BY <1>2, <1>3
<1>5. PICK power : power = Powers(last + 1) /\ ArePowers(power, last + 1)
  BY <1>4, PowersArePowers
<1>6. IsSpelt(extension, x, from, last, power)
  BY <1>3, <1>4, <1>5 DEF IsSpelt
<1>7. PICK chars : chars = SubSeq(extension, 2, length - 1)
  OBVIOUS
<1>8. /\ chars \in Seq(STRING) /\ Len(chars) = last - 1
      /\ \A i \in 1..(last - 1) : chars[i] = extension[i + 1]
  <2>1. \A i \in 2..last : extension[i] \in STRING
    <3>1. SUFFICES ASSUME NEW i \in 2..last PROVE extension[i] \in STRING
      OBVIOUS
    <3>2. i \in 1..Len(extension)
      BY <1>1, <1>4
    <3>. QED
      BY <3>2
  <2>2. /\ chars \in Seq(STRING)
        /\ Len(chars) = IF 2 <= last THEN last - 2 + 1 ELSE 0
        /\ \A i \in 1..(last - 2 + 1) : chars[i] = extension[2 + i - 1]
    BY <1>2, <1>7, <2>1, SubSeqProperties
  <2>. QED
    BY <1>2, <1>3, <2>2
<1>9. chars # <<>> /\ chars[1] = extension[2]
  BY <1>3, <1>8
<1>10. PICK digits : digits = IF chars # <<>> /\ chars[1] = "+" THEN Tail(chars) ELSE chars
  OBVIOUS
<1>11. /\ digits \in Seq(STRING) /\ Len(digits) = last - from + 1
       /\ \A k \in 1..(last - from + 1) : digits[k] = extension[from + k - 1]
  <2>1. CASE from = 2
    <3>1. extension[2] \in Range(Digits)
      BY <1>3, <2>1
    <3>2. digits = chars
      BY <1>9, <1>10, <3>1, PlusIsNoDigit
    <3>. QED
      BY <1>2, <1>8, <2>1, <3>2
  <2>2. CASE from = 3
    <3>1. digits = Tail(chars)
      BY <1>3, <1>9, <1>10, <2>2
    <3>2. /\ digits \in Seq(STRING) /\ Len(digits) = last - 2
          /\ \A k \in 1..(last - 2) : digits[k] = chars[k + 1]
      BY <1>8, <1>9, <3>1
    <3>3. \A k \in 1..(last - 2) : chars[k + 1] = extension[k + 1 + 1]
      BY <1>2, <1>8
    <3>. QED
      BY <1>2, <2>2, <3>2, <3>3, SMTT(30)
  <2>. QED
    BY <2>1, <2>2
<1>12. Decimal(digits) = x /\ \A k \in 1..Len(digits) : digits[k] \in Range(Digits)
  <2>1. \A k \in 1..Len(digits) : digits[k] = extension[from + k - 1]
    BY <1>11
  <2>2. AreDigitsOf(digits, extension, x, from, last, power)
    BY <1>5, <1>6, <1>11, <2>1 DEF AreDigitsOf
  <2>3. Spell(digits, x)
    BY <1>4, <2>2 DEF Spell
  <2>. QED
    BY <1>4, <1>11, <2>3, DigitsNameTheNumber
<1>13. digits # <<>>
  BY <1>3, <1>4, <1>11
<1>14. ParseUsize(chars) = x
  BY <1>10, <1>11, <1>12, <1>13, DigitsParse
<1>15. ~(Len(extension) < 3) /\ extension[1] \in {"s", "S"} /\ Last(extension) \in {"p", "P"}
  BY <1>1, <1>3, <1>4
<1>. QED
  BY <1>1, <1>4, <1>7, <1>14, <1>15 DEF NportsFromExtension
-----------------------------------------------------------------------------
(* The count a call asserts once its file is open.                           *)
Asserted == IF call.entry = "str" THEN call.nports ELSE CallerBeforeName(call)

CountInv ==
    /\ stage = "idle" <=> call.entry \notin {"str", "file", "read"}
    /\ stage = "open" => call.entry # "str"
    /\ stage \notin {"idle", "open"} => requested = Asserted
    /\ stage # "reading" => ports = None /\ result # "network"
    /\ ports # None /\ requested # None => ports = requested

LEMMA CountStarts == Init => CountInv
<1>. SUFFICES ASSUME Init PROVE CountInv
  OBVIOUS
<1>1. ports = None /\ result = "reading"
  BY DEF Init, ReadInit, Reader!Init
<1>2. CASE call.entry = "str"
  <2>1. stage = "endings" /\ requested = call.nports
    BY <1>2 DEF Init, ReadInit
  <2>. QED
    BY <1>1, <1>2, <2>1 DEF CountInv, Asserted
<1>3. CASE call.entry \in {"file", "read"}
  <2>1. stage = "open"
    BY <1>3 DEF Init, ReadInit
  <2>. QED
    BY <1>1, <1>3, <2>1 DEF CountInv
<1>4. CASE call.entry \notin {"str", "file", "read"}
  <2>1. stage = "idle"
    BY <1>4 DEF Init, ReadInit
  <2>. QED
    BY <1>1, <1>4, <2>1 DEF CountInv
<1>. QED
  BY <1>2, <1>3, <1>4

LEMMA CountGoesOn == CountInv /\ [Next]_vars => CountInv'
<1>. SUFFICES ASSUME CountInv, [Next]_vars
              PROVE  CountInv'
  OBVIOUS
<1>1. CASE OpenFile
  <2>1. stage = "open" /\ UNCHANGED <<call, ports>>
    BY <1>1 DEF OpenFile, Fail, GoOn, sweep
  <2>2. call.entry # "str" /\ call.entry \in {"str", "file", "read"}
    BY <2>1 DEF CountInv
  <2>3. ports' = None
    BY <2>1 DEF CountInv
  <2>4. CASE Fail("Io", 0)
    <3>1. result' = "error" /\ stage' = "open"
      BY <2>1, <2>4 DEF Fail
    <3>. QED
      BY <2>1, <2>2, <2>3, <3>1 DEF CountInv
  <2>5. CASE requested' = CallerBeforeName(call) /\ GoOn("endings")
    <3>1. stage' = "endings" /\ result' = result
      BY <2>5 DEF GoOn
    <3>2. requested' = Asserted'
      BY <2>1, <2>2, <2>5 DEF Asserted, CallerBeforeName
    <3>3. result' # "network"
      BY <2>1, <3>1 DEF CountInv
    <3>. QED
      BY <2>1, <2>2, <2>3, <3>1, <3>2, <3>3 DEF CountInv
  <2>. QED
    BY <1>1, <2>4, <2>5 DEF OpenFile
<1>2. CASE CheckLineEndings \/ StripMarker \/ Sniff
  <2>1. /\ UNCHANGED <<call, requested, ports>>
        /\ stage \in {"endings", "marker", "sniff"}
        /\ stage' \in {"endings", "marker", "sniff", "reading"}
        /\ result' \in {result, "error"}
    BY <1>2 DEF CheckLineEndings, StripMarker, Sniff, Fail, GoOn, sweep
  <2>2. Asserted' = Asserted
    BY <2>1 DEF Asserted, CallerBeforeName
  <2>. QED
    BY <2>1, <2>2 DEF CountInv
<1>3. CASE Read
  <2>1. stage = "reading" /\ UNCHANGED <<call, stage, requested>> /\ Reader!Next
    BY <1>3 DEF Read, Reader!Next, Reader!AddPoint, Reader!AddNoisePoint, Reader!Accept,
                Reader!Reject
  <2>2. ports' = ports \/ requested \in {None, ports'}
    BY <2>1 DEF Reader!Next, Reader!AddPoint, Reader!AddNoisePoint, Reader!Accept,
                Reader!Reject
  <2>3. Asserted' = Asserted
    BY <2>1 DEF Asserted, CallerBeforeName
  <2>. QED
    BY <2>1, <2>2, <2>3 DEF CountInv
<1>4. CASE UNCHANGED readVars
  <2>1. UNCHANGED <<call, stage, requested, result, ports>>
    BY <1>4 DEF readVars, sweep
  <2>2. Asserted' = Asserted
    BY <2>1 DEF Asserted, CallerBeforeName
  <2>. QED
    BY <2>1, <2>2 DEF CountInv
<1>. QED
  BY <1>1, <1>2, <1>3, <1>4
     DEF Next, ReadNext, Steps, HandOver, Construct, Done, Raise, Build, vars

LEMMA CountByInvariant == SweepInv /\ ObjectInv /\ CountInv => CountIsHonoured
<1>. SUFFICES ASSUME SweepInv, ObjectInv, CountInv, result = "network"
              PROVE  /\ call.nports # None => ports = call.nports
                     /\ call.nports = None /\ call.entry # "str" =>
                           \A x \in 1..MaxUsize : NamesPorts(call.extension, x) => ports = x
  BY DEF CountIsHonoured
<1>1. stage = "reading" /\ call.entry \in {"str", "file", "read"} /\ requested = Asserted
  BY DEF CountInv
<1>2. ports # None
  BY DEF SweepInv
<1>3. requested # None => ports = requested
  BY <1>2 DEF CountInv
<1>4. ASSUME call.nports # None
      PROVE  ports = call.nports
  BY <1>1, <1>3, <1>4 DEF Asserted, CallerBeforeName
<1>5. ASSUME call.nports = None, call.entry # "str",
             NEW x \in 1..MaxUsize, NamesPorts(call.extension, x)
      PROVE  ports = x
  <2>1. call.extension \in Seq(STRING)
    BY <1>1, CallsAssumption DEF ObjectInv
  <2>2. NportsFromExtension(call.extension) = x
    BY <1>5, <2>1, ExtensionNames
  <2>3. requested = x
    BY <1>1, <1>5, <2>2 DEF Asserted, CallerBeforeName
  <2>4. x # None
    BY MaxUsizeAssumption DEF None
  <2>. QED
    BY <1>3, <2>3, <2>4
<1>. QED
  BY <1>4, <1>5

(* A network read has the port count its caller asserted or, without one,    *)
(* the one its file's name does: the digits of an extension of any length,   *)
(* up to MaxUsize (parse_file_with, nports_from_extension).                  *)
THEOREM EveryCountIsHonoured == Spec => []CountIsHonoured
<1>1. PyInv /\ CountInv => CountIsHonoured
  BY CountByInvariant DEF PyInv
<1>2. Spec => []PyInv
  BY InitEstablishes, StepPreserves, PTL DEF Spec
<1>3. Spec => []CountInv
  BY CountStarts, CountGoesOn, PTL DEF Spec
<1>. QED
  BY <1>1, <1>2, <1>3, PTL
-----------------------------------------------------------------------------
(* The names' words hold no separator and no bracket, and tell them apart.   *)
NameWords == {"version", "number", "of", "ports", "two", "port", "data", "order",
              "frequencies", "noise", "reference", "matrix", "format", "mixed", "mode",
              "network", "begin", "information", "end"}

AreWords(words) == words \in Seq(NameWords) /\ Len(words) \in 1..4

LEMMA OneWord == ASSUME NEW a \in NameWords PROVE AreWords(<<a>>)
  BY DEF AreWords

LEMMA TwoWords == ASSUME NEW a \in NameWords, NEW b \in NameWords PROVE AreWords(<<a, b>>)
  BY DEF AreWords

LEMMA ThreeWords ==
    ASSUME NEW a \in NameWords, NEW b \in NameWords, NEW c \in NameWords
    PROVE  AreWords(<<a, b, c>>)
  BY DEF AreWords

LEMMA FourWords ==
    ASSUME NEW a \in NameWords, NEW b \in NameWords, NEW c \in NameWords, NEW d \in NameWords
    PROVE  AreWords(<<a, b, c, d>>)
  BY DEF AreWords

LEMMA NamesHaveWords ==
    ASSUME NEW keyword \in DOMAIN KeywordWords
    PROVE  AreWords(KeywordWords[keyword])
<1>1. /\ "version" \in NameWords /\ "number" \in NameWords /\ "of" \in NameWords
      /\ "ports" \in NameWords /\ "two" \in NameWords /\ "port" \in NameWords
      /\ "data" \in NameWords /\ "order" \in NameWords /\ "frequencies" \in NameWords
      /\ "noise" \in NameWords /\ "reference" \in NameWords /\ "matrix" \in NameWords
      /\ "format" \in NameWords /\ "mixed" \in NameWords /\ "mode" \in NameWords
      /\ "network" \in NameWords /\ "begin" \in NameWords /\ "information" \in NameWords
      /\ "end" \in NameWords
  BY DEF NameWords
<1>2. keyword \in {"Version", "NumberOfPorts", "TwoPortDataOrder", "NumberOfFrequencies",
                  "NumberOfNoiseFrequencies", "Reference", "MatrixFormat", "MixedModeOrder",
                  "NetworkData", "NoiseData", "BeginInformation", "EndInformation", "End"}
  BY DEF KeywordWords
<1>3. CASE keyword \in {"Version", "Reference", "End"}
  <2>1. KeywordWords[keyword] \in {<<"version">>, <<"reference">>, <<"end">>}
    BY <1>3 DEF KeywordWords
  <2>. QED
    BY <1>1, <2>1, OneWord
<1>4. CASE keyword \in {"MatrixFormat", "NetworkData", "NoiseData", "BeginInformation",
                       "EndInformation"}
  <2>1. KeywordWords[keyword] \in {<<"matrix", "format">>, <<"network", "data">>,
           <<"noise", "data">>, <<"begin", "information">>, <<"end", "information">>}
    BY <1>4 DEF KeywordWords
  <2>. QED
    BY <1>1, <2>1, TwoWords
<1>5. CASE keyword \in {"NumberOfPorts", "NumberOfFrequencies", "MixedModeOrder"}
  <2>1. KeywordWords[keyword] \in {<<"number", "of", "ports">>,
           <<"number", "of", "frequencies">>, <<"mixed", "mode", "order">>}
    BY <1>5 DEF KeywordWords
  <2>. QED
    BY <1>1, <2>1, ThreeWords
<1>6. CASE keyword \in {"TwoPortDataOrder", "NumberOfNoiseFrequencies"}
  <2>1. KeywordWords[keyword] \in {<<"two", "port", "data", "order">>,
           <<"number", "of", "noise", "frequencies">>}
    BY <1>6 DEF KeywordWords
  <2>. QED
    BY <1>1, <2>1, FourWords
<1>. QED
  BY <1>2, <1>3, <1>4, <1>5, <1>6

LEMMA WordIsNoSeparator ==
    ASSUME NEW word \in NameWords
    PROVE  word # " " /\ word # "-" /\ word # "]" /\ word \notin Blanks
  BY DEF NameWords, Blanks, TAB

LEMMA WordsTellNamesApart ==
    ASSUME NEW k \in DOMAIN KeywordWords, NEW l \in DOMAIN KeywordWords,
           KeywordWords[k] = KeywordWords[l]
    PROVE  k = l
  BY DEF KeywordWords

(* A name between brackets: words with one separator each.                   *)
Separators == {" ", "-"}

Alternates(name, words, gaps) ==
    /\ Len(name) = 2 * Len(words) - 1
    /\ \A i \in 1..Len(words) : name[2 * i - 1] = words[i]
    /\ \A i \in 1..(Len(words) - 1) : name[2 * i] = gaps[i]

LEMMA JoinedAlternates ==
    ASSUME NEW words, AreWords(words), NEW gaps
    PROVE  Alternates(Joined(words, gaps), words, gaps)
<1>1. PICK len \in 1..4 : len = Len(words)
  BY DEF AreWords
<1>2. Joined(words, gaps) = [i \in 1..(2 * len - 1) |->
                                IF i % 2 = 1 THEN words[(i + 1) \div 2] ELSE gaps[i \div 2]]
  BY <1>1 DEF Joined
<1>3. Len(Joined(words, gaps)) = 2 * len - 1
  BY <1>2
<1>4. ASSUME NEW i \in 1..len PROVE Joined(words, gaps)[2 * i - 1] = words[i]
  <2>1. 2 * i - 1 \in 1..(2 * len - 1) /\ (2 * i - 1) % 2 = 1 /\ ((2 * i - 1) + 1) \div 2 = i
    OBVIOUS
  <2>. QED
    BY <1>2, <2>1
<1>5. ASSUME NEW i \in 1..(len - 1) PROVE Joined(words, gaps)[2 * i] = gaps[i]
  <2>1. 2 * i \in 1..(2 * len - 1) /\ (2 * i) % 2 # 1 /\ (2 * i) \div 2 = i
    OBVIOUS
  <2>. QED
    BY <1>2, <2>1
<1>. QED
  BY <1>1, <1>3, <1>4, <1>5 DEF Alternates

(* Every place of a name is a word's or a separator's.                       *)
LEMMA PlacesOfAName ==
    ASSUME NEW words, AreWords(words), NEW p \in 1..(2 * Len(words) - 1)
    PROVE  \/ \E i \in 1..Len(words) : p = 2 * i - 1
           \/ \E i \in 1..(Len(words) - 1) : p = 2 * i
<1>1. PICK len \in 1..4 : len = Len(words)
  BY DEF AreWords
<1>2. CASE p % 2 = 1
  <2>1. (p + 1) \div 2 \in 1..len /\ p = 2 * ((p + 1) \div 2) - 1
    BY <1>1, <1>2
  <2>. QED
    BY <1>1, <2>1
<1>3. CASE p % 2 # 1
  <2>1. p \div 2 \in 1..(len - 1) /\ p = 2 * (p \div 2)
    BY <1>1, <1>3
  <2>. QED
    BY <1>1, <2>1
<1>. QED
  BY <1>2, <1>3

IsName(name, words) ==
    \E gaps \in [1..(Len(words) - 1) -> Separators] : name = Joined(words, gaps)

(* A dash for a space, one for one: the name is matched exactly if it is one. *)
LEMMA NameIsMatched ==
    ASSUME NEW S, NEW name \in Seq(S), NEW keyword \in DOMAIN KeywordWords
    PROVE  NormalizedName[keyword] = ReplaceAll(name, "-", " ")
              <=> IsName(name, KeywordWords[keyword])
<1>1. PICK words : words = KeywordWords[keyword] /\ AreWords(words)
  BY NamesHaveWords
<1>2. PICK len \in 1..4 : len = Len(words)
  BY <1>1 DEF AreWords
<1>3. \A i \in 1..len : words[i] # " " /\ words[i] # "-"
  <2>1. \A i \in 1..len : words[i] \in NameWords
    BY <1>1, <1>2 DEF AreWords
  <2>. QED
    BY <2>1, WordIsNoSeparator
<1> DEFINE spaces == [i \in 1..(len - 1) |-> " "]
<1>4. NormalizedName[keyword] = Joined(words, spaces)
  BY <1>1, <1>2 DEF NormalizedName
<1>5. /\ Len(Joined(words, spaces)) = 2 * len - 1
      /\ \A i \in 1..len : Joined(words, spaces)[2 * i - 1] = words[i]
      /\ \A i \in 1..(len - 1) : Joined(words, spaces)[2 * i] = " "
  <2>1. \A i \in 1..(len - 1) : spaces[i] = " "
    OBVIOUS
  <2> HIDE DEF spaces
  <2>2. Alternates(Joined(words, spaces), words, spaces)
    BY <1>1, JoinedAlternates
  <2>. QED
    BY <1>2, <2>1, <2>2 DEF Alternates
<1> HIDE DEF spaces
<1>6. PICK m \in Nat : m = Len(name)
  OBVIOUS
<1>7. ReplaceAll(name, "-", " ") = [i \in 1..m |-> IF name[i] = "-" THEN " " ELSE name[i]]
  BY <1>6 DEF ReplaceAll
<1>8. ASSUME Joined(words, spaces) = ReplaceAll(name, "-", " ")
      PROVE  IsName(name, words)
  <2>1. m = 2 * len - 1
    <3>1. PICK f : f = ReplaceAll(name, "-", " ")
      OBVIOUS
    <3>2. \A i \in 1..m : name[i] \in S
      BY <1>6, ElementOfSeq
    <3>3. f \in [1..m -> S \cup {" "}]
      BY <1>7, <3>1, <3>2
    <3>4. Len(f) = m
      BY <3>3, FunctionIsSequence
    <3>. QED
      BY <1>5, <1>8, <3>1, <3>4
  <2>2. \A i \in 1..len : 2 * i - 1 \in 1..m
    BY <2>1
  <2>3. \A i \in 1..(len - 1) : 2 * i \in 1..m
    BY <2>1
  <2>4. ASSUME NEW i \in 1..len PROVE name[2 * i - 1] = words[i]
    <3>1. ReplaceAll(name, "-", " ")[2 * i - 1] = words[i]
      BY <1>5, <1>8
    <3>. QED
      BY <1>3, <1>7, <2>2, <3>1
  <2>5. \A i \in 1..(len - 1) : name[2 * i] \in Separators
    BY <1>5, <1>7, <1>8, <2>3 DEF Separators
  <2> DEFINE gaps == [i \in 1..(len - 1) |-> name[2 * i]]
  <2>6. gaps \in [1..(len - 1) -> Separators] /\ \A i \in 1..(len - 1) : gaps[i] = name[2 * i]
    BY <2>5
  <2> HIDE DEF gaps
  <2>7. /\ Len(Joined(words, gaps)) = 2 * len - 1
        /\ \A i \in 1..len : Joined(words, gaps)[2 * i - 1] = words[i]
        /\ \A i \in 1..(len - 1) : Joined(words, gaps)[2 * i] = name[2 * i]
    <3>1. Alternates(Joined(words, gaps), words, gaps)
      BY <1>1, JoinedAlternates
    <3>. QED
      BY <1>2, <2>6, <3>1 DEF Alternates
  <2>8. ASSUME NEW p \in 1..m PROVE name[p] = Joined(words, gaps)[p]
    <3>1. (\E i \in 1..len : p = 2 * i - 1) \/ (\E i \in 1..(len - 1) : p = 2 * i)
      BY <1>1, <1>2, <2>1, PlacesOfAName
    <3>. QED
      BY <2>4, <2>7, <3>1
  <2>9. name = [p \in 1..m |-> name[p]]
    BY <1>6
  <2>10. Joined(words, gaps) = [p \in 1..m |-> Joined(words, gaps)[p]]
    BY <1>2, <2>1 DEF Joined
  <2>11. name = Joined(words, gaps)
    BY <2>8, <2>9, <2>10
  <2>. QED
    BY <1>2, <2>6, <2>11 DEF IsName
<1>9. ASSUME IsName(name, words)
      PROVE  Joined(words, spaces) = ReplaceAll(name, "-", " ")
  <2>1. PICK gaps \in [1..(len - 1) -> Separators] : name = Joined(words, gaps)
    BY <1>2, <1>9 DEF IsName
  <2>2. /\ m = 2 * len - 1
        /\ \A i \in 1..len : name[2 * i - 1] = words[i]
        /\ \A i \in 1..(len - 1) : name[2 * i] = gaps[i]
    <3>1. Alternates(name, words, gaps)
      BY <1>1, <2>1, JoinedAlternates
    <3>. QED
      BY <1>2, <1>6, <3>1 DEF Alternates
  <2>3. \A i \in 1..(len - 1) : gaps[i] \in {" ", "-"}
    BY <2>1 DEF Separators
  <2>4. ASSUME NEW p \in 1..m
        PROVE  Joined(words, spaces)[p] = IF name[p] = "-" THEN " " ELSE name[p]
    <3>1. CASE \E i \in 1..len : p = 2 * i - 1
      BY <1>3, <1>5, <2>2, <3>1
    <3>2. CASE \E i \in 1..(len - 1) : p = 2 * i
      BY <1>5, <2>2, <2>3, <3>2
    <3>. QED
      BY <1>1, <1>2, <2>2, <3>1, <3>2, PlacesOfAName
  <2>5. Joined(words, spaces) = [p \in 1..m |-> Joined(words, spaces)[p]]
    BY <1>2, <2>2 DEF Joined
  <2>. QED
    BY <1>7, <2>4, <2>5
<1>. QED
  BY <1>1, <1>4, <1>8, <1>9

(* No name is two keywords'.                                                 *)
LEMMA NameIsOneKeyword ==
    ASSUME NEW k \in DOMAIN KeywordWords, NEW l \in DOMAIN KeywordWords,
           NormalizedName[k] = NormalizedName[l]
    PROVE  k = l
<1>1. PICK v : v = KeywordWords[k] /\ AreWords(v)
  BY NamesHaveWords
<1>2. PICK w : w = KeywordWords[l] /\ AreWords(w)
  BY NamesHaveWords
<1>3. PICK i \in 1..4, j \in 1..4 : i = Len(v) /\ j = Len(w)
  BY <1>1, <1>2 DEF AreWords
<1> DEFINE Spaces(x) == [y \in 1..(x - 1) |-> " "]
<1>4. NormalizedName[k] = Joined(v, Spaces(i)) /\ NormalizedName[l] = Joined(w, Spaces(j))
  BY <1>1, <1>2, <1>3 DEF NormalizedName
<1> HIDE DEF Spaces
<1>6. /\ Len(NormalizedName[k]) = 2 * i - 1
      /\ \A x \in 1..i : NormalizedName[k][2 * x - 1] = v[x]
  <2>1. Alternates(NormalizedName[k], v, Spaces(i))
    BY <1>1, <1>4, JoinedAlternates
  <2>. QED
    BY <1>3, <2>1 DEF Alternates
<1>7. /\ Len(NormalizedName[l]) = 2 * j - 1
      /\ \A x \in 1..j : NormalizedName[l][2 * x - 1] = w[x]
  <2>1. Alternates(NormalizedName[l], w, Spaces(j))
    BY <1>2, <1>4, JoinedAlternates
  <2>. QED
    BY <1>3, <2>1 DEF Alternates
<1>8. i = j
  BY <1>6, <1>7
<1>9. \A x \in 1..i : v[x] = w[x]
  BY <1>6, <1>7, <1>8
<1>10. v = w
  <2>1. v = [x \in 1..i |-> v[x]] /\ w = [x \in 1..j |-> w[x]]
    BY <1>1, <1>2, <1>3 DEF AreWords
  <2>. QED
    BY <1>8, <1>9, <2>1
<1>. QED
  BY <1>1, <1>2, <1>10, WordsTellNamesApart

(* The first closing bracket.                                                *)
LEMMA BracketIsFirst ==
    ASSUME NEW S, NEW content \in Seq(S)
    PROVE  /\ ClosingBracket(content) # 0 =>
                 /\ ClosingBracket(content) \in 1..Len(content)
                 /\ content[ClosingBracket(content)] = "]"
           /\ \A i \in 1..Len(content) :
                 content[i] = "]" /\ (\A j \in 1..(i - 1) : content[j] # "]")
                    => ClosingBracket(content) = i
<1> DEFINE T == {i \in 1..Len(content) : content[i] = "]"}
<1>1. Len(content) \in Nat /\ T \subseteq Nat
  OBVIOUS
<1>2. ClosingBracket(content) = IF T # {} THEN Min(T) ELSE 0
  BY DEF ClosingBracket, SelectInSeq
<1>3. ASSUME ClosingBracket(content) # 0
      PROVE  ClosingBracket(content) \in T
  <2>1. T # {} /\ ClosingBracket(content) = Min(T)
    BY <1>2, <1>3
  <2> HIDE DEF T
  <2>. QED
    BY <1>1, <2>1, MinIsLeast
<1>4. ASSUME NEW i \in 1..Len(content), content[i] = "]", \A j \in 1..(i - 1) : content[j] # "]"
      PROVE  ClosingBracket(content) = i
  <2>1. i \in T /\ \A x \in T : i <= x
    <3>1. ASSUME NEW x \in T, x < i PROVE FALSE
      <4>1. x \in 1..(i - 1)
        BY <3>1
      <4>. QED
        BY <1>4, <4>1
    <3>2. \A x \in T : x \in Nat
      OBVIOUS
    <3>. QED
      BY <1>4, <3>1, <3>2
  <2>2. T # {} /\ ClosingBracket(content) = Min(T)
    BY <1>2, <2>1
  <2> HIDE DEF T
  <2>. QED
    BY <1>1, <2>1, <2>2, MinIsThat
<1>. QED
  BY <1>3, <1>4

(* The part of a line between the brackets, and the part behind them.        *)
NameIn(content, close) == SubSeq(content, 2, close - 1)
RestOf(content, close) == SubSeq(content, close + 1, Len(content))

HasParts(content, close, S) ==
    /\ NameIn(content, close) \in Seq(S) /\ Len(NameIn(content, close)) = close - 2
    /\ \A i \in 1..(close - 2) : NameIn(content, close)[i] = content[i + 1]
    /\ RestOf(content, close) \in Seq(S)
    /\ Len(RestOf(content, close)) = Len(content) - close
    /\ \A i \in 1..(Len(content) - close) : RestOf(content, close)[i] = content[close + i]

LEMMA PartsOfALine ==
    ASSUME NEW S, NEW content \in Seq(S), NEW close \in 2..Len(content)
    PROVE  HasParts(content, close, S)
<1>1. PICK len \in Nat : len = Len(content)
  OBVIOUS
<1>2. NameIn(content, close) = [i \in 1..(close - 2) |-> content[i + 1]]
  <2>1. SubSeq(content, 2, close - 1) = [i \in 1..((close - 1) - 2 + 1) |-> content[i + 2 - 1]]
    BY <1>1
  <2>2. (close - 1) - 2 + 1 = close - 2 /\ \A i \in 1..(close - 2) : i + 2 - 1 = i + 1
    OBVIOUS
  <2>. QED
    BY <2>1, <2>2 DEF NameIn
<1>3. RestOf(content, close) = [i \in 1..(len - close) |-> content[close + i]]
  <2>1. SubSeq(content, close + 1, len) = [i \in 1..(len - (close + 1) + 1) |-> content[i + (close + 1) - 1]]
    BY <1>1
  <2>2. len - (close + 1) + 1 = len - close /\ \A i \in 1..(len - close) : i + (close + 1) - 1 = close + i
    BY <1>1
  <2>. QED
    BY <1>1, <2>1, <2>2 DEF RestOf
<1>4. \A i \in 1..len : content[i] \in S
  BY <1>1, ElementOfSeq
<1>5. NameIn(content, close) \in [1..(close - 2) -> S] /\ close - 2 \in Nat
  <2>1. \A i \in 1..(close - 2) : i + 1 \in 1..len
    BY <1>1
  <2>. QED
    BY <1>2, <1>4, <2>1
<1>6. RestOf(content, close) \in [1..(len - close) -> S] /\ len - close \in Nat
  <2>1. \A i \in 1..(len - close) : close + i \in 1..len
    BY <1>1
  <2>. QED
    BY <1>1, <1>3, <1>4, <2>1
<1>7. NameIn(content, close) \in Seq(S) /\ Len(NameIn(content, close)) = close - 2
  BY <1>5, FunctionIsSequence
<1>8. RestOf(content, close) \in Seq(S) /\ Len(RestOf(content, close)) = len - close
  BY <1>6, FunctionIsSequence
<1>. QED
  BY <1>1, <1>2, <1>3, <1>7, <1>8 DEF HasParts

(* A name is not empty, has a word at either end and no bracket.             *)
LEMMA NameHasWordsAtEnds ==
    ASSUME NEW words, AreWords(words), NEW name, IsName(name, words)
    PROVE  /\ name \in Seq(NameWords \cup Separators)
           /\ Len(name) \in Nat \ {0}
           /\ name[1] \notin Blanks /\ name[Len(name)] \notin Blanks
           /\ \A i \in 1..Len(name) : name[i] # "]"
<1>1. PICK len \in 1..4 : len = Len(words)
  BY DEF AreWords
<1>2. PICK gaps \in [1..(len - 1) -> Separators] : name = Joined(words, gaps)
  BY <1>1 DEF IsName
<1>3. Alternates(name, words, gaps)
  BY <1>2, JoinedAlternates
<1>4. /\ Len(name) = 2 * len - 1
      /\ \A i \in 1..len : name[2 * i - 1] = words[i]
      /\ \A i \in 1..(len - 1) : name[2 * i] = gaps[i]
  BY <1>1, <1>3 DEF Alternates
<1>5. \A i \in 1..len : words[i] \in NameWords
  BY <1>1 DEF AreWords
<1>6. ASSUME NEW p \in 1..(2 * len - 1)
      PROVE  name[p] \in NameWords \cup Separators
  <2>1. (\E i \in 1..len : p = 2 * i - 1) \/ (\E i \in 1..(len - 1) : p = 2 * i)
    BY <1>1, PlacesOfAName
  <2>. QED
    BY <1>2, <1>4, <1>5, <2>1, ZenonT(40)
<1>7. name \in Seq(NameWords \cup Separators)
  <2>1. name = [p \in 1..(2 * len - 1) |-> name[p]]
    BY <1>1, <1>2 DEF Joined
  <2>2. name \in [1..(2 * len - 1) -> NameWords \cup Separators] /\ 2 * len - 1 \in Nat
    BY <1>6, <2>1
  <2>. QED
    BY <2>2, FunctionIsSequence
<1>8. name[1] \in NameWords /\ name[2 * len - 1] \in NameWords
  <2>1. 1 \in 1..len /\ len \in 1..len /\ 2 * 1 - 1 = 1
    OBVIOUS
  <2>. QED
    BY <1>4, <1>5, <2>1
<1>9. ASSUME NEW x \in NameWords \cup Separators PROVE x # "]"
  BY WordIsNoSeparator DEF Separators
<1>10. 2 * len - 1 \in Nat \ {0}
  OBVIOUS
<1>11. name[1] \notin Blanks /\ name[2 * len - 1] \notin Blanks
  BY <1>8, WordIsNoSeparator
<1>12. \A i \in 1..(2 * len - 1) : name[i] # "]"
  BY <1>6, <1>9
<1>. QED
  BY <1>4, <1>7, <1>10, <1>11, <1>12

(* A spelling is a name in brackets.                                         *)
LEMMA SpellingIsBracketed ==
    ASSUME NEW words, AreWords(words), NEW name, IsName(name, words)
    PROVE  /\ <<"[">> \o name \o <<"]">> \in Seq(NameWords \cup Separators \cup {"[", "]"})
           /\ Len(<<"[">> \o name \o <<"]">>) = Len(name) + 2
           /\ (<<"[">> \o name \o <<"]">>)[1] = "["
           /\ \A i \in 1..Len(name) : (<<"[">> \o name \o <<"]">>)[i + 1] = name[i]
           /\ (<<"[">> \o name \o <<"]">>)[Len(name) + 2] = "]"
<1> DEFINE S == NameWords \cup Separators \cup {"[", "]"}
           open == <<"[">>
           shut == <<"]">>
<1>1. open \in Seq(S) /\ shut \in Seq(S) /\ Len(open) = 1 /\ Len(shut) = 1
      /\ open[1] = "[" /\ shut[1] = "]"
  OBVIOUS
<1>2. name \in Seq(S)
  BY NameHasWordsAtEnds, SeqMonotonic
<1> HIDE DEF S, open, shut
<1>3. PICK len \in Nat : len = Len(name)
  BY <1>2
<1>4. /\ open \o name \in Seq(S) /\ Len(open \o name) = 1 + len
      /\ \A i \in 1..(1 + len) : (open \o name)[i] = IF i <= 1 THEN open[i] ELSE name[i - 1]
  <2>1. /\ open \o name \in Seq(S) /\ Len(open \o name) = Len(open) + Len(name)
        /\ \A i \in 1..(Len(open) + Len(name)) :
              (open \o name)[i] = IF i <= Len(open) THEN open[i] ELSE name[i - Len(open)]
    BY <1>1, <1>2, ConcatProperties
  <2>. QED
    BY <1>1, <1>3, <2>1
<1>5. PICK front \in Seq(S) : front = open \o name
  BY <1>4
<1>6. /\ front \o shut \in Seq(S) /\ Len(front \o shut) = (1 + len) + 1
      /\ \A i \in 1..((1 + len) + 1) :
            (front \o shut)[i] = IF i <= 1 + len THEN front[i] ELSE shut[i - (1 + len)]
  <2>1. /\ front \o shut \in Seq(S) /\ Len(front \o shut) = Len(front) + Len(shut)
        /\ \A i \in 1..(Len(front) + Len(shut)) :
              (front \o shut)[i] = IF i <= Len(front) THEN front[i] ELSE shut[i - Len(front)]
    BY <1>1, <1>5, ConcatProperties
  <2>2. Len(front) = 1 + len
    BY <1>4, <1>5
  <2>. QED
    BY <1>1, <2>1, <2>2
<1>7. (front \o shut)[1] = "["
  <2>1. 1 \in 1..((1 + len) + 1) /\ 1 <= 1 + len /\ 1 \in 1..(1 + len)
    OBVIOUS
  <2>. QED
    BY <1>1, <1>4, <1>5, <1>6, <2>1
<1>8. ASSUME NEW i \in 1..len PROVE (front \o shut)[i + 1] = name[i]
  <2>1. i + 1 \in 1..((1 + len) + 1) /\ i + 1 <= 1 + len /\ ~(i + 1 <= 1)
        /\ i + 1 \in 1..(1 + len) /\ (i + 1) - 1 = i
    OBVIOUS
  <2>2. (front \o shut)[i + 1] = front[i + 1]
    BY <1>6, <2>1
  <2>3. front[i + 1] = name[(i + 1) - 1]
    BY <1>4, <1>5, <2>1
  <2>. QED
    BY <2>1, <2>2, <2>3
<1>9. (front \o shut)[len + 2] = "]"
  <2>1. len + 2 \in 1..((1 + len) + 1) /\ ~(len + 2 <= 1 + len) /\ (len + 2) - (1 + len) = 1
    OBVIOUS
  <2>2. (front \o shut)[len + 2] = shut[(len + 2) - (1 + len)]
    BY <1>6, <2>1
  <2>. QED
    BY <1>1, <2>1, <2>2
<1>10. (1 + len) + 1 = len + 2
  OBVIOUS
<1>. QED
  BY <1>3, <1>5, <1>6, <1>7, <1>8, <1>9, <1>10 DEF S, open, shut

(* A line spelled as a keyword is a name between its first brackets, with    *)
(* nothing or a blank behind.                                                *)
Names(content, close, keyword) ==
    /\ close \in 3..Len(content)
    /\ content[close] = "]"
    /\ IsName(NameIn(content, close), KeywordWords[keyword])
    /\ close < Len(content) => content[close + 1] \in Blanks

LEMMA SpellingNames ==
    ASSUME NEW S, NEW content \in Seq(S), LooksLikeKeyword(content),
           NEW keyword \in DOMAIN KeywordWords
    PROVE  IsSpelled(content, keyword) <=> \E close \in Nat : Names(content, close, keyword)
<1>1. PICK words : words = KeywordWords[keyword] /\ AreWords(words)
  BY NamesHaveWords
<1>2. PICK len \in Nat : len = Len(content)
  OBVIOUS
<1>3. len # 0 /\ content[1] = "["
  BY <1>2, EmptySeq DEF LooksLikeKeyword
<1>4. \A sp : sp \in Spellings(keyword) <=>
                 \E name : IsName(name, words) /\ sp = <<"[">> \o name \o <<"]">>
  BY <1>1 DEF Spellings, IsName, Separators
<1>5. ASSUME NEW name, IsName(name, words), NEW sp, sp = <<"[">> \o name \o <<"]">>,
             IsPrefix(sp, content),
             Len(content) > Len(sp) => content[Len(sp) + 1] \in Blanks
      PROVE  \E close \in Nat : Names(content, close, keyword)
  <2>1. PICK m \in Nat \ {0} : m = Len(name) /\ name \in Seq(NameWords \cup Separators)
    BY <1>1, <1>5, NameHasWordsAtEnds
  <2>2. /\ sp \in Seq(NameWords \cup Separators \cup {"[", "]"}) /\ Len(sp) = m + 2
        /\ sp[1] = "[" /\ sp[m + 2] = "]" /\ \A i \in 1..m : sp[i + 1] = name[i]
    BY <1>1, <1>5, <2>1, SpellingIsBracketed
  <2>3. Begins(content, sp)
    BY <1>5, <2>2, PrefixIsBeginning
  <2>4. m + 2 <= len /\ \A i \in 1..(m + 2) : content[i] = sp[i]
    BY <1>2, <2>2, <2>3 DEF Begins
  <2>5. m + 2 \in 3..len /\ m + 2 \in 2..len /\ (m + 2) - 2 = m
    BY <2>4
  <2>6. /\ NameIn(content, m + 2) \in Seq(S) /\ Len(NameIn(content, m + 2)) = m
        /\ \A i \in 1..m : NameIn(content, m + 2)[i] = content[i + 1]
    <3>1. PICK close \in 2..Len(content) : close = m + 2
      BY <1>2, <2>5
    <3>2. /\ NameIn(content, close) \in Seq(S) /\ Len(NameIn(content, close)) = close - 2
          /\ \A i \in 1..(close - 2) : NameIn(content, close)[i] = content[i + 1]
      <4>1. HasParts(content, close, S)
        BY PartsOfALine
      <4>. QED
        BY <4>1 DEF HasParts
    <3>. QED
      BY <2>5, <3>1, <3>2
  <2>7. \A i \in 1..m : i + 1 \in 1..(m + 2)
    OBVIOUS
  <2>8. \A i \in 1..m : NameIn(content, m + 2)[i] = name[i]
    BY <2>2, <2>4, <2>6, <2>7
  <2>9. NameIn(content, m + 2) = name
    <3>1. NameIn(content, m + 2) = [i \in 1..m |-> NameIn(content, m + 2)[i]]
      BY <2>6, LenProperties
    <3>2. name = [i \in 1..m |-> name[i]]
      BY <2>1, LenProperties
    <3>. QED
      BY <2>8, <3>1, <3>2
  <2>10. content[m + 2] = "]"
    BY <2>2, <2>4
  <2>11. m + 2 < len => content[(m + 2) + 1] \in Blanks
    BY <1>2, <1>5, <2>2
  <2>12. Names(content, m + 2, keyword)
    BY <1>1, <1>2, <1>5, <2>5, <2>9, <2>10, <2>11 DEF Names
  <2>. QED
    BY <2>12
<1>6. ASSUME NEW close \in Nat, Names(content, close, keyword)
      PROVE  IsSpelled(content, keyword)
  <2>1. close \in 3..len /\ close \in 2..len /\ content[close] = "]"
    BY <1>2, <1>6 DEF Names
  <2>2. PICK name : name = NameIn(content, close)
    OBVIOUS
  <2>3. IsName(name, words) /\ (close < len => content[close + 1] \in Blanks)
    BY <1>1, <1>2, <1>6, <2>2 DEF Names
  <2>4. PICK m \in Nat \ {0} : m = Len(name)
    BY <1>1, <2>3, NameHasWordsAtEnds
  <2>5. m = close - 2 /\ \A i \in 1..m : name[i] = content[i + 1]
    <3>1. close \in 2..Len(content)
      BY <1>2, <2>1
    <3>2. /\ Len(NameIn(content, close)) = close - 2
          /\ \A i \in 1..(close - 2) : NameIn(content, close)[i] = content[i + 1]
      <4>1. HasParts(content, close, S)
        BY <3>1, PartsOfALine
      <4>. QED
        BY <4>1 DEF HasParts
    <3>. QED
      BY <2>2, <2>4, <3>2
  <2>6. PICK sp : sp = <<"[">> \o name \o <<"]">>
    OBVIOUS
  <2>7. /\ sp \in Seq(NameWords \cup Separators \cup {"[", "]"}) /\ Len(sp) = m + 2
        /\ sp[1] = "[" /\ sp[m + 2] = "]" /\ \A i \in 1..m : sp[i + 1] = name[i]
    BY <1>1, <2>3, <2>4, <2>6, SpellingIsBracketed
  <2>8. ASSUME NEW i \in 1..(m + 2) PROVE content[i] = sp[i]
    <3>1. CASE i = 1
      BY <1>3, <2>7, <3>1
    <3>2. CASE i = m + 2
      BY <2>1, <2>5, <2>7, <3>2
    <3>3. CASE i # 1 /\ i # m + 2
      <4>1. i - 1 \in 1..m /\ (i - 1) + 1 = i
        BY <3>3
      <4>. QED
        BY <2>5, <2>7, <4>1
    <3>. QED
      BY <3>1, <3>2, <3>3
  <2>9. m + 2 = close
    BY <2>1, <2>5
  <2>10. Begins(content, sp)
    BY <1>2, <2>1, <2>7, <2>8, <2>9 DEF Begins
  <2>11. IsPrefix(sp, content)
    BY <2>7, <2>10, PrefixIsBeginning
  <2>12. sp \in Spellings(keyword)
    BY <1>4, <2>3, <2>6
  <2>13. Len(content) > Len(sp) => content[Len(sp) + 1] \in Blanks
    BY <1>2, <2>3, <2>7, <2>9
  <2>. QED
    BY <2>11, <2>12, <2>13 DEF IsSpelled
<1>7. ASSUME IsSpelled(content, keyword)
      PROVE  \E close \in Nat : Names(content, close, keyword)
  <2>1. PICK sp \in Spellings(keyword) :
           /\ IsPrefix(sp, content)
           /\ Len(content) > Len(sp) => content[Len(sp) + 1] \in Blanks
    BY <1>7 DEF IsSpelled
  <2>2. PICK name : IsName(name, words) /\ sp = <<"[">> \o name \o <<"]">>
    BY <1>4, <2>1
  <2>. QED
    BY <1>5, <2>1, <2>2
<1>. QED
  BY <1>6, <1>7

(* What parse_keyword_line asks of a line before it looks the name up.       *)
IsMalformed(content, close) ==
    \/ close = 0
    \/ NameIn(content, close) = <<>>
    \/ NameIn(content, close)[1] \in Blanks \/ Last(NameIn(content, close)) \in Blanks
    \/ RestOf(content, close) # <<>> /\ RestOf(content, close)[1] \notin Blanks

Matches(name) == {k \in DOMAIN KeywordWords : NormalizedName[k] = ReplaceAll(name, "-", " ")}

LEMMA ParseSplits ==
    ASSUME NEW S, NEW content \in Seq(S), NEW keyword \in DOMAIN KeywordWords
    PROVE  LET close == ClosingBracket(content)
               parsed == ParseKeywordLine(content)
           IN  /\ parsed.verdict = keyword
                    <=> ~IsMalformed(content, close) /\ keyword \in Matches(NameIn(content, close))
               /\ parsed.verdict = keyword => parsed.argument = TrimStart(RestOf(content, close))
<1> DEFINE close == ClosingBracket(content)
           named == Matches(NameIn(content, close))
<1>1. ParseKeywordLine(content) =
        IF IsMalformed(content, close) THEN Malformed
        ELSE IF named = {} THEN [verdict |-> "UnknownKeyword", argument |-> <<>>]
        ELSE [verdict |-> CHOOSE k \in named : TRUE, argument |-> TrimStart(RestOf(content, close))]
  BY DEF ParseKeywordLine, IsMalformed, Matches, NameIn, RestOf
<1>2. keyword # "MalformedKeyword" /\ keyword # "UnknownKeyword"
  BY DEF KeywordWords
<1>3. \A k, l \in named : k = l
  BY NameIsOneKeyword DEF Matches
<1> HIDE DEF close, named
<1>4. CASE IsMalformed(content, close)
  BY <1>1, <1>2, <1>4 DEF Malformed, close, named
<1>5. CASE ~IsMalformed(content, close) /\ named = {}
  BY <1>1, <1>2, <1>5 DEF close, named
<1>6. CASE ~IsMalformed(content, close) /\ named # {}
  <2>1. PICK k : k = CHOOSE x \in named : TRUE
    OBVIOUS
  <2>2. k \in named
    BY <1>6, <2>1
  <2>3. keyword \in named <=> k = keyword
    BY <1>3, <2>2
  <2>4. /\ ParseKeywordLine(content).verdict = k
        /\ ParseKeywordLine(content).argument = TrimStart(RestOf(content, close))
    BY <1>1, <1>6, <2>1
  <2>. QED
    BY <1>6, <2>3, <2>4 DEF close, named
<1>. QED
  BY <1>4, <1>5, <1>6

(* A line is read as a keyword exactly if it is spelled so.                  *)
LEMMA SpelledIsParsed ==
    ASSUME NEW S, NEW content \in Seq(S), LooksLikeKeyword(content),
           NEW keyword \in DOMAIN KeywordWords
    PROVE  /\ ParseKeywordLine(content).verdict = keyword <=> IsSpelled(content, keyword)
           /\ ParseKeywordLine(content).verdict = keyword
                 => Names(content, ClosingBracket(content), keyword)
<1>1. PICK words : words = KeywordWords[keyword] /\ AreWords(words)
  BY NamesHaveWords
<1>2. PICK len \in Nat : len = Len(content)
  OBVIOUS
<1>3. len # 0 /\ content[1] = "["
  BY <1>2, EmptySeq DEF LooksLikeKeyword
<1>4. PICK close : close = ClosingBracket(content)
  OBVIOUS
<1>5. ParseKeywordLine(content).verdict = keyword
        <=> ~IsMalformed(content, close) /\ keyword \in Matches(NameIn(content, close))
  BY <1>4, ParseSplits
<1>6. ASSUME ~IsMalformed(content, close), keyword \in Matches(NameIn(content, close))
      PROVE  Names(content, close, keyword)
  <2>1. close \in 1..len /\ content[close] = "]"
    BY <1>2, <1>4, <1>6, BracketIsFirst DEF IsMalformed
  <2>2. close # 1
    BY <1>3, <2>1
  <2>3. close \in 2..Len(content)
    BY <1>2, <2>1, <2>2
  <2>4. /\ NameIn(content, close) \in Seq(S) /\ Len(NameIn(content, close)) = close - 2
        /\ RestOf(content, close) \in Seq(S) /\ Len(RestOf(content, close)) = Len(content) - close
        /\ \A i \in 1..(Len(content) - close) : RestOf(content, close)[i] = content[close + i]
    <3>1. HasParts(content, close, S)
      BY <2>3, PartsOfALine
    <3>. QED
      BY <3>1 DEF HasParts
  <2>5. close # 2
    <3>1. NameIn(content, close) # <<>>
      BY <1>6 DEF IsMalformed
    <3>. QED
      BY <2>4, <3>1, EmptySeq
  <2>6. IsName(NameIn(content, close), words)
    <3>1. NormalizedName[keyword] = ReplaceAll(NameIn(content, close), "-", " ")
      BY <1>6 DEF Matches
    <3>. QED
      BY <1>1, <2>4, <3>1, NameIsMatched
  <2>7. ASSUME close < len PROVE content[close + 1] \in Blanks
    <3>1. 1 \in 1..(Len(content) - close) /\ Len(RestOf(content, close)) # 0
      BY <1>2, <2>3, <2>4, <2>7
    <3>2. RestOf(content, close) # <<>> /\ RestOf(content, close)[1] = content[close + 1]
      BY <2>4, <3>1, EmptySeq
    <3>. QED
      BY <1>6, <3>2 DEF IsMalformed
  <2>. QED
    BY <1>1, <1>2, <2>1, <2>3, <2>5, <2>6, <2>7 DEF Names
<1>7. ASSUME NEW c \in Nat, Names(content, c, keyword)
      PROVE  ~IsMalformed(content, close) /\ keyword \in Matches(NameIn(content, close))
  <2>1. c \in 3..len /\ c \in 1..len /\ c \in 2..Len(content) /\ content[c] = "]"
    BY <1>2, <1>7 DEF Names
  <2>2. /\ NameIn(content, c) \in Seq(S) /\ Len(NameIn(content, c)) = c - 2
        /\ \A i \in 1..(c - 2) : NameIn(content, c)[i] = content[i + 1]
        /\ RestOf(content, c) \in Seq(S) /\ Len(RestOf(content, c)) = Len(content) - c
        /\ \A i \in 1..(Len(content) - c) : RestOf(content, c)[i] = content[c + i]
    <3>1. c \in 2..Len(content)
      BY <2>1
    <3>2. /\ NameIn(content, c) \in Seq(S) /\ Len(NameIn(content, c)) = c - 2
          /\ \A i \in 1..(c - 2) : NameIn(content, c)[i] = content[i + 1]
      <4>1. HasParts(content, c, S)
        BY <3>1, PartsOfALine
      <4>. QED
        BY <4>1 DEF HasParts
    <3>3. /\ RestOf(content, c) \in Seq(S) /\ Len(RestOf(content, c)) = Len(content) - c
          /\ \A i \in 1..(Len(content) - c) : RestOf(content, c)[i] = content[c + i]
      <4>1. HasParts(content, c, S)
        BY <3>1, PartsOfALine
      <4>. QED
        BY <4>1 DEF HasParts
    <3>. QED
      BY <3>2, <3>3
  <2>3. IsName(NameIn(content, c), words)
    BY <1>1, <1>7 DEF Names
  <2>4. /\ Len(NameIn(content, c)) \in Nat \ {0}
        /\ NameIn(content, c)[1] \notin Blanks
        /\ NameIn(content, c)[Len(NameIn(content, c))] \notin Blanks
        /\ \A i \in 1..Len(NameIn(content, c)) : NameIn(content, c)[i] # "]"
    BY <1>1, <2>3, NameHasWordsAtEnds
  <2>5. ASSUME NEW j \in 1..(c - 1) PROVE content[j] # "]"
    <3>1. CASE j = 1
      BY <1>3, <3>1
    <3>2. CASE j # 1
      <4>1. j - 1 \in 1..(c - 2) /\ (j - 1) + 1 = j
        BY <2>1, <3>2
      <4>2. NameIn(content, c)[j - 1] = content[(j - 1) + 1]
        BY <2>2, <4>1
      <4>3. NameIn(content, c)[j - 1] # "]"
        BY <2>2, <2>4, <4>1
      <4>. QED
        BY <4>1, <4>2, <4>3
    <3>. QED
      BY <3>1, <3>2
  <2>6. close = c
    BY <1>2, <1>4, <2>1, <2>5, BracketIsFirst
  <2>7. keyword \in Matches(NameIn(content, c))
    BY <1>1, <2>2, <2>3, NameIsMatched DEF Matches
  <2>8. NameIn(content, c) # <<>> /\ Last(NameIn(content, c)) \notin Blanks
    BY <2>4 DEF Last
  <2>9. RestOf(content, c) = <<>> \/ RestOf(content, c)[1] \in Blanks
    <3>1. CASE c = len
      BY <1>2, <2>2, <3>1, EmptySeq
    <3>2. CASE c < len
      <4>1. 1 \in 1..(Len(content) - c) /\ content[c + 1] \in Blanks
        BY <1>2, <1>7, <2>1, <3>2 DEF Names
      <4>. QED
        BY <2>2, <4>1
    <3>. QED
      BY <2>1, <3>1, <3>2
  <2>10. c # 0
    BY <2>1
  <2>11. ~IsMalformed(content, c)
    BY <2>4, <2>8, <2>9, <2>10 DEF IsMalformed
  <2>. QED
    BY <2>6, <2>7, <2>11
<1>8. Names(content, close, keyword) => close \in Nat
  BY <1>2 DEF Names
<1>. QED
  BY <1>4, <1>5, <1>6, <1>7, <1>8, SpellingNames
-----------------------------------------------------------------------------
(* The line feeds up to a position, and how many there are.                  *)
FeedsUpTo(t, i) == {p \in 1..i : t[p] = LF}
FeedCount(t, i) == Cardinality(FeedsUpTo(t, i))

CountsFeeds(t, last) ==
    /\ FeedCount(t, 0) = 0
    /\ \A i \in 0..last : FeedCount(t, i) \in 0..i
    /\ \A i \in 1..last :
          FeedCount(t, i) = FeedCount(t, i - 1) + (IF t[i] = LF THEN 1 ELSE 0)

LEMMA FeedsAreCounted ==
    ASSUME NEW t, NEW last \in Nat
    PROVE  CountsFeeds(t, last)
<1>1. FeedCount(t, 0) = 0
  <2>1. FeedsUpTo(t, 0) = {}
    BY DEF FeedsUpTo
  <2>. QED
    BY <2>1, FS_EmptySet DEF FeedCount
<1>2. ASSUME NEW i \in Nat
      PROVE  IsFiniteSet(FeedsUpTo(t, i)) /\ FeedCount(t, i) \in 0..i
  <2>1. IsFiniteSet(1..i) /\ Cardinality(1..i) = i
    BY FS_Interval
  <2>2. FeedsUpTo(t, i) \in SUBSET (1..i)
    BY DEF FeedsUpTo
  <2>3. IsFiniteSet(FeedsUpTo(t, i)) /\ FeedCount(t, i) <= i
    BY <2>1, <2>2, FS_Subset DEF FeedCount
  <2>4. FeedCount(t, i) \in Nat
    BY <2>3, FS_CardinalityType DEF FeedCount
  <2>. QED
    BY <2>3, <2>4
<1>3. ASSUME NEW i \in 1..last
      PROVE  FeedCount(t, i) = FeedCount(t, i - 1) + (IF t[i] = LF THEN 1 ELSE 0)
  <2>1. i - 1 \in Nat
    OBVIOUS
  <2>2. CASE t[i] = LF
    <3>1. FeedsUpTo(t, i) = FeedsUpTo(t, i - 1) \cup {i}
      <4>1. \A p : p \in 1..i <=> p \in 1..(i - 1) \/ p = i
        OBVIOUS
      <4>. QED
        BY <2>2, <4>1 DEF FeedsUpTo
    <3>2. i \notin FeedsUpTo(t, i - 1)
      BY DEF FeedsUpTo
    <3>3. Cardinality(FeedsUpTo(t, i - 1) \cup {i}) = Cardinality(FeedsUpTo(t, i - 1)) + 1
      BY <1>2, <2>1, <3>2, FS_AddElement
    <3>. QED
      BY <2>2, <3>1, <3>3 DEF FeedCount
  <2>3. CASE t[i] # LF
    <3>1. FeedsUpTo(t, i) = FeedsUpTo(t, i - 1)
      <4>1. \A p : p \in 1..i <=> p \in 1..(i - 1) \/ p = i
        OBVIOUS
      <4>. QED
        BY <2>3, <4>1 DEF FeedsUpTo
    <3>2. FeedCount(t, i - 1) \in Nat
      BY <1>2, <2>1
    <3>. QED
      BY <2>3, <3>1, <3>2 DEF FeedCount
  <2>. QED
    BY <2>2, <2>3
<1>. QED
  BY <1>1, <1>2, <1>3 DEF CountsFeeds

(* The count only grows.                                                     *)
LEMMA FeedCountGrows ==
    ASSUME NEW t, NEW last \in Nat, NEW i \in 0..last
    PROVE  FeedCount(t, i) <= FeedCount(t, last)
<1>1. /\ IsFiniteSet(FeedsUpTo(t, last))
      /\ FeedsUpTo(t, i) \in SUBSET FeedsUpTo(t, last)
  <2>1. IsFiniteSet(1..last) /\ FeedsUpTo(t, last) \in SUBSET (1..last)
    BY FS_Interval DEF FeedsUpTo
  <2>2. \A p \in 1..i : p \in 1..last
    OBVIOUS
  <2>. QED
    BY <2>1, <2>2, FS_Subset DEF FeedsUpTo
<1>. QED
  BY <1>1, FS_Subset DEF FeedCount

(* The line feeds one by one.                                                *)
FeedsOneByOne(g, t, last) ==
    /\ g[0] = <<>>
    /\ \A i \in 1..last : g[i] = IF t[i] = LF THEN Append(g[i - 1], i) ELSE g[i - 1]

LEMMA LineFeedsUnfold ==
    ASSUME NEW S, NEW t \in Seq(S)
    PROVE  \E g \in [0..Len(t) -> Seq(1..Len(t))] :
              FeedsOneByOne(g, t, Len(t)) /\ LineFeeds(t) = g[Len(t)]
<1>1. PICK last \in Nat : last = Len(t)
  OBVIOUS
<1> DEFINE V == Seq(1..last)
           step == [i \in 1..last |-> [x \in V |-> IF t[i] = LF THEN Append(x, i) ELSE x]]
<1>2. step \in [1..last -> [V -> V]] /\ <<>> \in V
  <2>1. ASSUME NEW i \in 1..last, NEW x \in V PROVE Append(x, i) \in V
    BY AppendProperties
  <2>2. <<>> \in V
    OBVIOUS
  <2> HIDE DEF V
  <2>. QED
    BY <2>1, <2>2
<1>3. PICK g \in [0..last -> V] : /\ g[0] = <<>>
                                  /\ \A i \in 1..last : g[i] = step[i][g[i - 1]]
  <2> HIDE DEF step, V
  <2>1. IsDefined(last, V, <<>>, step)
    BY <1>2, RecursionDefines
  <2>. QED
    BY <2>1 DEF IsDefined
<1>4. \A i \in 1..last : g[i] = IF t[i] = LF THEN Append(g[i - 1], i) ELSE g[i - 1]
  <2>1. SUFFICES ASSUME NEW i \in 1..last
                 PROVE  g[i] = IF t[i] = LF THEN Append(g[i - 1], i) ELSE g[i - 1]
    OBVIOUS
  <2>2. \A x \in V : step[i][x] = IF t[i] = LF THEN Append(x, i) ELSE x
    OBVIOUS
  <2> HIDE DEF step, V
  <2>3. g[i - 1] \in V
    OBVIOUS
  <2>. QED
    BY <1>3, <2>2, <2>3
<1> HIDE DEF step, V
<1> DEFINE Rec(h) == h = [i \in 0..last |-> IF i = 0 THEN <<>>
                             ELSE IF t[i] = LF THEN Append(h[i - 1], i) ELSE h[i - 1]]
<1>5. Rec(g)
  <2>1. \A i \in 0..last : i = 0 \/ i \in 1..last
    OBVIOUS
  <2>2. \A i \in 0..last : g[i] = IF i = 0 THEN <<>>
                             ELSE IF t[i] = LF THEN Append(g[i - 1], i) ELSE g[i - 1]
    BY <1>3, <1>4, <2>1
  <2>3. g = [i \in 0..last |-> g[i]]
    OBVIOUS
  <2>. QED
    BY <2>2, <2>3
<1>6. PICK h : h = CHOOSE upTo : Rec(upTo)
  OBVIOUS
<1>7. Rec(h)
  <2> HIDE DEF Rec
  <2>. QED
    BY <1>5, <1>6
<1>8. LineFeeds(t) = h[last]
  BY <1>1, <1>6 DEF LineFeeds
<1>9. \A i \in 0..last : h[i] = IF i = 0 THEN <<>>
                             ELSE IF t[i] = LF THEN Append(h[i - 1], i) ELSE h[i - 1]
  BY <1>7, Zenon
<1>10. h[0] = <<>> /\ \A i \in 1..last : h[i] = IF t[i] = LF THEN Append(h[i - 1], i) ELSE h[i - 1]
  <2>1. 0 \in 0..last /\ \A i \in 1..last : i \in 0..last /\ i # 0
    OBVIOUS
  <2>. QED
    BY <1>9, <2>1, Zenon
<1> HIDE DEF Rec
<1> DEFINE T == {i \in 0..last : h[i] = g[i]}
<1>11. 0 \in T
  BY <1>3, <1>10
<1>12. ASSUME NEW i \in 1..last, i - 1 \in T
       PROVE  i \in T
  BY <1>4, <1>10, <1>12
<1> HIDE DEF T
<1>13. \A i \in 0..last : i \in T
  BY <1>11, <1>12, StepByStep
<1>14. h[last] = g[last]
  BY <1>13 DEF T
<1>15. FeedsOneByOne(g, t, last)
  BY <1>3, <1>4 DEF FeedsOneByOne
<1>. QED
  BY <1>1, <1>8, <1>14, <1>15 DEF V

(* Which line feeds stand before a position.                                 *)
FeedsBelow(u, t, last) ==
    /\ Len(u) = FeedCount(t, last)
    /\ \A x \in 1..Len(u) : u[x] \in 1..last
    /\ \A i \in 0..last : \A x \in 1..Len(u) : x <= FeedCount(t, i) <=> u[x] <= i

LEMMA FeedsBelowAppended ==
    ASSUME NEW t, NEW j \in Nat \ {0}, NEW V, NEW old \in Seq(V), j \in V,
           FeedsBelow(old, t, j - 1)
    PROVE  FeedsBelow(IF t[j] = LF THEN Append(old, j) ELSE old, t, j)
<1>1. /\ FeedCount(t, j) = FeedCount(t, j - 1) + (IF t[j] = LF THEN 1 ELSE 0)
      /\ \A i \in 0..j : FeedCount(t, i) \in Nat
  <2>1. CountsFeeds(t, j) /\ j \in 1..j
    BY FeedsAreCounted
  <2>. QED
    BY <2>1 DEF CountsFeeds
<1>2. PICK m \in Nat : m = Len(old)
  OBVIOUS
<1>3. /\ m = FeedCount(t, j - 1)
      /\ \A x \in 1..m : old[x] \in 1..(j - 1)
      /\ \A i \in 0..(j - 1) : \A x \in 1..m : x <= FeedCount(t, i) <=> old[x] <= i
  BY <1>2 DEF FeedsBelow
<1>4. \A i \in 0..j : i = j \/ i \in 0..(j - 1)
  OBVIOUS
<1>5. CASE t[j] # LF
  <2>1. m = FeedCount(t, j)
    BY <1>1, <1>2, <1>3, <1>5
  <2>2. ASSUME NEW i \in 0..j, NEW x \in 1..m
        PROVE  x <= FeedCount(t, i) <=> old[x] <= i
    <3>1. CASE i = j
      BY <1>3, <2>1, <3>1
    <3>. QED
      BY <1>3, <1>4, <3>1
  <2>3. \A x \in 1..m : old[x] \in 1..j
    BY <1>3
  <2>. QED
    BY <1>2, <1>5, <2>1, <2>2, <2>3 DEF FeedsBelow
<1>6. CASE t[j] = LF
  <2>1. PICK new : new = Append(old, j)
    OBVIOUS
  <2>2. Len(new) = m + 1 /\ new[m + 1] = j /\ \A x \in 1..m : new[x] = old[x]
    BY <1>2, <2>1, AppendProperties
  <2>3. FeedCount(t, j) = m + 1
    BY <1>1, <1>3, <1>6
  <2>4. \A x \in 1..(m + 1) : x = m + 1 \/ x \in 1..m
    OBVIOUS
  <2>5. \A x \in 1..(m + 1) : new[x] \in 1..j
    BY <1>3, <2>2, <2>4
  <2>6. ASSUME NEW i \in 0..j, NEW x \in 1..(m + 1)
        PROVE  x <= FeedCount(t, i) <=> new[x] <= i
    <3>1. CASE i = j
      BY <2>3, <2>5, <3>1
    <3>2. CASE i \in 0..(j - 1) /\ x \in 1..m
      BY <1>3, <2>2, <3>2
    <3>3. CASE i \in 0..(j - 1) /\ x = m + 1
      <4>1. FeedCount(t, i) <= FeedCount(t, j - 1)
        BY <3>3, FeedCountGrows
      <4>2. FeedCount(t, i) \in Nat /\ j - 1 \in 0..j
        BY <1>1
      <4>. QED
        BY <1>3, <2>2, <3>3, <4>1, <4>2
    <3>. QED
      BY <1>4, <2>4, <3>1, <3>2, <3>3
  <2>. QED
    BY <1>6, <2>1, <2>2, <2>3, <2>5, <2>6 DEF FeedsBelow
<1>. QED
  BY <1>5, <1>6

LEMMA LineFeedsAreBelow ==
    ASSUME NEW S, NEW t \in Seq(S)
    PROVE  LineFeeds(t) \in Seq(1..Len(t)) /\ FeedsBelow(LineFeeds(t), t, Len(t))
<1>1. PICK last \in Nat : last = Len(t)
  OBVIOUS
<1>2. PICK g \in [0..last -> Seq(1..last)] :
         FeedsOneByOne(g, t, last) /\ LineFeeds(t) = g[last]
  BY <1>1, LineFeedsUnfold
<1>3. g[0] = <<>> /\ \A i \in 1..last : g[i] = IF t[i] = LF THEN Append(g[i - 1], i) ELSE g[i - 1]
  BY <1>2 DEF FeedsOneByOne
<1> DEFINE T == {i \in 0..last : FeedsBelow(g[i], t, i)}
<1>4. 0 \in T
  <2>1. FeedCount(t, 0) = 0
    BY FeedsAreCounted DEF CountsFeeds
  <2>2. Len(g[0]) = 0
    BY <1>3
  <2>3. FeedsBelow(g[0], t, 0)
    BY <2>1, <2>2 DEF FeedsBelow
  <2>. QED
    BY <2>3
<1>5. ASSUME NEW i \in 1..last, i - 1 \in T
      PROVE  i \in T
  <2>1. i \in Nat \ {0} /\ g[i - 1] \in Seq(1..last) /\ i \in 1..last /\ i \in 0..last
    OBVIOUS
  <2>2. FeedsBelow(g[i - 1], t, i - 1)
    BY <1>5
  <2>3. FeedsBelow(IF t[i] = LF THEN Append(g[i - 1], i) ELSE g[i - 1], t, i)
    BY <2>1, <2>2, FeedsBelowAppended
  <2>. QED
    BY <1>3, <2>1, <2>3
<1> HIDE DEF T
<1>6. \A i \in 0..last : i \in T
  BY <1>4, <1>5, StepByStep
<1>7. FeedsBelow(g[last], t, last)
  BY <1>6 DEF T
<1>. QED
  BY <1>1, <1>2, <1>7

(* The line a position is on is told by the line feeds before it.            *)
LEMMA LineNumberCounts ==
    ASSUME NEW t, NEW p \in Nat
    PROVE  LineNumber(t, p) = FeedCount(t, p - 1) + 1
  BY DEF LineNumber, FeedCount, FeedsUpTo

(* Where a line begins and ends.                                             *)
Breaks(t) == <<0>> \o LineFeeds(t) \o <<Len(t) + 1>>

LEMMA BreaksAreFeeds ==
    ASSUME NEW S, NEW t \in Seq(S)
    PROVE  /\ Breaks(t)[1] = 0
           /\ \A k \in 1..Len(LineFeeds(t)) : Breaks(t)[k + 1] = LineFeeds(t)[k]
           /\ Breaks(t)[Len(LineFeeds(t)) + 2] = Len(t) + 1
<1>1. PICK last \in Nat : last = Len(t)
  OBVIOUS
<1>2. PICK u \in Seq(Nat) : u = LineFeeds(t)
  <2>1. LineFeeds(t) \in Seq(1..last) /\ 1..last \subseteq Nat
    BY <1>1, LineFeedsAreBelow
  <2>. QED
    BY <2>1, SeqMonotonic
<1>3. PICK n \in Nat : n = Len(u)
  OBVIOUS
<1> DEFINE a == <<0>>
           c == <<last + 1>>
<1>4. a \in Seq(Nat) /\ c \in Seq(Nat) /\ Len(a) = 1 /\ Len(c) = 1 /\ a[1] = 0 /\ c[1] = last + 1
  OBVIOUS
<1>5. Breaks(t) = (a \o u) \o c
  BY <1>1, <1>2 DEF Breaks
<1> HIDE DEF a, c
<1>6. PICK front : front = a \o u
  OBVIOUS
<1>7. front \in Seq(Nat) /\ Len(front) = n + 1 /\ Begins(front, a) /\ Holds(front, 1, u)
  <2>1. /\ a \o u \in Seq(Nat) /\ Len(a \o u) = Len(a) + Len(u)
        /\ Begins(a \o u, a) /\ Holds(a \o u, Len(a), u)
    BY <1>4, JoinBegins
  <2>. QED
    BY <1>3, <1>4, <1>6, <2>1
<1>8. Begins(front \o c, front) /\ Holds(front \o c, n + 1, c)
  BY <1>4, <1>7, JoinBegins
<1>9. front[1] = 0 /\ \A k \in 1..n : front[1 + k] = u[k]
  BY <1>3, <1>4, <1>7 DEF Begins, Holds
<1>10. (front \o c)[(n + 1) + 1] = last + 1
  <2>1. 1 \in 1..Len(c)
    BY <1>4
  <2>2. (front \o c)[(n + 1) + 1] = c[1]
    BY <1>8, <2>1 DEF Holds
  <2>. QED
    BY <1>4, <2>2
<1>11. \A k \in 1..(n + 1) : (front \o c)[k] = front[k]
  BY <1>7, <1>8 DEF Begins
<1>12. (n + 1) + 1 = n + 2 /\ 1 \in 1..(n + 1) /\ \A k \in 1..n : k + 1 = 1 + k /\ k + 1 \in 1..(n + 1)
  OBVIOUS
<1>13. (front \o c)[1] = 0 /\ \A k \in 1..n : (front \o c)[k + 1] = u[k]
  BY <1>9, <1>11, <1>12
<1>. QED
  BY <1>1, <1>2, <1>3, <1>5, <1>6, <1>10, <1>12, <1>13

(* Without a line feed between them, two positions are on the same line.     *)
LEMMA SameLine ==
    ASSUME NEW t, NEW p \in Nat, NEW q \in 1..p
    PROVE  (\A i \in q..p : t[i] # LF)
              <=> t[p] # LF /\ LineNumber(t, q) = LineNumber(t, p)
<1>1. /\ \A i \in 1..p :
            FeedCount(t, i) = FeedCount(t, i - 1) + (IF t[i] = LF THEN 1 ELSE 0)
      /\ \A i \in 0..p : FeedCount(t, i) \in Nat
  <2>1. CountsFeeds(t, p)
    BY FeedsAreCounted
  <2>. QED
    BY <2>1 DEF CountsFeeds
<1>2. LineNumber(t, q) = FeedCount(t, q - 1) + 1 /\ LineNumber(t, p) = FeedCount(t, p - 1) + 1
  BY LineNumberCounts
<1>3. p \in q..p /\ p \in 1..p /\ p - 1 \in 0..p /\ q - 1 \in 0..p
  OBVIOUS
<1>4. ASSUME \A i \in q..p : t[i] # LF
      PROVE  t[p] # LF /\ FeedCount(t, q - 1) = FeedCount(t, p - 1)
  <2>1. \A i \in 1..(p - 1) : i \in 1..(q - 1) \/ i \in q..p
    OBVIOUS
  <2>2. \A i \in 1..(q - 1) : i \in 1..(p - 1)
    OBVIOUS
  <2>3. FeedsUpTo(t, p - 1) = FeedsUpTo(t, q - 1)
    BY <1>4, <2>1, <2>2 DEF FeedsUpTo
  <2>. QED
    BY <1>3, <1>4, <2>3 DEF FeedCount
<1>5. ASSUME t[p] # LF, FeedCount(t, q - 1) = FeedCount(t, p - 1),
             NEW i \in q..p, t[i] = LF
      PROVE  FALSE
  <2>1. i \in 1..p /\ i \in 0..(p - 1) /\ q - 1 \in 0..(i - 1) /\ i - 1 \in 0..p /\ i \in 0..p
        /\ i - 1 \in Nat /\ p - 1 \in Nat
    BY <1>5
  <2>2. FeedCount(t, i) = FeedCount(t, i - 1) + 1
    BY <1>1, <1>5, <2>1
  <2>3. FeedCount(t, q - 1) <= FeedCount(t, i - 1)
    BY <2>1, FeedCountGrows
  <2>4. FeedCount(t, i) <= FeedCount(t, p - 1)
    BY <2>1, FeedCountGrows
  <2>. QED
    BY <1>1, <1>3, <1>5, <2>1, <2>2, <2>3, <2>4
<1>6. LineNumber(t, q) = LineNumber(t, p) => FeedCount(t, q - 1) = FeedCount(t, p - 1)
  BY <1>1, <1>2, <1>3
<1>. QED
  BY <1>2, <1>4, <1>5, <1>6

(* The positions between two breaks are those of one line.                   *)
LineFrom(t, k) == Breaks(t)[k] + 1
LineTo(t, k) == Breaks(t)[k + 1] - 1

IsLine(t, k) ==
    /\ LineFrom(t, k) \in 1..(Len(t) + 1) /\ LineTo(t, k) \in 0..Len(t)
    /\ \A p \in 1..Len(t) :
          p \in LineFrom(t, k)..LineTo(t, k)
              <=> t[p] # LF /\ LineNumber(t, p) = k

LEMMA LinesAreBetweenBreaks ==
    ASSUME NEW S, NEW t \in Seq(S), NEW k \in 1..LineCount(t)
    PROVE  IsLine(t, k)
<1>1. PICK m \in Nat : m = Len(t)
  OBVIOUS
<1>2. PICK u \in Seq(1..m) : u = LineFeeds(t) /\ FeedsBelow(u, t, m)
  BY <1>1, LineFeedsAreBelow
<1>3. PICK n \in Nat : n = Len(u)
  OBVIOUS
<1>4. /\ n = FeedCount(t, m)
      /\ \A x \in 1..n : u[x] \in 1..m
      /\ \A i \in 0..m : \A x \in 1..n : x <= FeedCount(t, i) <=> u[x] <= i
  BY <1>2, <1>3 DEF FeedsBelow
<1>5. k \in 1..(n + 1)
  BY <1>2, <1>3 DEF LineCount
<1>6. /\ Breaks(t)[1] = 0
      /\ \A x \in 1..n : Breaks(t)[x + 1] = u[x]
      /\ Breaks(t)[n + 2] = m + 1
  BY <1>1, <1>2, <1>3, BreaksAreFeeds
<1>7. PICK from : from = Breaks(t)[k]
  OBVIOUS
<1>8. PICK to : to = Breaks(t)[k + 1]
  OBVIOUS
<1>9. CountsFeeds(t, m)
  BY FeedsAreCounted
<1>10. /\ \A i \in 1..m :
             FeedCount(t, i) = FeedCount(t, i - 1) + (IF t[i] = LF THEN 1 ELSE 0)
       /\ \A i \in 0..m : FeedCount(t, i) \in Nat
  BY <1>9 DEF CountsFeeds
<1>11. \A i \in 0..m : FeedCount(t, i) <= n
  BY <1>4, FeedCountGrows
<1>12. /\ from \in 0..m
       /\ \A p \in 1..m : from < p <=> k <= FeedCount(t, p - 1) + 1
  <2>1. CASE k = 1
    <3>1. from = 0
      BY <1>6, <1>7, <2>1
    <3>2. \A p \in 1..m : p - 1 \in 0..m
      OBVIOUS
    <3>. QED
      BY <1>10, <2>1, <3>1, <3>2
  <2>2. CASE k # 1
    <3>1. k - 1 \in 1..n /\ (k - 1) + 1 = k
      BY <1>5, <2>2
    <3>2. from = u[k - 1]
      BY <1>6, <1>7, <3>1
    <3>3. from \in 1..m
      BY <1>4, <3>1, <3>2
    <3>4. ASSUME NEW p \in 1..m PROVE from < p <=> k <= FeedCount(t, p - 1) + 1
      <4>1. p - 1 \in 0..m
        OBVIOUS
      <4>2. k - 1 <= FeedCount(t, p - 1) <=> u[k - 1] <= p - 1
        BY <1>4, <3>1, <4>1
      <4>3. FeedCount(t, p - 1) \in Nat
        BY <1>10, <4>1
      <4>. QED
        BY <3>2, <3>3, <4>2, <4>3, <1>5
    <3>. QED
      BY <3>3, <3>4
  <2>. QED
    BY <2>1, <2>2
<1>13. /\ to \in 1..(m + 1)
       /\ \A p \in 1..m : p < to <=> FeedCount(t, p) < k
  <2>1. CASE k = n + 1
    <3>1. to = m + 1
      <4>1. k + 1 = n + 2
        BY <2>1
      <4>. QED
        BY <1>6, <1>8, <4>1
    <3>2. \A p \in 1..m : p \in 0..m
      OBVIOUS
    <3>. QED
      BY <1>10, <1>11, <2>1, <3>1, <3>2
  <2>2. CASE k # n + 1
    <3>1. k \in 1..n
      BY <1>5, <2>2
    <3>2. to = u[k]
      BY <1>6, <1>8, <3>1
    <3>3. to \in 1..m
      BY <1>4, <3>1, <3>2
    <3>4. ASSUME NEW p \in 1..m PROVE p < to <=> FeedCount(t, p) < k
      <4>1. p \in 0..m
        OBVIOUS
      <4>2. k <= FeedCount(t, p) <=> u[k] <= p
        BY <1>4, <3>1, <4>1
      <4>3. FeedCount(t, p) \in Nat
        BY <1>10, <4>1
      <4>. QED
        BY <3>2, <3>3, <4>2, <4>3, <1>5
    <3>. QED
      BY <3>3, <3>4
  <2>. QED
    BY <2>1, <2>2
<1>14. ASSUME NEW p \in 1..m
       PROVE  p \in (from + 1)..(to - 1) <=> t[p] # LF /\ LineNumber(t, p) = k
  <2>1. p \in (from + 1)..(to - 1) <=> from < p /\ p < to
    BY <1>12, <1>13
  <2>2. p - 1 \in 0..m /\ p \in 0..m
    OBVIOUS
  <2>3. FeedCount(t, p) = FeedCount(t, p - 1) + (IF t[p] = LF THEN 1 ELSE 0)
        /\ FeedCount(t, p - 1) \in Nat
    BY <1>10, <2>2
  <2>4. LineNumber(t, p) = FeedCount(t, p - 1) + 1
    BY LineNumberCounts
  <2>5. FeedCount(t, p) < k /\ k <= FeedCount(t, p - 1) + 1
           <=> t[p] # LF /\ FeedCount(t, p - 1) + 1 = k
    BY <1>5, <2>3
  <2>. QED
    BY <1>12, <1>13, <2>1, <2>4, <2>5
<1>15. from + 1 \in 1..(m + 1) /\ to - 1 \in 0..m
  BY <1>12, <1>13
<1>. QED
  BY <1>1, <1>7, <1>8, <1>14, <1>15 DEF IsLine, LineFrom, LineTo

(* Every position that is no line feed is on one of the lines.               *)
LEMMA EveryPositionHasALine ==
    ASSUME NEW S, NEW t \in Seq(S), NEW p \in 1..Len(t), t[p] # LF
    PROVE  LineNumber(t, p) \in 1..LineCount(t) /\ LineNumber(t, p) \in 1..p
<1>1. PICK m \in Nat : m = Len(t)
  OBVIOUS
<1>2. CountsFeeds(t, m)
  BY FeedsAreCounted
<1>3. /\ \A i \in 1..m :
            FeedCount(t, i) = FeedCount(t, i - 1) + (IF t[i] = LF THEN 1 ELSE 0)
      /\ \A i \in 0..m : FeedCount(t, i) \in 0..i
  BY <1>2 DEF CountsFeeds
<1>4. Len(LineFeeds(t)) = FeedCount(t, m)
  BY <1>1, LineFeedsAreBelow DEF FeedsBelow
<1>5. LineNumber(t, p) = FeedCount(t, p - 1) + 1
  BY <1>1, LineNumberCounts
<1>6. p \in 1..m /\ p - 1 \in 0..m /\ p \in 0..m /\ m \in 0..m /\ m \in 1..m /\ m - 1 \in 0..m
      /\ p - 1 \in 0..(m - 1) /\ m - 1 \in Nat
  BY <1>1
<1>7. FeedCount(t, p - 1) \in 0..(p - 1) /\ FeedCount(t, p - 1) \in Nat
  BY <1>3, <1>6
<1>8. FeedCount(t, p - 1) <= FeedCount(t, m - 1)
  BY <1>6, FeedCountGrows
<1>9. FeedCount(t, m - 1) \in Nat
  BY <1>3, <1>6
<1>10. t # <<>> /\ Last(t) = t[m]
  BY <1>1, <1>6 DEF Last
<1>11. LineCount(t) = FeedCount(t, m) + (IF t[m] # LF THEN 1 ELSE 0)
  BY <1>4, <1>10 DEF LineCount
<1>12. FeedCount(t, m) = FeedCount(t, m - 1) + (IF t[m] = LF THEN 1 ELSE 0)
  BY <1>3, <1>6
<1>13. LineCount(t) = FeedCount(t, m - 1) + 1
  BY <1>9, <1>11, <1>12
<1>. QED
  BY <1>5, <1>7, <1>8, <1>9, <1>13

(* In a comment stands what has a bang before it on its line.                *)
LEMMA CommentsFollowABang ==
    ASSUME NEW t, NEW p \in Nat, t[p] # LF
    PROVE  InComment(t, p)
              <=> \E q \in 1..p : t[q] = Bang /\ LineNumber(t, q) = LineNumber(t, p)
<1>1. \A q \in 1..p : (\A i \in q..p : t[i] # LF)
                         <=> LineNumber(t, q) = LineNumber(t, p)
  BY SameLine
<1>. QED
  BY <1>1 DEF InComment

(* What a line holds outside its comment, and all positions from the first   *)
(* of them to the last.                                                      *)
LineInk(t, k) ==
    {p \in 1..Len(t) : IsInk(t[p]) /\ ~InComment(t, p) /\ LineNumber(t, p) = k}

Span(T) ==
    IF T = {} THEN <<>> ELSE [i \in 1..(Max(T) - Min(T) + 1) |-> Min(T) + i - 1]

HasBang(t, k) == \E p \in 1..Len(t) : t[p] = Bang /\ LineNumber(t, p) = k

HoldsLine(line, t, k) ==
    /\ line.number = k
    /\ line.content = Span(LineInk(t, k))
    /\ line.commented <=> HasBang(t, k)
    /\ \E a \in 1..(Len(t) + 1), e \in 0..Len(t) :
          \A p : p \in LineInk(t, k) <=> p \in a..e /\ IsInk(t[p])

(* A line is split at its first bang, and its ends are trimmed.              *)
LEMMA LineHoldsItsInk ==
    ASSUME NEW S, NEW t \in Seq(S), NEW k \in 1..LineCount(t)
    PROVE  HoldsLine(LogicalLinesOf(t)[k], t, k)
<1>1. PICK m \in Nat : m = Len(t)
  OBVIOUS
<1>2. PICK a \in 1..(m + 1) : a = LineFrom(t, k)
  BY <1>1, LinesAreBetweenBreaks DEF IsLine
<1>3. PICK b \in 0..m : b = LineTo(t, k)
  BY <1>1, LinesAreBetweenBreaks DEF IsLine
<1>4. \A p \in 1..m : p \in a..b <=> t[p] # LF /\ LineNumber(t, p) = k
  <2>1. IsLine(t, k)
    BY LinesAreBetweenBreaks
  <2>. QED
    BY <1>1, <1>2, <1>3, <2>1 DEF IsLine
<1>5. LogicalLinesOf(t)[k] = LogicalLine(t, k, a, b)
  BY <1>2, <1>3 DEF LogicalLinesOf, LineFrom, LineTo, Breaks
<1> DEFINE B == {i \in a..b : t[i] = Bang}
<1>6. PICK bang : bang = SelectInSubSeq(t, a, b, LAMBDA c : c = Bang)
  OBVIOUS
<1>7. bang = IF B # {} THEN Min(B) ELSE 0
  BY <1>6 DEF SelectInSubSeq
<1>8. B \subseteq Nat /\ B \subseteq a..b
  OBVIOUS
<1>9. \A p : p \in B <=> p \in 1..m /\ t[p] = Bang /\ LineNumber(t, p) = k
  <2>1. Bang # LF
    BY DEF Bang, LF
  <2>2. \A p : p \in a..b => p \in 1..m
    OBVIOUS
  <2>. QED
    BY <1>4, <2>1, <2>2
<1> HIDE DEF B
<1>10. B # {} => bang \in B /\ \A q \in B : bang <= q
  BY <1>7, <1>8, MinIsLeast
<1>11. bang # 0 <=> B # {}
  <2>1. \A q \in B : q # 0
    BY <1>8
  <2>. QED
    BY <1>7, <1>10, <2>1
<1>12. PICK end : end = IF bang = 0 THEN b ELSE bang - 1
  OBVIOUS
<1>13. end \in 0..m /\ \A p \in 1..m : p \in a..end <=> p \in a..b /\ ~(\E q \in B : q <= p)
  <2>1. CASE B = {}
    BY <1>7, <1>12, <2>1
  <2>2. CASE B # {}
    <3>1. bang \in a..b /\ end = bang - 1
      BY <1>8, <1>10, <1>11, <1>12, <2>2
    <3>2. \A p \in 1..m : (\E q \in B : q <= p) <=> bang <= p
      BY <1>8, <1>10, <2>2, <3>1
    <3>. QED
      BY <3>1, <3>2
  <2>. QED
    BY <2>1, <2>2
<1>14. LogicalLinesOf(t)[k].number = k
       /\ (LogicalLinesOf(t)[k].commented <=> bang # 0)
       /\ LogicalLinesOf(t)[k].content = Trimmed(t, a, end)
  <2>1. PICK line : line = LogicalLine(t, k, a, b)
    OBVIOUS
  <2>2. line = [number    |-> k,
                content   |-> Trimmed(t, a, IF bang = 0 THEN b ELSE bang - 1),
                commented |-> bang # 0,
                comment   |-> IF bang = 0 THEN <<>> ELSE Trimmed(t, bang + 1, b)]
    BY <1>6, <2>1, Zenon DEF LogicalLine
  <2>3. line.number = k /\ line.content = Trimmed(t, a, IF bang = 0 THEN b ELSE bang - 1)
    BY <2>2
  <2>4. line.commented <=> bang # 0
    BY <2>2, Zenon
  <2>. QED
    BY <1>5, <1>12, <2>1, <2>3, <2>4
<1>15. \A p : p \in LineInk(t, k) <=> p \in a..end /\ IsInk(t[p])
  <2>1. \A p : p \in a..end => p \in 1..m
    BY <1>13
  <2>2. ASSUME NEW p \in 1..m, IsInk(t[p])
        PROVE  ~InComment(t, p) /\ LineNumber(t, p) = k <=> p \in a..end
    <3>1. t[p] # LF
      BY <2>2 DEF IsInk, Whitespace
    <3>2. p \in a..b <=> LineNumber(t, p) = k
      BY <1>4, <3>1
    <3>3. InComment(t, p)
             <=> \E q \in 1..p : t[q] = Bang /\ LineNumber(t, q) = LineNumber(t, p)
      BY <3>1, CommentsFollowABang
    <3>4. \A q : q \in 1..p <=> q \in 1..m /\ q <= p
      OBVIOUS
    <3>5. LineNumber(t, p) = k => (InComment(t, p) <=> \E q \in B : q <= p)
      BY <1>9, <3>3, <3>4
    <3>. QED
      BY <1>13, <3>2, <3>5
  <2>. QED
    BY <1>1, <2>1, <2>2 DEF LineInk
<1>16. Trimmed(t, a, end) = Span(LineInk(t, k))
  <2>1. {i \in a..end : IsInk(t[i])} = LineInk(t, k)
    BY <1>15
  <2>. QED
    BY <2>1 DEF Trimmed, Span
<1>17. HasBang(t, k) <=> B # {}
  BY <1>1, <1>9 DEF HasBang
<1>18. \E x \in 1..(Len(t) + 1), y \in 0..Len(t) :
          \A p : p \in LineInk(t, k) <=> p \in x..y /\ IsInk(t[p])
  BY <1>1, <1>13, <1>15
<1>. QED
  BY <1>11, <1>14, <1>16, <1>17, <1>18 DEF HoldsLine

(* A span holds all the numbers from the least of a set to its largest.      *)
LEMMA SpanCovers ==
    ASSUME NEW last \in Nat, NEW T, T \subseteq 1..last, T # {}
    PROVE  /\ Min(T) \in T /\ Max(T) \in T
           /\ \A x \in T : Min(T) <= x /\ x <= Max(T)
           /\ DOMAIN Span(T) = 1..(Max(T) - Min(T) + 1)
           /\ \A i \in 1..(Max(T) - Min(T) + 1) : Span(T)[i] = Min(T) + i - 1
           /\ \A x : x \in ToSet(Span(T)) <=> x \in Min(T)..Max(T)
<1>1. PICK lo \in T : lo = Min(T) /\ \A x \in T : lo <= x
  <2>1. T \subseteq Nat
    OBVIOUS
  <2>. QED
    BY <2>1, MinIsLeast
<1>2. PICK hi \in T : hi = Max(T) /\ \A x \in T : x <= hi
  BY MaxIsLargest
<1>3. lo \in 1..last /\ hi \in 1..last /\ lo <= hi
  BY <1>1
<1>4. Span(T) = [i \in 1..(hi - lo + 1) |-> lo + i - 1]
  BY <1>1, <1>2 DEF Span
<1>5. DOMAIN Span(T) = 1..(hi - lo + 1) /\ \A i \in 1..(hi - lo + 1) : Span(T)[i] = lo + i - 1
  BY <1>4
<1>6. ASSUME NEW x PROVE x \in ToSet(Span(T)) <=> x \in lo..hi
  <2>1. ASSUME x \in ToSet(Span(T)) PROVE x \in lo..hi
    <3>1. PICK i \in 1..(hi - lo + 1) : x = Span(T)[i]
      BY <1>5, <2>1 DEF ToSet
    <3>. QED
      BY <1>3, <1>5, <3>1
  <2>2. ASSUME x \in lo..hi PROVE x \in ToSet(Span(T))
    <3>1. PICK i : i = x - lo + 1
      OBVIOUS
    <3>2. i \in 1..(hi - lo + 1) /\ lo + i - 1 = x
      BY <1>3, <2>2, <3>1
    <3>. QED
      BY <1>5, <3>2 DEF ToSet
  <2>. QED
    BY <2>1, <2>2
<1>. QED
  BY <1>1, <1>2, <1>5, <1>6

(* What is left of a text without its trailing marker: its beginning, with   *)
(* all of its data.                                                          *)
IsTextWithoutMarker(u, t) ==
    /\ Len(u) \in 0..Len(t)
    /\ \A p \in 1..Len(u) : u[p] = t[p] /\ ~IsTrailingMark(t, p)
    /\ \A p \in 1..Len(t) : IsInk(t[p]) /\ ~IsTrailingMark(t, p) => p \in 1..Len(u)

LEMMA MarkerIsTakenOff ==
    ASSUME NEW S, NEW t \in Seq(S)
    PROVE  /\ WithoutTrailingEofMarker(t) \in Seq(S)
           /\ IsTextWithoutMarker(WithoutTrailingEofMarker(t), t)
<1>1. PICK m \in Nat : m = Len(t)
  OBVIOUS
<1> DEFINE I == {i \in 1..m : IsInk(t[i])}
<1>2. PICK end : end = IF I # {} THEN Max(I) ELSE 0
  OBVIOUS
<1>3. TrimEnd(t) = SubSeq(t, 1, end)
  BY <1>1, <1>2 DEF TrimEnd, SelectLastInSeq
<1>4. I \subseteq 1..m
  OBVIOUS
<1>5. I # {} => end \in I /\ \A x \in I : x <= end
  <2> HIDE DEF I
  <2>. QED
    BY <1>2, <1>4, MaxIsLargest
<1>6. end \in 0..m /\ (end # 0 => end \in 1..m /\ IsInk(t[end]))
      /\ \A p \in 1..m : IsInk(t[p]) => p <= end
  BY <1>2, <1>5
<1>7. IsInk(Mark)
  BY DEF IsInk, Whitespace, Mark, TAB, CR, LF
<1> HIDE DEF I
<1>8. ASSUME NEW p \in 1..m, IsTrailingMark(t, p)
      PROVE  p = end
  <2>1. t[p] = Mark /\ \A i \in (p + 1)..m : ~IsInk(t[i])
    BY <1>1, <1>8 DEF IsTrailingMark
  <2>2. p <= end
    BY <1>6, <1>7, <2>1
  <2>3. end \notin (p + 1)..m /\ end \in 1..m
    BY <1>6, <2>1, <2>2
  <2>. QED
    BY <2>2, <2>3
<1>9. PICK trimmed \in Seq(S) : trimmed = TrimEnd(t) /\ Len(trimmed) = end
                               /\ \A i \in 1..end : trimmed[i] = t[i]
  <2>1. SubSeq(t, 1, end) \in Seq(S) /\ Len(SubSeq(t, 1, end)) = end
        /\ \A i \in 1..end : SubSeq(t, 1, end)[i] = t[i]
    <3>1. SubSeq(t, 1, end) = [i \in 1..end |-> t[i]]
      BY <1>1, <1>6
    <3>2. \A i \in 1..end : t[i] \in S
      BY <1>1, <1>6, ElementOfSeq
    <3>3. [i \in 1..end |-> t[i]] \in [1..end -> S] /\ end \in Nat
      BY <1>6, <3>2
    <3>4. [i \in 1..end |-> t[i]] \in Seq(S) /\ Len([i \in 1..end |-> t[i]]) = end
      BY <3>3, FunctionIsSequence
    <3>. QED
      BY <3>1, <3>4
  <2>. QED
    BY <1>3, <2>1
<1>10. trimmed # <<>> <=> end # 0
  BY <1>9, EmptySeq
<1>11. CASE trimmed # <<>> /\ Last(trimmed) = Mark
  <2>1. WithoutTrailingEofMarker(t) = Front(trimmed)
    BY <1>9, <1>11 DEF WithoutTrailingEofMarker
  <2>2. end \in 1..m /\ t[end] = Mark
    BY <1>6, <1>9, <1>10, <1>11 DEF Last
  <2>3. Front(trimmed) \in Seq(S) /\ Len(Front(trimmed)) = end - 1
        /\ \A p \in 1..(end - 1) : Front(trimmed)[p] = t[p]
    <3>1. Front(trimmed) = [i \in 1..(end - 1) |-> trimmed[i]]
      BY <1>9, <2>2 DEF Front
    <3>2. \A i \in 1..(end - 1) : trimmed[i] \in S /\ trimmed[i] = t[i]
      BY <1>9, <2>2, ElementOfSeq
    <3>3. [i \in 1..(end - 1) |-> trimmed[i]] \in [1..(end - 1) -> S] /\ end - 1 \in Nat
      BY <2>2, <3>2
    <3>4. [i \in 1..(end - 1) |-> trimmed[i]] \in Seq(S) /\ Len([i \in 1..(end - 1) |-> trimmed[i]]) = end - 1
      BY <3>3, FunctionIsSequence
    <3>. QED
      BY <3>1, <3>2, <3>4
  <2>4. IsTrailingMark(t, end)
    <3>1. \A i \in (end + 1)..m : ~IsInk(t[i])
      BY <1>6, <2>2
    <3>. QED
      BY <1>1, <2>2, <3>1 DEF IsTrailingMark
  <2>5. \A p \in 1..m : IsInk(t[p]) /\ ~IsTrailingMark(t, p) => p \in 1..(end - 1)
    <3>1. SUFFICES ASSUME NEW p \in 1..m, IsInk(t[p]), ~IsTrailingMark(t, p)
                   PROVE  p \in 1..(end - 1)
      OBVIOUS
    <3>2. p <= end /\ p # end
      BY <1>6, <2>4, <3>1
    <3>. QED
      BY <2>2, <3>2
  <2>6. \A p \in 1..(end - 1) : ~IsTrailingMark(t, p)
    BY <1>8, <2>2
  <2>7. end - 1 \in 0..m
    BY <2>2
  <2>. QED
    BY <1>1, <2>1, <2>3, <2>5, <2>6, <2>7 DEF IsTextWithoutMarker
<1>12. CASE ~(trimmed # <<>> /\ Last(trimmed) = Mark)
  <2>1. WithoutTrailingEofMarker(t) = t
    BY <1>9, <1>12 DEF WithoutTrailingEofMarker
  <2>2. ASSUME NEW p \in 1..m, IsTrailingMark(t, p) PROVE FALSE
    <3>1. p = end /\ t[p] = Mark
      BY <1>8, <2>2 DEF IsTrailingMark
    <3>2. end # 0 /\ Last(trimmed) = t[end]
      BY <1>9, <3>1 DEF Last
    <3>. QED
      BY <1>10, <1>12, <3>1, <3>2
  <2>3. IsTextWithoutMarker(t, t)
    BY <1>1, <2>2 DEF IsTextWithoutMarker
  <2>. QED
    BY <2>1, <2>3
<1>. QED
  BY <1>11, <1>12

(* The data of a file, line by line.                                         *)
LEMMA DataIsLineInk ==
    ASSUME NEW t, NEW u, Len(t) \in Nat, IsTextWithoutMarker(u, t)
    PROVE  /\ \A p \in 1..Len(u) : LineNumber(t, p) = LineNumber(u, p)
           /\ \A k : LineInk(u, k) = {p \in DataCharacters(t) : LineNumber(t, p) = k}
<1>1. PICK m \in Nat : m = Len(u)
  BY DEF IsTextWithoutMarker
<1>2. \A p \in 1..m : u[p] = t[p]
  BY <1>1 DEF IsTextWithoutMarker
<1>3. ASSUME NEW p \in 1..m
      PROVE  LineNumber(t, p) = LineNumber(u, p) /\ (InComment(t, p) <=> InComment(u, p))
  <2>1. \A i \in 1..(p - 1) : i \in 1..m
    OBVIOUS
  <2>2. {i \in 1..(p - 1) : t[i] = LF} = {i \in 1..(p - 1) : u[i] = LF}
    BY <1>2, <2>1
  <2>3. \A q \in 1..p : q \in 1..m /\ \A i \in q..p : i \in 1..m
    OBVIOUS
  <2>4. \A q \in 1..p : /\ t[q] = Bang <=> u[q] = Bang
                        /\ (\A i \in q..p : t[i] # LF) <=> (\A i \in q..p : u[i] # LF)
    BY <1>2, <2>3
  <2>. QED
    BY <2>2, <2>4 DEF LineNumber, InComment
<1>4. ASSUME NEW p
      PROVE  p \in DataCharacters(t) <=> p \in 1..m /\ IsInk(u[p]) /\ ~InComment(u, p)
  <2>1. p \in 1..m => p \in 1..Len(t)
    BY <1>1 DEF IsTextWithoutMarker
  <2>2. p \in DataCharacters(t) => p \in 1..m
    BY <1>1 DEF DataCharacters, IsTextWithoutMarker
  <2>3. p \in 1..m => ~IsTrailingMark(t, p)
    BY <1>1 DEF IsTextWithoutMarker
  <2>. QED
    BY <1>2, <1>3, <2>1, <2>2, <2>3 DEF DataCharacters
<1>5. ASSUME NEW k
      PROVE  LineInk(u, k) = {p \in DataCharacters(t) : LineNumber(t, p) = k}
  <2>1. \A p : p \in LineInk(u, k) <=> p \in DataCharacters(t) /\ LineNumber(t, p) = k
    BY <1>1, <1>3, <1>4 DEF LineInk
  <2>. QED
    BY <2>1
<1>. QED
  BY <1>1, <1>3, <1>5

(* What a line's content shows.                                              *)
LEMMA SpansShowTheirInk ==
    ASSUME NEW S, NEW u \in Seq(S), NEW k \in 1..LineCount(u), NEW p
    PROVE  /\ p \in ToSet(LogicalLinesOf(u)[k].content) => p \in 1..Len(u)
           /\ p \in ToSet(LogicalLinesOf(u)[k].content) /\ IsInk(u[p]) <=> p \in LineInk(u, k)
<1>1. PICK m \in Nat : m = Len(u)
  OBVIOUS
<1>2. PICK T : T = LineInk(u, k) /\ T \subseteq 1..m
  BY <1>1 DEF LineInk
<1>3. LogicalLinesOf(u)[k].content = Span(T)
      /\ \E a \in 1..(m + 1), e \in 0..m : \A x : x \in T <=> x \in a..e /\ IsInk(u[x])
  BY <1>1, <1>2, LineHoldsItsInk DEF HoldsLine
<1>4. CASE T = {}
  <2>1. ToSet(Span(T)) = {}
    BY <1>4 DEF Span, ToSet
  <2>. QED
    BY <1>2, <1>3, <1>4, <2>1
<1>5. CASE T # {}
  <2>1. PICK lo \in T : lo = Min(T)
    BY <1>2, <1>5, SpanCovers
  <2>2. PICK hi \in T : hi = Max(T)
    BY <1>2, <1>5, SpanCovers
  <2>3. (\A x \in T : lo <= x /\ x <= hi) /\ (p \in ToSet(Span(T)) <=> p \in lo..hi)
    BY <1>2, <1>5, <2>1, <2>2, SpanCovers
  <2>4. PICK a \in 1..(m + 1), e \in 0..m : \A x : x \in T <=> x \in a..e /\ IsInk(u[x])
    BY <1>3
  <2>5. lo \in a..e /\ hi \in a..e
    BY <2>4
  <2>6. p \in lo..hi => p \in a..e /\ p \in 1..m
    BY <2>5
  <2>7. p \in T => p \in lo..hi /\ IsInk(u[p])
    BY <1>2, <2>3, <2>4
  <2>8. p \in lo..hi /\ IsInk(u[p]) => p \in T
    BY <2>4, <2>6
  <2>. QED
    BY <1>1, <1>2, <1>3, <2>3, <2>6, <2>7, <2>8
<1>. QED
  BY <1>4, <1>5

(* Every character of data is seen on its line, and no other.                *)
LEMMA DataIsSeen ==
    ASSUME NEW S, NEW t \in Seq(S)
    PROVE  LET lines == LogicalLinesOf(WithoutTrailingEofMarker(t))
           IN  SeenOnLines(lines) \cap Visible(t)
                  = {<<LineNumber(t, p), p>> : p \in DataCharacters(t)}
<1>1. PICK u \in Seq(S) : u = WithoutTrailingEofMarker(t) /\ IsTextWithoutMarker(u, t)
  BY MarkerIsTakenOff
<1>2. PICK n, m \in Nat : n = Len(t) /\ m = Len(u) /\ m <= n
  BY <1>1 DEF IsTextWithoutMarker
<1>3. /\ \A p \in 1..m : LineNumber(t, p) = LineNumber(u, p)
      /\ \A k : LineInk(u, k) = {p \in DataCharacters(t) : LineNumber(t, p) = k}
  BY <1>1, <1>2, DataIsLineInk
<1>4. PICK lines : lines = LogicalLinesOf(u)
  OBVIOUS
<1>5. DOMAIN lines = 1..LineCount(u)
  BY <1>4 DEF LogicalLinesOf
<1>6. \A k \in 1..LineCount(u) : lines[k].number = k
  BY <1>4, LineHoldsItsInk DEF HoldsLine
<1>7. ASSUME NEW x, x \in SeenOnLines(lines) \cap Visible(t)
      PROVE  \E p \in DataCharacters(t) : x = <<LineNumber(t, p), p>>
  <2>0. PICK k \in 1..LineCount(u) :
           \E p \in ToSet(lines[k].content) : x = <<lines[k].number, p>>
    BY <1>5, <1>7 DEF SeenOnLines
  <2>1. PICK p \in ToSet(lines[k].content) : x = <<lines[k].number, p>>
    BY <2>0
  <2>2. x = <<k, p>>
    BY <1>6, <2>1
  <2>3. IsInk(t[p])
    BY <1>7, <2>2 DEF Visible
  <2>4. p \in 1..m
    BY <1>2, <1>4, <2>1, SpansShowTheirInk
  <2>5. u[p] = t[p]
    BY <1>1, <1>2, <2>4 DEF IsTextWithoutMarker
  <2>6. p \in LineInk(u, k)
    BY <1>4, <2>1, <2>3, <2>5, SpansShowTheirInk
  <2>7. p \in DataCharacters(t) /\ LineNumber(t, p) = k
    BY <1>3, <2>6
  <2>. QED
    BY <2>2, <2>7
<1>8. ASSUME NEW p \in DataCharacters(t)
      PROVE  <<LineNumber(t, p), p>> \in SeenOnLines(lines) \cap Visible(t)
  <2>1. PICK k : k = LineNumber(t, p)
    OBVIOUS
  <2>2. p \in LineInk(u, k)
    BY <1>3, <2>1
  <2>3. p \in 1..m /\ IsInk(u[p]) /\ p \in 1..n
    BY <1>2, <2>2 DEF LineInk
  <2>4. u[p] = t[p]
    BY <1>1, <1>2, <2>3 DEF IsTextWithoutMarker
  <2>5. u[p] # LF
    BY <2>3 DEF IsInk, Whitespace
  <2>6. k \in 1..LineCount(u) /\ k \in 1..p
    BY <1>2, <1>3, <2>1, <2>3, <2>5, EveryPositionHasALine
  <2>7. p \in ToSet(lines[k].content) /\ lines[k].number = k
    BY <1>4, <1>6, <2>2, <2>6, SpansShowTheirInk
  <2>8. <<k, p>> \in SeenOnLines(lines)
    BY <1>5, <2>6, <2>7 DEF SeenOnLines
  <2>9. k \in 1..n
    BY <2>3, <2>6
  <2>10. <<k, p>> \in Visible(t)
    BY <1>2, <2>3, <2>4, <2>9 DEF Visible
  <2>. QED
    BY <2>1, <2>8, <2>10
<1>9. \A x : x \in SeenOnLines(lines) \cap Visible(t)
              <=> x \in {<<LineNumber(t, p), p>> : p \in DataCharacters(t)}
  BY <1>7, <1>8
<1>. QED
  BY <1>1, <1>4, <1>9

(* A line is known to have a comment exactly if a bang stands on it.         *)
LEMMA CommentsAreSeen ==
    ASSUME NEW S, NEW t \in Seq(S)
    PROVE  LET u     == WithoutTrailingEofMarker(t)
               lines == LogicalLinesOf(u)
           IN  \A k \in DOMAIN lines :
                  lines[k].commented <=>
                     \E p \in 1..Len(u) : u[p] = Bang /\ LineNumber(t, p) = k
<1>1. PICK u \in Seq(S) : u = WithoutTrailingEofMarker(t) /\ IsTextWithoutMarker(u, t)
  BY MarkerIsTakenOff
<1>2. \A p \in 1..Len(u) : LineNumber(t, p) = LineNumber(u, p)
  BY <1>1, DataIsLineInk
<1>3. ASSUME NEW k \in 1..LineCount(u)
      PROVE  LogicalLinesOf(u)[k].commented <=>
                     \E p \in 1..Len(u) : u[p] = Bang /\ LineNumber(t, p) = k
  <2>1. LogicalLinesOf(u)[k].commented <=> HasBang(u, k)
    BY LineHoldsItsInk DEF HoldsLine
  <2>. QED
    BY <1>2, <2>1 DEF HasBang
<1>4. DOMAIN LogicalLinesOf(u) = 1..LineCount(u)
  BY DEF LogicalLinesOf
<1>. QED
  BY <1>1, <1>3, <1>4
-----------------------------------------------------------------------------
(* The characters from the first of a line to the last of its data.          *)
LineChars(u, T) == [i \in 1..(Max(T) - Min(T) + 1) |-> u[Min(T) + i - 1]]

LEMMA ContentIsOfTheLine ==
    ASSUME NEW S, NEW u \in Seq(S), NEW k \in 1..LineCount(u)
    PROVE  LET T    == LineInk(u, k)
               line == LogicalLinesOf(u)[k].content
           IN  /\ line = <<>> <=> T = {}
               /\ T # {} => /\ Chars(u, line) = LineChars(u, T)
                            /\ LineChars(u, T) \in Seq(S)
                            /\ Len(LineChars(u, T)) = Max(T) - Min(T) + 1
                            /\ Max(T) - Min(T) + 1 \in Nat \ {0}
<1>1. PICK m \in Nat : m = Len(u)
  OBVIOUS
<1>2. PICK T : T = LineInk(u, k) /\ T \subseteq 1..m
  BY <1>1 DEF LineInk
<1>3. PICK line : line = LogicalLinesOf(u)[k].content /\ line = Span(T)
  BY <1>2, LineHoldsItsInk DEF HoldsLine
<1>4. CASE T = {}
  BY <1>2, <1>3, <1>4 DEF Span
<1>5. CASE T # {}
  <2>1. PICK lo \in T : lo = Min(T)
    BY <1>2, <1>5, SpanCovers
  <2>2. PICK hi \in T : hi = Max(T)
    BY <1>2, <1>5, SpanCovers
  <2>3. lo <= hi /\ DOMAIN Span(T) = 1..(hi - lo + 1)
        /\ \A i \in 1..(hi - lo + 1) : Span(T)[i] = lo + i - 1
    BY <1>2, <1>5, <2>1, <2>2, SpanCovers
  <2>4. lo \in 1..m /\ hi \in 1..m /\ hi - lo + 1 \in Nat \ {0}
    BY <1>2, <2>3
  <2>5. Chars(u, line) = LineChars(u, T)
    <3>1. Chars(u, line) = [i \in 1..(hi - lo + 1) |-> u[line[i]]]
      BY <1>3, <2>3 DEF Chars
    <3>2. LineChars(u, T) = [i \in 1..(hi - lo + 1) |-> u[lo + i - 1]]
      BY <2>1, <2>2 DEF LineChars
    <3>. QED
      BY <1>3, <2>3, <3>1, <3>2
  <2>6. LineChars(u, T) \in [1..(hi - lo + 1) -> S]
    <3>1. \A i \in 1..(hi - lo + 1) : lo + i - 1 \in 1..m
      BY <2>4
    <3>2. \A i \in 1..(hi - lo + 1) : u[lo + i - 1] \in S
      BY <1>1, <3>1, ElementOfSeq
    <3>. QED
      BY <2>1, <2>2, <3>2 DEF LineChars
  <2>7. LineChars(u, T) \in Seq(S) /\ Len(LineChars(u, T)) = hi - lo + 1
    BY <2>4, <2>6, FunctionIsSequence
  <2>8. line # <<>>
    <3>1. 1 \in DOMAIN line
      BY <1>3, <2>3, <2>4
    <3>2. DOMAIN <<>> = {}
      OBVIOUS
    <3>. QED
      BY <3>1, <3>2
  <2>. QED
    BY <1>2, <1>3, <1>5, <2>1, <2>2, <2>4, <2>5, <2>7, <2>8
<1>. QED
  BY <1>4, <1>5

(* What is sniffed: the first line with data, or nothing.                    *)
IsFirstLine(u, k) ==
    /\ k \in 1..LineCount(u)
    /\ LineInk(u, k) # {}
    /\ \A j \in 1..(k - 1) : LineInk(u, j) = {}

LEMMA FirstLineIsSniffed ==
    ASSUME NEW S, text \in Seq(S)
    PROVE  /\ FirstContent \in Seq(S)
           /\ \/ FirstContent = <<>> /\ \A k \in 1..LineCount(text) : LineInk(text, k) = {}
              \/ \E k : /\ IsFirstLine(text, k)
                        /\ FirstContent = LineChars(text, LineInk(text, k))
<1>1. PICK lines : lines = LogicalLinesOf(text)
  OBVIOUS
<1>2. PICK n \in Nat : n = LineCount(text)
  BY LineFeedsAreBelow DEF LineCount
<1>3. lines = [k \in 1..n |-> lines[k]]
  BY <1>1, <1>2 DEF LogicalLinesOf
<1>4. Len(lines) = n
  <2>1. lines \in [1..n -> {lines[k] : k \in 1..n}]
    BY <1>3
  <2>. QED
    BY <2>1, FunctionIsSequence
<1> DEFINE I == {i \in 1..n : lines[i].content # <<>>}
<1>5. SniffLine(lines) = IF I # {} THEN Min(I) ELSE 0
  BY <1>4, Zenon DEF SniffLine, SelectInSeq
<1>6. FirstContent = Content(lines, SniffLine(lines))
  BY <1>1 DEF FirstContent
<1>7. I \subseteq Nat /\ I \subseteq 1..n /\ \A i \in 1..n : i \in I <=> LineInk(text, i) # {}
  BY <1>1, <1>2, ContentIsOfTheLine
<1>8. CASE I = {}
  <2>1. FirstContent = <<>>
    BY <1>5, <1>6, <1>8 DEF Content
  <2>2. \A k \in 1..n : LineInk(text, k) = {}
    BY <1>7, <1>8
  <2>3. FirstContent \in Seq(S)
    BY <2>1
  <2>. QED
    BY <1>2, <2>1, <2>2, <2>3
<1>9. CASE I # {}
  <2>1. PICK k : k = Min(I)
    OBVIOUS
  <2>2. k \in I /\ \A i \in I : k <= i
    <3> HIDE DEF I
    <3>. QED
      BY <1>7, <1>9, <2>1, MinIsLeast
  <2>3. k \in 1..n /\ LineInk(text, k) # {}
    BY <1>7, <2>2
  <2>4. \A j \in 1..(k - 1) : LineInk(text, j) = {}
    <3>1. SUFFICES ASSUME NEW j \in 1..(k - 1) PROVE LineInk(text, j) = {}
      OBVIOUS
    <3>2. j \in 1..n /\ ~(k <= j)
      BY <2>3
    <3>. QED
      BY <1>7, <2>2, <3>2
  <2>5. FirstContent = Chars(text, lines[k].content)
    BY <1>5, <1>6, <1>9, <2>1, <2>3 DEF Content
  <2>6. /\ Chars(text, lines[k].content) = LineChars(text, LineInk(text, k))
        /\ LineChars(text, LineInk(text, k)) \in Seq(S)
    BY <1>1, <1>2, <2>3, ContentIsOfTheLine
  <2>7. IsFirstLine(text, k)
    BY <1>2, <2>3, <2>4 DEF IsFirstLine
  <2>. QED
    BY <2>5, <2>6, <2>7
<1>. QED
  BY <1>8, <1>9

(* What the text is at each stage, what chose the reader and what kept the   *)
(* text from one.                                                            *)
Refused ==
    LooksLikeKeyword(FirstContent) /\ SniffFault(ParseKeywordLine(FirstContent)) # "none"

Sniffed ==
    \/ ~LooksLikeKeyword(FirstContent) /\ reader = "v1"
    \/ /\ LooksLikeKeyword(FirstContent) /\ reader = "v2"
       /\ SniffFault(ParseKeywordLine(FirstContent)) = "none"

TextInv ==
    /\ stage \in {"idle", "open", "endings", "marker", "sniff", "reading"}
    /\ stage # "idle" => call.text \in Seq(STRING)
    /\ stage \in {"open", "endings", "marker"} => text = call.text
    /\ stage \in {"sniff", "reading"} => text = WithoutTrailingEofMarker(call.text)
    /\ stage = "reading" => Sniffed
    /\ stage \in {"open", "endings", "marker", "sniff"} => reader = "none"
    /\ stage = "endings" /\ Returned => HasCrOnlyLineEndings(text)
    /\ stage = "marker" => ~Returned
    /\ stage = "sniff" /\ Returned => Refused

LEMMA TextStarts == Init => TextInv
<1>. SUFFICES ASSUME Init PROVE TextInv
  OBVIOUS
<1>1. /\ call \in Calls
      /\ stage = CASE call.entry = "str"               -> "endings"
                   [] call.entry \in {"file", "read"}  -> "open"
                   [] OTHER                            -> "idle"
      /\ text = IF stage = "idle" THEN <<>> ELSE call.text
      /\ reader = "none" /\ ~Returned
  BY DEF Init, ReadInit, Reader!Init, Returned
<1>2. \/ stage = "endings" /\ call.entry = "str"
      \/ stage = "open" /\ call.entry \in {"file", "read"}
      \/ stage = "idle"
  BY <1>1
<1>3. stage # "idle" => call.text \in Seq(STRING)
  BY <1>1, <1>2, CallsAssumption
<1>. QED
  BY <1>1, <1>2, <1>3 DEF TextInv

LEMMA TextGoesOn == TextInv /\ [Next]_vars => TextInv'
<1>. SUFFICES ASSUME TextInv, [Next]_vars
              PROVE  TextInv'
  OBVIOUS
<1>1. CASE OpenFile \/ CheckLineEndings
  <2>1. /\ stage \in {"open", "endings"} /\ UNCHANGED <<call, text, reader>>
        /\ \/ stage' = "open"
           \/ stage' = "endings" /\ result' # "reading" /\ HasCrOnlyLineEndings(text)
           \/ stage' \in {"endings", "marker"} /\ result' = result /\ ~Returned
    BY <1>1 DEF OpenFile, CheckLineEndings, Fail, GoOn
  <2>. QED
    BY <2>1 DEF TextInv, Returned
<1>2. CASE StripMarker
  <2>1. /\ stage = "marker" /\ UNCHANGED <<call, reader, result>> /\ stage' = "sniff"
        /\ text' = WithoutTrailingEofMarker(text)
    BY <1>2 DEF StripMarker, GoOn
  <2>. QED
    BY <2>1 DEF TextInv, Returned
<1>3. CASE Sniff
  <2>1. stage = "sniff" /\ UNCHANGED <<call, text>>
    BY <1>3 DEF Sniff, Fail, GoOn
  <2>2. text' = WithoutTrailingEofMarker(call'.text) /\ call'.text \in Seq(STRING)
    BY <2>1 DEF TextInv
  <2>3. PICK content : content = FirstContent
    OBVIOUS
  <2>4. \/ ~LooksLikeKeyword(content) /\ reader' = "v1" /\ stage' = "reading"
        \/ /\ LooksLikeKeyword(content) /\ reader' = "v2" /\ stage' = "reading"
           /\ SniffFault(ParseKeywordLine(content)) = "none"
        \/ /\ LooksLikeKeyword(content) /\ reader' = reader /\ stage' = "sniff"
           /\ SniffFault(ParseKeywordLine(content)) # "none"
    <3>1. PICK lines, k : /\ lines = LogicalLinesOf(text) /\ k = SniffLine(lines)
                          /\ content = Content(lines, k)
      BY <2>3 DEF FirstContent
    <3>2. \/ /\ ~LooksLikeKeyword(content)
             /\ reader' = "v1"
             /\ GoOn("reading")
          \/ /\ LooksLikeKeyword(content)
             /\ \E kind \in {SniffFault(ParseKeywordLine(content))} :
                   \/ kind = "none" /\ reader' = "v2" /\ GoOn("reading")
                   \/ kind # "none" /\ Fail(kind, k)
      BY <1>3, <3>1 DEF Sniff
    <3>. QED
      BY <2>1, <3>2 DEF GoOn, Fail
  <2>5. FirstContent' = FirstContent
    BY <2>1 DEF FirstContent, Content
  <2>6. /\ stage' = "reading" => Sniffed'
        /\ stage' = "sniff" => Refused'
    BY <2>3, <2>4, <2>5 DEF Sniffed, Refused
  <2>. QED
    BY <2>1, <2>2, <2>4, <2>6 DEF TextInv
<1>4. CASE /\ UNCHANGED <<call, stage, text, reader>>
           /\ stage = "reading" \/ result' = result
  <2>1. FirstContent' = FirstContent
    BY <1>4 DEF FirstContent, Content
  <2>2. Sniffed' = Sniffed /\ Refused' = Refused
    BY <1>4, <2>1 DEF Sniffed, Refused
  <2>. QED
    BY <1>4, <2>2 DEF TextInv, Returned
<1>. QED
  BY <1>1, <1>2, <1>3, <1>4
     DEF Next, ReadNext, Steps, Read, HandOver, Construct, Done, Raise, Build, vars, readVars

(* Of any file, the readers see every character that is neither comment nor  *)
(* the trailing marker, on its own line, and no other (lines.rs, and the     *)
(* order of parse's first steps).                                            *)
THEOREM EveryCharacterIsKept == Spec => []KeepsEveryCharacter
<1>1. TextInv => KeepsEveryCharacter
  <2>. SUFFICES ASSUME TextInv, stage = "sniff"
                PROVE  LET lines == LogicalLinesOf(text)
                       IN  /\ SeenOnLines(lines) \cap Visible(call.text)
                                = {<<LineNumber(call.text, p), p>> : p \in DataCharacters(call.text)}
                           /\ \A k \in DOMAIN lines :
                                 lines[k].commented <=>
                                    \E p \in 1..Len(text) : /\ text[p] = Bang
                                                            /\ LineNumber(call.text, p) = k
    BY DEF KeepsEveryCharacter
  <2>1. PICK t \in Seq(STRING) : t = call.text /\ text = WithoutTrailingEofMarker(t)
    BY DEF TextInv
  <2>2. SeenOnLines(LogicalLinesOf(text)) \cap Visible(t)
           = {<<LineNumber(t, p), p>> : p \in DataCharacters(t)}
    BY <2>1, DataIsSeen
  <2>3. \A k \in DOMAIN LogicalLinesOf(text) :
           LogicalLinesOf(text)[k].commented <=>
              \E p \in 1..Len(text) : text[p] = Bang /\ LineNumber(t, p) = k
    BY <2>1, CommentsAreSeen
  <2>. QED
    BY <2>1, <2>2, <2>3
<1>. QED
  BY <1>1, TextStarts, TextGoesOn, PTL DEF Spec

(* Any first line that opens with a bracket is read as a keyword exactly if  *)
(* it spells that one, with a space or a dash between the words, and never   *)
(* as two of them (parse_keyword_line).                                      *)
THEOREM EveryKeywordIsSpelled == Spec => []KeywordsAreSpelledExactly
<1>1. TextInv => KeywordsAreSpelledExactly
  <2>. SUFFICES ASSUME TextInv, stage = "sniff", LooksLikeKeyword(FirstContent),
                       NEW keyword \in DOMAIN KeywordWords
                PROVE  ParseKeywordLine(FirstContent).verdict = keyword
                          <=> IsSpelled(FirstContent, keyword)
    BY DEF KeywordsAreSpelledExactly
  <2>1. text \in Seq(STRING)
    BY MarkerIsTakenOff DEF TextInv
  <2>2. PICK content \in Seq(STRING) : content = FirstContent
    BY <2>1, FirstLineIsSniffed
  <2>. QED
    BY <2>2, SpelledIsParsed
<1>. QED
  BY <1>1, TextStarts, TextGoesOn, PTL DEF Spec

(* A version line of a known version: nothing but white space stands between *)
(* the keyword and the number, and nothing behind.                           *)
IsVersionLine(content) ==
    /\ Len(content) \in Nat /\ Len(content) >= 4
    /\ content[1] = "[" /\ content[2] = "version" /\ content[3] = "]"
    /\ content[Len(content)] \in {"2.0", "2.1"}
    /\ \A i \in 4..(Len(content) - 1) : ~IsInk(content[i])

LEMMA OneCharacterIsLeft ==
    ASSUME NEW S, NEW rest \in Seq(S), NEW char, TrimStart(rest) = <<char>>
    PROVE  /\ Len(rest) \in Nat \ {0} /\ rest[Len(rest)] = char
           /\ \A i \in 1..(Len(rest) - 1) : ~IsInk(rest[i])
<1>1. PICK r \in Nat : r = Len(rest)
  OBVIOUS
<1>2. PICK more : more = Append(rest, ".")
  OBVIOUS
<1>3. Len(more) = r + 1 /\ more[r + 1] = "." /\ \A i \in 1..r : more[i] = rest[i]
  BY <1>1, <1>2, AppendProperties
<1> DEFINE J == {i \in 1..(r + 1) : IsInk(more[i])}
<1>4. PICK j : j = SelectInSeq(more, IsInk)
  OBVIOUS
<1>5. j = IF J # {} THEN Min(J) ELSE 0
  BY <1>3, <1>4, Zenon DEF SelectInSeq
<1>6. r + 1 \in J /\ J \subseteq Nat /\ J \subseteq 1..(r + 1)
  <2>1. IsInk(".")
    BY DEF IsInk, Whitespace, TAB, CR, LF
  <2>2. r + 1 \in 1..(r + 1)
    OBVIOUS
  <2>3. r + 1 \in J
    BY <1>3, <2>1, <2>2
  <2>. QED
    BY <2>3
<1>7. j \in J /\ \A i \in J : j <= i
  <2> HIDE DEF J
  <2>. QED
    BY <1>5, <1>6, MinIsLeast
<1>8. j \in 1..(r + 1) /\ \A i \in 1..r : IsInk(rest[i]) => j <= i
  <2>1. ASSUME NEW i \in 1..r, IsInk(rest[i]) PROVE j <= i
    <3>1. i \in J
      BY <1>3, <2>1
    <3>. QED
      BY <1>7, <3>1
  <2>. QED
    BY <1>7, <2>1
<1> HIDE DEF J
<1>9. TrimStart(rest) = SubSeq(rest, j, r)
  BY <1>1, <1>2, <1>4 DEF TrimStart
<1>10. SubSeq(rest, j, r) = [i \in 1..(r - j + 1) |-> rest[i + j - 1]]
  BY <1>1, <1>8
<1>11. r - j + 1 = 1 /\ rest[1 + j - 1] = char
  <2>1. [i \in 1..(r - j + 1) |-> rest[i + j - 1]] = <<char>>
    BY <1>9, <1>10
  <2>2. DOMAIN <<char>> = 1..1 /\ <<char>>[1] = char
    OBVIOUS
  <2>3. 1..(r - j + 1) = 1..1
    BY <2>1, <2>2
  <2>4. r - j + 1 \in Nat
    BY <1>1, <1>8
  <2>5. r - j + 1 = 1
    <3>1. PICK x \in Nat : x = r - j + 1
      BY <2>4
    <3>2. 1 \in 1..x /\ x \in 1..1
      <4>1. 1 \in 1..x
        BY <2>3, <3>1
      <4>2. x \in 1..x
        BY <4>1
      <4>. QED
        BY <2>3, <3>1, <4>1, <4>2
    <3>. QED
      BY <3>1, <3>2
  <2>6. 1 \in 1..(r - j + 1)
    BY <2>5
  <2>7. [i \in 1..(r - j + 1) |-> rest[i + j - 1]][1] = rest[1 + j - 1]
    BY <2>6
  <2>. QED
    BY <2>1, <2>2, <2>5, <2>7
<1>12. j = r /\ 1 + j - 1 = r
  BY <1>1, <1>8, <1>11
<1>13. r # 0
  BY <1>8, <1>12
<1>14. \A i \in 1..(r - 1) : ~IsInk(rest[i])
  <2>1. SUFFICES ASSUME NEW i \in 1..(r - 1), IsInk(rest[i]) PROVE FALSE
    OBVIOUS
  <2>2. i \in 1..r /\ ~(r <= i)
    BY <1>1
  <2>. QED
    BY <1>8, <1>12, <2>1, <2>2
<1>. QED
  BY <1>1, <1>11, <1>12, <1>13, <1>14

(* What a line is found to be is a keyword or one of two faults.             *)
LEMMA VerdictIsKnown ==
    ASSUME NEW content
    PROVE  ParseKeywordLine(content).verdict
              \in {"MalformedKeyword", "UnknownKeyword"} \cup DOMAIN KeywordWords
<1> DEFINE close == ClosingBracket(content)
           named == Matches(NameIn(content, close))
<1>1. ParseKeywordLine(content) =
        IF IsMalformed(content, close) THEN Malformed
        ELSE IF named = {} THEN [verdict |-> "UnknownKeyword", argument |-> <<>>]
        ELSE [verdict |-> CHOOSE k \in named : TRUE, argument |-> TrimStart(RestOf(content, close))]
  BY DEF ParseKeywordLine, IsMalformed, Matches, NameIn, RestOf
<1>2. named \subseteq DOMAIN KeywordWords
  BY DEF Matches
<1>3. PICK k : k = CHOOSE x \in named : TRUE
  OBVIOUS
<1>4. named # {} => k \in DOMAIN KeywordWords
  BY <1>2, <1>3
<1> HIDE DEF close, named
<1>. QED
  BY <1>1, <1>3, <1>4 DEF Malformed

(* The brackets of a version line hold the one word.                         *)
LEMMA VersionIsOneWord ==
    ASSUME NEW S, NEW content \in Seq(S), NEW close \in Nat, Names(content, close, "Version")
    PROVE  /\ close = 3 /\ Len(content) \in Nat /\ 3 <= Len(content)
           /\ content[2] = "version" /\ content[3] = "]"
<1>1. PICK len \in Nat : len = Len(content)
  OBVIOUS
<1>2. "Version" \in DOMAIN KeywordWords /\ KeywordWords["Version"] = <<"version">>
  BY DEF KeywordWords
<1>3. close \in 3..len /\ content[close] = "]"
  BY <1>1 DEF Names
<1>4. close \in 2..Len(content)
  BY <1>1, <1>3
<1>5. PICK name : name = NameIn(content, close)
  OBVIOUS
<1>6. Len(name) = close - 2 /\ \A i \in 1..(close - 2) : name[i] = content[i + 1]
  <2>1. HasParts(content, close, S)
    BY <1>4, PartsOfALine
  <2>. QED
    BY <1>5, <2>1 DEF HasParts
<1>7. PICK words : words = <<"version">> /\ Len(words) = 1 /\ words[1] = "version"
  <2>1. Len(<<"version">>) = 1
    OBVIOUS
  <2>2. <<"version">>[1] = "version"
    OBVIOUS
  <2>. QED
    BY <2>1, <2>2
<1>8. IsName(name, words) /\ AreWords(words)
  BY <1>2, <1>5, <1>7, NamesHaveWords DEF Names
<1>9. PICK gaps : name = Joined(words, gaps)
  BY <1>8 DEF IsName
<1>10. Alternates(name, words, gaps)
  BY <1>8, <1>9, JoinedAlternates
<1>11. Len(name) = 1 /\ name[1] = "version"
  <2>1. Len(name) = 2 * 1 - 1 /\ \A i \in 1..1 : name[2 * i - 1] = words[i]
    BY <1>7, <1>10 DEF Alternates
  <2>2. 1 \in 1..1 /\ 2 * 1 - 1 = 1
    OBVIOUS
  <2>. QED
    BY <1>7, <2>1, <2>2
<1>12. close = 3 /\ 1 \in 1..(close - 2)
  <2>1. close - 2 = 1
    BY <1>6, <1>11
  <2>2. close = 3
    BY <2>1
  <2>. QED
    BY <2>2
<1>13. name[1] = content[1 + 1]
  BY <1>6, <1>12
<1>. QED
  BY <1>1, <1>3, <1>11, <1>12, <1>13

LEMMA VersionIsSpelledOut ==
    ASSUME NEW S, NEW content \in Seq(S), LooksLikeKeyword(content),
           SniffFault(ParseKeywordLine(content)) = "none"
    PROVE  IsVersionLine(content) /\ IsSpelled(content, "Version")
<1>1. PICK len \in Nat : len = Len(content)
  OBVIOUS
<1>2. "Version" \in DOMAIN KeywordWords /\ KeywordWords["Version"] = <<"version">>
  BY DEF KeywordWords
<1>3. ParseKeywordLine(content).verdict = "Version"
      /\ ParseKeywordLine(content).argument \in {<<"2.0">>, <<"2.1">>}
  <2>1. PICK parsed : parsed = ParseKeywordLine(content)
    OBVIOUS
  <2>2. parsed.verdict \in DOMAIN KeywordWords
    <3>1. CASE parsed.verdict \notin DOMAIN KeywordWords
      <4>1. parsed.verdict = "none"
        BY <2>1, <3>1 DEF SniffFault
      <4>2. parsed.verdict \in {"MalformedKeyword", "UnknownKeyword"} \cup DOMAIN KeywordWords
        BY <2>1, VerdictIsKnown
      <4>. QED
        BY <3>1, <4>1, <4>2
    <3>. QED
      BY <3>1
  <2>. QED
    BY <2>1, <2>2 DEF SniffFault
<1>4. PICK close : close = ClosingBracket(content)
  OBVIOUS
<1>5. IsSpelled(content, "Version") /\ Names(content, close, "Version")
  BY <1>2, <1>3, <1>4, SpelledIsParsed
<1>6. ParseKeywordLine(content).argument = TrimStart(RestOf(content, close))
  BY <1>2, <1>3, <1>4, ParseSplits
<1>7. close \in 3..len /\ close \in 2..Len(content) /\ content[close] = "]"
  BY <1>1, <1>5 DEF Names
<1>8. /\ Len(NameIn(content, close)) = close - 2
      /\ \A i \in 1..(close - 2) : NameIn(content, close)[i] = content[i + 1]
      /\ RestOf(content, close) \in Seq(S)
      /\ Len(RestOf(content, close)) = len - close
      /\ \A i \in 1..(len - close) : RestOf(content, close)[i] = content[close + i]
  <2>1. close \in 2..Len(content)
    BY <1>7
  <2>2. /\ Len(NameIn(content, close)) = close - 2
        /\ \A i \in 1..(close - 2) : NameIn(content, close)[i] = content[i + 1]
    <3>1. HasParts(content, close, S)
      BY <2>1, PartsOfALine
    <3>. QED
      BY <3>1 DEF HasParts
  <2>3. /\ RestOf(content, close) \in Seq(S)
        /\ Len(RestOf(content, close)) = Len(content) - close
        /\ \A i \in 1..(Len(content) - close) : RestOf(content, close)[i] = content[close + i]
    <3>1. HasParts(content, close, S)
      BY <2>1, PartsOfALine
    <3>. QED
      BY <3>1 DEF HasParts
  <2>. QED
    BY <1>1, <2>2, <2>3
<1>9. close = 3 /\ content[2] = "version"
  BY <1>1, <1>5, <1>7, VersionIsOneWord
<1>10. PICK char \in {"2.0", "2.1"} : TrimStart(RestOf(content, close)) = <<char>>
  BY <1>3, <1>6
<1>11. /\ len - 3 \in Nat \ {0} /\ RestOf(content, close)[len - 3] = char
       /\ \A i \in 1..((len - 3) - 1) : ~IsInk(RestOf(content, close)[i])
  <2>1. PICK rest \in Seq(S) : rest = RestOf(content, close)
    BY <1>8
  <2>2. /\ Len(rest) \in Nat \ {0} /\ rest[Len(rest)] = char
        /\ \A i \in 1..(Len(rest) - 1) : ~IsInk(rest[i])
    BY <1>10, <2>1, OneCharacterIsLeft
  <2>. QED
    BY <1>8, <1>9, <2>1, <2>2
<1>12. len >= 4 /\ content[len] = char
  <2>1. len - 3 \in 1..(len - 3) /\ 3 + (len - 3) = len /\ len >= 4
    BY <1>1, <1>11
  <2>. QED
    BY <1>8, <1>9, <1>11, <2>1
<1>13. ASSUME NEW i \in 4..(len - 1) PROVE ~IsInk(content[i])
  <2>1. i - 3 \in 1..((len - 3) - 1) /\ i - 3 \in 1..(len - 3) /\ 3 + (i - 3) = i
    BY <1>1
  <2>. QED
    BY <1>8, <1>9, <1>11, <2>1
<1>14. content[1] = "["
  BY DEF LooksLikeKeyword
<1>. QED
  BY <1>1, <1>5, <1>7, <1>9, <1>10, <1>12, <1>13, <1>14 DEF IsVersionLine

(* Line numbers only grow.                                                   *)
LEMMA LineNumbersGrow ==
    ASSUME NEW t, NEW p \in Nat, NEW q \in 1..p
    PROVE  LineNumber(t, q) \in Nat /\ LineNumber(t, p) \in Nat
           /\ LineNumber(t, q) <= LineNumber(t, p)
<1>1. p - 1 \in Nat /\ q - 1 \in 0..(p - 1) /\ p \in Nat /\ q \in Nat /\ p - 1 \in 0..(p - 1)
  OBVIOUS
<1>2. FeedCount(t, q - 1) <= FeedCount(t, p - 1)
  BY <1>1, FeedCountGrows
<1>3. CountsFeeds(t, p - 1)
  BY <1>1, FeedsAreCounted
<1>4. \A i \in 0..(p - 1) : FeedCount(t, i) \in 0..i
  BY <1>3 DEF CountsFeeds
<1>5. FeedCount(t, q - 1) \in Nat /\ FeedCount(t, p - 1) \in Nat
  BY <1>1, <1>4
<1>6. LineNumber(t, q) = FeedCount(t, q - 1) + 1 /\ LineNumber(t, p) = FeedCount(t, p - 1) + 1
  BY <1>1, LineNumberCounts
<1>. QED
  BY <1>2, <1>5, <1>6

(* The first data of a file, and what stands on its line.                    *)
LEMMA FirstDataIsOnTheFirstLine ==
    ASSUME NEW S, NEW t \in Seq(S), NEW u \in Seq(S), IsTextWithoutMarker(u, t),
           NEW k, IsFirstLine(u, k)
    PROVE  /\ DataCharacters(t) # {}
           /\ FirstData(t) = Min(LineInk(u, k))
           /\ OnLineOfFirst(t) = LineInk(u, k)
           /\ SubSeq(t, FirstData(t), Max(OnLineOfFirst(t))) = LineChars(u, LineInk(u, k))
<1>1. PICK n, m \in Nat : n = Len(t) /\ m = Len(u) /\ m <= n
  BY DEF IsTextWithoutMarker
<1>2. PICK T : T = LineInk(u, k) /\ T \subseteq 1..m /\ T # {}
  BY <1>1 DEF LineInk, IsFirstLine
<1>3. /\ \A p \in 1..m : LineNumber(t, p) = LineNumber(u, p)
      /\ \A j : LineInk(u, j) = {p \in DataCharacters(t) : LineNumber(t, p) = j}
  BY <1>1, DataIsLineInk
<1>4. PICK lo \in T : lo = Min(T) /\ \A x \in T : lo <= x
  BY <1>2, SpanCovers
<1>5. PICK hi \in T : hi = Max(T) /\ lo <= hi
  BY <1>2, <1>4, SpanCovers
<1>6. lo \in 1..m /\ hi \in 1..m /\ lo \in DataCharacters(t) /\ LineNumber(t, lo) = k
  BY <1>2, <1>3
<1>7. ASSUME NEW q \in DataCharacters(t)
      PROVE  lo <= q /\ q \in 1..m
  <2>1. PICK j : j = LineNumber(t, q)
    OBVIOUS
  <2>2. q \in LineInk(u, j)
    BY <1>3, <2>1
  <2>3. q \in 1..m /\ IsInk(u[q])
    BY <1>1, <2>2 DEF LineInk
  <2>4. u[q] # LF /\ LineNumber(u, q) = j
    BY <1>3, <2>1, <2>3 DEF IsInk, Whitespace
  <2>5. j \in 1..LineCount(u)
    BY <1>1, <2>3, <2>4, EveryPositionHasALine
  <2>6. ~(j \in 1..(k - 1))
    BY <2>2 DEF IsFirstLine
  <2>7. k \in 1..LineCount(u) /\ LineCount(u) \in Nat
    BY LineFeedsAreBelow, SMTT(30) DEF IsFirstLine, LineCount
  <2>8. j >= k
    BY <2>5, <2>6, <2>7
  <2>9. ASSUME q < lo PROVE FALSE
    <3>1. lo \in Nat /\ q \in 1..lo
      BY <1>6, <2>3, <2>9
    <3>2. j <= k
      BY <1>6, <2>1, <3>1, LineNumbersGrow
    <3>3. j = k
      BY <2>5, <2>7, <2>8, <3>2
    <3>4. q \in T
      BY <1>2, <2>2, <3>3
    <3>. QED
      BY <1>4, <1>6, <2>3, <2>9, <3>4
  <2>. QED
    BY <1>6, <2>3, <2>9
<1>8. FirstData(t) = lo
  <2>1. \E p \in DataCharacters(t) : \A q \in DataCharacters(t) : p <= q
    BY <1>6, <1>7
  <2>2. PICK first : first = FirstData(t)
    OBVIOUS
  <2>3. first \in DataCharacters(t) /\ \A q \in DataCharacters(t) : first <= q
    BY <2>1, <2>2 DEF FirstData
  <2>4. first <= lo /\ lo <= first /\ first \in 1..m
    BY <1>6, <1>7, <2>3
  <2>. QED
    BY <1>6, <2>2, <2>4
<1>9. OnLineOfFirst(t) = T
  BY <1>2, <1>3, <1>6, <1>8 DEF OnLineOfFirst
<1>10. SubSeq(t, lo, hi) = LineChars(u, T)
  <2>1. SubSeq(t, lo, hi) = [i \in 1..(hi - lo + 1) |-> t[lo + i - 1]]
    <3>1. SubSeq(t, lo, hi) = [i \in 1..(hi - lo + 1) |-> t[i + lo - 1]]
      BY <1>1, <1>6
    <3>2. \A i \in 1..(hi - lo + 1) : i + lo - 1 = lo + i - 1
      BY <1>6
    <3>. QED
      BY <3>1, <3>2
  <2>2. \A i \in 1..(hi - lo + 1) : lo + i - 1 \in 1..m
    BY <1>6
  <2>3. \A i \in 1..(hi - lo + 1) : t[lo + i - 1] = u[lo + i - 1]
    BY <1>1, <2>2 DEF IsTextWithoutMarker
  <2>4. LineChars(u, T) = [i \in 1..(hi - lo + 1) |-> u[lo + i - 1]]
    BY <1>4, <1>5 DEF LineChars
  <2>. QED
    BY <2>1, <2>3, <2>4
<1>. QED
  BY <1>2, <1>4, <1>5, <1>6, <1>8, <1>9, <1>10

(* A version line has four characters that are no white space.               *)
LEMMA FourInAll ==
    ASSUME NEW T, NEW lo \in Int, NEW hi \in Int, lo + 3 <= hi, T = {lo, lo + 1, lo + 2, hi}
    PROVE  IsFiniteSet(T) /\ Cardinality(T) = 4
<1>1. IsFiniteSet({lo}) /\ Cardinality({lo}) = 1
  BY FS_Singleton
<1>2. IsFiniteSet({lo} \cup {lo + 1}) /\ Cardinality({lo} \cup {lo + 1}) = 2
  <2>1. lo + 1 \notin {lo}
    OBVIOUS
  <2>. QED
    BY <1>1, <2>1, FS_AddElement
<1>3. /\ IsFiniteSet(({lo} \cup {lo + 1}) \cup {lo + 2})
      /\ Cardinality(({lo} \cup {lo + 1}) \cup {lo + 2}) = 3
  <2>1. lo + 2 \notin {lo} \cup {lo + 1}
    OBVIOUS
  <2>. QED
    BY <1>2, <2>1, FS_AddElement
<1>4. /\ IsFiniteSet((({lo} \cup {lo + 1}) \cup {lo + 2}) \cup {hi})
      /\ Cardinality((({lo} \cup {lo + 1}) \cup {lo + 2}) \cup {hi}) = 4
  <2>1. PICK Three : Three = ({lo} \cup {lo + 1}) \cup {lo + 2}
    OBVIOUS
  <2>2. IsFiniteSet(Three) /\ Cardinality(Three) = 3
    BY <1>3, <2>1
  <2>3. hi \notin Three
    BY <2>1
  <2>4. IsFiniteSet(Three \cup {hi}) /\ Cardinality(Three \cup {hi}) = 4
    BY <2>2, <2>3, FS_AddElement
  <2>. QED
    BY <2>1, <2>4
<1>5. T = (({lo} \cup {lo + 1}) \cup {lo + 2}) \cup {hi}
  OBVIOUS
<1>. QED
  BY <1>4, <1>5

LEMMA VersionLineHasFour ==
    ASSUME NEW S, NEW u \in Seq(S), NEW k \in 1..LineCount(u), LineInk(u, k) # {},
           IsVersionLine(LineChars(u, LineInk(u, k)))
    PROVE  Cardinality(LineInk(u, k)) = 4
<1>1. PICK m \in Nat : m = Len(u)
  OBVIOUS
<1>2. PICK T : T = LineInk(u, k) /\ T \subseteq 1..m /\ T # {}
  BY <1>1 DEF LineInk
<1>3. PICK lo \in T : lo = Min(T)
  BY <1>2, SpanCovers
<1>4. PICK hi \in T : hi = Max(T)
  BY <1>2, SpanCovers
<1>5. \A x \in T : lo <= x /\ x <= hi
  BY <1>2, <1>3, <1>4, SpanCovers
<1>6. PICK a \in 1..(m + 1), e \in 0..m : \A x : x \in T <=> x \in a..e /\ IsInk(u[x])
  BY <1>1, <1>2, LineHoldsItsInk DEF HoldsLine
<1>7. lo \in 1..m /\ hi \in 1..m /\ lo \in a..e /\ hi \in a..e
  BY <1>2, <1>6
<1>8. PICK content : content = LineChars(u, T)
  OBVIOUS
<1>9. Len(content) = hi - lo + 1
  BY <1>2, <1>3, <1>4, <1>8, ContentIsOfTheLine
<1>10. \A i \in 1..(hi - lo + 1) : content[i] = u[lo + i - 1]
  BY <1>3, <1>4, <1>8 DEF LineChars
<1>11. /\ hi - lo + 1 >= 4
       /\ content[2] = "version" /\ content[3] = "]"
       /\ \A i \in 4..((hi - lo + 1) - 1) : ~IsInk(content[i])
  BY <1>2, <1>8, <1>9 DEF IsVersionLine
<1>12. lo + 3 <= hi
  BY <1>7, <1>11
<1>13. u[lo + 1] = "version" /\ u[lo + 2] = "]"
  <2>1. 2 \in 1..(hi - lo + 1) /\ 3 \in 1..(hi - lo + 1) /\ lo + 2 - 1 = lo + 1 /\ lo + 3 - 1 = lo + 2
    BY <1>7, <1>12
  <2>2. content[2] = u[lo + 2 - 1] /\ content[3] = u[lo + 3 - 1]
    BY <1>10, <2>1
  <2>. QED
    BY <1>11, <2>1, <2>2
<1>14. lo + 1 \in T /\ lo + 2 \in T
  <2>1. IsInk("version") /\ IsInk("]")
    BY DEF IsInk, Whitespace, TAB, CR, LF
  <2>2. lo + 1 \in a..e /\ lo + 2 \in a..e
    BY <1>7, <1>12
  <2>. QED
    BY <1>6, <1>13, <2>1, <2>2
<1>15. ASSUME NEW x \in T, x # lo, x # lo + 1, x # lo + 2, x # hi
       PROVE  FALSE
  <2>1. x \in 1..m /\ lo <= x /\ x <= hi
    BY <1>2, <1>5, <1>15
  <2>2. x - lo + 1 \in 4..((hi - lo + 1) - 1) /\ x - lo + 1 \in 1..(hi - lo + 1)
        /\ lo + (x - lo + 1) - 1 = x
    BY <1>7, <1>15, <2>1
  <2>3. content[x - lo + 1] = u[lo + (x - lo + 1) - 1]
    BY <1>10, <2>2
  <2>4. ~IsInk(content[x - lo + 1])
    BY <1>11, <2>2
  <2>5. IsInk(u[x])
    BY <1>6, <1>15
  <2>. QED
    BY <2>2, <2>3, <2>4, <2>5
<1>16. T = {lo, lo + 1, lo + 2, hi}
  BY <1>14, <1>15
<1>17. Cardinality(T) = 4
  <2>1. lo \in Int /\ hi \in Int
    BY <1>7
  <2>. QED
    BY <1>12, <1>16, <2>1, FourInAll
<1>. QED
  BY <1>2, <1>17

(* White space before one character is trimmed.                              *)
LEMMA OneCharacterIsTrimmed ==
    ASSUME NEW S, NEW rest \in Seq(S), NEW r \in Nat \ {0}, Len(rest) = r, IsInk(rest[r]),
           \A i \in 1..(r - 1) : ~IsInk(rest[i])
    PROVE  TrimStart(rest) = <<rest[r]>>
<1>1. PICK more : more = Append(rest, ".")
  OBVIOUS
<1>2. Len(more) = r + 1 /\ \A i \in 1..r : more[i] = rest[i]
  BY <1>1, AppendProperties
<1> DEFINE J == {i \in 1..(r + 1) : IsInk(more[i])}
<1>3. SelectInSeq(more, IsInk) = IF J # {} THEN Min(J) ELSE 0
  BY <1>2, Zenon DEF SelectInSeq
<1>4. r \in J /\ J \subseteq Nat /\ \A i \in J : r <= i
  <2>1. r \in J
    BY <1>2
  <2>2. ASSUME NEW i \in J, i < r PROVE FALSE
    <3>1. i \in 1..(r - 1) /\ i \in 1..r
      BY <2>2
    <3>. QED
      BY <1>2, <2>2, <3>1
  <2>. QED
    BY <2>1, <2>2
<1>5. SelectInSeq(more, IsInk) = r
  <2> HIDE DEF J
  <2>1. J # {} /\ Min(J) = r
    BY <1>4, MinIsThat
  <2>. QED
    BY <1>3, <2>1
<1>6. TrimStart(rest) = SubSeq(rest, r, r)
  BY <1>1, <1>5 DEF TrimStart
<1>7. SubSeq(rest, r, r) = <<rest[r]>>
  <2>1. SubSeq(rest, r, r) = [i \in 1..(r - r + 1) |-> rest[i + r - 1]]
    OBVIOUS
  <2>2. r - r + 1 = 1 /\ 1 + r - 1 = r
    OBVIOUS
  <2>3. [i \in 1..1 |-> rest[i + r - 1]] = <<rest[r]>>
    BY <2>2
  <2>. QED
    BY <2>1, <2>2, <2>3
<1>. QED
  BY <1>6, <1>7

(* A line of four characters that spells the keyword and ends with a known   *)
(* version has white space everywhere else.                                  *)
LEMMA NothingElseOnTheLine ==
    ASSUME NEW S, NEW u \in Seq(S), NEW k \in 1..LineCount(u),
           NEW content, content = LineChars(u, LineInk(u, k)), LineInk(u, k) # {},
           Cardinality(LineInk(u, k)) = 4,
           4 <= Len(content), content[2] = "version", content[3] = "]",
           NEW i \in 4..(Len(content) - 1)
    PROVE  ~IsInk(content[i])
<1>1. PICK m \in Nat : m = Len(u)
  OBVIOUS
<1>2. PICK T : T = LineInk(u, k) /\ T \subseteq 1..m /\ T # {}
  BY <1>1 DEF LineInk
<1>3. PICK lo \in T : lo = Min(T)
  BY <1>2, SpanCovers
<1>4. PICK hi \in T : hi = Max(T)
  BY <1>2, SpanCovers
<1>5. PICK a \in 1..(m + 1), e \in 0..m : \A x : x \in T <=> x \in a..e /\ IsInk(u[x])
  BY <1>1, <1>2, LineHoldsItsInk DEF HoldsLine
<1>6. lo \in 1..m /\ hi \in 1..m /\ lo \in a..e /\ hi \in a..e
  BY <1>2, <1>5
<1>7. Len(content) = hi - lo + 1
  BY <1>2, <1>3, <1>4, ContentIsOfTheLine
<1>8. \A j \in 1..(hi - lo + 1) : content[j] = u[lo + j - 1]
  BY <1>2, <1>3, <1>4 DEF LineChars
<1>9. lo + 3 <= hi
  BY <1>6, <1>7
<1>10. u[lo + 1] = "version" /\ u[lo + 2] = "]"
  <2>1. 2 \in 1..(hi - lo + 1) /\ 3 \in 1..(hi - lo + 1) /\ lo + 2 - 1 = lo + 1 /\ lo + 3 - 1 = lo + 2
    BY <1>6, <1>9
  <2>2. content[2] = u[lo + 2 - 1] /\ content[3] = u[lo + 3 - 1]
    BY <1>8, <2>1
  <2>. QED
    BY <2>1, <2>2
<1>11. lo + 1 \in T /\ lo + 2 \in T
  <2>1. IsInk("version") /\ IsInk("]")
    BY DEF IsInk, Whitespace, TAB, CR, LF
  <2>2. lo + 1 \in a..e /\ lo + 2 \in a..e
    BY <1>6, <1>9
  <2>. QED
    BY <1>5, <1>10, <2>1, <2>2
<1>12. PICK x \in Int : x = lo + i - 1
  BY <1>6
<1>13. /\ lo + 2 < x /\ x < hi /\ x \in a..e /\ i \in 1..(hi - lo + 1)
  BY <1>6, <1>7, <1>9, <1>12
<1>14. ASSUME IsInk(content[i])
       PROVE  FALSE
  <2>1. x \in T
    BY <1>5, <1>8, <1>12, <1>13, <1>14
  <2>2. PICK Four : Four = {lo, lo + 1, lo + 2, hi}
    OBVIOUS
  <2>3. IsFiniteSet(Four) /\ Cardinality(Four) = 4
    <3>1. lo \in Int /\ hi \in Int
      BY <1>6
    <3>. QED
      BY <1>9, <2>2, <3>1, FourInAll
  <2>4. x \notin Four /\ Four \cup {x} \subseteq T
    BY <1>6, <1>11, <1>13, <2>1, <2>2
  <2>5. Cardinality(Four \cup {x}) = 4 + 1
    <3>1. IsFiniteSet(Four)
      BY <2>3
    <3>2. Cardinality(Four \cup {x}) = IF x \in Four THEN Cardinality(Four) ELSE Cardinality(Four) + 1
      BY <3>1, FS_AddElement
    <3>. QED
      BY <2>3, <2>4, <3>2
  <2>6. IsFiniteSet(T)
    <3>1. IsFiniteSet(1..m)
      BY FS_Interval
    <3>. QED
      BY <1>2, <3>1, FS_Subset
  <2>7. Cardinality(Four \cup {x}) <= Cardinality(T)
    BY <2>4, <2>6, FS_Subset
  <2>. QED
    BY <1>2, <2>5, <2>7
<1>. QED
  BY <1>14

(* The converse: a line declared so is a version line sniff_version takes.   *)
LEMMA DeclaredIsRead ==
    ASSUME NEW S, NEW u \in Seq(S), NEW k \in 1..LineCount(u), LineInk(u, k) # {},
           NEW content \in Seq(S), content = LineChars(u, LineInk(u, k)),
           LooksLikeKeyword(content), IsSpelled(content, "Version"),
           Last(content) \in {"2.0", "2.1"}, Cardinality(LineInk(u, k)) = 4
    PROVE  SniffFault(ParseKeywordLine(content)) = "none"
<1>1. PICK len \in Nat : len = Len(content)
  OBVIOUS
<1>2. "Version" \in DOMAIN KeywordWords
  BY DEF KeywordWords
<1>3. PICK close : close = ClosingBracket(content)
  OBVIOUS
<1>4. /\ ParseKeywordLine(content).verdict = "Version"
      /\ Names(content, close, "Version")
  BY <1>2, <1>3, SpelledIsParsed
<1>5. ParseKeywordLine(content).argument = TrimStart(RestOf(content, close))
  BY <1>2, <1>3, <1>4, ParseSplits
<1>6. close \in Nat
  BY <1>1, <1>4 DEF Names
<1>7. /\ close = 3 /\ 3 <= len
      /\ content[2] = "version" /\ content[3] = "]"
  BY <1>1, <1>4, <1>6, VersionIsOneWord
<1>8. content[len] \in {"2.0", "2.1"}
  BY <1>1 DEF Last
<1>9. 4 <= len
  <2>1. len # 3
    BY <1>7, <1>8
  <2>. QED
    BY <1>7, <2>1
<1>10. \A i \in 4..(len - 1) : ~IsInk(content[i])
  BY <1>1, <1>7, <1>9, NothingElseOnTheLine
<1>11. PICK rest \in Seq(S) :
          /\ rest = RestOf(content, close)
          /\ Len(rest) = len - 3
          /\ \A i \in 1..(len - 3) : rest[i] = content[3 + i]
  <2>1. close \in 2..Len(content)
    BY <1>1, <1>7
  <2>2. /\ RestOf(content, close) \in Seq(S)
        /\ Len(RestOf(content, close)) = Len(content) - close
        /\ \A i \in 1..(Len(content) - close) : RestOf(content, close)[i] = content[close + i]
    <3>1. HasParts(content, close, S)
      BY <2>1, PartsOfALine
    <3>. QED
      BY <3>1 DEF HasParts
  <2>. QED
    BY <1>1, <1>7, <2>2
<1>12. PICK r \in Nat \ {0} : r = len - 3
  BY <1>9
<1>13. rest[r] = content[len] /\ IsInk(rest[r])
  <2>1. r \in 1..(len - 3) /\ 3 + r = len
    BY <1>12
  <2>2. IsInk("2.0") /\ IsInk("2.1")
    BY DEF IsInk, Whitespace, TAB, CR, LF
  <2>. QED
    BY <1>8, <1>11, <2>1, <2>2
<1>14. ASSUME NEW i \in 1..(r - 1) PROVE ~IsInk(rest[i])
  <2>1. 3 + i \in 4..(len - 1) /\ i \in 1..(len - 3)
    BY <1>12
  <2>. QED
    BY <1>10, <1>11, <2>1
<1>15. TrimStart(rest) = <<rest[r]>>
  BY <1>11, <1>12, <1>13, <1>14, OneCharacterIsTrimmed
<1>16. ParseKeywordLine(content).argument \in {<<"2.0">>, <<"2.1">>}
  BY <1>5, <1>8, <1>11, <1>13, <1>15
<1>. QED
  BY <1>2, <1>4, <1>16 DEF SniffFault

(* Of any text that is not of carriage returns alone, the reader is told by  *)
(* the first line with data, in both directions: the 2.0 reader is given it  *)
(* if that line is [Version] 2.0 or 2.1 with nothing behind, the 1.x reader  *)
(* if it opens with no bracket or there is no data, and else no reader is    *)
(* (parse, sniff_version).                                                   *)
THEOREM TheReaderSuitsTheFile == Spec => []ReaderSuitsTheFile
<1>1. TextInv => ReaderSuitsTheFile
  <2>. SUFFICES ASSUME TextInv,
                       \/ stage = "reading"
                       \/ /\ Returned /\ stage \in {"endings", "marker", "sniff"}
                          /\ ~HasCrOnlyLineEndings(call.text)
                PROVE  reader = IF ~OpensBracket(call.text) THEN "v1"
                                ELSE IF DeclaresVersion2(call.text) THEN "v2"
                                ELSE "none"
    BY DEF ReaderSuitsTheFile
  <2>1. stage = "reading" \/ (stage = "sniff" /\ Returned)
    BY DEF TextInv
  <2>2. PICK t \in Seq(STRING) : t = call.text /\ text = WithoutTrailingEofMarker(t)
    BY <2>1 DEF TextInv
  <2>3. text \in Seq(STRING) /\ IsTextWithoutMarker(text, t)
    BY <2>2, MarkerIsTakenOff
  <2>4. PICK content \in Seq(STRING) : content = FirstContent
    BY <2>3, FirstLineIsSniffed
  <2>5. \/ ~LooksLikeKeyword(content) /\ reader = "v1"
        \/ /\ LooksLikeKeyword(content) /\ reader = "v2"
           /\ SniffFault(ParseKeywordLine(content)) = "none"
        \/ /\ LooksLikeKeyword(content) /\ reader = "none"
           /\ SniffFault(ParseKeywordLine(content)) # "none"
    BY <2>1, <2>4 DEF TextInv, Sniffed, Refused
  <2>6. CASE content = <<>> /\ \A k \in 1..LineCount(text) : LineInk(text, k) = {}
    <3>1. reader = "v1"
      BY <2>5, <2>6 DEF LooksLikeKeyword
    <3>2. ASSUME NEW p \in DataCharacters(t) PROVE FALSE
      <4>1. PICK k : k = LineNumber(t, p)
        OBVIOUS
      <4>2. p \in LineInk(text, k)
        BY <2>3, <4>1, DataIsLineInk
      <4>3. p \in 1..Len(text) /\ text[p] # LF /\ LineNumber(text, p) = k
        BY <4>2 DEF LineInk, IsInk, Whitespace
      <4>4. k \in 1..LineCount(text)
        BY <2>3, <4>3, EveryPositionHasALine
      <4>. QED
        BY <2>6, <4>2, <4>4
    <3>. QED
      BY <2>2, <3>1, <3>2 DEF OpensBracket
  <2>7. CASE \E k : IsFirstLine(text, k) /\ content = LineChars(text, LineInk(text, k))
    <3>1. PICK k : IsFirstLine(text, k) /\ content = LineChars(text, LineInk(text, k))
      BY <2>7
    <3>2. PICK T : T = LineInk(text, k)
      OBVIOUS
    <3>3. /\ DataCharacters(t) # {}
          /\ FirstData(t) = Min(T)
          /\ OnLineOfFirst(t) = T
          /\ SubSeq(t, FirstData(t), Max(OnLineOfFirst(t))) = content
      BY <2>3, <3>1, <3>2, FirstDataIsOnTheFirstLine
    <3>4. k \in 1..LineCount(text) /\ T # {}
      BY <3>1, <3>2 DEF IsFirstLine
    <3>5. Len(content) \in Nat \ {0}
      BY <2>3, <3>1, <3>2, <3>4, ContentIsOfTheLine
    <3>6. content[1] = t[FirstData(t)]
      <4>1. PICK lo, hi \in 1..Len(text) : lo = Min(T) /\ hi = Max(T)
        <5>1. T \subseteq 1..Len(text) /\ Len(text) \in Nat
          BY <2>3, <3>2 DEF LineInk
        <5>. QED
          BY <3>4, <5>1, SpanCovers
      <4>2. Len(content) = hi - lo + 1
        BY <2>3, <3>1, <3>2, <3>4, <4>1, ContentIsOfTheLine
      <4>3. content[1] = text[lo + 1 - 1] /\ lo + 1 - 1 = lo
        <5>1. content = [i \in 1..(hi - lo + 1) |-> text[lo + i - 1]]
          BY <3>1, <3>2, <4>1 DEF LineChars
        <5>2. 1 \in 1..(hi - lo + 1)
          BY <3>5, <4>2
        <5>. QED
          BY <5>1, <5>2
      <4>4. text[lo] = t[lo]
        BY <2>3 DEF IsTextWithoutMarker
      <4>. QED
        BY <3>3, <4>1, <4>3, <4>4
    <3>7. LooksLikeKeyword(content) <=> OpensBracket(t)
      <4>1. content # <<>>
        BY <3>5
      <4>. QED
        BY <3>3, <3>6, <4>1 DEF LooksLikeKeyword, OpensBracket
    <3>8. DeclaresVersion2(t) <=> /\ IsSpelled(content, "Version")
                                  /\ Last(content) \in {"2.0", "2.1"}
                                  /\ Cardinality(T) = 4
      BY <3>3 DEF DeclaresVersion2
    <3>9. CASE ~LooksLikeKeyword(content)
      BY <2>2, <2>5, <3>7, <3>9
    <3>10. CASE LooksLikeKeyword(content)
      <4>1. ASSUME SniffFault(ParseKeywordLine(content)) = "none"
            PROVE  DeclaresVersion2(t)
        <5>1. IsVersionLine(content) /\ IsSpelled(content, "Version")
          BY <3>10, <4>1, VersionIsSpelledOut
        <5>2. Cardinality(T) = 4
          BY <2>3, <3>1, <3>2, <3>4, <5>1, VersionLineHasFour
        <5>3. Last(content) \in {"2.0", "2.1"}
          BY <5>1 DEF IsVersionLine, Last
        <5>. QED
          BY <3>8, <5>1, <5>2, <5>3
      <4>2. ASSUME DeclaresVersion2(t)
            PROVE  SniffFault(ParseKeywordLine(content)) = "none"
        BY <2>3, <3>1, <3>2, <3>4, <3>8, <3>10, <4>2, DeclaredIsRead
      <4>. QED
        BY <2>2, <2>5, <3>7, <3>10, <4>1, <4>2
    <3>. QED
      BY <3>9, <3>10
  <2>. QED
    BY <2>3, <2>4, <2>6, <2>7, FirstLineIsSniffed
<1>. QED
  BY <1>1, TextStarts, TextGoesOn, PTL DEF Spec
=============================================================================
