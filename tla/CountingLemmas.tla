---------------------------- MODULE CountingLemmas ----------------------------
(***************************************************************************)
(* What the proofs about whole files and whole arrays need and the library *)
(* does not state: division with remainder, least counterexamples.         *)
(***************************************************************************)
EXTENDS SequencesExt, Integers, TLAPS, SequenceTheorems, WellFoundedInduction

(* A set of natural numbers has a least element: induction in the form that  *)
(* needs no operator for what is proved.                                     *)
LEMMA LeastElement ==
    ASSUME NEW T, T \subseteq Nat, T # {}
    PROVE  \E x \in T : \A y \in T : x <= y
<1>1. IsWellFoundedOn(OpToRel(<, Nat), Nat)
  BY NatLessThanWellFounded
<1>2. PICK x \in T : \A y \in T : <<y, x>> \notin OpToRel(<, Nat)
  BY <1>1, WFMin
<1>3. ASSUME NEW y \in T PROVE x <= y
  <2>1. <<y, x>> \notin OpToRel(<, Nat)
    BY <1>2
  <2>2. ~(y < x)
    BY <2>1 DEF OpToRel
  <2>. QED
    BY <2>2
<1>. QED
  BY <1>3

(* Induction along 0..last, for what a set can collect.                      *)
LEMMA StepByStep ==
    ASSUME NEW last \in Nat, NEW T, 0 \in T,
           \A i \in 1..last : i - 1 \in T => i \in T
    PROVE  \A i \in 0..last : i \in T
<1> DEFINE Bad == {i \in 0..last : i \notin T}
<1>1. SUFFICES ASSUME Bad # {} PROVE FALSE
  OBVIOUS
<1>2. Bad \subseteq Nat
  OBVIOUS
<1>3. PICK x \in Bad : \A y \in Bad : x <= y
  BY <1>1, <1>2, LeastElement
<1>4. x \in 1..last /\ x - 1 \in 0..last /\ x - 1 < x
  BY <1>3
<1>5. x - 1 \in T
  BY <1>3, <1>4
<1>. QED
  BY <1>3, <1>4, <1>5

(* A recursive definition along 0..last defines something.                   *)
IsDefined(last, V, base, step) ==
    \E g \in [0..last -> V] : /\ g[0] = base
                              /\ \A i \in 1..last : g[i] = step[i][g[i - 1]]

LEMMA RecursionDefines ==
    ASSUME NEW last \in Nat, NEW V, NEW base \in V, NEW step \in [1..last -> [V -> V]]
    PROVE  IsDefined(last, V, base, step)
<1> DEFINE Defines(g, m) == /\ g[0] = base
                            /\ \A i \in 1..m : g[i] = step[i][g[i - 1]]
           T == {m \in 0..last : \E g \in [0..m -> V] : Defines(g, m)}
<1>1. 0 \in T
  <2> DEFINE g == [i \in 0..0 |-> base]
  <2>1. g \in [0..0 -> V] /\ g[0] = base
    OBVIOUS
  <2>2. \A i \in 1..0 : g[i] = step[i][g[i - 1]]
    OBVIOUS
  <2> HIDE DEF g
  <2>. QED
    BY <2>1, <2>2
<1>2. ASSUME NEW m \in 1..last, m - 1 \in T
      PROVE  m \in T
  <2>1. PICK g \in [0..(m - 1) -> V] : Defines(g, m - 1)
    BY <1>2
  <2> DEFINE h == [i \in 0..m |-> IF i = m THEN step[m][g[m - 1]] ELSE g[i]]
  <2>2. step[m][g[m - 1]] \in V
    BY <2>1
  <2>3. h \in [0..m -> V]
    BY <2>1, <2>2
  <2>4. h[0] = base
    BY <2>1
  <2>5. \A i \in 1..m : h[i] = step[i][h[i - 1]]
    <3>1. SUFFICES ASSUME NEW i \in 1..m PROVE h[i] = step[i][h[i - 1]]
      OBVIOUS
    <3>2. h[i - 1] = g[i - 1]
      OBVIOUS
    <3>3. CASE i = m
      BY <3>2, <3>3
    <3>4. CASE i # m
      <4>1. i \in 1..(m - 1)
        BY <3>4
      <4>. QED
        BY <2>1, <3>2, <4>1
    <3>. QED
      BY <3>3, <3>4
  <2> HIDE DEF h
  <2>. QED
    BY <2>3, <2>4, <2>5
<1> HIDE DEF T
<1>3. \A m \in 0..last : m \in T
  BY <1>1, <1>2, StepByStep
<1>. QED
  BY <1>3 DEF T, IsDefined
-----------------------------------------------------------------------------
(* Sums that only grow.                                                      *)
LEMMA TotalsGrow ==
    ASSUME NEW last \in Nat, NEW total \in [0..last -> Nat], NEW part \in [1..last -> Nat],
           \A i \in 1..last : total[i] = total[i - 1] + part[i]
    PROVE  \A j \in 0..last : \A i \in 0..j : total[i] <= total[j]
<1> DEFINE T == {j \in 0..last : \A i \in 0..j : total[i] <= total[j]}
<1>1. 0 \in T
  OBVIOUS
<1>2. ASSUME NEW j \in 1..last, j - 1 \in T
      PROVE  j \in T
  <2>1. total[j - 1] <= total[j] /\ total[j - 1] \in Nat /\ total[j] \in Nat
    OBVIOUS
  <2>2. \A i \in 0..j : i \in 0..(j - 1) \/ i = j
    OBVIOUS
  <2>3. \A i \in 0..(j - 1) : total[i] <= total[j - 1] /\ total[i] \in Nat
    BY <1>2
  <2>4. ASSUME NEW i \in 0..j PROVE total[i] <= total[j]
    <3>1. CASE i = j
      BY <2>1, <3>1
    <3>2. CASE i \in 0..(j - 1)
      BY <2>1, <2>3, <3>2
    <3>. QED
      BY <2>2, <3>1, <3>2
  <2>. QED
    BY <2>4
<1> HIDE DEF T
<1>3. \A j \in 0..last : j \in T
  BY <1>1, <1>2, StepByStep
<1>. QED
  BY <1>3 DEF T
-----------------------------------------------------------------------------
(* \div and % are quotient and remainder.                                    *)
LEMMA QuotientAndRemainder ==
    ASSUME NEW x \in Int, NEW width \in Nat \ {0}
    PROVE  \E q \in Int, r \in 0..(width - 1) :
              x \div width = q /\ x % width = r /\ x = width * q + r
<1>1. x \div width \in Int /\ x % width \in 0..(width - 1)
  OBVIOUS
<1>2. ASSUME NEW q \in Int, NEW r \in Int, q = x \div width, r = x % width
      PROVE  x = width * q + r
  BY <1>2
<1>. QED
  BY <1>1, <1>2

(* A multiple of a width other than 0 is at least a width away from it.      *)
LEMMA MultiplesAreApart ==
    ASSUME NEW width \in Nat \ {0}, NEW d \in Int, d # 0
    PROVE  width * d >= width \/ width * d <= -width
<1>1. CASE d >= 1
  <2>1. width * (d - 1) >= 0
    BY <1>1
  <2>. QED
    BY <2>1
<1>2. CASE d <= -1
  <2>1. width * (d + 1) <= 0
    BY <1>2
  <2>. QED
    BY <2>1
<1>. QED
  BY <1>1, <1>2

(* Row a, column b of a matrix laid out row by row is found again from its   *)
(* offset.                                                                   *)
LEMMA OffsetNamesItsPlace ==
    ASSUME NEW width \in Nat \ {0}, NEW a \in Int, NEW b \in 0..(width - 1)
    PROVE  (a * width + b) \div width = a /\ (a * width + b) % width = b
<1>1. PICK x \in Int : x = a * width + b
  OBVIOUS
<1>2. PICK q \in Int, r \in 0..(width - 1) :
         x \div width = q /\ x % width = r /\ x = width * q + r
  BY QuotientAndRemainder
<1>3. width * (a - q) = r - b
  BY <1>1, <1>2
<1>4. a - q = 0
  <2>1. SUFFICES ASSUME a - q # 0 PROVE FALSE
    OBVIOUS
  <2>2. width * (a - q) >= width \/ width * (a - q) <= -width
    BY <2>1, MultiplesAreApart
  <2>. QED
    BY <1>3, <2>2
<1>. QED
  BY <1>1, <1>2, <1>4

(* Offsets inside the matrix.                                                *)
LEMMA OffsetIsInside ==
    ASSUME NEW width \in Nat \ {0}, NEW rows \in Nat,
           NEW a \in 0..(rows - 1), NEW b \in 0..(width - 1)
    PROVE  a * width + b \in 0..(rows * width - 1)
<1>1. PICK d \in Nat : rows = a + 1 + d
  <2>1. rows - 1 - a \in Nat /\ rows = a + 1 + (rows - 1 - a)
    OBVIOUS
  <2>. QED
    BY <2>1
<1>2. rows * width = a * width + width + d * width
  BY <1>1
<1>3. d * width >= 0 /\ a * width >= 0
  OBVIOUS
<1>. QED
  BY <1>2, <1>3
-----------------------------------------------------------------------------
(* Where each sequence starts in the flattened one, and what stands there.   *)
Holds(flat, from, part) == \A j \in 1..Len(part) : flat[from + j] = part[j]

LaidOut(seqs, start, flat) ==
    /\ start[0] = 0
    /\ \A i \in 1..Len(seqs) : start[i] = start[i - 1] + Len(seqs[i])
    /\ Len(flat) = start[Len(seqs)]
    /\ \A i \in 1..Len(seqs) : start[i] <= Len(flat)
    /\ \A i \in 1..Len(seqs) : Holds(flat, start[i - 1], seqs[i])

(* A sequence begins with another.                                           *)
Begins(long, short) ==
    Len(short) <= Len(long) /\ \A k \in 1..Len(short) : long[k] = short[k]

LEMMA JoinBegins ==
    ASSUME NEW S, NEW a \in Seq(S), NEW b \in Seq(S)
    PROVE  /\ a \o b \in Seq(S) /\ Len(a \o b) = Len(a) + Len(b)
           /\ Begins(a \o b, a) /\ Holds(a \o b, Len(a), b)
<1>1. Len(a) \in Nat /\ Len(b) \in Nat
  OBVIOUS
<1>2. a \o b \in Seq(S) /\ Len(a \o b) = Len(a) + Len(b)
  BY ConcatProperties
<1>3. Begins(a \o b, a)
  <2>1. \A k \in 1..Len(a) : (a \o b)[k] = a[k]
    BY <1>1, ConcatProperties
  <2>. QED
    BY <1>1, <1>2, <2>1 DEF Begins
<1>4. Holds(a \o b, Len(a), b)
  <2>1. SUFFICES ASSUME NEW j \in 1..Len(b) PROVE (a \o b)[Len(a) + j] = b[j]
    BY DEF Holds
  <2>2. /\ Len(a) + j \in 1..(Len(a) + Len(b))
        /\ ~(Len(a) + j <= Len(a)) /\ (Len(a) + j) - Len(a) = j
    BY <1>1
  <2>. QED
    BY <2>2, ConcatProperties
<1>. QED
  BY <1>2, <1>3, <1>4

(* Beginnings are passed on.                                                 *)
LEMMA BeginsPasses ==
    ASSUME NEW S, NEW a \in Seq(S), NEW b \in Seq(S), NEW c \in Seq(S),
           Begins(b, a), Begins(c, b)
    PROVE  Begins(c, a)
<1>1. Len(a) \in Nat /\ Len(b) \in Nat /\ Len(c) \in Nat
  OBVIOUS
<1>2. Len(a) <= Len(b) /\ Len(b) <= Len(c)
  BY DEF Begins
<1>3. ASSUME NEW k \in 1..Len(a)
      PROVE  c[k] = a[k]
  <2>1. k \in 1..Len(b)
    BY <1>1, <1>2
  <2>2. c[k] = b[k] /\ b[k] = a[k]
    BY <2>1 DEF Begins
  <2>. QED
    BY <2>2
<1>. QED
  BY <1>1, <1>2, <1>3 DEF Begins

(* What begins with a sequence holds what the sequence holds.                *)
LEMMA BeginningHolds ==
    ASSUME NEW S, NEW a \in Seq(S), NEW c \in Seq(S), NEW part \in Seq(S),
           NEW from \in Nat, Begins(c, a), Holds(a, from, part),
           Len(a) = from + Len(part)
    PROVE  Holds(c, from, part)
<1>1. SUFFICES ASSUME NEW j \in 1..Len(part) PROVE c[from + j] = part[j]
  BY DEF Holds
<1>2. Len(part) \in Nat /\ from + j \in 1..Len(a)
  OBVIOUS
<1>3. a[from + j] = part[j]
  BY DEF Holds
<1>4. c[from + j] = a[from + j]
  BY <1>2 DEF Begins
<1>. QED
  BY <1>3, <1>4

(* Joining one part after another.                                           *)
JoinsUp(g, last, seqs) == /\ g[0] = <<>>
                          /\ \A i \in 1..last : g[i] = g[i - 1] \o seqs[i]

LEMMA JoinedPartsAreLaidOut ==
    ASSUME NEW S, NEW last \in Nat, NEW seqs, last = Len(seqs),
           \A i \in 1..last : seqs[i] \in Seq(S),
           NEW g, \A i \in 0..last : g[i] \in Seq(S),
           JoinsUp(g, last, seqs)
    PROVE  \E start \in [0..last -> Nat] : LaidOut(seqs, start, g[last])
<1>1. ASSUME NEW i \in 1..last
      PROVE  /\ i \in 0..last /\ i - 1 \in 0..last
             /\ seqs[i] \in Seq(S) /\ g[i] \in Seq(S) /\ g[i - 1] \in Seq(S)
             /\ Len(g[i]) = Len(g[i - 1]) + Len(seqs[i])
             /\ Begins(g[i], g[i - 1]) /\ Holds(g[i], Len(g[i - 1]), seqs[i])
  <2>1. i \in 0..last /\ i - 1 \in 0..last
    OBVIOUS
  <2>2. seqs[i] \in Seq(S) /\ g[i] \in Seq(S) /\ g[i - 1] \in Seq(S)
    BY <2>1
  <2>3. g[i] = g[i - 1] \o seqs[i]
    BY DEF JoinsUp
  <2>4. /\ Len(g[i - 1] \o seqs[i]) = Len(g[i - 1]) + Len(seqs[i])
        /\ Begins(g[i - 1] \o seqs[i], g[i - 1])
        /\ Holds(g[i - 1] \o seqs[i], Len(g[i - 1]), seqs[i])
    BY <2>2, JoinBegins
  <2>. QED
    BY <2>1, <2>2, <2>3, <2>4, Zenon
<1> DEFINE T == {j \in 0..last : \A i \in 0..j : Begins(g[j], g[i])}
<1>2. \A i \in 0..last : Begins(g[i], g[i])
  <2>1. SUFFICES ASSUME NEW i \in 0..last PROVE Begins(g[i], g[i])
    OBVIOUS
  <2>2. Len(g[i]) \in Nat
    BY <2>1
  <2>. QED
    BY <2>2 DEF Begins
<1>3. 0 \in T
  <2>1. 0 \in 0..last /\ \A i \in 0..0 : i = 0
    OBVIOUS
  <2>. QED
    BY <1>2, <2>1, Zenon
<1>4. ASSUME NEW j \in 1..last, j - 1 \in T
      PROVE  j \in T
  <2>1. \A i \in 0..j : i = j \/ i \in 0..(j - 1)
    OBVIOUS
  <2>2. \A i \in 0..(j - 1) : i \in 0..last
    OBVIOUS
  <2>3. j \in 0..last
    OBVIOUS
  <2>4. ASSUME NEW i \in 0..j PROVE Begins(g[j], g[i])
    <3>1. CASE i = j
      BY <1>2, <2>3, <3>1
    <3>2. CASE i \in 0..(j - 1)
      <4>1. Begins(g[j - 1], g[i]) /\ g[i] \in Seq(S)
        BY <1>4, <2>2, <3>2
      <4>2. Begins(g[j], g[j - 1]) /\ g[j] \in Seq(S) /\ g[j - 1] \in Seq(S)
        BY <1>1
      <4>. QED
        BY <4>1, <4>2, BeginsPasses
    <3>. QED
      BY <2>1, <3>1, <3>2
  <2>. QED
    BY <2>3, <2>4
<1> HIDE DEF T
<1>5. \A j \in 0..last : j \in T
  BY <1>3, <1>4, StepByStep
<1>6. \A i \in 0..last : Begins(g[last], g[i])
  BY <1>5 DEF T
<1> DEFINE start == [i \in 0..last |-> Len(g[i])]
<1>7. start \in [0..last -> Nat]
  <2>1. ASSUME NEW i \in 0..last PROVE Len(g[i]) \in Nat
    <3>1. g[i] \in Seq(S)
      OBVIOUS
    <3>. QED
      BY <3>1
  <2>. QED
    BY <2>1
<1>8. start[0] = 0 /\ Len(g[last]) = start[last]
  BY DEF JoinsUp
<1>9. ASSUME NEW i \in 1..last
      PROVE  /\ start[i] = start[i - 1] + Len(seqs[i])
             /\ start[i] <= Len(g[last])
             /\ Holds(g[last], start[i - 1], seqs[i])
  <2>1. start[i] = Len(g[i]) /\ start[i - 1] = Len(g[i - 1])
    BY <1>1
  <2> HIDE DEF start
  <2>2. Len(g[i]) = Len(g[i - 1]) + Len(seqs[i])
    BY <1>1
  <2>3. Len(g[i]) <= Len(g[last])
    BY <1>1, <1>6 DEF Begins
  <2>4. Holds(g[last], Len(g[i - 1]), seqs[i])
    <3>1. g[last] \in Seq(S) /\ Len(g[i - 1]) \in Nat
      <4>1. last \in 0..last
        OBVIOUS
      <4>2. g[i - 1] \in Seq(S)
        BY <1>1
      <4>. QED
        BY <4>1, <4>2
    <3>2. /\ seqs[i] \in Seq(S) /\ g[i] \in Seq(S)
          /\ Holds(g[i], Len(g[i - 1]), seqs[i])
          /\ Begins(g[last], g[i])
      BY <1>1, <1>6
    <3>. QED
      BY <2>2, <3>1, <3>2, BeginningHolds
  <2>. QED
    BY <2>1, <2>2, <2>3, <2>4
<1> HIDE DEF start
<1>10. LaidOut(seqs, start, g[last])
  BY <1>8, <1>9 DEF LaidOut
<1>. QED
  BY <1>7, <1>10

(* FlattenSeq joins part after part.                                         *)
LEMMA FlattenJoinsUp ==
    ASSUME NEW S, NEW last \in Nat, NEW seqs, last = Len(seqs), last # 0,
           \A i \in 1..last : seqs[i] \in Seq(S),
           NEW g, \A i \in 0..last : g[i] \in Seq(S),
           JoinsUp(g, last, seqs)
    PROVE  FlattenSeq(seqs) = g[last]
<1> DEFINE Rec(h) == h = [i \in 1..last |-> IF i = 1 THEN seqs[i] ELSE h[i - 1] \o seqs[i]]
<1>1. g[1] = seqs[1]
  <2>1. 1 \in 1..last /\ 1 - 1 = 0
    OBVIOUS
  <2>2. g[1] = <<>> \o seqs[1] /\ seqs[1] \in Seq(S)
    BY <2>1 DEF JoinsUp
  <2>. QED
    BY <2>2, ConcatEmptySeq
<1>2. \A i \in 1..last : i # 1 => i - 1 \in 1..last
  OBVIOUS
<1>3. \A i \in 1..last : g[i] = g[i - 1] \o seqs[i]
  BY DEF JoinsUp
<1>4. \E h : Rec(h)
  <2> DEFINE h == [i \in 1..last |-> g[i]]
  <2>1. \A i \in 1..last : h[i] = IF i = 1 THEN seqs[i] ELSE h[i - 1] \o seqs[i]
    BY <1>1, <1>2, <1>3, Zenon
  <2>2. h = [i \in 1..last |-> h[i]]
    OBVIOUS
  <2> HIDE DEF h
  <2>3. Rec(h)
    BY <2>1, <2>2
  <2>. QED
    BY <2>3
<1>5. PICK h : h = CHOOSE x : Rec(x)
  OBVIOUS
<1>6. Rec(h)
  <2> HIDE DEF Rec
  <2>. QED
    BY <1>4, <1>5
<1>7. FlattenSeq(seqs) = h[last]
  BY <1>5 DEF FlattenSeq
<1>8. h[1] = seqs[1] /\ \A i \in 1..last : i # 1 => h[i] = h[i - 1] \o seqs[i]
  <2>1. \A i \in 1..last : h[i] = IF i = 1 THEN seqs[i] ELSE h[i - 1] \o seqs[i]
    BY <1>6, Zenon
  <2>2. 1 \in 1..last
    OBVIOUS
  <2>. QED
    BY <2>1, <2>2, Zenon
<1> HIDE DEF Rec
<1> DEFINE T == {i \in 0..last : i = 0 \/ h[i] = g[i]}
<1>9. 0 \in T
  OBVIOUS
<1>10. ASSUME NEW i \in 1..last, i - 1 \in T
       PROVE  i \in T
  <2>0. i \in 0..last
    OBVIOUS
  <2>1. CASE i = 1
    BY <1>1, <1>8, <2>0, <2>1
  <2>2. CASE i # 1
    <3>1. i - 1 # 0
      BY <2>2
    <3>2. h[i] = h[i - 1] \o seqs[i] /\ g[i] = g[i - 1] \o seqs[i]
      BY <1>3, <1>8, <2>2
    <3>3. h[i - 1] = g[i - 1]
      BY <1>10, <3>1
    <3>. QED
      BY <2>0, <3>2, <3>3
  <2>. QED
    BY <2>1, <2>2
<1> HIDE DEF T
<1>11. \A i \in 0..last : i \in T
  BY <1>9, <1>10, StepByStep
<1>. QED
  BY <1>7, <1>11 DEF T

(* FlattenSeq lays the sequences out one behind the other.                   *)
LEMMA FlattenLaysOut ==
    ASSUME NEW S, NEW last \in Nat, NEW seqs, last = Len(seqs), last # 0,
           \A i \in 1..last : seqs[i] \in Seq(S)
    PROVE  /\ FlattenSeq(seqs) \in Seq(S)
           /\ \E start \in [0..last -> Nat] : LaidOut(seqs, start, FlattenSeq(seqs))
<1> DEFINE step == [i \in 1..last |-> [x \in Seq(S) |-> x \o seqs[i]]]
<1>1. step \in [1..last -> [Seq(S) -> Seq(S)]]
  BY ConcatProperties
<1>2. PICK g \in [0..last -> Seq(S)] : /\ g[0] = <<>>
                                       /\ \A i \in 1..last : g[i] = step[i][g[i - 1]]
  <2>1. <<>> \in Seq(S)
    OBVIOUS
  <2> HIDE DEF step
  <2>2. IsDefined(last, Seq(S), <<>>, step)
    BY <1>1, <2>1, RecursionDefines
  <2>. QED
    BY <2>2 DEF IsDefined
<1>3. \A i \in 0..last : g[i] \in Seq(S)
  OBVIOUS
<1>4. \A i \in 1..last : g[i] = g[i - 1] \o seqs[i]
  <2>1. SUFFICES ASSUME NEW i \in 1..last
                 PROVE  g[i] = g[i - 1] \o seqs[i]
    OBVIOUS
  <2> HIDE DEF step
  <2>2. g[i - 1] \in Seq(S)
    OBVIOUS
  <2>3. g[i] = step[i][g[i - 1]]
    BY <1>2
  <2>4. \A x \in Seq(S) : step[i][x] = x \o seqs[i]
    BY DEF step
  <2>. QED
    BY <2>2, <2>3, <2>4
<1>5. JoinsUp(g, last, seqs)
  BY <1>2, <1>4 DEF JoinsUp
<1> HIDE DEF step
<1>6. FlattenSeq(seqs) = g[last]
  BY <1>3, <1>5, FlattenJoinsUp
<1>7. \E start \in [0..last -> Nat] : LaidOut(seqs, start, g[last])
  BY <1>3, <1>5, JoinedPartsAreLaidOut
<1>. QED
  BY <1>3, <1>6, <1>7
-----------------------------------------------------------------------------
(* A set of the first numbers has a largest.                                 *)
LEMMA MaxIsLargest ==
    ASSUME NEW last \in Nat, NEW T, T \subseteq 1..last, T # {}
    PROVE  Max(T) \in T /\ \A x \in T : x <= Max(T)
<1> DEFINE Left == {last - x : x \in T}
<1>1. Left \subseteq Nat /\ Left # {}
  <2>1. PICK x \in T : TRUE
    OBVIOUS
  <2>2. last - x \in Left
    OBVIOUS
  <2>3. Left \subseteq Nat
    OBVIOUS
  <2>. QED
    BY <2>2, <2>3
<1>2. PICK y \in Left : \A z \in Left : y <= z
  BY <1>1, LeastElement
<1>3. PICK x \in T : y = last - x
  OBVIOUS
<1>4. \A z \in T : x >= z
  <2>1. SUFFICES ASSUME NEW z \in T PROVE x >= z
    OBVIOUS
  <2>2. last - z \in Left /\ z \in 1..last /\ x \in 1..last
    BY <1>3
  <2>3. last - x <= last - z
    BY <1>2, <1>3, <2>2
  <2>. QED
    BY <2>2, <2>3
<1>5. Max(T) \in T /\ \A z \in T : Max(T) >= z
  BY <1>3, <1>4 DEF Max
<1>6. ASSUME NEW z \in T PROVE z <= Max(T)
  <2> HIDE DEF Left
  <2>1. PICK top : top = Max(T)
    OBVIOUS
  <2>2. top \in T /\ top >= z
    BY <1>5, <2>1
  <2>3. top \in 1..last /\ z \in 1..last
    BY <2>2
  <2>. QED
    BY <2>1, <2>2, <2>3
<1>. QED
  BY <1>5, <1>6

LEMMA MaxIsInside ==
    ASSUME NEW last \in Nat, NEW T, T \subseteq 1..last, T # {}
    PROVE  Max(T) \in T
  BY MaxIsLargest

(* A number of a set above which it has none is its largest.                 *)
LEMMA MaxIsThat ==
    ASSUME NEW T, T \subseteq Nat, NEW m \in T, \A y \in T : y <= m
    PROVE  Max(T) = m
<1>1. \E x \in T : \A y \in T : x >= y
  OBVIOUS
<1>2. Max(T) \in T /\ \A y \in T : Max(T) >= y
  BY <1>1 DEF Max
<1>3. PICK x \in T : x = Max(T) /\ x >= m
  BY <1>2
<1>. QED
  BY <1>3

(* What a fold over a sequence unfolds to: the largest position comes last.  *)
IsFold(it, last, base, step) ==
    /\ it[{}] = base
    /\ \A t \in SUBSET (1..last) :
          t # {} => it[t] = step[Max(t)][it[t \ {Max(t)}]]

FoldsOver(last, V, base, step) ==
    \E it \in [SUBSET (1..last) -> V] : IsFold(it, last, base, step)

LEMMA FoldIsDefined ==
    ASSUME NEW last \in Nat, NEW V, NEW base \in V, NEW step \in [1..last -> [V -> V]]
    PROVE  FoldsOver(last, V, base, step)
<1> DEFINE T == {m \in 0..last : FoldsOver(m, V, base, step)}
<1>1. 0 \in T
  <2> DEFINE it == [t \in SUBSET (1..0) |-> base]
  <2>1. it \in [SUBSET (1..0) -> V] /\ it[{}] = base
    OBVIOUS
  <2>2. \A t \in SUBSET (1..0) : t = {}
    OBVIOUS
  <2> HIDE DEF it
  <2>3. IsFold(it, 0, base, step)
    BY <2>1, <2>2 DEF IsFold
  <2>4. FoldsOver(0, V, base, step)
    BY <2>1, <2>3 DEF FoldsOver
  <2>. QED
    BY <2>4
<1>2. ASSUME NEW m \in 1..last, m - 1 \in T
      PROVE  m \in T
  <2>1. PICK it \in [SUBSET (1..(m - 1)) -> V] : IsFold(it, m - 1, base, step)
    BY <1>2 DEF FoldsOver
  <2> DEFINE jt == [t \in SUBSET (1..m) |-> IF m \in t THEN step[m][it[t \ {m}]] ELSE it[t]]
  <2>2. ASSUME NEW t \in SUBSET (1..m)
        PROVE  t \ {m} \in SUBSET (1..(m - 1)) /\ (m \notin t => t \ {m} = t)
    OBVIOUS
  <2>3. step[m] \in [V -> V]
    OBVIOUS
  <2>4. jt \in [SUBSET (1..m) -> V]
    <3>1. SUFFICES ASSUME NEW t \in SUBSET (1..m) PROVE jt[t] \in V
      OBVIOUS
    <3>2. it[t \ {m}] \in V
      BY <2>2
    <3>. QED
      BY <2>2, <2>3, <3>2
  <2>5. jt[{}] = base
    BY <2>1 DEF IsFold
  <2>6. ASSUME NEW t \in SUBSET (1..m), t # {}
        PROVE  jt[t] = step[Max(t)][jt[t \ {Max(t)}]]
    <3>1. CASE m \in t
      <4>1. Max(t) = m
        <5>1. t \subseteq Nat /\ \A y \in t : y <= m
          OBVIOUS
        <5>. QED
          BY <3>1, <5>1, MaxIsThat
      <4>2. jt[t \ {m}] = it[t \ {m}]
        BY <2>2
      <4>. QED
        BY <3>1, <4>1, <4>2
    <3>2. CASE m \notin t
      <4>1. t \in SUBSET (1..(m - 1))
        BY <2>2, <3>2
      <4>2. it[t] = step[Max(t)][it[t \ {Max(t)}]]
        BY <2>1, <2>6, <4>1 DEF IsFold
      <4>3. t \ {Max(t)} \in SUBSET (1..m) /\ m \notin t \ {Max(t)}
        BY <3>2
      <4>. QED
        BY <3>2, <4>2, <4>3
    <3>. QED
      BY <3>1, <3>2
  <2> HIDE DEF jt
  <2>7. IsFold(jt, m, base, step)
    BY <2>5, <2>6 DEF IsFold
  <2>8. FoldsOver(m, V, base, step)
    BY <2>4, <2>7 DEF FoldsOver
  <2>. QED
    BY <2>8
<1>3. ASSUME NEW m \in 0..last, m \notin T
      PROVE  FALSE
  <2> DEFINE Bad == {k \in 0..last : k \notin T}
  <2>0. Bad \subseteq Nat /\ Bad # {}
    <3> HIDE DEF T
    <3>. QED
      BY <1>3
  <2>1. PICK k \in Bad : \A y \in Bad : k <= y
    <3> HIDE DEF Bad
    <3>. QED
      BY <2>0, LeastElement
  <2>2. k # 0
    BY <1>1
  <2>3. k \in 1..last /\ k - 1 \in 0..last /\ k - 1 \notin Bad
    BY <2>1, <2>2
  <2>4. k - 1 \in T
    BY <2>3
  <2> HIDE DEF T
  <2>. QED
    BY <1>2, <2>1, <2>3, <2>4
<1>4. last \in 0..last
  OBVIOUS
<1>. QED
  BY <1>3, <1>4
-----------------------------------------------------------------------------
(* The least of a set.                                                       *)
LEMMA MinIsLeast ==
    ASSUME NEW T, T \subseteq Nat, T # {}
    PROVE  Min(T) \in T /\ \A x \in T : Min(T) <= x
  BY LeastElement DEF Min

LEMMA MinIsThat ==
    ASSUME NEW T, T \subseteq Nat, NEW m \in T, \A x \in T : m <= x
    PROVE  Min(T) = m
<1>1. Min(T) \in T /\ Min(T) <= m
  BY MinIsLeast
<1>2. m <= Min(T)
  BY <1>1
<1>3. m \in Nat /\ Min(T) \in Nat
  BY <1>1
<1>. QED
  BY <1>1, <1>2, <1>3

(* A function on the first numbers is a sequence.                            *)
LEMMA FunctionIsSequence ==
    ASSUME NEW m \in Nat, NEW S, NEW f \in [1..m -> S]
    PROVE  f \in Seq(S) /\ Len(f) = m
<1>1. f \in Seq(S)
  BY SeqDef
<1>2. DOMAIN f = 1..m /\ DOMAIN f = 1..Len(f) /\ Len(f) \in Nat
  BY <1>1, LenProperties
<1>. QED
  BY <1>1, <1>2

(* A prefix is read character by character.                                  *)
LEMMA PrefixIsBeginning ==
    ASSUME NEW S, NEW short \in Seq(S), NEW T, NEW long \in Seq(T)
    PROVE  IsPrefix(short, long) <=> Begins(long, short)
<1>1. Len(short) \in Nat /\ Len(long) \in Nat
  OBVIOUS
<1>2. ASSUME Len(short) <= Len(long)
      PROVE  SubSeq(short, 1, Len(short)) = SubSeq(long, 1, Len(short))
                <=> \A k \in 1..Len(short) : long[k] = short[k]
  <2>1. /\ SubSeq(short, 1, Len(short)) = [k \in 1..Len(short) |-> short[k]]
        /\ SubSeq(long, 1, Len(short)) = [k \in 1..Len(short) |-> long[k]]
    BY <1>1, <1>2
  <2>. QED
    BY <2>1
<1>. QED
  BY <1>1, <1>2 DEF IsPrefix, Begins
-----------------------------------------------------------------------------
(* The place of an entry of point k, and its place in its own matrix.        *)
LEMMA PlaceIsInside ==
    ASSUME NEW ports \in Nat \ {0}, NEW count \in Nat, NEW k \in 0..(count - 1),
           NEW row \in 1..ports, NEW column \in 1..ports
    PROVE  k * ports * ports + (row - 1) * ports + column \in 1..(count * (ports * ports))
<1>1. PICK square \in Nat \ {0} : square = ports * ports
  OBVIOUS
<1>2. PICK e \in 0..(square - 1) : e = (row - 1) * ports + (column - 1)
  <2>1. row - 1 \in 0..(ports - 1) /\ column - 1 \in 0..(ports - 1)
    OBVIOUS
  <2>. QED
    BY <1>1, <2>1, OffsetIsInside
<1>3. k * square + e \in 0..(count * square - 1)
  BY OffsetIsInside
<1>4. k * ports * ports = k * square
  BY <1>1
<1>5. k * ports * ports + (row - 1) * ports + column = (k * square + e) + 1
  <2>1. PICK a \in Int : a = (row - 1) * ports
    OBVIOUS
  <2>2. PICK c \in Int : c = k * square
    OBVIOUS
  <2>. QED
    BY <1>2, <1>4, <2>1, <2>2
<1>6. PICK all \in Int : all = count * square
  OBVIOUS
<1>7. (k * square + e) + 1 \in 1..all
  BY <1>3, <1>6
<1>. QED
  BY <1>1, <1>5, <1>6, <1>7

(* Entry e of a matrix.                                                      *)
IsPlace(e, ports, row, column) ==
    /\ e \in 1..(ports * ports)
    /\ (e - 1) \div ports + 1 = row
    /\ ((e - 1) % ports) + 1 = column

LEMMA PlaceInMatrix ==
    ASSUME NEW ports \in Nat \ {0}, NEW row \in 1..ports, NEW column \in 1..ports,
           NEW e, e = (row - 1) * ports + column
    PROVE  IsPlace(e, ports, row, column)
<1>1. row - 1 \in 0..(ports - 1) /\ column - 1 \in 0..(ports - 1) /\ row - 1 \in Int
  OBVIOUS
<1>2. PICK a \in Int : a = (row - 1) * ports
  OBVIOUS
<1>3. a + (column - 1) \in 0..(ports * ports - 1)
  BY <1>1, <1>2, OffsetIsInside
<1>4. (a + (column - 1)) \div ports = row - 1 /\ (a + (column - 1)) % ports = column - 1
  BY <1>1, <1>2, OffsetNamesItsPlace
<1>5. e = a + column /\ e - 1 = a + (column - 1)
  BY <1>2
<1>6. a + column \in 1..(ports * ports)
  <2>1. PICK square \in Int : square = ports * ports
    OBVIOUS
  <2>. QED
    BY <1>3, <2>1
<1>. QED
  BY <1>2, <1>4, <1>5, <1>6 DEF IsPlace

LEMMA EntryHasAPlace ==
    ASSUME NEW ports \in Nat \ {0}, NEW e \in 1..(ports * ports)
    PROVE  /\ (e - 1) \div ports + 1 \in 1..ports
           /\ ((e - 1) % ports) + 1 \in 1..ports
<1>1. PICK square \in Nat : square = ports * ports
  OBVIOUS
<1>2. PICK x \in 0..(square - 1) : x = e - 1
  BY <1>1
<1>3. PICK q \in Int, r \in 0..(ports - 1) :
         x \div ports = q /\ x % ports = r /\ x = ports * q + r
  BY QuotientAndRemainder
<1>4. ~(q < 0)
  <2>1. SUFFICES ASSUME q <= -1 PROVE FALSE
    OBVIOUS
  <2>2. PICK d \in Nat : q = -1 - d
    <3>1. -1 - q \in Nat /\ q = -1 - (-1 - q)
      BY <2>1
    <3>. QED
      BY <3>1
  <2>3. ports * q = -ports - ports * d
    BY <2>2
  <2>4. ports * d >= 0
    OBVIOUS
  <2>. QED
    BY <1>3, <2>3, <2>4
<1>5. ~(q >= ports)
  <2>1. SUFFICES ASSUME q >= ports PROVE FALSE
    OBVIOUS
  <2>2. PICK d \in Nat : q = ports + d
    <3>1. q - ports \in Nat /\ q = ports + (q - ports)
      BY <2>1
    <3>. QED
      BY <3>1
  <2>3. ports * q = square + ports * d
    BY <1>1, <2>2
  <2>4. ports * d >= 0
    OBVIOUS
  <2>. QED
    BY <1>3, <2>3, <2>4
<1>. QED
  BY <1>2, <1>3, <1>4, <1>5

(* Each place of the flattened sequence lies in one of its parts.            *)
LEMMA PlaceLiesInAPart ==
    ASSUME NEW last \in Nat, NEW start \in [0..last -> Nat], start[0] = 0,
           NEW k \in 1..start[last]
    PROVE  \E i \in 1..last : start[i - 1] < k /\ k <= start[i]
<1> DEFINE T == {i \in 0..last : k <= start[i]}
<1>1. T \subseteq Nat /\ last \in T
  OBVIOUS
<1> HIDE DEF T
<1>2. PICK i \in T : \A j \in T : i <= j
  BY <1>1, LeastElement
<1>3. i \in 0..last /\ k <= start[i]
  BY DEF T
<1>4. i # 0
  BY <1>3
<1>5. i \in 1..last /\ i - 1 \in 0..last /\ i - 1 \notin T
  BY <1>2, <1>3, <1>4
<1>6. ~(k <= start[i - 1]) /\ start[i - 1] \in Nat
  BY <1>5 DEF T
<1>. QED
  BY <1>3, <1>5, <1>6

(* Half of what is twice a number.                                           *)
LEMMA HalfOfTwice ==
    ASSUME NEW x \in Int, NEW y \in Int, 2 * x = y
    PROVE  y \div 2 = x
  OBVIOUS

(* The lesser and the greater of two numbers.                                *)
LEMMA LesserAndGreater ==
    ASSUME NEW a \in Nat, NEW b \in Nat, a <= b
    PROVE  Min({a, b}) = a /\ Max({a, b}) = b
<1>1. {a, b} \subseteq Nat /\ a \in {a, b} /\ b \in {a, b}
      /\ (\A x \in {a, b} : a <= x) /\ \A x \in {a, b} : x <= b
  OBVIOUS
<1>2. PICK T : T = {a, b}
  OBVIOUS
<1>. QED
  BY <1>1, <1>2, MinIsThat, MaxIsThat

(* One more matrix, and where its entries stand.                             *)
Matrices(a, count, ports) == Len(a) = count * (ports * ports)

EntryJoins(joined, a, b, count, ports, row, column) ==
    /\ \A k \in 0..(count - 1) :
          joined[k * ports * ports + (row - 1) * ports + column]
            = a[k * ports * ports + (row - 1) * ports + column]
    /\ joined[count * ports * ports + (row - 1) * ports + column]
         = b[(row - 1) * ports + column]

(* A matrix behind the others.                                               *)
LEMMA MatrixJoins ==
    ASSUME NEW ports \in Nat \ {0}, NEW count \in Nat, NEW S, NEW a \in Seq(S), NEW b \in Seq(S),
           Matrices(a, count, ports), Matrices(b, 1, ports),
           NEW row \in 1..ports, NEW column \in 1..ports
    PROVE  EntryJoins(a \o b, a, b, count, ports, row, column)
<1>1. PICK square \in Nat : square = ports * ports
  OBVIOUS
<1>2. PICK before \in Nat : before = count * square
  OBVIOUS
<1>3. Len(a) = before /\ Len(b) = square
  BY <1>1, <1>2 DEF Matrices
<1>4. ASSUME NEW k \in 0..(count - 1)
      PROVE  (a \o b)[k * ports * ports + (row - 1) * ports + column]
               = a[k * ports * ports + (row - 1) * ports + column]
  <2>1. PICK i : i = k * ports * ports + (row - 1) * ports + column
    OBVIOUS
  <2>2. i \in 1..before
    BY <1>1, <1>2, <2>1, PlaceIsInside
  <2>3. (a \o b)[i] = a[i]
    BY <1>3, <2>2, ConcatProperties
  <2>. QED
    BY <2>1, <2>3
<1>5. (a \o b)[count * ports * ports + (row - 1) * ports + column] = b[(row - 1) * ports + column]
  <2>1. PICK e \in Int : e = (row - 1) * ports + column
    OBVIOUS
  <2>2. e \in 1..square
    <3>1. IsPlace(e, ports, row, column)
      BY <2>1, PlaceInMatrix
    <3>. QED
      BY <1>1, <3>1 DEF IsPlace
  <2>3. count * ports * ports = before
    BY <1>1, <1>2
  <2>4. count * ports * ports + (row - 1) * ports + column = before + e
    <3>1. PICK d \in Int : d = (row - 1) * ports
      OBVIOUS
    <3>. QED
      BY <2>1, <2>3, <3>1
  <2>5. /\ before + e \in 1..(before + square) /\ ~(before + e <= before)
        /\ (before + e) - before = e
    BY <2>2
  <2>6. (a \o b)[before + e] = b[e]
    BY <1>3, <2>5, ConcatProperties
  <2>. QED
    BY <2>1, <2>4, <2>6
<1>. QED
  BY <1>4, <1>5, Zenon DEF EntryJoins

(* Value j of point k, of so many points of a size.                          *)
LEMMA ValueIsInside ==
    ASSUME NEW size \in Nat \ {0}, NEW count \in Nat, NEW k \in 0..(count - 1), NEW j \in 1..size
    PROVE  k * size + j \in 1..(count * size)
<1>1. j - 1 \in 0..(size - 1)
  OBVIOUS
<1>2. PICK b \in Int : b = j - 1
  OBVIOUS
<1>3. k * size + b \in 0..(count * size - 1)
  BY <1>1, <1>2, OffsetIsInside
<1>4. PICK all \in Int, start \in Int : all = count * size /\ start = k * size
  OBVIOUS
<1>. QED
  BY <1>2, <1>3, <1>4

(* A point is the values of its frame.                                       *)
LEMMA PointIsAFrame ==
    ASSUME NEW S, NEW tokens \in Seq(S), NEW size \in Nat \ {0}, NEW count \in Nat,
           Len(tokens) = count * size, NEW k \in 1..count, NEW i \in 1..size
    PROVE  SubSeq(tokens, (k - 1) * size + 1, k * size)[i] = tokens[(k - 1) * size + i]
<1>1. k - 1 \in 0..(count - 1)
  OBVIOUS
<1>2. PICK start \in Int : start = (k - 1) * size
  OBVIOUS
<1>3. k * size = start + size
  BY <1>2
<1>4. ASSUME NEW j \in (start + 1)..(start + size) PROVE tokens[j] \in S
  <2>1. j - start \in 1..size
    BY <1>4
  <2>2. (k - 1) * size + (j - start) \in 1..(count * size)
    BY <1>1, <2>1, ValueIsInside
  <2>3. PICK all \in Int : all = count * size
    OBVIOUS
  <2>4. j \in 1..Len(tokens)
    BY <1>2, <2>2, <2>3
  <2>. QED
    BY <2>4, ElementOfSeq
<1>5. \A j \in 1..((start + size) - (start + 1) + 1) :
         SubSeq(tokens, start + 1, start + size)[j] = tokens[(start + 1) + j - 1]
  BY <1>4, SubSeqProperties
<1>6. i \in 1..((start + size) - (start + 1) + 1) /\ (start + 1) + i - 1 = start + i
  OBVIOUS
<1>. QED
  BY <1>2, <1>3, <1>5, <1>6

(* A sequence of one element more.                                           *)
LEMMA OneMore ==
    ASSUME NEW S, NEW q \in Seq(S), NEW x \in S
    PROVE  /\ Append(q, x) \in Seq(S) /\ Len(Append(q, x)) = Len(q) + 1
           /\ \A k \in 1..Len(q) : Append(q, x)[k] = q[k]
           /\ Append(q, x)[Len(q) + 1] = x
  BY AppendProperties

(* A square has one root.                                                    *)
LEMMA OneRoot ==
    ASSUME NEW a \in Nat, NEW b \in Nat, a * a = b * b
    PROVE  a = b
<1>1. \A x, y \in Nat : x < y => x * x < y * y
  <2>1. ASSUME NEW x \in Nat, NEW y \in Nat, x < y PROVE x * x < y * y
    <3>1. x * x <= x * y
      BY <2>1
    <3>2. x * y < y * y
      BY <2>1
    <3>. QED
      BY <3>1, <3>2
  <2>. QED
    BY <2>1
<1>. QED
  BY <1>1
=============================================================================
