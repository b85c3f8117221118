----------------------------- MODULE MCDataShape -----------------------------
(***************************************************************************)
(* DataShape over every length and port count up to the edge of usize and  *)
(* past it: the state is the number being asked about.                     *)
(***************************************************************************)
EXTENDS DataShape

CONSTANT Largest

VARIABLE k
Init == k = 0
Next == k < Largest /\ k' = k + 1
Spec == Init /\ [][Next]_k

(* A port count either has the exact size 1 + 2n^2 or none at all; it never  *)
(* gets a wrapped one, which would send push_point past the end of the block *)
(* (values_per_point's doc comment).                                         *)
SizesAreExact ==
    \/ ValuesPerPoint(k) = 2 * k * k + 1 /\ ValuesPerPoint(k) \in 0..MaxUsize
    \/ ValuesPerPoint(k) = None /\ (k = 0 \/ 2 * k * k + 1 > MaxUsize)

(* "A set's length names its port count exactly" (nports_from_data_set): the *)
(* one count whose sets have that length, and none for any other length.     *)
LengthNamesPorts ==
    k <= MaxUsize =>
        {NportsFromDataSet(k)} \ {None} = {n \in 1..k : ValuesPerPoint(n) = k}

(* A triangular v2 point is shorter than the Full point that was checked, so *)
(* its unchecked arithmetic cannot overflow, and longer than the matrix it   *)
(* fills, so the file's own size bounds the matrix (v2.rs finish and new).   *)
TrianglesFit ==
    ValuesPerPoint(k) # None =>
        /\ TriangleValues(k) <= ValuesPerPoint(k)
        /\ k * k < TriangleValues(k)
        /\ TriangleValues(k) = 2 * Triangle(k) + 1
=============================================================================
