------------------------------- MODULE DataShape -------------------------------
(***************************************************************************)
(* The arithmetic both readers share: how many values one data set of an   *)
(* n-port network holds, and which port count a data set's length names.   *)
(* Rust's usize is the interval 0..MaxUsize; `None` is Option::None.       *)
(***************************************************************************)
EXTENDS Integers

CONSTANT MaxUsize   \* usize::MAX, scaled down so that TLC reaches the edge

ASSUME MaxUsizeAssumption == MaxUsize \in Nat \ {0}

None == -1

(* Frequency, NFmin, |Gopt|, angle(Gopt), Rn. *)
NoiseValuesPerSet == 5

Odd(k) == k % 2 = 1

Fits(k) == k <= MaxUsize
-----------------------------------------------------------------------------
(* The slip values_per_point's doc comment describes: a multiplication that  *)
(* wraps instead of answering None.                                          *)
WrappingValuesPerPoint(n) ==
    IF n = 0 THEN None ELSE (2 * n * n + 1) % (MaxUsize + 1)

(* values_per_point: every one of the three checked operations must fit.     *)
ValuesPerPoint(n) ==
    IF /\ n > 0
       /\ Fits(n * n)
       /\ Fits(n * n * 2)
       /\ Fits(n * n * 2 + 1)
    THEN n * n * 2 + 1
    ELSE None

(* The slip of rounding: the largest n whose data set fits in the length.    *)
NportsRoundedDown(len) ==
    IF len < 3
    THEN None
    ELSE CHOOSE n \in 1..len : 2 * n * n + 1 <= len /\ len < 2 * (n + 1) * (n + 1) + 1

(* nports_from_data_set: the whole n with n^2 pairs after the frequency.     *)
NportsFromDataSet(len) ==
    LET entries == (len - 1) \div 2
    IN  IF len >= 3 /\ Odd(len) /\ \E n \in 1..entries : n * n = entries
        THEN CHOOSE n \in 1..entries : n * n = entries
        ELSE None
-----------------------------------------------------------------------------
(* The slip of counting both halves of the matrix.                           *)
TriangleValuesSquared(n) == n * n + n * n + n + 1

(* Entries of a triangle: rows of 1, 2, ... n entries (v2 entry_order).      *)
Triangle(n) == (n * (n + 1)) \div 2

(* v2 finish: n^2 + n + 1, computed without a check.                         *)
TriangleValues(n) == n * n + n + 1
=============================================================================
