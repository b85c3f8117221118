------------------------------ MODULE MCOptionLine ------------------------------
(***************************************************************************)
(* Every option line of a bounded number of tokens: two units and a format *)
(* that are defaults or not, the parameter in and out of scope, R, two     *)
(* resistances, a number that is none and a token that is nothing.         *)
(***************************************************************************)
EXTENDS OptionLine

CONSTANT MaxTokens    \* tokens on a line, at most

SmallAlphabet == {"hz", "ghz", "s", "z", "ri", "r", "75", "25", "0", "abc"}
LinesToMaxTokens == UNION {[1..k -> SmallAlphabet] : k \in 0..MaxTokens}
=============================================================================
