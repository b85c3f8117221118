------------------------------ MODULE OptionLine ------------------------------
(***************************************************************************)
(* The option line, `# <unit> <parameter> <format> R <n1> ... <np>`:       *)
(* parse_option_line's loop over the tokens behind the `#`, and the scope  *)
(* check both readers make of its result (option_line.rs, mod.rs).         *)
(*                                                                         *)
(* A token stands for its lower-case spelling.  A token in Ohms reads as a *)
(* positive finite number, one in NotOhms as any other number f64 knows:   *)
(* zero, negative, infinite or NaN.  Whatever else is no word of the line  *)
(* is neither.                                                             *)
(***************************************************************************)
EXTENDS Integers, Sequences

CONSTANTS OptionLines,   \* the lines that may be read
          Tokens,        \* the tokens they are made of
          Ohms,          \* those that are a usable resistance
          NotOhms        \* those that are a number and no resistance

Units      == {"hz", "khz", "mhz", "ghz"}
Parameters == {"s", "y", "z", "g", "h"}
Formats    == {"ri", "ma", "db"}
Words      == Units \cup Parameters \cup Formats
Numbers    == Ohms \cup NotOhms
Categories == {"unit", "parameter", "format", "resistance"}

(* The category a word of the line sets; "r" sets the fourth.                *)
Sets(t) ==
    IF t \in Units THEN "unit"
    ELSE IF t \in Parameters THEN "parameter"
    ELSE IF t \in Formats THEN "format"
    ELSE "resistance"

ASSUME LinesAssumption == OptionLines \subseteq Seq(Tokens)

(* No word of the line parses as a number: the premise of the greedy list.   *)
ASSUME NumbersAssumption ==
    /\ Ohms \cap NotOhms = {}
    /\ Numbers \cap (Words \cup {"r"}) = {}

VARIABLES
    line,      \* the tokens of the option line
    pos,       \* tokens taken so far
    pc,        \* "token": the outer loop; "list": the one behind R; "done"
    seen,      \* the categories claimed
    options,   \* Options, but for its resistances
    values,    \* the R list being read
    resistances,
    outcome    \* "reading", "ok" or the kind of the error

vars == <<line, pos, pc, seen, options, values, resistances, outcome>>

Defaults == [unit |-> "ghz", parameter |-> "s", format |-> "ma"]

Init ==
    /\ line \in OptionLines
    /\ pos = 0
    /\ pc = "token"
    /\ seen = {}
    /\ options = Defaults
    /\ values = <<>>
    /\ resistances = <<"50">>
    /\ outcome = "reading"
-----------------------------------------------------------------------------
NextToken == line[pos + 1]

HasNext == pos < Len(line)

Answer(kind) ==
    /\ outcome' = kind
    /\ pc' = "done"

Fail(kind) ==
    /\ Answer(kind)
    /\ UNCHANGED <<line, pos, seen, options, values, resistances>>

(* The slip of refusing a second value only where it contradicts the first.  *)
FreeUnlessContradicted(t) == Sets(t) \in seen => t \in {options.unit, options.format}

(* claim: a category is set once.                                            *)
Free(t) == Sets(t) \notin seen

TakeWord ==
    /\ pc = "token"
    /\ HasNext
    /\ NextToken \in Words
    /\ Free(NextToken)
    /\ seen' = seen \cup {Sets(NextToken)}
    /\ options' = [options EXCEPT ![Sets(NextToken)] = NextToken]
    /\ pos' = pos + 1
    /\ UNCHANGED <<line, pc, values, resistances, outcome>>

(* R takes its first value whatever it is, and fails without one.            *)
TakeR ==
    /\ pc = "token"
    /\ HasNext
    /\ NextToken = "r"
    /\ Free("r")
    /\ \/ /\ pos + 1 = Len(line)
          /\ Fail("InvalidOptionLine")
       \/ /\ pos + 1 < Len(line)
          /\ line[pos + 2] \notin Numbers
          /\ Fail("InvalidNumber")
       \/ /\ pos + 1 < Len(line)
          /\ line[pos + 2] \in NotOhms
          /\ Fail("InvalidOptionLine")
       \/ /\ pos + 1 < Len(line)
          /\ line[pos + 2] \in Ohms
          /\ seen' = seen \cup {"resistance"}
          /\ values' = <<line[pos + 2]>>
          /\ pos' = pos + 2
          /\ pc' = "list"
          /\ UNCHANGED <<line, options, resistances, outcome>>

(* The slip of collecting the list from its far end.                         *)
ListedInFront(ohms) == <<ohms>> \o values

Listed(ohms) == Append(values, ohms)

(* Further values are taken only while they parse.                           *)
ListGoesOn == HasNext /\ NextToken \in Numbers

TakeValue ==
    /\ pc = "list"
    /\ ListGoesOn
    /\ \/ /\ NextToken \in Ohms
          /\ values' = Listed(NextToken)
          /\ pos' = pos + 1
          /\ UNCHANGED <<line, pc, seen, options, resistances, outcome>>
       \/ /\ NextToken \notin Ohms
          /\ Fail("InvalidOptionLine")

EndList ==
    /\ pc = "list"
    /\ ~ListGoesOn
    /\ resistances' = values
    /\ pc' = "token"
    /\ UNCHANGED <<line, pos, seen, options, values, outcome>>

RejectToken ==
    /\ pc = "token"
    /\ HasNext
    /\ NextToken \in Words \cup {"r"} => ~Free(NextToken)
    /\ Fail("InvalidOptionLine")

(* check_option_scope: S-parameters only.                                    *)
InScope == options.parameter = "s"

ReachEnd ==
    /\ pc = "token"
    /\ ~HasNext
    /\ Answer(IF InScope THEN "ok" ELSE "UnsupportedParameter")
    /\ UNCHANGED <<line, pos, seen, options, values, resistances>>

Done == pc = "done" /\ UNCHANGED vars

Next == TakeWord \/ TakeR \/ TakeValue \/ EndList \/ RejectToken \/ ReachEnd \/ Done

(* One call that runs until it returns.                                      *)
Spec == Init /\ [][Next]_vars /\ WF_vars(Next)
-----------------------------------------------------------------------------
(* What the line says, without reading it in order: no token out of place,   *)
(* no category twice, the values in one run behind R.                        *)
Legal(l) ==
    /\ \A i \in 1..Len(l) : l[i] \in Words \cup {"r"} \cup Ohms
    /\ \A i, j \in 1..Len(l) :
            i < j /\ l[i] \notin Ohms /\ l[j] \notin Ohms => Sets(l[i]) # Sets(l[j])
    /\ \A i \in 1..Len(l) : l[i] = "r" => i < Len(l) /\ l[i + 1] \in Ohms
    /\ \A i \in 1..Len(l) : l[i] \in Ohms => i > 1 /\ l[i - 1] \in Ohms \cup {"r"}
    /\ \A i \in 1..Len(l) : l[i] \in Parameters => l[i] = "s"

(* The option in force: the word on the line, wherever it stands, or the     *)
(* default.                                                                  *)
Says(l, category, t) ==
    \/ \E i \in 1..Len(l) : l[i] \in Words /\ Sets(l[i]) = category /\ t = l[i]
    \/ /\ \A i \in 1..Len(l) : l[i] \in Words => Sets(l[i]) # category
       /\ t = Defaults[category]

(* The R list: every value on the line, in order, behind the one R.          *)
Lists(l, ohms) ==
    \/ \E r \in 1..Len(l) :
          /\ l[r] = "r"
          /\ \A i \in 1..Len(l) : l[i] \in Ohms <=> i \in (r + 1)..(r + Len(ohms))
          /\ \A k \in 1..Len(ohms) : ohms[k] = l[r + k]
    \/ /\ \A i \in 1..Len(l) : l[i] # "r"
       /\ ohms = <<"50">>

(* The loop accepts exactly the legal lines: the greedy list neither takes a *)
(* word for a value nor leaves one behind, and no category is set twice      *)
(* (parse_option_line, claim, check_ohms, check_option_scope).               *)
AcceptsExactlyLegalLines == pc = "done" => (outcome = "ok" <=> Legal(line))

(* Options hold what the line says, whatever order its parts come in, the    *)
(* documented default where it says nothing, and every R value in order.     *)
MeansWhatItSays ==
    outcome = "ok" =>
        /\ \A category \in {"unit", "parameter", "format"} :
                Says(line, category, options[category])
        /\ resistances # <<>>
        /\ Lists(line, resistances)
=============================================================================
