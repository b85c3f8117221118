------------------------------ MODULE OptionProofs ------------------------------
(***************************************************************************)
(* The option line's loop is right for every line: it accepts exactly the  *)
(* legal ones and the result means what the line says.                     *)
(***************************************************************************)
EXTENDS OptionLine, TLAPS

WordCategories == {"unit", "parameter", "format"}

TypeOK ==
    /\ line \in Seq(Tokens)
    /\ pos \in 0..Len(line)
    /\ pc \in {"token", "list", "done"}
    /\ seen \subseteq Categories
    /\ options \in [WordCategories -> Words]
    /\ values \in Seq(Ohms)
    /\ pc = "done" <=> outcome # "reading"

(* The tokens up to pos are those of a legal line, as far as they go.        *)
KnownSoFar == \A i \in 1..pos : line[i] \in Words \cup {"r"} \cup Ohms

OnceSoFar ==
    \A i, j \in 1..pos :
        i < j /\ line[i] \notin Ohms /\ line[j] \notin Ohms => Sets(line[i]) # Sets(line[j])

RHasValue == \A i \in 1..pos : line[i] = "r" => i < pos /\ line[i + 1] \in Ohms

ValuesInRun == \A i \in 1..pos : line[i] \in Ohms => i > 1 /\ line[i - 1] \in Ohms \cup {"r"}

(* seen holds the categories of those tokens,                                *)
SeenIsTaken ==
    \A c \in Categories :
        c \in seen <=> \E i \in 1..pos : line[i] \notin Ohms /\ Sets(line[i]) = c

(* and options what they say.                                                *)
OptionsSayPrefix ==
    \A c \in WordCategories :
        \/ \E i \in 1..pos : line[i] \in Words /\ Sets(line[i]) = c /\ options[c] = line[i]
        \/ /\ \A i \in 1..pos : line[i] \in Words => Sets(line[i]) # c
           /\ options[c] = Defaults[c]

(* The n values behind an R at r are all there are up to pos.                *)
ListAt(r, ohms) ==
    /\ line[r] = "r"
    /\ ohms \in Seq(Ohms)
    /\ Len(ohms) > 0
    /\ \A i \in 1..pos : line[i] \in Ohms <=> i \in (r + 1)..(r + Len(ohms))
    /\ \A k \in 1..Len(ohms) : ohms[k] = line[r + k]

(* Inside the list: it ends at pos.                                          *)
InList == \E r \in 1..pos : r + Len(values) = pos /\ ListAt(r, values)

(* Outside it: there is none yet, or it ended at a token that is no number.  *)
NoListYet ==
    /\ \A i \in 1..pos : line[i] # "r" /\ line[i] \notin Ohms
    /\ resistances = <<"50">>

ListBehind ==
    \E r \in 1..pos :
        /\ r + Len(resistances) \in 1..pos
        /\ ListAt(r, resistances)
        /\ pos = r + Len(resistances) => ~ListGoesOn

Prefix ==
    /\ KnownSoFar
    /\ OnceSoFar
    /\ RHasValue
    /\ ValuesInRun
    /\ SeenIsTaken
    /\ OptionsSayPrefix
    /\ pc = "list" => InList
    /\ pc # "list" => NoListYet \/ ListBehind

IInv ==
    /\ TypeOK
    /\ pc # "done" => Prefix
    /\ pc = "done" => (outcome = "ok" <=> Legal(line))
    /\ outcome = "ok" => Prefix /\ pos = Len(line)
-----------------------------------------------------------------------------
(* The vocabulary: each word sets one of three categories and R the fourth,  *)
(* and none of them is a number.                                             *)
LEMMA Vocabulary ==
    /\ \A t \in Words : t # "r" /\ Sets(t) \in WordCategories
    /\ \A t \in Words \cup {"r"} : t \notin Numbers
    /\ Sets("r") = "resistance"
    /\ \A t \in Words : Sets(t) = "parameter" <=> t \in Parameters
    /\ Parameters \subseteq Words
    /\ Categories = WordCategories \cup {"resistance"}
    /\ "resistance" \notin WordCategories
    /\ Ohms \subseteq Numbers
<1>1. Words \cap {"r"} = {} /\ Parameters \subseteq Words
  BY DEF Words, Units, Parameters, Formats
<1>2. \A t \in Words : Sets(t) \in WordCategories
  BY DEF Words, Sets, WordCategories
<1>3. \A t \in Words : Sets(t) = "parameter" <=> t \in Parameters
  BY DEF Words, Sets, Units, Parameters, Formats
<1>4. Sets("r") = "resistance"
  BY DEF Sets, Units, Parameters, Formats
<1>5. Categories = WordCategories \cup {"resistance"} /\ "resistance" \notin WordCategories
  BY DEF Categories, WordCategories
<1>. QED
  BY <1>1, <1>2, <1>3, <1>4, <1>5, NumbersAssumption DEF Numbers

(* The documented defaults are words of the line, and in scope.              *)
LEMMA DefaultsAreWords ==
    /\ Defaults \in [WordCategories -> Words]
    /\ Defaults["parameter"] = "s"
BY DEF Defaults, WordCategories, Words, Units, Parameters, Formats

(* Nothing taken yet is the beginning of every legal line.                   *)
THEOREM InitEstablishes == Init => IInv
<1>. SUFFICES ASSUME Init PROVE IInv
  OBVIOUS
<1>1. line \in Seq(Tokens) /\ Len(line) \in Nat
  BY LinesAssumption DEF Init
<1>2. TypeOK
  BY <1>1, DefaultsAreWords DEF Init, TypeOK
<1>3. Prefix
  BY <1>1 DEF Init, Prefix, KnownSoFar, OnceSoFar, RHasValue, ValuesInRun, SeenIsTaken,
     OptionsSayPrefix, NoListYet
<1>. QED
  BY <1>2, <1>3 DEF Init, IInv
-----------------------------------------------------------------------------
(* A word goes on a legal beginning.                                         *)
LEMMA TakeWordPreserves ==
    ASSUME IInv, TakeWord
    PROVE  IInv'
<1>. DEFINE t == line[pos + 1]
<1>1. /\ TypeOK /\ Prefix
      /\ Len(line) \in Nat /\ pos \in Nat /\ pos + 1 \in 1..Len(line)
  BY DEF IInv, TypeOK, TakeWord, HasNext
<1>2. /\ t \in Words /\ t # "r" /\ t \notin Ohms
      /\ Sets(t) \in WordCategories /\ Sets(t) \in Categories /\ Sets(t) \notin seen
  BY Vocabulary DEF TakeWord, NextToken, Free
<1>3. /\ pos' = pos + 1 /\ seen' = seen \cup {Sets(t)}
      /\ options' = [options EXCEPT ![Sets(t)] = t]
      /\ pc = "token" /\ outcome = "reading"
      /\ UNCHANGED <<line, pc, values, resistances, outcome>>
  BY <1>1 DEF TakeWord, NextToken, TypeOK
<1>4. TypeOK'
  BY <1>1, <1>2, <1>3 DEF TypeOK
<1>5. /\ KnownSoFar' /\ RHasValue' /\ ValuesInRun'
  BY <1>1, <1>2, <1>3 DEF Prefix, KnownSoFar, RHasValue, ValuesInRun
<1>6. \A i \in 1..pos : line[i] \notin Ohms => Sets(line[i]) # Sets(t)
  BY <1>1, <1>2 DEF Prefix, SeenIsTaken
<1>7. OnceSoFar'
  BY <1>1, <1>2, <1>3, <1>6 DEF Prefix, OnceSoFar
<1>8. SeenIsTaken'
  <2>. SUFFICES ASSUME NEW c \in Categories
                PROVE  c \in seen' <=>
                          \E i \in 1..(pos + 1) : line[i] \notin Ohms /\ Sets(line[i]) = c
    BY <1>3 DEF SeenIsTaken
  <2>1. c \in seen <=> \E i \in 1..pos : line[i] \notin Ohms /\ Sets(line[i]) = c
    BY <1>1 DEF Prefix, SeenIsTaken
  <2>. QED
    BY <1>1, <1>2, <1>3, <2>1
<1>9. OptionsSayPrefix'
  <2>. SUFFICES ASSUME NEW c \in WordCategories
                PROVE  \/ \E i \in 1..(pos + 1) : /\ line[i] \in Words
                                                 /\ Sets(line[i]) = c
                                                 /\ options'[c] = line[i]
                       \/ /\ \A i \in 1..(pos + 1) : line[i] \in Words => Sets(line[i]) # c
                          /\ options'[c] = Defaults[c]
    BY <1>3 DEF OptionsSayPrefix
  <2>1. CASE c = Sets(t)
    BY <1>1, <1>2, <1>3, <2>1 DEF TypeOK
  <2>2. CASE c # Sets(t)
    <3>1. options'[c] = options[c]
      BY <1>1, <1>3, <2>2 DEF TypeOK
    <3>. QED
      BY <1>1, <3>1, <2>2 DEF Prefix, OptionsSayPrefix
  <2>. QED
    BY <2>1, <2>2
<1>10. NoListYet' \/ ListBehind'
  <2>3. NoListYet \/ ListBehind
    BY <1>1, <1>3 DEF Prefix
  <2>1. CASE NoListYet
    BY <1>1, <1>2, <1>3, <2>1 DEF NoListYet
  <2>2. CASE ListBehind
    <3>1. PICK r \in 1..pos : /\ r + Len(resistances) \in 1..pos
                              /\ ListAt(r, resistances)
      BY <2>2 DEF ListBehind
    <3>2. resistances \in Seq(Ohms) /\ Len(resistances) \in Nat
      BY <3>1 DEF ListAt
    <3>3. \A i \in 1..(pos + 1) : line[i] \in Ohms <=> i \in (r + 1)..(r + Len(resistances))
      BY <1>1, <1>2, <3>1, <3>2 DEF ListAt
    <3>4. ListAt(r, resistances)'
      BY <1>3, <3>1, <3>2, <3>3 DEF ListAt
    <3>. QED
      BY <1>1, <1>3, <3>1, <3>2, <3>4 DEF ListBehind
  <2>. QED
    BY <2>1, <2>2, <2>3
<1>. QED
  BY <1>3, <1>4, <1>5, <1>7, <1>8, <1>9, <1>10 DEF IInv, Prefix

(* An error is right where the line is not legal.                            *)
LEMMA FailPreserves ==
    ASSUME IInv, ~Legal(line), NEW kind \in {"InvalidOptionLine", "InvalidNumber"}, Fail(kind)
    PROVE  IInv'
<1>1. /\ pc' = "done" /\ outcome' = kind
      /\ UNCHANGED <<line, pos, seen, options, values, resistances>>
  BY DEF Fail, Answer
<1>2. TypeOK'
  BY <1>1 DEF IInv, TypeOK
<1>3. Legal(line)' <=> Legal(line)
  BY <1>1 DEF Legal
<1>. QED
  BY <1>1, <1>2, <1>3 DEF IInv

(* R is free only while there is no R, and so no list, up to pos.            *)
LEMMA FreeRMeansNoList ==
    ASSUME IInv, pc = "token", Free("r")
    PROVE  NoListYet
<1>1. TypeOK /\ Prefix /\ (NoListYet \/ ListBehind)
  BY DEF IInv, Prefix
<1>2. \A i \in 1..pos : line[i] # "r"
  BY <1>1, Vocabulary DEF Free, Prefix, SeenIsTaken
<1>3. ~ListBehind
  BY <1>2 DEF ListBehind, ListAt
<1>. QED
  BY <1>1, <1>3

(* R and its first value go on a legal beginning.                            *)
LEMMA OpenListPreserves ==
    ASSUME IInv, pc = "token", Free("r"), pos + 1 < Len(line),
           line[pos + 1] = "r", line[pos + 2] \in Ohms,
           seen' = seen \cup {"resistance"}, values' = <<line[pos + 2]>>,
           pos' = pos + 2, pc' = "list",
           UNCHANGED <<line, options, resistances, outcome>>
    PROVE  IInv'
<1>1. /\ TypeOK /\ Prefix /\ NoListYet /\ outcome = "reading"
      /\ Len(line) \in Nat /\ pos \in Nat /\ pos + 2 \in 1..Len(line)
  BY FreeRMeansNoList DEF IInv, TypeOK
<1>2. /\ "r" \notin Words /\ "r" \notin Ohms /\ line[pos + 2] \notin Words
      /\ line[pos + 2] # "r"
      /\ "resistance" \in Categories /\ "resistance" \notin WordCategories
      /\ Sets("r") = "resistance" /\ "resistance" \notin seen
  BY Vocabulary DEF Free
<1>3. TypeOK'
  BY <1>1, <1>2 DEF TypeOK
<1>4. \A i \in 1..pos' : i \in 1..pos \/ i = pos + 1 \/ i = pos + 2
  BY <1>1
<1>5. KnownSoFar' /\ RHasValue' /\ ValuesInRun'
  BY <1>1, <1>2, <1>4 DEF Prefix, KnownSoFar, RHasValue, ValuesInRun
<1>6. \A i \in 1..pos : line[i] \notin Ohms => Sets(line[i]) # "resistance"
  BY <1>1, <1>2 DEF Prefix, SeenIsTaken
<1>7. OnceSoFar'
  BY <1>1, <1>2, <1>4, <1>6 DEF Prefix, OnceSoFar
<1>8. SeenIsTaken'
  <2>. SUFFICES ASSUME NEW c \in Categories
                PROVE  c \in seen' <=>
                          \E i \in 1..(pos + 2) : line[i] \notin Ohms /\ Sets(line[i]) = c
    BY DEF SeenIsTaken
  <2>1. c \in seen <=> \E i \in 1..pos : line[i] \notin Ohms /\ Sets(line[i]) = c
    BY <1>1 DEF Prefix, SeenIsTaken
  <2>. QED
    BY <1>1, <1>2, <1>4, <2>1
<1>9. OptionsSayPrefix'
  BY <1>1, <1>2, <1>4 DEF Prefix, OptionsSayPrefix
<1>10. InList'
  <2>1. values' \in Seq(Ohms) /\ Len(values') = 1 /\ values'[1] = line[pos + 2]
    OBVIOUS
  <2>2. \A i \in 1..(pos + 2) : line[i] \in Ohms <=> i \in (pos + 2)..(pos + 2)
    BY <1>1, <1>2, <1>4 DEF NoListYet
  <2>3. PICK r \in 1..(pos + 1) : r = pos + 1
    BY <1>1
  <2>4. ListAt(r, values)'
    BY <1>1, <2>1, <2>2, <2>3 DEF ListAt
  <2>. QED
    BY <1>1, <2>1, <2>3, <2>4 DEF InList
<1>. QED
  BY <1>1, <1>3, <1>5, <1>7, <1>8, <1>9, <1>10 DEF IInv, Prefix

(* R without a value, or with one that is no resistance, is not legal.       *)
LEMMA TakeRPreserves ==
    ASSUME IInv, TakeR
    PROVE  IInv'
<1>1. /\ pc = "token" /\ pos + 1 \in 1..Len(line) /\ line[pos + 1] = "r" /\ Free("r")
      /\ Len(line) \in Nat /\ pos \in Nat
  BY DEF TakeR, NextToken, HasNext, IInv, TypeOK
<1>2. CASE pos + 1 = Len(line) /\ Fail("InvalidOptionLine")
  <2>1. ~Legal(line)
    BY <1>1, <1>2 DEF Legal
  <2>. QED
    BY <1>2, <2>1, FailPreserves
<1>3. ASSUME NEW kind \in {"InvalidOptionLine", "InvalidNumber"},
             pos + 1 < Len(line), line[pos + 2] \notin Ohms, Fail(kind)
      PROVE  IInv'
  <2>1. ~Legal(line)
    BY <1>1, <1>3 DEF Legal
  <2>. QED
    BY <1>3, <2>1, FailPreserves
<1>4. CASE /\ pos + 1 < Len(line) /\ line[pos + 2] \in Ohms
           /\ seen' = seen \cup {"resistance"} /\ values' = <<line[pos + 2]>>
           /\ pos' = pos + 2 /\ pc' = "list"
           /\ UNCHANGED <<line, options, resistances, outcome>>
  BY <1>1, <1>4, OpenListPreserves
<1>5. \A t : t \notin Numbers \/ t \in NotOhms => t \notin Ohms
  BY NumbersAssumption DEF Numbers
<1>. QED
  BY <1>2, <1>3, <1>4, <1>5 DEF TakeR

(* Another value goes on the list, or is a number that is no resistance.     *)
LEMMA TakeValuePreserves ==
    ASSUME IInv, TakeValue
    PROVE  IInv'
<1>. DEFINE t == line[pos + 1]
<1>1. /\ TypeOK /\ Prefix /\ InList /\ pc = "list" /\ t \in Numbers
      /\ outcome = "reading"
      /\ Len(line) \in Nat /\ pos \in Nat /\ pos + 1 \in 1..Len(line)
  BY DEF IInv, Prefix, TypeOK, TakeValue, ListGoesOn, HasNext, NextToken
<1>2. t \notin Words /\ t # "r"
  BY <1>1, Vocabulary
<1>3. CASE t \notin Ohms /\ Fail("InvalidOptionLine")
  <2>1. ~Legal(line)
    BY <1>1, <1>2, <1>3 DEF Legal
  <2>. QED
    BY <1>3, <2>1, FailPreserves
<1>4. CASE /\ t \in Ohms /\ values' = Append(values, t) /\ pos' = pos + 1
           /\ UNCHANGED <<line, pc, seen, options, resistances, outcome>>
  <2>1. TypeOK'
    BY <1>1, <1>4 DEF TypeOK
  <2>2. PICK r \in 1..pos : r + Len(values) = pos /\ ListAt(r, values)
    BY <1>1 DEF InList
  <2>3. /\ values \in Seq(Ohms) /\ Len(values) \in Nat /\ Len(values) > 0
        /\ values' \in Seq(Ohms) /\ Len(values') = Len(values) + 1
        /\ \A k \in 1..Len(values) : values'[k] = values[k]
        /\ values'[Len(values) + 1] = t
    BY <1>4, <2>2 DEF ListAt
  <2>4. line[pos] \in Ohms
    BY <1>1, <2>2, <2>3 DEF ListAt
  <2>5. KnownSoFar' /\ RHasValue'
    BY <1>1, <1>2, <1>4 DEF Prefix, KnownSoFar, RHasValue
  <2>6. ValuesInRun'
    BY <1>1, <1>4, <2>2, <2>4 DEF Prefix, ValuesInRun
  <2>7. OnceSoFar' /\ OptionsSayPrefix'
    BY <1>1, <1>2, <1>4 DEF Prefix, OnceSoFar, OptionsSayPrefix
  <2>8. SeenIsTaken'
    BY <1>1, <1>4 DEF Prefix, SeenIsTaken
  <2>9. InList'
    <3>1. \A i \in 1..(pos + 1) : line[i] \in Ohms <=> i \in (r + 1)..(r + Len(values) + 1)
      BY <1>1, <1>4, <2>2, <2>3 DEF ListAt
    <3>2. \A k \in 1..(Len(values) + 1) : values'[k] = line[r + k]
      BY <1>1, <2>2, <2>3 DEF ListAt
    <3>3. ListAt(r, values)'
      BY <1>4, <2>2, <2>3, <3>1, <3>2 DEF ListAt
    <3>. QED
      BY <1>1, <1>4, <2>2, <2>3, <3>3, SMTT(30) DEF InList
  <2>. QED
    BY <1>1, <1>4, <2>1, <2>5, <2>6, <2>7, <2>8, <2>9 DEF IInv, Prefix
<1>. QED
  BY <1>3, <1>4 DEF TakeValue, NextToken, Listed

(* The list ends where no number follows.                                    *)
LEMMA EndListPreserves ==
    ASSUME IInv, EndList
    PROVE  IInv'
<1>1. /\ TypeOK /\ Prefix /\ InList /\ outcome = "reading" /\ ~ListGoesOn
      /\ resistances' = values /\ pc' = "token"
      /\ UNCHANGED <<line, pos, seen, options, values, outcome>>
  BY DEF IInv, Prefix, TypeOK, EndList
<1>2. TypeOK'
  BY <1>1 DEF TypeOK
<1>3. /\ KnownSoFar' /\ OnceSoFar' /\ RHasValue' /\ ValuesInRun' /\ SeenIsTaken'
      /\ OptionsSayPrefix'
  BY <1>1 DEF Prefix, KnownSoFar, OnceSoFar, RHasValue, ValuesInRun, SeenIsTaken,
     OptionsSayPrefix
<1>4. ListBehind'
  <2>1. PICK r \in 1..pos : r + Len(values) = pos /\ ListAt(r, values)
    BY <1>1 DEF InList
  <2>2. ListAt(r, resistances)' /\ ~ListGoesOn'
    BY <1>1, <2>1 DEF ListAt, ListGoesOn, HasNext, NextToken
  <2>. QED
    BY <1>1, <2>1, <2>2 DEF ListBehind, TypeOK
<1>. QED
  BY <1>1, <1>2, <1>3, <1>4 DEF IInv, Prefix

(* What the outer loop refuses makes the line illegal: a category set twice, *)
(* a number away from R, or a token that is nothing.                         *)
LEMMA RejectTokenPreserves ==
    ASSUME IInv, RejectToken
    PROVE  IInv'
<1>. DEFINE t == line[pos + 1]
<1>1. /\ TypeOK /\ Prefix /\ (NoListYet \/ ListBehind)
      /\ Len(line) \in Nat /\ pos \in Nat /\ pos + 1 \in 1..Len(line)
      /\ t \in Words \cup {"r"} => Sets(t) \in seen
      /\ Fail("InvalidOptionLine")
  BY DEF IInv, Prefix, TypeOK, RejectToken, HasNext, NextToken, Free
<1>2. CASE t \in Words \cup {"r"}
  <2>1. t \notin Ohms /\ Sets(t) \in Categories
    BY <1>2, Vocabulary
  <2>2. PICK i \in 1..pos : line[i] \notin Ohms /\ Sets(line[i]) = Sets(t)
    BY <1>1, <1>2, <2>1 DEF Prefix, SeenIsTaken
  <2>. QED
    BY <1>1, <2>1, <2>2, FailPreserves DEF Legal
<1>3. CASE t \in Ohms
  <2>1. ASSUME Legal(line) PROVE FALSE
    <3>1. pos > 0 /\ line[pos] \in Ohms \cup {"r"}
      BY <1>1, <1>3, <2>1 DEF Legal
    <3>2. line[pos] \in Ohms
      BY <1>1, <3>1 DEF Prefix, RHasValue
    <3>3. ~NoListYet
      BY <1>1, <3>1, <3>2 DEF NoListYet
    <3>4. PICK r \in 1..pos : /\ r + Len(resistances) \in 1..pos
                              /\ ListAt(r, resistances)
                              /\ pos = r + Len(resistances) => ~ListGoesOn
      BY <1>1, <3>3 DEF ListBehind
    <3>5. pos = r + Len(resistances)
      BY <1>1, <3>1, <3>2, <3>4 DEF ListAt
    <3>6. ListGoesOn
      BY <1>1, <1>3, Vocabulary DEF ListGoesOn, HasNext, NextToken
    <3>. QED
      BY <3>4, <3>5, <3>6
  <2>. QED
    BY <1>1, <2>1, FailPreserves
<1>4. CASE t \notin Words \cup {"r"} \cup Ohms
  BY <1>1, <1>4, FailPreserves DEF Legal
<1>. QED
  BY <1>2, <1>3, <1>4

(* At the end of the line the whole of it is legal, but for the parameter.   *)
LEMMA ReachEndPreserves ==
    ASSUME IInv, ReachEnd
    PROVE  IInv'
<1>1. /\ TypeOK /\ Prefix /\ Len(line) \in Nat /\ pos = Len(line)
      /\ pc = "token" /\ (NoListYet \/ ListBehind)
      /\ pc' = "done" /\ outcome' = (IF InScope THEN "ok" ELSE "UnsupportedParameter")
      /\ UNCHANGED <<line, pos, seen, options, values, resistances>>
  BY DEF IInv, Prefix, TypeOK, ReachEnd, Answer, HasNext
<1>2. TypeOK'
  BY <1>1 DEF TypeOK
<1>3. \A i, j \in 1..Len(line) :
          line[i] \in Parameters /\ line[j] \in Parameters => line[i] = line[j]
  <2>. SUFFICES ASSUME NEW i \in 1..Len(line), NEW j \in 1..Len(line),
                       line[i] \in Parameters, line[j] \in Parameters
                PROVE  line[i] = line[j]
    OBVIOUS
  <2>1. /\ line[i] \notin Ohms /\ line[j] \notin Ohms
        /\ Sets(line[i]) = "parameter" /\ Sets(line[j]) = "parameter"
    BY Vocabulary
  <2>2. ~(i < j) /\ ~(j < i)
    BY <1>1, <2>1 DEF Prefix, OnceSoFar
  <2>. QED
    BY <1>1, <2>2
<1>4. InScope <=> \A i \in 1..Len(line) : line[i] \in Parameters => line[i] = "s"
  <2>1. "parameter" \in WordCategories
    BY DEF WordCategories
  <2>2. CASE \E i \in 1..pos : /\ line[i] \in Words /\ Sets(line[i]) = "parameter"
                               /\ options["parameter"] = line[i]
    BY <1>1, <1>3, <2>2, Vocabulary DEF InScope
  <2>3. CASE /\ \A i \in 1..pos : line[i] \in Words => Sets(line[i]) # "parameter"
             /\ options["parameter"] = Defaults["parameter"]
    BY <1>1, <2>3, Vocabulary, DefaultsAreWords DEF InScope
  <2>. QED
    BY <1>1, <2>1, <2>2, <2>3 DEF Prefix, OptionsSayPrefix
<1>5. Legal(line) <=> InScope
  BY <1>1, <1>4 DEF Legal, Prefix, KnownSoFar, OnceSoFar, RHasValue, ValuesInRun
<1>6. Legal(line)' <=> Legal(line)
  BY <1>1 DEF Legal
<1>7. Prefix'
  <2>1. /\ KnownSoFar' /\ OnceSoFar' /\ RHasValue' /\ ValuesInRun' /\ SeenIsTaken'
        /\ OptionsSayPrefix'
    BY <1>1 DEF Prefix, KnownSoFar, OnceSoFar, RHasValue, ValuesInRun, SeenIsTaken,
       OptionsSayPrefix
  <2>2. NoListYet' \/ ListBehind'
    BY <1>1 DEF NoListYet, ListBehind, ListAt, ListGoesOn, HasNext, NextToken
  <2>. QED
    BY <1>1, <2>1, <2>2 DEF Prefix
<1>. QED
  BY <1>1, <1>2, <1>5, <1>6, <1>7 DEF IInv

(* A returned call changes nothing.                                          *)
LEMMA StutterPreserves ==
    ASSUME IInv, UNCHANGED vars
    PROVE  IInv'
BY DEF vars, IInv, TypeOK, Prefix, KnownSoFar, OnceSoFar, RHasValue, ValuesInRun, SeenIsTaken,
   OptionsSayPrefix, InList, NoListYet, ListBehind, ListAt, ListGoesOn, HasNext, NextToken, Legal

(* Each step of the loop keeps the invariant.                                *)
THEOREM StepPreserves == IInv /\ [Next]_vars => IInv'
<1>. SUFFICES ASSUME IInv, [Next]_vars PROVE IInv'
  OBVIOUS
<1>1. CASE TakeWord
  BY <1>1, TakeWordPreserves
<1>2. CASE TakeR
  BY <1>2, TakeRPreserves
<1>3. CASE TakeValue
  BY <1>3, TakeValuePreserves
<1>4. CASE EndList
  BY <1>4, EndListPreserves
<1>5. CASE RejectToken
  BY <1>5, RejectTokenPreserves
<1>6. CASE ReachEnd
  BY <1>6, ReachEndPreserves
<1>7. CASE UNCHANGED vars
  BY <1>7, StutterPreserves
<1>. QED
  BY <1>1, <1>2, <1>3, <1>4, <1>5, <1>6, <1>7 DEF Next, Done

(* So it holds all along.                                                    *)
THEOREM Invariance == Spec => []IInv
BY InitEstablishes, StepPreserves, PTL DEF Spec

(* For every vocabulary of numbers and every line: the loop accepts exactly  *)
(* the legal lines.                                                          *)
THEOREM AcceptsLegalLines == Spec => []AcceptsExactlyLegalLines
<1>1. IInv => AcceptsExactlyLegalLines
  BY DEF IInv, AcceptsExactlyLegalLines
<1>. QED
  BY <1>1, Invariance, PTL

(* What an accepted line's options and references are, whatever the order of *)
(* its parts.                                                                *)
THEOREM OptionsMeanTheLine == Spec => []MeansWhatItSays
<1>1. ASSUME IInv PROVE MeansWhatItSays
  <2>. SUFFICES ASSUME outcome = "ok"
                PROVE  /\ \A c \in WordCategories : Says(line, c, options[c])
                       /\ resistances # <<>>
                       /\ Lists(line, resistances)
    BY DEF MeansWhatItSays, WordCategories
  <2>1. TypeOK /\ Prefix /\ pos = Len(line) /\ pc = "done" /\ (NoListYet \/ ListBehind)
    BY <1>1 DEF IInv, TypeOK, Prefix
  <2>2. \A c \in WordCategories : Says(line, c, options[c])
    BY <2>1 DEF Prefix, OptionsSayPrefix, Says
  <2>3. ASSUME NoListYet
        PROVE  resistances # <<>> /\ Lists(line, resistances)
    BY <2>1, <2>3 DEF NoListYet, Lists
  <2>4. ASSUME ListBehind
        PROVE  resistances # <<>> /\ Lists(line, resistances)
    <3>1. PICK r \in 1..pos : ListAt(r, resistances)
      BY <2>4 DEF ListBehind
    <3>2. resistances # <<>>
      BY <3>1 DEF ListAt
    <3>3. /\ line[r] = "r" /\ r \in 1..Len(line)
          /\ \A i \in 1..Len(line) : line[i] \in Ohms <=> i \in (r + 1)..(r + Len(resistances))
          /\ \A k \in 1..Len(resistances) : resistances[k] = line[r + k]
      BY <2>1, <3>1 DEF ListAt
    <3>. QED
      BY <3>2, <3>3 DEF Lists
  <2>. QED
    BY <2>1, <2>2, <2>3, <2>4
<1>. QED
  BY <1>1, Invariance, PTL
=============================================================================
