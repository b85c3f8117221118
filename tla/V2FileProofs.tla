------------------------------ MODULE V2FileProofs ------------------------------
(***************************************************************************)
(* Theorems about V2Reader that count over a whole file or a whole matrix, *)
(* for every file, every hint, every slack, every MaxUsize and every       *)
(* MaxFinite.                                                              *)
(***************************************************************************)
EXTENDS V2Grammar, V2Proofs, FiniteSetTheorems

(* The first line of a kind.                                                 *)
IsFirst(f, i, w) ==
    i \in 1..Len(f) /\ f[i].kind = w /\ \A j \in 1..(i - 1) : f[j].kind # w

(* The least line of a kind is the first there is of it.                     *)
LEMMA FirstOfItsKind ==
    ASSUME NEW f \in Seq(Lines), NEW w
    PROVE  /\ Has(f, w) <=> \E i \in 1..Len(f) : f[i].kind = w
           /\ Has(f, w) => IsFirst(f, LineOf(f, w), w)
           /\ \A i : IsFirst(f, i, w) => Has(f, w) /\ LineOf(f, w) = i
<1>1. PICK T : T = LinesOf(f, {w})
  OBVIOUS
<1>2. T = {i \in 1..Len(f) : f[i].kind = w} /\ T \subseteq Nat
  BY <1>1 DEF LinesOf
<1>3. LineOf(f, w) = Min(T) /\ (Has(f, w) <=> T # {})
  BY <1>1 DEF LineOf, Has
<1>4. ASSUME T # {} PROVE IsFirst(f, LineOf(f, w), w)
  <2>1. PICK m \in T : m = Min(T) /\ \A x \in T : m <= x
    BY <1>2, <1>4, MinIsLeast
  <2>2. \A j \in 1..(m - 1) : j \notin T
    BY <1>2, <2>1
  <2>3. m \in 1..Len(f) /\ f[m].kind = w
    BY <1>2
  <2>4. \A j \in 1..(m - 1) : f[j].kind # w
    BY <1>2, <2>2, <2>3
  <2>5. LineOf(f, w) = m
    BY <1>3, <2>1
  <2>. QED
    BY <2>3, <2>4, <2>5 DEF IsFirst
<1>5. ASSUME NEW i, IsFirst(f, i, w) PROVE T # {} /\ LineOf(f, w) = i
  <2>1. i \in T /\ i \in Nat
    BY <1>2, <1>5 DEF IsFirst
  <2>2. ASSUME NEW x \in T PROVE i <= x
    BY <1>2, <1>5, <2>1 DEF IsFirst
  <2>3. Min(T) = i
    BY <1>2, <2>1, <2>2, MinIsThat
  <2>. QED
    BY <1>3, <2>1, <2>3
<1>. QED
  BY <1>2, <1>3, <1>4, <1>5

LEMMA FirstIsOne ==
    ASSUME NEW f \in Seq(Lines), NEW w, NEW i, IsFirst(f, i, w), NEW j, IsFirst(f, j, w)
    PROVE  i = j
<1>1. LineOf(f, w) = i
  BY FirstOfItsKind
<1>2. LineOf(f, w) = j
  BY FirstOfItsKind
<1>. QED
  BY <1>1, <1>2

(* What lies in front of the next line of some kinds.                        *)
LEMMA InFrontOfNext ==
    ASSUME NEW f \in Seq(Lines), NEW i \in Nat, NEW kinds, NEW m \in 1..Len(f), i <= m
    PROVE  m < NextOf(f, i, kinds) <=> \A j \in i..m : j \in 1..Len(f) => f[j].kind \notin kinds
<1>1. PICK T : T = {j \in LinesOf(f, kinds) : j >= i} \cup {Len(f) + 1}
  OBVIOUS
<1>2. /\ T \subseteq Nat /\ Len(f) + 1 \in T
      /\ \A j \in T : j = Len(f) + 1 \/ (j \in 1..Len(f) /\ j >= i /\ f[j].kind \in kinds)
      /\ \A j \in 1..Len(f) : j >= i /\ f[j].kind \in kinds => j \in T
  BY <1>1 DEF LinesOf
<1>3. PICK next \in T : next = NextOf(f, i, kinds) /\ \A x \in T : next <= x
  <2>1. Min(T) = NextOf(f, i, kinds)
    BY <1>1 DEF NextOf
  <2>. QED
    BY <1>2, <2>1, MinIsLeast
<1>4. ASSUME m < next, NEW j \in i..m, j \in 1..Len(f) PROVE f[j].kind \notin kinds
  <2>1. j \notin T
    BY <1>2, <1>3, <1>4
  <2>2. j >= i
    BY <1>4
  <2>. QED
    BY <1>2, <1>4, <2>1, <2>2
<1>5. ASSUME ~(m < next) PROVE next \in i..m /\ next \in 1..Len(f) /\ f[next].kind \in kinds
  BY <1>2, <1>3, <1>5
<1>. QED
  BY <1>3, <1>4, <1>5

(* Lines a [Reference] list stands on.                                       *)
Listed(f) == ReferenceLines(f) \cap LinesOf(f, {"Reference", "data"})

LEMMA ListedLines ==
    ASSUME NEW f \in Seq(Lines), NEW m \in 1..Len(f)
    PROVE  m \in Listed(f)
             <=> /\ f[m].kind \in {"Reference", "data"}
                 /\ \E r \in 1..m : /\ IsFirst(f, r, "Reference")
                                    /\ \A j \in (r + 1)..m : f[j].kind \notin Bracketed
<1>1. m \in LinesOf(f, {"Reference", "data"}) <=> f[m].kind \in {"Reference", "data"}
  BY DEF LinesOf
<1>2. ASSUME NEW r, IsFirst(f, r, "Reference")
      PROVE  m \in ReferenceLines(f)
               <=> r <= m /\ \A j \in (r + 1)..m : f[j].kind \notin Bracketed
  <2>1. LineOf(f, "Reference") = r /\ Has(f, "Reference") /\ r \in Nat
    BY <1>2, FirstOfItsKind DEF IsFirst
  <2>2. ReferenceLines(f) = r..(NextOf(f, r + 1, Bracketed) - 1)
    BY <2>1 DEF ReferenceLines
  <2>3. PICK next : next = NextOf(f, r + 1, Bracketed)
    OBVIOUS
  <2>4. next \in Nat /\ next >= r + 1
    <3>1. PICK T : T = {j \in LinesOf(f, Bracketed) : j >= r + 1} \cup {Len(f) + 1}
      OBVIOUS
    <3>2. T \subseteq Nat /\ T # {} /\ \A x \in T : x >= r + 1
      BY <1>2, <2>1, <3>1 DEF LinesOf, IsFirst
    <3>3. next \in T
      BY <2>3, <3>1, <3>2, MinIsLeast DEF NextOf
    <3>. QED
      BY <3>2, <3>3
  <2>5. m \in ReferenceLines(f) <=> r <= m /\ m < next
    BY <2>1, <2>2, <2>3, <2>4
  <2>6. CASE r + 1 <= m
    <3>1. r + 1 \in Nat /\ \A j \in (r + 1)..m : j \in 1..Len(f)
      BY <2>1
    <3>2. m < next <=> \A j \in (r + 1)..m : j \in 1..Len(f) => f[j].kind \notin Bracketed
      BY <2>3, <2>6, <3>1, InFrontOfNext
    <3>. QED
      BY <2>1, <2>5, <2>6, <3>1, <3>2
  <2>7. CASE ~(r + 1 <= m)
    <3>1. \A j \in (r + 1)..m : FALSE
      BY <2>1, <2>7
    <3>2. r <= m => m < next
      BY <2>1, <2>4, <2>7
    <3>. QED
      BY <2>5, <3>1, <3>2
  <2>. QED
    BY <2>6, <2>7
<1>3. CASE Has(f, "Reference")
  <2>1. PICK r : IsFirst(f, r, "Reference")
    BY <1>3, FirstOfItsKind
  <2>2. ASSUME NEW q, IsFirst(f, q, "Reference") PROVE q = r
    BY <2>1, <2>2, FirstIsOne
  <2>3. r <= m <=> r \in 1..m
    BY <2>1 DEF IsFirst
  <2>. QED
    BY <1>1, <1>2, <2>1, <2>2, <2>3 DEF Listed
<1>4. CASE ~Has(f, "Reference")
  BY <1>4, FirstOfItsKind DEF Listed, ReferenceLines
<1>. QED
  BY <1>3, <1>4

(* Lines inside the information block.                                       *)
LEMMA InformationLines ==
    ASSUME NEW f \in Seq(Lines), NEW m \in 1..Len(f)
    PROVE  m \in Information(f)
             <=> \E b \in 1..(m - 1) : /\ IsFirst(f, b, "BeginInformation")
                                       /\ \A j \in b..m : f[j].kind # "EndInformation"
<1>1. ASSUME NEW b, IsFirst(f, b, "BeginInformation")
      PROVE  m \in Information(f) <=> b < m /\ \A j \in b..m : f[j].kind # "EndInformation"
  <2>1. LineOf(f, "BeginInformation") = b /\ Has(f, "BeginInformation") /\ b \in 1..Len(f)
    BY <1>1, FirstOfItsKind DEF IsFirst
  <2>2. m \in Information(f) <=> b < m /\ m < NextOf(f, b, {"EndInformation"})
    BY <2>1 DEF Information
  <2>3. ASSUME b < m
        PROVE  m < NextOf(f, b, {"EndInformation"}) <=> \A j \in b..m : f[j].kind # "EndInformation"
    <3>1. b \in Nat /\ b <= m /\ \A j \in b..m : j \in 1..Len(f)
      BY <2>1, <2>3
    <3>2. m < NextOf(f, b, {"EndInformation"})
            <=> \A j \in b..m : j \in 1..Len(f) => f[j].kind \notin {"EndInformation"}
      BY <3>1, InFrontOfNext
    <3>. QED
      BY <3>1, <3>2
  <2>. QED
    BY <2>2, <2>3
<1>2. CASE Has(f, "BeginInformation")
  <2>1. PICK b : IsFirst(f, b, "BeginInformation")
    BY <1>2, FirstOfItsKind
  <2>2. ASSUME NEW q, IsFirst(f, q, "BeginInformation") PROVE q = b
    BY <2>1, <2>2, FirstIsOne
  <2>3. b < m <=> b \in 1..(m - 1)
    BY <2>1 DEF IsFirst
  <2>. QED
    BY <1>1, <2>1, <2>2, <2>3
<1>3. CASE ~Has(f, "BeginInformation")
  BY <1>3, FirstOfItsKind DEF Information
<1>. QED
  BY <1>2, <1>3
-----------------------------------------------------------------------------
(* The values a [Reference] list has on one line, and on the lines up to one. *)
OnLine(f, i) == [c \in 1..Len(f[i].v) |-> <<i, c>>]
ListedOn(f, i) == IF i \in Listed(f) THEN OnLine(f, i) ELSE <<>>
Collected(f) ==
    CHOOSE upTo : upTo = [i \in 0..Len(f) |-> IF i = 0 THEN <<>>
                                              ELSE upTo[i - 1] \o ListedOn(f, i)]

LEMMA OnLineIsTyped ==
    ASSUME NEW f \in Seq(Lines), NEW i \in 1..Len(f)
    PROVE  OnLine(f, i) \in Seq(AllPlaces) /\ Len(OnLine(f, i)) = Len(f[i].v)
<1>1. f[i] \in Lines /\ i \in Nat
  BY ElementOfSeq
<1>2. PICK len \in Nat : len = Len(f[i].v)
  BY <1>1 DEF Lines
<1>3. OnLine(f, i) = [c \in 1..len |-> <<i, c>>]
  BY <1>2 DEF OnLine
<1>. QED
  BY <1>1, <1>2, <1>3 DEF AllPlaces

(* The list is collected line by line, and is all collected at the end.      *)
LEMMA ListAddsUp ==
    ASSUME NEW f \in Seq(Lines)
    PROVE  /\ Collected(f)[0] = <<>>
           /\ \A i \in 1..Len(f) : Collected(f)[i] = Collected(f)[i - 1] \o ListedOn(f, i)
           /\ \A i \in 0..Len(f) : Collected(f)[i] \in Seq(AllPlaces)
           /\ Len(f) # 0 => ReferenceValues(f) = Collected(f)[Len(f)]
<1>1. PICK last \in Nat : last = Len(f)
  OBVIOUS
<1> DEFINE part == [i \in 1..last |-> ListedOn(f, i)]
           step == [i \in 1..last |-> [x \in Seq(AllPlaces) |-> x \o part[i]]]
<1>2. part \in [1..last -> Seq(AllPlaces)] /\ \A i \in 1..last : part[i] = ListedOn(f, i)
  <2>1. ASSUME NEW i \in 1..last PROVE ListedOn(f, i) \in Seq(AllPlaces)
    <3>1. OnLine(f, i) \in Seq(AllPlaces) /\ <<>> \in Seq(AllPlaces)
      BY <1>1, OnLineIsTyped
    <3>. QED
      BY <3>1 DEF ListedOn
  <2>. QED
    BY <2>1
<1> HIDE DEF part
<1>3. step \in [1..last -> [Seq(AllPlaces) -> Seq(AllPlaces)]] /\ <<>> \in Seq(AllPlaces)
  BY <1>2, ConcatProperties
<1>4. PICK g \in [0..last -> Seq(AllPlaces)] :
         g[0] = <<>> /\ \A i \in 1..last : g[i] = step[i][g[i - 1]]
  <2> HIDE DEF step
  <2>1. IsDefined(last, Seq(AllPlaces), <<>>, step)
    BY <1>3, RecursionDefines
  <2>. QED
    BY <2>1 DEF IsDefined
<1>5. \A i \in 1..last : g[i] = g[i - 1] \o part[i]
  <2>1. SUFFICES ASSUME NEW i \in 1..last PROVE g[i] = g[i - 1] \o part[i]
    OBVIOUS
  <2>2. \A x \in Seq(AllPlaces) : step[i][x] = x \o part[i]
    OBVIOUS
  <2> HIDE DEF step
  <2>3. g[i - 1] \in Seq(AllPlaces)
    OBVIOUS
  <2>. QED
    BY <1>4, <2>2, <2>3
<1> HIDE DEF step
<1> DEFINE Rec(h) == h = [i \in 0..last |-> IF i = 0 THEN <<>> ELSE h[i - 1] \o ListedOn(f, i)]
<1>6. Rec(g)
  <2>1. \A i \in 0..last : i # 0 => i \in 1..last
    OBVIOUS
  <2>2. \A i \in 0..last : g[i] = IF i = 0 THEN <<>> ELSE g[i - 1] \o ListedOn(f, i)
    BY <1>2, <1>4, <1>5, <2>1, Zenon
  <2>3. g = [i \in 0..last |-> g[i]]
    OBVIOUS
  <2>. QED
    BY <2>2, <2>3
<1>7. PICK h : h = Collected(f)
  OBVIOUS
<1>8. Rec(h)
  <2>1. h = CHOOSE upTo : Rec(upTo)
    BY <1>1, <1>7 DEF Collected
  <2> HIDE DEF Rec
  <2>. QED
    BY <1>6, <2>1
<1>9. h[0] = <<>> /\ \A i \in 1..last : h[i] = h[i - 1] \o ListedOn(f, i)
  <2>1. \A i \in 0..last : h[i] = IF i = 0 THEN <<>> ELSE h[i - 1] \o ListedOn(f, i)
    BY <1>8, Zenon
  <2>2. 0 \in 0..last /\ \A i \in 1..last : i \in 0..last /\ i # 0
    OBVIOUS
  <2>. QED
    BY <2>1, <2>2, Zenon
<1> HIDE DEF Rec
<1> DEFINE T == {i \in 0..last : h[i] \in Seq(AllPlaces)}
<1>10. 0 \in T
  <2>1. h[0] \in Seq(AllPlaces)
    BY <1>3, <1>9, Zenon
  <2>2. 0 \in 0..last
    OBVIOUS
  <2>. QED
    BY <2>1, <2>2, Zenon
<1>11. ASSUME NEW i \in 1..last, i - 1 \in T PROVE i \in T
  <2>1. h[i] = h[i - 1] \o part[i]
    BY <1>2, <1>9, Zenon
  <2>2. h[i - 1] \in Seq(AllPlaces)
    BY <1>11, Zenon
  <2>3. part[i] \in Seq(AllPlaces)
    BY <1>2
  <2>4. PICK a \in Seq(AllPlaces), b \in Seq(AllPlaces) : a = h[i - 1] /\ b = part[i]
    BY <2>2, <2>3
  <2>5. a \o b \in Seq(AllPlaces)
    BY ConcatProperties
  <2>6. h[i] \in Seq(AllPlaces)
    BY <2>1, <2>4, <2>5
  <2>7. i \in 0..last
    OBVIOUS
  <2>. QED
    BY <2>6, <2>7, Zenon
<1> HIDE DEF T
<1>12. \A i \in 0..last : i \in T
  BY <1>10, <1>11, StepByStep
<1>13. \A i \in 0..last : h[i] \in Seq(AllPlaces)
  BY <1>12 DEF T
<1>14. ASSUME last # 0 PROVE ReferenceValues(f) = h[last]
  <2>1. PICK seqs : seqs = part
    OBVIOUS
  <2>2. seqs \in Seq(Seq(AllPlaces)) /\ Len(seqs) = last
    BY <1>2, <2>1
  <2>3. \A i \in 1..last : seqs[i] \in Seq(AllPlaces)
    BY <1>2, <2>1
  <2>4. JoinsUp(h, last, seqs)
    BY <1>2, <1>9, <2>1 DEF JoinsUp
  <2>5. FlattenSeq(seqs) = h[last]
    BY <1>13, <1>14, <2>2, <2>3, <2>4, FlattenJoinsUp
  <2>6. seqs = [i \in 1..last |-> IF i \in Listed(f) THEN OnLine(f, i) ELSE <<>>]
    <3>1. \A i \in 1..last : seqs[i] = IF i \in Listed(f) THEN OnLine(f, i) ELSE <<>>
      BY <1>2, <2>1 DEF ListedOn
    <3>2. seqs = [i \in 1..last |-> seqs[i]]
      BY <1>2, <2>1
    <3>. QED
      BY <3>1, <3>2
  <2>7. ReferenceValues(f)
          = FlattenSeq([i \in 1..last |-> IF i \in Listed(f) THEN OnLine(f, i) ELSE <<>>])
    BY <1>1 DEF ReferenceValues, TokensOn, Listed, OnLine
  <2>. QED
    BY <2>5, <2>6, <2>7
<1>. QED
  BY <1>1, <1>7, <1>9, <1>13, <1>14
-----------------------------------------------------------------------------
(* What the scan of one line may do to what the header remembers of the      *)
(* lines above.                                                              *)
Watched == {"Reference", "BeginInformation"}

Claims(w) == /\ w \notin header.seen
             /\ \A v \in Watched : v \in header'.seen <=> v \in header.seen \/ v = w

ClaimsNothing == \A v \in Watched : v \in header'.seen <=> v \in header.seen

Keeps == list' = list /\ header'.options = header.options /\ header'.reference = header.reference

Passes ==
    /\ Keeps /\ ClaimsNothing
    /\ Line.kind \notin Watched
    /\ Line.kind = "data" => pc \in {"information"} \cup Sections
    /\ Line.kind = "option" => pc = "information" \/ header.options # 0
    /\ Line.kind = "EndInformation" => pc # "information"
    /\ \/ pc' = pc /\ pc \in {"header", "information"}
       \/ pc' = pc /\ pc = "reference" /\ Line.kind \notin Bracketed
       \/ pc = "header" /\ pc' = "plan" /\ Line.kind = "NetworkData"
       \/ pc \in Sections /\ pc' \in Behind

TakesOption ==
    /\ pc = "header" /\ pc' = "header" /\ Line.kind = "option"
    /\ header.options = 0 /\ header'.options = NextLine
    /\ header'.reference = header.reference /\ list' = list /\ ClaimsNothing

EndsList == \/ pc' = "header" /\ header'.reference = list' /\ list' # <<>>
            \/ pc' = "reference" /\ header'.reference = header.reference

OpensList ==
    /\ pc = "header" /\ Line.kind = "Reference" /\ Claims("Reference")
    /\ header'.options = header.options /\ list' = Places(NextLine) /\ EndsList

ExtendsList ==
    /\ pc = "reference" /\ Line.kind = "data" /\ ClaimsNothing
    /\ header'.options = header.options /\ list' = list \o Places(NextLine) /\ EndsList

OpensBlock ==
    /\ pc = "header" /\ pc' = "information"
    /\ Line.kind = "BeginInformation" /\ Claims("BeginInformation") /\ Keeps

ClosesBlock ==
    /\ pc = "information" /\ pc' = "header"
    /\ Line.kind = "EndInformation" /\ ClaimsNothing /\ Keeps

Scans == \/ Passes \/ TakesOption \/ OpensList \/ ExtendsList \/ OpensBlock \/ ClosesBlock

TakesALine == pos < Len(file) /\ pos' = NextLine /\ Scans

(* The header loops do one of these with each line they do not refuse.       *)
LEMMA HeaderScans ==
    ASSUME ScanTypes, HeaderNext, pc' # "done"
    PROVE  TakesALine
<1> USE DEF headerVars
<1>1. header \in Headers /\ pos \in Nat
  BY DEF ScanTypes
<1>2. ASSUME NEW loop, NEW kinds, Takes(loop, kinds)
      PROVE  pc = loop /\ pos < Len(file) /\ pos' = NextLine /\ Line.kind \in kinds
  BY <1>2 DEF Takes
<1>3. ASSUME NEW words, TakesKeyword(words)
      PROVE  /\ pc = "header" /\ pos < Len(file) /\ pos' = NextLine /\ Line.kind \in words
             /\ KeywordFault(Line.kind) = NoFault
  BY <1>2, <1>3 DEF TakesKeyword
<1>4. ASSUME UNCHANGED <<header, list>>
      PROVE  Keeps /\ ClaimsNothing
  BY <1>4 DEF Keeps, ClaimsNothing
<1>5. ASSUME header' = Claimed, Line.kind \in Keywords
      PROVE  /\ header'.options = header.options /\ header'.reference = header.reference
             /\ header'.seen = header.seen \cup {Line.kind}
  BY <1>1, <1>5 DEF Claimed, Headers
<1>6. ASSUME KeywordFault(Line.kind) = NoFault, Line.kind \in Watched
      PROVE  Line.kind \notin header.seen
  <2>1. ClaimFault(Line.kind) = NoFault
    BY <1>6 DEF KeywordFault, Watched, NoFault
  <2>. QED
    BY <2>1 DEF ClaimFault, NoFault
<1>7. CASE SkipHeaderLine
  <2>1. Takes("header", Empty) /\ UNCHANGED <<pc, list>>
    BY <1>7 DEF SkipHeaderLine
  <2>2. /\ header'.options = header.options /\ header'.reference = header.reference
        /\ header'.seen = header.seen
    BY <1>1, <1>7 DEF SkipHeaderLine, Headers
  <2>. QED
    BY <1>2, <2>1, <2>2
       DEF TakesALine, Scans, Passes, Keeps, ClaimsNothing, Watched, Empty
<1>8. CASE TakeOptionLine
  <2>1. Takes("header", {"option"}) /\ UNCHANGED <<pc, list>> /\ header.options = 0
    BY <1>8 DEF TakeOptionLine
  <2>2. /\ header'.options = NextLine /\ header'.reference = header.reference
        /\ header'.seen = header.seen
    BY <1>1, <1>8 DEF TakeOptionLine, Headers
  <2>. QED
    BY <1>2, <2>1, <2>2 DEF TakesALine, Scans, TakesOption, ClaimsNothing
<1>9. CASE IgnoreOptionLine
  <2>1. Takes("header", {"option"}) /\ UNCHANGED <<pc, list, header>> /\ header.options # 0
    BY <1>9 DEF IgnoreOptionLine
  <2>. QED
    BY <1>2, <1>4, <2>1 DEF TakesALine, Scans, Passes, Watched
<1>10. CASE SkipReferenceLine
  <2>1. Takes("reference", Empty) /\ UNCHANGED <<pc, list, header>>
    BY <1>10 DEF SkipReferenceLine
  <2>. QED
    BY <1>2, <1>4, <2>1
       DEF TakesALine, Scans, Passes, Watched, Empty, Bracketed, Keywords
<1>11. CASE SkipInformationLine
  <2>1. Takes("information", Kinds \ Bracketed) /\ UNCHANGED <<pc, list, header>>
    BY <1>11 DEF SkipInformationLine
  <2>. QED
    BY <1>2, <1>4, <2>1 DEF TakesALine, Scans, Passes, Watched, Bracketed, Keywords
<1>12. CASE EndInformation
  <2>1. Takes("information", {"EndInformation"}) /\ pc' = "header" /\ UNCHANGED <<list, header>>
    BY <1>12 DEF EndInformation
  <2>. QED
    BY <1>2, <1>4, <2>1 DEF TakesALine, Scans, ClosesBlock
<1>13. CASE BeginInformation
  <2>1. /\ TakesKeyword({"BeginInformation"}) /\ pc' = "information"
        /\ header' = Claimed /\ UNCHANGED list
    BY <1>13 DEF BeginInformation
  <2>2. /\ pc = "header" /\ pos < Len(file) /\ pos' = NextLine
        /\ Line.kind = "BeginInformation" /\ KeywordFault(Line.kind) = NoFault
    BY <1>3, <2>1
  <2>3. /\ Line.kind \notin header.seen /\ header'.options = header.options
        /\ header'.reference = header.reference /\ header'.seen = header.seen \cup {Line.kind}
    BY <1>5, <1>6, <2>1, <2>2 DEF Watched, Keywords
  <2>. QED
    BY <2>1, <2>2, <2>3 DEF TakesALine, Scans, OpensBlock, Claims, Keeps
<1>14. CASE TakeNetworkData
  <2>1. /\ TakesKeyword({"NetworkData"}) /\ pc' = "plan"
        /\ header' = Claimed /\ UNCHANGED list
    BY <1>14 DEF TakeNetworkData
  <2>2. /\ pc = "header" /\ pos < Len(file) /\ pos' = NextLine /\ Line.kind = "NetworkData"
    BY <1>3, <2>1
  <2>3. /\ header'.options = header.options
        /\ header'.reference = header.reference /\ header'.seen = header.seen \cup {Line.kind}
    BY <1>5, <2>1, <2>2 DEF Keywords
  <2>. QED
    BY <2>1, <2>2, <2>3 DEF TakesALine, Scans, Passes, ClaimsNothing, Keeps, Watched
<1>15. CASE ApplyKeyword
  <2>1. /\ pc = "header" /\ pos < Len(file) /\ pos' = NextLine
        /\ Line.kind \in {"Version", "NumberOfPorts", "TwoPortDataOrder", "MatrixFormat"}
                         \cup Counts
        /\ header' = Applied(Line.kind) /\ UNCHANGED <<pc, list>>
    BY <1>3, <1>15 DEF ApplyKeyword
  <2>2. Line.kind \in Keywords \ (Watched \cup {"EndInformation", "NetworkData"})
    BY <2>1 DEF Keywords, Watched, Counts
  <2>3. /\ Claimed.options = header.options /\ Claimed.reference = header.reference
        /\ Claimed.seen = header.seen \cup {Line.kind}
        /\ DOMAIN Claimed = DOMAIN header
    BY <1>1 DEF Claimed, Headers
  <2>4. \/ header' = Claimed
        \/ header' = [Claimed EXCEPT !.nports = Line.count]
        \/ header' = [Claimed EXCEPT !.nfreqs = Line.count]
        \/ header' = [Claimed EXCEPT !.nnoise = Line.count, !.nnoiseAt = NextLine]
        \/ header' = [Claimed EXCEPT !.twoPortOrder = Line.arg]
        \/ header' = [Claimed EXCEPT !.matrixFormat = Line.arg]
    BY <2>1 DEF Applied, Counts
  <2>5. /\ header'.options = header.options /\ header'.reference = header.reference
        /\ header'.seen = header.seen \cup {Line.kind}
    BY <1>1, <2>3, <2>4 DEF Claimed, Headers
  <2>6. Line.kind # "data" /\ Line.kind # "option"
    BY <2>2 DEF Keywords
  <2>. QED
    BY <2>1, <2>2, <2>5, <2>6 DEF TakesALine, Scans, Passes, ClaimsNothing, Keeps
<1>16. CASE BeginReference
  <2>1. /\ pc = "header" /\ pos < Len(file) /\ pos' = NextLine
        /\ Line.kind = "Reference" /\ KeywordFault(Line.kind) = NoFault
        /\ list' = Places(NextLine)
    BY <1>3, <1>16 DEF BeginReference
  <2>2. Line.kind \notin header.seen
    BY <1>6, <2>1 DEF Watched
  <2>3. header.nports \in Nat \ {0}
    <3>1. ClaimFault("Reference") = NoFault
      BY <2>1 DEF KeywordFault, NoFault
    <3>2. header.nports # None /\ header.nports \in Counted
      BY <1>1, <3>1 DEF ClaimFault, NeedsPorts, NoFault, Headers
    <3>. QED
      BY <3>2 DEF Counted
  <2>4. /\ Claimed.options = header.options /\ Claimed.reference = header.reference
        /\ Claimed.seen = header.seen \cup {Line.kind}
    BY <1>1 DEF Claimed, Headers
  <2>5. CASE ListIsFull(list', header.nports)
    <3>1. header' = [Claimed EXCEPT !.reference = list'] /\ pc' = "header"
      BY <1>16, <2>5 DEF BeginReference
    <3>2. /\ header'.options = header.options /\ header'.reference = list'
          /\ header'.seen = header.seen \cup {Line.kind}
      BY <1>1, <2>4, <3>1 DEF Claimed, Headers
    <3>3. list' # <<>>
      BY <2>3, <2>5 DEF ListIsFull
    <3>. QED
      BY <2>1, <2>2, <3>1, <3>2, <3>3 DEF TakesALine, Scans, OpensList, EndsList, Claims
  <2>6. CASE ~ListIsFull(list', header.nports)
    <3>1. header' = Claimed /\ pc' = "reference"
      BY <1>16, <2>6 DEF BeginReference
    <3>. QED
      BY <2>1, <2>2, <2>4, <3>1 DEF TakesALine, Scans, OpensList, EndsList, Claims
  <2>. QED
    BY <2>5, <2>6
<1>17. CASE ExtendReference
  <2>1. /\ pc = "reference" /\ pos < Len(file) /\ pos' = NextLine /\ Line.kind = "data"
        /\ list' = list \o Places(NextLine)
    BY <1>2, <1>17 DEF ExtendReference
  <2>2. CASE ListIsFull(list', header.nports)
    <3>1. header' = [header EXCEPT !.reference = list'] /\ pc' = "header"
      BY <1>17, <2>2 DEF ExtendReference
    <3>2. /\ header'.options = header.options /\ header'.reference = list'
          /\ header'.seen = header.seen
      BY <1>1, <3>1 DEF Headers
    <3>3. list' # <<>>
      <4>1. Len(list) \in Nat /\ list \in Seq(AllPlaces) /\ Places(NextLine) \in Seq(AllPlaces)
        BY <2>1, PlacesAreTyped DEF ScanTypes
      <4>2. Len(Places(NextLine)) > 0
        <5>1. PICK len \in Nat : len = Len(Line.v) /\ len > 0
          BY <2>1, LineIsTyped
        <5>2. Places(NextLine) = [c \in 1..len |-> <<NextLine, c>>]
          BY <5>1 DEF Places, Line
        <5>. QED
          BY <5>1, <5>2
      <4>3. Len(list \o Places(NextLine)) = Len(list) + Len(Places(NextLine))
        BY <4>1, ConcatProperties
      <4>. QED
        BY <2>1, <4>1, <4>2, <4>3
    <3>. QED
      BY <2>1, <3>1, <3>2, <3>3 DEF TakesALine, Scans, ExtendsList, EndsList, ClaimsNothing
  <2>3. CASE ~ListIsFull(list', header.nports)
    <3>1. header' = header /\ pc' = "reference"
      BY <1>17, <2>1, <2>3 DEF ExtendReference
    <3>. QED
      BY <2>1, <3>1 DEF TakesALine, Scans, ExtendsList, EndsList, ClaimsNothing
  <2>. QED
    BY <2>2, <2>3
<1>18. ASSUME RejectOptionLine \/ RejectEarlyData \/ RejectKeyword \/ MissNetworkData
              \/ RejectReference \/ RejectInformation
       PROVE  FALSE
  BY <1>18
     DEF RejectOptionLine, RejectEarlyData, RejectKeyword, MissNetworkData, RejectReference,
         RejectInformation, FailHeader, Answer
<1>. QED
  BY <1>7, <1>8, <1>9, <1>10, <1>11, <1>12, <1>13, <1>14, <1>15, <1>16, <1>17, <1>18
     DEF HeaderNext
-----------------------------------------------------------------------------
(* What the header remembers is what the lines above say.                    *)
SeenInv == \A w \in Watched : w \in header.seen <=> \E i \in 1..pos : file[i].kind = w

(* A [Reference] list still open, and one another keyword has followed.      *)
ListIsOpen == \E r \in 1..pos : /\ IsFirst(file, r, "Reference")
                                /\ \A j \in (r + 1)..pos : file[j].kind \notin Bracketed

ListIsPast == \E i \in 1..pos : /\ file[i].kind \in Bracketed \ {"Reference"}
                                /\ \A j \in i..pos : file[j].kind # "Reference"

ListInv ==
    /\ Collected(file)[pos] = IF pc = "reference" THEN list ELSE header.reference
    /\ IF "Reference" \in header.seen THEN pc = "reference" \/ header.reference # <<>>
       ELSE pc # "reference" /\ header.reference = <<>>
    /\ pc = "reference" => ListIsOpen
    /\ pc \in {"information", "plan"} \cup Behind => ListIsPast

BlocksInv ==
    IF pc = "information"
    THEN \E b \in 1..pos : /\ IsFirst(file, b, "BeginInformation")
                           /\ \A j \in b..pos : file[j].kind # "EndInformation"
    ELSE \A b \in 1..pos : IsFirst(file, b, "BeginInformation")
                             => \E e \in b..pos : file[e].kind = "EndInformation"

OptionsInv ==
    IF header.options = 0
    THEN \A i \in 1..pos : i \notin Options(file)
    ELSE header.options \in Options(file) /\ \A i \in Options(file) : header.options <= i

(* The line taken.                                                           *)
LEMMA LineTaken ==
    ASSUME ScanTypes, TakesALine
    PROVE  /\ pos \in Nat /\ NextLine = pos + 1 /\ pos' = pos + 1 /\ pos + 1 \in 1..Len(file)
           /\ Line = file[pos + 1] /\ file \in Seq(Lines)
           /\ \A i \in 1..(pos + 1) : i \in 1..pos \/ i = pos + 1
           /\ \A i \in 1..pos : i \in 1..(pos + 1) /\ i \in 1..Len(file)
<1>1. pos \in Nat /\ Len(file) \in Nat /\ pos < Len(file) /\ file \in Seq(Lines)
  BY DEF ScanTypes, TakesALine
<1>. QED
  BY <1>1 DEF TakesALine, NextLine, Line

LEMMA SeenIsKept ==
    ASSUME ScanTypes, SeenInv, TakesALine, UNCHANGED file
    PROVE  SeenInv'
<1>1. \A w \in Watched : w \in header'.seen <=> w \in header.seen \/ Line.kind = w
  BY DEF TakesALine, Scans, Passes, TakesOption, OpensList, ExtendsList, OpensBlock,
         ClosesBlock, Claims, ClaimsNothing, Watched
<1>2. ASSUME NEW w
      PROVE  (\E i \in 1..(pos + 1) : file[i].kind = w)
               <=> (\E i \in 1..pos : file[i].kind = w) \/ Line.kind = w
  BY LineTaken
<1>. QED
  BY <1>1, <1>2, LineTaken DEF SeenInv

LEMMA NothingSeen ==
    ASSUME ScanTypes, SeenInv, TakesALine, NEW w \in Watched, w \notin header.seen, Line.kind = w
    PROVE  IsFirst(file, pos + 1, w)
<1>1. \A i \in 1..pos : file[i].kind # w
  BY DEF SeenInv
<1>2. (pos + 1) - 1 = pos
  BY LineTaken
<1>. QED
  BY <1>1, <1>2, LineTaken DEF IsFirst

(* Behind the list, no number belongs to it.                                 *)
LEMMA PastTheList ==
    ASSUME ScanTypes, TakesALine, ListIsPast, Line.kind = "data"
    PROVE  pos + 1 \notin Listed(file)
<1>1. SUFFICES ASSUME pos + 1 \in Listed(file) PROVE FALSE
  OBVIOUS
<1>2. PICK r \in 1..(pos + 1) : /\ IsFirst(file, r, "Reference")
                                /\ \A j \in (r + 1)..(pos + 1) : file[j].kind \notin Bracketed
  BY <1>1, LineTaken, ListedLines
<1>3. file[r].kind = "Reference" /\ r \in 1..pos
  BY <1>2, LineTaken DEF IsFirst
<1>4. PICK i \in 1..pos : /\ file[i].kind \in Bracketed \ {"Reference"}
                          /\ \A j \in i..pos : file[j].kind # "Reference"
  BY DEF ListIsPast
<1>5. ~(i <= r)
  BY <1>3, <1>4
<1>6. i \in (r + 1)..(pos + 1)
  BY <1>3, <1>4, <1>5, LineTaken
<1>. QED
  BY <1>2, <1>4, <1>6

LEMMA PastStaysPast ==
    ASSUME ScanTypes, TakesALine, UNCHANGED file, Line.kind # "Reference",
           ListIsPast \/ Line.kind \in Bracketed
    PROVE  ListIsPast'
<1>1. CASE Line.kind \in Bracketed
  <2>1. pos + 1 \in 1..(pos + 1) /\ \A j \in (pos + 1)..(pos + 1) : j = pos + 1
    BY LineTaken
  <2>. QED
    BY <1>1, <2>1, LineTaken DEF ListIsPast
<1>2. CASE ListIsPast
  <2>1. PICK i \in 1..pos : /\ file[i].kind \in Bracketed \ {"Reference"}
                            /\ \A j \in i..pos : file[j].kind # "Reference"
    BY <1>2 DEF ListIsPast
  <2>2. \A j \in i..(pos + 1) : j \in i..pos \/ j = pos + 1
    BY <2>1, LineTaken
  <2>3. \A j \in i..(pos + 1) : file[j].kind # "Reference"
    BY <2>1, <2>2, LineTaken
  <2>4. i \in 1..(pos + 1)
    BY LineTaken
  <2>. QED
    BY <2>1, <2>3, <2>4, LineTaken DEF ListIsPast
<1>. QED
  BY <1>1, <1>2

LEMMA OpenStaysOpen ==
    ASSUME ScanTypes, TakesALine, UNCHANGED file, ListIsOpen, Line.kind \notin Bracketed
    PROVE  ListIsOpen' /\ (Line.kind = "data" => pos + 1 \in Listed(file))
<1>1. PICK r \in 1..pos : /\ IsFirst(file, r, "Reference")
                          /\ \A j \in (r + 1)..pos : file[j].kind \notin Bracketed
  BY DEF ListIsOpen
<1>2. \A j \in (r + 1)..(pos + 1) : j \in (r + 1)..pos \/ j = pos + 1
  BY <1>1, LineTaken
<1>3. \A j \in (r + 1)..(pos + 1) : file[j].kind \notin Bracketed
  BY <1>1, <1>2, LineTaken
<1>4. r \in 1..(pos + 1)
  BY <1>1, LineTaken
<1>5. ListIsOpen'
  BY <1>1, <1>3, <1>4, LineTaken DEF ListIsOpen
<1>6. Line.kind = "data" => pos + 1 \in Listed(file)
  BY <1>1, <1>3, <1>4, LineTaken, ListedLines
<1>. QED
  BY <1>5, <1>6

(* The list is collected as far as the scan has come: one step per thing a   *)
(* line may do.                                                              *)
LEMMA ListIsKept ==
    ASSUME ScanTypes, SeenInv, ListInv, TakesALine, UNCHANGED file
    PROVE  ListInv'
<1>1. /\ Collected(file)[pos + 1] = Collected(file)[pos] \o ListedOn(file, pos + 1)
      /\ Collected(file)[pos] \in Seq(AllPlaces)
  <2>1. pos + 1 \in 1..Len(file) /\ (pos + 1) - 1 = pos /\ pos \in 0..Len(file)
    BY LineTaken
  <2>. QED
    BY <2>1, LineTaken, ListAddsUp
<1>2. pos + 1 \notin Listed(file) => Collected(file)[pos + 1] = Collected(file)[pos]
  BY <1>1, ConcatEmptySeq DEF ListedOn
<1>3. pos + 1 \in Listed(file)
        => /\ Collected(file)[pos + 1] = Collected(file)[pos] \o Places(NextLine)
           /\ Places(NextLine) \in Seq(AllPlaces)
  <2>1. OnLine(file, pos + 1) = Places(NextLine)
    BY LineTaken DEF OnLine, Places
  <2>2. OnLine(file, pos + 1) \in Seq(AllPlaces)
    BY LineTaken, OnLineIsTyped
  <2>. QED
    BY <1>1, <2>1, <2>2 DEF ListedOn
<1>4. Line.kind \notin {"Reference", "data"} => pos + 1 \notin Listed(file)
  BY LineTaken, ListedLines
<1>5. ASSUME Keeps \/ TakesOption, ClaimsNothing \/ OpensBlock,
             pos + 1 \notin Listed(file), pc' = "reference" <=> pc = "reference"
      PROVE  /\ Collected(file)[pos + 1] = IF pc' = "reference" THEN list' ELSE header'.reference
             /\ IF "Reference" \in header'.seen THEN pc' = "reference" \/ header'.reference # <<>>
                ELSE pc' # "reference" /\ header'.reference = <<>>
  <2>1. header'.reference = header.reference /\ list' = list
    BY <1>5 DEF Keeps, TakesOption
  <2>2. "Reference" \in header'.seen <=> "Reference" \in header.seen
    BY <1>5 DEF ClaimsNothing, OpensBlock, Claims, Watched
  <2>. QED
    BY <1>2, <1>5, <2>1, <2>2 DEF ListInv
<1>6. CASE Passes
  <2>1. pos + 1 \notin Listed(file)
    <3>1. CASE Line.kind = "data"
      BY <1>6, <3>1, PastTheList DEF Passes, ListInv, Behind
    <3>2. CASE Line.kind # "data"
      BY <1>4, <1>6, <3>2 DEF Passes, Watched
    <3>. QED
      BY <3>1, <3>2
  <2>2. pc' = "reference" <=> pc = "reference"
    BY <1>6 DEF Passes, Behind, Sections
  <2>3. Keeps /\ ClaimsNothing
    BY <1>6 DEF Passes
  <2>4. pc' = "reference" => ListIsOpen'
    BY <1>6, <2>2, OpenStaysOpen DEF Passes, ListInv, Sections
  <2>5. pc' \in {"information", "plan"} \cup Behind => ListIsPast'
    <3>1. Line.kind # "Reference"
      BY <1>6 DEF Passes, Watched
    <3>2. pc' \in {"information", "plan"} \cup Behind => ListIsPast \/ Line.kind \in Bracketed
      BY <1>6 DEF Passes, ListInv, Behind, Sections, Bracketed, Keywords
    <3>. QED
      BY <3>1, <3>2, PastStaysPast
  <2>. QED
    BY <1>5, <2>1, <2>2, <2>3, <2>4, <2>5, LineTaken DEF ListInv
<1>7. CASE TakesOption \/ OpensBlock \/ ClosesBlock
  <2>1. /\ Line.kind \notin {"Reference", "data"} /\ pc # "reference" /\ pc' # "reference"
        /\ Keeps \/ TakesOption
        /\ ClaimsNothing \/ OpensBlock
        /\ OpensBlock => Line.kind \in Bracketed
        /\ pc' \in {"header", "information"} /\ (pc' = "information" => OpensBlock)
    BY <1>7 DEF TakesOption, OpensBlock, ClosesBlock, Bracketed, Keywords
  <2>2. pc' \in {"information", "plan"} \cup Behind => ListIsPast'
    BY <2>1, PastStaysPast DEF Behind, Sections
  <2>. QED
    BY <1>4, <1>5, <2>1, <2>2, LineTaken DEF ListInv
<1>8. ASSUME EndsList, Collected(file)[pos + 1] = list', "Reference" \in header'.seen,
             ListIsOpen'
      PROVE  ListInv'
  BY <1>8, LineTaken DEF EndsList, ListInv, Behind, Sections
<1>9. CASE OpensList
  <2>1. /\ pc = "header" /\ "Reference" \notin header.seen /\ Line.kind = "Reference"
        /\ "Reference" \in header'.seen /\ list' = Places(NextLine) /\ EndsList
    BY <1>9 DEF OpensList, Claims, Watched
  <2>2. IsFirst(file, pos + 1, "Reference")
    BY <2>1, NothingSeen DEF Watched
  <2>3. pos + 1 \in 1..(pos + 1) /\ \A j \in ((pos + 1) + 1)..(pos + 1) : FALSE
    BY LineTaken
  <2>4. pos + 1 \in Listed(file)
    BY <2>1, <2>2, <2>3, LineTaken, ListedLines
  <2>5. ListIsOpen'
    BY <2>2, <2>3, LineTaken DEF ListIsOpen
  <2>6. Collected(file)[pos] = <<>>
    BY <2>1 DEF ListInv
  <2>7. Collected(file)[pos + 1] = list'
    BY <1>3, <2>1, <2>4, <2>6, ConcatEmptySeq
  <2>. QED
    BY <1>8, <2>1, <2>5, <2>7
<1>10. CASE ExtendsList
  <2>1. /\ pc = "reference" /\ Line.kind = "data" /\ "Reference" \in header.seen
        /\ "Reference" \in header'.seen /\ list' = list \o Places(NextLine) /\ EndsList
        /\ ListIsOpen
    BY <1>10 DEF ExtendsList, ClaimsNothing, Watched, ListInv
  <2>2. ListIsOpen' /\ pos + 1 \in Listed(file)
    BY <2>1, OpenStaysOpen DEF Bracketed, Keywords
  <2>3. Collected(file)[pos + 1] = list'
    BY <1>3, <2>1, <2>2 DEF ListInv
  <2>. QED
    BY <1>8, <2>1, <2>2, <2>3
<1>. QED
  BY <1>6, <1>7, <1>9, <1>10 DEF TakesALine, Scans
-----------------------------------------------------------------------------
(* An information block once opened is open until its end.                   *)
LEMMA BlocksAreKept ==
    ASSUME ScanTypes, SeenInv, BlocksInv, TakesALine, UNCHANGED file
    PROVE  BlocksInv'
<1>1. CASE OpensBlock
  <2>1. /\ "BeginInformation" \notin header.seen /\ Line.kind = "BeginInformation"
        /\ pc' = "information"
    BY <1>1 DEF OpensBlock, Claims
  <2>2. IsFirst(file, pos + 1, "BeginInformation")
    BY <2>1, NothingSeen DEF Watched
  <2>3. pos + 1 \in 1..(pos + 1) /\ \A j \in (pos + 1)..(pos + 1) : j = pos + 1
    BY LineTaken
  <2>4. \A j \in (pos + 1)..(pos + 1) : file[j].kind # "EndInformation"
    BY <2>1, <2>3, LineTaken
  <2>. QED
    BY <2>1, <2>2, <2>3, <2>4, LineTaken DEF BlocksInv
<1>2. CASE ClosesBlock
  <2>1. Line.kind = "EndInformation" /\ pc' = "header"
    BY <1>2 DEF ClosesBlock
  <2>2. \A b \in 1..(pos + 1) : pos + 1 \in b..(pos + 1)
    BY LineTaken
  <2>. QED
    BY <2>1, <2>2, LineTaken DEF BlocksInv
<1>3. CASE Passes /\ pc = "information"
  <2>1. pc' = "information" /\ Line.kind # "EndInformation"
    BY <1>3 DEF Passes, Sections
  <2>2. PICK b \in 1..pos : /\ IsFirst(file, b, "BeginInformation")
                            /\ \A j \in b..pos : file[j].kind # "EndInformation"
    BY <1>3 DEF BlocksInv
  <2>3. \A j \in b..(pos + 1) : j \in b..pos \/ j = pos + 1
    BY LineTaken
  <2>4. \A j \in b..(pos + 1) : file[j].kind # "EndInformation"
    BY <2>1, <2>2, <2>3, LineTaken
  <2>5. b \in 1..(pos + 1)
    BY LineTaken
  <2>. QED
    BY <2>1, <2>2, <2>4, <2>5, LineTaken DEF BlocksInv
<1>4. CASE \/ Passes /\ pc # "information"
           \/ TakesOption \/ OpensList \/ ExtendsList
  <2>1. /\ Line.kind # "BeginInformation" /\ pc # "information" /\ pc' # "information"
    BY <1>4 DEF Passes, TakesOption, OpensList, ExtendsList, EndsList, Watched, Behind, Sections
  <2>2. ASSUME NEW b \in 1..(pos + 1), IsFirst(file, b, "BeginInformation")
        PROVE  \E e \in b..(pos + 1) : file[e].kind = "EndInformation"
    <3>1. b \in 1..pos
      BY <2>1, <2>2, LineTaken DEF IsFirst
    <3>2. PICK e \in b..pos : file[e].kind = "EndInformation"
      BY <2>1, <2>2, <3>1 DEF BlocksInv
    <3>3. e \in b..(pos + 1)
      BY <3>1, LineTaken
    <3>. QED
      BY <3>2, <3>3
  <2>. QED
    BY <2>1, <2>2, LineTaken DEF BlocksInv
<1>. QED
  BY <1>1, <1>2, <1>3, <1>4 DEF TakesALine, Scans

(* The option line in force is the file's first that is one.                 *)
LEMMA OptionsAreKept ==
    ASSUME ScanTypes, BlocksInv, OptionsInv, TakesALine, UNCHANGED file
    PROVE  OptionsInv'
<1>1. \A i \in Options(file) : i \in 1..Len(file)
  BY DEF Options, LinesOf
<1>2. pos + 1 \in Options(file)
        <=> Line.kind = "option" /\ pos + 1 \notin Information(file)
  BY LineTaken DEF Options, LinesOf
<1>3. CASE TakesOption
  <2>1. pc = "header" /\ Line.kind = "option" /\ header.options = 0 /\ header'.options = NextLine
    BY <1>3 DEF TakesOption
  <2>2. pos + 1 \notin Information(file)
    <3>1. SUFFICES ASSUME pos + 1 \in Information(file) PROVE FALSE
      OBVIOUS
    <3>2. (pos + 1) - 1 = pos
      BY LineTaken
    <3>3. PICK b \in 1..pos : /\ IsFirst(file, b, "BeginInformation")
                              /\ \A j \in b..(pos + 1) : file[j].kind # "EndInformation"
      BY <3>1, <3>2, LineTaken, InformationLines
    <3>4. PICK e \in b..pos : file[e].kind = "EndInformation"
      BY <2>1, <3>3 DEF BlocksInv
    <3>5. e \in b..(pos + 1)
      BY LineTaken
    <3>. QED
      BY <3>3, <3>4, <3>5
  <2>3. pos + 1 \in Options(file)
    BY <1>2, <2>1, <2>2
  <2>4. ASSUME NEW i \in Options(file) PROVE pos + 1 <= i
    <3>1. i \in 1..Len(file) /\ i \notin 1..pos
      BY <1>1, <2>1 DEF OptionsInv
    <3>. QED
      BY <3>1, LineTaken
  <2>. QED
    BY <2>1, <2>3, <2>4, LineTaken DEF OptionsInv
<1>4. CASE Passes \/ OpensList \/ ExtendsList \/ OpensBlock \/ ClosesBlock
  <2>1. header'.options = header.options
    BY <1>4 DEF Passes, OpensList, ExtendsList, OpensBlock, ClosesBlock, Keeps
  <2>2. ASSUME header.options = 0 PROVE pos + 1 \notin Options(file)
    <3>1. Line.kind = "option" => pc = "information"
      BY <1>4, <2>2 DEF Passes, OpensList, ExtendsList, OpensBlock, ClosesBlock
    <3>2. ASSUME Line.kind = "option" PROVE pos + 1 \in Information(file)
      <4>1. PICK b \in 1..pos : /\ IsFirst(file, b, "BeginInformation")
                                /\ \A j \in b..pos : file[j].kind # "EndInformation"
        BY <3>1, <3>2 DEF BlocksInv
      <4>2. \A j \in b..(pos + 1) : j \in b..pos \/ j = pos + 1
        BY LineTaken
      <4>3. \A j \in b..(pos + 1) : file[j].kind # "EndInformation"
        BY <3>2, <4>1, <4>2, LineTaken
      <4>4. b \in 1..((pos + 1) - 1)
        BY LineTaken
      <4>. QED
        BY <4>1, <4>3, <4>4, LineTaken, InformationLines
    <3>. QED
      BY <1>2, <3>2
  <2>3. CASE header.options = 0
    BY <2>1, <2>2, <2>3, LineTaken DEF OptionsInv
  <2>4. CASE header.options # 0
    BY <2>1, <2>4 DEF OptionsInv
  <2>. QED
    BY <2>3, <2>4
<1>. QED
  BY <1>3, <1>4 DEF TakesALine, Scans

(* Behind the header, a line is passed or the scan stays on it.              *)
Remains == pos' = pos /\ UNCHANGED <<header, list>> /\ pc \in {"plan", "tokens"} /\ pc' \in Behind

LEMMA SectionsScan ==
    ASSUME FreezePlan \/ TakeDataLine \/ PushToken \/ AddPoint \/ SkipSectionLine
             \/ BeginNoise \/ EndFile \/ AddNoisePoint
    PROVE  TakesALine \/ Remains
<1> USE DEF headerVars
<1>1. ASSUME NEW kinds, \E section \in Sections : Takes(section, kinds),
             kinds \subseteq Empty \cup {"data", "NoiseData", "End"},
             UNCHANGED <<header, list>>, pc' \in Behind
      PROVE  TakesALine
  <2>1. /\ pc \in Sections /\ pos < Len(file) /\ pos' = NextLine
        /\ Line.kind \in Empty \cup {"data", "NoiseData", "End"}
    BY <1>1 DEF Takes
  <2>2. Keeps /\ ClaimsNothing
    BY <1>1 DEF Keeps, ClaimsNothing
  <2>. QED
    BY <1>1, <2>1, <2>2 DEF TakesALine, Scans, Passes, Empty, Watched, Sections
<1>2. CASE FreezePlan \/ PushToken \/ AddPoint
  BY <1>2 DEF FreezePlan, PushToken, AddPoint, Advance, Remains, Behind, Sections
<1>3. CASE TakeDataLine
  <2>1. \E section \in Sections : Takes(section, {"data"})
    BY <1>3 DEF TakeDataLine, Sections
  <2>. QED
    BY <1>1, <1>3, <2>1 DEF TakeDataLine, Behind
<1>4. CASE SkipSectionLine
  <2>1. PICK section \in Sections : Takes(section, Empty)
    BY <1>4 DEF SkipSectionLine
  <2>2. pc' \in Behind
    BY <1>4, <2>1 DEF SkipSectionLine, Takes, Behind
  <2>. QED
    BY <1>1, <1>4, <2>1, <2>2 DEF SkipSectionLine
<1>5. CASE BeginNoise
  BY <1>1, <1>5 DEF BeginNoise, TakesSectionKeyword, Behind, Sections
<1>6. CASE EndFile
  BY <1>1, <1>6 DEF EndFile, TakesSectionKeyword, Behind, Sections
<1>7. CASE AddNoisePoint
  <2>1. Takes("noise", {"data"}) /\ pc' \in Behind /\ UNCHANGED <<header, list>>
    BY <1>7 DEF AddNoisePoint, Takes, Behind, Sections
  <2>. QED
    BY <1>1, <2>1 DEF Sections
<1>. QED
  BY <1>2, <1>3, <1>4, <1>5, <1>6, <1>7

(* Where the scan stays on a line, nothing above it changes.                 *)
LEMMA RemainingKeeps ==
    ASSUME SeenInv, ListInv, BlocksInv, OptionsInv, Remains, UNCHANGED file
    PROVE  SeenInv' /\ ListInv' /\ BlocksInv' /\ OptionsInv'
<1>1. SeenInv' /\ OptionsInv'
  BY DEF Remains, SeenInv, OptionsInv
<1>2. pc # "information" /\ pc' # "information" /\ pc # "reference" /\ pc' # "reference"
  BY DEF Remains, Behind, Sections
<1>3. BlocksInv'
  BY <1>2 DEF Remains, BlocksInv
<1>4. ListIsPast'
  BY DEF Remains, ListInv, ListIsPast, Behind
<1>5. ListInv'
  BY <1>2, <1>4 DEF Remains, ListInv
<1>. QED
  BY <1>1, <1>3, <1>5
-----------------------------------------------------------------------------
(* The value the file gives a port for its reference.                        *)
GivenFor(port) ==
    IF Has(file, "Reference") THEN ReferenceValues(file)[port]
    ELSE LET line == Min(Options(file))
         IN  <<line, IF Len(file[line].v) = 1 THEN 1 ELSE port>>

LEMMA PortIsGiven ==
    ASSUME IInv, BudgetInv, RestTyped, SeenInv, ListInv, OptionsInv,
           pc \in Sections, pos = Len(file), NEW port \in 1..n
    PROVE  PerPort[port] = GivenFor(port)
<1>1. /\ header.options # 0 /\ ReferenceHolds /\ n \in Nat \ {0}
      /\ file \in Seq(Lines) /\ Len(file) \in Nat
  BY DEF RestTyped, Behind, IInv, ControlInv, Frozen, ScanTypes, n
<1>2. /\ header.options \in 1..Len(file) /\ Resistances \in Seq(AllPlaces)
      /\ \A i \in 1..Len(Resistances) : Resistances[i] = <<header.options, i>>
  BY <1>1, ResistancesAreTyped DEF BudgetInv
<1>3. Has(file, "Reference") <=> "Reference" \in header.seen
  BY <1>1, FirstOfItsKind DEF SeenInv, Watched
<1>4. Collected(file)[Len(file)] = header.reference
  BY DEF ListInv, Sections
<1>5. CASE Has(file, "Reference")
  <2>1. header.reference # <<>>
    BY <1>3, <1>5 DEF ListInv, Sections
  <2>2. Len(file) # 0
    BY <1>2
  <2>3. ReferenceValues(file) = header.reference
    BY <1>1, <1>4, <2>2, ListAddsUp
  <2>. QED
    BY <1>5, <2>1, <2>3 DEF PerPort, GivenFor
<1>6. CASE ~Has(file, "Reference")
  <2>1. header.reference = <<>>
    BY <1>3, <1>6 DEF ListInv
  <2>2. Min(Options(file)) = header.options
    <3>1. Options(file) \subseteq Nat
      BY DEF Options, LinesOf
    <3>2. header.options \in Options(file) /\ \A i \in Options(file) : header.options <= i
      BY <1>1 DEF OptionsInv
    <3>. QED
      BY <3>1, <3>2, MinIsThat
  <2>3. PICK len \in Nat : len = Len(Resistances) /\ len = Len(file[header.options].v)
    <3>1. file[header.options] \in Lines
      BY <1>1, <1>2, ElementOfSeq
    <3>2. PICK len \in Nat : len = Len(file[header.options].v)
      BY <3>1 DEF Lines
    <3>3. Resistances = [c \in 1..len |-> <<header.options, c>>]
      BY <3>2 DEF Resistances, Places
    <3>. QED
      BY <3>2, <3>3
  <2>4. len = 1 \/ len = n
    BY <1>1, <2>1, <2>3 DEF ReferenceHolds
  <2>5. PICK i \in 1..len : i = IF len = 1 THEN 1 ELSE port
    BY <1>1, <2>4
  <2>6. PerPort[port] = Resistances[i]
    BY <2>1, <2>3, <2>5 DEF PerPort
  <2>7. Resistances[i] = <<header.options, i>>
    BY <1>2, <2>3
  <2>8. GivenFor(port) = <<header.options, i>>
    BY <1>6, <2>2, <2>3, <2>5 DEF GivenFor
  <2>. QED
    BY <2>6, <2>7, <2>8
<1>. QED
  BY <1>5, <1>6

(* All points have the ports' references, each port its own.                 *)
LEMMA BroadcastGivesEveryPort ==
    ASSUME IInv, BudgetInv, RestTyped, SeenInv, ListInv, OptionsInv,
           pc \in Sections, pos = Len(file)
    PROVE  /\ Len(BroadcastReference) = Len(freqHz) * n
           /\ \A k \in 1..Len(freqHz), port \in 1..n :
                 BroadcastReference[(k - 1) * n + port] = GivenFor(port)
<1>1. PICK count \in Nat, ports \in Nat \ {0} : count = Len(freqHz) /\ ports = n
  BY PerPortIsTyped DEF BudgetInv, IInv, ScanTypes
<1>2. PICK all \in Nat : all = count * ports
  OBVIOUS
<1>3. BroadcastReference = [i \in 1..all |-> PerPort[((i - 1) % ports) + 1]]
  BY <1>1, <1>2 DEF BroadcastReference
<1>4. Len(BroadcastReference) = count * ports
  BY <1>2, <1>3
<1>5. ASSUME NEW k \in 1..count, NEW port \in 1..ports
      PROVE  BroadcastReference[(k - 1) * ports + port] = GivenFor(port)
  <2>1. k - 1 \in 0..(count - 1) /\ port - 1 \in 0..(ports - 1) /\ k - 1 \in Int
    OBVIOUS
  <2>2. PICK x \in 0..(all - 1) : x = (k - 1) * ports + (port - 1)
    BY <1>2, <2>1, OffsetIsInside
  <2>3. x % ports = port - 1
    BY <2>1, <2>2, OffsetNamesItsPlace
  <2>4. (k - 1) * ports + port = x + 1
    BY <2>2
  <2>5. x + 1 \in 1..all /\ (x + 1) - 1 = x
    OBVIOUS
  <2>6. BroadcastReference[x + 1] = PerPort[(((x + 1) - 1) % ports) + 1]
    BY <1>3, <2>5
  <2>7. (port - 1) + 1 = port
    OBVIOUS
  <2>8. BroadcastReference[x + 1] = PerPort[port]
    BY <2>3, <2>5, <2>6, <2>7
  <2>9. PerPort[port] = GivenFor(port)
    BY <1>1, PortIsGiven
  <2>. QED
    BY <2>4, <2>8, <2>9
<1>. QED
  BY <1>1, <1>4, <1>5

(* What the references rest on, and what they are.                           *)
ReferInv ==
    /\ pc # "done" => /\ outcome.kind # "network"
                      /\ SeenInv /\ ListInv /\ BlocksInv /\ OptionsInv
    /\ ReferencesEveryPort

LEMMA InitRefers == Init => ReferInv
<1>. SUFFICES ASSUME Init PROVE ReferInv
  OBVIOUS
<1>1. /\ pc = "header" /\ pos = 0 /\ outcome.kind = "reading" /\ file \in Seq(Lines)
      /\ header.seen = {} /\ header.reference = <<>> /\ header.options = 0
  BY FilesAssumption DEF Init, HeaderInit
<1>2. Collected(file)[0] = <<>>
  BY <1>1, ListAddsUp
<1>. QED
  BY <1>1, <1>2
     DEF ReferInv, SeenInv, ListInv, BlocksInv, OptionsInv, ReferencesEveryPort, Behind, Sections

(* Every step keeps it: a line is taken, the scan remains on one, an error   *)
(* is answered, or the end is reached.                                       *)
LEMMA StepRefers ==
    ASSUME IInv, BudgetInv, RestTyped, ReferInv, [Next]_vars
    PROVE  ReferInv'
<1>1. UNCHANGED file /\ ScanTypes
  BY HeaderSteps
     DEF IInv, ScanTypes, Next, ReadHeader, HeaderOutcome, FreezePlan, RejectPlan, TakeDataLine,
         PushToken, AddPoint, Advance, RejectToken, Fail, FailHeader, SkipSectionLine, BeginNoise,
         EndFile, RejectSectionKeyword, RejectContent, AddNoisePoint, RejectNoiseLine,
         ReachEnd, Done, vars, input
<1>2. ASSUME pc # "done", outcome'.kind # "network", pc' # "done" => TakesALine \/ Remains
      PROVE  ReferInv'
  <2>1. SeenInv /\ ListInv /\ BlocksInv /\ OptionsInv
    BY <1>2 DEF ReferInv
  <2>2. pc' # "done" => SeenInv' /\ ListInv' /\ BlocksInv' /\ OptionsInv'
    BY <1>1, <1>2, <2>1, SeenIsKept, ListIsKept, BlocksAreKept, OptionsAreKept, RemainingKeeps
  <2>3. ReferencesEveryPort'
    BY <1>2 DEF ReferencesEveryPort
  <2>. QED
    BY <1>2, <2>2, <2>3 DEF ReferInv
<1>3. ASSUME UNCHANGED <<pc, pos, header, list, outcome, freqHz, z0>>
      PROVE  ReferInv'
  <2>1. ReferencesEveryPort'
    BY <1>1, <1>3 DEF ReferInv, ReferencesEveryPort, n
  <2>2. SeenInv => SeenInv'
    BY <1>1, <1>3 DEF SeenInv
  <2>3. ListInv => ListInv'
    BY <1>1, <1>3 DEF ListInv, ListIsOpen, ListIsPast
  <2>4. BlocksInv => BlocksInv'
    BY <1>1, <1>3 DEF BlocksInv
  <2>5. OptionsInv => OptionsInv'
    BY <1>1, <1>3 DEF OptionsInv
  <2>. QED
    BY <1>3, <2>1, <2>2, <2>3, <2>4, <2>5 DEF ReferInv
<1>4. CASE ReadHeader
  <2>1. HeaderNext /\ HeaderOutcome
    BY <1>4, HeaderSteps DEF IInv, ReadHeader
  <2>2. pc # "done" /\ (pc' = "done" => outcome'.kind # "network")
    BY <2>1 DEF HeaderOutcome, HeaderLoops
  <2>3. pc' # "done" => TakesALine
    BY <1>1, <2>1, HeaderScans
  <2>4. pc' # "done" => UNCHANGED outcome
    BY <2>1
       DEF HeaderNext, SkipHeaderLine, TakeOptionLine, IgnoreOptionLine, ApplyKeyword,
           TakeNetworkData, BeginReference, SkipReferenceLine, ExtendReference,
           BeginInformation, SkipInformationLine, EndInformation, RejectOptionLine,
           RejectEarlyData, RejectKeyword, MissNetworkData, RejectReference,
           RejectInformation, FailHeader, Answer
  <2>5. outcome'.kind # "network"
    BY <2>2, <2>4 DEF ReferInv
  <2>. QED
    BY <1>2, <2>2, <2>3, <2>5
<1>5. CASE FreezePlan \/ TakeDataLine \/ PushToken \/ AddPoint \/ SkipSectionLine
             \/ BeginNoise \/ EndFile \/ AddNoisePoint
  <2>1. UNCHANGED outcome /\ pc # "done"
    BY <1>5
       DEF FreezePlan, TakeDataLine, PushToken, AddPoint, Advance, SkipSectionLine,
           BeginNoise, EndFile, AddNoisePoint, TakesSectionKeyword, Takes, Sections
  <2>2. TakesALine \/ Remains
    BY <1>5, SectionsScan
  <2>. QED
    BY <1>2, <2>1, <2>2 DEF ReferInv
<1>6. CASE RejectPlan \/ RejectToken \/ RejectSectionKeyword \/ RejectContent
             \/ RejectNoiseLine \/ (ReachEnd /\ Fail(EndFault, EndFaultLine) /\ EndFault # NoFault)
  <2>1. \E kind, line : Fail(kind, line)
    BY <1>6 DEF RejectPlan, RejectToken, RejectSectionKeyword, RejectContent, RejectNoiseLine
  <2>2. pc' = "done" /\ pc # "done"
    BY <1>6, <2>1
       DEF Fail, FailHeader, Answer, RejectPlan, RejectToken, RejectSectionKeyword,
           RejectContent, RejectNoiseLine, ReachEnd, RunsOut, Takes, Sections
  <2>3. AnswerTyped' /\ outcome'.kind # "network"
    BY <1>6, SectionAnswers DEF ReferInv
  <2>. QED
    BY <1>2, <2>2, <2>3
<1>7. CASE ReachEnd /\ EndFault = NoFault /\ ~Fail(EndFault, EndFaultLine)
  <2>1. /\ z0' = BroadcastReference /\ pc' = "done" /\ pc \in Sections /\ pos = Len(file)
        /\ UNCHANGED <<header, freqHz>>
    BY <1>7 DEF ReachEnd, RunsOut, Answer, headerVars, points
  <2>2. SeenInv /\ ListInv /\ OptionsInv
    BY <2>1 DEF ReferInv, Sections
  <2>3. /\ Len(BroadcastReference) = Len(freqHz) * n
        /\ \A k \in 1..Len(freqHz), port \in 1..n :
              BroadcastReference[(k - 1) * n + port] = GivenFor(port)
    BY <2>1, <2>2, BroadcastGivesEveryPort
  <2>4. ReferencesEveryPort'
    <3>1. PICK z : z = BroadcastReference
      OBVIOUS
    <3>2. z0' = z /\ Len(z) = Len(freqHz) * n
      BY <2>1, <2>3, <3>1
    <3>3. \A k \in 1..Len(freqHz), port \in 1..n : z[(k - 1) * n + port] = GivenFor(port)
      BY <2>3, <3>1
    <3>. QED
      BY <1>1, <2>1, <3>2, <3>3 DEF ReferencesEveryPort, GivenFor, n
  <2>. QED
    BY <2>1, <2>4 DEF ReferInv
<1>8. CASE Done \/ UNCHANGED vars
  BY <1>3, <1>8 DEF Done, vars, headerVars, dataVars, points, rows
<1>9. ReachEnd => \/ Fail(EndFault, EndFaultLine) /\ EndFault # NoFault
                  \/ EndFault = NoFault
  BY DEF ReachEnd
<1>10. Fail(EndFault, EndFaultLine) /\ EndFault = NoFault /\ ReachEnd => FALSE
  BY DEF ReachEnd, Fail, FailHeader, Answer, NoFault
<1>. QED
  BY <1>4, <1>5, <1>6, <1>7, <1>8, <1>9, <1>10 DEF Next

(* Each port of an accepted file has the reference the file names for it: the *)
(* [Reference] list's, wherever its lines break, or the option line's        *)
(* (read_reference, Header::finish, DataSets::new).                          *)
THEOREM EveryPortIsReferenced == Spec => []ReferencesEveryPort
<1>1. Init => ReferInv
  BY InitRefers
<1>2. IInv /\ BudgetInv /\ RestTyped /\ ReferInv /\ [Next]_vars => ReferInv'
  BY StepRefers
<1>3. ReferInv => ReferencesEveryPort
  BY DEF ReferInv
<1>. QED
  BY <1>1, <1>2, <1>3, Invariance, BudgetHolds, RestHolds, PTL DEF Spec
-----------------------------------------------------------------------------
(* Where a pair stands in the order of a format's rows: behind those of the  *)
(* rows above it.                                                            *)
InRow(k, ports, format, row, column) ==
    /\ column \in FirstColumn(format, row)..(FirstColumn(format, row)
                                              + Width(ports, format, row) - 1)
    /\ 2 * (k - (column - FirstColumn(format, row) + 1)) = Twice(ports, format, row - 1)

(* A pair of the order stands in its own row, at its own column.             *)
LEMMA RowsPlaceEveryPair ==
    ASSUME NEW ports \in Nat \ {0}, NEW format \in MatrixFormats \cup {"none"},
           NEW k \in 1..Len(FlattenSeq(RowsOf(ports, format))),
           NEW row \in 1..ports, NEW column \in 1..ports,
           FlattenSeq(RowsOf(ports, format))[k] = <<row, column>>
    PROVE  InRow(k, ports, format, row, column)
<1> DEFINE seqs == RowsOf(ports, format)
           flat == FlattenSeq(seqs)
           places == (1..ports) \X (1..ports)
<1>1. Len(seqs) = ports /\ \A i \in 1..ports : seqs[i] \in Seq(places)
  <2>1. Len(seqs) = ports
    BY DEF RowsOf
  <2>. QED
    BY <2>1, RowIsWritten
<1>2. flat \in Seq(places) /\ \E start \in [0..ports -> Nat] : LaidOut(seqs, start, flat)
  <2>1. PICK q : q = seqs
    OBVIOUS
  <2>2. \A S : (\A i \in 1..ports : q[i] \in Seq(S))
               => /\ FlattenSeq(q) \in Seq(S)
                  /\ \E start \in [0..ports -> Nat] : LaidOut(q, start, FlattenSeq(q))
    BY <1>1, <2>1, FlattenLaysOut
  <2>. QED
    BY <1>1, <2>1, <2>2
<1>3. PICK start \in [0..ports -> Nat] : LaidOut(seqs, start, flat)
  BY <1>2
<1>4. \A i \in 1..ports : /\ Len(seqs[i]) = Width(ports, format, i)
                          /\ IsWritten(seqs[i], i, FirstColumn(format, i), Width(ports, format, i))
                          /\ Width(ports, format, i) \in Nat
                          /\ FirstColumn(format, i) \in Nat
  BY RowIsWritten
<1>0. k \in 1..Len(flat) /\ flat[k] = <<row, column>>
  OBVIOUS
<1> HIDE DEF seqs, flat
<1>5. /\ start[0] = 0 /\ Len(flat) = start[ports]
      /\ \A i \in 1..ports : start[i] = start[i - 1] + Width(ports, format, i)
      /\ \A i \in 1..ports : Holds(flat, start[i - 1], seqs[i])
  BY <1>1, <1>3, <1>4 DEF LaidOut
<1>6. PICK i \in 1..ports : start[i - 1] < k /\ k <= start[i]
  BY <1>0, <1>5, PlaceLiesInAPart
<1>7. PICK before \in Nat, width \in Nat, first \in Nat :
         /\ before = start[i - 1] /\ width = Width(ports, format, i)
         /\ first = FirstColumn(format, i)
  <2>1. i - 1 \in 0..ports
    OBVIOUS
  <2>. QED
    BY <1>4, <2>1
<1>8. k - before \in 1..width /\ before + (k - before) = k
  <2>1. start[i] = before + width /\ k \in Nat
    BY <1>5, <1>7
  <2>2. before < k /\ k <= before + width
    BY <1>6, <1>7, <2>1
  <2>. QED
    BY <2>1, <2>2
<1>9. flat[k] = seqs[i][k - before]
  <2>1. Holds(flat, before, seqs[i]) /\ Len(seqs[i]) = width
    BY <1>4, <1>5, <1>7
  <2>2. flat[before + (k - before)] = seqs[i][k - before]
    BY <1>8, <2>1 DEF Holds
  <2>. QED
    BY <1>8, <2>2
<1>10. seqs[i][k - before] = <<i, first + (k - before) - 1>>
  BY <1>4, <1>7, <1>8 DEF IsWritten
<1>11. row = i /\ column = first + (k - before) - 1
  BY <1>0, <1>9, <1>10
<1>12. 2 * before = Twice(ports, format, i - 1)
  <2>1. i - 1 \in 0..ports
    OBVIOUS
  <2>2. \A j \in 0..ports : 2 * start[j] = Twice(ports, format, j)
    BY <1>5, RowsStart
  <2>. QED
    BY <1>7, <2>1, <2>2
<1>13. column \in first..(first + width - 1) /\ k - (column - first + 1) = before
  BY <1>8, <1>11
<1>. QED
  BY <1>7, <1>11, <1>12, <1>13 DEF InRow

(* The number of the pair a file of this shape writes for an entry.          *)
NumberOf(ports, format, order, row, column) ==
    LET lower == Min({row, column})
        upper == Max({row, column})
    IN  CASE format = "Lower" -> (upper * (upper - 1)) \div 2 + lower
          [] format = "Upper" ->
                (lower - 1) * ports - ((lower - 1) * (lower - 2)) \div 2
                  + upper - lower + 1
          [] OTHER -> IF ports = 2 /\ order = "21_12" THEN (column - 1) * 2 + row
                      ELSE (row - 1) * ports + column

(* Of an entry and its mirror image, a format writes what NumberOf says.     *)
LEMMA InRowIsNumbered ==
    ASSUME NEW ports \in Nat \ {0}, NEW format \in MatrixFormats \cup {"none"}, NEW order,
           NEW k \in Nat, NEW row \in 1..ports, NEW column \in 1..ports,
           InRow(k, ports, format, row, column),
           ~(ports = 2 /\ format \in {"none", "Full"} /\ order = "21_12")
    PROVE  /\ k = NumberOf(ports, format, order, row, column)
           /\ format \notin {"none", "Full"} => k = NumberOf(ports, format, order, column, row)
<1>1. CASE format = "Lower"
  <2>1. column <= row /\ 2 * (k - column) = (row - 1) * (row - 1) + (row - 1)
    BY <1>1 DEF InRow, FirstColumn, Width, Twice
  <2>2. (row - 1) * (row - 1) + (row - 1) = row * (row - 1)
    OBVIOUS
  <2>3. PICK y \in Int : y = row * (row - 1)
    OBVIOUS
  <2>4. y \div 2 = k - column
    BY <2>1, <2>2, <2>3, HalfOfTwice
  <2>5. {row, column} = {column, row} /\ row \in Nat /\ column \in Nat
    OBVIOUS
  <2>6. Min({column, row}) = column /\ Max({column, row}) = row
    BY <2>1, <2>5, LesserAndGreater
  <2>7. /\ NumberOf(ports, format, order, row, column) = (row * (row - 1)) \div 2 + column
        /\ NumberOf(ports, format, order, column, row) = (row * (row - 1)) \div 2 + column
    BY <1>1, <2>5, <2>6 DEF NumberOf
  <2>8. (row * (row - 1)) \div 2 + column = k
    BY <2>3, <2>4
  <2>. QED
    BY <2>7, <2>8
<1>2. CASE format = "Upper"
  <2>1. PICK square \in Int, product \in Int :
           square = (row - 1) * (row - 1) /\ product = ports * (row - 1)
    OBVIOUS
  <2>2. row <= column /\ 2 * (k - (column - row + 1)) = 2 * product - square + (row - 1)
    BY <1>2, <2>1 DEF InRow, FirstColumn, Width, Twice
  <2>3. (row - 1) * (row - 2) = square - (row - 1)
    BY <2>1
  <2>4. PICK y \in Int : y = (row - 1) * (row - 2)
    OBVIOUS
  <2>5. 2 * (product - (k - (column - row + 1))) = y
    BY <2>2, <2>3, <2>4
  <2>6. y \div 2 = product - (k - (column - row + 1))
    BY <2>5, HalfOfTwice
  <2>7. {row, column} = {column, row} /\ row \in Nat /\ column \in Nat
    OBVIOUS
  <2>8. Min({row, column}) = row /\ Max({row, column}) = column
    BY <2>2, <2>7, LesserAndGreater
  <2>9. (row - 1) * ports = product
    BY <2>1
  <2>10. k = (row - 1) * ports - ((row - 1) * (row - 2)) \div 2 + column - row + 1
    BY <2>4, <2>6, <2>9
  <2>. QED
    BY <1>2, <2>7, <2>8, <2>10 DEF NumberOf
<1>3. CASE format \in {"none", "Full"}
  <2>1. PICK product \in Int : product = ports * (row - 1)
    OBVIOUS
  <2>2. 2 * (k - (column - 1 + 1)) = 2 * product
    BY <1>3, <2>1 DEF InRow, FirstColumn, Width, Twice
  <2>3. (row - 1) * ports = product
    BY <2>1
  <2>4. k = (row - 1) * ports + column
    BY <2>2, <2>3
  <2>5. format # "Lower" /\ format # "Upper"
    BY <1>3
  <2>. QED
    BY <1>3, <2>4, <2>5 DEF NumberOf
<1>. QED
  BY <1>1, <1>2, <1>3 DEF MatrixFormats

(* Every pair of a file of this shape has that number, its mirror image too. *)
IsNumbered(ports, format, order) ==
    \A k \in 1..Len(EntryOrder(ports, format, order)), row, column \in 1..ports :
       \/ EntryOrder(ports, format, order)[k] = <<row, column>>
       \/ /\ format \notin {"none", "Full"}
          /\ EntryOrder(ports, format, order)[k] = <<column, row>>
       => k = NumberOf(ports, format, order, row, column)

(* The order entry_order gives the pairs of a point numbers them so.         *)
LEMMA OrderIsNumbered ==
    ASSUME NEW ports \in Nat \ {0}, NEW format \in MatrixFormats \cup {"none"}, NEW order
    PROVE  IsNumbered(ports, format, order)
<1>. SUFFICES ASSUME NEW k \in 1..Len(EntryOrder(ports, format, order)),
                     NEW row \in 1..ports, NEW column \in 1..ports,
                     \/ EntryOrder(ports, format, order)[k] = <<row, column>>
                     \/ /\ format \notin {"none", "Full"}
                        /\ EntryOrder(ports, format, order)[k] = <<column, row>>
              PROVE  k = NumberOf(ports, format, order, row, column)
  BY DEF IsNumbered
<1>1. CASE ports = 2 /\ format \in {"none", "Full"} /\ order = "21_12"
  <2>1. PICK eo : eo = EntryOrder(ports, format, order)
    OBVIOUS
  <2>2. eo = <<<<1, 1>>, <<2, 1>>, <<1, 2>>, <<2, 2>>>>
    BY <1>1, <2>1 DEF EntryOrder
  <2>3. Len(eo) = 4 /\ k \in 1..4
    BY <2>1, <2>2
  <2>4. eo[1] = <<1, 1>> /\ eo[2] = <<2, 1>> /\ eo[3] = <<1, 2>> /\ eo[4] = <<2, 2>>
    BY <2>2
  <2>5. eo[k] = <<row, column>>
    BY <1>1, <2>1
  <2>6. k = (column - 1) * 2 + row
    <3>1. k = 1 \/ k = 2 \/ k = 3 \/ k = 4
      BY <2>3
    <3>. QED
      BY <2>4, <2>5, <3>1
  <2>7. format # "Lower" /\ format # "Upper"
    BY <1>1
  <2>. QED
    BY <1>1, <2>6, <2>7 DEF NumberOf
<1>2. CASE ~(ports = 2 /\ format \in {"none", "Full"} /\ order = "21_12")
  <2>1. EntryOrder(ports, format, order) = FlattenSeq(RowsOf(ports, format))
    BY <1>2 DEF EntryOrder, RowsOf
  <2>2. PICK flat : flat = FlattenSeq(RowsOf(ports, format))
    OBVIOUS
  <2>3. k \in 1..Len(flat) /\ k \in Nat
    BY <2>1, <2>2
  <2>4. CASE flat[k] = <<row, column>>
    <3>1. InRow(k, ports, format, row, column)
      BY <2>2, <2>3, <2>4, RowsPlaceEveryPair
    <3>. QED
      BY <1>2, <2>3, <3>1, InRowIsNumbered, SMTT(30)
  <2>5. CASE format \notin {"none", "Full"} /\ flat[k] = <<column, row>>
    <3>1. InRow(k, ports, format, column, row)
      BY <2>2, <2>3, <2>5, RowsPlaceEveryPair
    <3>2. /\ k = NumberOf(ports, format, order, column, row)
          /\ format \notin {"none", "Full"} => k = NumberOf(ports, format, order, row, column)
      BY <1>2, <2>3, <3>1, InRowIsNumbered, SMTT(30)
    <3>. QED
      BY <2>5, <3>2
  <2>. QED
    BY <2>1, <2>2, <2>4, <2>5
<1>. QED
  BY <1>1, <1>2

(* The numbers on the lines of a set, on one line and up to one.             *)
OnOneOf(f, lines, i) == IF i \in lines THEN OnLine(f, i) ELSE <<>>
Gathered(f, lines) ==
    CHOOSE upTo : upTo = [i \in 0..Len(f) |-> IF i = 0 THEN <<>>
                                              ELSE upTo[i - 1] \o OnOneOf(f, lines, i)]

(* The tokens on a set of lines are gathered line by line.                   *)
LEMMA TokensAreGathered ==
    ASSUME NEW f \in Seq(Lines), NEW lines
    PROVE  /\ Gathered(f, lines)[0] = <<>>
           /\ \A i \in 1..Len(f) :
                 Gathered(f, lines)[i] = Gathered(f, lines)[i - 1] \o OnOneOf(f, lines, i)
           /\ \A i \in 0..Len(f) : Gathered(f, lines)[i] \in Seq(AllPlaces)
           /\ Len(f) # 0 => TokensOn(f, lines) = Gathered(f, lines)[Len(f)]
<1>1. PICK last \in Nat : last = Len(f)
  OBVIOUS
<1> DEFINE part == [i \in 1..last |-> OnOneOf(f, lines, i)]
           step == [i \in 1..last |-> [x \in Seq(AllPlaces) |-> x \o part[i]]]
<1>2. part \in [1..last -> Seq(AllPlaces)] /\ \A i \in 1..last : part[i] = OnOneOf(f, lines, i)
  <2>1. ASSUME NEW i \in 1..last PROVE OnOneOf(f, lines, i) \in Seq(AllPlaces)
    <3>1. OnLine(f, i) \in Seq(AllPlaces) /\ <<>> \in Seq(AllPlaces)
      BY <1>1, OnLineIsTyped
    <3>. QED
      BY <3>1 DEF OnOneOf
  <2>. QED
    BY <2>1
<1> HIDE DEF part
<1>3. step \in [1..last -> [Seq(AllPlaces) -> Seq(AllPlaces)]] /\ <<>> \in Seq(AllPlaces)
  BY <1>2, ConcatProperties
<1>4. PICK g \in [0..last -> Seq(AllPlaces)] :
         g[0] = <<>> /\ \A i \in 1..last : g[i] = step[i][g[i - 1]]
  <2> HIDE DEF step
  <2>1. IsDefined(last, Seq(AllPlaces), <<>>, step)
    BY <1>3, RecursionDefines
  <2>. QED
    BY <2>1 DEF IsDefined
<1>5. \A i \in 1..last : g[i] = g[i - 1] \o part[i]
  <2>1. SUFFICES ASSUME NEW i \in 1..last PROVE g[i] = g[i - 1] \o part[i]
    OBVIOUS
  <2>2. \A x \in Seq(AllPlaces) : step[i][x] = x \o part[i]
    OBVIOUS
  <2> HIDE DEF step
  <2>3. g[i - 1] \in Seq(AllPlaces)
    OBVIOUS
  <2>. QED
    BY <1>4, <2>2, <2>3
<1> HIDE DEF step
<1> DEFINE Rec(h) == h = [i \in 0..last |-> IF i = 0 THEN <<>>
                                            ELSE h[i - 1] \o OnOneOf(f, lines, i)]
<1>6. Rec(g)
  <2>1. \A i \in 0..last : i # 0 => i \in 1..last
    OBVIOUS
  <2>2. \A i \in 0..last : g[i] = IF i = 0 THEN <<>> ELSE g[i - 1] \o OnOneOf(f, lines, i)
    BY <1>2, <1>4, <1>5, <2>1, Zenon
  <2>3. g = [i \in 0..last |-> g[i]]
    OBVIOUS
  <2>. QED
    BY <2>2, <2>3
<1>7. PICK h : h = Gathered(f, lines)
  OBVIOUS
<1>8. Rec(h)
  <2>1. h = CHOOSE upTo : Rec(upTo)
    BY <1>1, <1>7 DEF Gathered
  <2> HIDE DEF Rec
  <2>. QED
    BY <1>6, <2>1
<1>9. h[0] = <<>> /\ \A i \in 1..last : h[i] = h[i - 1] \o OnOneOf(f, lines, i)
  <2>1. \A i \in 0..last : h[i] = IF i = 0 THEN <<>> ELSE h[i - 1] \o OnOneOf(f, lines, i)
    BY <1>8, Zenon
  <2>2. 0 \in 0..last /\ \A i \in 1..last : i \in 0..last /\ i # 0
    OBVIOUS
  <2>. QED
    BY <2>1, <2>2, Zenon
<1> HIDE DEF Rec
<1> DEFINE T == {i \in 0..last : h[i] \in Seq(AllPlaces)}
<1>10. 0 \in T
  <2>1. h[0] \in Seq(AllPlaces)
    BY <1>3, <1>9, Zenon
  <2>2. 0 \in 0..last
    OBVIOUS
  <2>. QED
    BY <2>1, <2>2, Zenon
<1>11. ASSUME NEW i \in 1..last, i - 1 \in T PROVE i \in T
  <2>1. h[i] = h[i - 1] \o part[i]
    BY <1>2, <1>9, Zenon
  <2>2. h[i - 1] \in Seq(AllPlaces)
    BY <1>11, Zenon
  <2>3. part[i] \in Seq(AllPlaces)
    BY <1>2
  <2>4. PICK a \in Seq(AllPlaces), b \in Seq(AllPlaces) : a = h[i - 1] /\ b = part[i]
    BY <2>2, <2>3
  <2>5. a \o b \in Seq(AllPlaces)
    BY ConcatProperties
  <2>6. h[i] \in Seq(AllPlaces)
    BY <2>1, <2>4, <2>5
  <2>7. i \in 0..last
    OBVIOUS
  <2>. QED
    BY <2>6, <2>7, Zenon
<1> HIDE DEF T
<1>12. \A i \in 0..last : i \in T
  BY <1>10, <1>11, StepByStep
<1>13. \A i \in 0..last : h[i] \in Seq(AllPlaces)
  BY <1>12 DEF T
<1>14. ASSUME last # 0 PROVE TokensOn(f, lines) = h[last]
  <2>1. PICK seqs : seqs = part
    OBVIOUS
  <2>2. seqs \in Seq(Seq(AllPlaces)) /\ Len(seqs) = last
    BY <1>2, <2>1
  <2>3. \A i \in 1..last : seqs[i] \in Seq(AllPlaces)
    BY <1>2, <2>1
  <2>4. JoinsUp(h, last, seqs)
    BY <1>2, <1>9, <2>1 DEF JoinsUp
  <2>5. FlattenSeq(seqs) = h[last]
    BY <1>13, <1>14, <2>2, <2>3, <2>4, FlattenJoinsUp
  <2>6. seqs = [i \in 1..last |-> IF i \in lines THEN OnLine(f, i) ELSE <<>>]
    <3>1. \A i \in 1..last : seqs[i] = IF i \in lines THEN OnLine(f, i) ELSE <<>>
      BY <1>2, <2>1 DEF OnOneOf
    <3>2. seqs = [i \in 1..last |-> seqs[i]]
      BY <1>2, <2>1
    <3>. QED
      BY <3>1, <3>2
  <2>7. TokensOn(f, lines)
          = FlattenSeq([i \in 1..last |-> IF i \in lines THEN OnLine(f, i) ELSE <<>>])
    BY <1>1 DEF TokensOn, OnLine
  <2>. QED
    BY <2>5, <2>6, <2>7
<1>. QED
  BY <1>1, <1>7, <1>9, <1>13, <1>14

(* The next line of some kinds is of one of them, or the file ends there.    *)
LEMMA NextIsOfItsKind ==
    ASSUME NEW f \in Seq(Lines), NEW i \in Nat, NEW kinds
    PROVE  /\ NextOf(f, i, kinds) \in Nat
           /\ \/ NextOf(f, i, kinds) = Len(f) + 1
              \/ /\ NextOf(f, i, kinds) \in 1..Len(f) /\ NextOf(f, i, kinds) >= i
                 /\ f[NextOf(f, i, kinds)].kind \in kinds
<1>1. PICK T : T = {j \in LinesOf(f, kinds) : j >= i} \cup {Len(f) + 1}
  OBVIOUS
<1>2. T \subseteq Nat /\ T # {} /\ Len(f) \in Nat
      /\ \A j \in T : j = Len(f) + 1 \/ (j \in 1..Len(f) /\ j >= i /\ f[j].kind \in kinds)
  BY <1>1 DEF LinesOf
<1>3. NextOf(f, i, kinds) \in T
  BY <1>1, <1>2, MinIsLeast DEF NextOf
<1>. QED
  BY <1>2, <1>3

(* Lines of the network data.                                                *)
NetworkLines(f) == {i \in LinesOf(f, {"data"}) : DataBegins(f) < i /\ i < DataEnds(f)}

(* The lines of the network data and those of the noise data.                *)
LEMMA SectionLines ==
    ASSUME NEW f \in Seq(Lines), NEW d, IsFirst(f, d, "NetworkData"), NEW m \in 1..Len(f)
    PROVE  /\ m \in NetworkLines(f)
                <=> /\ f[m].kind = "data" /\ d < m
                    /\ \A j \in d..m : f[j].kind \notin {"NoiseData", "End"}
           /\ m \in NoiseLines(f)
                <=> /\ f[m].kind = "data" /\ d < m
                    /\ \E j \in d..m : f[j].kind = "NoiseData"
                    /\ \A j \in d..m : f[j].kind # "End"
<1>1. d \in Nat /\ d \in 1..Len(f) /\ DataBegins(f) = d
  BY FirstOfItsKind DEF IsFirst, DataBegins
<1>2. m \in LinesOf(f, {"data"}) <=> f[m].kind = "data"
  BY DEF LinesOf
<1>3. PICK ends \in Nat, last \in Nat : ends = DataEnds(f) /\ last = NoiseEnds(f)
  BY <1>1, NextIsOfItsKind DEF DataEnds, NoiseEnds
<1>4. /\ \/ ends = Len(f) + 1
         \/ ends \in 1..Len(f) /\ ends >= d /\ f[ends].kind \in {"NoiseData", "End"}
      /\ \/ last = Len(f) + 1
         \/ last \in 1..Len(f) /\ last >= d /\ f[last].kind \in {"End"}
  BY <1>1, <1>3, NextIsOfItsKind DEF DataEnds, NoiseEnds
<1>5. ASSUME d <= m
      PROVE  /\ m < ends <=> \A j \in d..m : f[j].kind \notin {"NoiseData", "End"}
             /\ m < last <=> \A j \in d..m : f[j].kind # "End"
  <2>1. \A j \in d..m : j \in 1..Len(f)
    BY <1>1
  <2>2. m < NextOf(f, d, {"NoiseData", "End"})
          <=> \A j \in d..m : j \in 1..Len(f) => f[j].kind \notin {"NoiseData", "End"}
    BY <1>1, <1>5, InFrontOfNext
  <2>3. m < NextOf(f, d, {"End"})
          <=> \A j \in d..m : j \in 1..Len(f) => f[j].kind \notin {"End"}
    BY <1>1, <1>5, InFrontOfNext
  <2>4. ends = NextOf(f, d, {"NoiseData", "End"}) /\ last = NextOf(f, d, {"End"})
    BY <1>1, <1>3 DEF DataEnds, NoiseEnds
  <2>. QED
    BY <2>1, <2>2, <2>3, <2>4
<1>6. m \in NetworkLines(f) <=> f[m].kind = "data" /\ d < m /\ m < ends
  BY <1>1, <1>2, <1>3 DEF NetworkLines
<1>7. m \in NoiseLines(f) <=> f[m].kind = "data" /\ ends < m /\ m < last
  BY <1>2, <1>3 DEF NoiseLines
<1>8. f[m].kind = "data" => ends # m
  BY <1>4
<1>9. ends < m => d <= m
  BY <1>1, <1>4
<1>10. d <= m /\ f[m].kind = "data" => d < m
  BY <1>1 DEF IsFirst
<1>11. ASSUME f[m].kind = "data"
       PROVE  ends < m /\ m < last <=> /\ d < m
                                       /\ \E j \in d..m : f[j].kind = "NoiseData"
                                       /\ \A j \in d..m : f[j].kind # "End"
  <2>1. CASE d <= m
    <3>1. ends < m <=> ~(m < ends)
      BY <1>8, <1>11
    <3>. QED
      BY <1>5, <1>10, <1>11, <2>1, <3>1
  <2>2. CASE ~(d <= m)
    BY <1>1, <1>9, <2>2
  <2>. QED
    BY <2>1, <2>2
<1>12. CASE d <= m
  BY <1>5, <1>6, <1>7, <1>11, <1>12
<1>13. CASE ~(d <= m)
  <2>1. ~(d < m)
    BY <1>1, <1>13
  <2>. QED
    BY <1>6, <1>7, <1>11, <2>1
<1>. QED
  BY <1>12, <1>13

(* The keywords a file's data is read by, and what the header holds of them. *)
Noted == {"NumberOfPorts", "NumberOfFrequencies", "MatrixFormat", "TwoPortDataOrder",
          "NetworkData"}
Notes == [NumberOfPorts |-> header.nports, NumberOfFrequencies |-> header.nfreqs,
          MatrixFormat |-> header.matrixFormat, TwoPortDataOrder |-> header.twoPortOrder,
          NetworkData |-> dataStartsAt]
Unsaid == [NumberOfPorts |-> None, NumberOfFrequencies |-> None, MatrixFormat |-> "none",
           TwoPortDataOrder |-> "none", NetworkData |-> 0]
Said(f, w, i) ==
    CASE w \in {"NumberOfPorts", "NumberOfFrequencies"} -> f[i].count
      [] w \in {"MatrixFormat", "TwoPortDataOrder"} -> f[i].arg
      [] w = "NetworkData" -> i

NotesInv ==
    \A w \in Noted :
       IF w \in header.seen
       THEN \E i \in 1..pos : IsFirst(file, i, w) /\ Notes[w] = Said(file, w, i)
       ELSE Notes[w] = Unsaid[w] /\ \A i \in 1..pos : file[i].kind # w

(* A keyword is noted where it stands, and nothing else is.                  *)
TakesNote ==
    \A w \in Noted :
       IF Line.kind = w
       THEN w \notin header.seen /\ w \in header'.seen /\ Notes'[w] = Said(file, w, NextLine)
       ELSE (w \in header'.seen <=> w \in header.seen) /\ Notes'[w] = Notes[w]

(* Taking note of a line keeps the notes true of the lines above.            *)
LEMMA NotesAreKept ==
    ASSUME ScanTypes, NotesInv, TakesNote, UNCHANGED file, pos < Len(file), pos' = NextLine
    PROVE  NotesInv'
<1>1. /\ pos \in Nat /\ NextLine = pos + 1 /\ pos' = pos + 1 /\ pos + 1 \in 1..Len(file)
      /\ Line = file[pos + 1]
      /\ \A i \in 1..(pos + 1) : i \in 1..pos \/ i = pos + 1
      /\ \A i \in 1..pos : i \in 1..(pos + 1)
  BY DEF ScanTypes, NextLine, Line
<1>2. SUFFICES ASSUME NEW w \in Noted
               PROVE  IF w \in header'.seen
                      THEN \E i \in 1..(pos + 1) : IsFirst(file, i, w) /\ Notes'[w] = Said(file, w, i)
                      ELSE Notes'[w] = Unsaid[w] /\ \A i \in 1..(pos + 1) : file[i].kind # w
  <2>1. SUFFICES ASSUME NEW w \in Noted
                 PROVE  IF w \in header'.seen
                        THEN \E i \in 1..pos' : IsFirst(file', i, w) /\ Notes'[w] = Said(file', w, i)
                        ELSE Notes'[w] = Unsaid[w] /\ \A i \in 1..pos' : file'[i].kind # w
    BY DEF NotesInv, IsFirst, Said
  <2>. QED
    BY <1>1 DEF IsFirst, Said
<1>3. CASE Line.kind = w
  <2>1. w \notin header.seen /\ w \in header'.seen /\ Notes'[w] = Said(file, w, pos + 1)
    BY <1>1, <1>3 DEF TakesNote
  <2>2. \A i \in 1..pos : file[i].kind # w
    BY <2>1 DEF NotesInv
  <2>3. IsFirst(file, pos + 1, w)
    BY <1>1, <1>3, <2>2 DEF IsFirst
  <2>4. pos + 1 \in 1..(pos + 1)
    BY <1>1
  <2>. QED
    BY <2>1, <2>3, <2>4
<1>4. CASE Line.kind # w
  <2>1. (w \in header'.seen <=> w \in header.seen) /\ Notes'[w] = Notes[w]
    BY <1>4 DEF TakesNote
  <2>2. CASE w \in header.seen
    <3>1. PICK i \in 1..pos : IsFirst(file, i, w) /\ Notes[w] = Said(file, w, i)
      BY <2>2 DEF NotesInv
    <3>. QED
      BY <1>1, <2>1, <2>2, <3>1
  <2>3. CASE w \notin header.seen
    BY <1>1, <1>4, <2>1, <2>3 DEF NotesInv
  <2>. QED
    BY <2>2, <2>3
<1>. QED
  BY <1>3, <1>4

(* A step of Header::read notes the keyword of its line and no other.        *)
LEMMA HeaderNotes ==
    ASSUME ScanTypes, HeaderNext, pc' # "done"
    PROVE  /\ TakesNote /\ pos < Len(file) /\ pos' = NextLine
           /\ pc' \in HeaderLoops /\ (pc' = "plan" <=> Line.kind = "NetworkData")
<1> USE DEF headerVars
<1>1. header \in Headers /\ pos \in Nat
  BY DEF ScanTypes
<1>2. ASSUME NEW loop, NEW kinds, Takes(loop, kinds)
      PROVE  pc = loop /\ pos < Len(file) /\ pos' = NextLine /\ Line.kind \in kinds
  BY <1>2 DEF Takes
<1>3. ASSUME NEW words, TakesKeyword(words)
      PROVE  /\ pc = "header" /\ pos < Len(file) /\ pos' = NextLine /\ Line.kind \in words
             /\ KeywordFault(Line.kind) = NoFault
  BY <1>2, <1>3 DEF TakesKeyword
<1>4. ASSUME Line.kind \notin Noted, UNCHANGED dataStartsAt,
             /\ header'.nports = header.nports /\ header'.nfreqs = header.nfreqs
             /\ header'.matrixFormat = header.matrixFormat
             /\ header'.twoPortOrder = header.twoPortOrder,
             \A w \in Noted : w \in header'.seen <=> w \in header.seen
      PROVE  TakesNote /\ Line.kind # "NetworkData"
  BY <1>4 DEF TakesNote, Notes, Noted
<1>5. ASSUME KeywordFault(Line.kind) = NoFault, Line.kind \in Noted
      PROVE  Line.kind \notin header.seen
  <2>1. ClaimFault(Line.kind) = NoFault
    BY <1>5 DEF KeywordFault, Noted, NoFault
  <2>. QED
    BY <2>1 DEF ClaimFault, NoFault
<1>6. /\ Claimed \in Headers \/ Line.kind \notin Keywords
      /\ Claimed.nports = header.nports /\ Claimed.nfreqs = header.nfreqs
      /\ Claimed.matrixFormat = header.matrixFormat /\ Claimed.twoPortOrder = header.twoPortOrder
      /\ Claimed.seen = header.seen \cup {Line.kind}
      /\ DOMAIN Claimed = DOMAIN header
  BY <1>1 DEF Claimed, Headers
<1>7. CASE SkipHeaderLine
  <2>1. Takes("header", Empty) /\ UNCHANGED <<pc, dataStartsAt>>
    BY <1>7 DEF SkipHeaderLine
  <2>2. /\ header'.nports = header.nports /\ header'.nfreqs = header.nfreqs
        /\ header'.matrixFormat = header.matrixFormat
        /\ header'.twoPortOrder = header.twoPortOrder /\ header'.seen = header.seen
    BY <1>1, <1>7 DEF SkipHeaderLine, Headers
  <2>. QED
    BY <1>2, <1>4, <2>1, <2>2 DEF Empty, Noted, HeaderLoops
<1>8. CASE TakeOptionLine
  <2>1. Takes("header", {"option"}) /\ UNCHANGED <<pc, dataStartsAt>>
    BY <1>8 DEF TakeOptionLine
  <2>2. /\ header'.nports = header.nports /\ header'.nfreqs = header.nfreqs
        /\ header'.matrixFormat = header.matrixFormat
        /\ header'.twoPortOrder = header.twoPortOrder /\ header'.seen = header.seen
    BY <1>1, <1>8 DEF TakeOptionLine, Headers
  <2>. QED
    BY <1>2, <1>4, <2>1, <2>2 DEF Noted, HeaderLoops
<1>9. CASE IgnoreOptionLine
  <2>1. Takes("header", {"option"}) /\ UNCHANGED <<pc, header, dataStartsAt>>
    BY <1>9 DEF IgnoreOptionLine
  <2>. QED
    BY <1>2, <1>4, <2>1 DEF Noted, HeaderLoops
<1>10. CASE SkipReferenceLine
  <2>1. Takes("reference", Empty) /\ UNCHANGED <<pc, header, dataStartsAt>>
    BY <1>10 DEF SkipReferenceLine
  <2>. QED
    BY <1>2, <1>4, <2>1 DEF Empty, Noted, HeaderLoops
<1>11. CASE SkipInformationLine
  <2>1. Takes("information", Kinds \ Bracketed) /\ UNCHANGED <<pc, header, dataStartsAt>>
    BY <1>11 DEF SkipInformationLine
  <2>. QED
    BY <1>2, <1>4, <2>1 DEF Noted, HeaderLoops, Bracketed, Keywords
<1>12. CASE EndInformation
  <2>1. Takes("information", {"EndInformation"}) /\ pc' = "header" /\ UNCHANGED <<header, dataStartsAt>>
    BY <1>12 DEF EndInformation
  <2>. QED
    BY <1>2, <1>4, <2>1 DEF Noted, HeaderLoops
<1>13. CASE BeginInformation
  <2>1. /\ TakesKeyword({"BeginInformation"}) /\ pc' = "information"
        /\ header' = Claimed /\ UNCHANGED dataStartsAt
    BY <1>13 DEF BeginInformation
  <2>. QED
    BY <1>3, <1>4, <1>6, <2>1 DEF Noted, HeaderLoops
<1>14. CASE TakeNetworkData
  <2>1. /\ TakesKeyword({"NetworkData"}) /\ pc' = "plan"
        /\ header' = Claimed /\ dataStartsAt' = NextLine
    BY <1>14 DEF TakeNetworkData
  <2>2. Line.kind = "NetworkData" /\ Line.kind \notin header.seen
    BY <1>3, <1>5, <2>1 DEF Noted
  <2>3. TakesNote
    BY <1>6, <2>1, <2>2 DEF TakesNote, Notes, Said, Noted
  <2>. QED
    BY <1>3, <2>1, <2>2, <2>3 DEF HeaderLoops
<1>15. CASE ApplyKeyword
  <2>1. /\ pc = "header" /\ pos < Len(file) /\ pos' = NextLine
        /\ Line.kind \in {"Version", "NumberOfPorts", "TwoPortDataOrder", "MatrixFormat"}
                         \cup Counts
        /\ KeywordFault(Line.kind) = NoFault
        /\ header' = Applied(Line.kind) /\ UNCHANGED <<pc, dataStartsAt>>
    BY <1>3, <1>15 DEF ApplyKeyword
  <2>2. CASE Line.kind \in {"Version", "NumberOfNoiseFrequencies"}
    <3>1. header' = Claimed \/ header' = [Claimed EXCEPT !.nnoise = Line.count, !.nnoiseAt = NextLine]
      BY <2>1, <2>2 DEF Applied, Counts
    <3>2. /\ header'.nports = header.nports /\ header'.nfreqs = header.nfreqs
          /\ header'.matrixFormat = header.matrixFormat
          /\ header'.twoPortOrder = header.twoPortOrder
          /\ header'.seen = header.seen \cup {Line.kind}
      BY <1>1, <1>6, <3>1 DEF Claimed, Headers
    <3>. QED
      BY <1>4, <2>1, <2>2, <3>2 DEF Noted, HeaderLoops
  <2>3. CASE Line.kind \in Noted
    <3>1. Line.kind \notin header.seen /\ Line.kind # "NetworkData" /\ Line.kind # "Version"
          /\ Line.kind # "NumberOfNoiseFrequencies"
      BY <1>5, <2>1, <2>3 DEF Counts, Noted
    <3>2. /\ Line.kind = "NumberOfPorts" => header' = [Claimed EXCEPT !.nports = Line.count]
          /\ Line.kind = "NumberOfFrequencies" => header' = [Claimed EXCEPT !.nfreqs = Line.count]
          /\ Line.kind = "TwoPortDataOrder" => header' = [Claimed EXCEPT !.twoPortOrder = Line.arg]
          /\ Line.kind = "MatrixFormat" => header' = [Claimed EXCEPT !.matrixFormat = Line.arg]
      BY <2>1, <2>3, <3>1 DEF Applied, Noted
    <3>3. /\ header'.seen = header.seen \cup {Line.kind}
          /\ header'.nports = IF Line.kind = "NumberOfPorts" THEN Line.count ELSE header.nports
          /\ header'.nfreqs = IF Line.kind = "NumberOfFrequencies" THEN Line.count ELSE header.nfreqs
          /\ header'.twoPortOrder = IF Line.kind = "TwoPortDataOrder" THEN Line.arg
                                    ELSE header.twoPortOrder
          /\ header'.matrixFormat = IF Line.kind = "MatrixFormat" THEN Line.arg
                                    ELSE header.matrixFormat
      BY <1>1, <1>6, <2>3, <3>1, <3>2, ZenonT(40) DEF Claimed, Headers, Noted
    <3>4. TakesNote
      BY <2>1, <3>1, <3>3 DEF TakesNote, Notes, Said, Noted, Line
    <3>. QED
      BY <2>1, <3>1, <3>4 DEF HeaderLoops
  <2>. QED
    BY <2>1, <2>2, <2>3 DEF Counts, Noted
<1>16. CASE BeginReference
  <2>1. /\ pc = "header" /\ pos < Len(file) /\ pos' = NextLine
        /\ Line.kind = "Reference" /\ UNCHANGED dataStartsAt
    BY <1>3, <1>16 DEF BeginReference
  <2>2. (header' = [Claimed EXCEPT !.reference = list'] /\ pc' = "header")
        \/ (header' = Claimed /\ pc' = "reference")
    BY <1>16 DEF BeginReference
  <2>3. /\ header'.nports = header.nports /\ header'.nfreqs = header.nfreqs
        /\ header'.matrixFormat = header.matrixFormat
        /\ header'.twoPortOrder = header.twoPortOrder
        /\ header'.seen = header.seen \cup {Line.kind}
    BY <1>1, <1>6, <2>2 DEF Claimed, Headers
  <2>. QED
    BY <1>4, <2>1, <2>2, <2>3 DEF Noted, HeaderLoops
<1>17. CASE ExtendReference
  <2>1. /\ pc = "reference" /\ pos < Len(file) /\ pos' = NextLine /\ Line.kind = "data"
        /\ UNCHANGED dataStartsAt
    BY <1>2, <1>17 DEF ExtendReference
  <2>2. (header' = [header EXCEPT !.reference = list'] /\ pc' = "header")
        \/ (header' = header /\ pc' = pc)
    BY <1>17 DEF ExtendReference
  <2>3. /\ header'.nports = header.nports /\ header'.nfreqs = header.nfreqs
        /\ header'.matrixFormat = header.matrixFormat
        /\ header'.twoPortOrder = header.twoPortOrder
        /\ header'.seen = header.seen
    BY <1>1, <2>2 DEF Headers
  <2>. QED
    BY <1>4, <2>1, <2>2, <2>3 DEF Noted, HeaderLoops
<1>18. ASSUME RejectOptionLine \/ RejectEarlyData \/ RejectKeyword \/ MissNetworkData
              \/ RejectReference \/ RejectInformation
       PROVE  FALSE
  BY <1>18
     DEF RejectOptionLine, RejectEarlyData, RejectKeyword, MissNetworkData, RejectReference,
         RejectInformation, FailHeader, Answer
<1>. QED
  BY <1>7, <1>8, <1>9, <1>10, <1>11, <1>12, <1>13, <1>14, <1>15, <1>16, <1>17, <1>18
     DEF HeaderNext

(* Where the scan is decides which section the lines above end in.           *)
SectionsInv ==
    /\ "NetworkData" \in header.seen <=> pc \in {"plan"} \cup Behind
    /\ pc = "plan" => pos = dataStartsAt
    /\ pc \in Behind /\ header.nports = 2 => header.twoPortOrder # "none"
    /\ pc \in {"network", "tokens"} =>
          \A j \in dataStartsAt..pos : file[j].kind \notin {"NoiseData", "End"}
    /\ pc = "noise" =>
          /\ \E j \in dataStartsAt..pos : file[j].kind = "NoiseData"
          /\ \A j \in dataStartsAt..pos : file[j].kind # "End"
    /\ pc = "tokens" => pos \in NetworkLines(file)

(* Behind the header, the first [Network Data] line is known.                *)
LEMMA DataStarts ==
    ASSUME NotesInv, SectionsInv, pc \in {"plan"} \cup Behind
    PROVE  dataStartsAt \in 1..pos /\ IsFirst(file, dataStartsAt, "NetworkData")
<1>1. "NetworkData" \in header.seen /\ "NetworkData" \in Noted
  BY DEF SectionsInv, Noted
<1>2. PICK i \in 1..pos : IsFirst(file, i, "NetworkData")
                          /\ Notes["NetworkData"] = Said(file, "NetworkData", i)
  BY <1>1 DEF NotesInv
<1>3. Notes["NetworkData"] = dataStartsAt
  BY DEF Notes
<1>4. Said(file, "NetworkData", i) = i
  BY DEF Said
<1>. QED
  BY <1>2, <1>3, <1>4

(* A line the section loop takes.                                            *)
SectionLine ==
    /\ pc \in Sections /\ pc' \in Behind
    /\ pos < Len(file) /\ pos' = NextLine /\ UNCHANGED <<input, header, dataStartsAt>>
    /\ \/ pc = "network" /\ pc' = "tokens" /\ Line.kind = "data"
       \/ pc' = pc /\ Line.kind \in Empty
       \/ pc = "network" /\ pc' = "noise" /\ Line.kind = "NoiseData"
       \/ pc \in {"network", "noise"} /\ pc' = "ended" /\ Line.kind = "End"
       \/ pc = "noise" /\ pc' = "noise" /\ Line.kind = "data"

(* The loop behind the header takes one line, in one of its two sections.    *)
LEMMA SectionTakesLines ==
    ASSUME TakeDataLine \/ SkipSectionLine \/ BeginNoise \/ EndFile \/ AddNoisePoint
    PROVE  SectionLine
<1> USE DEF headerVars
<1>1. ASSUME NEW kinds, \E section \in Sections : Takes(section, kinds)
      PROVE  pc \in Sections /\ pos < Len(file) /\ pos' = NextLine /\ Line.kind \in kinds
  BY <1>1 DEF Takes
<1>2. CASE TakeDataLine
  <2>1. \E section \in Sections : Takes(section, {"data"})
    BY <1>2 DEF TakeDataLine, Sections
  <2>. QED
    BY <1>1, <1>2, <2>1 DEF TakeDataLine, SectionLine, Behind, Takes
<1>3. CASE SkipSectionLine
  BY <1>1, <1>3 DEF SkipSectionLine, SectionLine, Behind
<1>4. CASE BeginNoise \/ EndFile
  <2>1. /\ pc \in Sections /\ pos < Len(file) /\ pos' = NextLine
        /\ SectionKeywordFault(Line.kind) = NoFault
        /\ \/ BeginNoise /\ Line.kind = "NoiseData"
           \/ EndFile /\ Line.kind = "End"
    <3>1. CASE BeginNoise
      <4>1. /\ \E section \in Sections : Takes(section, {"NoiseData"})
            /\ SectionKeywordFault(Line.kind) = NoFault
        BY <3>1 DEF BeginNoise, TakesSectionKeyword
      <4>2. pc \in Sections /\ pos < Len(file) /\ pos' = NextLine /\ Line.kind \in {"NoiseData"}
        BY <1>1, <4>1, Zenon
      <4>. QED
        BY <3>1, <4>1, <4>2
    <3>2. CASE EndFile
      <4>1. /\ \E section \in Sections : Takes(section, {"End"})
            /\ SectionKeywordFault(Line.kind) = NoFault
        BY <3>2 DEF EndFile, TakesSectionKeyword
      <4>2. pc \in Sections /\ pos < Len(file) /\ pos' = NextLine /\ Line.kind \in {"End"}
        BY <1>1, <4>1, Zenon
      <4>. QED
        BY <3>2, <4>1, <4>2
    <3>. QED
      BY <1>4, <3>1, <3>2
  <2>2. pc # "ended"
    BY <2>1 DEF SectionKeywordFault, NoFault
  <2>3. Line.kind = "NoiseData" => pc # "noise"
    BY <2>1, <2>2 DEF SectionKeywordFault, NoiseDataFault, NoFault
  <2>. QED
    BY <1>4, <2>1, <2>2, <2>3 DEF BeginNoise, EndFile, SectionLine, Behind, Sections
<1>5. CASE AddNoisePoint
  <2>1. \E section \in Sections : Takes(section, {"data"})
    BY <1>5 DEF AddNoisePoint, Sections
  <2>. QED
    BY <1>1, <1>5, <2>1 DEF AddNoisePoint, SectionLine, Behind, Takes
<1>. QED
  BY <1>2, <1>3, <1>4, <1>5

(* The line's section is the file's.                                         *)
LEMMA LineIsClassified ==
    ASSUME ScanTypes, NotesInv, SectionsInv, SectionLine
    PROVE  /\ pos \in Nat /\ pos' = pos + 1 /\ pos + 1 \in 1..Len(file) /\ Line = file[pos + 1]
           /\ pos + 1 \in NetworkLines(file) <=> pc' = "tokens"
           /\ pos + 1 \in NoiseLines(file) <=> pc = "noise" /\ Line.kind = "data"
<1>1. /\ pos \in Nat /\ pos' = pos + 1 /\ pos + 1 \in 1..Len(file)
      /\ Line = file[pos + 1] /\ NextLine = pos + 1 /\ file \in Seq(Lines)
  BY DEF ScanTypes, SectionLine, NextLine, Line
<1>2. dataStartsAt \in 1..pos /\ IsFirst(file, dataStartsAt, "NetworkData")
  BY DataStarts DEF SectionLine, Behind
<1>3. PICK d \in Nat : d = dataStartsAt /\ d < pos + 1 /\ d <= pos
  BY <1>1, <1>2
<1>4. \A j \in d..(pos + 1) : j \in d..pos \/ j = pos + 1
  BY <1>1
<1>5. \A j \in d..pos : j \in d..(pos + 1)
  BY <1>1
<1>6. /\ pos + 1 \in NetworkLines(file)
           <=> /\ file[pos + 1].kind = "data" /\ d < pos + 1
               /\ \A j \in d..(pos + 1) : file[j].kind \notin {"NoiseData", "End"}
      /\ pos + 1 \in NoiseLines(file)
           <=> /\ file[pos + 1].kind = "data" /\ d < pos + 1
               /\ \E j \in d..(pos + 1) : file[j].kind = "NoiseData"
               /\ \A j \in d..(pos + 1) : file[j].kind # "End"
  BY <1>1, <1>2, <1>3, SectionLines
<1>7. CASE Line.kind # "data"
  BY <1>1, <1>6, <1>7 DEF SectionLine, Sections
<1>8. CASE Line.kind = "data" /\ pc = "network"
  <2>1. pc' = "tokens"
    BY <1>8 DEF SectionLine, Empty
  <2>2. \A j \in d..(pos + 1) : file[j].kind \notin {"NoiseData", "End"}
    BY <1>1, <1>3, <1>4, <1>8 DEF SectionsInv
  <2>. QED
    BY <1>1, <1>3, <1>6, <1>8, <2>1, <2>2
<1>9. CASE Line.kind = "data" /\ pc = "noise"
  <2>1. pc' = "noise"
    BY <1>9 DEF SectionLine, Empty
  <2>2. PICK j \in d..pos : file[j].kind = "NoiseData"
    BY <1>3, <1>9 DEF SectionsInv
  <2>3. \A i \in d..(pos + 1) : file[i].kind # "End"
    BY <1>1, <1>3, <1>4, <1>9 DEF SectionsInv
  <2>4. j \in d..(pos + 1)
    BY <1>5
  <2>. QED
    BY <1>1, <1>3, <1>6, <1>9, <2>1, <2>2, <2>3, <2>4
<1>. QED
  BY <1>1, <1>7, <1>8, <1>9 DEF SectionLine, Empty

(* A line of the loop behind the header keeps the notes and the section.     *)
LEMMA SectionsAreKept ==
    ASSUME ScanTypes, NotesInv, SectionsInv, SectionLine
    PROVE  NotesInv' /\ SectionsInv'
<1>1. /\ pos \in Nat /\ pos' = pos + 1 /\ pos + 1 \in 1..Len(file)
      /\ Line = file[pos + 1] /\ NextLine = pos + 1
      /\ pos + 1 \in NetworkLines(file) <=> pc' = "tokens"
  BY LineIsClassified DEF NextLine
<1>2. UNCHANGED <<file, header, dataStartsAt>>
  BY DEF SectionLine, input
<1>3. NotesInv'
  <2>1. TakesNote
    BY <1>2 DEF SectionLine, TakesNote, Noted, Notes, Empty
  <2>. QED
    BY <1>2, <2>1, NotesAreKept DEF SectionLine
<1>4. PICK d \in Nat : d = dataStartsAt /\ d <= pos
  <2>1. dataStartsAt \in 1..pos
    BY DataStarts DEF SectionLine, Behind
  <2>. QED
    BY <1>1, <2>1
<1>5. \A j \in d..(pos + 1) : j \in d..pos \/ j = pos + 1
  BY <1>1
<1>6. (\A j \in d..pos : j \in d..(pos + 1)) /\ pos + 1 \in d..(pos + 1)
  BY <1>1, <1>4
<1>7. pc' \in {"network", "tokens"} => \A j \in d..(pos + 1) : file[j].kind \notin {"NoiseData", "End"}
  <2>1. SUFFICES ASSUME pc' \in {"network", "tokens"}, NEW j \in d..(pos + 1)
                 PROVE  file[j].kind \notin {"NoiseData", "End"}
    OBVIOUS
  <2>2. pc = "network" /\ Line.kind \in {"data"} \cup Empty
    BY <2>1 DEF SectionLine, Sections
  <2>3. j \in d..pos => file[j].kind \notin {"NoiseData", "End"}
    BY <1>4, <2>2 DEF SectionsInv
  <2>. QED
    BY <1>1, <1>5, <2>2, <2>3 DEF Empty
<1>8. ASSUME pc' = "noise"
      PROVE  /\ \E j \in d..(pos + 1) : file[j].kind = "NoiseData"
             /\ \A j \in d..(pos + 1) : file[j].kind # "End"
  <2>1. CASE pc = "noise"
    <3>1. Line.kind # "End"
      BY <1>8, <2>1 DEF SectionLine, Empty
    <3>2. /\ \E j \in d..pos : file[j].kind = "NoiseData"
          /\ \A j \in d..pos : file[j].kind # "End"
      BY <1>4, <2>1 DEF SectionsInv
    <3>. QED
      BY <1>1, <1>5, <1>6, <3>1, <3>2
  <2>2. CASE pc # "noise"
    <3>1. pc = "network" /\ Line.kind = "NoiseData"
      BY <1>8, <2>2 DEF SectionLine
    <3>2. \A j \in d..pos : file[j].kind # "End"
      BY <1>4, <3>1 DEF SectionsInv
    <3>. QED
      BY <1>1, <1>5, <1>6, <3>1, <3>2
  <2>. QED
    BY <2>1, <2>2
<1>9. pc \in Behind /\ pc' \in Behind
  BY DEF SectionLine, Behind
<1>10. ("NetworkData" \in header.seen <=> pc' \in {"plan"} \cup Behind)
       /\ pc' # "plan" /\ (header.nports = 2 => header.twoPortOrder # "none")
  BY <1>9 DEF SectionsInv, Behind, Sections
<1>11. SectionsInv'
  BY <1>1, <1>2, <1>4, <1>7, <1>8, <1>10 DEF SectionsInv, Behind, Sections, NetworkLines, LinesOf, DataBegins, DataEnds, LineOf, NextOf
<1>. QED
  BY <1>3, <1>11

(* So does a step of the header that goes on.                                *)
LEMMA HeaderKeepsNotes ==
    ASSUME ScanTypes, NotesInv, SectionsInv, HeaderNext, HeaderOutcome, pc' # "done"
    PROVE  NotesInv' /\ SectionsInv'
<1>1. /\ TakesNote /\ pos < Len(file) /\ pos' = NextLine
      /\ pc' \in HeaderLoops /\ (pc' = "plan" <=> Line.kind = "NetworkData")
  BY HeaderNotes
<1>2. NotesInv'
  BY <1>1, NotesAreKept DEF HeaderOutcome, input
<1>3. pc \in HeaderLoops \ {"plan"}
  BY DEF HeaderOutcome
<1>4. "NetworkData" \notin header.seen /\ "NetworkData" \in Noted
  BY <1>3 DEF SectionsInv, HeaderLoops, Behind, Sections, Noted
<1>5. "NetworkData" \in header'.seen <=> pc' = "plan"
  BY <1>1, <1>4 DEF TakesNote
<1>6. pc' = "plan" => dataStartsAt' = NextLine
  <2>1. ASSUME pc' = "plan" PROVE Notes'["NetworkData"] = Said(file, "NetworkData", NextLine)
    BY <1>1, <1>4, <2>1 DEF TakesNote
  <2>2. Notes'["NetworkData"] = dataStartsAt'
    BY DEF Notes
  <2>3. Said(file, "NetworkData", NextLine) = NextLine
    BY DEF Said
  <2>. QED
    BY <2>1, <2>2, <2>3
<1>7. SectionsInv'
  BY <1>1, <1>5, <1>6 DEF SectionsInv, HeaderLoops, Behind, Sections
<1>. QED
  BY <1>2, <1>7

(* So does the framing being fixed.                                          *)
LEMMA PlanKeepsNotes ==
    ASSUME IInv, NotesInv, SectionsInv, FreezePlan
    PROVE  NotesInv' /\ SectionsInv'
<1>1. /\ pc = "plan" /\ pc' = "network" /\ PlanFault = NoFault
      /\ UNCHANGED <<file, pos, header, dataStartsAt>>
  BY DEF FreezePlan, input, headerVars
<1>2. NotesInv'
  BY <1>1 DEF NotesInv, Notes, Said, IsFirst
<1>3. dataStartsAt \in 1..pos /\ IsFirst(file, dataStartsAt, "NetworkData") /\ pos = dataStartsAt
  BY <1>1, DataStarts DEF SectionsInv
<1>4. \A j \in dataStartsAt..pos : file[j].kind = "NetworkData"
  <2>1. pos \in Nat
    BY DEF IInv, ScanTypes
  <2>2. \A j \in dataStartsAt..pos : j = dataStartsAt
    BY <1>3, <2>1
  <2>. QED
    BY <1>3, <2>2 DEF IsFirst
<1>5. header.nports = 2 => header.twoPortOrder # "none"
  <2>1. header.options # 0
    BY <1>1 DEF PlanFault, NoFault
  <2>2. None \notin {header.nports, header.nfreqs}
    BY <1>1, <2>1 DEF PlanFault, NoFault
  <2>. QED
    BY <1>1, <2>1, <2>2 DEF PlanFault, NoFault, n
<1>6. "NetworkData" \in header.seen
  BY <1>1 DEF SectionsInv
<1>7. SectionsInv'
  BY <1>1, <1>4, <1>5, <1>6 DEF SectionsInv, Behind, Sections
<1>. QED
  BY <1>2, <1>7

(* So does a token of the network data.                                      *)
LEMMA TokenKeepsNotes ==
    ASSUME NotesInv, SectionsInv, pc = "tokens", Advance
    PROVE  NotesInv' /\ SectionsInv'
<1>1. UNCHANGED <<file, pos, header, dataStartsAt>> /\ pc' \in {"network", "tokens"}
  BY DEF Advance, input, headerVars
<1>2. NotesInv'
  BY <1>1 DEF NotesInv, Notes, Said, IsFirst
<1>3. SectionsInv'
  BY <1>1 DEF SectionsInv, Behind, Sections, NetworkLines, LinesOf, DataBegins, DataEnds, LineOf, NextOf
<1>. QED
  BY <1>2, <1>3

(* The first tokens of a line.                                               *)
FirstOn(line, k) == [c \in 1..k |-> <<line, c>>]

(* One more token of a line.                                                 *)
LEMMA FirstOnGrows ==
    ASSUME NEW a \in Seq(AllPlaces), NEW line \in Nat, NEW k \in Nat
    PROVE  /\ FirstOn(line, k) \in Seq(AllPlaces) /\ Len(FirstOn(line, k)) = k
           /\ <<line, k + 1>> \in AllPlaces
           /\ a \o FirstOn(line, k + 1) = Append(a \o FirstOn(line, k), <<line, k + 1>>)
<1>0. /\ <<line, k + 1>> \in AllPlaces
      /\ \A m \in Nat : FirstOn(line, m) \in Seq(AllPlaces) /\ Len(FirstOn(line, m)) = m
  <2>1. ASSUME NEW m \in Nat
        PROVE  FirstOn(line, m) \in Seq(AllPlaces) /\ Len(FirstOn(line, m)) = m
    <3>1. FirstOn(line, m) \in [1..m -> AllPlaces]
      BY DEF FirstOn, AllPlaces
    <3>. QED
      BY <3>1, FunctionIsSequence
  <2>2. <<line, k + 1>> \in AllPlaces
    BY DEF AllPlaces
  <2>. QED
    BY <2>1, <2>2
<1>1. PICK e \in AllPlaces : e = <<line, k + 1>>
  BY <1>0
<1>2. PICK short \in Seq(AllPlaces), long \in Seq(AllPlaces) :
         /\ short = FirstOn(line, k) /\ Len(short) = k
         /\ long = FirstOn(line, k + 1) /\ Len(long) = k + 1
  BY <1>0
<1>3. long = Append(short, e)
  <2>1. Append(short, e) \in Seq(AllPlaces) /\ Len(Append(short, e)) = k + 1
    BY <1>2, AppendProperties
  <2>2. ASSUME NEW i \in 1..(k + 1) PROVE long[i] = Append(short, e)[i]
    <3>1. long[i] = <<line, i>>
      BY <1>2 DEF FirstOn
    <3>2. CASE i \in 1..k
      <4>1. Append(short, e)[i] = short[i] /\ short[i] = <<line, i>>
        BY <1>2, <3>2, AppendProperties DEF FirstOn
      <4>. QED
        BY <3>1, <4>1
    <3>3. CASE i = k + 1
      <4>1. Append(short, e)[k + 1] = e
        BY <1>2, AppendProperties
      <4>. QED
        BY <1>1, <3>1, <3>3, <4>1
    <3>4. i \in 1..k \/ i = k + 1
      OBVIOUS
    <3>. QED
      BY <3>2, <3>3, <3>4
  <2>3. PICK other \in Seq(AllPlaces) : other = Append(short, e)
    BY <2>1
  <2>4. Len(other) = Len(long) /\ \A i \in 1..Len(long) : long[i] = other[i]
    BY <1>2, <2>1, <2>2, <2>3
  <2>. QED
    BY <2>3, <2>4, SeqEqual
<1>4. a \o Append(short, e) = Append(a \o short, e)
  <2>1. a \o short \in Seq(AllPlaces) /\ <<e>> \in Seq(AllPlaces)
    BY <1>2, ConcatProperties
  <2>2. Append(short, e) = short \o <<e>> /\ Append(a \o short, e) = (a \o short) \o <<e>>
    BY <1>2, <2>1, AppendIsConcat
  <2>3. (a \o short) \o <<e>> = a \o (short \o <<e>>)
    BY <1>2, <2>1, ConcatAssociative, SMTT(30)
  <2>. QED
    BY <2>2, <2>3
<1>. QED
  BY <1>1, <1>2, <1>3, <1>4

(* The tokens of the network data up to each line.                           *)
Collection == Gathered(file, NetworkLines(file))

(* Those taken so far.                                                       *)
Taken == IF pc = "tokens" THEN Collection[pos - 1] \o FirstOn(pos, col) ELSE Collection[pos]

(* What a file holds does not change.                                        *)
LEMMA CollectionStays ==
    ASSUME UNCHANGED file
    PROVE  Collection' = Collection
  BY DEF Collection, Gathered, OnOneOf, OnLine, NetworkLines, LinesOf, DataBegins, DataEnds,
         LineOf, NextOf

(* A line of the network data adds its tokens, any other line nothing.       *)
LEMMA CollectionGrows ==
    ASSUME ScanTypes
    PROVE  /\ Collection[0] = <<>> /\ Collection[pos] \in Seq(AllPlaces)
           /\ \A i \in 0..Len(file) : Collection[i] \in Seq(AllPlaces)
           /\ \A i \in 1..Len(file) :
                 /\ i \in NetworkLines(file)
                      => Collection[i] = Collection[i - 1] \o FirstOn(i, Len(file[i].v))
                 /\ i \notin NetworkLines(file) => Collection[i] = Collection[i - 1]
           /\ Len(file) # 0 => NetworkTokens(file) = Collection[Len(file)]
<1>1. file \in Seq(Lines) /\ pos \in 0..Len(file)
  BY DEF ScanTypes
<1>2. PICK lines : lines = NetworkLines(file)
  OBVIOUS
<1>3. PICK g : g = Gathered(file, lines)
  OBVIOUS
<1>4. /\ g[0] = <<>>
      /\ \A i \in 1..Len(file) : g[i] = g[i - 1] \o OnOneOf(file, lines, i)
      /\ \A i \in 0..Len(file) : g[i] \in Seq(AllPlaces)
      /\ Len(file) # 0 => TokensOn(file, lines) = g[Len(file)]
  BY <1>1, <1>3, TokensAreGathered
<1>5. Collection = g
  BY <1>2, <1>3 DEF Collection
<1>6. NetworkTokens(file) = TokensOn(file, lines)
  BY <1>2 DEF NetworkTokens, NetworkLines
<1>7. ASSUME NEW i \in 1..Len(file)
      PROVE  /\ i \in lines => g[i] = g[i - 1] \o FirstOn(i, Len(file[i].v))
             /\ i \notin lines => g[i] = g[i - 1]
  <2>1. g[i] = g[i - 1] \o OnOneOf(file, lines, i)
    BY <1>4
  <2>2. i - 1 \in 0..Len(file)
    BY <1>1
  <2>3. PICK before \in Seq(AllPlaces) : before = g[i - 1]
    BY <1>4, <2>2
  <2>4. before \o <<>> = before
    BY ConcatEmptySeq
  <2>. QED
    BY <2>1, <2>3, <2>4 DEF OnOneOf, OnLine, FirstOn
<1>. QED
  BY <1>1, <1>2, <1>4, <1>5, <1>6, <1>7

(* A token more.                                                             *)
LEMMA TakenAdvances ==
    ASSUME IInv, SectionsInv, pc = "tokens", Advance
    PROVE  Taken \in Seq(AllPlaces) /\ Token \in AllPlaces /\ Taken' = Append(Taken, Token)
<1>1. /\ file \in Seq(Lines) /\ pos \in 1..Len(file) /\ col \in Nat
      /\ col < Len(file[pos].v) /\ ScanTypes /\ pos \in Nat
  BY DEF IInv, ScanTypes, ControlInv
<1>2. pos \in NetworkLines(file)
  BY DEF SectionsInv
<1>3. pos - 1 \in 0..Len(file)
  BY <1>1
<1>4. PICK before \in Seq(AllPlaces) : before = Collection[pos - 1]
  BY <1>1, <1>3, CollectionGrows
<1>5. Collection[pos] = before \o FirstOn(pos, Len(file[pos].v))
  BY <1>1, <1>2, <1>4, CollectionGrows
<1>6. Taken = before \o FirstOn(pos, col)
  BY <1>4 DEF Taken
<1>7. /\ FirstOn(pos, col) \in Seq(AllPlaces) /\ <<pos, col + 1>> \in AllPlaces
      /\ before \o FirstOn(pos, col + 1) = Append(before \o FirstOn(pos, col), <<pos, col + 1>>)
  BY <1>1, FirstOnGrows
<1>8. before \o FirstOn(pos, col) \in Seq(AllPlaces)
  BY <1>7, ConcatProperties
<1>9. /\ UNCHANGED <<file, pos>> /\ col' = col + 1
      /\ pc' = IF col + 1 = Len(file[pos].v) THEN "network" ELSE "tokens"
  BY DEF Advance, input
<1>10. Collection' = Collection
  BY <1>9, CollectionStays
<1>11. Taken' = before \o FirstOn(pos, col + 1)
  <2>1. CASE col + 1 = Len(file[pos].v)
    BY <1>5, <1>9, <1>10, <2>1 DEF Taken
  <2>2. CASE col + 1 # Len(file[pos].v)
    BY <1>4, <1>9, <1>10, <2>2 DEF Taken, FirstOn
  <2>. QED
    BY <2>1, <2>2
<1>. QED
  BY <1>6, <1>7, <1>8, <1>11 DEF Token

(* A line the loop takes holds none that is taken with it.                   *)
LEMMA TakenStays ==
    ASSUME ScanTypes, NotesInv, SectionsInv, SectionLine, pc' = "tokens" => col' = 0
    PROVE  Taken' = Taken /\ Taken \in Seq(AllPlaces)
<1>1. /\ pos \in Nat /\ pos' = pos + 1 /\ pos + 1 \in 1..Len(file)
      /\ pos + 1 \in NetworkLines(file) <=> pc' = "tokens"
  BY LineIsClassified
<1>2. pc # "tokens" /\ file' = file
  BY DEF SectionLine, Sections, input
<1>3. Taken = Collection[pos] /\ Collection[pos] \in Seq(AllPlaces)
  BY <1>2, CollectionGrows DEF Taken
<1>4. Collection' = Collection
  BY <1>2, CollectionStays
<1>5. CASE pc' = "tokens"
  <2>1. FirstOn(pos', col') = <<>> /\ pos' - 1 = pos
    BY <1>1, <1>5 DEF FirstOn
  <2>2. Collection[pos] \o <<>> = Collection[pos]
    BY <1>3, ConcatEmptySeq
  <2>3. Taken' = Collection'[pos' - 1] \o FirstOn(pos', col')
    BY <1>5 DEF Taken, FirstOn
  <2>. QED
    BY <1>3, <1>4, <2>1, <2>2, <2>3
<1>6. CASE pc' # "tokens"
  <2>0. PICK i \in 1..Len(file) : i = pos + 1 /\ i - 1 = pos /\ i \notin NetworkLines(file)
    BY <1>1, <1>6
  <2>1. Collection[i] = Collection[i - 1]
    BY <2>0, CollectionGrows
  <2>. QED
    BY <1>1, <1>3, <1>4, <1>6, <2>0, <2>1 DEF Taken
<1>. QED
  BY <1>5, <1>6

(* None is before the first line of the network data.                        *)
LEMMA NothingTaken ==
    ASSUME ScanTypes, IsFirst(file, dataStartsAt, "NetworkData")
    PROVE  Collection[dataStartsAt] = <<>>
<1>1. PICK d \in Nat : d = dataStartsAt /\ d \in 1..Len(file) /\ file \in Seq(Lines)
  BY DEF IsFirst, ScanTypes
<1>2. \A i \in 1..d : i \notin NetworkLines(file)
  <2>1. SUFFICES ASSUME NEW i \in 1..d PROVE i \notin NetworkLines(file)
    OBVIOUS
  <2>2. i \in 1..Len(file) /\ ~(d < i)
    BY <1>1
  <2>. QED
    BY <1>1, <2>2, SectionLines
<1> DEFINE T == {i \in 0..d : Collection[i] = <<>>}
<1>3. 0 \in T
  BY <1>1, CollectionGrows
<1>4. ASSUME NEW i \in 1..d, i - 1 \in T PROVE i \in T
  <2>1. i \in 1..Len(file) /\ i \in 0..d
    BY <1>1
  <2>2. Collection[i] = Collection[i - 1]
    BY <1>2, <2>1, CollectionGrows
  <2>. QED
    BY <1>4, <2>1, <2>2
<1>5. \A i \in 0..d : i \in T
  <2> HIDE DEF T
  <2>. QED
    BY <1>3, <1>4, StepByStep
<1>6. d \in 0..d
  BY <1>1
<1>. QED
  BY <1>1, <1>5, <1>6

(* A sequence of values framed into points: the frequencies first, then the  *)
(* pairs a matrix is written from, and what is left is the point begun.      *)
Sweeps(taken, size, count, hz, f) ==
    Len(hz) = count /\ \A k \in 0..(count - 1) : hz[k + 1] = At(f, taken[k * size + 1])

Fills(taken, size, count, entries, ports, writer) ==
    \A k \in 0..(count - 1), row, column \in 1..ports :
       entries[k * ports * ports + (row - 1) * ports + column]
         = <<taken[k * size + 2 * writer[<<row, column>>]],
             taken[k * size + (2 * writer[<<row, column>>] + 1)]>>

Opens(taken, size, count, b) ==
    Len(taken) = count * size + Len(b) /\ \A i \in 1..Len(b) : b[i] = taken[count * size + i]

Writes(writer, ports, size) ==
    \A row, column \in 1..ports : /\ 2 * writer[<<row, column>>] \in 1..size
                                  /\ 2 * writer[<<row, column>>] + 1 \in 1..size

(* More tokens leave the frames of the earlier ones as they are.             *)
LEMMA FramesStay ==
    ASSUME NEW size \in Nat \ {0}, NEW count \in Nat, NEW ports, NEW taken, NEW longer,
           NEW hz, NEW entries, NEW writer, NEW f,
           Begins(longer, taken), Len(taken) \in Nat, count * size <= Len(taken),
           Writes(writer, ports, size)
    PROVE  /\ Sweeps(taken, size, count, hz, f) => Sweeps(longer, size, count, hz, f)
           /\ Fills(taken, size, count, entries, ports, writer)
                => Fills(longer, size, count, entries, ports, writer)
<1>1. ASSUME NEW k \in 0..(count - 1), NEW j \in 1..size
      PROVE  longer[k * size + j] = taken[k * size + j]
  <2>1. k * size + j \in 1..(count * size)
    BY ValueIsInside
  <2>2. PICK i \in Int, all \in Int : i = k * size + j /\ all = count * size
    OBVIOUS
  <2>3. i \in 1..Len(taken)
    BY <2>1, <2>2
  <2>. QED
    BY <2>2, <2>3 DEF Begins
<1>2. 1 \in 1..size
  OBVIOUS
<1>3. ASSUME Sweeps(taken, size, count, hz, f) PROVE Sweeps(longer, size, count, hz, f)
  <2>1. \A k \in 0..(count - 1) : longer[k * size + 1] = taken[k * size + 1]
    BY <1>1, <1>2
  <2>. QED
    BY <1>3, <2>1, Zenon DEF Sweeps
<1>4. ASSUME Fills(taken, size, count, entries, ports, writer)
      PROVE  Fills(longer, size, count, entries, ports, writer)
  <2>1. SUFFICES ASSUME NEW k \in 0..(count - 1), NEW row \in 1..ports, NEW column \in 1..ports
                 PROVE  entries[k * ports * ports + (row - 1) * ports + column]
                          = <<longer[k * size + 2 * writer[<<row, column>>]],
                              longer[k * size + (2 * writer[<<row, column>>] + 1)]>>
    BY DEF Fills
  <2>2. PICK first \in 1..size, second \in 1..size :
           first = 2 * writer[<<row, column>>] /\ second = 2 * writer[<<row, column>>] + 1
    BY DEF Writes
  <2>3. entries[k * ports * ports + (row - 1) * ports + column]
          = <<taken[k * size + first], taken[k * size + second]>>
    BY <1>4, <2>2, Zenon DEF Fills
  <2>4. longer[k * size + first] = taken[k * size + first]
        /\ longer[k * size + second] = taken[k * size + second]
    BY <1>1
  <2>. QED
    BY <2>2, <2>3, <2>4, Zenon
<1>. QED
  BY <1>3, <1>4

(* A token more in the point that is open.                                   *)
LEMMA BlockGrows ==
    ASSUME NEW size \in Nat \ {0}, NEW count \in Nat, NEW S, NEW taken \in Seq(S), NEW b \in Seq(S),
           NEW token \in S, Opens(taken, size, count, b)
    PROVE  Opens(Append(taken, token), size, count, Append(b, token))
<1>1. PICK start \in Nat, len \in Nat : start = count * size /\ len = Len(b)
  OBVIOUS
<1>2. Len(taken) = start + len /\ \A i \in 1..len : b[i] = taken[start + i]
  BY <1>1 DEF Opens
<1>3. PICK longer \in Seq(S), more \in Seq(S) :
         /\ longer = Append(taken, token) /\ more = Append(b, token)
         /\ Len(longer) = (start + len) + 1 /\ Len(more) = len + 1
  <2>1. Append(taken, token) \in Seq(S) /\ Len(Append(taken, token)) = Len(taken) + 1
    BY AppendProperties
  <2>2. Append(b, token) \in Seq(S) /\ Len(Append(b, token)) = Len(b) + 1
    BY AppendProperties
  <2>. QED
    BY <1>1, <1>2, <2>1, <2>2
<1>4. /\ \A i \in 1..(start + len) : longer[i] = taken[i]
      /\ longer[(start + len) + 1] = token
      /\ \A i \in 1..len : more[i] = b[i]
      /\ more[len + 1] = token
  BY <1>1, <1>2, <1>3, AppendProperties
<1>5. ASSUME NEW i \in 1..(len + 1) PROVE more[i] = longer[start + i]
  <2>1. CASE i \in 1..len
    <3>1. start + i \in 1..(start + len)
      BY <2>1
    <3>. QED
      BY <1>2, <1>4, <2>1, <3>1
  <2>2. CASE i = len + 1
    <3>1. start + i = (start + len) + 1
      BY <2>2
    <3>. QED
      BY <1>4, <2>2, <3>1
  <2>3. i \in 1..len \/ i = len + 1
    OBVIOUS
  <2>. QED
    BY <2>1, <2>2, <2>3
<1>6. Len(longer) = start + Len(more) /\ \A i \in 1..Len(more) : more[i] = longer[start + i]
  <2>1. Len(more) = len + 1 /\ Len(longer) = (start + len) + 1
    BY <1>3
  <2>2. (start + len) + 1 = start + (len + 1)
    OBVIOUS
  <2>. QED
    BY <1>5, <2>1, <2>2, Zenon
<1>7. Opens(longer, size, count, more)
  BY <1>1, <1>6, Zenon DEF Opens
<1>. QED
  BY <1>3, <1>7

(* A point that is full is one of the whole ones.                            *)
LEMMA BlockCloses ==
    ASSUME NEW size \in Nat \ {0}, NEW count \in Nat, NEW S, NEW taken \in Seq(S), NEW b \in Seq(S),
           Opens(taken, size, count, b), Len(b) = size
    PROVE  Opens(taken, size, count + 1, <<>>)
<1>1. PICK start \in Nat : start = count * size
  OBVIOUS
<1>2. (count + 1) * size = start + size
  BY <1>1
<1>3. Len(taken) = start + size
  BY <1>1 DEF Opens
<1>. QED
  BY <1>2, <1>3 DEF Opens

(* Its first value joins the frequencies.                                    *)
LEMMA SweepGrows ==
    ASSUME NEW size \in Nat \ {0}, NEW count \in Nat, NEW taken, NEW b, NEW hz \in Seq(Int), NEW f,
           Sweeps(taken, size, count, hz, f), Opens(taken, size, count, b), Len(b) = size,
           At(f, b[1]) \in Int
    PROVE  Sweeps(taken, size, count + 1, Append(hz, At(f, b[1])), f)
<1>1. PICK start \in Nat : start = count * size
  OBVIOUS
<1>2. PICK longer \in Seq(Int) : longer = Append(hz, At(f, b[1]))
  BY AppendProperties
<1>3. Len(hz) = count
  BY DEF Sweeps
<1>4. /\ Len(longer) = count + 1 /\ longer[count + 1] = At(f, b[1])
      /\ \A i \in 1..count : longer[i] = hz[i]
  BY <1>2, <1>3, AppendProperties
<1>5. b[1] = taken[start + 1]
  <2>1. 1 \in 1..Len(b)
    OBVIOUS
  <2>. QED
    BY <1>1, <2>1 DEF Opens
<1>6. ASSUME NEW k \in 0..count PROVE longer[k + 1] = At(f, taken[k * size + 1])
  <2>1. CASE k \in 0..(count - 1)
    <3>1. k + 1 \in 1..count
      BY <2>1
    <3>2. hz[k + 1] = At(f, taken[k * size + 1])
      BY <2>1, Zenon DEF Sweeps
    <3>3. longer[k + 1] = hz[k + 1]
      BY <1>4, <3>1
    <3>. QED
      BY <3>2, <3>3, Zenon
  <2>2. CASE k = count
    BY <1>1, <1>4, <1>5, <2>2, Zenon
  <2>3. k \in 0..(count - 1) \/ k = count
    OBVIOUS
  <2>. QED
    BY <2>1, <2>2, <2>3, Zenon
<1>7. (count + 1) - 1 = count
  OBVIOUS
<1>. QED
  BY <1>2, <1>4, <1>6, <1>7, Zenon DEF Sweeps

(* Its pairs join the matrices.                                              *)
LEMMA FillingGrows ==
    ASSUME NEW size \in Nat \ {0}, NEW count \in Nat, NEW ports \in Nat \ {0},
           NEW taken, NEW b, NEW writer, NEW S, NEW entries \in Seq(S), NEW matrix \in Seq(S),
           Fills(taken, size, count, entries, ports, writer), Opens(taken, size, count, b),
           Len(b) = size, Writes(writer, ports, size),
           Matrices(entries, count, ports), Matrices(matrix, 1, ports),
           \A row, column \in 1..ports :
              matrix[(row - 1) * ports + column]
                = <<b[2 * writer[<<row, column>>]], b[2 * writer[<<row, column>>] + 1]>>
    PROVE  Fills(taken, size, count + 1, entries \o matrix, ports, writer)
<1>1. SUFFICES ASSUME NEW k \in 0..((count + 1) - 1), NEW row \in 1..ports, NEW column \in 1..ports
               PROVE  (entries \o matrix)[k * ports * ports + (row - 1) * ports + column]
                        = <<taken[k * size + 2 * writer[<<row, column>>]],
                            taken[k * size + (2 * writer[<<row, column>>] + 1)]>>
  BY DEF Fills
<1>2. PICK first \in 1..size, second \in 1..size :
         first = 2 * writer[<<row, column>>] /\ second = 2 * writer[<<row, column>>] + 1
  BY DEF Writes
<1>3. /\ \A i \in 0..(count - 1) :
            (entries \o matrix)[i * ports * ports + (row - 1) * ports + column]
              = entries[i * ports * ports + (row - 1) * ports + column]
      /\ (entries \o matrix)[count * ports * ports + (row - 1) * ports + column]
           = matrix[(row - 1) * ports + column]
  <2>1. EntryJoins(entries \o matrix, entries, matrix, count, ports, row, column)
    BY MatrixJoins
  <2>. QED
    BY <2>1, Zenon DEF EntryJoins
<1>4. CASE k \in 0..(count - 1)
  <2>1. (entries \o matrix)[k * ports * ports + (row - 1) * ports + column]
          = entries[k * ports * ports + (row - 1) * ports + column]
    BY <1>3, <1>4, Zenon
  <2>2. entries[k * ports * ports + (row - 1) * ports + column]
          = <<taken[k * size + 2 * writer[<<row, column>>]],
              taken[k * size + (2 * writer[<<row, column>>] + 1)]>>
    BY <1>4, Zenon DEF Fills
  <2>. QED
    BY <2>1, <2>2, Zenon
<1>5. CASE k = count
  <2>1. matrix[(row - 1) * ports + column] = <<b[first], b[second]>>
    BY <1>2, Zenon
  <2>2. b[first] = taken[count * size + first] /\ b[second] = taken[count * size + second]
    BY DEF Opens
  <2>. QED
    BY <1>2, <1>3, <1>5, <2>1, <2>2, Zenon
<1>6. k \in 0..(count - 1) \/ k = count
  OBVIOUS
<1>. QED
  BY <1>4, <1>5, <1>6, Zenon

(* The pair of a point each entry of its matrix is written from.             *)
WriterOf == [place \in (1..n) \X (1..n) |-> Max(Writers(place[1], place[2]))]

(* The pair an entry is written from lies inside the point, and is the last  *)
(* of the pairs that name it.                                                *)
LEMMA WriterIsKnown ==
    ASSUME IInv, Declared, header.nports \in Nat \ {0}
    PROVE  /\ n \in Nat \ {0} /\ Len(entryOrder) \in Nat /\ PointSize \in Nat \ {0}
           /\ \A row, column \in 1..n :
                 /\ WriterOf[<<row, column>>] = Max(Writers(row, column))
                 /\ WriterOf[<<row, column>>] \in Writers(row, column)
                 /\ WriterOf[<<row, column>>] \in 1..Len(entryOrder)
           /\ Writes(WriterOf, n, PointSize)
<1>1. /\ n \in Nat \ {0} /\ header.matrixFormat \in MatrixFormats \cup {"none"}
      /\ Len(entryOrder) \in Nat
      /\ 2 * Len(entryOrder) = Pairs(n, header.matrixFormat)
      /\ \A row, column \in 1..n : Writers(row, column) # {}
  BY ShapeIsKnown
<1>2. PICK square \in Nat : square = n * n
  BY <1>1
<1>3. PointSize = 2 * Len(entryOrder) + 1
  <2>1. ValuesPerPoint(n) = square * 2 + 1
    <3>1. ValuesPerPoint(n) # None
      BY <1>1 DEF Declared, None, n
    <3>. QED
      BY <1>2, <3>1 DEF ValuesPerPoint
  <2>2. TriangleValues(n) = square + n + 1
    BY <1>2 DEF TriangleValues
  <2>3. Pairs(n, header.matrixFormat) = IF Full THEN 2 * square ELSE square + n
    BY <1>2 DEF Pairs, Full
  <2>. QED
    BY <1>1, <1>2, <2>1, <2>2, <2>3 DEF PointSize
<1>4. ASSUME NEW row \in 1..n, NEW column \in 1..n
      PROVE  /\ WriterOf[<<row, column>>] = Max(Writers(row, column))
             /\ WriterOf[<<row, column>>] \in Writers(row, column)
             /\ WriterOf[<<row, column>>] \in 1..Len(entryOrder)
  <2>1. Writers(row, column) \subseteq 1..Len(entryOrder)
    BY DEF Writers
  <2>2. Writers(row, column) # {}
    BY <1>1
  <2>3. Max(Writers(row, column)) \in Writers(row, column)
    BY <1>1, <2>1, <2>2, MaxIsInside
  <2>4. PICK place \in (1..n) \X (1..n) : place = <<row, column>>
    OBVIOUS
  <2>5. WriterOf[place] = Max(Writers(place[1], place[2]))
    BY DEF WriterOf
  <2>6. place[1] = row /\ place[2] = column
    BY <2>4
  <2>7. WriterOf[<<row, column>>] = Max(Writers(row, column))
    BY <2>4, <2>5, <2>6
  <2>. QED
    BY <2>1, <2>3, <2>7
<1>5. Writes(WriterOf, n, PointSize)
  <2>1. SUFFICES ASSUME NEW row \in 1..n, NEW column \in 1..n
                 PROVE  /\ 2 * WriterOf[<<row, column>>] \in 1..PointSize
                        /\ 2 * WriterOf[<<row, column>>] + 1 \in 1..PointSize
    BY DEF Writes
  <2>2. PICK k \in 1..Len(entryOrder) : k = WriterOf[<<row, column>>]
    BY <1>4
  <2>3. 2 * k \in 1..PointSize /\ 2 * k + 1 \in 1..PointSize
    BY <1>1, <1>3
  <2>. QED
    BY <2>2, <2>3
<1>6. PointSize \in Nat \ {0}
  BY <1>1, <1>3
<1>. QED
  BY <1>1, <1>4, <1>5, <1>6

(* A matrix is written from the pairs of its point.                          *)
LEMMA MatrixIsFilled ==
    ASSUME IInv, Declared, header.nports \in Nat \ {0}, NEW b,
           NEW row \in 1..n, NEW column \in 1..n
    PROVE  Matrix(b)[(row - 1) * n + column]
             = <<b[2 * WriterOf[<<row, column>>]], b[2 * WriterOf[<<row, column>>] + 1]>>
<1>1. Matrix(b)[(row - 1) * n + column] = Pair(b, Max(Writers(row, column)))
  BY MatrixEntry
<1>2. WriterOf[<<row, column>>] = Max(Writers(row, column))
  BY WriterIsKnown
<1>. QED
  BY <1>1, <1>2, Zenon DEF Pair

(* The tokens taken, cut into points: the whole ones have been added, and    *)
(* the rest is the block.                                                    *)
FramesInv ==
    pc \in Behind =>
        /\ Opens(Taken, PointSize, Len(freqHz), block)
        /\ Sweeps(Taken, PointSize, Len(freqHz), freqHz, file)
        /\ Fills(Taken, PointSize, Len(freqHz), s, n, WriterOf)

(* Each line of the noise section so far is a noise point.                   *)
NoiseInv ==
    pc \in Behind =>
        {noise[i].line : i \in 1..Len(noise)} = {m \in NoiseLines(file) : m <= pos}

(* The header fixes how a point is framed.                                   *)
LEMMA FramingStays ==
    ASSUME UNCHANGED header
    PROVE  n' = n /\ PointSize' = PointSize /\ WriterOf' = WriterOf
<1>1. n' = n /\ Full' = Full /\ entryOrder' = entryOrder
  BY DEF n, Full, entryOrder
<1>2. PointSize' = PointSize
  BY <1>1 DEF PointSize
<1>3. WriterOf' = WriterOf
  BY DEF WriterOf, Writers, n, Full, entryOrder
<1>. QED
  BY <1>1, <1>2, <1>3

(* The frames depend on the tokens taken and on the points alone.            *)
LEMMA FramesAreKept ==
    ASSUME FramesInv, pc \in Behind, Taken' = Taken, UNCHANGED <<file, header, freqHz, s, block>>
    PROVE  FramesInv'
<1>1. n' = n /\ PointSize' = PointSize /\ WriterOf' = WriterOf
  BY FramingStays
<1>2. PICK taken, size, writer, ports :
         /\ taken = Taken /\ size = PointSize /\ writer = WriterOf /\ ports = n
  OBVIOUS
<1>3. taken = Taken' /\ size = PointSize' /\ writer = WriterOf' /\ ports = n'
  BY <1>1, <1>2
<1>4. /\ Opens(taken, size, Len(freqHz), block)
      /\ Sweeps(taken, size, Len(freqHz), freqHz, file)
      /\ Fills(taken, size, Len(freqHz), s, ports, writer)
  BY <1>2 DEF FramesInv
<1>5. SUFFICES /\ Opens(Taken', PointSize', Len(freqHz'), block')
               /\ Sweeps(Taken', PointSize', Len(freqHz'), freqHz', file')
               /\ Fills(Taken', PointSize', Len(freqHz'), s', n', WriterOf')
  BY DEF FramesInv, Opens, Sweeps, Fills, At
<1>. QED
  BY <1>3, <1>4

(* No token is taken when the framing is fixed, and none is noise.           *)
LEMMA PlanFrames ==
    ASSUME IInv, Declared, NotesInv, SectionsInv, FreezePlan
    PROVE  FramesInv' /\ NoiseInv'
<1>1. /\ pc = "plan" /\ pc' = "network" /\ PlanFault = NoFault
      /\ UNCHANGED <<file, pos, header, dataStartsAt, freqHz, s, block, noise>>
  BY DEF FreezePlan, input, headerVars, rows
<1>2. freqHz = <<>> /\ s = <<>> /\ noise = <<>> /\ block = <<>> /\ ScanTypes
  BY <1>1 DEF IInv, ControlInv, HeaderLoops
<1>3. dataStartsAt \in 1..pos /\ IsFirst(file, dataStartsAt, "NetworkData") /\ pos = dataStartsAt
  BY <1>1, DataStarts DEF SectionsInv
<1>4. Collection[dataStartsAt] = <<>>
  BY <1>2, <1>3, NothingTaken
<1>5. Taken' = <<>>
  <2>1. Collection' = Collection
    BY <1>1, CollectionStays
  <2>. QED
    BY <1>1, <1>3, <1>4, <2>1 DEF Taken
<1>6. FramesInv'
  <2>1. PICK size \in Nat \ {0}, ports \in {n'}, writer \in {WriterOf'} : size = PointSize'
    <3>1. Frozen
      BY <1>1, PlanPasses
    <3>2. PointSize \in Nat \ {0}
      BY <3>1, WriterIsKnown DEF Frozen
    <3>3. PointSize' = PointSize
      BY <1>1, FramingStays
    <3>. QED
      BY <3>2, <3>3
  <2>2. SUFFICES /\ Opens(Taken', PointSize', Len(freqHz'), block')
                 /\ Sweeps(Taken', PointSize', Len(freqHz'), freqHz', file')
                 /\ Fills(Taken', PointSize', Len(freqHz'), s', n', WriterOf')
    BY DEF FramesInv, Opens, Sweeps, Fills, At
  <2>3. 0 * size = 0 /\ 0..(0 - 1) = {} /\ 1..0 = {}
    OBVIOUS
  <2>4. /\ Opens(<<>>, size, 0, <<>>)
        /\ Sweeps(<<>>, size, 0, <<>>, file)
        /\ Fills(<<>>, size, 0, <<>>, ports, writer)
    <3>1. Opens(<<>>, size, 0, <<>>)
      BY <2>3 DEF Opens
    <3>2. Sweeps(<<>>, size, 0, <<>>, file)
      BY <2>3 DEF Sweeps
    <3>3. Fills(<<>>, size, 0, <<>>, ports, writer)
      BY <2>3, Zenon DEF Fills
    <3>. QED
      BY <3>1, <3>2, <3>3
  <2>5. Len(freqHz') = 0
    BY <1>1, <1>2
  <2>. QED
    BY <1>1, <1>2, <1>5, <2>1, <2>4, <2>5
<1>7. NoiseInv'
  <2>1. \A m \in NoiseLines(file) : ~(m <= pos)
    <3>1. SUFFICES ASSUME NEW m \in NoiseLines(file) PROVE ~(m <= pos)
      OBVIOUS
    <3>2. m \in 1..Len(file) /\ file \in Seq(Lines)
      BY <1>2 DEF NoiseLines, LinesOf, ScanTypes
    <3>3. dataStartsAt < m
      BY <1>3, <3>1, <3>2, SectionLines
    <3>4. pos \in Nat
      BY <1>2 DEF ScanTypes
    <3>. QED
      BY <1>3, <3>2, <3>3, <3>4
  <2>2. {noise[i].line : i \in 1..Len(noise)} = {}
    BY <1>2
  <2>3. {m \in NoiseLines(file) : m <= pos} = {}
    BY <2>1
  <2>4. NoiseLines(file') = NoiseLines(file)
    BY <1>1
  <2>5. SUFFICES {noise'[i].line : i \in 1..Len(noise')} = {m \in NoiseLines(file') : m <= pos'}
    BY DEF NoiseInv, NoiseLines, LinesOf, DataEnds, DataBegins, NoiseEnds, LineOf, NextOf
  <2>. QED
    BY <1>1, <2>2, <2>3
<1>. QED
  BY <1>6, <1>7

(* A token more in the frames, before it closes a point or not.              *)
LEMMA TokenIsFramed ==
    ASSUME IInv, Declared, SectionsInv, FramesInv, pc = "tokens", Advance
    PROVE  /\ Taken' \in Seq(AllPlaces) /\ Extended \in Seq(AllPlaces) /\ PointSize \in Nat \ {0}
           /\ Opens(Taken', PointSize, Len(freqHz), Extended)
           /\ Sweeps(Taken', PointSize, Len(freqHz), freqHz, file)
           /\ Fills(Taken', PointSize, Len(freqHz), s, n, WriterOf)
<1>1. /\ Taken \in Seq(AllPlaces) /\ Token \in AllPlaces /\ Taken' = Append(Taken, Token)
  BY TakenAdvances
<1>2. /\ Frozen /\ Extended \in Seq(AllPlaces) /\ block \in Seq(AllPlaces) /\ Len(freqHz) \in Nat
      /\ Len(block) \in Nat
  BY TokenExtends DEF IInv, ControlInv, ScanTypes
<1>3. PointSize \in Nat \ {0} /\ Writes(WriterOf, n, PointSize)
  BY <1>2, WriterIsKnown DEF Frozen
<1>4. PICK taken \in Seq(AllPlaces), token \in AllPlaces : taken = Taken /\ token = Token
  BY <1>1
<1> DEFINE longer == Append(taken, token)
<1>5. PICK size \in Nat \ {0}, count \in Nat, ports \in {n}, writer \in {WriterOf} :
         size = PointSize /\ count = Len(freqHz)
  BY <1>2, <1>3
<1>6. /\ Opens(taken, size, count, block)
      /\ Sweeps(taken, size, count, freqHz, file)
      /\ Fills(taken, size, count, s, ports, writer)
      /\ Writes(writer, ports, size)
  BY <1>3, <1>4, <1>5 DEF FramesInv, Behind
<1>7. longer \in Seq(AllPlaces) /\ Begins(longer, taken) /\ Len(taken) \in Nat
  BY <1>4, AppendProperties DEF Begins
<1>8. count * size <= Len(taken)
  <2>1. PICK start \in Nat : start = count * size
    OBVIOUS
  <2>2. Len(taken) = start + Len(block)
    BY <1>6, <2>1 DEF Opens
  <2>. QED
    BY <1>2, <2>1, <2>2
<1>9. /\ Sweeps(longer, size, count, freqHz, file)
      /\ Fills(longer, size, count, s, ports, writer)
  BY <1>6, <1>7, <1>8, FramesStay
<1>10. Opens(longer, size, count, Extended)
  <2>1. Opens(Append(taken, token), size, count, Append(block, token))
    BY <1>2, <1>6, BlockGrows
  <2>. QED
    BY <1>4, <2>1 DEF Extended
<1>11. Taken' = longer
  BY <1>1, <1>4
<1>. QED
  BY <1>2, <1>3, <1>5, <1>7, <1>9, <1>10, <1>11

(* NetworkData::push_line, a token that leaves the point open.               *)
LEMMA TokenKeepsFrames ==
    ASSUME IInv, Declared, SectionsInv, FramesInv, PushToken
    PROVE  FramesInv'
<1>1. /\ pc = "tokens" /\ Advance /\ block' = Extended /\ UNCHANGED <<freqHz, s>>
      /\ UNCHANGED <<file, header>>
  BY DEF PushToken, Advance, input, headerVars
<1>2. n' = n /\ PointSize' = PointSize /\ WriterOf' = WriterOf
  BY <1>1, FramingStays
<1>3. PICK size, writer, ports, b :
         size = PointSize /\ writer = WriterOf /\ ports = n /\ b = Extended
  OBVIOUS
<1>4. PICK taken : taken = Taken'
  OBVIOUS
<1>5. /\ Opens(taken, size, Len(freqHz), b)
      /\ Sweeps(taken, size, Len(freqHz), freqHz, file)
      /\ Fills(taken, size, Len(freqHz), s, ports, writer)
  BY <1>1, <1>3, <1>4, TokenIsFramed
<1>6. SUFFICES /\ Opens(Taken', PointSize', Len(freqHz'), block')
               /\ Sweeps(Taken', PointSize', Len(freqHz'), freqHz', file')
               /\ Fills(Taken', PointSize', Len(freqHz'), s', n', WriterOf')
  BY DEF FramesInv, Opens, Sweeps, Fills, At
<1>. QED
  BY <1>1, <1>2, <1>3, <1>4, <1>5

(* NetworkData::push_line, the token a point is flushed with.                *)
LEMMA PointKeepsFrames ==
    ASSUME IInv, Declared, WrittenInv, SectionsInv, FramesInv, AddPoint
    PROVE  FramesInv'
<1>1. /\ pc = "tokens" /\ Advance /\ block' = <<>> /\ Len(Extended) = PointSize
      /\ s' = s \o Matrix(Extended) /\ freqHz' = Append(freqHz, Value(Extended[1]))
      /\ UNCHANGED <<file, header>>
  BY DEF AddPoint, Advance, input, headerVars
<1>2. n' = n /\ PointSize' = PointSize /\ WriterOf' = WriterOf
  BY <1>1, FramingStays
<1>3. /\ header.nports \in Nat \ {0} /\ freqHz \in Seq(Int) /\ Len(freqHz) \in Nat
      /\ Extended \in Seq(AllPlaces) /\ Value(Extended[1]) \in Int
      /\ s \in Seq(AllPlaces \X AllPlaces)
  BY <1>1, TokenExtends DEF IInv, ControlInv, Frozen, ScanTypes, WrittenInv
<1>4. PICK matrix \in Seq(AllPlaces \X AllPlaces) : matrix = Matrix(Extended)
  BY <1>1, <1>3, MatrixIsTyped
<1>5. /\ n \in Nat \ {0} /\ PointSize \in Nat \ {0} /\ Writes(WriterOf, n, PointSize)
  BY <1>3, WriterIsKnown
<1>6. PICK size \in Nat \ {0}, count \in Nat, ports \in Nat \ {0}, writer \in {WriterOf},
          b \in {Extended}, taken \in {Taken'} :
         /\ size = PointSize /\ count = Len(freqHz) /\ ports = n /\ writer = WriterOf
         /\ b = Extended /\ taken = Taken'
  BY <1>3, <1>5
<1>7. /\ Opens(taken, size, count, b)
      /\ Sweeps(taken, size, count, freqHz, file)
      /\ Fills(taken, size, count, s, ports, writer)
      /\ Writes(writer, ports, size) /\ Len(b) = size
  BY <1>1, <1>5, <1>6, TokenIsFramed
<1>8. Opens(taken, size, count + 1, <<>>)
  <2>1. b \in Seq(AllPlaces) /\ taken \in Seq(AllPlaces)
    BY <1>1, <1>6, TokenIsFramed
  <2>. QED
    BY <1>7, <2>1, BlockCloses
<1>9. Sweeps(taken, size, count + 1, Append(freqHz, At(file, b[1])), file)
  <2>1. At(file, b[1]) \in Int
    BY <1>3, <1>6 DEF At, Value
  <2>. QED
    BY <1>3, <1>7, <2>1, SweepGrows
<1>10. Matrices(s, count, ports) /\ Matrices(matrix, 1, ports)
  <2>1. PICK square \in Nat : square = ports * ports
    OBVIOUS
  <2>2. Len(matrix) = square
    BY <1>4, <1>6, <2>1, MatrixIsWhole
  <2>3. Len(s) = count * square
    <3>1. CASE freqHz = <<>>
      <4>1. s = <<>> /\ count = 0
        BY <1>6, <3>1 DEF IInv, ShapeInv
      <4>. QED
        BY <2>1, <4>1
    <3>2. CASE freqHz # <<>>
      BY <1>6, <2>1, <3>2 DEF IInv, ShapeInv, n
    <3>. QED
      BY <3>1, <3>2
  <2>. QED
    BY <2>1, <2>2, <2>3 DEF Matrices
<1>11. \A row, column \in 1..ports :
          matrix[(row - 1) * ports + column]
            = <<b[2 * writer[<<row, column>>]], b[2 * writer[<<row, column>>] + 1]>>
  <2>1. SUFFICES ASSUME NEW row \in 1..n, NEW column \in 1..n
                 PROVE  Matrix(b)[(row - 1) * n + column]
                          = <<b[2 * WriterOf[<<row, column>>]], b[2 * WriterOf[<<row, column>>] + 1]>>
    BY <1>4, <1>6, ZenonT(40)
  <2>. QED
    BY <1>3, MatrixIsFilled, SMTT(30)
<1>12. Fills(taken, size, count + 1, s \o matrix, ports, writer)
  BY <1>3, <1>7, <1>10, <1>11, FillingGrows
<1>13. /\ Len(freqHz') = count + 1 /\ freqHz' = Append(freqHz, At(file, b[1]))
       /\ s' = s \o matrix
  <2>1. Value(Extended[1]) = At(file, b[1])
    BY <1>6 DEF Value, At
  <2>2. Len(freqHz') = count + 1
    BY <1>1, <1>3, <1>6, AppendProperties
  <2>. QED
    BY <1>1, <1>4, <2>1, <2>2
<1>14. SUFFICES /\ Opens(Taken', PointSize', Len(freqHz'), block')
                /\ Sweeps(Taken', PointSize', Len(freqHz'), freqHz', file')
                /\ Fills(Taken', PointSize', Len(freqHz'), s', n', WriterOf')
  BY DEF FramesInv, Opens, Sweeps, Fills, At
<1>. QED
  BY <1>1, <1>2, <1>6, <1>8, <1>9, <1>12, <1>13

(* A token is on no line of the noise section.                               *)
LEMMA TokenKeepsNoise ==
    ASSUME IInv, NoiseInv, pc = "tokens", Advance
    PROVE  NoiseInv'
<1>1. UNCHANGED <<file, pos, noise>>
  BY DEF Advance, input, rows
<1>2. {noise[i].line : i \in 1..Len(noise)} = {m \in NoiseLines(file) : m <= pos}
  BY DEF NoiseInv, Behind
<1>3. SUFFICES {noise'[i].line : i \in 1..Len(noise')} = {m \in NoiseLines(file') : m <= pos'}
  BY DEF NoiseInv, NoiseLines, LinesOf, DataEnds, DataBegins, NoiseEnds, LineOf, NextOf
<1>. QED
  BY <1>1, <1>2

(* A line behind the header becomes a noise point where the file's noise     *)
(* section has it, and leaves the frames as they are.                        *)
LEMMA LineKeepsFrames ==
    ASSUME IInv, NotesInv, SectionsInv, FramesInv, NoiseInv,
           TakeDataLine \/ SkipSectionLine \/ BeginNoise \/ EndFile \/ AddNoisePoint
    PROVE  FramesInv' /\ NoiseInv'
<1>1. /\ UNCHANGED <<file, header, freqHz, s, block>>
      /\ pc' = "tokens" => col' = 0
      /\ AddNoisePoint => noise' = Append(noise, [hz |-> Line.v[1], line |-> NextLine])
      /\ ~AddNoisePoint => UNCHANGED noise
  BY DEF TakeDataLine, SkipSectionLine, BeginNoise, EndFile, AddNoisePoint, Takes,
         input, headerVars, dataVars, points, rows, Sections
<1>2. SectionLine /\ ScanTypes
  BY SectionTakesLines DEF IInv
<1>3. pc \in Behind
  BY <1>2 DEF SectionLine, Behind
<1>4. FramesInv'
  <2>1. Taken' = Taken
    BY <1>1, <1>2, TakenStays
  <2>. QED
    BY <1>1, <1>3, <2>1, FramesAreKept
<1>5. NoiseInv'
  <2>1. /\ pos \in Nat /\ pos' = pos + 1 /\ pos + 1 \in 1..Len(file) /\ Line = file[pos + 1]
        /\ pos + 1 \in NoiseLines(file) <=> pc = "noise" /\ Line.kind = "data"
        /\ NextLine = pos + 1
    BY <1>2, LineIsClassified DEF NextLine
  <2>2. {noise[i].line : i \in 1..Len(noise)} = {m \in NoiseLines(file) : m <= pos}
    BY <1>3 DEF NoiseInv
  <2>3. \A m \in NoiseLines(file) : m <= pos + 1 <=> m <= pos \/ m = pos + 1
    <3>1. \A m \in NoiseLines(file) : m \in 1..Len(file)
      BY DEF NoiseLines, LinesOf
    <3>. QED
      BY <2>1, <3>1
  <2>4. AddNoisePoint <=> pc = "noise" /\ Line.kind = "data"
    <3>1. AddNoisePoint => pc = "noise" /\ Line.kind = "data"
      BY DEF AddNoisePoint, Takes
    <3>2. ASSUME pc = "noise", Line.kind = "data", ~AddNoisePoint PROVE FALSE
      BY <3>2 DEF TakeDataLine, SkipSectionLine, BeginNoise, EndFile, TakesSectionKeyword,
                  Takes, Sections, Empty
    <3>. QED
      BY <3>1, <3>2
  <2>5. {noise'[i].line : i \in 1..Len(noise')} = {m \in NoiseLines(file) : m <= pos + 1}
    <3>1. CASE AddNoisePoint
      <4>1. PICK row \in Rows : row.line = pos + 1 /\ noise' = Append(noise, row)
        <5>1. Line.v[1] \in Int
          <6>1. PICK row \in Rows : noise' = Append(noise, row)
            BY <3>1, RowPasses
          <6>2. Line.v \in Seq(Int) /\ Len(Line.v) > 0
            BY <1>2, <2>1, <2>4, <3>1, LineIsTyped DEF SectionLine
          <6>3. 1 \in 1..Len(Line.v)
            BY <6>2
          <6>. QED
            BY <6>2, <6>3, ElementOfSeq
        <5>2. [hz |-> Line.v[1], line |-> NextLine] \in Rows
          BY <2>1, <5>1 DEF Rows
        <5>. QED
          BY <1>1, <2>1, <3>1, <5>2
      <4>2. noise \in Seq(Rows) /\ Len(noise) \in Nat
        BY <1>2 DEF ScanTypes
      <4>3. /\ Len(noise') = Len(noise) + 1 /\ noise'[Len(noise) + 1] = row
            /\ \A i \in 1..Len(noise) : noise'[i] = noise[i]
        BY <4>1, <4>2, AppendProperties
      <4>4. {noise'[i].line : i \in 1..Len(noise')}
              = {noise[i].line : i \in 1..Len(noise)} \cup {pos + 1}
        <5>1. \A i \in 1..Len(noise') : i \in 1..Len(noise) \/ i = Len(noise) + 1
          BY <4>2, <4>3
        <5>2. \A i \in 1..Len(noise) : i \in 1..Len(noise')
          BY <4>2, <4>3
        <5>3. Len(noise) + 1 \in 1..Len(noise')
          BY <4>2, <4>3
        <5>. QED
          BY <4>1, <4>3, <5>1, <5>2, <5>3
      <4>5. pos + 1 \in NoiseLines(file)
        BY <2>1, <2>4, <3>1
      <4>. QED
        BY <2>2, <2>3, <4>4, <4>5
    <3>2. CASE ~AddNoisePoint
      BY <1>1, <2>1, <2>2, <2>3, <2>4, <3>2
    <3>. QED
      BY <3>1, <3>2
  <2>6. SUFFICES {noise'[i].line : i \in 1..Len(noise')} = {m \in NoiseLines(file') : m <= pos'}
    BY DEF NoiseInv, NoiseLines, LinesOf, DataEnds, DataBegins, NoiseEnds, LineOf, NextOf
  <2>. QED
    BY <1>1, <2>1, <2>5
<1>. QED
  BY <1>4, <1>5

(* A [Matrix Format] line that was accepted names a format.                  *)
FormatInv == "MatrixFormat" \in header.seen => header.matrixFormat # "none"

(* Every step keeps that.                                                    *)
LEMMA FormatIsNamed ==
    ASSUME ScanTypes, FormatInv, HeaderNext, pc' # "done"
    PROVE  FormatInv'
<1>1. TakesNote /\ "MatrixFormat" \in Noted
  BY HeaderNotes DEF Noted
<1>2. CASE Line.kind # "MatrixFormat"
  <2>1. ("MatrixFormat" \in header'.seen <=> "MatrixFormat" \in header.seen)
        /\ Notes'["MatrixFormat"] = Notes["MatrixFormat"]
    BY <1>1, <1>2 DEF TakesNote
  <2>2. Notes'["MatrixFormat"] = header'.matrixFormat
        /\ Notes["MatrixFormat"] = header.matrixFormat
    BY DEF Notes
  <2>. QED
    BY <2>1, <2>2 DEF FormatInv
<1>3. CASE Line.kind = "MatrixFormat"
  <2>1. Notes'["MatrixFormat"] = Said(file, "MatrixFormat", NextLine)
    BY <1>1, <1>3 DEF TakesNote
  <2>2. header'.matrixFormat = Line.arg
    BY <2>1 DEF Notes, Said, Line
  <2>3. KeywordFault("MatrixFormat") = NoFault \/ Line.kind # "MatrixFormat"
    BY DEF HeaderNext, SkipHeaderLine, TakeOptionLine, IgnoreOptionLine, ApplyKeyword,
           TakeNetworkData, BeginReference, SkipReferenceLine, ExtendReference,
           BeginInformation, SkipInformationLine, EndInformation, RejectOptionLine,
           RejectEarlyData, RejectKeyword, MissNetworkData, RejectReference,
           RejectInformation, FailHeader, Answer, TakesKeyword, Takes, Empty, Bracketed, Keywords
  <2>4. ArgumentFault("MatrixFormat") = NoFault
    BY <1>3, <2>3 DEF KeywordFault
  <2>5. Line.arg \in MatrixFormats
    BY <2>4 DEF ArgumentFault, Counts, NoFault
  <2>. QED
    BY <2>2, <2>5 DEF FormatInv, MatrixFormats
<1>. QED
  BY <1>2, <1>3

(* At the end of the file, the header holds what the whole file says.        *)
LEMMA HeaderIsTheFile ==
    ASSUME IInv, BudgetInv, NotesInv, SectionsInv, FormatInv, pc \in Sections, pos = Len(file)
    PROVE  /\ header.nports = Ports(file) /\ header.nfreqs = Points(file)
           /\ header.matrixFormat \in {"none", "Full"} <=> Format(file) = "Full"
           /\ header.matrixFormat \notin {"none", "Full"} => Format(file) = header.matrixFormat
           /\ n = 2 => header.twoPortOrder = file[LineOf(file, "TwoPortDataOrder")].arg
<1>1. file \in Seq(Lines) /\ Frozen
  BY DEF IInv, ScanTypes, ControlInv
<1>2. ASSUME NEW w \in Noted
      PROVE  /\ w \in header.seen => Has(file, w) /\ Notes[w] = Said(file, w, LineOf(file, w))
             /\ w \notin header.seen => ~Has(file, w) /\ Notes[w] = Unsaid[w]
  <2>1. CASE w \in header.seen
    <3>1. PICK i \in 1..pos : IsFirst(file, i, w) /\ Notes[w] = Said(file, w, i)
      BY <2>1 DEF NotesInv
    <3>2. Has(file, w) /\ LineOf(file, w) = i
      BY <1>1, <3>1, FirstOfItsKind
    <3>. QED
      BY <2>1, <3>1, <3>2
  <2>2. CASE w \notin header.seen
    <3>1. Notes[w] = Unsaid[w] /\ \A i \in 1..Len(file) : file[i].kind # w
      BY <2>2 DEF NotesInv
    <3>2. ~Has(file, w)
      BY <1>1, <3>1, FirstOfItsKind
    <3>. QED
      BY <2>2, <3>1, <3>2
  <2>. QED
    BY <2>1, <2>2
<1>3. header.nports = Ports(file)
  <2>1. Notes["NumberOfPorts"] = header.nports /\ Unsaid["NumberOfPorts"] = None
    BY DEF Notes, Unsaid
  <2>2. header.nports # None
    BY <1>1 DEF Frozen, None
  <2>3. Notes["NumberOfPorts"] = Said(file, "NumberOfPorts", LineOf(file, "NumberOfPorts"))
    BY <1>2, <2>1, <2>2 DEF Noted
  <2>. QED
    BY <2>1, <2>3 DEF Said, Ports
<1>4. header.nfreqs = Points(file)
  <2>1. Notes["NumberOfFrequencies"] = header.nfreqs /\ Unsaid["NumberOfFrequencies"] = None
    BY DEF Notes, Unsaid
  <2>2. header.nfreqs # None
    BY <1>1 DEF Frozen, None
  <2>3. Notes["NumberOfFrequencies"]
          = Said(file, "NumberOfFrequencies", LineOf(file, "NumberOfFrequencies"))
    BY <1>2, <2>1, <2>2 DEF Noted
  <2>. QED
    BY <2>1, <2>3 DEF Said, Points
<1>5. /\ header.matrixFormat \in {"none", "Full"} <=> Format(file) = "Full"
      /\ header.matrixFormat \notin {"none", "Full"} => Format(file) = header.matrixFormat
  <2>1. Notes["MatrixFormat"] = header.matrixFormat /\ Unsaid["MatrixFormat"] = "none"
    BY DEF Notes, Unsaid
  <2>2. CASE "MatrixFormat" \in header.seen
    <3>1. /\ Has(file, "MatrixFormat")
          /\ Notes["MatrixFormat"] = Said(file, "MatrixFormat", LineOf(file, "MatrixFormat"))
      BY <1>2, <2>2 DEF Noted
    <3>2. Format(file) = header.matrixFormat
      BY <2>1, <3>1 DEF Said, Format
    <3>. QED
      BY <2>2, <3>2 DEF FormatInv
  <2>3. CASE "MatrixFormat" \notin header.seen
    <3>1. ~Has(file, "MatrixFormat") /\ header.matrixFormat = "none"
      BY <1>2, <2>1, <2>3 DEF Noted
    <3>. QED
      BY <3>1 DEF Format
  <2>. QED
    BY <2>2, <2>3
<1>6. ASSUME n = 2 PROVE header.twoPortOrder = file[LineOf(file, "TwoPortDataOrder")].arg
  <2>1. Notes["TwoPortDataOrder"] = header.twoPortOrder /\ Unsaid["TwoPortDataOrder"] = "none"
    BY DEF Notes, Unsaid
  <2>2. header.twoPortOrder # "none"
    BY <1>6 DEF SectionsInv, Behind, n
  <2>3. Notes["TwoPortDataOrder"]
          = Said(file, "TwoPortDataOrder", LineOf(file, "TwoPortDataOrder"))
    BY <1>2, <2>1, <2>2 DEF Noted
  <2>. QED
    BY <2>1, <2>3 DEF Said
<1>. QED
  BY <1>3, <1>4, <1>5, <1>6

(* So the pair an entry is written from is the one the file gives it.        *)
LEMMA PairIsTheFiles ==
    ASSUME IInv, BudgetInv, NotesInv, SectionsInv, FormatInv, pc \in Sections, pos = Len(file)
    PROVE  /\ Size(file) = PointSize
           /\ \A row, column \in 1..n : WriterOf[<<row, column>>] = PairOf(file, row, column)
<1>1. /\ n = Ports(file)
      /\ header.matrixFormat \in {"none", "Full"} <=> Format(file) = "Full"
      /\ header.matrixFormat \notin {"none", "Full"} => Format(file) = header.matrixFormat
      /\ n = 2 => header.twoPortOrder = file[LineOf(file, "TwoPortDataOrder")].arg
  BY HeaderIsTheFile DEF n
<1>2. /\ header.nports \in Nat \ {0} /\ Declared
      /\ header.matrixFormat \in MatrixFormats \cup {"none"}
  BY DEF IInv, ScanTypes, ControlInv, Frozen, BudgetInv, Headers
<1>3. n \in Nat \ {0}
  BY <1>2 DEF n
<1>4. Size(file) = PointSize
  <2>1. PICK square \in Nat : square = n * n
    BY <1>3
  <2>2. ValuesPerPoint(n) = 2 * square + 1
    <3>1. ValuesPerPoint(n) # None
      BY <1>2 DEF Declared, None, n
    <3>. QED
      BY <2>1, <3>1 DEF ValuesPerPoint
  <2>3. TriangleValues(n) = square + n + 1
    BY <2>1 DEF TriangleValues
  <2>4. 2 * n * n + 1 = 2 * square + 1 /\ n * (n + 1) + 1 = square + n + 1
    BY <1>3, <2>1
  <2>. QED
    BY <1>1, <2>2, <2>3, <2>4 DEF Size, PointSize, Full
<1>5. ASSUME NEW row \in 1..n, NEW column \in 1..n
      PROVE  WriterOf[<<row, column>>] = PairOf(file, row, column)
  <2>1. PICK k \in 1..Len(entryOrder) : k = WriterOf[<<row, column>>] /\ k \in Writers(row, column)
    BY <1>2, WriterIsKnown
  <2>2. \/ entryOrder[k] = <<row, column>>
        \/ header.matrixFormat \notin {"none", "Full"} /\ entryOrder[k] = <<column, row>>
    BY <2>1 DEF Writers, Full
  <2>3. k = NumberOf(n, header.matrixFormat, header.twoPortOrder, row, column)
    <3>1. PICK ports \in Nat \ {0}, format \in MatrixFormats \cup {"none"},
              order \in {header.twoPortOrder} : ports = n /\ format = header.matrixFormat
      BY <1>2, <1>3
    <3>2. IsNumbered(ports, format, order)
      BY OrderIsNumbered
    <3>3. row \in 1..ports /\ column \in 1..ports /\ order = header.twoPortOrder
      BY <3>1
    <3>4. entryOrder = EntryOrder(ports, format, order)
      BY <3>1, <3>3 DEF entryOrder
    <3>5. /\ k \in 1..Len(EntryOrder(ports, format, order))
          /\ \/ EntryOrder(ports, format, order)[k] = <<row, column>>
             \/ /\ format \notin {"none", "Full"}
                /\ EntryOrder(ports, format, order)[k] = <<column, row>>
      BY <2>1, <2>2, <3>1, <3>4
    <3>6. k = NumberOf(ports, format, order, row, column)
      BY <3>2, <3>3, <3>5, Zenon DEF IsNumbered
    <3>. QED
      BY <3>1, <3>3, <3>6
  <2>4. NumberOf(n, header.matrixFormat, header.twoPortOrder, row, column)
          = PairOf(file, row, column)
    <3>1. CASE header.matrixFormat \in {"none", "Full"}
      BY <1>1, <3>1 DEF NumberOf, PairOf
    <3>2. CASE header.matrixFormat = "Lower"
      <4>1. Format(file) = "Lower"
        BY <1>1, <3>2
      <4>. QED
        BY <3>2, <4>1, Zenon DEF NumberOf, PairOf
    <3>3. CASE header.matrixFormat = "Upper"
      <4>1. Format(file) = "Upper"
        BY <1>1, <3>3
      <4>. QED
        BY <1>1, <3>3, <4>1 DEF NumberOf, PairOf
    <3>. QED
      BY <1>2, <3>1, <3>2, <3>3 DEF MatrixFormats
  <2>. QED
    BY <2>1, <2>3, <2>4
<1>. QED
  BY <1>4, <1>5

(* What is held at the end of a file that is accepted is what it says.       *)
LEMMA FileIsRead ==
    ASSUME IInv, BudgetInv, NotesInv, SectionsInv, FormatInv, FramesInv, NoiseInv,
           pc \in Sections, pos = Len(file), EndFault = NoFault
    PROVE  /\ header.nports = Ports(file)
           /\ freqHz = [k \in 1..Points(file) |-> PointHz(file, k)]
           /\ \A k \in 1..Points(file), row, column \in 1..n :
                 LET i == PairOf(file, row, column)
                 IN  s[(k - 1) * n * n + (row - 1) * n + column]
                       = <<Point(file, k)[2 * i], Point(file, k)[2 * i + 1]>>
           /\ {noise[i].line : i \in 1..Len(noise)} = NoiseLines(file)
<1>1. /\ pc \in Behind /\ pc # "tokens" /\ ScanTypes /\ Declared
      /\ header.nports \in Nat \ {0} /\ freqHz \in Seq(Int)
  BY DEF Behind, Sections, IInv, ScanTypes, ControlInv, Frozen, BudgetInv
<1>2. /\ header.nports = Ports(file) /\ header.nfreqs = Points(file)
      /\ Size(file) = PointSize
      /\ \A row, column \in 1..n : WriterOf[<<row, column>>] = PairOf(file, row, column)
  BY HeaderIsTheFile, PairIsTheFiles
<1>3. block = <<>> /\ Len(freqHz) = header.nfreqs
  BY DEF EndFault, NoFault
<1>4. /\ n \in Nat \ {0} /\ PointSize \in Nat \ {0} /\ Writes(WriterOf, n, PointSize)
  BY <1>1, WriterIsKnown
<1>5. Taken = NetworkTokens(file) /\ Taken \in Seq(AllPlaces)
  <2>1. dataStartsAt \in 1..pos
    BY <1>1, DataStarts
  <2>2. Len(file) # 0
    BY <2>1
  <2>3. Taken = Collection[Len(file)]
    BY <1>1 DEF Taken
  <2>. QED
    BY <1>1, <2>2, <2>3, CollectionGrows
<1>6. PICK tokens \in Seq(AllPlaces), size \in Nat \ {0}, count \in Nat, ports \in {n},
          writer \in {WriterOf} :
         /\ tokens = Taken /\ size = PointSize /\ count = Len(freqHz)
         /\ ports = n /\ writer = WriterOf
  BY <1>1, <1>4, <1>5, SMTT(30)
<1>7. /\ Opens(tokens, size, count, <<>>)
      /\ Sweeps(tokens, size, count, freqHz, file)
      /\ Fills(tokens, size, count, s, ports, writer)
      /\ Writes(writer, ports, size)
  BY <1>1, <1>3, <1>4, <1>6 DEF FramesInv
<1>8. Len(tokens) = count * size
  <2>1. PICK all \in Int : all = count * size
    OBVIOUS
  <2>2. Len(tokens) = all + 0
    BY <1>7, <2>1 DEF Opens
  <2>. QED
    BY <2>1, <2>2
<1>9. ASSUME NEW k \in 1..count, NEW i \in 1..size
      PROVE  Point(file, k)[i] = tokens[(k - 1) * size + i]
  <2>1. SubSeq(tokens, (k - 1) * size + 1, k * size)[i] = tokens[(k - 1) * size + i]
    BY <1>8, PointIsAFrame
  <2>. QED
    BY <1>2, <1>5, <1>6, <2>1 DEF Point
<1>10. count = Points(file)
  BY <1>2, <1>3, <1>6
<1>11. freqHz = [k \in 1..Points(file) |-> PointHz(file, k)]
  <2>1. ASSUME NEW k \in 1..count PROVE freqHz[k] = PointHz(file, k)
    <3>1. k - 1 \in 0..(count - 1) /\ (k - 1) + 1 = k /\ 1 \in 1..size
      OBVIOUS
    <3>2. freqHz[(k - 1) + 1] = At(file, tokens[(k - 1) * size + 1])
      BY <1>7, <3>1, Zenon DEF Sweeps
    <3>3. Point(file, k)[1] = tokens[(k - 1) * size + 1]
      BY <1>9, <3>1, Zenon
    <3>. QED
      BY <3>1, <3>2, <3>3, Zenon DEF PointHz
  <2>2. freqHz = [k \in 1..count |-> freqHz[k]]
    BY <1>1, <1>6
  <2>. QED
    BY <1>10, <2>1, <2>2, Zenon
<1>12. ASSUME NEW k \in 1..Points(file), NEW row \in 1..n, NEW column \in 1..n
       PROVE  s[(k - 1) * n * n + (row - 1) * n + column]
                = <<Point(file, k)[2 * PairOf(file, row, column)],
                    Point(file, k)[2 * PairOf(file, row, column) + 1]>>
  <2>1. k \in 1..count /\ k - 1 \in 0..(count - 1) /\ row \in 1..ports /\ column \in 1..ports
    BY <1>6, <1>10
  <2>2. s[(k - 1) * ports * ports + (row - 1) * ports + column]
          = <<tokens[(k - 1) * size + 2 * writer[<<row, column>>]],
              tokens[(k - 1) * size + (2 * writer[<<row, column>>] + 1)]>>
    BY <1>7, <2>1, Zenon DEF Fills
  <2>3. PICK first \in 1..size, second \in 1..size :
           first = 2 * writer[<<row, column>>] /\ second = 2 * writer[<<row, column>>] + 1
    BY <1>7, <2>1 DEF Writes
  <2>4. Point(file, k)[first] = tokens[(k - 1) * size + first]
        /\ Point(file, k)[second] = tokens[(k - 1) * size + second]
    BY <1>9, <2>1
  <2>5. writer[<<row, column>>] = PairOf(file, row, column)
    BY <1>2, <1>6
  <2>6. s[(k - 1) * ports * ports + (row - 1) * ports + column]
          = <<Point(file, k)[first], Point(file, k)[second]>>
    BY <2>2, <2>3, <2>4, Zenon
  <2>. QED
    BY <1>6, <2>3, <2>5, <2>6, Zenon
<1>13. {noise[i].line : i \in 1..Len(noise)} = NoiseLines(file)
  <2>1. {noise[i].line : i \in 1..Len(noise)} = {m \in NoiseLines(file) : m <= pos}
    BY <1>1 DEF NoiseInv
  <2>2. \A m \in NoiseLines(file) : m <= pos
    BY DEF NoiseLines, LinesOf
  <2>. QED
    BY <2>1, <2>2
<1>. QED
  BY <1>2, <1>11, <1>12, <1>13

(* The reading depends on the file and on what is held of it alone.          *)
Reading ==
    /\ header.nports = Ports(file)
    /\ freqHz = [k \in 1..Points(file) |-> PointHz(file, k)]
    /\ \A k \in 1..Points(file), row, column \in 1..n :
          LET i == PairOf(file, row, column)
          IN  s[(k - 1) * n * n + (row - 1) * n + column]
                = <<Point(file, k)[2 * i], Point(file, k)[2 * i + 1]>>
    /\ {noise[i].line : i \in 1..Len(noise)} = NoiseLines(file)

(* An unchanged file and unchanged points are read as before.                *)
LEMMA ReadingStays ==
    ASSUME Reading, UNCHANGED <<file, header, freqHz, s, noise>>
    PROVE  Reading'
<1>2. SUFFICES
        /\ header'.nports = Ports(file')
        /\ freqHz' = [k \in 1..Points(file') |-> PointHz(file', k)]
        /\ \A k \in 1..Points(file'), row, column \in 1..n' :
              LET i == PairOf(file', row, column)
              IN  s'[(k - 1) * n' * n' + (row - 1) * n' + column]
                    = <<Point(file', k)[2 * i], Point(file', k)[2 * i + 1]>>
        /\ {noise'[i].line : i \in 1..Len(noise')} = NoiseLines(file')
  BY DEF Reading, n, Ports, Points, PointHz, Point, PairOf, NoiseLines, NetworkTokens,
         TokensOn, At, Size, Format, Has, LineOf, LinesOf, NextOf, DataBegins, DataEnds, NoiseEnds
<1>3. n' = n
  BY DEF n
<1>. QED
  BY <1>3 DEF Reading

(* What the reading rests on, and what it comes to.                          *)
ReadingInv ==
    /\ pc # "done" => /\ outcome.kind # "network"
                      /\ NotesInv /\ SectionsInv /\ FormatInv /\ FramesInv /\ NoiseInv
    /\ ReadsWhatTheFileSays

(* Nothing is read before the first line.                                    *)
LEMMA InitReads == Init => ReadingInv
<1>. SUFFICES ASSUME Init PROVE ReadingInv
  OBVIOUS
<1>1. /\ pc = "header" /\ pos = 0 /\ outcome.kind = "reading"
      /\ header.seen = {} /\ header.nports = None /\ header.nfreqs = None
      /\ header.matrixFormat = "none" /\ header.twoPortOrder = "none" /\ dataStartsAt = 0
  BY DEF Init, HeaderInit
<1>2. NotesInv
  BY <1>1 DEF NotesInv, Notes, Unsaid, Noted
<1>. QED
  BY <1>1, <1>2
     DEF ReadingInv, SectionsInv, FormatInv, FramesInv, NoiseInv, ReadsWhatTheFileSays,
         Behind, Sections

(* Every step of the reader keeps the reading true.                          *)
LEMMA StepReads ==
    ASSUME IInv, BudgetInv, RestTyped, WrittenInv, ReadingInv, [Next]_vars
    PROVE  ReadingInv'
<1>1. UNCHANGED file /\ ScanTypes /\ Declared
  BY HeaderSteps
     DEF IInv, ScanTypes, BudgetInv, Next, ReadHeader, HeaderOutcome, FreezePlan, RejectPlan,
         TakeDataLine, PushToken, AddPoint, Advance, RejectToken, Fail, FailHeader,
         SkipSectionLine, BeginNoise, EndFile, RejectSectionKeyword, RejectContent,
         AddNoisePoint, RejectNoiseLine, ReachEnd, Done, vars, input
<1>2. pc # "done" => /\ outcome.kind # "network"
                     /\ NotesInv /\ SectionsInv /\ FormatInv /\ FramesInv /\ NoiseInv
  BY DEF ReadingInv
<1>3. ASSUME outcome'.kind # "network",
             pc' # "done" => NotesInv' /\ SectionsInv' /\ FormatInv' /\ FramesInv' /\ NoiseInv'
      PROVE  ReadingInv'
  BY <1>3 DEF ReadingInv, ReadsWhatTheFileSays
<1>4. CASE ReadHeader
  <2>1. HeaderNext /\ HeaderOutcome
    BY <1>4, HeaderSteps DEF IInv, ReadHeader
  <2>2. pc # "done" /\ (pc' = "done" => outcome'.kind # "network")
    BY <2>1 DEF HeaderOutcome, HeaderLoops
  <2>3. ASSUME pc' # "done"
        PROVE  /\ UNCHANGED outcome
               /\ NotesInv' /\ SectionsInv' /\ FormatInv' /\ FramesInv' /\ NoiseInv'
    <3>1. NotesInv' /\ SectionsInv'
      BY <1>1, <1>2, <2>1, <2>2, <2>3, HeaderKeepsNotes
    <3>2. FormatInv'
      BY <1>1, <1>2, <2>1, <2>2, <2>3, FormatIsNamed
    <3>3. pc' \notin Behind
      BY <1>1, <2>1, <2>3, HeaderNotes DEF HeaderLoops, Behind, Sections
    <3>4. FramesInv' /\ NoiseInv'
      BY <3>3 DEF FramesInv, NoiseInv, Behind, Sections
    <3>5. UNCHANGED outcome
      BY <2>1, <2>3
         DEF HeaderNext, SkipHeaderLine, TakeOptionLine, IgnoreOptionLine, ApplyKeyword,
             TakeNetworkData, BeginReference, SkipReferenceLine, ExtendReference,
             BeginInformation, SkipInformationLine, EndInformation, RejectOptionLine,
             RejectEarlyData, RejectKeyword, MissNetworkData, RejectReference,
             RejectInformation, FailHeader, Answer
    <3>. QED
      BY <3>1, <3>2, <3>4, <3>5
  <2>. QED
    BY <1>2, <1>3, <2>2, <2>3
<1>5. CASE FreezePlan
  <2>1. pc = "plan" /\ UNCHANGED <<outcome, header>>
    BY <1>5 DEF FreezePlan, headerVars
  <2>2. FormatInv'
    BY <1>2, <2>1 DEF FormatInv
  <2>3. NotesInv' /\ SectionsInv'
    BY <1>2, <1>5, <2>1, PlanKeepsNotes
  <2>4. FramesInv' /\ NoiseInv'
    BY <1>1, <1>2, <1>5, <2>1, PlanFrames
  <2>. QED
    BY <1>2, <1>3, <2>1, <2>2, <2>3, <2>4
<1>6. CASE PushToken \/ AddPoint
  <2>1. pc = "tokens" /\ Advance /\ UNCHANGED <<outcome, header>>
    BY <1>6 DEF PushToken, AddPoint, Advance, headerVars
  <2>2. FormatInv'
    BY <1>2, <2>1 DEF FormatInv
  <2>3. NotesInv' /\ SectionsInv'
    BY <1>2, <2>1, TokenKeepsNotes
  <2>4. FramesInv'
    BY <1>1, <1>2, <1>6, <2>1, TokenKeepsFrames, PointKeepsFrames
  <2>5. NoiseInv'
    BY <1>2, <2>1, TokenKeepsNoise
  <2>. QED
    BY <1>2, <1>3, <2>1, <2>2, <2>3, <2>4, <2>5
<1>7. CASE TakeDataLine \/ SkipSectionLine \/ BeginNoise \/ EndFile \/ AddNoisePoint
  <2>1. SectionLine
    BY <1>7, SectionTakesLines
  <2>2. pc # "done" /\ UNCHANGED <<outcome, header>>
    BY <1>7, <2>1
       DEF SectionLine, Sections, TakeDataLine, SkipSectionLine, BeginNoise, EndFile,
           AddNoisePoint
  <2>3. FormatInv'
    BY <1>2, <2>2 DEF FormatInv
  <2>4. NotesInv' /\ SectionsInv'
    BY <1>1, <1>2, <2>1, <2>2, SectionsAreKept
  <2>5. FramesInv' /\ NoiseInv'
    BY <1>2, <1>7, <2>2, LineKeepsFrames
  <2>. QED
    BY <1>2, <1>3, <2>2, <2>3, <2>4, <2>5
<1>8. CASE RejectPlan \/ RejectToken \/ RejectSectionKeyword \/ RejectContent
             \/ RejectNoiseLine \/ (ReachEnd /\ Fail(EndFault, EndFaultLine) /\ EndFault # NoFault)
  <2>1. \E kind, line : Fail(kind, line)
    BY <1>8 DEF RejectPlan, RejectToken, RejectSectionKeyword, RejectContent, RejectNoiseLine
  <2>2. pc' = "done"
    BY <2>1 DEF Fail, FailHeader, Answer
  <2>3. outcome'.kind # "network"
    BY <1>8, SectionAnswers
  <2>. QED
    BY <1>3, <2>2, <2>3
<1>9. CASE ReachEnd /\ EndFault = NoFault /\ ~Fail(EndFault, EndFaultLine)
  <2>1. /\ pc' = "done" /\ pc \in Sections /\ pos = Len(file)
        /\ UNCHANGED <<header, freqHz, s, noise>>
    BY <1>9 DEF ReachEnd, RunsOut, Answer, headerVars, points, rows
  <2>2. NotesInv /\ SectionsInv /\ FormatInv /\ FramesInv /\ NoiseInv
    BY <1>2, <2>1 DEF Sections
  <2>3. /\ header.nports = Ports(file)
        /\ freqHz = [k \in 1..Points(file) |-> PointHz(file, k)]
        /\ \A k \in 1..Points(file), row, column \in 1..n :
              LET i == PairOf(file, row, column)
              IN  s[(k - 1) * n * n + (row - 1) * n + column]
                    = <<Point(file, k)[2 * i], Point(file, k)[2 * i + 1]>>
        /\ {noise[i].line : i \in 1..Len(noise)} = NoiseLines(file)
    BY <1>9, <2>1, <2>2, FileIsRead
  <2>4. Reading'
    BY <1>1, <2>1, <2>3, ReadingStays DEF Reading
  <2>. QED
    BY <2>1, <2>4 DEF ReadingInv, ReadsWhatTheFileSays, Reading
<1>10. CASE Done \/ UNCHANGED vars
  <2>1. /\ UNCHANGED <<pc, pos, outcome, header, dataStartsAt, col, block, freqHz, s, noise>>
        /\ UNCHANGED file
    BY <1>10 DEF Done, vars, input, headerVars, dataVars, points, rows
  <2>2. ReadsWhatTheFileSays'
    <3>1. CASE outcome.kind # "network"
      BY <2>1, <3>1 DEF ReadsWhatTheFileSays
    <3>2. CASE outcome.kind = "network"
      <4>1. Reading
        BY <3>2 DEF ReadingInv, ReadsWhatTheFileSays, Reading
      <4>2. Reading'
        BY <2>1, <4>1, ReadingStays
      <4>. QED
        BY <4>2 DEF ReadsWhatTheFileSays, Reading
    <3>. QED
      BY <3>1, <3>2
  <2>3. ASSUME pc # "done"
        PROVE  NotesInv' /\ SectionsInv' /\ FormatInv' /\ FramesInv' /\ NoiseInv'
    <3>1. NotesInv'
      BY <1>2, <2>1, <2>3 DEF NotesInv, Notes, Said, IsFirst
    <3>2. SectionsInv' /\ FormatInv'
      BY <1>2, <2>1, <2>3
         DEF SectionsInv, FormatInv, Behind, Sections, NetworkLines, LinesOf, DataBegins,
             DataEnds, LineOf, NextOf
    <3>3. FramesInv'
      <4>1. Collection' = Collection
        BY <2>1, CollectionStays
      <4>2. Taken' = Taken
        BY <2>1, <4>1 DEF Taken, FirstOn
      <4>3. pc \notin Behind => pc' \notin Behind
        BY <2>1 DEF Behind, Sections
      <4>4. CASE pc \in Behind
        BY <1>2, <2>1, <2>3, <4>2, <4>4, FramesAreKept
      <4>5. CASE pc \notin Behind
        BY <4>3, <4>5 DEF FramesInv, Behind, Sections
      <4>. QED
        BY <4>4, <4>5
    <3>4. NoiseInv'
      <4>1. pc' \in Behind => pc \in Behind
        BY <2>1 DEF Behind, Sections
      <4>2. SUFFICES ASSUME pc \in Behind
                     PROVE  {noise'[i].line : i \in 1..Len(noise')}
                              = {m \in NoiseLines(file') : m <= pos'}
        BY <4>1 DEF NoiseInv, NoiseLines, LinesOf, DataEnds, DataBegins, NoiseEnds, LineOf,
                    NextOf, Behind, Sections
      <4>3. {noise[i].line : i \in 1..Len(noise)} = {m \in NoiseLines(file) : m <= pos}
        BY <1>2, <2>3, <4>2 DEF NoiseInv
      <4>. QED
        BY <2>1, <4>3
    <3>. QED
      BY <3>1, <3>2, <3>3, <3>4
  <2>. QED
    BY <1>2, <2>1, <2>2, <2>3 DEF ReadingInv
<1>11. ReachEnd => \/ Fail(EndFault, EndFaultLine) /\ EndFault # NoFault
                   \/ EndFault = NoFault
  BY DEF ReachEnd
<1>12. Fail(EndFault, EndFaultLine) /\ EndFault = NoFault /\ ReachEnd => FALSE
  BY DEF ReachEnd, Fail, FailHeader, Answer, NoFault
<1>. QED
  BY <1>4, <1>5, <1>6, <1>7, <1>8, <1>9, <1>10, <1>11, <1>12 DEF Next

(* An accepted 2.x file is read as it says: every token between              *)
(* [Network Data] and the next section stands in its place in its point and  *)
(* fills the matrix entries its number names, wherever the lines break, under *)
(* every matrix format and two-port order, and the noise lines are the noise *)
(* points (Header::read, entry_order, NetworkData::push_line and flush,      *)
(* NoisePoints::push_line).                                                  *)
THEOREM FilesAreReadAsTheySay == Spec => []ReadsWhatTheFileSays
<1>1. Init => ReadingInv
  BY InitReads
<1>2. IInv /\ BudgetInv /\ RestTyped /\ WrittenInv /\ ReadingInv /\ [Next]_vars => ReadingInv'
  BY StepReads
<1>3. ReadingInv => ReadsWhatTheFileSays
  BY DEF ReadingInv
<1>. QED
  BY <1>1, <1>2, <1>3, Invariance, BudgetHolds, RestHolds, WrittenHolds, PTL DEF Spec
-----------------------------------------------------------------------------
(* What the grammar asks of one line, by the lines above it.                 *)
Above(f, i, w) == \E j \in 1..(i - 1) : f[j].kind = w

KeywordHolds(f, i) ==
    /\ f[i].kind \notin {"broken", "MixedModeOrder"}
    /\ f[i].kind \in Keywords => ~Above(f, i, f[i].kind)
    /\ f[i].kind \in InHeader \cup {"EndInformation"} => ~Above(f, i, "NetworkData")
    /\ f[i].kind \in {"Reference", "TwoPortDataOrder"} => Above(f, i, "NumberOfPorts")
    /\ f[i].kind \in {"NoiseData", "End"} => Above(f, i, "NetworkData")
    /\ f[i].kind = "NoiseData" => Above(f, i, "NumberOfNoiseFrequencies")
    /\ f[i].kind = "Version" => \A j \in 1..(i - 1) : f[j].kind \notin Bracketed \cup {"option"}
    /\ f[i].kind = "EndInformation" => Above(f, i, "BeginInformation")
    /\ i \in Information(f) => f[i].kind \notin Bracketed
    /\ Above(f, i, "End") => f[i].kind \in Empty

OptionHolds(f, i) ==
    i \in Options(f) =>
        /\ ~Above(f, i, "NetworkData")
        /\ (\A j \in 1..(i - 1) : j \notin Options(f)) => f[i].arg \in ValueFormats

ArgumentHolds(f, i) ==
    /\ f[i].kind \in Counts \cup {"NumberOfPorts"} => f[i].count > 0
    /\ f[i].kind = "NumberOfPorts" => /\ 2 * f[i].count * f[i].count + 1 <= MaxUsize
                                      /\ \E j \in 1..(i - 1) : j \in Options(f)
    /\ f[i].kind = "TwoPortDataOrder" =>
          /\ f[i].arg \in TwoPortOrders
          /\ \E j \in 1..(i - 1) : f[j].kind = "NumberOfPorts" /\ f[j].count = 2
    /\ f[i].kind = "MatrixFormat" => f[i].arg \in MatrixFormats

RowHolds(f, i) ==
    /\ Len(f[i].v) = 5
    /\ \A c \in 1..5 : Finite(f[i].v[c])
    /\ \A j \in 1..(i - 1) : j \in NoiseLines(f) => f[j].v[1] < f[i].v[1]

NumbersHold(f, i) ==
    /\ i \in Listed(f) => \A c \in 1..Len(f[i].v) : IsOhms(f[i].v[c])
    /\ f[i].kind = "data" /\ i \notin Information(f) /\ ~Above(f, i, "NetworkData")
         => i \in Listed(f)
    /\ f[i].kind = "data" /\ i \in Listed(f)
         => \A j \in 1..(i - 1) : j \in Options(f) => j \notin ReferenceLines(f)
    /\ Above(f, i, "NetworkData") /\ i \in NoiseLines(f) => RowHolds(f, i)

LineHolds(f, i) ==
    KeywordHolds(f, i) /\ OptionHolds(f, i) /\ ArgumentHolds(f, i) /\ NumbersHold(f, i)

(* What it asks of the whole file beside that.                               *)
WholeHolds(f, given) ==
    /\ \A w \in {"NumberOfPorts", "NumberOfFrequencies", "NetworkData"} : Has(f, w)
    /\ Has(f, "TwoPortDataOrder") <=> Ports(f) = 2
    /\ Has(f, "NoiseData") <=> Has(f, "NumberOfNoiseFrequencies")
    /\ Has(f, "NoiseData") =>
          /\ Ports(f) = 2
          /\ Cardinality(NoiseLines(f)) = f[LineOf(f, "NumberOfNoiseFrequencies")].count
    /\ Has(f, "BeginInformation") => Has(f, "EndInformation")
    /\ IF Has(f, "Reference") THEN Len(ReferenceValues(f)) = Ports(f)
       ELSE Len(f[Min(Options(f))].v) \in {1, Ports(f)}
    /\ given \in {None, Ports(f)}
    /\ NetworkHolds(f)
-----------------------------------------------------------------------------
(* The lines of some kinds are finitely many.                                *)
LEMMA LinesAreCounted ==
    ASSUME NEW f \in Seq(Lines), NEW kinds
    PROVE  IsFiniteSet(LinesOf(f, kinds)) /\ Cardinality(LinesOf(f, kinds)) \in Nat
<1>1. Len(f) \in Int /\ 1 \in Int
  OBVIOUS
<1>2. IsFiniteSet(1..Len(f))
  BY <1>1, FS_Interval
<1>3. LinesOf(f, kinds) \in SUBSET (1..Len(f))
  BY DEF LinesOf
<1>4. IsFiniteSet(LinesOf(f, kinds))
  BY <1>2, <1>3, FS_Subset
<1>. QED
  BY <1>4, FS_CardinalityType

(* A set of one thing at most, and its size.                                 *)
LEMMA AtMostOne ==
    ASSUME NEW T, IsFiniteSet(T)
    PROVE  /\ Cardinality(T) <= 1 <=> \A x, y \in T : x = y
           /\ T = {} => Cardinality(T) = 0
           /\ (\A x, y \in T : x = y) /\ T # {} => Cardinality(T) = 1
           /\ T # {} => Cardinality(T) # 0
<1>1. Cardinality(T) \in Nat
  BY FS_CardinalityType
<1>2. T = {} => Cardinality(T) = 0
  BY FS_EmptySet
<1>3. T # {} => Cardinality(T) # 0
  BY FS_EmptySet
<1>4. ASSUME \A x, y \in T : x = y, T # {} PROVE Cardinality(T) = 1
  <2>1. PICK x : x \in T
    BY <1>4
  <2>2. T = {x}
    BY <1>4, <2>1
  <2>. QED
    BY <2>2, FS_Singleton
<1>5. ASSUME Cardinality(T) <= 1, NEW x \in T, NEW y \in T PROVE x = y
  <2>1. SUFFICES ASSUME x # y PROVE FALSE
    OBVIOUS
  <2>2. IsFiniteSet({x}) /\ Cardinality({x}) = 1
    BY FS_Singleton
  <2>3. y \notin {x} /\ {x} \cup {y} \in SUBSET T
    BY <2>1
  <2>4. Cardinality({x} \cup {y}) = 2
    BY <2>2, <2>3, FS_AddElement
  <2>5. Cardinality({x} \cup {y}) <= Cardinality(T)
    BY <2>3, FS_Subset
  <2>. QED
    BY <1>1, <1>5, <2>4, <2>5
<1>. QED
  BY <1>1, <1>2, <1>3, <1>4, <1>5

(* A keyword stands once at most.                                            *)
Single(f) == \A i, j \in 1..Len(f) : f[i].kind \in Keywords /\ f[j].kind = f[i].kind => i = j

(* A keyword counted at most once stands on one line at most.                *)
LEMMA OncePerLine ==
    ASSUME NEW f \in Seq(Lines), NEW w
    PROVE  /\ Cardinality(LinesOf(f, {w})) <= 1
                <=> \A i, j \in 1..Len(f) : f[i].kind = w /\ f[j].kind = w => i = j
           /\ ~Has(f, w) => Cardinality(LinesOf(f, {w})) = 0
           /\ Cardinality(LinesOf(f, {w})) <= 1 /\ Has(f, w) => Cardinality(LinesOf(f, {w})) = 1
           /\ Has(f, w) => Cardinality(LinesOf(f, {w})) # 0
<1>1. PICK T : T = LinesOf(f, {w})
  OBVIOUS
<1>2. \A i : i \in T <=> i \in 1..Len(f) /\ f[i].kind = w
  BY <1>1 DEF LinesOf
<1>3. IsFiniteSet(T)
  BY <1>1, LinesAreCounted
<1>4. Has(f, w) <=> T # {}
  BY <1>1 DEF Has
<1>5. (\A x, y \in T : x = y)
        <=> \A i, j \in 1..Len(f) : f[i].kind = w /\ f[j].kind = w => i = j
  BY <1>2
<1>6. /\ Cardinality(T) <= 1 <=> \A x, y \in T : x = y
      /\ T = {} => Cardinality(T) = 0
      /\ (\A x, y \in T : x = y) /\ T # {} => Cardinality(T) = 1
      /\ T # {} => Cardinality(T) # 0
  BY <1>3, AtMostOne
<1>. QED
  BY <1>1, <1>4, <1>5, <1>6

(* The one line of a keyword.                                                *)
LEMMA TheLine ==
    ASSUME NEW f \in Seq(Lines), Single(f), NEW i \in 1..Len(f), f[i].kind \in Keywords
    PROVE  Has(f, f[i].kind) /\ LineOf(f, f[i].kind) = i /\ IsFirst(f, i, f[i].kind)
<1>1. IsFirst(f, i, f[i].kind)
  BY DEF Single, IsFirst
<1>. QED
  BY <1>1, FirstOfItsKind

(* A keyword that stands anywhere stands where LineOf says.                  *)
LEMMA LineIsThere ==
    ASSUME NEW f \in Seq(Lines), NEW w, Has(f, w)
    PROVE  LineOf(f, w) \in 1..Len(f) /\ f[LineOf(f, w)].kind = w
  BY FirstOfItsKind DEF IsFirst

(* The keywords of a file that holds together, line by line.                 *)
LEMMA KeywordsAreSingle ==
    ASSUME NEW f \in Seq(Lines), KeywordsHold(f)
    PROVE  Single(f)
<1>1. /\ \A w \in Once : Cardinality(LinesOf(f, {w})) <= 1
      /\ Cardinality(LinesOf(f, {"EndInformation"})) = Cardinality(LinesOf(f, {"BeginInformation"}))
  BY DEF KeywordsHold
<1>2. "BeginInformation" \in Once
  BY DEF Once, Keywords
<1>3. Cardinality(LinesOf(f, {"EndInformation"})) <= 1
  BY <1>1, <1>2
<1>4. \A w \in Keywords : Cardinality(LinesOf(f, {w})) <= 1
  BY <1>1, <1>3 DEF Once
<1>5. ASSUME NEW i \in 1..Len(f), NEW j \in 1..Len(f),
             f[i].kind \in Keywords, f[j].kind = f[i].kind
      PROVE  i = j
  <2>1. Cardinality(LinesOf(f, {f[i].kind})) <= 1
    BY <1>4, <1>5
  <2>. QED
    BY <1>5, <2>1, OncePerLine
<1>. QED
  BY <1>5 DEF Single

(* Where the network data begins.                                            *)
LEMMA TheDataLine ==
    ASSUME NEW f \in Seq(Lines), Single(f), Has(f, "NetworkData"), NEW i \in 1..Len(f)
    PROVE  /\ DataBegins(f) \in 1..Len(f) /\ f[DataBegins(f)].kind = "NetworkData"
           /\ IsFirst(f, DataBegins(f), "NetworkData")
           /\ Above(f, i, "NetworkData") <=> DataBegins(f) < i
<1>1. IsFirst(f, DataBegins(f), "NetworkData")
  BY FirstOfItsKind DEF DataBegins
<1>2. PICK d \in 1..Len(f) : d = DataBegins(f) /\ f[d].kind = "NetworkData"
  BY <1>1 DEF IsFirst
<1>3. "NetworkData" \in Keywords
  BY DEF Keywords
<1>4. \A j \in 1..Len(f) : f[j].kind = "NetworkData" => j = d
  BY <1>2, <1>3 DEF Single
<1>5. Above(f, i, "NetworkData") <=> d < i
  BY <1>2, <1>4 DEF Above
<1>. QED
  BY <1>1, <1>2, <1>5

(* A single keyword is above a line when its line is.                        *)
LEMMA AboveIsOne ==
    ASSUME NEW f \in Seq(Lines), Single(f), NEW i \in 1..Len(f), NEW w \in Keywords
    PROVE  Above(f, i, w) <=> Has(f, w) /\ LineOf(f, w) < i
<1>1. ASSUME Above(f, i, w) PROVE Has(f, w) /\ LineOf(f, w) < i
  <2>1. PICK j \in 1..(i - 1) : f[j].kind = w
    BY <1>1 DEF Above
  <2>2. j \in 1..Len(f) /\ j < i
    BY <2>1
  <2>3. Has(f, w) /\ LineOf(f, w) = j
    BY <2>1, <2>2, TheLine
  <2>. QED
    BY <2>2, <2>3
<1>2. ASSUME Has(f, w), LineOf(f, w) < i PROVE Above(f, i, w)
  <2>1. LineOf(f, w) \in 1..Len(f) /\ f[LineOf(f, w)].kind = w
    BY <1>2, LineIsThere
  <2>2. LineOf(f, w) \in 1..(i - 1)
    BY <1>2, <2>1
  <2>. QED
    BY <2>1, <2>2 DEF Above
<1>. QED
  BY <1>1, <1>2

(* The lines of the header and the ends of the two sections.                 *)
LEMMA KeywordOfAGoodFile ==
    ASSUME NEW f \in Seq(Lines), KeywordsHold(f),
           \A i \in NoiseEnds(f)..Len(f) : f[i].kind \in Empty \cup {"End"},
           NEW i \in 1..Len(f)
    PROVE  KeywordHolds(f, i)
<1>1. Single(f)
  BY KeywordsAreSingle
<1>2. PICK d \in 1..Len(f) : /\ d = DataBegins(f) /\ f[d].kind = "NetworkData"
                             /\ \A j \in 1..Len(f) : Above(f, j, "NetworkData") <=> d < j
  <2>1. Has(f, "NetworkData")
    BY DEF KeywordsHold
  <2>2. DataBegins(f) \in 1..Len(f) /\ f[DataBegins(f)].kind = "NetworkData"
    BY <2>1, LineIsThere DEF DataBegins
  <2>3. \A j \in 1..Len(f) : Above(f, j, "NetworkData") <=> DataBegins(f) < j
    BY <1>1, <2>1, TheDataLine
  <2>. QED
    BY <2>2, <2>3
<1>3. \A w \in Keywords : Above(f, i, w) <=> Has(f, w) /\ LineOf(f, w) < i
  BY <1>1, AboveIsOne
<1>4. f[i].kind \in Keywords => Has(f, f[i].kind) /\ LineOf(f, f[i].kind) = i
  BY <1>1, TheLine
<1>5. f[i].kind \notin {"broken", "MixedModeOrder"}
  BY DEF KeywordsHold, LinesOf
<1>6. f[i].kind \in Keywords => ~Above(f, i, f[i].kind)
  BY <1>3, <1>4
<1>7. \A b : b = LineOf(f, "BeginInformation") /\ Has(f, "BeginInformation")
             => /\ b \in 1..Len(f) /\ b <= d /\ b # d
                /\ f[b].kind = "BeginInformation"
                /\ Has(f, "EndInformation") /\ b < LineOf(f, "EndInformation")
                /\ LineOf(f, "EndInformation") < d
  <2>1. SUFFICES ASSUME NEW b, b = LineOf(f, "BeginInformation"), Has(f, "BeginInformation")
                 PROVE  /\ b \in 1..Len(f) /\ b <= d /\ b # d
                        /\ f[b].kind = "BeginInformation"
                        /\ Has(f, "EndInformation") /\ b < LineOf(f, "EndInformation")
                        /\ LineOf(f, "EndInformation") < d
    OBVIOUS
  <2>2. b \in 1..Len(f) /\ f[b].kind = "BeginInformation"
    BY <2>1, LineIsThere
  <2>3. "BeginInformation" \in InHeader
    BY DEF InHeader, Once, Keywords
  <2>4. b <= d /\ b # d
    BY <1>2, <2>1, <2>2, <2>3 DEF KeywordsHold
  <2>5. Has(f, "EndInformation")
    <3>1. Cardinality(LinesOf(f, {"EndInformation"})) # 0
      BY <2>1, OncePerLine DEF KeywordsHold
    <3>. QED
      BY <3>1, OncePerLine
  <2>6. b < LineOf(f, "EndInformation") /\ Information(f) \cap LinesOf(f, Bracketed) = {}
    BY <2>1 DEF KeywordsHold
  <2>7. PICK e \in 1..Len(f) : e = LineOf(f, "EndInformation") /\ f[e].kind = "EndInformation"
    BY <2>5, LineIsThere
  <2>8. ASSUME d < e PROVE FALSE
    <3>1. d \in LinesOf(f, Bracketed)
      BY <1>2 DEF LinesOf, Bracketed, Keywords
    <3>2. IsFirst(f, b, "BeginInformation")
      BY <1>1, <2>2, TheLine DEF Keywords
    <3>3. \A j \in b..d : f[j].kind # "EndInformation"
      <4>1. \A j \in 1..Len(f) : f[j].kind = "EndInformation" => j = e
        BY <1>1, <2>7 DEF Single, Keywords
      <4>2. \A j \in b..d : j \in 1..Len(f) /\ j # e
        BY <1>2, <2>2, <2>8
      <4>. QED
        BY <4>1, <4>2
    <3>4. b \in 1..(d - 1)
      BY <2>2, <2>4
    <3>5. d \in Information(f)
      BY <3>2, <3>3, <3>4, InformationLines
    <3>. QED
      BY <2>6, <3>1, <3>5
  <2>9. d # e
    BY <1>2, <2>7
  <2>. QED
    BY <2>2, <2>4, <2>5, <2>6, <2>7, <2>8, <2>9
<1>8. f[i].kind = "EndInformation" => /\ Above(f, i, "BeginInformation")
                                      /\ ~Above(f, i, "NetworkData")
  <2>1. SUFFICES ASSUME f[i].kind = "EndInformation"
                 PROVE  Above(f, i, "BeginInformation") /\ ~(d < i)
    BY <1>2
  <2>2. Has(f, "EndInformation") /\ LineOf(f, "EndInformation") = i
    BY <1>4, <2>1 DEF Keywords
  <2>3. Has(f, "BeginInformation")
    <3>1. Cardinality(LinesOf(f, {"BeginInformation"})) # 0
      BY <2>2, OncePerLine DEF KeywordsHold
    <3>. QED
      BY <3>1, OncePerLine
  <2>4. LineOf(f, "BeginInformation") < i /\ i < d
    BY <1>7, <2>2, <2>3
  <2>5. "BeginInformation" \in Keywords
    BY DEF Keywords
  <2>. QED
    BY <1>3, <2>3, <2>4, <2>5
<1>9. f[i].kind \in InHeader => ~Above(f, i, "NetworkData")
  <2>1. SUFFICES ASSUME f[i].kind \in InHeader PROVE ~(d < i)
    BY <1>2
  <2>2. f[i].kind \in Keywords
    BY <2>1 DEF InHeader, Once
  <2>3. i <= d
    BY <1>2, <1>4, <2>1, <2>2 DEF KeywordsHold
  <2>. QED
    BY <2>3
<1>10. f[i].kind \in {"Reference", "TwoPortDataOrder"} => Above(f, i, "NumberOfPorts")
  <2>1. SUFFICES ASSUME f[i].kind \in {"Reference", "TwoPortDataOrder"}
                 PROVE  Above(f, i, "NumberOfPorts")
    OBVIOUS
  <2>2. f[i].kind \in Keywords /\ "NumberOfPorts" \in Keywords
    BY <2>1 DEF Keywords
  <2>3. Has(f, "NumberOfPorts") /\ LineOf(f, "NumberOfPorts") < i
    BY <1>4, <2>1, <2>2 DEF KeywordsHold
  <2>. QED
    BY <1>3, <2>2, <2>3
<1>11. f[i].kind \in {"NoiseData", "End"} => Above(f, i, "NetworkData")
  <2>1. SUFFICES ASSUME f[i].kind \in {"NoiseData", "End"} PROVE d < i
    BY <1>2
  <2>2. f[i].kind \in Keywords
    BY <2>1 DEF Keywords
  <2>. QED
    BY <1>2, <1>4, <2>1, <2>2 DEF KeywordsHold
<1>12. f[i].kind = "NoiseData" => Above(f, i, "NumberOfNoiseFrequencies")
  <2>1. SUFFICES ASSUME f[i].kind = "NoiseData" PROVE Above(f, i, "NumberOfNoiseFrequencies")
    OBVIOUS
  <2>2. /\ "NoiseData" \in Keywords /\ "NumberOfNoiseFrequencies" \in Keywords
        /\ "NumberOfNoiseFrequencies" \in InHeader
    BY DEF Keywords, InHeader, Once
  <2>3. Has(f, "NoiseData") /\ LineOf(f, "NoiseData") = i /\ d < i
    BY <1>2, <1>4, <1>11, <2>1, <2>2
  <2>4. Has(f, "NumberOfNoiseFrequencies") /\ LineOf(f, "NumberOfNoiseFrequencies") <= d
    BY <1>2, <2>2, <2>3 DEF KeywordsHold
  <2>5. LineOf(f, "NumberOfNoiseFrequencies") \in 1..Len(f)
    BY <2>4, LineIsThere
  <2>6. LineOf(f, "NumberOfNoiseFrequencies") < i
    BY <2>3, <2>4, <2>5
  <2>. QED
    BY <1>3, <2>2, <2>4, <2>6
<1>13. f[i].kind = "Version" => \A j \in 1..(i - 1) : f[j].kind \notin Bracketed \cup {"option"}
  <2>1. SUFFICES ASSUME f[i].kind = "Version", NEW j \in 1..(i - 1),
                        f[j].kind \in Bracketed \cup {"option"}
                 PROVE  FALSE
    OBVIOUS
  <2>2. j \in LinesOf(f, Bracketed \cup {"option"}) /\ j < i
    BY <2>1 DEF LinesOf
  <2>3. Has(f, "Version") /\ LineOf(f, "Version") = i
    BY <1>4, <2>1 DEF Keywords
  <2>. QED
    BY <2>2, <2>3 DEF KeywordsHold
<1>14. i \in Information(f) => f[i].kind \notin Bracketed
  <2>1. i \in Information(f) => Has(f, "BeginInformation")
    BY DEF Information
  <2>2. Has(f, "BeginInformation") => Information(f) \cap LinesOf(f, Bracketed) = {}
    BY DEF KeywordsHold
  <2>. QED
    BY <2>1, <2>2 DEF LinesOf
<1>15. Above(f, i, "End") => f[i].kind \in Empty
  <2>1. SUFFICES ASSUME Above(f, i, "End") PROVE f[i].kind \in Empty
    OBVIOUS
  <2>2. PICK e \in 1..(i - 1) : f[e].kind = "End"
    BY <2>1 DEF Above
  <2>3. e \in 1..Len(f) /\ "End" \in Keywords
    BY DEF Keywords
  <2>4. Has(f, "End") /\ LineOf(f, "End") = e
    BY <1>1, <2>2, <2>3, TheLine
  <2>5. d < e
    BY <1>2, <2>4 DEF KeywordsHold
  <2>6. d \in Nat /\ d <= e /\ e \in d..e
    BY <2>5
  <2>7. ~(e < NextOf(f, d, {"End"}))
    BY <2>2, <2>3, <2>6, InFrontOfNext
  <2>8. NextOf(f, d, {"End"}) \in Nat
    BY <2>6, NextIsOfItsKind
  <2>9. i \in NoiseEnds(f)..Len(f)
    BY <1>2, <2>2, <2>7, <2>8 DEF NoiseEnds
  <2>10. f[i].kind # "End"
    BY <1>6, <2>1, <2>3
  <2>. QED
    BY <2>9, <2>10
<1>. QED
  BY <1>5, <1>6, <1>8, <1>9, <1>10, <1>11, <1>12, <1>13, <1>14, <1>15 DEF KeywordHolds

(* A file whose lines hold has each keyword once.                            *)
LEMMA LinesAreSingle ==
    ASSUME NEW f \in Seq(Lines), \A i \in 1..Len(f) : KeywordHolds(f, i)
    PROVE  Single(f)
<1>1. SUFFICES ASSUME NEW i \in 1..Len(f), NEW j \in 1..Len(f), f[i].kind \in Keywords,
                      f[j].kind = f[i].kind
               PROVE  i = j
  BY DEF Single
<1>2. \A a, b \in 1..Len(f) : a < b => a \in 1..(b - 1)
  OBVIOUS
<1>3. ~(i < j)
  <2>1. SUFFICES ASSUME i < j PROVE FALSE
    OBVIOUS
  <2>2. Above(f, j, f[j].kind)
    BY <1>1, <1>2, <2>1 DEF Above
  <2>. QED
    BY <1>1, <2>2 DEF KeywordHolds
<1>4. ~(j < i)
  <2>1. SUFFICES ASSUME j < i PROVE FALSE
    OBVIOUS
  <2>2. Above(f, i, f[i].kind)
    BY <1>1, <1>2, <2>1 DEF Above
  <2>. QED
    BY <1>1, <2>2 DEF KeywordHolds
<1>. QED
  BY <1>3, <1>4

(* What the whole file has to have of keywords.                              *)
KeywordsThere(f) ==
    /\ \A w \in {"NumberOfPorts", "NumberOfFrequencies", "NetworkData"} : Has(f, w)
    /\ Has(f, "TwoPortDataOrder") <=> Ports(f) = 2
    /\ Has(f, "NoiseData") <=> Has(f, "NumberOfNoiseFrequencies")
    /\ Has(f, "NoiseData") => Ports(f) = 2
    /\ Has(f, "BeginInformation") => Has(f, "EndInformation")

(* Lines that hold one by one have their keywords in order.                  *)
LEMMA GoodKeywords ==
    ASSUME NEW f \in Seq(Lines), \A i \in 1..Len(f) : KeywordHolds(f, i), KeywordsThere(f)
    PROVE  KeywordsHold(f) /\ \A i \in NoiseEnds(f)..Len(f) : f[i].kind \in Empty \cup {"End"}
<1>1. Single(f)
  BY LinesAreSingle
<1>2. PICK d \in 1..Len(f) : /\ d = DataBegins(f) /\ f[d].kind = "NetworkData"
                             /\ \A j \in 1..Len(f) : Above(f, j, "NetworkData") <=> d < j
  <2>1. Has(f, "NetworkData")
    BY DEF KeywordsThere
  <2>2. DataBegins(f) \in 1..Len(f) /\ f[DataBegins(f)].kind = "NetworkData"
    BY <2>1, LineIsThere DEF DataBegins
  <2>3. \A j \in 1..Len(f) : Above(f, j, "NetworkData") <=> DataBegins(f) < j
    BY <1>1, <2>1, TheDataLine
  <2>. QED
    BY <2>2, <2>3
<1>3. \A i \in 1..Len(f), w \in Keywords : Above(f, i, w) <=> Has(f, w) /\ LineOf(f, w) < i
  BY <1>1, AboveIsOne
<1>4. \A w : Has(f, w) => LineOf(f, w) \in 1..Len(f) /\ f[LineOf(f, w)].kind = w
  BY LineIsThere
<1>5. LinesOf(f, {"broken", "MixedModeOrder"}) = {}
  BY DEF LinesOf, KeywordHolds
<1>6. \A w \in Keywords : Cardinality(LinesOf(f, {w})) <= 1
  <2>1. SUFFICES ASSUME NEW w \in Keywords PROVE Cardinality(LinesOf(f, {w})) <= 1
    OBVIOUS
  <2>2. \A i, j \in 1..Len(f) : f[i].kind = w /\ f[j].kind = w => i = j
    BY <1>1 DEF Single
  <2>. QED
    BY <2>2, OncePerLine
<1>7. \A i \in LinesOf(f, Bracketed \cup {"option"}) :
         Has(f, "Version") => LineOf(f, "Version") <= i
  <2>1. SUFFICES ASSUME NEW i \in LinesOf(f, Bracketed \cup {"option"}), Has(f, "Version"),
                        ~(LineOf(f, "Version") <= i)
                 PROVE  FALSE
    OBVIOUS
  <2>2. PICK v \in 1..Len(f) : v = LineOf(f, "Version") /\ f[v].kind = "Version"
    BY <1>4, <2>1
  <2>3. i \in 1..(v - 1) /\ f[i].kind \in Bracketed \cup {"option"}
    BY <2>1, <2>2 DEF LinesOf
  <2>. QED
    BY <2>2, <2>3 DEF KeywordHolds
<1>8. ASSUME NEW w \in InHeader, Has(f, w) PROVE LineOf(f, w) <= d
  <2>1. PICK i \in 1..Len(f) : i = LineOf(f, w) /\ f[i].kind = w
    BY <1>4, <1>8
  <2>2. ~Above(f, i, "NetworkData")
    BY <1>8, <2>1 DEF KeywordHolds
  <2>. QED
    BY <1>2, <2>1, <2>2
<1>9. ASSUME NEW w \in {"Reference", "TwoPortDataOrder"}, Has(f, w)
      PROVE  LineOf(f, "NumberOfPorts") < LineOf(f, w)
  <2>1. PICK i \in 1..Len(f) : i = LineOf(f, w) /\ f[i].kind = w
    BY <1>4, <1>9
  <2>2. Above(f, i, "NumberOfPorts") /\ "NumberOfPorts" \in Keywords
    BY <2>1 DEF KeywordHolds, Keywords
  <2>. QED
    BY <1>3, <2>1, <2>2
<1>10. ASSUME NEW w \in {"NoiseData", "End"}, Has(f, w) PROVE d < LineOf(f, w)
  <2>1. PICK i \in 1..Len(f) : i = LineOf(f, w) /\ f[i].kind = w
    BY <1>4, <1>10
  <2>2. Above(f, i, "NetworkData")
    BY <2>1 DEF KeywordHolds
  <2>. QED
    BY <1>2, <2>1, <2>2
<1>11. ASSUME Has(f, "NoiseData"), Has(f, "End") PROVE LineOf(f, "NoiseData") < LineOf(f, "End")
  <2>1. PICK i \in 1..Len(f) : i = LineOf(f, "NoiseData") /\ f[i].kind = "NoiseData"
    BY <1>4, <1>11
  <2>2. PICK e \in 1..Len(f) : e = LineOf(f, "End") /\ f[e].kind = "End"
    BY <1>4, <1>11
  <2>3. ~Above(f, i, "End")
    BY <2>1 DEF KeywordHolds, Empty
  <2>4. ~(e < i)
    BY <1>3, <1>11, <2>2, <2>3 DEF Keywords
  <2>5. e # i
    BY <2>1, <2>2
  <2>. QED
    BY <2>1, <2>2, <2>4, <2>5
<1>12. ASSUME Has(f, "EndInformation")
       PROVE  Has(f, "BeginInformation") /\ LineOf(f, "BeginInformation") < LineOf(f, "EndInformation")
  <2>1. PICK i \in 1..Len(f) : i = LineOf(f, "EndInformation") /\ f[i].kind = "EndInformation"
    BY <1>4, <1>12
  <2>2. Above(f, i, "BeginInformation") /\ "BeginInformation" \in Keywords
    BY <2>1 DEF KeywordHolds, Keywords
  <2>. QED
    BY <1>3, <2>1, <2>2
<1>13. Cardinality(LinesOf(f, {"EndInformation"})) = Cardinality(LinesOf(f, {"BeginInformation"}))
  <2>1. "EndInformation" \in Keywords /\ "BeginInformation" \in Keywords
    BY DEF Keywords
  <2>2. Has(f, "EndInformation") <=> Has(f, "BeginInformation")
    BY <1>12 DEF KeywordsThere
  <2>. QED
    BY <1>6, <2>1, <2>2, OncePerLine
<1>14. Has(f, "BeginInformation") =>
            /\ LineOf(f, "BeginInformation") < LineOf(f, "EndInformation")
            /\ Information(f) \cap LinesOf(f, Bracketed) = {}
  <2>1. Information(f) \cap LinesOf(f, Bracketed) = {}
    BY DEF KeywordHolds, LinesOf
  <2>. QED
    BY <1>12, <2>1 DEF KeywordsThere
<1>15. KeywordsHold(f)
  <2>1. \A w \in Once : Cardinality(LinesOf(f, {w})) <= 1
    BY <1>6 DEF Once
  <2>2. \A w \in InHeader : Has(f, w) => LineOf(f, w) <= DataBegins(f)
    BY <1>2, <1>8
  <2>3. \A w \in {"NoiseData", "End"} : Has(f, w) => DataBegins(f) < LineOf(f, w)
    BY <1>2, <1>10
  <2>4. \A i, j \in Keywords : i = "NoiseData" /\ j = "End" /\ Has(f, i) /\ Has(f, j)
                                => LineOf(f, i) < LineOf(f, j)
    BY <1>11
  <2>. QED
    BY <1>5, <1>7, <1>9, <1>13, <1>14, <2>1, <2>2, <2>3, <2>4 DEF KeywordsHold, KeywordsThere
<1>16. ASSUME NEW i \in NoiseEnds(f)..Len(f) PROVE f[i].kind \in Empty \cup {"End"}
  <2>1. PICK e \in Nat : e = NextOf(f, d, {"End"})
    BY NextIsOfItsKind
  <2>2. NoiseEnds(f) = e
    BY <1>2, <2>1 DEF NoiseEnds
  <2>3. e \in 1..Len(f) /\ f[e].kind = "End" /\ i \in 1..Len(f)
    BY <1>16, <2>1, <2>2, NextIsOfItsKind
  <2>4. CASE i = e
    BY <2>3, <2>4
  <2>5. CASE i # e
    <3>1. e \in 1..(i - 1)
      BY <1>16, <2>2, <2>3, <2>5
    <3>2. Above(f, i, "End")
      BY <2>3, <3>1 DEF Above
    <3>. QED
      BY <2>3, <3>2 DEF KeywordHolds
  <2>. QED
    BY <2>4, <2>5
<1>. QED
  BY <1>15, <1>16

-----------------------------------------------------------------------------
(* Options, line by line.                                                    *)
LEMMA OptionsOfAGoodFile ==
    ASSUME NEW f \in Seq(Lines), Single(f), Has(f, "NetworkData"), OptionsHold(f),
           NEW i \in 1..Len(f)
    PROVE  OptionHolds(f, i)
<1>1. SUFFICES ASSUME i \in Options(f)
               PROVE  /\ ~Above(f, i, "NetworkData")
                      /\ (\A j \in 1..(i - 1) : j \notin Options(f)) => f[i].arg \in ValueFormats
  BY DEF OptionHolds
<1>2. PICK T : T = Options(f)
  OBVIOUS
<1>3. T \subseteq 1..Len(f) /\ T \subseteq Nat /\ T # {} /\ i \in T /\ Len(f) \in Nat
  BY <1>1, <1>2 DEF Options, LinesOf
<1>4. Max(T) < DataBegins(f) /\ f[Min(T)].arg \in ValueFormats
  BY <1>2 DEF OptionsHold
<1>5. ~Above(f, i, "NetworkData")
  <2>1. Max(T) \in T /\ i <= Max(T)
    BY <1>3, MaxIsLargest
  <2>2. Above(f, i, "NetworkData") <=> DataBegins(f) < i
    BY TheDataLine
  <2>3. DataBegins(f) \in 1..Len(f) /\ Max(T) \in 1..Len(f)
    BY <1>3, <2>1, TheDataLine
  <2>. QED
    BY <1>4, <2>1, <2>2, <2>3
<1>6. ASSUME \A j \in 1..(i - 1) : j \notin T PROVE f[i].arg \in ValueFormats
  <2>1. Min(T) \in T /\ Min(T) <= i
    BY <1>3, MinIsLeast
  <2>2. Min(T) \in 1..Len(f)
    BY <1>3, <2>1
  <2>3. Min(T) = i
    BY <1>6, <2>1, <2>2
  <2>. QED
    BY <1>4, <2>3
<1>. QED
  BY <1>2, <1>5, <1>6

(* They have their option lines where the grammar wants them.                *)
LEMMA GoodOptions ==
    ASSUME NEW f \in Seq(Lines), \A i \in 1..Len(f) : LineHolds(f, i), KeywordsThere(f)
    PROVE  OptionsHold(f)
<1>1. /\ \A i \in 1..Len(f) : /\ KeywordHolds(f, i) /\ OptionHolds(f, i)
                              /\ ArgumentHolds(f, i) /\ NumbersHold(f, i)
  BY DEF LineHolds
<1>2. Single(f)
  BY <1>1, LinesAreSingle
<1>3. PICK T : T = Options(f)
  OBVIOUS
<1>4. T \subseteq 1..Len(f) /\ T \subseteq Nat /\ Len(f) \in Nat
      /\ \A i \in T : f[i].kind = "option"
  BY <1>3 DEF Options, LinesOf
<1>5. PICK p \in 1..Len(f) : p = LineOf(f, "NumberOfPorts") /\ f[p].kind = "NumberOfPorts"
  BY LineIsThere DEF KeywordsThere
<1>6. PICK q \in 1..(p - 1) : q \in T
  BY <1>1, <1>3, <1>5 DEF ArgumentHolds
<1>7. Min(T) \in T /\ \A x \in T : Min(T) <= x
  BY <1>4, <1>6, MinIsLeast
<1>8. Max(T) \in T
  BY <1>4, <1>6, MaxIsLargest
<1>9. f[Min(T)].arg \in ValueFormats
  <2>1. PICK m \in 1..Len(f) : m = Min(T) /\ m \in T
    BY <1>4, <1>7
  <2>2. \A j \in 1..(m - 1) : j \notin T
    BY <1>7, <2>1
  <2>. QED
    BY <1>1, <1>3, <2>1, <2>2 DEF OptionHolds
<1>10. Min(T) < p
  <2>1. Min(T) <= q
    BY <1>6, <1>7
  <2>. QED
    BY <1>4, <1>5, <1>6, <1>7, <2>1
<1>11. Max(T) < DataBegins(f)
  <2>1. PICK m \in 1..Len(f) : m = Max(T) /\ m \in T /\ f[m].kind = "option"
    BY <1>4, <1>8
  <2>2. ~Above(f, m, "NetworkData")
    BY <1>1, <1>3, <2>1 DEF OptionHolds
  <2>3. Has(f, "NetworkData")
    BY DEF KeywordsThere
  <2>4. /\ DataBegins(f) \in 1..Len(f) /\ f[DataBegins(f)].kind = "NetworkData"
        /\ ~(DataBegins(f) < m)
    BY <1>2, <2>2, <2>3, TheDataLine
  <2>5. DataBegins(f) # m
    BY <2>1, <2>4
  <2>. QED
    BY <2>1, <2>4, <2>5
<1>12. ASSUME NEW i \in T \cap ReferenceLines(f), NEW j \in LinesOf(f, {"data"}),
              j \in ReferenceLines(f)
       PROVE  j < i
  <2>1. j \in 1..Len(f) /\ f[j].kind = "data" /\ j \in Listed(f)
    BY <1>12 DEF LinesOf, Listed
  <2>2. i \in 1..Len(f) /\ i # j
    BY <1>4, <1>12, <2>1
  <2>3. ~(i \in 1..(j - 1))
    BY <1>1, <1>3, <1>12, <2>1 DEF NumbersHold
  <2>. QED
    BY <2>1, <2>2, <2>3
<1>. QED
  BY <1>3, <1>5, <1>6, <1>9, <1>10, <1>11, <1>12 DEF OptionsHold
-----------------------------------------------------------------------------
(* A sequence holds the tokens of some lines of a file and no other.         *)
AreTokensOf(q, f, lines) ==
    /\ q \in Seq(AllPlaces)
    /\ \A k \in 1..Len(q) : \E i \in 1..Len(f) : \E c \in 1..Len(f[i].v) :
          i \in lines /\ q[k] = <<i, c>>
    /\ \A i \in 1..Len(f) : i \in lines =>
          \A c \in 1..Len(f[i].v) : \E k \in 1..Len(q) : q[k] = <<i, c>>

(* The tokens on a set of lines stand on those lines, and are all there.     *)
LEMMA TokensStandOnLines ==
    ASSUME NEW f \in Seq(Lines), Len(f) # 0, NEW lines
    PROVE  AreTokensOf(TokensOn(f, lines), f, lines)
<1>1. PICK last \in Nat : last = Len(f) /\ last # 0
  OBVIOUS
<1>2. PICK seqs : seqs = [i \in 1..last |-> OnOneOf(f, lines, i)]
  OBVIOUS
<1>3. \A i \in 1..last : seqs[i] = OnOneOf(f, lines, i) /\ OnOneOf(f, lines, i) \in Seq(AllPlaces)
  <2>1. ASSUME NEW i \in 1..last PROVE OnOneOf(f, lines, i) \in Seq(AllPlaces)
    <3>1. OnLine(f, i) \in Seq(AllPlaces) /\ <<>> \in Seq(AllPlaces)
      BY <1>1, OnLineIsTyped
    <3>. QED
      BY <3>1 DEF OnOneOf
  <2>. QED
    BY <1>2, <2>1
<1>4. Len(seqs) = last
  BY <1>2, <1>3, FunctionIsSequence
<1>5. TokensOn(f, lines) = FlattenSeq(seqs)
  <2>1. seqs = [i \in 1..Len(f) |-> IF i \in lines THEN [c \in 1..Len(f[i].v) |-> <<i, c>>]
                                    ELSE <<>>]
    BY <1>1, <1>2 DEF OnOneOf, OnLine
  <2>. QED
    BY <2>1 DEF TokensOn
<1>6. PICK flat : flat = TokensOn(f, lines)
  OBVIOUS
<1>7. flat \in Seq(AllPlaces) /\ \E start \in [0..last -> Nat] : LaidOut(seqs, start, flat)
  <2>1. \A i \in 1..last : seqs[i] \in Seq(AllPlaces)
    BY <1>3
  <2>2. /\ FlattenSeq(seqs) \in Seq(AllPlaces)
        /\ \E start \in [0..last -> Nat] : LaidOut(seqs, start, FlattenSeq(seqs))
    BY <1>1, <1>4, <2>1, FlattenLaysOut
  <2>. QED
    BY <1>5, <1>6, <2>2
<1>8. PICK start \in [0..last -> Nat] : LaidOut(seqs, start, flat)
  BY <1>7
<1>9. /\ start[0] = 0 /\ Len(flat) = start[last]
      /\ \A i \in 1..last : start[i] = start[i - 1] + Len(seqs[i]) /\ start[i] <= Len(flat)
      /\ \A i \in 1..last : \A j \in 1..Len(seqs[i]) : flat[start[i - 1] + j] = seqs[i][j]
  BY <1>4, <1>8 DEF LaidOut, Holds
<1>10. \A i \in 1..last : Len(seqs[i]) \in Nat
  BY <1>3
<1>11. \A i \in 1..last : i \in lines => /\ Len(seqs[i]) = Len(f[i].v)
                                         /\ \A c \in 1..Len(f[i].v) : seqs[i][c] = <<i, c>>
  <2>1. SUFFICES ASSUME NEW i \in 1..last, i \in lines
                 PROVE  Len(seqs[i]) = Len(f[i].v) /\ \A c \in 1..Len(f[i].v) : seqs[i][c] = <<i, c>>
    OBVIOUS
  <2>2. seqs[i] = OnLine(f, i)
    BY <1>3, <2>1 DEF OnOneOf
  <2>3. Len(OnLine(f, i)) = Len(f[i].v)
    BY <1>1, OnLineIsTyped
  <2>. QED
    BY <2>2, <2>3 DEF OnLine
<1>12. \A i \in 1..last : i \notin lines => Len(seqs[i]) = 0
  BY <1>3 DEF OnOneOf
<1>13. ASSUME NEW k \in 1..Len(flat)
       PROVE  \E i \in 1..last : \E c \in 1..Len(f[i].v) : i \in lines /\ flat[k] = <<i, c>>
  <2>1. PICK i \in 1..last : start[i - 1] < k /\ k <= start[i]
    BY <1>9, PlaceLiesInAPart
  <2>2. start[i - 1] \in Nat /\ start[i] \in Nat /\ start[i] = start[i - 1] + Len(seqs[i])
    BY <1>9
  <2>3. PICK c \in 1..Len(seqs[i]) : k = start[i - 1] + c
    <3>1. PICK a \in Nat, width \in Nat : a = start[i - 1] /\ width = Len(seqs[i])
      BY <1>10, <2>2
    <3>2. k \in Nat /\ a < k /\ k <= a + width
      BY <2>1, <2>2, <3>1
    <3>3. k - a \in 1..width /\ k = a + (k - a)
      BY <3>2
    <3>. QED
      BY <3>1, <3>3
  <2>4. flat[k] = seqs[i][c]
    BY <1>9, <2>3
  <2>5. i \in lines
    BY <1>12, <2>3
  <2>. QED
    BY <1>11, <2>3, <2>4, <2>5
<1>14. ASSUME NEW i \in 1..last, i \in lines, NEW c \in 1..Len(f[i].v)
       PROVE  \E k \in 1..Len(flat) : flat[k] = <<i, c>>
  <2>1. c \in 1..Len(seqs[i]) /\ seqs[i][c] = <<i, c>>
    BY <1>11, <1>14
  <2>2. start[i - 1] \in Nat /\ start[i] \in Nat /\ start[i] = start[i - 1] + Len(seqs[i])
        /\ start[i] <= Len(flat) /\ Len(flat) \in Nat /\ Len(seqs[i]) \in Nat
    BY <1>7, <1>9, <1>10
  <2>3. start[i - 1] + c \in 1..Len(flat)
    <3>1. PICK a \in Nat, b \in Nat : a = start[i - 1] /\ b = Len(flat)
      BY <2>2
    <3>2. c \in 1..b /\ a + c <= b
      BY <2>1, <2>2, <3>1, SMTT(30)
    <3>. QED
      BY <3>1, <3>2
  <2>4. flat[start[i - 1] + c] = <<i, c>>
    BY <1>9, <2>1
  <2>. QED
    BY <2>3, <2>4
<1>. QED
  BY <1>1, <1>6, <1>7, <1>13, <1>14 DEF AreTokensOf

(* A grammatical file has a good argument on each line.                      *)
LEMMA ArgumentsOfAGoodFile ==
    ASSUME NEW f \in Seq(Lines), KeywordsHold(f), OptionsHold(f), ArgumentsHold(f),
           NEW i \in 1..Len(f)
    PROVE  ArgumentHolds(f, i)
<1>1. Single(f)
  BY KeywordsAreSingle
<1>2. f[i].kind \in Keywords => Has(f, f[i].kind) /\ LineOf(f, f[i].kind) = i
  BY <1>1, TheLine
<1>3. f[i].kind \in Counts \cup {"NumberOfPorts"} => f[i].count > 0
  <2>1. SUFFICES ASSUME NEW w \in Counts \cup {"NumberOfPorts"}, f[i].kind = w
                 PROVE  f[i].count > 0
    OBVIOUS
  <2>2. Has(f, w) /\ LineOf(f, w) = i
    BY <1>2, <2>1 DEF Counts, Keywords
  <2>. QED
    BY <2>2 DEF ArgumentsHold
<1>4. f[i].kind = "NumberOfPorts" => /\ 2 * f[i].count * f[i].count + 1 <= MaxUsize
                                     /\ \E j \in 1..(i - 1) : j \in Options(f)
  <2>1. SUFFICES ASSUME f[i].kind = "NumberOfPorts"
                 PROVE  /\ 2 * f[i].count * f[i].count + 1 <= MaxUsize
                        /\ \E j \in 1..(i - 1) : j \in Options(f)
    OBVIOUS
  <2>2. LineOf(f, "NumberOfPorts") = i
    BY <1>2, <2>1 DEF Keywords
  <2>3. 2 * f[i].count * f[i].count + 1 <= MaxUsize
    BY <2>2 DEF ArgumentsHold, Ports
  <2>4. Options(f) \subseteq Nat /\ Options(f) # {} /\ \A x \in Options(f) : x \in 1..Len(f)
    BY DEF OptionsHold, Options, LinesOf
  <2>5. Min(Options(f)) \in Options(f) /\ Min(Options(f)) < i
    BY <2>2, <2>4, MinIsLeast DEF OptionsHold
  <2>6. Min(Options(f)) \in 1..(i - 1)
    BY <2>4, <2>5
  <2>. QED
    BY <2>3, <2>5, <2>6
<1>5. f[i].kind = "TwoPortDataOrder" =>
          /\ f[i].arg \in TwoPortOrders
          /\ \E j \in 1..(i - 1) : f[j].kind = "NumberOfPorts" /\ f[j].count = 2
  <2>1. SUFFICES ASSUME f[i].kind = "TwoPortDataOrder"
                 PROVE  /\ f[i].arg \in TwoPortOrders
                        /\ \E j \in 1..(i - 1) : f[j].kind = "NumberOfPorts" /\ f[j].count = 2
    OBVIOUS
  <2>2. Has(f, "TwoPortDataOrder") /\ LineOf(f, "TwoPortDataOrder") = i
    BY <1>2, <2>1 DEF Keywords
  <2>3. f[i].arg \in TwoPortOrders
    BY <2>2 DEF ArgumentsHold
  <2>4. Has(f, "NumberOfPorts") /\ LineOf(f, "NumberOfPorts") < i /\ Ports(f) = 2
    BY <2>2 DEF KeywordsHold
  <2>5. PICK p \in 1..Len(f) : p = LineOf(f, "NumberOfPorts") /\ f[p].kind = "NumberOfPorts"
    BY <2>4, LineIsThere
  <2>6. f[p].count = 2 /\ p \in 1..(i - 1)
    BY <2>4, <2>5 DEF Ports
  <2>. QED
    BY <2>3, <2>5, <2>6
<1>6. f[i].kind = "MatrixFormat" => f[i].arg \in MatrixFormats
  <2>1. SUFFICES ASSUME f[i].kind = "MatrixFormat" PROVE f[i].arg \in MatrixFormats
    OBVIOUS
  <2>2. Has(f, "MatrixFormat") /\ LineOf(f, "MatrixFormat") = i
    BY <1>2, <2>1 DEF Keywords
  <2>. QED
    BY <2>2 DEF ArgumentsHold, Format
<1>. QED
  BY <1>3, <1>4, <1>5, <1>6 DEF ArgumentHolds

(* The numbers of the list are the values of the lines it stands on.         *)
LEMMA ListIsUsable ==
    ASSUME NEW f \in Seq(Lines), Len(f) # 0
    PROVE  (\A k \in 1..Len(ReferenceValues(f)) : IsOhms(At(f, ReferenceValues(f)[k])))
             <=> \A i \in 1..Len(f) : i \in Listed(f) => \A c \in 1..Len(f[i].v) : IsOhms(f[i].v[c])
<1>1. PICK q : q = ReferenceValues(f)
  OBVIOUS
<1>2. q = TokensOn(f, Listed(f))
  BY <1>1 DEF ReferenceValues, Listed
<1>3. /\ \A k \in 1..Len(q) : \E i \in 1..Len(f) : \E c \in 1..Len(f[i].v) :
               i \in Listed(f) /\ q[k] = <<i, c>>
      /\ \A i \in 1..Len(f) : i \in Listed(f) =>
            \A c \in 1..Len(f[i].v) : \E k \in 1..Len(q) : q[k] = <<i, c>>
  <2>1. AreTokensOf(q, f, Listed(f))
    BY <1>2, TokensStandOnLines
  <2>. QED
    BY <2>1 DEF AreTokensOf
<1>4. \A i, c : At(f, <<i, c>>) = f[i].v[c]
  BY DEF At
<1>5. ASSUME \A k \in 1..Len(q) : IsOhms(At(f, q[k])),
             NEW i \in 1..Len(f), i \in Listed(f), NEW c \in 1..Len(f[i].v)
      PROVE  IsOhms(f[i].v[c])
  <2>1. PICK k \in 1..Len(q) : q[k] = <<i, c>>
    BY <1>3, <1>5
  <2>. QED
    BY <1>4, <1>5, <2>1
<1>6. ASSUME \A i \in 1..Len(f) : i \in Listed(f) => \A c \in 1..Len(f[i].v) : IsOhms(f[i].v[c]),
             NEW k \in 1..Len(q)
      PROVE  IsOhms(At(f, q[k]))
  <2>1. PICK i \in 1..Len(f) : \E c \in 1..Len(f[i].v) : i \in Listed(f) /\ q[k] = <<i, c>>
    BY <1>3
  <2>2. PICK c \in 1..Len(f[i].v) : i \in Listed(f) /\ q[k] = <<i, c>>
    BY <2>1
  <2>. QED
    BY <1>4, <1>6, <2>2
<1>. QED
  BY <1>1, <1>5, <1>6

(* A line of the [Reference] list stands in a file.                          *)
LEMMA ListedNeedsReference ==
    ASSUME NEW f \in Seq(Lines), NEW i \in Listed(f)
    PROVE  Has(f, "Reference") /\ i \in 1..Len(f)
  BY DEF Listed, ReferenceLines, LinesOf

(* A grammatical file has its numbers where a section wants them.            *)
LEMMA NumbersOfAGoodFile ==
    ASSUME NEW f \in Seq(Lines), KeywordsHold(f), OptionsHold(f), ArgumentsHold(f), NoiseHolds(f),
           NEW i \in 1..Len(f)
    PROVE  NumbersHold(f, i)
<1>1. Single(f) /\ Has(f, "NetworkData") /\ Len(f) # 0
  <2>1. Single(f)
    BY KeywordsAreSingle
  <2>2. Has(f, "NetworkData")
    BY DEF KeywordsHold
  <2>3. Len(f) # 0
    OBVIOUS
  <2>. QED
    BY <2>1, <2>2, <2>3
<1>2. i \in Listed(f) => \A c \in 1..Len(f[i].v) : IsOhms(f[i].v[c])
  <2>1. SUFFICES ASSUME i \in Listed(f) PROVE \A c \in 1..Len(f[i].v) : IsOhms(f[i].v[c])
    OBVIOUS
  <2>2. Has(f, "Reference")
    BY <2>1, ListedNeedsReference
  <2>3. \A k \in 1..Len(ReferenceValues(f)) : IsOhms(At(f, ReferenceValues(f)[k]))
    BY <2>2 DEF ArgumentsHold, IsOhms
  <2>. QED
    BY <1>1, <2>1, <2>3, ListIsUsable
<1>3. ASSUME f[i].kind = "data", i \notin Information(f), ~Above(f, i, "NetworkData")
      PROVE  i \in Listed(f)
  <2>1. /\ DataBegins(f) \in 1..Len(f) /\ f[DataBegins(f)].kind = "NetworkData"
        /\ ~(DataBegins(f) < i)
    BY <1>1, <1>3, TheDataLine
  <2>2. i < DataBegins(f)
    BY <1>3, <2>1
  <2>3. i \in LinesOf(f, {"data"}) \ Information(f)
    BY <1>3 DEF LinesOf
  <2>4. i \in ReferenceLines(f)
    BY <2>2, <2>3 DEF ArgumentsHold
  <2>. QED
    BY <1>3, <2>4 DEF Listed, LinesOf
<1>4. ASSUME f[i].kind = "data", i \in Listed(f), NEW j \in 1..(i - 1), j \in Options(f)
      PROVE  j \notin ReferenceLines(f)
  <2>1. SUFFICES ASSUME j \in ReferenceLines(f) PROVE FALSE
    OBVIOUS
  <2>2. i \in LinesOf(f, {"data"}) /\ i \in ReferenceLines(f)
    BY <1>4 DEF LinesOf, Listed
  <2>3. i < j
    BY <1>4, <2>1, <2>2 DEF OptionsHold
  <2>. QED
    BY <1>4, <2>3
<1>5. ASSUME i \in NoiseLines(f) PROVE RowHolds(f, i)
  <2>1. Len(f[i].v) = 5 /\ \A c \in 1..5 : Finite(f[i].v[c])
    BY <1>5 DEF NoiseHolds
  <2>2. ASSUME NEW j \in 1..(i - 1), j \in NoiseLines(f) PROVE f[j].v[1] < f[i].v[1]
    BY <1>5, <2>2 DEF NoiseHolds
  <2>. QED
    BY <2>1, <2>2 DEF RowHolds
<1>. QED
  BY <1>2, <1>3, <1>4, <1>5 DEF NumbersHold

(* Lines that hold one by one hold the arguments the grammar wants.          *)
LEMMA GoodArguments ==
    ASSUME NEW f \in Seq(Lines), \A i \in 1..Len(f) : LineHolds(f, i), NEW given, WholeHolds(f, given)
    PROVE  ArgumentsHold(f)
<1>1. \A i \in 1..Len(f) : KeywordHolds(f, i) /\ ArgumentHolds(f, i) /\ NumbersHold(f, i)
  BY DEF LineHolds
<1>2. Single(f)
  BY <1>1, LinesAreSingle
<1>3. \A w : Has(f, w) => LineOf(f, w) \in 1..Len(f) /\ f[LineOf(f, w)].kind = w
  BY LineIsThere
<1>4. ASSUME NEW w \in Counts \cup {"NumberOfPorts"}, Has(f, w) PROVE f[LineOf(f, w)].count > 0
  <2>1. PICK i \in 1..Len(f) : i = LineOf(f, w) /\ f[i].kind = w
    BY <1>3, <1>4
  <2>. QED
    BY <1>1, <1>4, <2>1 DEF ArgumentHolds
<1>5. 2 * Ports(f) * Ports(f) + 1 <= MaxUsize
  <2>1. Has(f, "NumberOfPorts")
    BY DEF WholeHolds
  <2>2. PICK i \in 1..Len(f) : i = LineOf(f, "NumberOfPorts") /\ f[i].kind = "NumberOfPorts"
    BY <1>3, <2>1
  <2>. QED
    BY <1>1, <2>2 DEF ArgumentHolds, Ports
<1>6. ASSUME Has(f, "TwoPortDataOrder") PROVE f[LineOf(f, "TwoPortDataOrder")].arg \in TwoPortOrders
  <2>1. PICK i \in 1..Len(f) : i = LineOf(f, "TwoPortDataOrder") /\ f[i].kind = "TwoPortDataOrder"
    BY <1>3, <1>6
  <2>. QED
    BY <1>1, <2>1 DEF ArgumentHolds
<1>7. Format(f) \in MatrixFormats
  <2>1. CASE Has(f, "MatrixFormat")
    <3>1. PICK i \in 1..Len(f) : i = LineOf(f, "MatrixFormat") /\ f[i].kind = "MatrixFormat"
      BY <1>3, <2>1
    <3>. QED
      BY <1>1, <2>1, <3>1 DEF ArgumentHolds, Format
  <2>2. CASE ~Has(f, "MatrixFormat")
    BY <2>2 DEF Format, MatrixFormats
  <2>. QED
    BY <2>1, <2>2
<1>8. Has(f, "NetworkData") /\ Len(f) # 0
  <2>1. Has(f, "NetworkData")
    BY DEF WholeHolds
  <2>2. LineOf(f, "NetworkData") \in 1..Len(f)
    BY <1>3, <2>1
  <2>. QED
    BY <2>1, <2>2
<1>9. ASSUME Has(f, "Reference")
      PROVE  /\ Len(ReferenceValues(f)) = Ports(f)
             /\ \A i \in 1..Ports(f) : /\ 0 < At(f, ReferenceValues(f)[i])
                                       /\ Finite(At(f, ReferenceValues(f)[i]))
  <2>1. Len(ReferenceValues(f)) = Ports(f)
    BY <1>9 DEF WholeHolds
  <2>2. \A i \in 1..Len(f) : i \in Listed(f) => \A c \in 1..Len(f[i].v) : IsOhms(f[i].v[c])
    BY <1>1 DEF NumbersHold
  <2>3. \A k \in 1..Len(ReferenceValues(f)) : IsOhms(At(f, ReferenceValues(f)[k]))
    BY <1>8, <2>2, ListIsUsable
  <2>. QED
    BY <2>1, <2>3 DEF IsOhms
<1>10. ASSUME ~Has(f, "Reference") PROVE Len(f[Min(Options(f))].v) \in {1, Ports(f)}
  BY <1>10 DEF WholeHolds
<1>11. ASSUME NEW i \in LinesOf(f, {"data"}) \ Information(f), i < DataBegins(f)
       PROVE  i \in ReferenceLines(f)
  <2>1. i \in 1..Len(f) /\ f[i].kind = "data" /\ i \notin Information(f)
    BY <1>11 DEF LinesOf
  <2>2. DataBegins(f) \in 1..Len(f) /\ (Above(f, i, "NetworkData") <=> DataBegins(f) < i)
    BY <1>2, <1>8, <2>1, TheDataLine
  <2>3. ~Above(f, i, "NetworkData")
    BY <1>11, <2>1, <2>2
  <2>4. i \in Listed(f)
    BY <1>1, <2>1, <2>3 DEF NumbersHold
  <2>. QED
    BY <2>4 DEF Listed
<1>. QED
  BY <1>4, <1>5, <1>6, <1>7, <1>9, <1>10, <1>11 DEF ArgumentsHold

(* They hold the noise rows the grammar wants.                               *)
LEMMA GoodNoise ==
    ASSUME NEW f \in Seq(Lines), \A i \in 1..Len(f) : LineHolds(f, i), NEW given, WholeHolds(f, given)
    PROVE  NoiseHolds(f)
<1>1. \A i \in 1..Len(f) : KeywordHolds(f, i) /\ NumbersHold(f, i)
  BY DEF LineHolds
<1>2. Single(f)
  BY <1>1, LinesAreSingle
<1>3. Has(f, "NetworkData")
  BY DEF WholeHolds
<1>4. \A i \in NoiseLines(f) : i \in 1..Len(f)
  BY DEF NoiseLines, LinesOf
<1>5. ASSUME NEW i \in NoiseLines(f) PROVE RowHolds(f, i)
  <2>1. i \in 1..Len(f)
    BY <1>4, <1>5
  <2>2. IsFirst(f, DataBegins(f), "NetworkData") /\ DataBegins(f) \in 1..Len(f)
    BY <1>2, <1>3, <2>1, TheDataLine
  <2>3. DataBegins(f) < i
    BY <1>5, <2>1, <2>2, SectionLines
  <2>4. Above(f, i, "NetworkData")
    BY <1>2, <1>3, <2>1, <2>3, TheDataLine
  <2>. QED
    BY <1>1, <1>5, <2>1, <2>4 DEF NumbersHold
<1>6. ASSUME NEW i \in NoiseLines(f), NEW j \in NoiseLines(f), i < j
      PROVE  f[i].v[1] < f[j].v[1]
  <2>1. i \in 1..(j - 1)
    BY <1>4, <1>6
  <2>. QED
    BY <1>5, <2>1 DEF RowHolds
<1>7. \A i \in NoiseLines(f) : Len(f[i].v) = 5 /\ \A c \in 1..5 : Finite(f[i].v[c])
  BY <1>5 DEF RowHolds
<1>8. Has(f, "NoiseData") =>
          Cardinality(NoiseLines(f)) = f[LineOf(f, "NumberOfNoiseFrequencies")].count
  BY DEF WholeHolds
<1>. QED
  BY <1>6, <1>7, <1>8 DEF NoiseHolds

(* What the grammar asks of a file, asked line by line.                      *)
LEMMA GrammarLineByLine ==
    ASSUME NEW f \in Seq(Lines), NEW given
    PROVE  WellFormed(f, given) <=> (\A i \in 1..Len(f) : LineHolds(f, i)) /\ WholeHolds(f, given)
<1>1. ASSUME WellFormed(f, given)
      PROVE  (\A i \in 1..Len(f) : LineHolds(f, i)) /\ WholeHolds(f, given)
  <2>1. /\ KeywordsHold(f) /\ OptionsHold(f) /\ ArgumentsHold(f) /\ NetworkHolds(f) /\ NoiseHolds(f)
        /\ given \in {None, Ports(f)}
        /\ \A i \in NoiseEnds(f)..Len(f) : f[i].kind \in Empty \cup {"End"}
    BY <1>1 DEF WellFormed
  <2>2. Single(f) /\ Has(f, "NetworkData")
    <3>1. Single(f)
      BY <2>1, KeywordsAreSingle
    <3>. QED
      BY <2>1, <3>1 DEF KeywordsHold
  <2>3. ASSUME NEW i \in 1..Len(f) PROVE LineHolds(f, i)
    <3>1. KeywordHolds(f, i)
      BY <2>1, KeywordOfAGoodFile
    <3>2. OptionHolds(f, i)
      BY <2>1, <2>2, OptionsOfAGoodFile
    <3>3. ArgumentHolds(f, i)
      BY <2>1, ArgumentsOfAGoodFile
    <3>4. NumbersHold(f, i)
      BY <2>1, NumbersOfAGoodFile
    <3>. QED
      BY <3>1, <3>2, <3>3, <3>4 DEF LineHolds
  <2>4. Has(f, "BeginInformation") => Has(f, "EndInformation")
    <3>1. SUFFICES ASSUME Has(f, "BeginInformation") PROVE Has(f, "EndInformation")
      OBVIOUS
    <3>2. Cardinality(LinesOf(f, {"EndInformation"})) # 0
      BY <2>1, <3>1, OncePerLine DEF KeywordsHold
    <3>. QED
      BY <3>2, OncePerLine
  <2>5. WholeHolds(f, given)
    BY <2>1, <2>4 DEF WholeHolds, KeywordsHold, ArgumentsHold, NoiseHolds
  <2>. QED
    BY <2>3, <2>5
<1>2. ASSUME \A i \in 1..Len(f) : LineHolds(f, i), WholeHolds(f, given)
      PROVE  WellFormed(f, given)
  <2>1. KeywordsThere(f)
    BY <1>2 DEF WholeHolds, KeywordsThere
  <2>2. \A i \in 1..Len(f) : KeywordHolds(f, i)
    BY <1>2 DEF LineHolds
  <2>3. KeywordsHold(f) /\ \A i \in NoiseEnds(f)..Len(f) : f[i].kind \in Empty \cup {"End"}
    BY <2>1, <2>2, GoodKeywords
  <2>4. OptionsHold(f)
    BY <1>2, <2>1, GoodOptions
  <2>5. ArgumentsHold(f) /\ NoiseHolds(f)
    BY <1>2, GoodArguments, GoodNoise
  <2>6. given \in {None, Ports(f)} /\ NetworkHolds(f)
    BY <1>2 DEF WholeHolds
  <2>. QED
    BY <2>3, <2>4, <2>5, <2>6 DEF WellFormed
<1>. QED
  BY <1>1, <1>2

(* What the scan knows of the lines above: each is one the grammar allows,   *)
(* and the header and the place in the loop say which keywords they held.    *)
LinesInv == \A i \in 1..pos : LineHolds(file, i)

ClaimedInv ==
    /\ header.seen \subseteq InHeader
    /\ \A w \in InHeader : w \in header.seen <=> \E i \in 1..pos : file[i].kind = w

RowsNoteInv ==
    IF "NumberOfNoiseFrequencies" \in header.seen
    THEN \E i \in 1..pos : /\ file[i].kind = "NumberOfNoiseFrequencies"
                           /\ header.nnoise = file[i].count
    ELSE header.nnoise = None

EndedInv ==
    /\ pc = "ended" <=> \E i \in 1..pos : file[i].kind = "End"
    /\ noiseStartsAt # 0 <=> \E i \in 1..pos : file[i].kind = "NoiseData"

(* A list that is open is short, and no option line stands in it.            *)
OpenInv ==
    pc = "reference" =>
        /\ Len(list) < header.nports
        /\ \A i \in 1..pos : i \in Options(file) => i \notin ReferenceLines(file)

HeaderInv ==
    /\ LinesInv /\ ClaimedInv /\ RowsNoteInv /\ EndedInv /\ OpenInv
    /\ header.options \in 0..pos

(* What was known before of a scan that goes on.                             *)
Known ==
    /\ ScanTypes /\ Declared
    /\ SeenInv /\ ListInv /\ BlocksInv /\ OptionsInv
    /\ NotesInv /\ SectionsInv /\ FormatInv

(* What that says of the line in front of the scan.                          *)
Ahead(m) ==
    /\ m = NextLine /\ m = pos + 1 /\ m \in 1..Len(file) /\ Line = file[m]
    /\ file[m].kind \in Kinds /\ file[m].count \in Nat
    /\ \A w \in InHeader : Above(file, m, w) <=> w \in header.seen
    /\ Above(file, m, "NetworkData") <=> pc \in {"plan"} \cup Behind
    /\ Above(file, m, "End") <=> pc = "ended"
    /\ Above(file, m, "NoiseData") <=> noiseStartsAt # 0
    /\ m \in Information(file) <=> pc = "information" /\ file[m].kind # "EndInformation"
    /\ m \in Options(file) <=> file[m].kind = "option" /\ pc # "information"
    /\ (\E j \in 1..(m - 1) : j \in Options(file)) <=> header.options # 0

(* The line in front of the scan is seen as the header state says.           *)
LEMMA LineAhead ==
    ASSUME Known, HeaderInv, pos < Len(file)
    PROVE  Ahead(pos + 1)
<1>1. ScanTypes /\ BlocksInv /\ OptionsInv /\ SectionsInv
  BY DEF Known
<1>2. PICK m \in 1..Len(file) : m = pos + 1
  BY <1>1 DEF ScanTypes
<1>3. /\ NextLine = m /\ Line = file[m] /\ file[m].kind \in Kinds /\ file[m].count \in Nat
  BY <1>1, <1>2, LineIsTyped DEF NextLine, Line
<1>4. pos \in Nat /\ m - 1 = pos /\ file \in Seq(Lines) /\ Len(file) \in Nat
  BY <1>1, <1>2 DEF ScanTypes
<1>5. \A w : Above(file, m, w) <=> \E i \in 1..pos : file[i].kind = w
  BY <1>4 DEF Above
<1>6. \A w \in InHeader : Above(file, m, w) <=> w \in header.seen
  BY <1>5 DEF HeaderInv, ClaimedInv
<1>7. Above(file, m, "NetworkData") <=> pc \in {"plan"} \cup Behind
  <2>1. "NetworkData" \in InHeader
    BY DEF InHeader, Once, Keywords
  <2>. QED
    BY <1>1, <1>6, <2>1 DEF SectionsInv
<1>8. /\ Above(file, m, "End") <=> pc = "ended"
      /\ Above(file, m, "NoiseData") <=> noiseStartsAt # 0
  BY <1>5 DEF HeaderInv, EndedInv
<1>9. m \in Information(file) <=> pc = "information" /\ file[m].kind # "EndInformation"
  <2>1. m \in Information(file)
          <=> \E b \in 1..pos : /\ IsFirst(file, b, "BeginInformation")
                                /\ \A j \in b..m : file[j].kind # "EndInformation"
    <3>1. m \in Information(file)
            <=> \E b \in 1..(m - 1) : /\ IsFirst(file, b, "BeginInformation")
                                      /\ \A j \in b..m : file[j].kind # "EndInformation"
      BY <1>4, InformationLines
    <3>. QED
      BY <1>4, <3>1
  <2>2. \A b \in 1..pos : /\ b \in Nat /\ m \in b..m
                          /\ \A j \in b..m : j \in b..pos \/ j = m
                          /\ \A j \in b..pos : j \in b..m
    BY <1>2, <1>4
  <2>3. CASE pc = "information"
    <3>1. PICK b \in 1..pos : /\ IsFirst(file, b, "BeginInformation")
                              /\ \A j \in b..pos : file[j].kind # "EndInformation"
      BY <1>1, <2>3 DEF BlocksInv
    <3>. QED
      BY <2>1, <2>2, <2>3, <3>1
  <2>4. CASE pc # "information"
    <3>1. \A b \in 1..pos : IsFirst(file, b, "BeginInformation")
                              => \E e \in b..pos : file[e].kind = "EndInformation"
      BY <1>1, <2>4 DEF BlocksInv
    <3>. QED
      BY <2>1, <2>2, <2>4, <3>1
  <2>. QED
    BY <2>3, <2>4
<1>10. m \in Options(file) <=> file[m].kind = "option" /\ pc # "information"
  <2>1. m \in Options(file) <=> file[m].kind = "option" /\ m \notin Information(file)
    BY DEF Options, LinesOf
  <2>. QED
    BY <1>9, <2>1
<1>11. (\E j \in 1..pos : j \in Options(file)) <=> header.options # 0
  <2>1. CASE header.options = 0
    BY <1>1, <2>1 DEF OptionsInv
  <2>2. CASE header.options # 0
    <3>1. header.options \in Options(file) /\ header.options \in 0..pos
      BY <1>1, <2>2 DEF OptionsInv, HeaderInv
    <3>2. header.options \in 1..pos
      BY <1>4, <2>2, <3>1
    <3>. QED
      BY <2>2, <3>1, <3>2
  <2>. QED
    BY <2>1, <2>2
<1>12. (\E j \in 1..(m - 1) : j \in Options(file)) <=> header.options # 0
  BY <1>4, <1>11
<1>. QED
  BY <1>2, <1>3, <1>6, <1>7, <1>8, <1>9, <1>10, <1>12 DEF Ahead

(* Where the list stands, for the line in front of the scan.                 *)
LEMMA ListAhead ==
    ASSUME Known, HeaderInv, NEW m, Ahead(m)
    PROVE  /\ pc \in {"information", "plan"} \cup Behind /\ file[m].kind = "data"
                => m \notin Listed(file)
           /\ pc = "reference" /\ file[m].kind \notin Bracketed => m \in ReferenceLines(file)
           /\ pc = "reference" /\ file[m].kind = "data" => m \in Listed(file)
           /\ "Reference" \notin header.seen /\ m \in Listed(file) => file[m].kind = "Reference"
           /\ m \in Listed(file) => file[m].kind \in {"Reference", "data"}
<1>1. /\ m \in 1..Len(file) /\ m = pos + 1 /\ pos \in Nat /\ m - 1 = pos /\ file \in Seq(Lines)
  BY DEF Ahead, Known, ScanTypes
<1>2. /\ m \in Listed(file)
           <=> /\ file[m].kind \in {"Reference", "data"}
               /\ \E r \in 1..m : /\ IsFirst(file, r, "Reference")
                                  /\ \A j \in (r + 1)..m : file[j].kind \notin Bracketed
  BY <1>1, ListedLines
<1>3. ASSUME pc \in {"information", "plan"} \cup Behind, file[m].kind = "data", m \in Listed(file)
      PROVE  FALSE
  <2>1. ListIsPast
    BY <1>3 DEF Known, ListInv
  <2>2. PICK i \in 1..pos : /\ file[i].kind \in Bracketed \ {"Reference"}
                            /\ \A j \in i..pos : file[j].kind # "Reference"
    BY <2>1 DEF ListIsPast
  <2>3. PICK r \in 1..m : /\ IsFirst(file, r, "Reference")
                          /\ \A j \in (r + 1)..m : file[j].kind \notin Bracketed
    BY <1>2, <1>3
  <2>4. file[r].kind = "Reference" /\ r \in 1..pos
    <3>1. file[r].kind = "Reference"
      BY <2>3 DEF IsFirst
    <3>. QED
      BY <1>1, <1>3, <3>1
  <2>5. ~(r \in i..pos)
    BY <2>2, <2>4
  <2>6. i \in (r + 1)..m
    BY <1>1, <2>4, <2>5
  <2>. QED
    BY <2>2, <2>3, <2>6
<1>4. ASSUME pc = "reference", file[m].kind \notin Bracketed
      PROVE  m \in ReferenceLines(file)
  <2>1. PICK r \in 1..pos : /\ IsFirst(file, r, "Reference")
                            /\ \A j \in (r + 1)..pos : file[j].kind \notin Bracketed
    BY <1>4 DEF Known, ListInv, ListIsOpen
  <2>2. \A j \in (r + 1)..m : j \in 1..Len(file) => file[j].kind \notin Bracketed
    <3>1. \A j \in (r + 1)..m : j \in (r + 1)..pos \/ j = m
      BY <1>1
    <3>. QED
      BY <1>4, <2>1, <3>1
  <2>3. r + 1 \in Nat /\ r + 1 <= m /\ r \in Nat
    BY <1>1
  <2>4. m < NextOf(file, r + 1, Bracketed)
    BY <1>1, <2>2, <2>3, InFrontOfNext
  <2>5. NextOf(file, r + 1, Bracketed) \in Nat
    BY <1>1, <2>3, NextIsOfItsKind
  <2>6. Has(file, "Reference") /\ LineOf(file, "Reference") = r
    BY <1>1, <2>1, FirstOfItsKind
  <2>. QED
    BY <1>1, <2>3, <2>4, <2>5, <2>6 DEF ReferenceLines
<1>5. file[m].kind = "data" => m \in LinesOf(file, {"Reference", "data"})
  BY <1>1 DEF LinesOf
<1>6. ASSUME "Reference" \notin header.seen, m \in Listed(file) PROVE file[m].kind = "Reference"
  <2>1. PICK r \in 1..m : IsFirst(file, r, "Reference")
    BY <1>2, <1>6
  <2>2. file[r].kind = "Reference"
    BY <2>1 DEF IsFirst
  <2>3. r \notin 1..pos
    BY <1>6, <2>2 DEF Known, SeenInv, Watched
  <2>4. r = m
    BY <1>1, <2>3
  <2>. QED
    BY <2>2, <2>4
<1>7. file[m].kind = "data" => file[m].kind \notin Bracketed
  BY DEF Bracketed, Keywords
<1>. QED
  BY <1>2, <1>3, <1>4, <1>5, <1>6, <1>7 DEF Listed

(* Which lines the header loops take, and what they keep of one.             *)
Admits ==
    \/ pc \in {"header", "reference"} /\ Line.kind \in Empty
    \/ pc = "information" /\ Line.kind \notin Bracketed
    \/ pc = "information" /\ Line.kind = "EndInformation"
    \/ pc = "header" /\ Line.kind = "option" /\ (header.options = 0 => Line.arg \in ValueFormats)
    \/ pc = "header" /\ Line.kind \in InHeader /\ KeywordFault(Line.kind) = NoFault
    \/ pc = "reference" /\ Line.kind = "data" /\ ListFault = NoFault

Marks ==
    /\ header'.seen = IF pc = "header" /\ Line.kind \in InHeader
                      THEN header.seen \cup {Line.kind} ELSE header.seen
    /\ header'.nnoise = IF pc = "header" /\ Line.kind = "NumberOfNoiseFrequencies"
                        THEN Line.count ELSE header.nnoise
    /\ header'.options \in {header.options, NextLine}
    /\ pc' \in HeaderLoops
    /\ pc' = "reference" =>
          /\ Len(list') < header'.nports
          /\ Line.kind = "Reference" \/ (pc = "reference" /\ Line.kind # "option")

(* A header step that goes on admits its line and marks it.                  *)
LEMMA HeaderAdmits ==
    ASSUME ScanTypes, OpenInv, HeaderNext, pc' # "done"
    PROVE  pos < Len(file) /\ pos' = NextLine /\ Admits /\ Marks
<1> USE DEF headerVars
<1>1. header \in Headers /\ pos \in Nat /\ list \in Seq(AllPlaces)
  BY DEF ScanTypes
<1>2. ASSUME NEW loop, NEW kinds, Takes(loop, kinds)
      PROVE  pc = loop /\ pos < Len(file) /\ pos' = NextLine /\ Line.kind \in kinds
  BY <1>2 DEF Takes
<1>3. ASSUME NEW words, TakesKeyword(words)
      PROVE  /\ pc = "header" /\ pos < Len(file) /\ pos' = NextLine /\ Line.kind \in words
             /\ KeywordFault(Line.kind) = NoFault
  BY <1>2, <1>3 DEF TakesKeyword
<1>4. /\ Empty \cap InHeader = {} /\ Empty \cap Bracketed = {}
      /\ InHeader \subseteq Keywords /\ Keywords \subseteq Bracketed
      /\ "option" \notin Bracketed /\ "data" \notin Bracketed
      /\ {"Version", "NumberOfPorts", "TwoPortDataOrder", "MatrixFormat", "NetworkData",
          "Reference", "BeginInformation"} \cup Counts \subseteq InHeader
      /\ "EndInformation" \notin InHeader /\ "option" \notin Empty
  BY DEF Empty, InHeader, Once, Keywords, Bracketed, Counts
<1>5. /\ Claimed.seen = header.seen \cup {Line.kind} /\ Claimed.nnoise = header.nnoise
      /\ Claimed.options = header.options /\ Claimed.nports = header.nports
      /\ DOMAIN Claimed = DOMAIN header
  BY <1>1 DEF Claimed, Headers
<1>6. ASSUME UNCHANGED <<header, list>>, pc' = pc, pc \in HeaderLoops, Line.kind \notin InHeader,
             Line.kind # "option" \/ pc # "reference"
      PROVE  Marks
  <2>1. pc # "header" \/ Line.kind # "NumberOfNoiseFrequencies"
    BY <1>4, <1>6 DEF Counts
  <2>2. pc' = "reference" => Len(list') < header'.nports
    BY <1>6 DEF OpenInv
  <2>3. pc' = "reference" => Line.kind # "option" /\ pc = "reference"
    BY <1>6
  <2>. QED
    BY <1>6, <2>1, <2>2, <2>3 DEF Marks
<1>7. CASE SkipHeaderLine
  <2>1. Takes("header", Empty) /\ UNCHANGED pc
    BY <1>7 DEF SkipHeaderLine
  <2>2. /\ header'.seen = header.seen /\ header'.nnoise = header.nnoise
        /\ header'.options = header.options
    BY <1>1, <1>7 DEF SkipHeaderLine, Headers
  <2>3. Line.kind \notin InHeader /\ Line.kind # "NumberOfNoiseFrequencies"
    BY <1>2, <1>4, <2>1 DEF Counts
  <2>. QED
    BY <1>2, <2>1, <2>2, <2>3 DEF Admits, Marks, HeaderLoops
<1>8. CASE TakeOptionLine
  <2>1. Takes("header", {"option"}) /\ UNCHANGED pc /\ Line.arg \in ValueFormats
    BY <1>8 DEF TakeOptionLine
  <2>2. /\ header'.seen = header.seen /\ header'.nnoise = header.nnoise
        /\ header'.options = NextLine
    BY <1>1, <1>8 DEF TakeOptionLine, Headers
  <2>3. Line.kind \notin InHeader /\ Line.kind # "NumberOfNoiseFrequencies"
    BY <1>2, <1>4, <2>1 DEF Counts
  <2>. QED
    BY <1>2, <2>1, <2>2, <2>3 DEF Admits, Marks, HeaderLoops
<1>9. CASE IgnoreOptionLine
  <2>1. Takes("header", {"option"}) /\ UNCHANGED <<pc, header, list>> /\ header.options # 0
    BY <1>9 DEF IgnoreOptionLine
  <2>2. Line.kind \notin InHeader /\ pc = "header" /\ pc \in HeaderLoops /\ Line.kind = "option"
    BY <1>2, <1>4, <2>1 DEF HeaderLoops
  <2>. QED
    BY <1>2, <1>6, <2>1, <2>2 DEF Admits
<1>10. CASE SkipReferenceLine
  <2>1. Takes("reference", Empty) /\ UNCHANGED <<pc, header, list>>
    BY <1>10 DEF SkipReferenceLine
  <2>2. Line.kind \notin InHeader /\ Line.kind # "option" /\ pc \in HeaderLoops
    BY <1>2, <1>4, <2>1 DEF HeaderLoops
  <2>. QED
    BY <1>2, <1>6, <2>1, <2>2 DEF Admits
<1>11. CASE SkipInformationLine
  <2>1. Takes("information", Kinds \ Bracketed) /\ UNCHANGED <<pc, header, list>>
    BY <1>11 DEF SkipInformationLine
  <2>2. Line.kind \notin InHeader /\ Line.kind \notin Bracketed /\ pc = "information"
        /\ pc \in HeaderLoops
    BY <1>2, <1>4, <2>1 DEF HeaderLoops
  <2>. QED
    BY <1>2, <1>6, <2>1, <2>2 DEF Admits
<1>12. CASE EndInformation
  <2>1. /\ Takes("information", {"EndInformation"}) /\ pc' = "header" /\ UNCHANGED <<header, list>>
    BY <1>12 DEF EndInformation
  <2>2. pc = "information" /\ Line.kind = "EndInformation" /\ pos < Len(file) /\ pos' = NextLine
    BY <1>2, <2>1
  <2>. QED
    BY <2>1, <2>2 DEF Admits, Marks, HeaderLoops
<1>13. ASSUME NEW words, TakesKeyword(words), words \subseteq InHeader, header' = Claimed,
              pc' \in HeaderLoops \ {"reference"}, "NumberOfNoiseFrequencies" \notin words
       PROVE  pos < Len(file) /\ pos' = NextLine /\ Admits /\ Marks
  <2>1. /\ pc = "header" /\ pos < Len(file) /\ pos' = NextLine /\ Line.kind \in words
        /\ KeywordFault(Line.kind) = NoFault
    BY <1>3, <1>13
  <2>2. Line.kind \in InHeader /\ Line.kind # "NumberOfNoiseFrequencies"
    BY <1>13, <2>1
  <2>. QED
    BY <1>5, <1>13, <2>1, <2>2 DEF Admits, Marks
<1>14. CASE BeginInformation \/ TakeNetworkData
  <2>1. \E w \in {"BeginInformation", "NetworkData"} :
            TakesKeyword({w}) /\ header' = Claimed /\ pc' \in {"information", "plan"}
    BY <1>14 DEF BeginInformation, TakeNetworkData
  <2>2. PICK w \in {"BeginInformation", "NetworkData"} :
            TakesKeyword({w}) /\ header' = Claimed /\ pc' \in {"information", "plan"}
    BY <2>1
  <2>3. {w} \subseteq InHeader /\ "NumberOfNoiseFrequencies" \notin {w}
    BY <1>4
  <2>4. pc' \in HeaderLoops \ {"reference"}
    BY <2>2 DEF HeaderLoops
  <2>. QED
    BY <1>13, <2>2, <2>3, <2>4
<1>15. CASE ApplyKeyword
  <2>1. /\ pc = "header" /\ pos < Len(file) /\ pos' = NextLine
        /\ Line.kind \in {"Version", "NumberOfPorts", "TwoPortDataOrder", "MatrixFormat"}
                         \cup Counts
        /\ KeywordFault(Line.kind) = NoFault
        /\ header' = Applied(Line.kind) /\ UNCHANGED pc
    BY <1>3, <1>15 DEF ApplyKeyword
  <2>2. Line.kind \in InHeader
    BY <1>4, <2>1
  <2>3. /\ Line.kind = "Version" => header' = Claimed
        /\ Line.kind = "NumberOfPorts" => header' = [Claimed EXCEPT !.nports = Line.count]
        /\ Line.kind = "NumberOfFrequencies" => header' = [Claimed EXCEPT !.nfreqs = Line.count]
        /\ Line.kind = "TwoPortDataOrder" => header' = [Claimed EXCEPT !.twoPortOrder = Line.arg]
        /\ Line.kind = "MatrixFormat" => header' = [Claimed EXCEPT !.matrixFormat = Line.arg]
        /\ Line.kind = "NumberOfNoiseFrequencies"
             => header' = [Claimed EXCEPT !.nnoise = Line.count, !.nnoiseAt = NextLine]
    BY <2>1 DEF Applied
  <2>4. /\ header'.seen = Claimed.seen /\ header'.options = Claimed.options
        /\ header'.nnoise = IF Line.kind = "NumberOfNoiseFrequencies" THEN Line.count
                            ELSE Claimed.nnoise
    <3>1. {"seen", "options", "nnoise"} \subseteq DOMAIN Claimed
      BY <1>1, <1>5 DEF Headers
    <3>2. \/ Line.kind = "Version" \/ Line.kind = "NumberOfPorts"
          \/ Line.kind = "NumberOfFrequencies" \/ Line.kind = "TwoPortDataOrder"
          \/ Line.kind = "MatrixFormat" \/ Line.kind = "NumberOfNoiseFrequencies"
      BY <2>1 DEF Counts
    <3>3. CASE Line.kind = "Version"
      BY <1>5, <2>3, <3>3
    <3>4. CASE Line.kind = "NumberOfPorts"
      BY <1>5, <2>3, <3>1, <3>4
    <3>5. CASE Line.kind = "NumberOfFrequencies"
      BY <1>5, <2>3, <3>1, <3>5
    <3>6. CASE Line.kind = "TwoPortDataOrder"
      BY <1>5, <2>3, <3>1, <3>6
    <3>7. CASE Line.kind = "MatrixFormat"
      BY <1>5, <2>3, <3>1, <3>7
    <3>8. CASE Line.kind = "NumberOfNoiseFrequencies"
      BY <1>5, <2>3, <3>1, <3>8
    <3>. QED
      BY <3>2, <3>3, <3>4, <3>5, <3>6, <3>7, <3>8
  <2>. QED
    BY <1>5, <2>1, <2>2, <2>4 DEF Admits, Marks, HeaderLoops
<1>16. CASE BeginReference
  <2>1. /\ pc = "header" /\ pos < Len(file) /\ pos' = NextLine
        /\ Line.kind = "Reference" /\ KeywordFault(Line.kind) = NoFault
    BY <1>3, <1>16 DEF BeginReference
  <2>2. (header' = [Claimed EXCEPT !.reference = list'] /\ pc' = "header")
        \/ (header' = Claimed /\ pc' = "reference" /\ ~(Len(list') >= header.nports))
    BY <1>16 DEF BeginReference, ListIsFull
  <2>3. /\ header'.seen = Claimed.seen /\ header'.nnoise = Claimed.nnoise
        /\ header'.options = Claimed.options /\ header'.nports = Claimed.nports
    BY <1>1, <1>5, <2>2 DEF Headers
  <2>4. Line.kind \in InHeader /\ list' \in Seq(AllPlaces) /\ header.nports \in Int
    <3>1. list' = Places(NextLine)
      BY <1>16 DEF BeginReference
    <3>2. Places(NextLine) \in Seq(AllPlaces)
      BY <2>1, PlacesAreTyped
    <3>3. header.nports \in Int
      BY <1>1 DEF Headers, Counted, None
    <3>. QED
      BY <1>4, <2>1, <3>1, <3>2, <3>3
  <2>5. pc' = "reference" => Len(list') < header'.nports
    BY <1>5, <2>2, <2>3, <2>4
  <2>. QED
    BY <1>5, <2>1, <2>2, <2>3, <2>4, <2>5 DEF Admits, Marks, HeaderLoops
<1>17. CASE ExtendReference
  <2>1. /\ pc = "reference" /\ pos < Len(file) /\ pos' = NextLine /\ Line.kind = "data"
        /\ ListFault = NoFault
    BY <1>2, <1>17 DEF ExtendReference
  <2>2. (header' = [header EXCEPT !.reference = list'] /\ pc' = "header")
        \/ (header' = header /\ pc' = pc /\ ~(Len(list') >= header.nports))
    BY <1>17 DEF ExtendReference, ListIsFull
  <2>3. /\ header'.seen = header.seen /\ header'.nnoise = header.nnoise
        /\ header'.options = header.options /\ header'.nports = header.nports
    BY <1>1, <2>2 DEF Headers
  <2>4. list' \in Seq(AllPlaces) /\ header.nports \in Int
    <3>1. list' = list \o Places(NextLine)
      BY <1>17 DEF ExtendReference
    <3>2. Places(NextLine) \in Seq(AllPlaces)
      BY <2>1, PlacesAreTyped
    <3>3. header.nports \in Int
      BY <1>1 DEF Headers, Counted, None
    <3>. QED
      BY <1>1, <3>1, <3>2, <3>3
  <2>5. pc' = "reference" => Len(list') < header'.nports
    BY <2>2, <2>3, <2>4, <2>1
  <2>. QED
    BY <1>4, <2>1, <2>2, <2>3, <2>5 DEF Admits, Marks, HeaderLoops
<1>18. ASSUME RejectOptionLine \/ RejectEarlyData \/ RejectKeyword \/ MissNetworkData
              \/ RejectReference \/ RejectInformation
       PROVE  FALSE
  BY <1>18
     DEF RejectOptionLine, RejectEarlyData, RejectKeyword, MissNetworkData, RejectReference,
         RejectInformation, FailHeader, Answer
<1>. QED
  BY <1>7, <1>8, <1>9, <1>10, <1>11, <1>12, <1>14, <1>15, <1>16, <1>17, <1>18
     DEF HeaderNext

(* A port count of which a point has a size.                                 *)
LEMMA SizeIsUsable ==
    ASSUME NEW c \in Nat
    PROVE  ValuesPerPoint(c) # None <=> c > 0 /\ 2 * c * c + 1 <= MaxUsize
<1>1. PICK square \in Nat : square = c * c
  OBVIOUS
<1>2. c * c * 2 = square * 2 /\ 2 * c * c = square * 2
  BY <1>1
<1>3. MaxUsize \in Nat
  BY MaxUsizeAssumption
<1>. QED
  BY <1>1, <1>2, <1>3 DEF ValuesPerPoint, Fits, None

(* Each number of a usable list line is one of ohms.                         *)
LEMMA ListPasses == ListFault = NoFault <=> \A c \in 1..Len(Line.v) : IsOhms(Line.v[c])
  BY DEF ListFault, NoFault

(* What an accepted keyword of the header satisfies.                         *)
LEMMA KeywordPasses ==
    ASSUME ScanTypes, Line.kind \in InHeader
    PROVE  KeywordFault(Line.kind) = NoFault
             <=> /\ Line.kind \notin header.seen
                 /\ Line.kind = "Version" => header.options = 0 /\ header.seen = {}
                 /\ Line.kind \in {"Reference", "TwoPortDataOrder"} => header.nports # None
                 /\ Line.kind = "NumberOfPorts" =>
                       header.options # 0 /\ Line.count # 0 /\ ValuesPerPoint(Line.count) # None
                 /\ Line.kind \in Counts => Line.count # 0
                 /\ Line.kind = "TwoPortDataOrder" =>
                       header.nports = 2 /\ Line.arg \in TwoPortOrders
                 /\ Line.kind = "MatrixFormat" => Line.arg \in MatrixFormats
                 /\ Line.kind = "Reference" =>
                       ListFault = NoFault /\ ~(Len(Line.v) > header.nports)
<1>1. Line.kind \in {"Version", "NumberOfPorts", "TwoPortDataOrder", "NumberOfFrequencies",
                     "NumberOfNoiseFrequencies", "Reference", "MatrixFormat",
                     "BeginInformation", "NetworkData"}
  BY DEF InHeader, Once, Keywords
<1>2. CASE Line.kind = "Version"
  BY <1>2 DEF KeywordFault, VersionFault, NoFault, Counts
<1>3. ASSUME Line.kind # "Version"
      PROVE  KeywordFault(Line.kind) = NoFault
               <=> ClaimFault(Line.kind) = NoFault /\ ArgumentFault(Line.kind) = NoFault
  BY <1>1, <1>3 DEF KeywordFault, NoFault
<1>4. ClaimFault(Line.kind) = NoFault
        <=> /\ Line.kind \notin header.seen
            /\ Line.kind \in {"Reference", "TwoPortDataOrder"} => header.nports # None
  BY <1>1 DEF ClaimFault, NoFault, NeedsPorts
<1>5. CASE Line.kind = "NumberOfPorts"
  <2>1. ArgumentFault(Line.kind) = NoFault
          <=> header.options # 0 /\ Line.count # 0 /\ ValuesPerPoint(Line.count) # None
    BY <1>5 DEF ArgumentFault, PortsFault, NoFault
  <2>. QED
    BY <1>3, <1>4, <1>5, <2>1 DEF Counts
<1>6. CASE Line.kind \in Counts
  <2>1. ArgumentFault(Line.kind) = NoFault <=> Line.count # 0
    BY <1>6 DEF ArgumentFault, Counts, NoFault
  <2>. QED
    BY <1>3, <1>4, <1>6, <2>1 DEF Counts
<1>7. CASE Line.kind = "TwoPortDataOrder"
  <2>1. ArgumentFault(Line.kind) = NoFault <=> header.nports = 2 /\ Line.arg \in TwoPortOrders
    BY <1>7 DEF ArgumentFault, TwoPortOrderFault, Counts, NoFault
  <2>. QED
    BY <1>3, <1>4, <1>7, <2>1 DEF Counts
<1>8. CASE Line.kind = "MatrixFormat"
  <2>1. ArgumentFault(Line.kind) = NoFault <=> Line.arg \in MatrixFormats
    BY <1>8 DEF ArgumentFault, Counts, NoFault
  <2>. QED
    BY <1>3, <1>4, <1>8, <2>1 DEF Counts
<1>9. CASE Line.kind = "Reference"
  <2>1. ArgumentFault(Line.kind) = NoFault
          <=> ListFault = NoFault /\ ~(Len(Line.v) > header.nports)
    BY <1>9 DEF ArgumentFault, Counts, NoFault
  <2>. QED
    BY <1>3, <1>4, <1>9, <2>1 DEF Counts
<1>10. CASE Line.kind \in {"BeginInformation", "NetworkData"}
  <2>1. ArgumentFault(Line.kind) = NoFault
    BY <1>10 DEF ArgumentFault, Counts, NoFault
  <2>. QED
    BY <1>3, <1>4, <1>10, <2>1 DEF Counts
<1>. QED
  BY <1>1, <1>2, <1>5, <1>6, <1>7, <1>8, <1>9, <1>10 DEF Counts
-----------------------------------------------------------------------------
(* A line that holds no keyword and no option line in force.                 *)
LEMMA PlainLineHolds ==
    ASSUME NEW f, NEW i, f[i].kind \notin Bracketed, i \notin Options(f),
           Above(f, i, "End") => f[i].kind \in Empty,
           f[i].kind = "data" => NumbersHold(f, i)
    PROVE  LineHolds(f, i)
<1>1. f[i].kind \notin Keywords /\ f[i].kind # "broken"
  BY DEF Bracketed
<1>2. \A w \in Keywords : f[i].kind # w
  BY <1>1
<1>3. KeywordHolds(f, i)
  BY <1>1, <1>2 DEF KeywordHolds, InHeader, Once, Keywords
<1>4. OptionHolds(f, i)
  BY DEF OptionHolds
<1>5. ArgumentHolds(f, i)
  BY <1>1 DEF ArgumentHolds, Keywords, Counts
<1>6. i \in Listed(f) => f[i].kind = "data"
  <2>1. i \in Listed(f) => f[i].kind \in {"Reference", "data"}
    BY DEF Listed, LinesOf
  <2>. QED
    BY <1>1, <2>1 DEF Keywords
<1>7. i \in NoiseLines(f) => f[i].kind = "data"
  BY DEF NoiseLines, LinesOf
<1>8. NumbersHold(f, i)
  BY <1>6, <1>7 DEF NumbersHold
<1>. QED
  BY <1>3, <1>4, <1>5, <1>8 DEF LineHolds

(* A line of the information block, and an empty one.                        *)
LEMMA PassedLineHolds ==
    ASSUME Known, HeaderInv, NEW m, Ahead(m),
           \/ pc \in {"header", "reference"} \cup Sections /\ Line.kind \in Empty
           \/ pc = "information" /\ Line.kind \notin Bracketed
    PROVE  LineHolds(file, m)
<1>1. Line = file[m] /\ file[m].kind \notin Bracketed
  BY DEF Ahead, Empty, Bracketed, Keywords
<1>2. m \notin Options(file)
  BY <1>1 DEF Ahead, Empty
<1>3. Above(file, m, "End") => file[m].kind \in Empty
  BY <1>1 DEF Ahead
<1>4. ASSUME file[m].kind = "data" PROVE NumbersHold(file, m)
  <2>1. pc = "information"
    BY <1>1, <1>4 DEF Empty
  <2>2. m \notin Listed(file)
    BY <1>4, <2>1, ListAhead
  <2>3. m \in Information(file) /\ ~Above(file, m, "NetworkData")
    BY <1>4, <2>1 DEF Ahead, Behind, Sections
  <2>. QED
    BY <2>2, <2>3 DEF NumbersHold
<1>. QED
  BY <1>1, <1>2, <1>3, <1>4, PlainLineHolds

(* [End Information] closes the block that is open.                          *)
LEMMA ClosingLineHolds ==
    ASSUME Known, HeaderInv, NEW m, Ahead(m), pc = "information", Line.kind = "EndInformation"
    PROVE  LineHolds(file, m)
<1>1. /\ Line = file[m] /\ file[m].kind = "EndInformation" /\ m = pos + 1 /\ pos \in Nat
      /\ m - 1 = pos
  BY DEF Ahead, Known, ScanTypes
<1>2. PICK b \in 1..pos : /\ IsFirst(file, b, "BeginInformation")
                          /\ \A j \in b..pos : file[j].kind # "EndInformation"
  BY DEF Known, BlocksInv
<1>3. Above(file, m, "BeginInformation")
  BY <1>1, <1>2 DEF Above, IsFirst
<1>4. ~Above(file, m, "EndInformation")
  <2>1. SUFFICES ASSUME NEW e \in 1..pos, file[e].kind = "EndInformation" PROVE FALSE
    BY <1>1 DEF Above
  <2>2. Above(file, e, "BeginInformation")
    BY <2>1 DEF HeaderInv, LinesInv, LineHolds, KeywordHolds
  <2>3. PICK j \in 1..(e - 1) : file[j].kind = "BeginInformation"
    BY <2>2 DEF Above
  <2>4. b <= j
    BY <1>1, <1>2, <2>3 DEF IsFirst
  <2>. QED
    BY <1>1, <1>2, <2>1, <2>3, <2>4
<1>5. ~Above(file, m, "NetworkData") /\ ~Above(file, m, "End") /\ m \notin Information(file)
  BY <1>1 DEF Ahead, Behind, Sections
<1>6. KeywordHolds(file, m)
  BY <1>1, <1>3, <1>4, <1>5 DEF KeywordHolds, InHeader, Once, Keywords
<1>7. m \notin Options(file)
  BY <1>1 DEF Ahead
<1>8. ArgumentHolds(file, m)
  BY <1>1 DEF ArgumentHolds, Counts
<1>9. m \notin Listed(file) /\ m \notin NoiseLines(file)
  BY <1>1 DEF Listed, NoiseLines, LinesOf
<1>. QED
  BY <1>1, <1>6, <1>7, <1>8, <1>9 DEF LineHolds, OptionHolds, NumbersHold

(* The first option line has a value format.                                 *)
LEMMA OptionLineHolds ==
    ASSUME Known, HeaderInv, NEW m, Ahead(m), pc = "header", Line.kind = "option",
           header.options = 0 => Line.arg \in ValueFormats
    PROVE  LineHolds(file, m)
<1>1. Line = file[m] /\ file[m].kind = "option"
  BY DEF Ahead
<1>2. ~Above(file, m, "NetworkData") /\ ~Above(file, m, "End")
  BY DEF Ahead, Behind, Sections
<1>3. KeywordHolds(file, m)
  BY <1>1, <1>2 DEF KeywordHolds, InHeader, Once, Keywords, Bracketed
<1>4. OptionHolds(file, m)
  BY <1>1, <1>2 DEF OptionHolds, Ahead
<1>5. ArgumentHolds(file, m)
  BY <1>1 DEF ArgumentHolds, Counts
<1>6. m \notin Listed(file) /\ m \notin NoiseLines(file)
  BY <1>1 DEF Listed, NoiseLines, LinesOf
<1>7. NumbersHold(file, m)
  BY <1>1, <1>6 DEF NumbersHold
<1>. QED
  BY <1>3, <1>4, <1>5, <1>7 DEF LineHolds

(* A line of an open list.                                                   *)
LEMMA ListLineHolds ==
    ASSUME Known, HeaderInv, NEW m, Ahead(m), pc = "reference", Line.kind = "data",
           ListFault = NoFault
    PROVE  LineHolds(file, m)
<1>1. /\ Line = file[m] /\ file[m].kind = "data" /\ file[m].kind \notin Bracketed
      /\ m - 1 = pos
  BY DEF Ahead, Bracketed, Keywords, Known, ScanTypes
<1>2. m \notin Options(file) /\ ~Above(file, m, "NetworkData") /\ ~Above(file, m, "End")
  BY <1>1 DEF Ahead, Behind, Sections
<1>3. m \in Listed(file)
  BY <1>1, ListAhead
<1>4. \A c \in 1..Len(file[m].v) : IsOhms(file[m].v[c])
  BY <1>1, ListPasses
<1>5. \A j \in 1..(m - 1) : j \in Options(file) => j \notin ReferenceLines(file)
  BY <1>1 DEF HeaderInv, OpenInv
<1>6. NumbersHold(file, m)
  BY <1>2, <1>3, <1>4, <1>5 DEF NumbersHold
<1>. QED
  BY <1>1, <1>2, <1>6, PlainLineHolds

(* Nothing stands above the first line but empty lines, if no keyword was    *)
(* claimed and no option line taken.                                         *)
LEMMA NothingAbove ==
    ASSUME Known, HeaderInv, header.options = 0, header.seen = {}, NEW j \in 1..pos
    PROVE  file[j].kind \notin Bracketed \cup {"option"}
<1>1. /\ j \in 1..Len(file) /\ file \in Seq(Lines) /\ pos \in Nat
      /\ \A i \in 1..(j - 1) : i \in 1..pos
  BY DEF Known, ScanTypes
<1>2. KeywordHolds(file, j)
  BY DEF HeaderInv, LinesInv, LineHolds
<1>3. \A w \in InHeader : \A i \in 1..pos : file[i].kind # w
  BY DEF HeaderInv, ClaimedInv
<1>4. \A w \in InHeader : ~Above(file, j, w)
  BY <1>1, <1>3 DEF Above
<1>5. {"BeginInformation", "NetworkData"} \subseteq InHeader
  BY DEF InHeader, Once, Keywords
<1>6. file[j].kind \notin Bracketed
  <2>1. file[j].kind \notin InHeader
    BY <1>3
  <2>2. file[j].kind \notin {"broken", "MixedModeOrder"}
    BY <1>2 DEF KeywordHolds
  <2>3. file[j].kind \notin {"EndInformation", "NoiseData", "End"}
    BY <1>2, <1>4, <1>5 DEF KeywordHolds
  <2>. QED
    BY <2>1, <2>2, <2>3 DEF InHeader, Once, Bracketed
<1>7. file[j].kind # "option"
  <2>1. SUFFICES ASSUME file[j].kind = "option" PROVE FALSE
    OBVIOUS
  <2>2. j \notin Options(file)
    BY DEF Known, OptionsInv
  <2>3. j \in Information(file)
    BY <1>1, <2>1, <2>2 DEF Options, LinesOf
  <2>4. PICK b \in 1..(j - 1) : IsFirst(file, b, "BeginInformation")
    BY <1>1, <2>3, InformationLines
  <2>. QED
    BY <1>1, <1>3, <1>5, <2>4 DEF IsFirst
<1>. QED
  BY <1>6, <1>7

(* A keyword the header applies.                                             *)
LEMMA KeywordLineHolds ==
    ASSUME Known, HeaderInv, NEW m, Ahead(m), pc = "header", Line.kind \in InHeader,
           KeywordFault(Line.kind) = NoFault
    PROVE  LineHolds(file, m)
<1>1. /\ Line = file[m] /\ m = pos + 1 /\ m - 1 = pos /\ m \in 1..Len(file)
      /\ file[m].count \in Nat /\ ScanTypes
      /\ file[m].kind \in InHeader /\ file[m].kind \in Keywords
  BY DEF Ahead, Known, ScanTypes, InHeader, Once
<1>2. PICK kind : kind = file[m].kind
  OBVIOUS
<1>3. /\ kind \notin header.seen
      /\ kind = "Version" => header.options = 0 /\ header.seen = {}
      /\ kind \in {"Reference", "TwoPortDataOrder"} => header.nports # None
      /\ kind = "NumberOfPorts" =>
            header.options # 0 /\ file[m].count # 0 /\ ValuesPerPoint(file[m].count) # None
      /\ kind \in Counts => file[m].count # 0
      /\ kind = "TwoPortDataOrder" => header.nports = 2 /\ file[m].arg \in TwoPortOrders
      /\ kind = "MatrixFormat" => file[m].arg \in MatrixFormats
      /\ kind = "Reference" => ListFault = NoFault
  BY <1>1, <1>2, KeywordPasses
<1>4. /\ ~Above(file, m, "NetworkData") /\ ~Above(file, m, "End") /\ m \notin Information(file)
      /\ ~Above(file, m, kind)
      /\ "NumberOfPorts" \in header.seen => Above(file, m, "NumberOfPorts")
  BY <1>1, <1>2, <1>3 DEF Ahead, Behind, Sections, InHeader, Once, Keywords
<1>5. header.nports # None => "NumberOfPorts" \in header.seen
  BY DEF Known, Declared
<1>6. kind = "Version" => \A j \in 1..(m - 1) : file[j].kind \notin Bracketed \cup {"option"}
  BY <1>1, <1>3, NothingAbove
<1>7. kind \notin {"broken", "MixedModeOrder", "NoiseData", "End", "EndInformation", "option", "data"}
  BY <1>1, <1>2 DEF InHeader, Once, Keywords
<1>8. KeywordHolds(file, m)
  BY <1>2, <1>3, <1>4, <1>5, <1>6, <1>7 DEF KeywordHolds
<1>9. OptionHolds(file, m)
  BY <1>2, <1>7 DEF OptionHolds, Options, LinesOf
<1>10. ArgumentHolds(file, m)
  <2>1. kind = "NumberOfPorts" => /\ 2 * file[m].count * file[m].count + 1 <= MaxUsize
                                  /\ \E j \in 1..(m - 1) : j \in Options(file)
    BY <1>1, <1>3, SizeIsUsable DEF Ahead
  <2>2. kind \in Counts \cup {"NumberOfPorts"} => file[m].count > 0
    BY <1>1, <1>3
  <2>3. ASSUME kind = "TwoPortDataOrder"
        PROVE  \E j \in 1..(m - 1) : file[j].kind = "NumberOfPorts" /\ file[j].count = 2
    <3>1. "NumberOfPorts" \in header.seen /\ "NumberOfPorts" \in Noted /\ header.nports = 2
      BY <1>3, <1>5, <2>3 DEF Noted
    <3>2. PICK i \in 1..pos : IsFirst(file, i, "NumberOfPorts")
                              /\ Notes["NumberOfPorts"] = Said(file, "NumberOfPorts", i)
      BY <3>1 DEF Known, NotesInv
    <3>3. Said(file, "NumberOfPorts", i) = file[i].count /\ Notes["NumberOfPorts"] = header.nports
      BY DEF Said, Notes
    <3>. QED
      BY <1>1, <3>1, <3>2, <3>3 DEF IsFirst
  <2>. QED
    BY <1>2, <1>3, <2>1, <2>2, <2>3 DEF ArgumentHolds
<1>11. NumbersHold(file, m)
  <2>1. m \in Listed(file) => kind = "Reference"
    BY <1>2, <1>7 DEF Listed, LinesOf
  <2>2. m \notin NoiseLines(file)
    BY <1>2, <1>7 DEF NoiseLines, LinesOf
  <2>3. kind = "Reference" => \A c \in 1..Len(file[m].v) : IsOhms(file[m].v[c])
    BY <1>1, <1>3, ListPasses
  <2>. QED
    BY <1>2, <1>7, <2>1, <2>2, <2>3 DEF NumbersHold
<1>. QED
  BY <1>8, <1>9, <1>10, <1>11 DEF LineHolds

(* Every line the header loops take is one the grammar allows there.         *)
LEMMA AdmittedLineHolds ==
    ASSUME Known, HeaderInv, NEW m, Ahead(m), Admits
    PROVE  LineHolds(file, m)
<1>1. CASE pc \in {"header", "reference"} /\ Line.kind \in Empty
  BY <1>1, PassedLineHolds
<1>2. CASE pc = "information" /\ Line.kind \notin Bracketed
  BY <1>2, PassedLineHolds
<1>3. CASE pc = "information" /\ Line.kind = "EndInformation"
  BY <1>3, ClosingLineHolds
<1>4. CASE pc = "header" /\ Line.kind = "option" /\ (header.options = 0 => Line.arg \in ValueFormats)
  BY <1>4, OptionLineHolds
<1>5. CASE pc = "header" /\ Line.kind \in InHeader /\ KeywordFault(Line.kind) = NoFault
  BY <1>5, KeywordLineHolds
<1>6. CASE pc = "reference" /\ Line.kind = "data" /\ ListFault = NoFault
  BY <1>6, ListLineHolds
<1>. QED
  BY <1>1, <1>2, <1>3, <1>4, <1>5, <1>6 DEF Admits

(* What the header keeps of the line keeps its account of them true.         *)
LEMMA HeaderIsKept ==
    ASSUME Known, HeaderInv, HeaderNext, pc' # "done", UNCHANGED <<file, noiseStartsAt>>
    PROVE  HeaderInv'
<1>1. pos < Len(file) /\ pos' = NextLine /\ Admits /\ Marks
  BY HeaderAdmits DEF Known, HeaderInv
<1>2. PICK m \in 1..Len(file) : m = pos + 1
  BY <1>1 DEF Known, ScanTypes
<1>3. Ahead(m)
  BY <1>1, <1>2, LineAhead
<1>4. /\ pos' = m /\ Line = file[m] /\ pos \in Nat /\ file' = file /\ m - 1 = pos
      /\ \A i \in 1..m : i \in 1..pos \/ i = m
      /\ \A i \in 1..pos : i \in 1..m
  BY <1>1, <1>2, <1>3 DEF Ahead, Known, ScanTypes
<1>5. LineHolds(file, m)
  BY <1>1, <1>3, AdmittedLineHolds
<1>6. LinesInv'
  <2>1. \A i \in 1..m : LineHolds(file, i)
    BY <1>4, <1>5 DEF HeaderInv, LinesInv
  <2>. QED
    BY <1>4, <2>1 DEF LinesInv
<1>7. file[m].kind \in InHeader => pc = "header"
  BY <1>1, <1>4 DEF Admits, Empty, InHeader, Once, Keywords, Bracketed
<1>8. file[m].kind \notin {"NoiseData", "End"} /\ pc \in {"header", "reference", "information"}
  BY <1>1, <1>4 DEF Admits, Empty, InHeader, Once, Keywords, Bracketed
<1>9. ClaimedInv'
  <2>1. /\ header'.seen \subseteq InHeader
        /\ \A w \in InHeader : w \in header'.seen <=> w \in header.seen \/ file[m].kind = w
    BY <1>1, <1>4, <1>7 DEF Marks, HeaderInv, ClaimedInv
  <2>2. \A w \in InHeader : w \in header'.seen <=> \E i \in 1..m : file[i].kind = w
    BY <1>4, <2>1 DEF HeaderInv, ClaimedInv
  <2>. QED
    BY <1>4, <2>1, <2>2 DEF ClaimedInv
<1>10. RowsNoteInv'
  <2>1. "NumberOfNoiseFrequencies" \in InHeader
    BY DEF InHeader, Once, Keywords
  <2>2. CASE file[m].kind = "NumberOfNoiseFrequencies"
    <3>1. "NumberOfNoiseFrequencies" \in header'.seen /\ header'.nnoise = file[m].count
      BY <1>1, <1>4, <1>7, <2>1, <2>2 DEF Marks
    <3>. QED
      BY <1>4, <2>2, <3>1 DEF RowsNoteInv
  <2>3. CASE file[m].kind # "NumberOfNoiseFrequencies"
    <3>1. header'.nnoise = header.nnoise
      BY <1>1, <1>4, <2>3 DEF Marks
    <3>2. "NumberOfNoiseFrequencies" \in header'.seen <=> "NumberOfNoiseFrequencies" \in header.seen
      BY <1>1, <1>4, <2>3 DEF Marks
    <3>. QED
      BY <1>4, <3>1, <3>2 DEF HeaderInv, RowsNoteInv
  <2>. QED
    BY <2>2, <2>3
<1>11. EndedInv'
  <2>1. pc # "ended" /\ pc' # "ended"
    BY <1>1, <1>8 DEF Marks, HeaderLoops
  <2>2. \A i \in 1..m : file[i].kind # "End"
    BY <1>4, <1>8, <2>1 DEF HeaderInv, EndedInv
  <2>3. noiseStartsAt # 0 <=> \E i \in 1..m : file[i].kind = "NoiseData"
    BY <1>4, <1>8 DEF HeaderInv, EndedInv
  <2>. QED
    BY <1>4, <2>1, <2>2, <2>3 DEF EndedInv
<1>12. OpenInv'
  <2>1. SUFFICES ASSUME pc' = "reference"
                 PROVE  /\ Len(list') < header'.nports
                        /\ \A i \in 1..m : i \in Options(file) => i \notin ReferenceLines(file)
    BY <1>4 DEF OpenInv
  <2>2. /\ Len(list') < header'.nports
        /\ file[m].kind = "Reference" \/ (pc = "reference" /\ file[m].kind # "option")
    BY <1>1, <1>4, <2>1 DEF Marks
  <2>3. m \notin Options(file)
    BY <2>2 DEF Options, LinesOf
  <2>4. ASSUME NEW i \in 1..pos, i \in Options(file), i \in ReferenceLines(file) PROVE FALSE
    <3>1. CASE pc = "reference"
      BY <2>4, <3>1 DEF HeaderInv, OpenInv
    <3>2. CASE file[m].kind = "Reference"
      <4>1. ~Above(file, m, "Reference")
        BY <1>5, <3>2 DEF LineHolds, KeywordHolds, Keywords
      <4>2. \A j \in 1..(m - 1) : file[j].kind # "Reference"
        BY <4>1 DEF Above
      <4>3. Has(file, "Reference") /\ IsFirst(file, LineOf(file, "Reference"), "Reference")
        BY <2>4, FirstOfItsKind DEF ReferenceLines, Known, ScanTypes
      <4>4. LineOf(file, "Reference") \in 1..Len(file) /\ file[LineOf(file, "Reference")].kind = "Reference"
        BY <4>3 DEF IsFirst
      <4>5. LineOf(file, "Reference") <= i
        <5>1. PICK r \in 1..Len(file) : r = LineOf(file, "Reference")
          BY <4>4
        <5>2. PICK next \in Nat : next = NextOf(file, r + 1, Bracketed)
          BY <5>1, NextIsOfItsKind DEF Known, ScanTypes
        <5>3. i \in r..(next - 1)
          BY <2>4, <4>3, <5>1, <5>2 DEF ReferenceLines
        <5>. QED
          BY <5>1, <5>2, <5>3
      <4>. QED
        BY <1>4, <4>2, <4>4, <4>5
    <3>. QED
      BY <2>2, <3>1, <3>2
  <2>. QED
    BY <1>4, <2>2, <2>3, <2>4
<1>13. header'.options \in 0..pos'
  BY <1>1, <1>2, <1>4, <1>3 DEF Marks, HeaderInv, Ahead
<1>. QED
  BY <1>6, <1>9, <1>10, <1>11, <1>12, <1>13 DEF HeaderInv

(* A file the grammar allows, line by line and as a whole.                   *)
Good == (\A i \in 1..Len(file) : LineHolds(file, i)) /\ WholeHolds(file, hint)

(* A list only grows, and only by the lines it stands on.                    *)
LEMMA ListGrows ==
    ASSUME NEW f \in Seq(Lines), NEW a \in 0..Len(f), NEW b \in 0..Len(f), a <= b
    PROVE  /\ Len(Collected(f)[a]) \in Nat /\ Len(Collected(f)[b]) \in Nat
           /\ Len(Collected(f)[a]) <= Len(Collected(f)[b])
           /\ Len(Collected(f)[a]) # Len(Collected(f)[b]) => \E i \in (a + 1)..b : i \in Listed(f)
<1>1. PICK last \in Nat : last = Len(f)
  OBVIOUS
<1>2. /\ \A i \in 1..last : Collected(f)[i] = Collected(f)[i - 1] \o ListedOn(f, i)
      /\ \A i \in 0..last : Collected(f)[i] \in Seq(AllPlaces)
  BY <1>1, ListAddsUp
<1>3. \A i \in 1..last : ListedOn(f, i) \in Seq(AllPlaces)
  <2>1. ASSUME NEW i \in 1..last PROVE ListedOn(f, i) \in Seq(AllPlaces)
    <3>1. OnLine(f, i) \in Seq(AllPlaces) /\ <<>> \in Seq(AllPlaces)
      BY <1>1, OnLineIsTyped
    <3>. QED
      BY <3>1 DEF ListedOn
  <2>. QED
    BY <2>1
<1>4. PICK total \in [0..last -> Nat] : \A i \in 0..last : total[i] = Len(Collected(f)[i])
  <2>1. [i \in 0..last |-> Len(Collected(f)[i])] \in [0..last -> Nat]
    BY <1>2
  <2>. QED
    BY <2>1
<1>5. PICK part \in [1..last -> Nat] : \A i \in 1..last : part[i] = Len(ListedOn(f, i))
  <2>1. [i \in 1..last |-> Len(ListedOn(f, i))] \in [1..last -> Nat]
    BY <1>3
  <2>. QED
    BY <2>1
<1>6. \A i \in 1..last : total[i] = total[i - 1] + part[i]
  <2>1. ASSUME NEW i \in 1..last PROVE total[i] = total[i - 1] + part[i]
    <3>1. i - 1 \in 0..last /\ i \in 0..last
      BY <1>1
    <3>2. PICK before \in Seq(AllPlaces), on \in Seq(AllPlaces) :
             before = Collected(f)[i - 1] /\ on = ListedOn(f, i)
      BY <1>2, <1>3, <3>1
    <3>3. Collected(f)[i] = before \o on
      BY <1>2, <3>2
    <3>4. Len(before \o on) = Len(before) + Len(on)
      OBVIOUS
    <3>. QED
      BY <1>4, <1>5, <3>1, <3>2, <3>3, <3>4
  <2>. QED
    BY <2>1
<1>7. total[a] <= total[b]
  <2>1. \A j \in 0..last : \A i \in 0..j : total[i] <= total[j]
    BY <1>6, TotalsGrow
  <2>2. b \in 0..last /\ a \in 0..b
    BY <1>1
  <2>. QED
    BY <2>1, <2>2
<1>8. ASSUME \A i \in (a + 1)..b : i \notin Listed(f) PROVE total[a] = total[b]
  <2>1. PICK T : T = {i \in 0..b : i <= a \/ total[i] = total[a]}
    OBVIOUS
  <2>2. 0 \in T
    BY <2>1, <1>1
  <2>3. ASSUME NEW i \in 1..b, i - 1 \in T PROVE i \in T
    <3>1. CASE i <= a
      BY <2>1, <3>1, <1>1
    <3>2. CASE i > a
      <4>1. i \notin Listed(f)
        BY <1>1, <1>8, <3>2
      <4>2. ListedOn(f, i) = <<>>
        BY <4>1 DEF ListedOn
      <4>3. i \in 1..last /\ i - 1 \in 0..last
        BY <1>1
      <4>4. part[i] = 0
        BY <1>5, <4>2, <4>3
      <4>5. total[i] = total[i - 1]
        BY <1>4, <1>6, <4>3, <4>4
      <4>6. total[i - 1] = total[a]
        BY <2>1, <2>3, <3>2, <1>1
      <4>. QED
        BY <2>1, <4>5, <4>6
    <3>. QED
      BY <3>1, <3>2, <1>1
  <2>4. b \in Nat
    BY <1>1
  <2>5. \A i \in 0..b : i \in T
    BY <2>2, <2>3, <2>4, StepByStep
  <2>6. b \in T
    BY <2>4, <2>5
  <2>7. b <= a => a = b
    BY <1>1
  <2>. QED
    BY <2>1, <2>6, <2>7
<1>. QED
  BY <1>1, <1>4, <1>7, <1>8

(* The header has the file's port count.                                     *)
LEMMA PortsAreNoted ==
    ASSUME Known, "NumberOfPorts" \in header.seen
    PROVE  /\ Has(file, "NumberOfPorts") /\ header.nports = Ports(file)
           /\ header.nports \in Nat /\ header.nports # None
<1>1. file \in Seq(Lines) /\ "NumberOfPorts" \in Noted
  BY DEF Known, ScanTypes, Noted
<1>2. PICK i \in 1..pos : IsFirst(file, i, "NumberOfPorts")
                          /\ Notes["NumberOfPorts"] = Said(file, "NumberOfPorts", i)
  BY <1>1 DEF Known, NotesInv
<1>3. Said(file, "NumberOfPorts", i) = file[i].count /\ Notes["NumberOfPorts"] = header.nports
  BY DEF Said, Notes
<1>4. Has(file, "NumberOfPorts") /\ LineOf(file, "NumberOfPorts") = i
  BY <1>1, <1>2, FirstOfItsKind
<1>5. file[i] \in Lines
  BY <1>1, <1>2 DEF IsFirst
<1>6. file[i].count \in Nat
  BY <1>5 DEF Lines
<1>. QED
  BY <1>2, <1>3, <1>4, <1>6 DEF Ports, None

(* A list of a good file is never longer than its ports, and in the end as   *)
(* long.                                                                     *)
LEMMA ListOfAGoodFile ==
    ASSUME Known, HeaderInv, Good, Has(file, "Reference"),
           \E r \in 1..Len(file) : r <= pos + 1 /\ file[r].kind = "Reference",
           NEW a \in 0..Len(file)
    PROVE  /\ header.nports \in Nat /\ Len(Collected(file)[a]) \in Nat
           /\ Len(Collected(file)[a]) <= header.nports
           /\ Len(Collected(file)[a]) # header.nports
                => \E i \in (a + 1)..Len(file) : i \in Listed(file)
<1>1. file \in Seq(Lines) /\ Len(file) \in Nat /\ pos \in Nat
  BY DEF Known, ScanTypes
<1>2. PICK r \in 1..Len(file) : r <= pos + 1 /\ file[r].kind = "Reference"
  OBVIOUS
<1>3. Above(file, r, "NumberOfPorts")
  BY <1>2 DEF Good, LineHolds, KeywordHolds
<1>4. "NumberOfPorts" \in header.seen
  <2>1. PICK j \in 1..(r - 1) : file[j].kind = "NumberOfPorts"
    BY <1>3 DEF Above
  <2>2. j \in 1..pos
    BY <1>1, <1>2, <2>1
  <2>. QED
    BY <2>1, <2>2 DEF HeaderInv, ClaimedInv, InHeader, Once, Keywords
<1>5. header.nports = Ports(file) /\ header.nports \in Nat
  BY <1>4, PortsAreNoted
<1>6. Len(file) # 0 /\ Len(file) \in 0..Len(file) /\ a <= Len(file)
  BY <1>1, <1>2
<1>7. ReferenceValues(file) = Collected(file)[Len(file)]
  BY <1>1, <1>6, ListAddsUp
<1>8. Len(Collected(file)[Len(file)]) = header.nports
  BY <1>5, <1>7 DEF Good, WholeHolds
<1>. QED
  BY <1>1, <1>5, <1>6, <1>8, ListGrows
-----------------------------------------------------------------------------
(* No line of a good file is refused: neither an option line nor a number.   *)
LEMMA OptionIsNotRefused ==
    ASSUME Known, HeaderInv, Good, RejectOptionLine
    PROVE  FALSE
<1>1. /\ pc = "header" /\ pos < Len(file) /\ Line.kind = "option" /\ header.options = 0
      /\ Line.arg \notin ValueFormats
  BY DEF RejectOptionLine, Takes
<1>2. PICK m \in 1..Len(file) : m = pos + 1
  BY <1>1 DEF Known, ScanTypes
<1>3. Ahead(m)
  BY <1>1, <1>2, LineAhead
<1>4. m \in Options(file) /\ Line = file[m] /\ \A j \in 1..(m - 1) : j \notin Options(file)
  BY <1>1, <1>3 DEF Ahead
<1>5. OptionHolds(file, m)
  BY DEF Good, LineHolds
<1>. QED
  BY <1>1, <1>4, <1>5 DEF OptionHolds

(* A list line adds its tokens to what is collected.                         *)
LEMMA ListTakesLine ==
    ASSUME Known, HeaderInv, NEW m, Ahead(m), m \in Listed(file)
    PROVE  /\ pos \in Nat /\ m \in 0..Len(file) /\ pos \in 0..Len(file)
           /\ Len(Line.v) \in Nat /\ Len(Collected(file)[pos]) \in Nat
           /\ Len(Collected(file)[m]) = Len(Collected(file)[pos]) + Len(Line.v)
<1>1. /\ m \in 1..Len(file) /\ m = pos + 1 /\ pos \in Nat /\ m - 1 = pos /\ file \in Seq(Lines)
      /\ Line = file[m] /\ ScanTypes /\ pos < Len(file) /\ Len(file) \in Nat
  BY DEF Ahead, Known, ScanTypes
<1>2. pos \in 0..Len(file) /\ m \in 0..Len(file)
  BY <1>1
<1>3. PICK before \in Seq(AllPlaces), on \in Seq(AllPlaces) :
         /\ before = Collected(file)[pos] /\ on = OnLine(file, m) /\ Len(on) = Len(Line.v)
         /\ Collected(file)[m] = before \o on
  <2>1. Collected(file)[pos] \in Seq(AllPlaces)
        /\ Collected(file)[m] = Collected(file)[m - 1] \o ListedOn(file, m)
    BY <1>1, <1>2, ListAddsUp
  <2>2. OnLine(file, m) \in Seq(AllPlaces) /\ Len(OnLine(file, m)) = Len(file[m].v)
    BY <1>1, OnLineIsTyped
  <2>3. ListedOn(file, m) = OnLine(file, m)
    BY DEF ListedOn
  <2>. QED
    BY <1>1, <2>1, <2>2, <2>3
<1>4. Len(before \o on) = Len(before) + Len(on) /\ Len(before) \in Nat /\ Len(on) \in Nat
  OBVIOUS
<1>. QED
  BY <1>1, <1>2, <1>3, <1>4

(* In a good file no number stands in the header outside a list.             *)
LEMMA NumbersAreNotRefused ==
    ASSUME Known, HeaderInv, Good, RejectEarlyData
    PROVE  FALSE
<1>1. pc = "header" /\ pos < Len(file) /\ Line.kind = "data"
  BY DEF RejectEarlyData, Takes
<1>2. PICK m \in 1..Len(file) : m = pos + 1
  BY <1>1 DEF Known, ScanTypes
<1>3. Ahead(m)
  BY <1>1, <1>2, LineAhead
<1>4. file[m].kind = "data" /\ m \notin Information(file) /\ ~Above(file, m, "NetworkData")
  BY <1>1, <1>3 DEF Ahead, Behind, Sections
<1>5. m \in Listed(file)
  BY <1>4 DEF Good, LineHolds, NumbersHold
<1>6. "Reference" \in header.seen
  BY <1>3, <1>4, <1>5, ListAhead
<1>7. Len(Collected(file)[pos]) = header.nports
  BY <1>1, <1>6 DEF Known, ListInv, Declared
<1>8. Len(Line.v) > 0
  BY <1>1, LineIsTyped DEF Known
<1>9. /\ pos \in Nat /\ m \in 0..Len(file)
      /\ Len(Line.v) \in Nat /\ Len(Collected(file)[pos]) \in Nat
      /\ Len(Collected(file)[m]) = Len(Collected(file)[pos]) + Len(Line.v)
  BY <1>3, <1>5, ListTakesLine
<1>10. Len(Collected(file)[m]) <= header.nports
  <2>1. \E r \in 1..pos : file[r].kind = "Reference"
    BY <1>6 DEF Known, SeenInv, Watched
  <2>2. \E r \in 1..Len(file) : r <= pos + 1 /\ file[r].kind = "Reference"
    BY <1>1, <1>9, <2>1 DEF Known, ScanTypes
  <2>3. Has(file, "Reference")
    BY <2>2, FirstOfItsKind DEF Known, ScanTypes
  <2>. QED
    BY <1>9, <2>2, <2>3, ListOfAGoodFile
<1>. QED
  BY <1>7, <1>8, <1>9, <1>10

(* In a good file no keyword is refused: not as a second one, out of         *)
(* place, of a wrong argument or before what it needs.                       *)
LEMMA KeywordIsNotRefused ==
    ASSUME Known, HeaderInv, Good, RejectKeyword
    PROVE  FALSE
<1>1. /\ pc = "header" /\ pos < Len(file) /\ Line.kind \in Bracketed
      /\ KeywordFault(Line.kind) # NoFault
  BY DEF RejectKeyword, Takes
<1>2. PICK m \in 1..Len(file) : m = pos + 1
  BY <1>1 DEF Known, ScanTypes
<1>3. Ahead(m)
  BY <1>1, <1>2, LineAhead
<1>4. /\ file \in Seq(Lines) /\ pos \in Nat /\ m - 1 = pos /\ Line = file[m] /\ ScanTypes
      /\ file[m].count \in Nat
  BY <1>2, <1>3 DEF Ahead, Known, ScanTypes
<1>5. KeywordHolds(file, m) /\ ArgumentHolds(file, m) /\ NumbersHold(file, m)
  BY DEF Good, LineHolds
<1>6. \A i \in 1..Len(file) : KeywordHolds(file, i)
  BY DEF Good, LineHolds
<1>7. Single(file)
  BY <1>4, <1>6, LinesAreSingle
<1>8. PICK kind : kind = file[m].kind
  OBVIOUS
<1>9. ~Above(file, m, "NetworkData")
  BY <1>1, <1>3 DEF Ahead, Behind, Sections
<1>10. kind \notin {"broken", "MixedModeOrder", "NoiseData", "End"}
  BY <1>5, <1>8, <1>9 DEF KeywordHolds
<1>11. kind # "EndInformation"
  <2>1. SUFFICES ASSUME kind = "EndInformation" PROVE FALSE
    OBVIOUS
  <2>2. Above(file, m, "BeginInformation") /\ ~Above(file, m, "EndInformation")
    BY <1>5, <1>8, <2>1 DEF KeywordHolds, Keywords
  <2>3. PICK b \in 1..pos : file[b].kind = "BeginInformation"
    BY <1>4, <2>2 DEF Above
  <2>4. b \in 1..Len(file)
    BY <1>1, <1>4 DEF ScanTypes
  <2>5. IsFirst(file, b, "BeginInformation")
    BY <1>4, <1>7, <2>3, <2>4, TheLine DEF Keywords
  <2>6. PICK e \in b..pos : file[e].kind = "EndInformation"
    BY <1>1, <2>5 DEF Known, BlocksInv
  <2>7. e \in 1..(m - 1)
    BY <1>4, <2>3
  <2>. QED
    BY <2>2, <2>6, <2>7 DEF Above
<1>12. kind \in InHeader
  BY <1>1, <1>4, <1>8, <1>10, <1>11 DEF InHeader, Once, Bracketed
<1>13. kind \notin header.seen
  <2>1. kind \in Keywords
    BY <1>12 DEF InHeader, Once
  <2>2. ~Above(file, m, kind)
    BY <1>5, <1>8, <2>1 DEF KeywordHolds
  <2>. QED
    BY <1>3, <1>12, <2>2 DEF Ahead
<1>14. ASSUME kind = "Version" PROVE header.options = 0 /\ header.seen = {}
  <2>1. \A j \in 1..(m - 1) : file[j].kind \notin Bracketed \cup {"option"}
    BY <1>5, <1>8, <1>14 DEF KeywordHolds
  <2>2. header.options = 0
    BY <1>3, <2>1 DEF Ahead, Options, LinesOf
  <2>3. ASSUME NEW w \in header.seen PROVE FALSE
    <3>1. w \in InHeader
      BY DEF HeaderInv, ClaimedInv
    <3>2. Above(file, m, w) /\ w \in Bracketed
      BY <1>3, <3>1 DEF Ahead, InHeader, Once, Bracketed
    <3>. QED
      BY <2>1, <3>2 DEF Above
  <2>. QED
    BY <2>2, <2>3
<1>15. Above(file, m, "NumberOfPorts") => "NumberOfPorts" \in header.seen
  BY <1>3 DEF Ahead, InHeader, Once, Keywords
<1>16. kind \in {"Reference", "TwoPortDataOrder"} => header.nports # None
  <2>1. kind \in {"Reference", "TwoPortDataOrder"} => Above(file, m, "NumberOfPorts")
    BY <1>5, <1>8 DEF KeywordHolds
  <2>. QED
    BY <1>15, <2>1, PortsAreNoted
<1>17. kind = "NumberOfPorts" =>
          header.options # 0 /\ file[m].count # 0 /\ ValuesPerPoint(file[m].count) # None
  <2>1. SUFFICES ASSUME kind = "NumberOfPorts"
                 PROVE  header.options # 0 /\ file[m].count # 0
                        /\ ValuesPerPoint(file[m].count) # None
    OBVIOUS
  <2>2. /\ file[m].count > 0 /\ 2 * file[m].count * file[m].count + 1 <= MaxUsize
        /\ \E j \in 1..(m - 1) : j \in Options(file)
    BY <1>5, <1>8, <2>1 DEF ArgumentHolds
  <2>3. header.options # 0
    BY <1>3, <2>2 DEF Ahead
  <2>. QED
    BY <1>4, <2>2, <2>3, SizeIsUsable
<1>18. kind \in Counts => file[m].count # 0
  BY <1>4, <1>5, <1>8 DEF ArgumentHolds
<1>19. kind = "TwoPortDataOrder" => header.nports = 2 /\ file[m].arg \in TwoPortOrders
  <2>1. SUFFICES ASSUME kind = "TwoPortDataOrder"
                 PROVE  header.nports = 2 /\ file[m].arg \in TwoPortOrders
    OBVIOUS
  <2>2. file[m].arg \in TwoPortOrders
    BY <1>5, <1>8, <2>1 DEF ArgumentHolds
  <2>3. PICK j \in 1..(m - 1) : file[j].kind = "NumberOfPorts" /\ file[j].count = 2
    BY <1>5, <1>8, <2>1 DEF ArgumentHolds
  <2>4. j \in 1..Len(file) /\ Above(file, m, "NumberOfPorts")
    BY <1>4, <2>3 DEF Above
  <2>5. LineOf(file, "NumberOfPorts") = j
    BY <1>4, <1>7, <2>3, <2>4, TheLine DEF Keywords
  <2>6. header.nports = Ports(file)
    BY <1>15, <2>4, PortsAreNoted
  <2>. QED
    BY <2>2, <2>3, <2>5, <2>6 DEF Ports
<1>20. kind = "MatrixFormat" => file[m].arg \in MatrixFormats
  BY <1>5, <1>8 DEF ArgumentHolds
<1>21. kind = "Reference" => ListFault = NoFault /\ ~(Len(Line.v) > header.nports)
  <2>1. SUFFICES ASSUME kind = "Reference"
                 PROVE  ListFault = NoFault /\ ~(Len(Line.v) > header.nports)
    OBVIOUS
  <2>2. IsFirst(file, m, "Reference") /\ Has(file, "Reference")
    BY <1>4, <1>7, <1>8, <2>1, TheLine DEF Keywords
  <2>3. m \in Listed(file)
    <3>1. \A j \in (m + 1)..m : file[j].kind \notin Bracketed
      BY <1>4
    <3>2. m \in 1..m
      OBVIOUS
    <3>. QED
      BY <1>4, <1>8, <2>1, <2>2, <3>1, <3>2, ListedLines
  <2>4. ListFault = NoFault
    BY <1>4, <1>5, <2>3, ListPasses DEF NumbersHold
  <2>5. /\ m \in 0..Len(file) /\ Len(Line.v) \in Nat /\ Len(Collected(file)[pos]) \in Nat
        /\ Len(Collected(file)[m]) = Len(Collected(file)[pos]) + Len(Line.v)
    BY <1>3, <2>3, ListTakesLine
  <2>6. /\ header.nports \in Nat /\ Len(Collected(file)[m]) \in Nat
        /\ Len(Collected(file)[m]) <= header.nports
    <3>1. m \in 1..Len(file) /\ m <= pos + 1 /\ file[m].kind = "Reference"
      BY <1>2, <1>4, <1>8, <2>1
    <3>2. \E r \in 1..Len(file) : r <= pos + 1 /\ file[r].kind = "Reference"
      BY <3>1
    <3>. QED
      BY <2>2, <2>5, <3>2, ListOfAGoodFile
  <2>7. PICK before \in Nat, on \in Nat, upTo \in Nat, ports \in Nat :
           /\ before = Len(Collected(file)[pos]) /\ on = Len(Line.v)
           /\ upTo = Len(Collected(file)[m]) /\ ports = header.nports
    BY <2>5, <2>6
  <2>8. upTo = before + on /\ upTo <= ports
    BY <2>5, <2>6, <2>7
  <2>9. ~(on > ports)
    BY <2>8
  <2>. QED
    BY <2>4, <2>7, <2>9
<1>22. KeywordFault(Line.kind) = NoFault
  BY <1>4, <1>8, <1>12, <1>13, <1>14, <1>16, <1>17, <1>18, <1>19, <1>20, <1>21, KeywordPasses
<1>. QED
  BY <1>1, <1>22

(* A good file has its [Network Data].                                       *)
LEMMA DataIsNotMissed ==
    ASSUME Known, HeaderInv, Good, MissNetworkData
    PROVE  FALSE
<1>1. pc = "header" /\ pos = Len(file)
  BY DEF MissNetworkData, RunsOut
<1>2. Has(file, "NetworkData") /\ file \in Seq(Lines)
  BY DEF Good, WholeHolds, Known, ScanTypes
<1>3. \E i \in 1..Len(file) : file[i].kind = "NetworkData"
  BY <1>2, FirstOfItsKind
<1>4. "NetworkData" \in header.seen
  BY <1>1, <1>3 DEF HeaderInv, ClaimedInv, InHeader, Once, Keywords
<1>. QED
  BY <1>1, <1>4 DEF Known, SectionsInv, Behind, Sections

(* In a good file the information block closes.                              *)
LEMMA InformationIsNotRefused ==
    ASSUME Known, HeaderInv, Good, RejectInformation
    PROVE  FALSE
<1>1. pc = "information" /\ pos \in Nat /\ file \in Seq(Lines)
  BY DEF RejectInformation, Takes, RunsOut, Known, ScanTypes
<1>2. PICK b \in 1..pos : /\ IsFirst(file, b, "BeginInformation")
                          /\ \A j \in b..pos : file[j].kind # "EndInformation"
  BY <1>1 DEF Known, BlocksInv
<1>3. CASE /\ pos < Len(file) /\ Line.kind \in Bracketed \ {"EndInformation"}
  <2>1. PICK m \in 1..Len(file) : m = pos + 1
    BY <1>3 DEF Known, ScanTypes
  <2>2. Ahead(m)
    BY <1>3, <2>1, LineAhead
  <2>3. m \in Information(file) /\ file[m].kind \in Bracketed
    BY <1>1, <1>3, <2>2 DEF Ahead
  <2>4. KeywordHolds(file, m)
    BY DEF Good, LineHolds
  <2>. QED
    BY <2>3, <2>4 DEF KeywordHolds
<1>4. CASE pos = Len(file)
  <2>1. Has(file, "BeginInformation")
    BY <1>1, <1>2, FirstOfItsKind
  <2>2. Has(file, "EndInformation")
    BY <2>1 DEF Good, WholeHolds
  <2>3. PICK e \in 1..Len(file) : file[e].kind = "EndInformation"
    BY <1>1, <2>2, FirstOfItsKind
  <2>4. Above(file, e, "BeginInformation")
    BY <2>3 DEF Good, LineHolds, KeywordHolds
  <2>5. PICK j \in 1..(e - 1) : file[j].kind = "BeginInformation"
    BY <2>4 DEF Above
  <2>6. b <= j
    BY <1>1, <1>2, <2>3, <2>5 DEF IsFirst
  <2>. QED
    BY <1>1, <1>2, <1>4, <2>3, <2>5, <2>6
<1>. QED
  BY <1>3, <1>4 DEF RejectInformation, Takes, RunsOut

(* In a good file the [Reference] list is filled and closed.                 *)
LEMMA ListIsNotRefused ==
    ASSUME Known, HeaderInv, Good, RejectReference
    PROVE  FALSE
<1>1. pc = "reference" /\ pos \in Nat /\ file \in Seq(Lines) /\ pos \in 0..Len(file)
  BY DEF RejectReference, Takes, RunsOut, Known, ScanTypes
<1>2. PICK r \in 1..pos : /\ IsFirst(file, r, "Reference")
                          /\ \A j \in (r + 1)..pos : file[j].kind \notin Bracketed
  BY <1>1 DEF Known, ListInv, ListIsOpen
<1>3. Has(file, "Reference") /\ \E i \in 1..Len(file) : i <= pos + 1 /\ file[i].kind = "Reference"
  BY <1>1, <1>2, FirstOfItsKind DEF IsFirst
<1>4. Collected(file)[pos] = list /\ Len(list) < header.nports
  BY <1>1 DEF Known, ListInv, HeaderInv, OpenInv
<1>5. header.nports \in Nat /\ Len(list) \in Nat
  BY <1>1, <1>3, <1>4, ListOfAGoodFile
(* More lines of the list are to come.                                       *)
<1>6. PICK i \in (pos + 1)..Len(file) : i \in Listed(file)
  <2>1. Len(Collected(file)[pos]) # header.nports
    BY <1>4, <1>5
  <2>. QED
    BY <1>1, <1>3, <2>1, ListOfAGoodFile
<1>7. PICK m \in 1..Len(file) : m = pos + 1
  BY <1>1, <1>6
<1>8. pos < Len(file) /\ i \in m..Len(file) /\ i \in 1..Len(file)
  BY <1>1, <1>6, <1>7
<1>9. Ahead(m)
  BY <1>7, <1>8, LineAhead
<1>10. /\ Line = file[m] /\ m - 1 = pos /\ NumbersHold(file, m)
  BY <1>1, <1>7, <1>9 DEF Ahead, Good, LineHolds
<1>11. /\ file[i].kind = "data"
       /\ \A j \in (r + 1)..i : file[j].kind \notin Bracketed
  <2>1. /\ file[i].kind \in {"Reference", "data"}
        /\ \E q \in 1..i : /\ IsFirst(file, q, "Reference")
                           /\ \A j \in (q + 1)..i : file[j].kind \notin Bracketed
    BY <1>1, <1>6, <1>8, ListedLines
  <2>2. \A j \in (r + 1)..i : file[j].kind \notin Bracketed
    BY <1>1, <1>2, <2>1, FirstIsOne
  <2>3. i \in (r + 1)..i
    BY <1>1, <1>2, <1>7, <1>8
  <2>4. file[i].kind # "Reference"
    BY <2>2, <2>3 DEF Bracketed, Keywords
  <2>. QED
    BY <2>1, <2>2, <2>4
<1>12. m \in (r + 1)..i
  BY <1>1, <1>2, <1>7, <1>8
<1>13. Line.kind \notin Bracketed
  BY <1>10, <1>11, <1>12
<1>14. Line.kind # "option"
  <2>1. SUFFICES ASSUME Line.kind = "option" PROVE FALSE
    OBVIOUS
  <2>2. m \in Options(file) /\ m \in ReferenceLines(file)
    BY <1>1, <1>9, <1>10, <1>13, <2>1, ListAhead DEF Ahead
  <2>3. m # i
    BY <1>10, <1>11, <2>1
  <2>4. m \in 1..(i - 1)
    BY <1>7, <1>8, <2>3
  <2>5. NumbersHold(file, i)
    BY <1>8 DEF Good, LineHolds
  <2>. QED
    BY <1>6, <1>11, <2>2, <2>4, <2>5 DEF NumbersHold
<1>15. Line.kind # "data"
  <2>1. SUFFICES ASSUME Line.kind = "data" PROVE FALSE
    OBVIOUS
  <2>2. m \in Listed(file)
    BY <1>1, <1>9, <1>10, <2>1, ListAhead
  <2>3. ListFault = NoFault
    BY <1>10, <2>2, ListPasses DEF NumbersHold
  <2>4. /\ m \in 0..Len(file) /\ Len(Line.v) \in Nat
        /\ Len(Collected(file)[m]) = Len(list) + Len(Line.v)
    BY <1>4, <1>9, <2>2, ListTakesLine
  <2>5. Len(Collected(file)[m]) <= header.nports
    BY <1>3, <2>4, ListOfAGoodFile
  <2>6. ~(Len(list) + Len(Line.v) > header.nports)
    BY <1>5, <2>4, <2>5
  <2>. QED
    BY <1>8, <2>1, <2>3, <2>6 DEF RejectReference, Takes, RunsOut, Bracketed, Keywords
<1>. QED
  BY <1>8, <1>13, <1>14, <1>15 DEF RejectReference, Takes, RunsOut

(* Every keyword of the header stands in front of the data.                  *)
LEMMA HeaderTells ==
    ASSUME Known, HeaderInv, pc \in {"plan"} \cup Behind,
           \A i \in 1..Len(file) : LineHolds(file, i), NEW w \in InHeader
    PROVE  Has(file, w) <=> w \in header.seen
<1>1. file \in Seq(Lines) /\ pos \in 0..Len(file) /\ Len(file) \in Nat
  BY DEF Known, ScanTypes
<1>2. Has(file, w) <=> \E i \in 1..Len(file) : file[i].kind = w
  BY <1>1, FirstOfItsKind
<1>3. w \in header.seen <=> \E i \in 1..pos : file[i].kind = w
  BY DEF HeaderInv, ClaimedInv
<1>4. ASSUME NEW i \in 1..Len(file), file[i].kind = w PROVE i \in 1..pos
  <2>1. ~Above(file, i, "NetworkData")
    BY <1>4 DEF LineHolds, KeywordHolds
  <2>2. dataStartsAt \in 1..pos /\ IsFirst(file, dataStartsAt, "NetworkData")
    BY DataStarts DEF Known
  <2>3. dataStartsAt \notin 1..(i - 1)
    BY <2>1, <2>2 DEF Above, IsFirst
  <2>. QED
    BY <1>1, <2>2, <2>3
<1>. QED
  BY <1>1, <1>2, <1>3, <1>4

(* What was noted of a keyword stands on its line.                           *)
LEMMA NotedOnItsLine ==
    ASSUME Known, NEW w \in Noted, w \in header.seen
    PROVE  /\ Has(file, w) /\ LineOf(file, w) \in 1..pos /\ LineOf(file, w) \in 1..Len(file)
           /\ file[LineOf(file, w)].kind = w /\ Notes[w] = Said(file, w, LineOf(file, w))
<1>1. file \in Seq(Lines)
  BY DEF Known, ScanTypes
<1>2. PICK i \in 1..pos : IsFirst(file, i, w) /\ Notes[w] = Said(file, w, i)
  BY DEF Known, NotesInv
<1>3. Has(file, w) /\ LineOf(file, w) = i
  BY <1>1, <1>2, FirstOfItsKind
<1>. QED
  BY <1>2, <1>3 DEF IsFirst

(* The format the header holds is the file's, and so is the size of a point. *)
LEMMA SizeIsNoted ==
    ASSUME Known, HeaderInv, pc \in {"plan"} \cup Behind,
           \A i \in 1..Len(file) : LineHolds(file, i), Has(file, "NumberOfPorts")
    PROVE  /\ header.nports = Ports(file) /\ header.nports \in Nat \ {0}
           /\ Size(file) = PointSize /\ PointSize \in Nat \ {0}
<1>1. {"NumberOfPorts", "MatrixFormat"} \subseteq InHeader /\ {"NumberOfPorts", "MatrixFormat"} \subseteq Noted
  BY DEF InHeader, Once, Keywords, Noted
<1>2. "NumberOfPorts" \in header.seen
  BY <1>1, HeaderTells
<1>3. header.nports = Ports(file) /\ header.nports \in Nat /\ header.nports # None
  BY <1>2, PortsAreNoted
<1>4. header.nports # 0 /\ ValuesPerPoint(header.nports) # None
  <2>1. ValuesPerPoint(header.nports) # None
    BY <1>3 DEF Known, Declared
  <2>. QED
    BY <1>3, <2>1, SizeIsUsable
<1>5. Has(file, "MatrixFormat") <=> "MatrixFormat" \in header.seen
  BY <1>1, HeaderTells
<1>6. Full <=> Format(file) = "Full"
  <2>1. CASE "MatrixFormat" \in header.seen
    <3>1. PICK i \in 1..Len(file) : /\ i = LineOf(file, "MatrixFormat") /\ file[i].kind = "MatrixFormat"
                                    /\ Notes["MatrixFormat"] = Said(file, "MatrixFormat", i)
      BY <1>1, <2>1, NotedOnItsLine
    <3>2. header.matrixFormat = file[i].arg
      BY <3>1 DEF Notes, Said
    <3>3. file[i].arg \in MatrixFormats
      BY <3>1 DEF LineHolds, ArgumentHolds
    <3>. QED
      BY <1>5, <2>1, <3>1, <3>2, <3>3 DEF Full, Format, MatrixFormats
  <2>2. CASE "MatrixFormat" \notin header.seen
    <3>1. Notes["MatrixFormat"] = Unsaid["MatrixFormat"]
      BY <1>1, <2>2 DEF Known, NotesInv
    <3>2. header.matrixFormat = "none"
      BY <3>1 DEF Notes, Unsaid
    <3>. QED
      BY <1>5, <2>2, <3>2 DEF Full, Format
  <2>. QED
    BY <2>1, <2>2
<1>7. PICK ports \in Nat \ {0} : ports = header.nports
  BY <1>3, <1>4
<1>8. PICK square \in Nat : square = ports * ports
  BY <1>7
<1>9. 2 * ports * ports = square * 2 /\ ports * (ports + 1) = square + ports
  BY <1>7, <1>8
<1>10. ValuesPerPoint(ports) = square * 2 + 1
  BY <1>4, <1>7, <1>8 DEF ValuesPerPoint
<1>11. TriangleValues(ports) = square + ports + 1
  BY <1>8 DEF TriangleValues
<1>12. Size(file) = IF Full THEN square * 2 + 1 ELSE square + ports + 1
  BY <1>3, <1>6, <1>7, <1>9 DEF Size
<1>13. PointSize = IF Full THEN square * 2 + 1 ELSE square + ports + 1
  BY <1>7, <1>10, <1>11 DEF PointSize, n
<1>. QED
  BY <1>3, <1>4, <1>7, <1>8, <1>12, <1>13, SMTT(30)

(* The option line in force is the first.                                    *)
LEMMA OptionsAreFirst ==
    ASSUME Known, HeaderInv, header.options # 0
    PROVE  /\ header.options = Min(Options(file)) /\ Options(file) # {}
           /\ header.options \in 1..Len(file)
           /\ Len(Resistances) = Len(file[header.options].v)
<1>1. file \in Seq(Lines) /\ pos \in 0..Len(file) /\ Len(file) \in Nat
  BY DEF Known, ScanTypes
<1>2. Options(file) \subseteq 1..Len(file)
  BY DEF Options, LinesOf
<1>3. header.options \in Options(file) /\ \A i \in Options(file) : header.options <= i
  BY DEF Known, OptionsInv
<1>4. Options(file) \subseteq Nat
  BY <1>1, <1>2
<1>5. Min(Options(file)) = header.options
  BY <1>3, <1>4, MinIsThat
<1>6. PICK i \in 1..Len(file) : i = header.options
  BY <1>2, <1>3
<1>7. Resistances = OnLine(file, i)
  BY <1>6 DEF Resistances, Places, OnLine
<1>. QED
  BY <1>1, <1>3, <1>5, <1>6, <1>7, OnLineIsTyped

(* The plan of a good file has no fault.                                     *)
LEMMA PlanOfAGoodFile ==
    ASSUME Known, HeaderInv, Good, pc = "plan", fileValues \in Nat
    PROVE  PlanFault = NoFault
<1>1. /\ \A i \in 1..Len(file) : LineHolds(file, i)
      /\ \A w \in {"NumberOfPorts", "NumberOfFrequencies", "NetworkData"} : Has(file, w)
      /\ pos \in 0..Len(file) /\ Len(file) \in Nat /\ file \in Seq(Lines)
  BY DEF Good, WholeHolds, Known, ScanTypes
<1>2. \A w \in InHeader : Has(file, w) <=> w \in header.seen
  BY <1>1, HeaderTells
<1>3. {"NumberOfPorts", "NumberOfFrequencies", "TwoPortDataOrder", "Reference"} \subseteq InHeader
  BY DEF InHeader, Once, Keywords
<1>4. /\ header.nports = Ports(file) /\ header.nports \in Nat \ {0}
      /\ Size(file) = PointSize /\ PointSize \in Nat \ {0}
  BY <1>1, SizeIsNoted
<1>5. header.nfreqs # None
  <2>1. "NumberOfFrequencies" \in header.seen /\ "NumberOfFrequencies" \in Noted
    BY <1>1, <1>2, <1>3 DEF Noted
  <2>2. PICK i \in 1..Len(file) : Notes["NumberOfFrequencies"] = Said(file, "NumberOfFrequencies", i)
    BY <2>1, NotedOnItsLine
  <2>3. header.nfreqs = file[i].count
    BY <2>2 DEF Notes, Said
  <2>4. file[i] \in Lines
    BY <1>1, <2>2
  <2>. QED
    BY <2>3, <2>4 DEF Lines, None
<1>6. header.options # 0
  <2>1. PICK p \in 1..pos : p \in 1..Len(file) /\ file[p].kind = "NumberOfPorts"
    BY <1>1, <1>2, <1>3, NotedOnItsLine DEF Noted
  <2>2. PICK j \in 1..(p - 1) : j \in Options(file)
    BY <1>1, <2>1 DEF LineHolds, ArgumentHolds
  <2>3. j \in 1..pos
    BY <1>1, <2>1, <2>2
  <2>. QED
    BY <2>2, <2>3 DEF Known, OptionsInv
<1>7. n = 2 => header.twoPortOrder # "none"
  <2>1. SUFFICES ASSUME n = 2 PROVE header.twoPortOrder # "none"
    OBVIOUS
  <2>2. "TwoPortDataOrder" \in header.seen /\ "TwoPortDataOrder" \in Noted
    BY <1>2, <1>3, <1>4, <2>1 DEF Good, WholeHolds, n, Noted
  <2>3. PICK i \in 1..Len(file) : /\ file[i].kind = "TwoPortDataOrder"
                                  /\ Notes["TwoPortDataOrder"] = Said(file, "TwoPortDataOrder", i)
    BY <2>2, NotedOnItsLine
  <2>4. header.twoPortOrder = file[i].arg
    BY <2>3 DEF Notes, Said
  <2>5. file[i].arg \in TwoPortOrders
    BY <1>1, <2>3 DEF LineHolds, ArgumentHolds
  <2>. QED
    BY <2>4, <2>5 DEF TwoPortOrders
<1>8. hint \in {None, n}
  BY <1>4 DEF Good, WholeHolds, n
<1>9. ~(PointSize > fileValues)
  <2>1. PICK size \in Nat : size = PointSize
    BY <1>4
  <2>2. size <= fileValues
    BY <1>4, <2>1 DEF Good, WholeHolds, NetworkHolds
  <2>3. ~(size > fileValues)
    BY <2>2
  <2>. QED
    BY <2>1, <2>3
<1>10. ReferenceHolds
  <2>1. CASE Has(file, "Reference")
    <3>1. "Reference" \in header.seen
      BY <1>2, <1>3, <2>1
    <3>2. header.reference # <<>>
      BY <3>1 DEF Known, ListInv
    <3>. QED
      BY <3>2 DEF ReferenceHolds
  <2>2. CASE ~Has(file, "Reference")
    <3>1. Len(file[Min(Options(file))].v) \in {1, Ports(file)}
      BY <2>2 DEF Good, WholeHolds
    <3>2. Len(Resistances) \in {1, n}
      BY <1>4, <1>6, <3>1, OptionsAreFirst DEF n
    <3>. QED
      BY <3>2 DEF ReferenceHolds
  <2>. QED
    BY <2>1, <2>2
<1>11. None \notin {header.nports, header.nfreqs}
  BY <1>4, <1>5 DEF None
<1>. QED
  BY <1>6, <1>7, <1>8, <1>9, <1>10, <1>11 DEF PlanFault

(* The noise rows kept: one of each line of the section, its frequency first. *)
NoiseRowsInv ==
    /\ noiseStartsAt # 0 => header.nports = 2
    /\ \A i \in 1..Len(noise) : /\ noise[i].line \in 1..pos
                                /\ noise[i].hz = file[noise[i].line].v[1]
    /\ Cardinality({noise[i].line : i \in 1..Len(noise)}) = Len(noise)

(* A row past the last one is past them all.                                 *)
LEMMA RowIsPast ==
    ASSUME Known, NoiseInv, NoiseRowsInv, SweepAscends, pc \in Behind, NEW hz \in Int,
           NEW m, m = pos + 1
    PROVE  PastLastRow(hz) <=> \A j \in 1..(m - 1) : j \in NoiseLines(file) => file[j].v[1] < hz
<1>1. noise \in Seq(Rows) /\ Len(noise) \in Nat /\ pos \in Nat /\ m - 1 = pos
  BY DEF Known, ScanTypes
<1>2. \A j \in NoiseLines(file) : j \in Nat
  BY DEF NoiseLines, LinesOf
<1>3. \A j \in 1..pos : j \in NoiseLines(file)
                          <=> \E i \in 1..Len(noise) : noise[i].line = j
  <2>1. {noise[i].line : i \in 1..Len(noise)} = {j \in NoiseLines(file) : j <= pos}
    BY DEF NoiseInv
  <2>2. \A j : j \in {noise[i].line : i \in 1..Len(noise)} <=> j \in {l \in NoiseLines(file) : l <= pos}
    BY <2>1
  <2>. QED
    BY <1>1, <2>2
<1>4. \A i \in 1..Len(noise) : /\ noise[i].hz \in Int /\ noise[i].line \in 1..pos
                               /\ noise[i].hz = file[noise[i].line].v[1]
  <2>1. \A i \in 1..Len(noise) : noise[i] \in Rows
    BY <1>1
  <2>. QED
    BY <2>1 DEF NoiseRowsInv, Rows
<1>5. CASE noise = <<>>
  <2>1. PastLastRow(hz)
    BY <1>5 DEF PastLastRow
  <2>2. Len(noise) = 0
    BY <1>5
  <2>3. \A j \in 1..pos : j \notin NoiseLines(file)
    BY <1>3, <2>2
  <2>. QED
    BY <1>1, <2>1, <2>3
<1>6. CASE noise # <<>>
  <2>1. PICK last \in 1..Len(noise) : last = Len(noise)
    BY <1>1, <1>6
  <2>2. PastLastRow(hz) <=> noise[last].hz < hz
    BY <1>6, <2>1 DEF PastLastRow
  <2>3. ASSUME noise[last].hz < hz, NEW j \in 1..pos, j \in NoiseLines(file)
        PROVE  file[j].v[1] < hz
    <3>1. PICK i \in 1..Len(noise) : noise[i].line = j
      BY <1>3, <2>3
    <3>2. i = last \/ noise[i].hz < noise[last].hz
      BY <1>1, <2>1 DEF SweepAscends
    <3>3. noise[i].hz < hz
      BY <1>4, <2>3, <3>2
    <3>. QED
      BY <1>4, <3>1, <3>3
  <2>4. ASSUME \A j \in 1..pos : j \in NoiseLines(file) => file[j].v[1] < hz
        PROVE  noise[last].hz < hz
    <3>1. PICK j \in 1..pos : j = noise[last].line
      BY <1>4
    <3>2. j \in NoiseLines(file)
      BY <1>3, <3>1
    <3>. QED
      BY <1>4, <2>4, <3>1, <3>2
  <2>. QED
    BY <1>1, <2>2, <2>3, <2>4
<1>. QED
  BY <1>5, <1>6

(* A row without a fault is one the grammar allows.                          *)
LEMMA RowIsGood ==
    ASSUME Known, NoiseInv, NoiseRowsInv, SweepAscends, pc \in Behind, NEW m, Ahead(m)
    PROVE  RowFault(Line.v) = NoFault <=> RowHolds(file, m)
<1>1. /\ m = pos + 1 /\ Line = file[m] /\ pos < Len(file) /\ pos \in Nat
  BY DEF Ahead, Known, ScanTypes
<1>2. PICK v \in Seq(Int) : v = Line.v
  BY <1>1, LineIsTyped DEF Known
<1>3. Unreadable \in Int /\ ~Finite(Unreadable)
  BY MaxFiniteAssumption DEF Unreadable, Finite
<1>4. CASE Len(v) # 5
  BY <1>1, <1>2, <1>4 DEF RowFault, RowHolds, NoiseValuesPerSet, NoFault
<1>5. CASE Len(v) = 5
  <2>1. v[1] \in Int /\ 1 \in 1..5
    BY <1>2, <1>5
  <2>2. RowFault(v) = NoFault
          <=> /\ Unreadable \notin {v[i] : i \in 1..Len(v)} /\ Finite(v[1])
              /\ ~(\E i \in 2..Len(v) : ~Finite(v[i])) /\ PastLastRow(v[1])
    BY <1>5 DEF RowFault, NoiseValuesPerSet, NoFault
  <2>3. (\A c \in 1..5 : Finite(v[c]))
          <=> /\ Unreadable \notin {v[i] : i \in 1..Len(v)} /\ Finite(v[1])
              /\ ~(\E i \in 2..Len(v) : ~Finite(v[i]))
    <3>1. \A c \in 1..5 : c = 1 \/ c \in 2..5
      OBVIOUS
    <3>2. \A c \in 2..5 : c \in 1..5
      OBVIOUS
    <3>3. Unreadable \in {v[i] : i \in 1..5} => \E c \in 1..5 : ~Finite(v[c])
      BY <1>3
    <3>4. (\A c \in 1..5 : Finite(v[c])) <=> Finite(v[1]) /\ ~(\E i \in 2..5 : ~Finite(v[i]))
      BY <2>1, <3>1, <3>2
    <3>. QED
      BY <1>5, <3>3, <3>4
  <2>4. PastLastRow(v[1])
          <=> \A j \in 1..(m - 1) : j \in NoiseLines(file) => file[j].v[1] < v[1]
    BY <1>1, <2>1, RowIsPast
  <2>. QED
    BY <1>1, <1>2, <1>5, <2>2, <2>3, <2>4 DEF RowHolds
<1>. QED
  BY <1>4, <1>5
-----------------------------------------------------------------------------
(* Each keyword behind [Network Data] opens the next section.                *)
LEMMA SectionKeywordHolds ==
    ASSUME Known, HeaderInv, NEW m, Ahead(m), pc \in {"network", "noise"},
           \/ Line.kind = "End"
           \/ Line.kind = "NoiseData" /\ pc = "network" /\ header.nnoise # None
    PROVE  LineHolds(file, m)
<1>1. /\ m = pos + 1 /\ Line = file[m] /\ m \in 1..Len(file) /\ m - 1 = pos /\ pos \in Nat
      /\ Above(file, m, "NetworkData") /\ ~Above(file, m, "End") /\ m \notin Information(file)
  BY DEF Ahead, Known, ScanTypes, Behind, Sections
<1>2. PICK kind \in {"NoiseData", "End"} : kind = file[m].kind
  BY <1>1
<1>3. ASSUME kind = "NoiseData"
      PROVE  ~Above(file, m, "NoiseData") /\ Above(file, m, "NumberOfNoiseFrequencies")
  <2>1. pc = "network" /\ header.nnoise # None
    BY <1>1, <1>2, <1>3
  <2>2. Above(file, m, "NumberOfNoiseFrequencies")
    <3>1. "NumberOfNoiseFrequencies" \in header.seen
      BY <2>1 DEF HeaderInv, RowsNoteInv
    <3>. QED
      BY <3>1 DEF Ahead, InHeader, Once, Keywords
  <2>3. ASSUME NEW j \in 1..pos, file[j].kind = "NoiseData" PROVE FALSE
    <3>1. dataStartsAt \in 1..pos /\ IsFirst(file, dataStartsAt, "NetworkData")
      BY <2>1, DataStarts DEF Known, Behind, Sections
    <3>2. Above(file, j, "NetworkData")
      BY <2>3 DEF HeaderInv, LinesInv, LineHolds, KeywordHolds
    <3>3. PICK i \in 1..(j - 1) : file[i].kind = "NetworkData"
      BY <3>2 DEF Above
    <3>4. dataStartsAt <= i
      BY <1>1, <3>1, <3>3 DEF IsFirst
    <3>5. j \in dataStartsAt..pos
      BY <1>1, <3>1, <3>3, <3>4
    <3>. QED
      BY <2>1, <2>3, <3>5 DEF Known, SectionsInv
  <2>. QED
    BY <1>1, <2>2, <2>3 DEF Above
<1>4. KeywordHolds(file, m)
  BY <1>1, <1>2, <1>3 DEF KeywordHolds, InHeader, Once, Keywords
<1>5. OptionHolds(file, m) /\ m \notin Listed(file) /\ m \notin NoiseLines(file)
  BY <1>2 DEF OptionHolds, Options, Listed, NoiseLines, LinesOf
<1>6. ArgumentHolds(file, m)
  BY <1>2 DEF ArgumentHolds, Counts
<1>7. NumbersHold(file, m)
  BY <1>2, <1>5 DEF NumbersHold
<1>. QED
  BY <1>4, <1>5, <1>6, <1>7 DEF LineHolds

(* Every line a section takes is one the grammar allows there.               *)
LEMMA SectionLineHolds ==
    ASSUME Known, HeaderInv, NoiseInv, NoiseRowsInv, SweepAscends, NEW m, Ahead(m), SectionLine,
           Line.kind = "NoiseData" => header.nnoise # None,
           pc = "noise" /\ Line.kind = "data" => RowFault(Line.v) = NoFault
    PROVE  LineHolds(file, m)
<1>1. /\ m = pos + 1 /\ Line = file[m]
      /\ m \in NoiseLines(file) <=> pc = "noise" /\ Line.kind = "data"
  BY LineIsClassified DEF Ahead, Known
<1>2. pc \in Sections /\ pc \in Behind
  BY DEF SectionLine, Behind
<1>3. CASE Line.kind \in Empty
  BY <1>2, <1>3, PassedLineHolds
<1>4. CASE Line.kind = "data" /\ pc \in {"network", "noise"}
  <2>1. file[m].kind \notin Bracketed /\ m \notin Options(file) /\ ~Above(file, m, "End")
    BY <1>1, <1>4 DEF Ahead, Bracketed, Keywords
  <2>2. m \notin Listed(file) /\ Above(file, m, "NetworkData")
    BY <1>1, <1>2, <1>4, ListAhead DEF Ahead
  <2>3. m \in NoiseLines(file) => RowHolds(file, m)
    BY <1>1, <1>2, RowIsGood
  <2>4. NumbersHold(file, m)
    BY <2>2, <2>3 DEF NumbersHold
  <2>. QED
    BY <2>1, <2>4, PlainLineHolds
<1>5. CASE Line.kind \in {"NoiseData", "End"}
  BY <1>5, SectionKeywordHolds DEF SectionLine, Empty
<1>. QED
  BY <1>3, <1>4, <1>5 DEF SectionLine

(* What the section loop does with a line it takes.                          *)
SectionMarks ==
    /\ SectionLine
    /\ Line.kind = "NoiseData" => header.nnoise # None /\ n = 2 /\ block = <<>>
    /\ pc = "noise" /\ Line.kind = "data" => RowFault(Line.v) = NoFault
    /\ noiseStartsAt' = IF Line.kind = "NoiseData" THEN NextLine ELSE noiseStartsAt
    /\ noise' = IF pc = "noise" /\ Line.kind = "data"
                THEN Append(noise, [hz |-> Line.v[1], line |-> NextLine]) ELSE noise
    /\ UNCHANGED <<block, freqHz, s>>

(* A line behind the header leaves the marks of its section.                 *)
LEMMA SectionTakes ==
    ASSUME TakeDataLine \/ SkipSectionLine \/ BeginNoise \/ EndFile \/ AddNoisePoint
    PROVE  SectionMarks
<1> USE DEF points, rows, dataVars
<1>1. SectionLine
  BY SectionTakesLines
<1>2. ASSUME NEW kinds, \E section \in Sections : Takes(section, kinds)
      PROVE  Line.kind \in kinds /\ pc \in Sections
  BY <1>2 DEF Takes
<1>3. CASE TakeDataLine
  <2>1. pc = "network" /\ Line.kind = "data" /\ UNCHANGED <<rows, block, freqHz, s>>
    BY <1>3 DEF TakeDataLine, Takes
  <2>. QED
    BY <1>1, <2>1 DEF SectionMarks
<1>4. CASE SkipSectionLine
  <2>1. Line.kind \in Empty /\ UNCHANGED <<rows, block, freqHz, s>>
    BY <1>2, <1>4 DEF SkipSectionLine
  <2>. QED
    BY <1>1, <2>1 DEF SectionMarks, Empty
<1>5. CASE EndFile
  <2>1. Line.kind = "End" /\ UNCHANGED <<rows, block, freqHz, s>>
    BY <1>2, <1>5 DEF EndFile, TakesSectionKeyword
  <2>. QED
    BY <1>1, <2>1 DEF SectionMarks
<1>6. CASE BeginNoise
  <2>1. /\ Line.kind = "NoiseData" /\ SectionKeywordFault(Line.kind) = NoFault
        /\ noiseStartsAt' = NextLine /\ UNCHANGED <<noise, block, freqHz, s>>
    BY <1>2, <1>6 DEF BeginNoise, TakesSectionKeyword
  <2>2. NoiseDataFault = NoFault
    BY <2>1 DEF SectionKeywordFault, NoFault
  <2>3. header.nnoise # None /\ n = 2 /\ block = <<>>
    BY <2>2 DEF NoiseDataFault, NoFault
  <2>. QED
    BY <1>1, <2>1, <2>3 DEF SectionMarks
<1>7. CASE AddNoisePoint
  <2>1. /\ pc = "noise" /\ Line.kind = "data" /\ RowFault(Line.v) = NoFault
        /\ noise' = Append(noise, [hz |-> Line.v[1], line |-> NextLine])
        /\ UNCHANGED <<noiseStartsAt, block, freqHz, s>>
    BY <1>7 DEF AddNoisePoint, Takes
  <2>. QED
    BY <1>1, <2>1 DEF SectionMarks
<1>. QED
  BY <1>3, <1>4, <1>5, <1>6, <1>7

(* A line of a section keeps the account of the lines above.                 *)
LEMMA SectionKeepsHeader ==
    ASSUME Known, HeaderInv, NoiseInv, NoiseRowsInv, SweepAscends, SectionMarks
    PROVE  HeaderInv'
<1>1. /\ pc \in Sections /\ pc' \in Behind /\ pos < Len(file) /\ pos' = NextLine
      /\ UNCHANGED <<file, header>> /\ SectionLine
  BY DEF SectionMarks, SectionLine, input
<1>2. PICK m \in 1..Len(file) : m = pos + 1
  BY <1>1 DEF Known, ScanTypes
<1>3. Ahead(m)
  BY <1>1, <1>2, LineAhead
<1>4. /\ pos' = m /\ Line = file[m] /\ pos \in Nat /\ m - 1 = pos
      /\ \A i \in 1..m : i \in 1..pos \/ i = m
      /\ \A i \in 1..pos : i \in 1..m
  BY <1>1, <1>2, <1>3 DEF Ahead, Known, ScanTypes
<1>5. LineHolds(file, m)
  BY <1>3, SectionLineHolds DEF SectionMarks
<1>6. LinesInv'
  <2>1. \A i \in 1..m : LineHolds(file, i)
    BY <1>4, <1>5 DEF HeaderInv, LinesInv
  <2>. QED
    BY <1>1, <1>4, <2>1 DEF LinesInv
<1>7. file[m].kind \in Empty \cup {"data", "NoiseData", "End"}
  BY <1>1, <1>4 DEF SectionLine
<1>8. file[m].kind \notin InHeader
  BY <1>7 DEF Empty, InHeader, Once, Keywords
<1>9. ClaimedInv'
  <2>1. \A w \in InHeader : w \in header.seen <=> \E i \in 1..m : file[i].kind = w
    BY <1>4, <1>8 DEF HeaderInv, ClaimedInv
  <2>. QED
    BY <1>1, <1>4, <2>1 DEF HeaderInv, ClaimedInv
<1>10. RowsNoteInv'
  BY <1>1, <1>4 DEF HeaderInv, RowsNoteInv
<1>11. EndedInv'
  <2>1. pc' = "ended" <=> pc = "ended" \/ file[m].kind = "End"
    BY <1>1, <1>4 DEF SectionLine, Empty
  <2>2. pc' = "ended" <=> \E i \in 1..m : file[i].kind = "End"
    BY <1>4, <2>1 DEF HeaderInv, EndedInv
  <2>3. noiseStartsAt' # 0 <=> noiseStartsAt # 0 \/ file[m].kind = "NoiseData"
    BY <1>3, <1>4 DEF SectionMarks, Ahead
  <2>4. noiseStartsAt' # 0 <=> \E i \in 1..m : file[i].kind = "NoiseData"
    BY <1>4, <2>3 DEF HeaderInv, EndedInv
  <2>. QED
    BY <1>1, <1>4, <2>2, <2>4 DEF EndedInv
<1>12. OpenInv'
  BY <1>1 DEF OpenInv, Behind, Sections
<1>13. header'.options \in 0..pos'
  BY <1>1, <1>2, <1>4 DEF HeaderInv
<1>. QED
  BY <1>6, <1>9, <1>10, <1>11, <1>12, <1>13 DEF HeaderInv

(* It keeps the noise rows those of the lines passed.                        *)
LEMMA SectionKeepsRows ==
    ASSUME Known, NoiseRowsInv, SectionMarks
    PROVE  NoiseRowsInv'
<1>1. /\ pos < Len(file) /\ pos' = NextLine /\ UNCHANGED <<file, header>>
  BY DEF SectionMarks, SectionLine, input
<1>2. PICK m \in 1..Len(file) : m = pos + 1 /\ m = NextLine /\ Line = file[m]
  BY <1>1 DEF Known, ScanTypes, NextLine, Line
<1>3. /\ pos \in Nat /\ pos' = m /\ noise \in Seq(Rows) /\ Len(noise) \in Nat
      /\ \A i \in 1..pos : i \in 1..m
  BY <1>1, <1>2 DEF Known, ScanTypes
<1>4. noiseStartsAt' # 0 => header'.nports = 2
  BY <1>1 DEF SectionMarks, NoiseRowsInv, n
<1>5. CASE noise' = noise
  BY <1>1, <1>3, <1>4, <1>5 DEF NoiseRowsInv
<1>6. CASE noise' # noise
  <2>1. noise' = Append(noise, [hz |-> file[m].v[1], line |-> m])
    BY <1>2, <1>6 DEF SectionMarks
  <2>2. PICK row : row = [hz |-> file[m].v[1], line |-> m]
    OBVIOUS
  <2>3. row \in Rows
    <3>1. file[m].v[1] \in Int
      <4>1. file[m].v \in Seq(Int) /\ Len(file[m].v) > 0
        BY <1>1, <1>2, <1>6, LineIsTyped DEF Known, SectionMarks
      <4>. QED
        BY <4>1
    <3>. QED
      BY <2>2, <3>1 DEF Rows
  <2>4. PICK last \in Nat : last = Len(noise)
    BY <1>3
  <2>5. /\ Len(noise') = last + 1 /\ \A k \in 1..last : noise'[k] = noise[k]
        /\ noise'[last + 1] = row
    BY <1>3, <2>1, <2>2, <2>3, <2>4, OneMore
  <2>6. row.line = m /\ row.hz = file[m].v[1]
    BY <2>2
  <2>7. \A i \in 1..(last + 1) : i \in 1..last \/ i = last + 1
    BY <2>4
  <2>8. \A i \in 1..Len(noise') : /\ noise'[i].line \in 1..m
                                  /\ noise'[i].hz = file[noise'[i].line].v[1]
    <3>1. ASSUME NEW i \in 1..last
          PROVE  noise'[i].line \in 1..m /\ noise'[i].hz = file[noise'[i].line].v[1]
      <4>1. noise[i].line \in 1..pos /\ noise[i].hz = file[noise[i].line].v[1]
        BY <2>4 DEF NoiseRowsInv
      <4>2. noise'[i] = noise[i]
        BY <2>5
      <4>. QED
        BY <1>3, <4>1, <4>2
    <3>2. /\ noise'[last + 1].line \in 1..m
          /\ noise'[last + 1].hz = file[noise'[last + 1].line].v[1]
      BY <1>2, <1>3, <2>5, <2>6
    <3>. QED
      BY <2>5, <2>7, <3>1, <3>2
  <2>9. PICK T : T = {noise[i].line : i \in 1..last}
    OBVIOUS
  <2>10. T \in SUBSET (1..pos) /\ Cardinality(T) = last
    BY <2>4, <2>9 DEF NoiseRowsInv
  <2>11. IsFiniteSet(T)
    <3>1. IsFiniteSet(1..pos)
      BY <1>3, FS_Interval
    <3>. QED
      BY <2>10, <3>1, FS_Subset
  <2>12. m \notin T
    BY <1>2, <1>3, <2>10
  <2>13. Cardinality(T \cup {m}) = last + 1
    BY <2>10, <2>11, <2>12, FS_AddElement
  <2>14. {noise'[i].line : i \in 1..(last + 1)} = T \cup {m}
    <3>1. \A i \in 1..last : i \in 1..(last + 1)
      BY <2>4
    <3>2. last + 1 \in 1..(last + 1)
      BY <2>4
    <3>. QED
      BY <2>5, <2>6, <2>7, <2>9, <3>1, <3>2
  <2>. QED
    BY <1>1, <1>3, <1>4, <2>5, <2>8, <2>13, <2>14 DEF NoiseRowsInv
<1>. QED
  BY <1>5, <1>6

(* Where no line is taken, the account of the lines stays.                   *)
LEMMA HeaderRemains ==
    ASSUME Known, HeaderInv, NoiseRowsInv, pc \in {"plan", "tokens"}, pc' \in {"network", "tokens"},
           UNCHANGED <<file, pos, header, noiseStartsAt, noise>>
    PROVE  HeaderInv' /\ NoiseRowsInv'
<1>1. LinesInv' /\ ClaimedInv' /\ RowsNoteInv'
  BY DEF HeaderInv, LinesInv, ClaimedInv, RowsNoteInv
<1>2. EndedInv' /\ OpenInv' /\ header'.options \in 0..pos'
  BY DEF HeaderInv, EndedInv, OpenInv
<1>. QED
  BY <1>1, <1>2 DEF HeaderInv, NoiseRowsInv

(* The tokens taken so far are numbers, and those of whole points convert.   *)
Readable(f, taken) == \A k \in 1..Len(taken) : At(f, taken[k]) # Unreadable
PairsConvert(f, taken, size, pairs, count) ==
    \A k \in 0..(count - 1), i \in 1..pairs :
        PairConverts(f, taken[k * size + 2 * i], taken[k * size + (2 * i + 1)])

(* What push_line and flush have let pass, under a plan without a fault.     *)
TokensInv ==
    pc \in Behind =>
        /\ PlanFault = NoFault
        /\ Len(block) < PointSize
        /\ Readable(file, Taken)
        /\ PairsConvert(file, Taken, PointSize, Len(entryOrder), Len(freqHz))

(* A token more that is a number.                                            *)
LEMMA ReadableGrows ==
    ASSUME NEW f, NEW q \in Seq(AllPlaces), NEW t \in AllPlaces, Readable(f, q),
           At(f, t) # Unreadable
    PROVE  Readable(f, Append(q, t))
<1>1. PICK last \in Nat : last = Len(q)
  OBVIOUS
<1>2. /\ Len(Append(q, t)) = last + 1 /\ \A k \in 1..last : Append(q, t)[k] = q[k]
      /\ Append(q, t)[last + 1] = t
  BY <1>1, OneMore
<1>3. \A k \in 1..(last + 1) : k \in 1..last \/ k = last + 1
  OBVIOUS
<1>. QED
  BY <1>1, <1>2, <1>3 DEF Readable

(* What follows whole points is none of their pairs.                         *)
LEMMA PairsStay ==
    ASSUME NEW size \in Nat \ {0}, NEW pairs \in Nat, size = 2 * pairs + 1, NEW count \in Nat,
           NEW f, NEW taken, NEW longer, Begins(longer, taken), Len(taken) \in Nat,
           count * size <= Len(taken), PairsConvert(f, taken, size, pairs, count)
    PROVE  PairsConvert(f, longer, size, pairs, count)
<1>1. ASSUME NEW k \in 0..(count - 1), NEW j \in 1..size
      PROVE  longer[k * size + j] = taken[k * size + j]
  <2>1. k * size + j \in 1..(count * size)
    BY ValueIsInside
  <2>2. PICK i \in Int, all \in Int : i = k * size + j /\ all = count * size
    OBVIOUS
  <2>3. i \in 1..Len(taken)
    BY <2>1, <2>2
  <2>. QED
    BY <2>2, <2>3 DEF Begins
<1>2. SUFFICES ASSUME NEW k \in 0..(count - 1), NEW i \in 1..pairs
               PROVE  PairConverts(f, longer[k * size + 2 * i], longer[k * size + (2 * i + 1)])
  BY DEF PairsConvert
<1>3. PICK first \in 1..size, second \in 1..size : first = 2 * i /\ second = 2 * i + 1
  OBVIOUS
<1>4. /\ longer[k * size + first] = taken[k * size + first]
      /\ longer[k * size + second] = taken[k * size + second]
  BY <1>1
<1>5. PairConverts(f, taken[k * size + 2 * i], taken[k * size + (2 * i + 1)])
  BY DEF PairsConvert
<1>. QED
  BY <1>3, <1>4, <1>5, Zenon

(* A point more whose pairs convert.                                         *)
LEMMA PairsGrow ==
    ASSUME NEW size \in Nat \ {0}, NEW pairs \in Nat, size = 2 * pairs + 1, NEW count \in Nat,
           NEW f, NEW taken, NEW b, PairsConvert(f, taken, size, pairs, count),
           Opens(taken, size, count, b), Len(b) = size,
           \A i \in 1..pairs : PairConverts(f, b[2 * i], b[2 * i + 1])
    PROVE  PairsConvert(f, taken, size, pairs, count + 1)
<1>1. SUFFICES ASSUME NEW k \in 0..((count + 1) - 1), NEW i \in 1..pairs
               PROVE  PairConverts(f, taken[k * size + 2 * i], taken[k * size + (2 * i + 1)])
  BY DEF PairsConvert
<1>2. CASE k \in 0..(count - 1)
  BY <1>2 DEF PairsConvert
<1>3. CASE k = count
  <2>1. PICK first \in 1..size, second \in 1..size : first = 2 * i /\ second = 2 * i + 1
    OBVIOUS
  <2>2. b[first] = taken[count * size + first] /\ b[second] = taken[count * size + second]
    BY DEF Opens
  <2>3. PairConverts(f, b[2 * i], b[2 * i + 1])
    OBVIOUS
  <2>. QED
    BY <1>3, <2>1, <2>2, <2>3, Zenon
<1>. QED
  BY <1>2, <1>3

(* A plan depends on the input and the header alone.                         *)
LEMMA PlanStays ==
    ASSUME UNCHANGED <<input, header>>
    PROVE  /\ PlanFault' = PlanFault /\ PointSize' = PointSize
           /\ Len(entryOrder)' = Len(entryOrder)
<1>1. UNCHANGED <<file, hint, fileValues, header>>
  BY DEF input
<1>2. PointSize' = PointSize
  BY <1>1, FramingStays
<1>3. n' = n
  BY <1>1 DEF n
<1>4. Resistances' = Resistances
  BY <1>1 DEF Resistances, Places
<1>5. ReferenceHolds' = ReferenceHolds
  BY <1>1, <1>3, <1>4 DEF ReferenceHolds
<1>6. PlanFault' = PlanFault
  BY <1>1, <1>2, <1>3, <1>5 DEF PlanFault
<1>7. entryOrder' = entryOrder
  BY <1>1, <1>3 DEF entryOrder
<1>. QED
  BY <1>2, <1>6, <1>7

(* A point has its frequency and two values for each entry.                  *)
LEMMA EntriesOfAPoint ==
    ASSUME IInv, Declared, header.nports \in Nat \ {0}
    PROVE  /\ Len(entryOrder) \in Nat /\ PointSize = 2 * Len(entryOrder) + 1
           /\ PointSize \in Nat \ {0}
<1>1. /\ n \in Nat \ {0} /\ Len(entryOrder) \in Nat
      /\ 2 * Len(entryOrder) = Pairs(n, header.matrixFormat)
  BY ShapeIsKnown
<1>2. PICK square \in Nat : square = n * n
  BY <1>1
<1>3. ValuesPerPoint(n) = square * 2 + 1
  <2>1. ValuesPerPoint(n) # None
    BY <1>1 DEF Declared, None, n
  <2>. QED
    BY <1>2, <2>1 DEF ValuesPerPoint
<1>4. TriangleValues(n) = square + n + 1
  BY <1>2 DEF TriangleValues
<1>5. Pairs(n, header.matrixFormat) = IF Full THEN 2 * square ELSE square + n
  BY <1>2 DEF Pairs, Full
<1>6. PointSize = 2 * Len(entryOrder) + 1
  BY <1>1, <1>2, <1>3, <1>4, <1>5 DEF PointSize
<1>. QED
  BY <1>1, <1>6

(* A point passes if its frequency ascends and its pairs convert.            *)
LEMMA PointFaultless ==
    ASSUME Known, HeaderInv, header.options # 0, NEW b
    PROVE  PointFault(b) = NoFault
             <=> /\ Finite(At(file, b[1])) /\ PastLast(At(file, b[1]))
                 /\ \A i \in 1..Len(entryOrder) : PairConverts(file, b[2 * i], b[2 * i + 1])
<1>1. header.options = Min(Options(file))
  BY OptionsAreFirst
<1>2. ASSUME NEW i \in 1..Len(entryOrder)
      PROVE  Converts(Pair(b, i)) <=> PairConverts(file, b[2 * i], b[2 * i + 1])
  BY <1>1 DEF Converts, Pair, PairConverts, At, Value
<1>3. Value(b[1]) = At(file, b[1])
  BY DEF Value, At
<1>4. PointFault(b) = NoFault
        <=> (/\ Finite(Value(b[1])) /\ PastLast(Value(b[1]))
             /\ ~(\E i \in 1..Len(entryOrder) : ~Converts(Pair(b, i))))
  BY DEF PointFault, NoFault
<1>5. QED
  BY <1>2, <1>3, <1>4

(* Nothing is taken when the plan is fixed.                                  *)
LEMMA PlanKeepsTokens ==
    ASSUME IInv, Known, FreezePlan
    PROVE  TokensInv'
<1>1. /\ pc = "plan" /\ pc' = "network" /\ PlanFault = NoFault
      /\ UNCHANGED <<input, file, pos, header, dataStartsAt, freqHz, block>>
  BY DEF FreezePlan, input, headerVars
<1>2. freqHz = <<>> /\ block = <<>> /\ ScanTypes /\ Declared /\ SectionsInv
  BY <1>1 DEF IInv, ControlInv, HeaderLoops, Known
<1>3. IsFirst(file, dataStartsAt, "NetworkData") /\ pos = dataStartsAt
  BY <1>1, DataStarts DEF SectionsInv, Known
<1>4. Taken' = <<>>
  <2>1. Collection[dataStartsAt] = <<>>
    BY <1>2, <1>3, NothingTaken
  <2>2. Collection' = Collection
    BY <1>1, CollectionStays
  <2>. QED
    BY <1>1, <1>3, <2>1, <2>2 DEF Taken
<1>5. /\ PlanFault' = NoFault /\ PointSize' = PointSize
      /\ Len(entryOrder)' = Len(entryOrder)
  BY <1>1, PlanStays
<1>6. PointSize \in Nat \ {0}
  <2>1. Frozen
    BY <1>1, PlanPasses
  <2>. QED
    BY <1>2, <2>1, EntriesOfAPoint DEF Frozen
<1>7. Readable(file, <<>>)
  BY DEF Readable
<1>8. PICK size, pairs : size = PointSize /\ pairs = Len(entryOrder)
  OBVIOUS
<1>9. PairsConvert(file, <<>>, size, pairs, 0)
  <2>1. 0..(0 - 1) = {}
    OBVIOUS
  <2>. QED
    BY <2>1 DEF PairsConvert
<1>10. Len(block) = 0 /\ Len(freqHz) = 0 /\ 0 < PointSize
  BY <1>2, <1>6
<1>11. SUFFICES /\ PlanFault' = NoFault /\ Len(block') < PointSize'
                /\ Readable(file', Taken')
                /\ PairsConvert(file', Taken', PointSize', Len(entryOrder)', Len(freqHz'))
  BY DEF TokensInv, Readable, PairsConvert, PairConverts, At, Options, LinesOf, Information,
         Has, LineOf, NextOf
<1>. QED
  BY <1>1, <1>4, <1>5, <1>7, <1>8, <1>9, <1>10

(* A section's line holds none of what is taken with it.                     *)
LEMMA LineKeepsTokens ==
    ASSUME Known, TokensInv, pc \in Behind, Taken' = Taken,
           UNCHANGED <<input, header, freqHz, block>>
    PROVE  TokensInv'
<1>1. /\ PlanFault' = PlanFault /\ PointSize' = PointSize
      /\ Len(entryOrder)' = Len(entryOrder) /\ file' = file
  BY PlanStays DEF input
<1>2. PICK size, pairs, taken : size = PointSize /\ pairs = Len(entryOrder) /\ taken = Taken
  OBVIOUS
<1>3. /\ PlanFault = NoFault /\ Len(block) < size /\ Readable(file, taken)
      /\ PairsConvert(file, taken, size, pairs, Len(freqHz))
  BY <1>2 DEF TokensInv
<1>4. taken = Taken' /\ size = PointSize' /\ pairs = Len(entryOrder)'
  BY <1>1, <1>2
<1>5. SUFFICES /\ PlanFault' = NoFault /\ Len(block') < PointSize'
               /\ Readable(file', Taken')
               /\ PairsConvert(file', Taken', PointSize', Len(entryOrder)', Len(freqHz'))
  BY DEF TokensInv, Readable, PairsConvert, PairConverts, At, Options, LinesOf, Information,
         Has, LineOf, NextOf
<1>. QED
  BY <1>1, <1>3, <1>4

(* A point more is one without a fault, a token more is a number.            *)
LEMMA TokenKeepsTokens ==
    ASSUME IInv, Known, HeaderInv, FramesInv, TokensInv, header.options # 0,
           PushToken \/ AddPoint
    PROVE  TokensInv'
<1>1. /\ pc = "tokens" /\ pc \in Behind /\ Advance /\ Value(Token) # Unreadable
      /\ UNCHANGED <<input, header, file>>
  BY DEF PushToken, AddPoint, Advance, input, headerVars, Behind
<1>2. /\ PlanFault' = NoFault /\ PointSize' = PointSize
      /\ Len(entryOrder)' = Len(entryOrder)
  BY <1>1, PlanStays DEF TokensInv
<1>3. /\ header.nports \in Nat \ {0} /\ freqHz \in Seq(Int) /\ Len(freqHz) \in Nat
      /\ block \in Seq(AllPlaces) /\ Declared /\ SectionsInv
  BY <1>1 DEF IInv, ControlInv, Frozen, ScanTypes, Known
<1>4. /\ Len(entryOrder) \in Nat /\ PointSize = 2 * Len(entryOrder) + 1
      /\ PointSize \in Nat \ {0}
  BY <1>3, EntriesOfAPoint
<1>5. /\ Taken \in Seq(AllPlaces) /\ Token \in AllPlaces /\ Taken' = Append(Taken, Token)
  BY <1>1, <1>3, TakenAdvances
<1>6. /\ Extended \in Seq(AllPlaces) /\ Value(Extended[1]) \in Int
      /\ Opens(Taken', PointSize, Len(freqHz), Extended)
  BY <1>1, <1>3, TokenIsFramed, TokenExtends
<1>7. PICK size \in Nat \ {0}, pairs \in Nat, count \in Nat, taken \in Seq(AllPlaces),
           token \in AllPlaces, b \in Seq(AllPlaces) :
         /\ size = PointSize /\ pairs = Len(entryOrder) /\ count = Len(freqHz)
         /\ taken = Taken /\ token = Token /\ b = Extended
  BY <1>3, <1>4, <1>5, <1>6
<1>8. PICK longer \in Seq(AllPlaces) : longer = Append(taken, token)
  BY OneMore
<1>9. /\ size = 2 * pairs + 1 /\ Opens(longer, size, count, b) /\ longer = Taken'
  BY <1>4, <1>5, <1>6, <1>7, <1>8
<1>10. Opens(taken, size, count, block) /\ Readable(file, taken)
       /\ PairsConvert(file, taken, size, pairs, count) /\ Len(block) < size
  BY <1>1, <1>7 DEF FramesInv, TokensInv
<1>11. Readable(file, longer)
  <2>1. At(file, token) # Unreadable
    BY <1>1, <1>7 DEF At, Value
  <2>. QED
    BY <1>8, <1>10, <2>1, ReadableGrows
<1>12. PairsConvert(file, longer, size, pairs, count)
  <2>1. Begins(longer, taken) /\ Len(taken) \in Nat
    BY <1>8, OneMore DEF Begins
  <2>2. count * size <= Len(taken)
    <3>1. PICK start \in Nat : start = count * size
      OBVIOUS
    <3>2. Len(taken) = start + Len(block)
      BY <1>10, <3>1 DEF Opens
    <3>. QED
      BY <1>3, <3>1, <3>2
  <2>. QED
    BY <1>9, <1>10, <2>1, <2>2, PairsStay
<1>13. SUFFICES /\ PlanFault' = NoFault /\ Len(block') < PointSize'
                /\ Readable(file', Taken')
                /\ PairsConvert(file', Taken', PointSize', Len(entryOrder)', Len(freqHz'))
  BY DEF TokensInv, Readable, PairsConvert, PairConverts, At, Options, LinesOf, Information,
         Has, LineOf, NextOf
<1>14. CASE PushToken
  <2>1. block' = b /\ freqHz' = freqHz /\ Len(b) # size
    BY <1>7, <1>14 DEF PushToken
  <2>2. Len(b) = Len(block) + 1
    BY <1>3, <1>5, <1>7, OneMore DEF Extended
  <2>3. Len(b) < size
    BY <1>3, <1>10, <2>1, <2>2
  <2>. QED
    BY <1>1, <1>2, <1>7, <1>9, <1>11, <1>12, <2>1, <2>3
<1>15. CASE AddPoint
  <2>1. /\ block' = <<>> /\ freqHz' = Append(freqHz, Value(Extended[1])) /\ Len(b) = size
        /\ PointFault(b) = NoFault
    BY <1>7, <1>15 DEF AddPoint
  <2>2. Len(freqHz') = count + 1
    BY <1>3, <1>6, <1>7, <2>1, OneMore
  <2>3. \A i \in 1..pairs : PairConverts(file, b[2 * i], b[2 * i + 1])
    BY <1>7, <2>1, PointFaultless
  <2>4. PairsConvert(file, longer, size, pairs, count + 1)
    BY <1>9, <1>12, <2>1, <2>3, PairsGrow
  <2>5. Len(block') < PointSize'
    BY <1>2, <1>7, <2>1
  <2>. QED
    BY <1>1, <1>2, <1>7, <1>9, <1>11, <2>2, <2>4, <2>5
<1>. QED
  BY <1>14, <1>15

(* The tokens up to a line are the first of all tokens.                      *)
LEMMA CollectionBegins ==
    ASSUME ScanTypes, NEW a \in 0..Len(file)
    PROVE  Begins(Collection[Len(file)], Collection[a])
<1>1. PICK last \in Nat, c \in {Collection} : last = Len(file) /\ c = Collection
  BY DEF ScanTypes
<1>2. /\ file \in Seq(Lines) /\ a \in 0..last /\ \A i \in 0..last : c[i] \in Seq(AllPlaces)
      /\ \A i \in 1..last : /\ i \in NetworkLines(file)
                                 => c[i] = c[i - 1] \o FirstOn(i, Len(file[i].v))
                            /\ i \notin NetworkLines(file) => c[i] = c[i - 1]
  BY <1>1, CollectionGrows DEF ScanTypes
<1>3. \A i \in 0..last : Begins(c[i], c[i])
  BY <1>2 DEF Begins
<1>4. ASSUME NEW i \in 1..last PROVE Begins(c[i], c[i - 1])
  <2>1. i - 1 \in 0..last
    OBVIOUS
  <2>2. CASE i \in NetworkLines(file)
    <3>1. FirstOn(i, Len(file[i].v)) \in Seq(AllPlaces)
      <4>1. Len(file[i].v) \in Nat
        BY <1>1, <1>2, LineIsTyped
      <4>2. i \in Nat
        OBVIOUS
      <4>. QED
        BY <1>2, <2>1, <4>1, <4>2, FirstOnGrows
    <3>2. PICK before \in Seq(AllPlaces), on \in Seq(AllPlaces) :
             before = c[i - 1] /\ on = FirstOn(i, Len(file[i].v))
      BY <1>2, <2>1, <3>1
    <3>3. c[i] = before \o on
      BY <1>2, <2>2, <3>2
    <3>4. Begins(before \o on, before)
      BY JoinBegins
    <3>. QED
      BY <3>2, <3>3, <3>4
  <2>3. CASE i \notin NetworkLines(file)
    BY <1>2, <1>3, <2>1, <2>3
  <2>. QED
    BY <2>2, <2>3
<1>5. PICK T : T = {i \in 0..last : i < a \/ Begins(c[i], c[a])}
  OBVIOUS
<1>6. 0 \in T
  BY <1>2, <1>3, <1>5
<1>7. ASSUME NEW i \in 1..last, i - 1 \in T PROVE i \in T
  <2>1. i - 1 \in 0..last /\ i \in 0..last
    OBVIOUS
  <2>2. CASE i <= a
    BY <1>2, <1>3, <1>5, <2>1, <2>2
  <2>3. CASE i > a
    <3>1. Begins(c[i - 1], c[a])
      BY <1>2, <1>5, <1>7, <2>3
    <3>2. Begins(c[i], c[a])
      BY <1>2, <1>4, <2>1, <3>1, BeginsPasses
    <3>. QED
      BY <1>5, <2>1, <3>2
  <2>. QED
    BY <1>2, <2>2, <2>3
<1>8. \A i \in 0..last : i \in T
  BY <1>6, <1>7, StepByStep
<1>9. last \in T
  BY <1>8
<1>. QED
  BY <1>1, <1>2, <1>3, <1>5, <1>9

(* Behind the last line of the network data nothing is collected.            *)
LEMMA CollectionEnds ==
    ASSUME ScanTypes, \A i \in 1..Len(file) : i \in NetworkLines(file) => i <= pos
    PROVE  Collection[Len(file)] = Collection[pos]
<1>1. PICK last \in Nat, c \in {Collection} : last = Len(file) /\ c = Collection
  BY DEF ScanTypes
<1>2. /\ pos \in 0..last
      /\ \A i \in 1..last : i \notin NetworkLines(file) => c[i] = c[i - 1]
  BY <1>1, CollectionGrows DEF ScanTypes
<1>3. PICK T : T = {i \in 0..last : i < pos \/ c[i] = c[pos]}
  OBVIOUS
<1>4. 0 \in T
  BY <1>2, <1>3
<1>5. ASSUME NEW i \in 1..last, i - 1 \in T PROVE i \in T
  <2>1. CASE i <= pos
    BY <1>2, <1>3, <2>1
  <2>2. CASE i > pos
    <3>1. c[i - 1] = c[pos]
      BY <1>2, <1>3, <1>5, <2>2
    <3>2. c[i] = c[i - 1]
      BY <1>1, <1>2, <2>2
    <3>. QED
      BY <1>3, <3>1, <3>2
  <2>. QED
    BY <1>2, <2>1, <2>2
<1>6. \A i \in 0..last : i \in T
  BY <1>4, <1>5, StepByStep
<1>7. last \in T
  BY <1>6
<1>. QED
  BY <1>1, <1>2, <1>3, <1>7

(* The token in hand follows those taken in the file's network data.         *)
LEMMA TokenAhead ==
    ASSUME IInv, SectionsInv, pc = "tokens"
    PROVE  /\ Taken \in Seq(AllPlaces) /\ Token \in AllPlaces
           /\ NetworkTokens(file) \in Seq(AllPlaces)
           /\ Begins(NetworkTokens(file), Append(Taken, Token))
<1>1. /\ file \in Seq(Lines) /\ pos \in 1..Len(file) /\ col \in Nat
      /\ col < Len(file[pos].v) /\ ScanTypes /\ pos \in Nat
  BY DEF IInv, ScanTypes, ControlInv
<1>2. PICK p \in 1..Len(file), k \in Nat, last \in Nat :
         p = pos /\ k = col /\ last = Len(file[pos].v) /\ k < last
  <2>1. file[pos].v \in Seq(Int)
    BY <1>1, ElementOfSeq DEF Lines
  <2>2. Len(file[pos].v) \in Nat
    BY <2>1
  <2>. QED
    BY <1>1, <2>2
<1>3. p \in NetworkLines(file) /\ p - 1 \in 0..Len(file) /\ p \in 0..Len(file) /\ Len(file) # 0
      /\ Len(file) \in 0..Len(file)
  BY <1>1, <1>2 DEF SectionsInv
<1>4. PICK before \in Seq(AllPlaces) : before = Collection[p - 1]
  BY <1>1, <1>3, CollectionGrows
<1>5. Collection[p] = before \o FirstOn(p, last)
  BY <1>1, <1>2, <1>3, <1>4, CollectionGrows
<1>6. Taken = before \o FirstOn(p, k) /\ Token = <<p, k + 1>>
  BY <1>2, <1>4 DEF Taken, Token
<1>7. /\ FirstOn(p, k) \in Seq(AllPlaces) /\ <<p, k + 1>> \in AllPlaces
      /\ before \o FirstOn(p, k + 1) = Append(before \o FirstOn(p, k), <<p, k + 1>>)
  <2>1. p \in Nat
    OBVIOUS
  <2>. QED
    BY <1>4, <2>1, FirstOnGrows
<1>8. /\ FirstOn(p, k + 1) \in Seq(AllPlaces) /\ Len(FirstOn(p, k + 1)) = k + 1
      /\ FirstOn(p, last) \in Seq(AllPlaces) /\ Len(FirstOn(p, last)) = last
  <2>1. k + 1 \in Nat /\ p \in Nat
    OBVIOUS
  <2>. QED
    BY <1>4, <2>1, FirstOnGrows
<1>9. Begins(before \o FirstOn(p, last), before \o FirstOn(p, k + 1))
  <2>1. PICK short \in Seq(AllPlaces), long \in Seq(AllPlaces) :
           short = FirstOn(p, k + 1) /\ long = FirstOn(p, last)
    BY <1>8
  <2>2. Len(short) = k + 1 /\ Len(long) = last /\ \A c \in 1..(k + 1) : long[c] = short[c]
    BY <1>2, <1>8, <2>1 DEF FirstOn
  <2>3. PICK start \in Nat : start = Len(before)
    OBVIOUS
  <2>4. /\ Len(before \o short) = start + (k + 1) /\ Len(before \o long) = start + last
        /\ \A c \in 1..start : (before \o long)[c] = before[c] /\ (before \o short)[c] = before[c]
        /\ \A c \in 1..(k + 1) : (before \o short)[start + c] = short[c]
        /\ \A c \in 1..last : (before \o long)[start + c] = long[c]
    <3>1. /\ Len(before \o short) = Len(before) + Len(short)
          /\ Begins(before \o short, before) /\ Holds(before \o short, Len(before), short)
      BY JoinBegins
    <3>2. /\ Len(before \o long) = Len(before) + Len(long)
          /\ Begins(before \o long, before) /\ Holds(before \o long, Len(before), long)
      BY JoinBegins
    <3>3. /\ Len(before \o short) = start + (k + 1) /\ Len(before \o long) = start + last
      BY <2>2, <2>3, <3>1, <3>2
    <3>4. \A c \in 1..start : (before \o long)[c] = before[c] /\ (before \o short)[c] = before[c]
      BY <2>3, <3>1, <3>2 DEF Begins
    <3>5. /\ \A c \in 1..(k + 1) : (before \o short)[start + c] = short[c]
          /\ \A c \in 1..last : (before \o long)[start + c] = long[c]
      BY <2>2, <2>3, <3>1, <3>2 DEF Holds
    <3>. QED
      BY <3>3, <3>4, <3>5
  <2>5. ASSUME NEW c \in 1..(start + (k + 1)) PROVE (before \o long)[c] = (before \o short)[c]
    <3>1. CASE c \in 1..start
      BY <2>4, <3>1
    <3>2. CASE c \notin 1..start
      <4>1. PICK d \in 1..(k + 1) : c = start + d
        <5>1. c - start \in 1..(k + 1) /\ c = start + (c - start)
          BY <3>2
        <5>. QED
          BY <5>1
      <4>2. d \in 1..last
        BY <1>2
      <4>. QED
        BY <2>2, <2>4, <4>1, <4>2
    <3>. QED
      BY <3>1, <3>2
  <2>6. start + (k + 1) <= start + last
    BY <1>2
  <2>. QED
    BY <2>1, <2>4, <2>5, <2>6 DEF Begins
<1>10. PICK all \in Seq(AllPlaces) : all = Collection[Len(file)] /\ all = NetworkTokens(file)
  BY <1>1, <1>3, CollectionGrows
<1>11. Begins(all, Collection[p])
  BY <1>1, <1>3, <1>10, CollectionBegins
<1>12. /\ before \o FirstOn(p, last) \in Seq(AllPlaces)
       /\ before \o FirstOn(p, k + 1) \in Seq(AllPlaces)
       /\ before \o FirstOn(p, k) \in Seq(AllPlaces)
  BY <1>7, <1>8, JoinBegins
<1>13. Begins(all, before \o FirstOn(p, k + 1))
  BY <1>5, <1>9, <1>11, <1>12, BeginsPasses
<1>. QED
  BY <1>6, <1>7, <1>10, <1>12, <1>13

(* The network data of a good file: whole points of numbers that ascend and  *)
(* convert.                                                                  *)
Framed(f, tokens, size, pairs, count) ==
    /\ Len(tokens) = count * size
    /\ Readable(f, tokens)
    /\ PairsConvert(f, tokens, size, pairs, count)
    /\ \A k \in 1..count : Finite(At(f, tokens[(k - 1) * size + 1]))
    /\ \A k \in 1..count : k > 1 =>
          At(f, tokens[((k - 1) - 1) * size + 1]) < At(f, tokens[(k - 1) * size + 1])

(* The grammar's points are the frames the reader counts.                    *)
LEMMA PointsAreFrames ==
    ASSUME NEW f, NEW tokens \in Seq(AllPlaces), tokens = NetworkTokens(f),
           NEW size \in Nat \ {0}, size = Size(f), NEW pairs \in Nat, size = 2 * pairs + 1,
           NEW count \in Nat, count = Points(f)
    PROVE  NetworkHolds(f) <=> size <= fileValues /\ Framed(f, tokens, size, pairs, count)
<1>1. (Size(f) - 1) \div 2 = pairs
  <2>1. 2 * pairs = size - 1
    OBVIOUS
  <2>2. (size - 1) \div 2 = pairs
    BY <2>1, HalfOfTwice
  <2>. QED
    BY <2>2
<1>2. SUFFICES ASSUME Len(tokens) = count * size
               PROVE  (\A k \in 1..count :
                          /\ Finite(PointHz(f, k))
                          /\ k > 1 => PointHz(f, k - 1) < PointHz(f, k)
                          /\ \A i \in 1..pairs :
                                PairConverts(f, Point(f, k)[2 * i], Point(f, k)[2 * i + 1]))
                        <=> /\ PairsConvert(f, tokens, size, pairs, count)
                            /\ \A k \in 1..count : Finite(At(f, tokens[(k - 1) * size + 1]))
                            /\ \A k \in 1..count : k > 1 =>
                                  At(f, tokens[((k - 1) - 1) * size + 1])
                                    < At(f, tokens[(k - 1) * size + 1])
  BY <1>1 DEF NetworkHolds, Framed, Readable
<1>3. ASSUME NEW k \in 1..count, NEW i \in 1..size
      PROVE  Point(f, k)[i] = tokens[(k - 1) * size + i]
  <2>1. SubSeq(tokens, (k - 1) * size + 1, k * size)[i] = tokens[(k - 1) * size + i]
    BY <1>2, PointIsAFrame
  <2>. QED
    BY <2>1 DEF Point
<1>4. \A k \in 1..count : PointHz(f, k) = At(f, tokens[(k - 1) * size + 1])
  BY <1>3 DEF PointHz
<1>5. \A k \in 1..count, i \in 1..pairs :
         PairConverts(f, Point(f, k)[2 * i], Point(f, k)[2 * i + 1])
           <=> PairConverts(f, tokens[(k - 1) * size + 2 * i], tokens[(k - 1) * size + (2 * i + 1)])
  <2>1. SUFFICES ASSUME NEW k \in 1..count, NEW i \in 1..pairs
                 PROVE  /\ Point(f, k)[2 * i] = tokens[(k - 1) * size + 2 * i]
                        /\ Point(f, k)[2 * i + 1] = tokens[(k - 1) * size + (2 * i + 1)]
    BY Zenon
  <2>2. 2 * i \in 1..size /\ 2 * i + 1 \in 1..size
    OBVIOUS
  <2>. QED
    BY <1>3, <2>2
<1>6. /\ \A k \in 1..count : k - 1 \in 0..(count - 1)
      /\ \A k \in 0..(count - 1) : k + 1 \in 1..count /\ (k + 1) - 1 = k
      /\ \A k \in 1..count : k > 1 => k - 1 \in 1..count
  OBVIOUS
<1>7. (\A k \in 1..count, i \in 1..pairs :
          PairConverts(f, Point(f, k)[2 * i], Point(f, k)[2 * i + 1]))
        <=> PairsConvert(f, tokens, size, pairs, count)
  BY <1>5, <1>6, Zenon DEF PairsConvert
<1>8. (\A k \in 1..count : Finite(PointHz(f, k)))
        <=> \A k \in 1..count : Finite(At(f, tokens[(k - 1) * size + 1]))
  BY <1>4, Zenon
<1>9. (\A k \in 1..count : k > 1 => PointHz(f, k - 1) < PointHz(f, k))
        <=> \A k \in 1..count : k > 1 =>
               At(f, tokens[((k - 1) - 1) * size + 1]) < At(f, tokens[(k - 1) * size + 1])
  <2>1. \A k \in 1..count : k > 1 =>
           PointHz(f, k - 1) = At(f, tokens[((k - 1) - 1) * size + 1])
    BY <1>4, <1>6, Zenon
  <2>. QED
    BY <1>4, <2>1, Zenon
<1>. QED
  BY <1>7, <1>8, <1>9

(* Fewer frames take no more room, and a rest shorter than one is no frame.  *)
LEMMA FramesCompare ==
    ASSUME NEW size \in Nat \ {0}, NEW a \in Nat, NEW b \in Nat
    PROVE  /\ a * size <= b * size => a <= b
           /\ \A rest \in 0..(size - 1) : b * size = a * size + rest => a = b /\ rest = 0
<1>1. ASSUME NEW x \in Nat, NEW y \in Nat, x > y PROVE x * size >= y * size + size
  <2>1. PICK d \in Nat : x = y + 1 + d
    <3>1. x - y - 1 \in Nat /\ x = y + 1 + (x - y - 1)
      BY <1>1
    <3>. QED
      BY <3>1
  <2>2. x * size = y * size + size + d * size
    BY <2>1
  <2>3. d * size >= 0
    OBVIOUS
  <2>4. PICK ys \in Int, ds \in Int : ys = y * size /\ ds = d * size
    OBVIOUS
  <2>. QED
    BY <2>2, <2>3, <2>4
<1>2. PICK left \in Int, right \in Int : left = a * size /\ right = b * size
  OBVIOUS
<1>3. a > b => left >= right + size
  BY <1>1, <1>2
<1>4. b > a => right >= left + size
  BY <1>1, <1>2
<1>5. ASSUME left <= right PROVE a <= b
  <2>1. CASE a > b
    <3>1. left >= right + size
      BY <1>3, <2>1
    <3>2. size > 0
      OBVIOUS
    <3>. QED
      BY <1>5, <3>1, <3>2
  <2>2. CASE ~(a > b)
    BY <2>2
  <2>. QED
    BY <2>1, <2>2
<1>6. ASSUME NEW rest \in 0..(size - 1), right = left + rest PROVE a = b /\ rest = 0
  <2>1. CASE a > b
    BY <1>3, <1>6, <2>1
  <2>2. CASE b > a
    BY <1>4, <1>6, <2>2
  <2>3. CASE a = b
    <3>1. left = right
      BY <1>2, <2>3
    <3>. QED
      BY <1>6, <2>3, <3>1
  <2>. QED
    BY <2>1, <2>2, <2>3
<1>. QED
  BY <1>2, <1>5, <1>6

(* Behind the header of a good file its data is framed as the plan says.     *)
LEMMA FramesOfAGoodFile ==
    ASSUME IInv, Known, HeaderInv, Good, pc \in Behind
    PROVE  \E tokens \in Seq(AllPlaces), size \in Nat \ {0}, pairs \in Nat, count \in Nat :
              /\ tokens = NetworkTokens(file) /\ size = PointSize /\ pairs = Len(entryOrder)
              /\ count = Points(file) /\ size = 2 * pairs + 1
              /\ Framed(file, tokens, size, pairs, count)
<1>1. /\ \A i \in 1..Len(file) : LineHolds(file, i)
      /\ \A w \in {"NumberOfPorts", "NumberOfFrequencies", "NetworkData"} : Has(file, w)
      /\ NetworkHolds(file) /\ file \in Seq(Lines) /\ ScanTypes /\ Declared
  BY DEF Good, WholeHolds, Known, ScanTypes
<1>2. header.nports \in Nat \ {0} /\ Size(file) = PointSize
  BY <1>1, SizeIsNoted
<1>3. /\ Len(entryOrder) \in Nat /\ PointSize = 2 * Len(entryOrder) + 1
      /\ PointSize \in Nat \ {0}
  BY <1>1, <1>2, EntriesOfAPoint
<1>4. Points(file) \in Nat
  <2>1. PICK i \in 1..Len(file) : i = LineOf(file, "NumberOfFrequencies")
    BY <1>1, LineIsThere
  <2>2. file[i].count \in Nat
    BY <1>1, ElementOfSeq DEF Lines
  <2>. QED
    BY <2>1, <2>2 DEF Points
<1>5. NetworkTokens(file) \in Seq(AllPlaces)
  <2>1. Len(file) # 0 /\ Len(file) \in 0..Len(file)
    BY <1>1, LineIsThere
  <2>. QED
    BY <1>1, <2>1, CollectionGrows
<1>6. PICK tokens \in Seq(AllPlaces), size \in Nat \ {0}, pairs \in Nat, count \in Nat :
         /\ tokens = NetworkTokens(file) /\ size = PointSize /\ pairs = Len(entryOrder)
         /\ count = Points(file)
  BY <1>3, <1>4, <1>5
<1>7. size = Size(file) /\ size = 2 * pairs + 1
  BY <1>2, <1>3, <1>6
<1>8. Framed(file, tokens, size, pairs, count)
  BY <1>1, <1>6, <1>7, PointsAreFrames
<1>. QED
  BY <1>6, <1>7, <1>8

(* When the data lines are past, every point of a good file is complete.     *)
LEMMA AllIsTaken ==
    ASSUME IInv, Known, HeaderInv, FramesInv, TokensInv, Good, pc \in Sections,
           \A i \in 1..Len(file) : i \in NetworkLines(file) => i <= pos
    PROVE  block = <<>> /\ Len(freqHz) = Points(file)
<1>1. /\ pc \in Behind /\ pc # "tokens" /\ ScanTypes /\ Len(freqHz) \in Nat
      /\ block \in Seq(AllPlaces) /\ Len(block) \in Nat
  BY DEF Behind, Sections, Known, ScanTypes
<1>2. PICK tokens \in Seq(AllPlaces), size \in Nat \ {0}, pairs \in Nat, count \in Nat :
         /\ tokens = NetworkTokens(file) /\ size = PointSize
         /\ count = Points(file) /\ Framed(file, tokens, size, pairs, count)
  BY <1>1, FramesOfAGoodFile
<1>3. tokens = Taken
  <2>1. Collection[Len(file)] = Collection[pos]
    BY <1>1, CollectionEnds
  <2>2. Len(file) # 0
    <3>1. dataStartsAt \in 1..pos
      BY <1>1, DataStarts DEF Known
    <3>. QED
      BY <1>1, <3>1 DEF ScanTypes
  <2>3. NetworkTokens(file) = Collection[Len(file)]
    BY <1>1, <2>2, CollectionGrows
  <2>. QED
    BY <1>1, <1>2, <2>1, <2>3 DEF Taken
<1>4. PICK done \in Nat, rest \in Nat : done = Len(freqHz) /\ rest = Len(block)
  BY <1>1
<1>5. Opens(tokens, size, done, block) /\ rest < size
  BY <1>1, <1>2, <1>3, <1>4 DEF FramesInv, TokensInv
<1>6. count * size = done * size + rest
  BY <1>2, <1>4, <1>5 DEF Opens, Framed
<1>7. rest \in 0..(size - 1)
  BY <1>5
<1>8. done = count /\ rest = 0
  BY <1>6, <1>7, FramesCompare
<1>9. block = <<>>
  <2>1. Len(block) = 0
    BY <1>4, <1>8
  <2>. QED
    BY <1>1, <2>1, EmptySeq
<1>. QED
  BY <1>2, <1>4, <1>8, <1>9

(* A token of a good file is a number, and its points have no fault.         *)
LEMMA TokenIsNotRefused ==
    ASSUME IInv, Known, HeaderInv, FramesInv, header.options # 0, Good, RejectToken
    PROVE  FALSE
<1>1. pc = "tokens" /\ pc \in Behind
  BY DEF RejectToken, Behind
<1>2. /\ ScanTypes /\ SectionsInv /\ Declared /\ freqHz \in Seq(Int) /\ Len(freqHz) \in Nat
      /\ block \in Seq(AllPlaces)
  BY DEF Known, ScanTypes
<1>3. PICK tokens \in Seq(AllPlaces), size \in Nat \ {0}, pairs \in Nat, points_ \in Nat :
         /\ tokens = NetworkTokens(file) /\ size = PointSize /\ pairs = Len(entryOrder)
         /\ size = 2 * pairs + 1
         /\ Framed(file, tokens, size, pairs, points_)
  BY <1>1, FramesOfAGoodFile
<1>4. /\ Taken \in Seq(AllPlaces) /\ Token \in AllPlaces
      /\ Begins(NetworkTokens(file), Append(Taken, Token))
  BY <1>1, <1>2, TokenAhead
<1>5. PICK taken \in Seq(AllPlaces), token \in AllPlaces, count \in Nat :
         taken = Taken /\ token = Token /\ count = Len(freqHz)
  BY <1>2, <1>4
<1>6. PICK longer \in Seq(AllPlaces) : longer = Append(taken, token)
  BY OneMore
<1>7. Begins(tokens, longer)
  BY <1>3, <1>4, <1>5, <1>6
<1>8. At(file, token) # Unreadable
  <2>1. PICK last \in Nat : last = Len(taken) + 1
    OBVIOUS
  <2>2. Len(longer) = last /\ longer[last] = token
    BY <1>6, <2>1, OneMore
  <2>3. last \in 1..Len(tokens) /\ tokens[last] = token
    BY <1>7, <2>1, <2>2 DEF Begins
  <2>. QED
    BY <1>3, <2>3 DEF Framed, Readable
<1>9. Len(Extended) = PointSize /\ PointFault(Extended) # NoFault
  <2>1. Value(Token) # Unreadable
    BY <1>5, <1>8 DEF Value, At
  <2>. QED
    BY <2>1 DEF RejectToken
<1>10. PICK b \in Seq(AllPlaces) : b = Extended
  BY <1>2, <1>4, OneMore DEF Extended
<1>11. Opens(longer, size, count, b) /\ Len(b) = size
  <2>1. Opens(taken, size, count, block)
    BY <1>1, <1>3, <1>5 DEF FramesInv
  <2>2. Opens(Append(taken, token), size, count, Append(block, token))
    BY <1>2, <2>1, BlockGrows
  <2>. QED
    BY <1>3, <1>5, <1>6, <1>9, <1>10, <2>2 DEF Extended
<1>12. count + 1 <= points_
  <2>1. Len(longer) = count * size + size
    BY <1>11 DEF Opens
  <2>2. (count + 1) * size = count * size + size
    OBVIOUS
  <2>3. PICK here \in Int, all \in Int : here = (count + 1) * size /\ all = points_ * size
    OBVIOUS
  <2>4. here <= all
    BY <1>3, <1>7, <2>1, <2>2, <2>3 DEF Begins, Framed
  <2>. QED
    BY <2>3, <2>4, FramesCompare
<1>13. ASSUME NEW i \in 1..size PROVE b[i] = tokens[count * size + i]
  <2>1. b[i] = longer[count * size + i]
    BY <1>11 DEF Opens
  <2>2. PICK start \in Nat : start = count * size
    OBVIOUS
  <2>3. Len(longer) = start + size
    BY <1>11, <2>2 DEF Opens
  <2>4. start + i \in 1..Len(longer)
    BY <2>3
  <2>5. tokens[start + i] = longer[start + i]
    BY <1>7, <2>4 DEF Begins
  <2>. QED
    BY <2>1, <2>2, <2>5
<1>14. At(file, b[1]) = At(file, tokens[count * size + 1])
  BY <1>13
<1>15. count + 1 \in 1..points_ /\ (count + 1) - 1 = count /\ count \in 0..(points_ - 1)
  BY <1>12
<1>16. Finite(At(file, b[1]))
  <2>1. Finite(At(file, tokens[((count + 1) - 1) * size + 1]))
    BY <1>3, <1>15 DEF Framed
  <2>. QED
    BY <1>14, <1>15, <2>1
<1>17. PastLast(At(file, b[1]))
  <2>1. CASE freqHz = <<>>
    BY <2>1 DEF PastLast
  <2>2. CASE freqHz # <<>>
    <3>1. count + 1 > 1 /\ count - 1 \in 0..(count - 1) /\ (count - 1) + 1 = count
      BY <1>2, <1>5, <2>2
    <3>2. At(file, tokens[(((count + 1) - 1) - 1) * size + 1])
            < At(file, tokens[((count + 1) - 1) * size + 1])
      BY <1>3, <1>15, <3>1 DEF Framed
    <3>3. At(file, tokens[(count - 1) * size + 1]) < At(file, b[1])
      BY <1>14, <1>15, <3>2
    <3>4. Sweeps(taken, size, count, freqHz, file)
      BY <1>1, <1>3, <1>5 DEF FramesInv
    <3>5. freqHz[count] = At(file, taken[(count - 1) * size + 1])
      BY <3>1, <3>4, Zenon DEF Sweeps
    <3>6. taken[(count - 1) * size + 1] = tokens[(count - 1) * size + 1]
      <4>1. (count - 1) * size + 1 \in 1..(count * size)
        BY <3>1, ValueIsInside
      <4>2. PICK start \in Nat, j \in Int : start = count * size /\ j = (count - 1) * size + 1
        OBVIOUS
      <4>3. Opens(taken, size, count, block)
        BY <1>1, <1>3, <1>5 DEF FramesInv
      <4>4. Len(taken) = start + Len(block)
        BY <4>2, <4>3 DEF Opens
      <4>5. Len(block) \in Nat /\ Len(taken) \in Nat
        BY <1>2
      <4>6. j \in 1..Len(taken)
        BY <4>1, <4>2, <4>4, <4>5
      <4>7. longer[j] = taken[j] /\ Len(longer) = Len(taken) + 1
        BY <1>6, <4>6, OneMore
      <4>8. j \in 1..Len(longer)
        BY <4>5, <4>6, <4>7
      <4>9. tokens[j] = longer[j]
        BY <1>7, <4>8 DEF Begins
      <4>. QED
        BY <4>2, <4>7, <4>9
    <3>. QED
      BY <1>5, <3>3, <3>5, <3>6 DEF PastLast
  <2>. QED
    BY <2>1, <2>2
<1>18. \A i \in 1..pairs : PairConverts(file, b[2 * i], b[2 * i + 1])
  <2>1. SUFFICES ASSUME NEW i \in 1..pairs
                 PROVE  PairConverts(file, b[2 * i], b[2 * i + 1])
    OBVIOUS
  <2>2. PairConverts(file, tokens[count * size + 2 * i], tokens[count * size + (2 * i + 1)])
    BY <1>3, <1>15 DEF Framed, PairsConvert
  <2>3. 2 * i \in 1..size /\ 2 * i + 1 \in 1..size
    BY <1>3
  <2>. QED
    BY <1>13, <2>2, <2>3
<1>19. PointFault(b) = NoFault
  BY <1>3, <1>16, <1>17, <1>18, PointFaultless
<1>. QED
  BY <1>9, <1>10, <1>19

(* The sections that are open close where their data ends.                   *)
LEMMA DataIsPast ==
    ASSUME Known, pc \in Sections, NEW m, Ahead(m), Line.kind \in {"NoiseData", "End"},
           NEW i \in 1..Len(file), i \in NetworkLines(file)
    PROVE  i <= pos
<1>1. /\ pos \in Nat /\ m = pos + 1 /\ m \in 1..Len(file) /\ Line = file[m]
      /\ file \in Seq(Lines) /\ pc \in Behind
  BY DEF Ahead, Known, ScanTypes, Behind
<1>2. PICK d \in 1..pos : d = dataStartsAt /\ IsFirst(file, d, "NetworkData")
  BY <1>1, DataStarts DEF Known
<1>3. \A j \in d..i : file[j].kind \notin {"NoiseData", "End"}
  BY <1>1, <1>2, SectionLines
<1>4. m \notin d..i
  BY <1>1, <1>3
<1>. QED
  BY <1>1, <1>2, <1>4

(* A plan that is refused is not a good file's.                              *)
LEMMA PlanIsNotRefused ==
    ASSUME Known, HeaderInv, Good, fileValues \in Nat, RejectPlan
    PROVE  FALSE
BY PlanOfAGoodFile DEF RejectPlan

(* No keyword of a good file is refused behind its header.                   *)
LEMMA SectionKeywordIsNotRefused ==
    ASSUME IInv, Known, HeaderInv, FramesInv, TokensInv, Good, RejectSectionKeyword
    PROVE  FALSE
<1>1. /\ pc \in Sections /\ pc \in Behind /\ pos < Len(file)
      /\ Line.kind \in Bracketed /\ SectionKeywordFault(Line.kind) # NoFault
  BY DEF RejectSectionKeyword, Takes, Behind
<1>2. PICK m \in 1..Len(file) : m = pos + 1 /\ Ahead(m)
  <2>1. pos + 1 \in 1..Len(file) /\ Ahead(pos + 1)
    BY <1>1, LineAhead DEF Known, ScanTypes
  <2>. QED
    BY <2>1
<1>3. /\ Line = file[m] /\ m - 1 = pos /\ pos \in Nat /\ file \in Seq(Lines)
      /\ Above(file, m, "NetworkData") /\ (Above(file, m, "End") <=> pc = "ended")
  BY <1>1, <1>2 DEF Ahead, Known, ScanTypes
<1>4. KeywordHolds(file, m) /\ (\A i \in 1..Len(file) : LineHolds(file, i))
      /\ WholeHolds(file, hint)
  BY DEF Good, LineHolds
<1>5. PICK kind \in Bracketed : kind = file[m].kind /\ kind = Line.kind
  BY <1>1, <1>3
<1>6. kind \in {"NoiseData", "End"}
  BY <1>3, <1>4, <1>5 DEF KeywordHolds, Bracketed, Keywords, InHeader, Once
<1>7. pc # "ended"
  BY <1>3, <1>4, <1>5, <1>6 DEF KeywordHolds, Empty
<1>8. kind = "NoiseData" /\ NoiseDataFault # NoFault
  BY <1>1, <1>5, <1>6, <1>7 DEF SectionKeywordFault
<1>9. pc # "noise"
  <2>1. SUFFICES ASSUME pc = "noise" PROVE FALSE
    OBVIOUS
  <2>2. dataStartsAt \in 1..pos
    BY <1>1, DataStarts DEF Known
  <2>3. PICK j \in dataStartsAt..pos : file[j].kind = "NoiseData"
    BY <2>1 DEF Known, SectionsInv
  <2>4. j \in 1..(m - 1)
    BY <1>3, <2>2
  <2>5. Above(file, m, "NoiseData")
    BY <2>3, <2>4 DEF Above
  <2>. QED
    BY <1>4, <1>5, <1>8, <2>5 DEF KeywordHolds, Keywords
<1>10. Has(file, "NoiseData")
  BY <1>3, <1>5, <1>8, FirstOfItsKind
<1>11. block = <<>>
  <2>1. \A i \in 1..Len(file) : i \in NetworkLines(file) => i <= pos
    BY <1>1, <1>2, <1>5, <1>6, DataIsPast DEF Known
  <2>. QED
    BY <1>1, <2>1, AllIsTaken
<1>12. n = 2
  BY <1>1, <1>4, <1>10, SizeIsNoted DEF n, WholeHolds
<1>13. header.nnoise # None
  <2>1. "NumberOfNoiseFrequencies" \in InHeader
    BY DEF InHeader, Once, Keywords
  <2>2. "NumberOfNoiseFrequencies" \in header.seen
    BY <1>1, <1>4, <1>10, <2>1, HeaderTells DEF WholeHolds
  <2>3. PICK i \in 1..pos : header.nnoise = file[i].count
    BY <2>2 DEF HeaderInv, RowsNoteInv
  <2>4. i \in 1..Len(file)
    BY <1>1, <1>3
  <2>5. file[i].count \in Nat
    BY <1>3, <2>4, ElementOfSeq DEF Lines
  <2>. QED
    BY <2>3, <2>5 DEF None
<1>. QED
  BY <1>8, <1>9, <1>11, <1>12, <1>13 DEF NoiseDataFault, NoFault

(* Nor are its other lines.                                                  *)
LEMMA ContentIsNotRefused ==
    ASSUME Known, HeaderInv, Good, RejectContent
    PROVE  FALSE
<1>1. /\ pc \in Sections /\ pc \in Behind /\ pos < Len(file)
      /\ \/ Line.kind = "option"
         \/ pc = "ended" /\ Line.kind = "data"
  BY DEF RejectContent, Takes, Behind, Sections
<1>2. PICK m \in 1..Len(file) : m = pos + 1 /\ Ahead(m)
  <2>1. pos + 1 \in 1..Len(file) /\ Ahead(pos + 1)
    BY <1>1, LineAhead DEF Known, ScanTypes
  <2>. QED
    BY <2>1
<1>3. LineHolds(file, m)
  BY DEF Good
<1>4. CASE Line.kind = "option"
  <2>1. m \in Options(file) /\ Above(file, m, "NetworkData")
    BY <1>1, <1>2, <1>4 DEF Ahead, Behind, Sections
  <2>. QED
    BY <1>3, <2>1 DEF LineHolds, OptionHolds
<1>5. CASE pc = "ended" /\ Line.kind = "data"
  <2>1. Above(file, m, "End") /\ file[m].kind = "data"
    BY <1>2, <1>5 DEF Ahead
  <2>. QED
    BY <1>3, <2>1 DEF LineHolds, KeywordHolds, Empty
<1>. QED
  BY <1>1, <1>4, <1>5

(* Nor are the rows of its noise section.                                    *)
LEMMA RowIsNotRefused ==
    ASSUME Known, HeaderInv, NoiseInv, NoiseRowsInv, SweepAscends, Good, RejectNoiseLine
    PROVE  FALSE
<1>1. /\ pc = "noise" /\ pc \in Behind /\ pos < Len(file) /\ Line.kind = "data"
      /\ RowFault(Line.v) # NoFault
  BY DEF RejectNoiseLine, Takes, Behind, Sections
<1>2. PICK m \in 1..Len(file) : m = pos + 1 /\ Ahead(m)
  <2>1. pos + 1 \in 1..Len(file) /\ Ahead(pos + 1)
    BY <1>1, LineAhead DEF Known, ScanTypes
  <2>. QED
    BY <2>1
<1>3. /\ Line = file[m] /\ pos \in Nat /\ file \in Seq(Lines)
      /\ Above(file, m, "NetworkData") /\ ~Above(file, m, "End")
  BY <1>1, <1>2 DEF Ahead, Known, ScanTypes
<1>4. m \in NoiseLines(file)
  <2>1. PICK d \in 1..pos : d = dataStartsAt /\ IsFirst(file, d, "NetworkData")
    BY <1>1, DataStarts DEF Known
  <2>2. \E j \in d..pos : file[j].kind = "NoiseData"
    BY <1>1, <2>1 DEF Known, SectionsInv
  <2>3. \E j \in d..m : file[j].kind = "NoiseData"
    BY <1>2, <1>3, <2>1, <2>2
  <2>4. \A j \in d..pos : file[j].kind # "End"
    BY <1>1, <2>1 DEF Known, SectionsInv
  <2>5. \A j \in d..m : j \in d..pos \/ j = m
    BY <1>2, <1>3
  <2>6. \A j \in d..m : file[j].kind # "End"
    BY <1>1, <1>3, <2>4, <2>5
  <2>. QED
    BY <1>1, <1>2, <1>3, <2>1, <2>3, <2>6, SectionLines
<1>5. RowHolds(file, m)
  BY <1>3, <1>4 DEF Good, LineHolds, NumbersHold
<1>. QED
  BY <1>1, <1>2, <1>5, RowIsGood

(* The count of noise frequencies is the one on its line.                    *)
LEMMA RowsAreNoted ==
    ASSUME Known, HeaderInv, \A i \in 1..Len(file) : LineHolds(file, i),
           pc \in {"plan"} \cup Behind
    PROVE  /\ Has(file, "NumberOfNoiseFrequencies") <=> header.nnoise # None
           /\ Has(file, "NumberOfNoiseFrequencies")
                => header.nnoise = file[LineOf(file, "NumberOfNoiseFrequencies")].count
<1>1. file \in Seq(Lines) /\ pos \in 0..Len(file) /\ Len(file) \in Nat
  BY DEF Known, ScanTypes
<1>2. "NumberOfNoiseFrequencies" \in InHeader
  BY DEF InHeader, Once, Keywords
<1>3. Has(file, "NumberOfNoiseFrequencies") <=> "NumberOfNoiseFrequencies" \in header.seen
  BY <1>2, HeaderTells
<1>4. CASE "NumberOfNoiseFrequencies" \in header.seen
  <2>1. PICK i \in 1..pos : /\ file[i].kind = "NumberOfNoiseFrequencies"
                            /\ header.nnoise = file[i].count
    BY <1>4 DEF HeaderInv, RowsNoteInv
  <2>2. i \in 1..Len(file)
    BY <1>1
  <2>3. LineOf(file, "NumberOfNoiseFrequencies") = i
    <3>1. Single(file)
      BY <1>1, LinesAreSingle DEF LineHolds
    <3>2. file[i].kind \in Keywords
      BY <2>1 DEF Keywords
    <3>. QED
      BY <1>1, <2>1, <2>2, <3>1, <3>2, TheLine
  <2>4. file[i].count \in Nat
    BY <1>1, <2>2, ElementOfSeq DEF Lines
  <2>. QED
    BY <1>3, <1>4, <2>1, <2>3, <2>4 DEF None
<1>5. CASE "NumberOfNoiseFrequencies" \notin header.seen
  BY <1>3, <1>5 DEF HeaderInv, RowsNoteInv
<1>. QED
  BY <1>4, <1>5

(* At the end of the file every noise line is a row.                         *)
LEMMA RowsAreCounted ==
    ASSUME Known, NoiseInv, NoiseRowsInv, pc \in Behind, pos = Len(file)
    PROVE  Cardinality(NoiseLines(file)) = Len(noise)
<1>1. \A m \in NoiseLines(file) : m <= pos
  BY DEF NoiseLines, LinesOf
<1>2. {noise[i].line : i \in 1..Len(noise)} = {m \in NoiseLines(file) : m <= pos}
  BY DEF NoiseInv
<1>3. {m \in NoiseLines(file) : m <= pos} = NoiseLines(file)
  BY <1>1
<1>4. {noise[i].line : i \in 1..Len(noise)} = NoiseLines(file)
  BY <1>2, <1>3
<1>. QED
  BY <1>4 DEF NoiseRowsInv

(* The count of frequencies is the one on its line.                          *)
LEMMA PointsAreNoted ==
    ASSUME Known, header.nfreqs # None
    PROVE  /\ "NumberOfFrequencies" \in header.seen
           /\ header.nfreqs = Points(file) /\ Points(file) \in Nat
<1>1. "NumberOfFrequencies" \in Noted
  BY DEF Noted
<1>2. "NumberOfFrequencies" \in header.seen
  <2>1. SUFFICES ASSUME "NumberOfFrequencies" \notin header.seen PROVE FALSE
    OBVIOUS
  <2>2. Notes["NumberOfFrequencies"] = Unsaid["NumberOfFrequencies"]
    BY <1>1, <2>1 DEF Known, NotesInv
  <2>. QED
    BY <2>2 DEF Notes, Unsaid
<1>3. PICK i \in 1..Len(file) : /\ i = LineOf(file, "NumberOfFrequencies")
                                /\ Notes["NumberOfFrequencies"] = Said(file, "NumberOfFrequencies", i)
  BY <1>1, <1>2, NotedOnItsLine
<1>4. header.nfreqs = file[i].count
  BY <1>3 DEF Notes, Said
<1>5. file[i].count \in Nat
  BY ElementOfSeq DEF Known, ScanTypes, Lines
<1>. QED
  BY <1>2, <1>3, <1>4, <1>5 DEF Points

(* At the end of a good file nothing is missing.                             *)
LEMMA EndIsNotRefused ==
    ASSUME IInv, Known, HeaderInv, FramesInv, TokensInv, NoiseInv, NoiseRowsInv, Good,
           pc \in Sections, pos = Len(file)
    PROVE  EndFault = NoFault
<1>1. /\ pc \in Behind /\ (\A i \in 1..Len(file) : LineHolds(file, i)) /\ WholeHolds(file, hint)
      /\ Frozen
  BY DEF Behind, Good, IInv, ControlInv
<1>2. block = <<>> /\ Len(freqHz) = Points(file)
  <2>1. \A i \in 1..Len(file) : i \in NetworkLines(file) => i <= pos
    OBVIOUS
  <2>. QED
    BY <2>1, AllIsTaken
<1>3. header.nfreqs = Points(file)
  BY <1>1, PointsAreNoted DEF Frozen, None
<1>4. NoiseCountFault = NoFault
  <2>1. SUFFICES ASSUME header.nnoise # None
                 PROVE  noiseStartsAt # 0 /\ Len(noise) = header.nnoise
    BY DEF NoiseCountFault
  <2>2. /\ Has(file, "NumberOfNoiseFrequencies")
        /\ header.nnoise = file[LineOf(file, "NumberOfNoiseFrequencies")].count
    BY <1>1, <2>1, RowsAreNoted
  <2>3. /\ Has(file, "NoiseData")
        /\ Cardinality(NoiseLines(file)) = header.nnoise
    BY <1>1, <2>2 DEF WholeHolds
  <2>4. noiseStartsAt # 0
    <3>1. \E i \in 1..Len(file) : file[i].kind = "NoiseData"
      BY <2>3, FirstOfItsKind DEF Known, ScanTypes
    <3>. QED
      BY <3>1 DEF HeaderInv, EndedInv
  <2>. QED
    BY <1>1, <2>3, <2>4, RowsAreCounted
<1>. QED
  BY <1>2, <1>3, <1>4 DEF EndFault

(* The network data of a file that ends without a fault is framed.           *)
LEMMA FramesAtTheEnd ==
    ASSUME IInv, Known, FramesInv, TokensInv, SweepAscends, pc \in Sections, pos = Len(file),
           EndFault = NoFault, NEW size \in Nat \ {0}, size = PointSize,
           NEW pairs \in Nat, pairs = Len(entryOrder)
    PROVE  /\ NetworkTokens(file) \in Seq(AllPlaces)
           /\ Framed(file, NetworkTokens(file), size, pairs, Len(freqHz))
<1>1. /\ pc \in Behind /\ pc # "tokens" /\ ScanTypes /\ freqHz \in Seq(Int) /\ Len(freqHz) \in Nat
      /\ block = <<>>
  BY DEF Behind, Sections, Known, ScanTypes, EndFault, NoFault
<1>2. Taken = NetworkTokens(file) /\ Taken \in Seq(AllPlaces)
  <2>1. dataStartsAt \in 1..pos
    BY <1>1, DataStarts DEF Known
  <2>2. Len(file) # 0
    BY <2>1
  <2>3. Taken = Collection[Len(file)]
    BY <1>1 DEF Taken
  <2>. QED
    BY <1>1, <2>2, <2>3, CollectionGrows
<1>3. PICK tokens \in Seq(AllPlaces), count \in Nat : tokens = Taken /\ count = Len(freqHz)
  BY <1>1, <1>2
<1>4. /\ Opens(tokens, size, count, <<>>) /\ Sweeps(tokens, size, count, freqHz, file)
      /\ Readable(file, tokens) /\ PairsConvert(file, tokens, size, pairs, count)
  BY <1>1, <1>3 DEF FramesInv, TokensInv
<1>5. Len(tokens) = count * size
  <2>1. PICK all \in Int : all = count * size
    OBVIOUS
  <2>2. Len(tokens) = all + 0
    BY <1>4, <2>1 DEF Opens
  <2>. QED
    BY <2>1, <2>2
<1>6. ASSUME NEW k \in 1..count PROVE freqHz[k] = At(file, tokens[(k - 1) * size + 1])
  <2>1. k - 1 \in 0..(count - 1) /\ (k - 1) + 1 = k
    OBVIOUS
  <2>2. freqHz[(k - 1) + 1] = At(file, tokens[(k - 1) * size + 1])
    BY <1>4, <2>1, Zenon DEF Sweeps
  <2>. QED
    BY <2>1, <2>2
<1>7. ASSUME NEW k \in 1..count PROVE Finite(At(file, tokens[(k - 1) * size + 1]))
  BY <1>3, <1>6 DEF SweepAscends
<1>8. ASSUME NEW k \in 1..count, k > 1
      PROVE  At(file, tokens[((k - 1) - 1) * size + 1]) < At(file, tokens[(k - 1) * size + 1])
  <2>1. k - 1 \in 1..count /\ k - 1 < k
    BY <1>8
  <2>2. freqHz[k - 1] < freqHz[k]
    BY <1>3, <2>1 DEF SweepAscends
  <2>3. freqHz[k - 1] = At(file, tokens[((k - 1) - 1) * size + 1])
    BY <1>6, <2>1
  <2>. QED
    BY <1>6, <2>2, <2>3
<1>9. Framed(file, tokens, size, pairs, count)
  BY <1>4, <1>5, <1>7, <1>8 DEF Framed
<1>. QED
  BY <1>2, <1>3, <1>9

(* A header with a plan declares what the grammar asks for.                  *)
LEMMA HeaderIsThere ==
    ASSUME IInv, Known, HeaderInv, \A i \in 1..Len(file) : LineHolds(file, i), pc \in Sections
    PROVE  /\ \A w \in {"NumberOfPorts", "NumberOfFrequencies", "NetworkData"} : Has(file, w)
           /\ header.nports = Ports(file) /\ header.nports \in Nat \ {0}
           /\ header.nfreqs = Points(file) /\ Points(file) \in Nat
           /\ Size(file) = PointSize /\ PointSize \in Nat \ {0}
           /\ Len(entryOrder) \in Nat /\ PointSize = 2 * Len(entryOrder) + 1
<1>1. /\ pc \in Behind /\ Frozen /\ Declared /\ SectionsInv
  BY DEF Behind, IInv, ControlInv, Known
<1>2. /\ header.nfreqs = Points(file) /\ Points(file) \in Nat
      /\ "NumberOfFrequencies" \in header.seen
  BY <1>1, PointsAreNoted DEF Frozen, None
<1>3. "NumberOfPorts" \in header.seen /\ "NetworkData" \in header.seen
  BY <1>1 DEF Frozen, None, Declared, SectionsInv
<1>4. {"NumberOfPorts", "NumberOfFrequencies", "NetworkData"} \subseteq InHeader
  BY DEF InHeader, Once, Keywords
<1>5. \A w \in {"NumberOfPorts", "NumberOfFrequencies", "NetworkData"} : Has(file, w)
  BY <1>1, <1>2, <1>3, <1>4, HeaderTells
<1>6. /\ header.nports = Ports(file) /\ header.nports \in Nat \ {0}
      /\ Size(file) = PointSize /\ PointSize \in Nat \ {0}
  BY <1>1, <1>5, SizeIsNoted
<1>7. Len(entryOrder) \in Nat /\ PointSize = 2 * Len(entryOrder) + 1
  BY <1>1, <1>6, EntriesOfAPoint
<1>. QED
  BY <1>2, <1>5, <1>6, <1>7

(* The two-port order is there exactly for two ports.                        *)
LEMMA OrderIsThere ==
    ASSUME IInv, Known, HeaderInv, \A i \in 1..Len(file) : LineHolds(file, i), pc \in Sections
    PROVE  Has(file, "TwoPortDataOrder") <=> Ports(file) = 2
<1>1. /\ pc \in Behind /\ header.nports = Ports(file) /\ file \in Seq(Lines)
  BY HeaderIsThere DEF Behind, Known, ScanTypes
<1>2. ASSUME Has(file, "TwoPortDataOrder") PROVE Ports(file) = 2
  <2>1. PICK i \in 1..Len(file) : file[i].kind = "TwoPortDataOrder"
    BY <1>1, <1>2, LineIsThere
  <2>2. PICK j \in 1..(i - 1) : file[j].kind = "NumberOfPorts" /\ file[j].count = 2
    BY <2>1 DEF LineHolds, ArgumentHolds
  <2>3. j \in 1..Len(file)
    BY <2>1, <2>2
  <2>4. Single(file) /\ file[j].kind \in Keywords
    BY <1>1, <2>2, LinesAreSingle DEF LineHolds, Keywords
  <2>5. LineOf(file, "NumberOfPorts") = j
    BY <1>1, <2>2, <2>3, <2>4, TheLine
  <2>. QED
    BY <2>2, <2>5 DEF Ports
<1>3. ASSUME Ports(file) = 2 PROVE Has(file, "TwoPortDataOrder")
  <2>1. header.twoPortOrder # "none"
    BY <1>1, <1>3 DEF Known, SectionsInv
  <2>2. "TwoPortDataOrder" \in Noted /\ "TwoPortDataOrder" \in InHeader
    BY DEF Noted, InHeader, Once, Keywords
  <2>3. "TwoPortDataOrder" \in header.seen
    <3>1. SUFFICES ASSUME "TwoPortDataOrder" \notin header.seen PROVE FALSE
      OBVIOUS
    <3>2. Notes["TwoPortDataOrder"] = Unsaid["TwoPortDataOrder"]
      BY <2>2, <3>1 DEF Known, NotesInv
    <3>. QED
      BY <2>1, <3>2 DEF Notes, Unsaid
  <2>. QED
    BY <1>1, <2>2, <2>3, HeaderTells
<1>. QED
  BY <1>2, <1>3

(* The noise section is there exactly where it was announced, and whole.     *)
LEMMA NoiseIsThere ==
    ASSUME IInv, Known, HeaderInv, NoiseInv, NoiseRowsInv,
           \A i \in 1..Len(file) : LineHolds(file, i),
           pc \in Sections, pos = Len(file), EndFault = NoFault
    PROVE  /\ Has(file, "NoiseData") <=> Has(file, "NumberOfNoiseFrequencies")
           /\ Has(file, "NoiseData") =>
                 /\ Ports(file) = 2
                 /\ Cardinality(NoiseLines(file))
                      = file[LineOf(file, "NumberOfNoiseFrequencies")].count
<1>1. /\ pc \in Behind /\ header.nports = Ports(file) /\ file \in Seq(Lines)
      /\ NoiseCountFault = NoFault
  BY HeaderIsThere DEF Behind, Known, ScanTypes, EndFault, NoFault
<1>2. /\ Has(file, "NumberOfNoiseFrequencies") <=> header.nnoise # None
      /\ Has(file, "NumberOfNoiseFrequencies")
           => header.nnoise = file[LineOf(file, "NumberOfNoiseFrequencies")].count
  BY <1>1, RowsAreNoted
<1>3. Has(file, "NoiseData") <=> noiseStartsAt # 0
  <2>1. Has(file, "NoiseData") <=> \E i \in 1..Len(file) : file[i].kind = "NoiseData"
    BY <1>1, FirstOfItsKind
  <2>. QED
    BY <2>1 DEF HeaderInv, EndedInv
<1>4. header.nnoise # None => noiseStartsAt # 0 /\ Len(noise) = header.nnoise
  BY <1>1 DEF NoiseCountFault, NoFault
<1>5. ASSUME Has(file, "NoiseData") PROVE Has(file, "NumberOfNoiseFrequencies")
  <2>1. PICK i \in 1..Len(file) : file[i].kind = "NoiseData"
    BY <1>1, <1>5, LineIsThere
  <2>2. PICK j \in 1..(i - 1) : file[j].kind = "NumberOfNoiseFrequencies"
    BY <2>1 DEF LineHolds, KeywordHolds, Above
  <2>3. j \in 1..Len(file)
    BY <2>1, <2>2
  <2>. QED
    BY <1>1, <2>2, <2>3, FirstOfItsKind
<1>6. noiseStartsAt # 0 => Ports(file) = 2
  BY <1>1 DEF NoiseRowsInv
<1>7. Cardinality(NoiseLines(file)) = Len(noise)
  BY <1>1, RowsAreCounted
<1>. QED
  BY <1>2, <1>3, <1>4, <1>5, <1>6, <1>7

(* What is left of the header: the block is closed, the references are all   *)
(* there and the caller's port count is the file's.                          *)
LEMMA HeaderIsWhole ==
    ASSUME IInv, Known, HeaderInv, TokensInv, header.options # 0,
           \A i \in 1..Len(file) : LineHolds(file, i), pc \in Sections, pos = Len(file)
    PROVE  /\ Has(file, "BeginInformation") => Has(file, "EndInformation")
           /\ IF Has(file, "Reference") THEN Len(ReferenceValues(file)) = Ports(file)
              ELSE Len(file[Min(Options(file))].v) \in {1, Ports(file)}
           /\ hint \in {None, Ports(file)}
<1>1. /\ pc \in Behind /\ header.nports = Ports(file) /\ file \in Seq(Lines) /\ Len(file) \in Nat
      /\ PlanFault = NoFault
  BY HeaderIsThere DEF Behind, Known, ScanTypes, TokensInv
<1>2. ASSUME Has(file, "BeginInformation") PROVE Has(file, "EndInformation")
  <2>1. PICK b \in 1..Len(file) : IsFirst(file, b, "BeginInformation")
    <3>1. LineOf(file, "BeginInformation") \in 1..Len(file)
      BY <1>1, <1>2, LineIsThere
    <3>2. IsFirst(file, LineOf(file, "BeginInformation"), "BeginInformation")
      BY <1>1, <1>2, FirstOfItsKind
    <3>. QED
      BY <3>1, <3>2
  <2>2. PICK e \in b..pos : file[e].kind = "EndInformation"
    BY <2>1 DEF Known, BlocksInv, Sections
  <2>3. e \in 1..Len(file)
    BY <2>1, <2>2
  <2>. QED
    BY <1>1, <2>2, <2>3, FirstOfItsKind
<1>3. "Reference" \in InHeader
  BY DEF InHeader, Once, Keywords
<1>4. Has(file, "Reference") <=> "Reference" \in header.seen
  BY <1>1, <1>3, HeaderTells
<1>5. ASSUME Has(file, "Reference") PROVE Len(ReferenceValues(file)) = Ports(file)
  <2>1. header.reference # <<>>
    BY <1>4, <1>5 DEF Known, ListInv, Sections
  <2>2. Len(header.reference) = header.nports
    BY <2>1 DEF Known, Declared
  <2>3. Len(file) # 0
    BY <1>1, <1>5, LineIsThere
  <2>4. ReferenceValues(file) = Collected(file)[Len(file)]
    BY <1>1, <2>3, ListAddsUp
  <2>5. Collected(file)[pos] = header.reference
    BY DEF Known, ListInv, Sections
  <2>. QED
    BY <1>1, <2>2, <2>4, <2>5
<1>6. ReferenceHolds /\ hint \in {None, n}
  BY <1>1 DEF PlanFault, NoFault
<1>7. ASSUME ~Has(file, "Reference") PROVE Len(file[Min(Options(file))].v) \in {1, Ports(file)}
  <2>1. header.reference = <<>>
    BY <1>4, <1>7 DEF Known, ListInv
  <2>2. Len(Resistances) \in {1, n}
    BY <1>6, <2>1 DEF ReferenceHolds
  <2>. QED
    BY <1>1, <2>2, OptionsAreFirst DEF n
<1>. QED
  BY <1>1, <1>2, <1>5, <1>6, <1>7 DEF n

(* A file that ends without a fault is a good one.                           *)
LEMMA EndIsGood ==
    ASSUME IInv, Known, HeaderInv, FramesInv, TokensInv, NoiseInv, NoiseRowsInv,
           header.options # 0, fileValues \in Nat,
           pc \in Sections, pos = Len(file), EndFault = NoFault
    PROVE  Good
<1>1. \A i \in 1..Len(file) : LineHolds(file, i)
  BY DEF HeaderInv, LinesInv
<1>2. /\ \A w \in {"NumberOfPorts", "NumberOfFrequencies", "NetworkData"} : Has(file, w)
      /\ header.nports = Ports(file)
      /\ header.nfreqs = Points(file) /\ Points(file) \in Nat
      /\ Size(file) = PointSize /\ PointSize \in Nat \ {0}
      /\ Len(entryOrder) \in Nat /\ PointSize = 2 * Len(entryOrder) + 1
  BY <1>1, HeaderIsThere
<1>3. NetworkHolds(file)
  <2>1. PICK size \in Nat \ {0}, pairs \in Nat, count \in Nat :
           /\ size = PointSize /\ pairs = Len(entryOrder) /\ count = Points(file)
           /\ size = 2 * pairs + 1
    BY <1>2
  <2>2. Len(freqHz) = count
    BY <1>2, <2>1 DEF EndFault, NoFault
  <2>3. SweepAscends
    BY DEF IInv
  <2>4. /\ NetworkTokens(file) \in Seq(AllPlaces)
        /\ Framed(file, NetworkTokens(file), size, pairs, Len(freqHz))
    BY <2>1, <2>3, FramesAtTheEnd
  <2>5. PICK tokens \in Seq(AllPlaces) : tokens = NetworkTokens(file)
    BY <2>4
  <2>6. Framed(file, tokens, size, pairs, count) /\ size = Size(file)
    BY <1>2, <2>1, <2>2, <2>4, <2>5
  <2>7. size <= fileValues
    <3>1. PlanFault = NoFault
      BY DEF TokensInv, Behind
    <3>2. ~(PointSize > fileValues)
      BY <3>1 DEF PlanFault, NoFault
    <3>3. ~(size > fileValues)
      BY <2>1, <3>2
    <3>. QED
      BY <3>3
  <2>. QED
    BY <2>1, <2>5, <2>6, <2>7, PointsAreFrames
<1>4. Has(file, "TwoPortDataOrder") <=> Ports(file) = 2
  BY <1>1, OrderIsThere
<1>5. /\ Has(file, "NoiseData") <=> Has(file, "NumberOfNoiseFrequencies")
      /\ Has(file, "NoiseData") =>
            /\ Ports(file) = 2
            /\ Cardinality(NoiseLines(file))
                 = file[LineOf(file, "NumberOfNoiseFrequencies")].count
  BY <1>1, NoiseIsThere
<1>6. /\ Has(file, "BeginInformation") => Has(file, "EndInformation")
      /\ IF Has(file, "Reference") THEN Len(ReferenceValues(file)) = Ports(file)
         ELSE Len(file[Min(Options(file))].v) \in {1, Ports(file)}
      /\ hint \in {None, Ports(file)}
  BY <1>1, HeaderIsWhole
<1>7. WholeHolds(file, hint)
  BY <1>2, <1>3, <1>4, <1>5, <1>6 DEF WholeHolds
<1>. QED
  BY <1>1, <1>7 DEF Good

(* The grammar's verdict on this run's input.                                *)
Grammatical == WellFormed(file, hint)

(* An unchanged input is as well formed as before.                           *)
LEMMA GrammarStays ==
    ASSUME UNCHANGED <<file, hint, fileValues>>
    PROVE  Grammatical' <=> Grammatical
<1> USE DEF LinesOf, Has, LineOf, NextOf, TokensOn, At, Information, ReferenceLines,
            ReferenceValues, Options, DataBegins, DataEnds, NoiseEnds, NetworkTokens,
            NoiseLines, Ports, Points, Format, Size, Point, PointHz, PairConverts
<1>1. KeywordsHold(file)' <=> KeywordsHold(file)
  BY DEF KeywordsHold
<1>2. OptionsHold(file)' <=> OptionsHold(file)
  BY DEF OptionsHold
<1>3. ArgumentsHold(file)' <=> ArgumentsHold(file)
  BY DEF ArgumentsHold
<1>4. NetworkHolds(file)' <=> NetworkHolds(file)
  BY DEF NetworkHolds
<1>5. NoiseHolds(file)' <=> NoiseHolds(file)
  BY DEF NoiseHolds
<1>. QED
  BY <1>1, <1>2, <1>3, <1>4, <1>5 DEF Grammatical, WellFormed

(* The grammar, taken line by line.                                          *)
LEMMA GoodIsGrammatical ==
    ASSUME ScanTypes
    PROVE  Good <=> Grammatical
<1>1. file \in Seq(Lines)
  BY DEF ScanTypes
<1>. QED
  BY <1>1, GrammarLineByLine DEF Good, Grammatical

(* What acceptance rests on, and what it comes to.                           *)
AcceptInv ==
    /\ pc # "done" => HeaderInv /\ NoiseRowsInv /\ TokensInv
    /\ AcceptsExactlyTheGrammar

(* Nothing is refused or kept before the first line.                         *)
LEMMA InitAccepts == Init => AcceptInv
<1>. SUFFICES ASSUME Init PROVE AcceptInv
  OBVIOUS
<1>1. /\ pc = "header" /\ pos = 0 /\ header.seen = {} /\ header.nnoise = None
      /\ header.options = 0 /\ noiseStartsAt = 0 /\ noise = <<>>
  BY DEF Init, HeaderInit
<1>2. 1..0 = {} /\ Len(noise) = 0
  BY <1>1
<1>3. HeaderInv
  BY <1>1, <1>2
     DEF HeaderInv, LinesInv, ClaimedInv, RowsNoteInv, EndedInv, OpenInv
<1>4. NoiseRowsInv
  <2>1. {noise[i].line : i \in 1..Len(noise)} = {}
    BY <1>2
  <2>2. Cardinality({}) = 0
    BY FS_EmptySet
  <2>. QED
    BY <1>1, <1>2, <2>1, <2>2 DEF NoiseRowsInv
<1>. QED
  BY <1>1, <1>3, <1>4 DEF AcceptInv, AcceptsExactlyTheGrammar, TokensInv, Behind, Sections

(* What is known of a scan that goes on, put together.                       *)
LEMMA ScanIsKnown ==
    ASSUME IInv, BudgetInv, RestTyped, ReferInv, ReadingInv, AcceptInv, pc # "done"
    PROVE  /\ Known /\ FramesInv /\ NoiseInv /\ SweepAscends /\ fileValues \in Nat
           /\ HeaderInv /\ NoiseRowsInv /\ TokensInv
           /\ outcome.kind # "network"
           /\ pc \in Behind => header.options # 0
  BY DEF IInv, BudgetInv, RestTyped, ReferInv, ReadingInv, AcceptInv, Known

(* Noise begins behind the header.                                           *)
LEMMA NoNoiseYet ==
    ASSUME Known, HeaderInv, pc \in HeaderLoops \ {"plan"}
    PROVE  noiseStartsAt = 0
<1>1. ASSUME NEW i \in 1..pos, file[i].kind = "NoiseData" PROVE FALSE
  <2>1. /\ pos \in Nat /\ LineHolds(file, i)
    BY <1>1 DEF Known, ScanTypes, HeaderInv, LinesInv
  <2>2. PICK j \in 1..(i - 1) : file[j].kind = "NetworkData"
    BY <1>1, <2>1 DEF LineHolds, KeywordHolds, Above
  <2>3. j \in 1..pos /\ "NetworkData" \in InHeader
    BY <2>1, <2>2 DEF InHeader, Once, Keywords
  <2>4. "NetworkData" \in header.seen
    BY <2>2, <2>3 DEF HeaderInv, ClaimedInv
  <2>. QED
    BY <2>4 DEF Known, SectionsInv, Behind, Sections, HeaderLoops
<1>. QED
  BY <1>1 DEF HeaderInv, EndedInv

(* Every step of the reader keeps it.                                        *)
LEMMA StepAccepts ==
    ASSUME IInv, BudgetInv, RestTyped, WrittenInv, ReferInv, ReadingInv, AcceptInv,
           [Next]_vars
    PROVE  AcceptInv'
<1>1. UNCHANGED <<file, hint, fileValues>> /\ ScanTypes
  BY HeaderSteps
     DEF IInv, ScanTypes, BudgetInv, Next, ReadHeader, HeaderOutcome, FreezePlan, RejectPlan,
         TakeDataLine, PushToken, AddPoint, Advance, RejectToken, Fail, FailHeader,
         SkipSectionLine, BeginNoise, EndFile, RejectSectionKeyword, RejectContent,
         AddNoisePoint, RejectNoiseLine, ReachEnd, Done, vars, input
<1>2. (Grammatical' <=> Grammatical) /\ (Good <=> Grammatical)
  BY <1>1, GrammarStays, GoodIsGrammatical
<1>3. ASSUME pc' # "done", HeaderInv' /\ NoiseRowsInv' /\ TokensInv'
      PROVE  AcceptInv'
  BY <1>3 DEF AcceptInv, AcceptsExactlyTheGrammar
<1>4. ASSUME pc' = "done", outcome'.kind = "network" <=> Good
      PROVE  AcceptInv'
  BY <1>2, <1>4 DEF AcceptInv, AcceptsExactlyTheGrammar, Grammatical
<1>5. CASE ReadHeader
  <2>1. /\ HeaderNext /\ HeaderOutcome /\ UNCHANGED noiseStartsAt /\ noise' = <<>>
        /\ noise = <<>>
    BY <1>5, HeaderSteps
       DEF IInv, ReadHeader, HeaderOutcome, ControlInv, HeaderLoops, dataVars, rows
  <2>2. /\ pc # "done" /\ pc \in HeaderLoops \ {"plan"}
        /\ pc' = "done" => outcome'.kind # "network"
    BY <2>1 DEF HeaderOutcome, HeaderLoops
  <2>3. Known /\ HeaderInv /\ NoiseRowsInv
    BY <2>2, ScanIsKnown
  <2>4. CASE pc' # "done"
    <3>1. HeaderInv'
      BY <1>1, <2>1, <2>3, <2>4, HeaderIsKept
    <3>2. noiseStartsAt' = 0
      BY <2>1, <2>2, <2>3, NoNoiseYet
    <3>3. NoiseRowsInv'
      <4>1. 1..Len(noise') = {} /\ Len(noise') = 0
        BY <2>1
      <4>2. {noise'[i].line : i \in 1..Len(noise')} = {}
        BY <4>1
      <4>. QED
        BY <3>2, <4>1, <4>2, FS_EmptySet DEF NoiseRowsInv
    <3>4. TokensInv'
      <4>1. pc' \notin Behind
        BY <2>1, <2>3, <2>4, HeaderNotes DEF Known, HeaderLoops, Behind, Sections
      <4>. QED
        BY <4>1 DEF TokensInv, Behind, Sections
    <3>. QED
      BY <1>3, <2>4, <3>1, <3>3, <3>4
  <2>5. CASE pc' = "done"
    <3>1. RejectOptionLine \/ RejectEarlyData \/ RejectKeyword \/ MissNetworkData
          \/ RejectReference \/ RejectInformation
      BY <2>1, <2>2, <2>5
         DEF HeaderNext, SkipHeaderLine, TakeOptionLine, IgnoreOptionLine, ApplyKeyword,
             TakeNetworkData, BeginReference, SkipReferenceLine, ExtendReference,
             BeginInformation, SkipInformationLine, EndInformation, Takes
    <3>2. ~Good
      BY <2>3, <3>1, OptionIsNotRefused, NumbersAreNotRefused, KeywordIsNotRefused,
         DataIsNotMissed, ListIsNotRefused, InformationIsNotRefused
    <3>. QED
      BY <1>4, <2>2, <2>5, <3>2
  <2>. QED
    BY <2>4, <2>5
<1>6. CASE FreezePlan
  <2>1. /\ pc = "plan" /\ pc' = "network" /\ pc # "done"
        /\ UNCHANGED <<file, pos, header, noiseStartsAt, noise>>
    BY <1>1, <1>6 DEF FreezePlan, headerVars, dataVars, rows
  <2>2. HeaderInv' /\ NoiseRowsInv' /\ TokensInv'
    BY <1>6, <2>1, ScanIsKnown, HeaderRemains, PlanKeepsTokens
  <2>. QED
    BY <1>3, <2>1, <2>2
<1>7. CASE PushToken \/ AddPoint
  <2>1. /\ pc = "tokens" /\ pc' \in {"network", "tokens"} /\ pc # "done"
        /\ UNCHANGED <<file, pos, header, noiseStartsAt, noise>>
    BY <1>1, <1>7 DEF PushToken, AddPoint, Advance, headerVars, dataVars, rows
  <2>2. pc \in Behind
    BY <2>1 DEF Behind
  <2>3. HeaderInv' /\ NoiseRowsInv' /\ TokensInv'
    BY <1>7, <2>1, <2>2, ScanIsKnown, HeaderRemains, TokenKeepsTokens
  <2>. QED
    BY <1>3, <2>1, <2>3
<1>8. CASE TakeDataLine \/ SkipSectionLine \/ BeginNoise \/ EndFile \/ AddNoisePoint
  <2>1. SectionMarks
    BY <1>8, SectionTakes
  <2>2. /\ SectionLine /\ pc \in Behind /\ pc # "done" /\ pc' # "done"
        /\ UNCHANGED <<input, header, freqHz, block>>
    BY <2>1 DEF SectionMarks, SectionLine, Behind, Sections
  <2>3. /\ Known /\ NoiseInv /\ SweepAscends /\ HeaderInv /\ NoiseRowsInv /\ TokensInv
    BY <2>2, ScanIsKnown
  <2>4. pc' = "tokens" => col' = 0
    BY <1>8 DEF TakeDataLine, SkipSectionLine, BeginNoise, EndFile, AddNoisePoint, Takes,
                input, headerVars, dataVars, points, rows, Sections
  <2>5. Taken' = Taken
    BY <2>2, <2>3, <2>4, TakenStays DEF Known
  <2>6. HeaderInv' /\ NoiseRowsInv' /\ TokensInv'
    BY <2>1, <2>2, <2>3, <2>5, SectionKeepsHeader, SectionKeepsRows, LineKeepsTokens
  <2>. QED
    BY <1>3, <2>2, <2>6
<1>9. CASE RejectPlan \/ RejectToken \/ RejectSectionKeyword \/ RejectContent
             \/ RejectNoiseLine \/ (ReachEnd /\ Fail(EndFault, EndFaultLine) /\ EndFault # NoFault)
  <2>1. pc' = "done"
    <3>1. \E kind, line : Fail(kind, line)
      BY <1>9 DEF RejectPlan, RejectToken, RejectSectionKeyword, RejectContent, RejectNoiseLine
    <3>. QED
      BY <3>1 DEF Fail, FailHeader, Answer
  <2>2. outcome'.kind # "network"
    BY <1>9, SectionAnswers
  <2>3. pc # "done" /\ (RejectToken => pc \in Behind)
    BY <1>9
       DEF RejectPlan, RejectToken, RejectSectionKeyword, RejectContent, RejectNoiseLine,
           ReachEnd, RunsOut, Takes, Sections, Behind
  <2>4. /\ Known /\ FramesInv /\ NoiseInv /\ SweepAscends /\ fileValues \in Nat
        /\ HeaderInv /\ NoiseRowsInv /\ TokensInv
        /\ pc \in Behind => header.options # 0
    BY <2>3, ScanIsKnown
  <2>5. ~Good
    <3>1. CASE RejectPlan \/ RejectToken
      BY <2>3, <2>4, <3>1, PlanIsNotRefused, TokenIsNotRefused
    <3>2. CASE RejectSectionKeyword \/ RejectContent
      BY <2>4, <3>2, SectionKeywordIsNotRefused, ContentIsNotRefused
    <3>3. CASE RejectNoiseLine
      BY <2>4, <3>3, RowIsNotRefused
    <3>4. CASE ReachEnd /\ EndFault # NoFault
      <4>1. pc \in Sections /\ pos = Len(file)
        BY <3>4 DEF ReachEnd, RunsOut
      <4>. QED
        BY <2>4, <3>4, <4>1, EndIsNotRefused
    <3>. QED
      BY <1>9, <3>1, <3>2, <3>3, <3>4
  <2>. QED
    BY <1>4, <2>1, <2>2, <2>5
<1>10. CASE ReachEnd /\ EndFault = NoFault
  <2>1. /\ pc' = "done" /\ pc \in Sections /\ pos = Len(file) /\ outcome'.kind = "network"
    BY <1>10 DEF ReachEnd, RunsOut, Answer, Fail, FailHeader
  <2>2. pc # "done" /\ pc \in Behind
    BY <2>1 DEF Behind, Sections
  <2>3. /\ Known /\ FramesInv /\ NoiseInv /\ fileValues \in Nat
        /\ HeaderInv /\ NoiseRowsInv /\ TokensInv /\ header.options # 0
    BY <2>2, ScanIsKnown
  <2>4. Good
    BY <1>10, <2>1, <2>3, EndIsGood
  <2>. QED
    BY <1>4, <2>1, <2>4
<1>11. CASE Done \/ UNCHANGED vars
  <2>1. /\ UNCHANGED <<pc, pos, outcome, header, list, dataStartsAt, col, block, freqHz, noise>>
        /\ UNCHANGED <<input, noiseStartsAt, file>>
    BY <1>11 DEF Done, vars, input, headerVars, dataVars, points, rows
  <2>2. AcceptsExactlyTheGrammar'
    BY <1>2, <2>1 DEF AcceptInv, AcceptsExactlyTheGrammar, Grammatical
  <2>3. ASSUME pc # "done"
        PROVE  HeaderInv' /\ NoiseRowsInv' /\ TokensInv'
    <3>1. Known /\ HeaderInv /\ NoiseRowsInv /\ TokensInv
      BY <2>3, ScanIsKnown
    <3>2. HeaderInv'
      BY <2>1, <3>1 DEF HeaderInv, LinesInv, ClaimedInv, RowsNoteInv, EndedInv, OpenInv
    <3>3. NoiseRowsInv'
      BY <2>1, <3>1 DEF NoiseRowsInv
    <3>4. TokensInv'
      <4>1. CASE pc \in Behind
        <5>1. Collection' = Collection
          BY <2>1, CollectionStays
        <5>2. Taken' = Taken
          BY <2>1, <5>1 DEF Taken, FirstOn
        <5>. QED
          BY <2>1, <3>1, <4>1, <5>2, LineKeepsTokens
      <4>2. CASE pc \notin Behind
        BY <2>1, <4>2 DEF TokensInv, Behind, Sections
      <4>. QED
        BY <4>1, <4>2
    <3>. QED
      BY <3>2, <3>3, <3>4
  <2>. QED
    BY <2>1, <2>2, <2>3 DEF AcceptInv
<1>12. ReachEnd => \/ Fail(EndFault, EndFaultLine) /\ EndFault # NoFault
                   \/ EndFault = NoFault
  BY DEF ReachEnd
<1>. QED
  BY <1>5, <1>6, <1>7, <1>8, <1>9, <1>10, <1>11, <1>12 DEF Next

(* The reader accepts exactly the well-formed 2.x files, whatever the file,  *)
(* the caller's port count and the limits of the machine.                    *)
THEOREM FilesAreAcceptedAsTheySay == Spec => []AcceptsExactlyTheGrammar
<1>1. Init => ReferInv /\ ReadingInv /\ AcceptInv
  BY InitRefers, InitReads, InitAccepts
<1>2. IInv /\ BudgetInv /\ RestTyped /\ ReferInv /\ [Next]_vars => ReferInv'
  BY StepRefers
<1>3. IInv /\ BudgetInv /\ RestTyped /\ WrittenInv /\ ReadingInv /\ [Next]_vars => ReadingInv'
  BY StepReads
<1>4. /\ IInv /\ BudgetInv /\ RestTyped /\ WrittenInv /\ ReferInv /\ ReadingInv /\ AcceptInv
      /\ [Next]_vars
      => AcceptInv'
  BY StepAccepts
<1>5. AcceptInv => AcceptsExactlyTheGrammar
  BY DEF AcceptInv
<1>. QED
  BY <1>1, <1>2, <1>3, <1>4, <1>5, Invariance, BudgetHolds, RestHolds, WrittenHolds, PTL DEF Spec
================================================================================
