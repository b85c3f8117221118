------------------------------- MODULE V1Proofs -------------------------------
(***************************************************************************)
(* Theorems about V1Reader, for every file, every hint, every MaxUsize and *)
(* every MaxHz.                                                            *)
(***************************************************************************)
EXTENDS V1Reader, TLAPS, SequenceTheorems

(* values_per_point answers None or the exact size, never a wrapped one.     *)
LEMMA SizeIsExact ==
    ASSUME NEW n \in Nat, ValuesPerPoint(n) # None
    PROVE  n > 0 /\ ValuesPerPoint(n) = n * n * 2 + 1 /\ ValuesPerPoint(n) \in Nat
  BY MaxUsizeAssumption DEF ValuesPerPoint, None

(* nports_from_data_set inverts values_per_point.                            *)
LEMMA LengthNamesOnePort ==
    ASSUME NEW len \in Nat, NportsFromDataSet(len) # None
    PROVE  /\ NportsFromDataSet(len) \in Nat \ {0}
           /\ len = NportsFromDataSet(len) * NportsFromDataSet(len) * 2 + 1
<1> DEFINE entries == (len - 1) \div 2
<1>1. /\ len >= 3 /\ Odd(len)
      /\ \E n \in 1..entries : n * n = entries
      /\ NportsFromDataSet(len) = CHOOSE n \in 1..entries : n * n = entries
  BY DEF NportsFromDataSet
<1>2. /\ NportsFromDataSet(len) \in 1..entries
      /\ NportsFromDataSet(len) * NportsFromDataSet(len) = entries
  BY <1>1
<1>3. len = entries * 2 + 1
  BY <1>1 DEF Odd
<1>4. entries \in Nat
  BY <1>1
<1>. QED
  BY <1>2, <1>3, <1>4

(* One more point adds the entries of one point.                             *)
LEMMA OneMorePoint ==
    ASSUME NEW a \in Int, NEW b \in Int
    PROVE  (a + 1) * b = a * b + b
  OBVIOUS
-----------------------------------------------------------------------------
(* What one step of the scan finds: the inductive invariant's parts.         *)

(* Where the scan is decides what it holds.                                  *)
ControlInv ==
    /\ pc \in {"push", "extend"} => pos \in 1..Len(file)
    /\ pc \in {"full", "last"} => block # <<>>
    /\ pc \in {"extend", "close"} => block = <<>>
    /\ pc = "full" => nports # None
    /\ pc \notin {"line", "done"} => optionLine # 0

(* A block opens with the first value of the line it is blamed on.           *)
BlockInv ==
    block # <<>> => /\ blockLine \in 1..Len(file)
                    /\ block[1] = <<blockLine, 1>>

(* Neighbouring values from place i on, where i is even in its block.        *)
WholePair(b, i) ==
    i % 2 = 0 => /\ i + 1 \in 1..Len(b)
                 /\ b[i + 1] = <<b[i][1], b[i][2] + 1>>

(* In a block that began on an odd line pairs are whole, because every line  *)
(* after the first added an even number of values.                           *)
PairInv == Odd(Len(block)) => \A i \in 1..Len(block) : WholePair(block, i)

(* No point without a port count, n^2 entries for each.                      *)
ShapeInv ==
    /\ nports = None => freqHz = <<>> /\ s = <<>>
    /\ nports # None => Len(s) = Len(freqHz) * (nports * nports)

IInv == /\ TypeOK
        /\ ControlInv
        /\ BlockInv
        /\ PairInv
        /\ ShapeInv
        /\ PairsStayTogether
        /\ SweepAscends
        /\ NoiseFollowsTwoPortSweep
-----------------------------------------------------------------------------
(* Every file starts in a state of the invariant: nothing read, the hint in  *)
(* nports (DataSets::new).                                                   *)
THEOREM InitEstablishes == Init => IInv
<1> SUFFICES ASSUME Init PROVE IInv
  OBVIOUS
<1>1. /\ file \in Seq(Lines)
      /\ hint \in Nat \cup {None}
  BY FilesAssumption, HintsAssumption DEF Init
<1>2. TypeOK
  <2>1. outcome \in Outcomes
    BY DEF Init, Outcomes, SetFaults, LineFaults
  <2>2. Len(file) \in Nat
    BY <1>1
  <2>3. \A T : <<>> \in Seq(T)
    BY EmptySeq
  <2>4. file \in Seq(Lines) /\ hint \in Nat \cup {None} /\ nports \in Nat \cup {None}
    BY <1>1 DEF Init
  <2>5. pc \in Locations
    BY DEF Init, Locations
  <2>6. /\ pos \in 0..Len(file) /\ optionLine \in 0..Len(file)
        /\ blockLine \in 0..Len(file) /\ noiseLine \in 0..Len(file)
    BY <2>2 DEF Init
  <2>7. /\ comments \in Seq(Nat) /\ block \in Seq(Places) /\ freqHz \in Seq(Int)
        /\ s \in Seq(Pairs) /\ noise \in Seq(NoisePoints) /\ z0 \in Seq(Nat)
    BY <2>3 DEF Init
  <2>8. inNoise \in BOOLEAN
    BY DEF Init
  <2>. QED
    BY <2>1, <2>4, <2>5, <2>6, <2>7, <2>8 DEF TypeOK
<1>3. /\ ControlInv /\ BlockInv /\ PairInv /\ ShapeInv
  BY <1>1 DEF Init, ControlInv, BlockInv, PairInv, ShapeInv, Odd
<1>4. /\ PairsStayTogether /\ SweepAscends /\ NoiseFollowsTwoPortSweep
  BY <1>1 DEF Init, PairsStayTogether, SweepAscends, NoiseFollowsTwoPortSweep
<1>. QED
  BY <1>2, <1>3, <1>4 DEF IInv
-----------------------------------------------------------------------------
(* A step that leaves the DataSets alone and moves the scan on keeps every   *)
(* part of the invariant but the scan's own types.                           *)
LEMMA SetsUntouched ==
    ASSUME IInv, UNCHANGED <<input, sets>>
    PROVE  /\ BlockInv' /\ PairInv' /\ ShapeInv'
           /\ PairsStayTogether' /\ SweepAscends' /\ NoiseFollowsTwoPortSweep'
  BY DEF IInv, input, sets, BlockInv, PairInv, ShapeInv, PairsStayTogether,
         SweepAscends, NoiseFollowsTwoPortSweep, Finite, Odd

(* An error answer is a state of the invariant whatever the error is.        *)
LEMMA FailPreserves ==
    ASSUME IInv, NEW kind \in SetFaults \cup LineFaults, NEW line \in Nat,
           Fail(kind, line), UNCHANGED <<input, optionLine, comments>>,
           pos' \in 0..Len(file)
    PROVE  IInv'
<1>1. UNCHANGED <<input, sets>>
  BY DEF Fail
<1>2. TypeOK'
  BY DEF IInv, TypeOK, Fail, Answer, Outcomes, Locations, input, sets
<1>3. ControlInv'
  BY DEF Fail, Answer, ControlInv
<1>. QED
  BY <1>1, <1>2, <1>3, SetsUntouched DEF IInv

(* What the types say of the next line of the file.                          *)
LEMMA TypeFacts ==
    ASSUME TypeOK
    PROVE  /\ Len(file) \in Nat /\ pos \in Nat
           /\ NextLine = pos + 1 /\ NextLine \in Nat
           /\ pos < Len(file) => /\ NextLine \in 1..Len(file)
                                 /\ file[NextLine] \in Lines
           /\ \A i \in 1..Len(file) : file[i] \in Lines
  BY DEF TypeOK, NextLine

(* The steps of parse_v1's loop that leave the sets alone.                   *)
LEMMA LoopPreserves ==
    ASSUME IInv,
           \/ SkipEmptyLine \/ TakeOptionLine \/ IgnoreOptionLine
           \/ RejectKeyword \/ TakeDataLine
    PROVE  IInv'
<1> USE TypeFacts DEF IInv
<1>1. NextLine \in 1..Len(file) /\ pos' = NextLine /\ pos' \in 0..Len(file) /\ NextLine \in Nat
  BY DEF SkipEmptyLine, TakeOptionLine, IgnoreOptionLine, RejectKeyword,
         TakeDataLine, LineIs
<1>2. CASE SkipEmptyLine
  <2>1. UNCHANGED <<input, sets>>
    BY <1>2 DEF SkipEmptyLine
  <2>2. comments' \in Seq(Nat)
    BY <1>1, <1>2, AppendProperties DEF SkipEmptyLine, TypeOK
  <2>3. TypeOK'
    BY <1>1, <1>2, <2>2 DEF SkipEmptyLine, TypeOK, input, sets
  <2>4. ControlInv'
    BY <1>2 DEF SkipEmptyLine, LineIs, ControlInv, sets
  <2>. QED
    BY <2>1, <2>3, <2>4, SetsUntouched
<1>3. CASE TakeOptionLine
  <2>1. CASE \E kind \in SetFaults \cup LineFaults : Fail(kind, NextLine) /\ UNCHANGED optionLine
    BY <1>1, <1>3, <2>1, FailPreserves DEF TakeOptionLine
  <2>2. CASE optionLine' = NextLine /\ UNCHANGED <<pc, sets, z0, outcome>>
    <3>1. UNCHANGED <<input, sets>>
      BY <1>3, <2>2 DEF TakeOptionLine
    <3>2. TypeOK'
      BY <1>1, <1>3, <2>2 DEF TakeOptionLine, TypeOK, input, sets
    <3>3. ControlInv'
      BY <1>3, <2>2 DEF TakeOptionLine, LineIs, ControlInv, sets
    <3>. QED
      BY <3>1, <3>2, <3>3, SetsUntouched
  <2>. QED
    BY <1>3, <2>1, <2>2 DEF TakeOptionLine, LineFaults
<1>4. CASE IgnoreOptionLine
  <2>1. UNCHANGED <<input, sets>>
    BY <1>4 DEF IgnoreOptionLine
  <2>2. TypeOK'
    BY <1>1, <1>4 DEF IgnoreOptionLine, TypeOK, input, sets
  <2>3. ControlInv'
    BY <1>4 DEF IgnoreOptionLine, LineIs, ControlInv, sets
  <2>. QED
    BY <2>1, <2>2, <2>3, SetsUntouched
<1>5. CASE RejectKeyword
  BY <1>1, <1>5, FailPreserves DEF RejectKeyword, LineFaults
<1>6. CASE TakeDataLine
  <2>1. CASE \E kind \in SetFaults \cup LineFaults : Fail(kind, NextLine)
    BY <1>1, <1>6, <2>1, FailPreserves DEF TakeDataLine
  <2>2. CASE optionLine # 0 /\ pc' = "push" /\ UNCHANGED <<sets, z0, outcome>>
    <3>1. UNCHANGED <<input, sets>>
      BY <1>6, <2>2 DEF TakeDataLine
    <3>2. TypeOK'
      BY <1>1, <1>6, <2>2 DEF TakeDataLine, TypeOK, Locations, input, sets
    <3>3. ControlInv'
      BY <1>1, <1>6, <2>2 DEF TakeDataLine, ControlInv, sets, input
    <3>. QED
      BY <3>1, <3>2, <3>3, SetsUntouched
  <2>. QED
    BY <1>6, <2>1, <2>2 DEF TakeDataLine, LineFaults
<1>. QED
  BY <1>2, <1>3, <1>4, <1>5, <1>6
-----------------------------------------------------------------------------
(* The values a data line adds to the block, one per column.                 *)
LEMMA ValuesTyped ==
    ASSUME NEW line \in 1..Len(file), TypeOK
    PROVE  /\ Values(line) \in Seq(Places)
           /\ Len(Values(line)) = file[line].n
           /\ file[line].n \in Nat \ {0}
           /\ \A i \in 1..file[line].n : Values(line)[i] = <<line, i>>
<1>1. file[line].n \in Nat \ {0}
  BY TypeFacts DEF Lines
<1>2. line \in Nat
  BY TypeFacts
<1>3. \A i \in 1..file[line].n : <<line, i>> \in Places
  BY <1>1, <1>2 DEF Places
<1>. QED
  BY <1>1, <1>3 DEF Values

(* The arithmetic of the odd-count rule.                                     *)
LEMMA Parity ==
    ASSUME NEW a \in Nat, NEW b \in Nat
    PROVE  /\ a % 2 = 0 /\ b % 2 = 1 /\ a <= b => a + 1 <= b
           /\ (a + b) % 2 = 1 /\ ~(b % 2 = 1) => a % 2 = 1
           /\ a % 2 = 1 => a # 0
  OBVIOUS

(* A line added to a block that did not have to be closed first keeps pairs  *)
(* whole: it is either the block's first line or one of even length.         *)
LEMMA ExtendedPairs ==
    ASSUME NEW a \in Seq(Places), NEW v \in Seq(Places), NEW line \in Nat,
           \A j \in 1..Len(v) : v[j] = <<line, j>>,
           a = <<>> \/ ~Odd(Len(v)),
           Odd(Len(a)) => \A i \in 1..Len(a) : WholePair(a, i),
           Odd(Len(a \o v)), NEW i \in 1..Len(a \o v)
    PROVE  WholePair(a \o v, i)
<1> DEFINE c == a \o v
<1>1. /\ Len(a) \in Nat /\ Len(v) \in Nat
      /\ Len(c) = Len(a) + Len(v)
      /\ \A j \in 1..(Len(a) + Len(v)) : c[j] = IF j <= Len(a) THEN a[j] ELSE v[j - Len(a)]
  BY ConcatProperties, LenProperties
<1>2. Odd(Len(c)) /\ i \in 1..Len(c)
  OBVIOUS
<1>3. SUFFICES ASSUME i % 2 = 0
               PROVE  i + 1 \in 1..Len(c) /\ c[i + 1] = <<c[i][1], c[i][2] + 1>>
  BY DEF WholePair
<1> HIDE DEF c
<1>4. i \in Nat /\ i + 1 \in 1..Len(c)
  <2>1. Len(c) \in Nat /\ i \in Nat /\ i <= Len(c) /\ 1 <= i
    BY <1>1, <1>2
  <2>2. Len(c) % 2 = 1
    BY <1>2 DEF Odd
  <2>3. i + 1 <= Len(c)
    BY <1>3, <2>1, <2>2, Parity
  <2>. QED
    BY <2>1, <2>3
<1>5. CASE i <= Len(a)
  <2>1. a # <<>>
    BY <1>1, <1>2, <1>5
  <2>2. Odd(Len(a))
    BY <1>1, <1>2, <2>1, Parity DEF Odd
  <2>3. i + 1 \in 1..Len(a) /\ a[i + 1] = <<a[i][1], a[i][2] + 1>>
    BY <1>1, <1>2, <1>3, <1>5, <2>2 DEF WholePair
  <2>. QED
    BY <1>1, <1>4, <1>5, <2>3
<1>6. CASE i > Len(a)
  <2>1. i - Len(a) \in 1..Len(v) /\ (i + 1) - Len(a) \in 1..Len(v)
    BY <1>1, <1>4, <1>6, <1>2
  <2>2. c[i] = v[i - Len(a)] /\ c[i + 1] = v[(i + 1) - Len(a)]
    BY <1>1, <1>2, <1>4, <1>6
  <2>3. c[i] = <<line, i - Len(a)>> /\ c[i + 1] = <<line, (i - Len(a)) + 1>>
    BY <1>1, <1>4, <2>1, <2>2
  <2>. QED
    BY <1>4, <2>3
<1>. QED
  BY <1>1, <1>4, <1>5, <1>6

(* Appending a line to the block keeps the invariant (push_line).            *)
LEMMA ExtendPreserves ==
    ASSUME IInv, ExtendBlock
    PROVE  IInv'
<1> USE DEF IInv
<1>1. /\ pos \in 1..Len(file) /\ pos \in Nat /\ optionLine # 0
      /\ block = <<>> \/ ~Odd(file[pos].n)
  BY DEF ExtendBlock, ClosesBlock, ControlInv, TypeOK
<1>2. CASE Fail("UnusablePortCount", pos)
  BY <1>1, <1>2, FailPreserves DEF ExtendBlock, LineFaults, TypeOK
<1>3. CASE ~Fail("UnusablePortCount", pos)
  <2>1. /\ block' = block \o Values(pos)
        /\ blockLine' = OpenedOn
        /\ pc' = IF nports # None /\ IsFull(nports, block') THEN "full" ELSE "line"
        /\ UNCHANGED <<input, pos, optionLine, comments, nports, freqHz, s, inNoise,
                       noiseLine, noise, z0, outcome>>
    BY <1>3 DEF ExtendBlock
  <2>2. /\ Values(pos) \in Seq(Places)
        /\ Len(Values(pos)) \in Nat \ {0}
        /\ Values(pos)[1] = <<pos, 1>>
    BY <1>1, ValuesTyped
  <2>3. /\ block' \in Seq(Places)
        /\ block' # <<>>
        /\ block = <<>> => block'[1] = <<pos, 1>>
        /\ block # <<>> => block'[1] = block[1]
    BY <2>1, <2>2, ConcatProperties, EmptySeq, SMTT(30) DEF TypeOK
  <2>4. TypeOK'
    BY <1>1, <2>1, <2>3 DEF TypeOK, Locations, OpenedOn, input
  <2>5. ControlInv'
    BY <1>1, <2>1, <2>3 DEF ControlInv, input
  <2>6. BlockInv'
    BY <1>1, <2>1, <2>3 DEF BlockInv, OpenedOn, input, TypeOK
  <2>7. PairInv'
    <3>1. /\ block \in Seq(Places) /\ Values(pos) \in Seq(Places)
          /\ Len(Values(pos)) = file[pos].n
          /\ \A j \in 1..Len(Values(pos)) : Values(pos)[j] = <<pos, j>>
      BY <1>1, ValuesTyped DEF TypeOK
    <3>. QED
      BY <1>1, <2>1, <3>1, ExtendedPairs DEF PairInv
  <2>8. /\ ShapeInv' /\ PairsStayTogether' /\ SweepAscends'
        /\ NoiseFollowsTwoPortSweep'
    BY <2>1 DEF ShapeInv, PairsStayTogether, SweepAscends, NoiseFollowsTwoPortSweep, Finite
  <2>. QED
    BY <2>4, <2>5, <2>6, <2>7, <2>8
<1>. QED
  BY <1>2, <1>3
-----------------------------------------------------------------------------
(* What every flush starts from.                                             *)
LEMMA FlushFacts ==
    ASSUME IInv, Flushing
    PROVE  /\ block \in Seq(Places) /\ block # <<>> /\ Len(block) \in Nat \ {0}
           /\ blockLine \in 1..Len(file) /\ block[1] = <<blockLine, 1>>
           /\ BlockHz(block) \in Int
           /\ AfterFlush \in {"extend", "line", "close"}
           /\ AfterFlush = "extend" => pos \in 1..Len(file)
           /\ AfterFlush # "line" => optionLine # 0
           /\ SetPorts \in Nat \cup {None}
           /\ nports # None => SetPorts = nports
<1> USE DEF IInv
<1>1. block \in Seq(Places) /\ block # <<>>
  BY DEF Flushing, ClosesBlock, ControlInv, TypeOK
<1>2. Len(block) \in Nat \ {0}
  BY <1>1, EmptySeq
<1>3. blockLine \in 1..Len(file) /\ block[1] = <<blockLine, 1>>
  BY <1>1 DEF BlockInv
<1>4. BlockHz(block) \in Int
  BY <1>3, TypeFacts DEF BlockHz, Lines
<1>5. /\ AfterFlush \in {"extend", "line", "close"}
      /\ AfterFlush = "extend" => pos \in 1..Len(file)
      /\ AfterFlush # "line" => optionLine # 0
  BY DEF Flushing, AfterFlush, ControlInv
<1>6. SetPorts \in Nat \cup {None}
  BY <1>2, LengthNamesOnePort DEF SetPorts, TypeOK
<1>7. nports # None => SetPorts = nports
  BY DEF SetPorts
<1>. QED
  BY <1>1, <1>2, <1>3, <1>4, <1>5, <1>6, <1>7

(* What flush has established when it adds a point.                          *)
LEMMA PointPasses ==
    ASSUME IInv, AddPoint
    PROVE  /\ SetPorts \in Nat \ {0}
           /\ Len(block) = SetPorts * SetPorts * 2 + 1
           /\ Finite(BlockHz(block))
           /\ PastLastPoint(BlockHz(block))
<1>1. /\ SetPorts # None
      /\ Finite(BlockHz(block))
      /\ PointFault(SetPorts) = NoFault
  BY DEF AddPoint, SetFault, ReadsNoise, NoFault
<1>2. /\ ValuesPerPoint(SetPorts) # None
      /\ Len(block) = ValuesPerPoint(SetPorts)
      /\ PastLastPoint(BlockHz(block))
  BY <1>1 DEF PointFault, NoFault
<1>3. SetPorts \in Nat
  BY <1>1, FlushFacts DEF AddPoint
<1>. QED
  BY <1>1, <1>2, <1>3, SizeIsExact

(* push_point takes each of its n^2 entries from a pair inside the set, also *)
(* at two ports, where the order is permuted.                                *)
LEMMA PointTyped ==
    ASSUME NEW n \in Nat \ {0}, NEW b \in Seq(Places), Len(b) = n * n * 2 + 1
    PROVE  /\ PushPoint(n, b) \in Seq(Pairs)
           /\ Len(PushPoint(n, b)) = n * n
           /\ \A i \in 1..(n * n) : /\ 2 * FileOrder(n, i) \in 1..Len(b)
                                    /\ PushPoint(n, b)[i] = Pair(b, FileOrder(n, i))
<1> DEFINE size == n * n
<1>1. size \in Nat /\ Len(b) = size * 2 + 1 /\ (n = 2 => size = 4)
  OBVIOUS
<1> HIDE DEF size
<1>2. \A i \in 1..size : FileOrder(n, i) \in 1..size
  BY <1>1 DEF FileOrder
<1>3. \A i \in 1..size : /\ 2 * FileOrder(n, i) \in 1..Len(b)
                         /\ 2 * FileOrder(n, i) + 1 \in 1..Len(b)
  <2>1. \A k \in 1..size : 2 * k \in 1..Len(b) /\ 2 * k + 1 \in 1..Len(b)
    BY <1>1
  <2>. QED
    BY <1>2, <2>1
<1>4. \A i \in 1..size : Pair(b, FileOrder(n, i)) \in Pairs
  BY <1>3 DEF Pair, Pairs
<1>5. PushPoint(n, b) = [i \in 1..size |-> Pair(b, FileOrder(n, i))]
  BY DEF PushPoint, size
<1>6. PushPoint(n, b) \in Seq(Pairs) /\ Len(PushPoint(n, b)) = size
  BY <1>1, <1>4, <1>5
<1>. QED
  BY <1>3, <1>5, <1>6 DEF size

(* Appending to an ascending sweep a frequency above its last.               *)
LEMMA AscendingAppend ==
    ASSUME NEW f \in Seq(Int), NEW hz \in Int,
           \A i, j \in 1..Len(f) : i < j => f[i] < f[j],
           f = <<>> \/ f[Len(f)] < hz
    PROVE  /\ Append(f, hz) \in Seq(Int)
           /\ Len(Append(f, hz)) = Len(f) + 1
           /\ \A i, j \in 1..Len(Append(f, hz)) :
                  i < j => Append(f, hz)[i] < Append(f, hz)[j]
<1>1. /\ Append(f, hz) \in Seq(Int)
      /\ Len(Append(f, hz)) = Len(f) + 1 /\ Len(f) \in Nat
      /\ \A i \in 1..Len(f) : Append(f, hz)[i] = f[i]
      /\ Append(f, hz)[Len(f) + 1] = hz
  BY AppendProperties, LenProperties
<1>2. \A i \in 1..Len(f) : f[i] < hz
  <2>1. SUFFICES ASSUME NEW i \in 1..Len(f) PROVE f[i] < hz
    OBVIOUS
  <2>2. f # <<>> /\ Len(f) \in 1..Len(f)
    BY <1>1
  <2>3. f[Len(f)] < hz /\ f[i] \in Int /\ f[Len(f)] \in Int
    BY <2>2
  <2>4. i = Len(f) \/ f[i] < f[Len(f)]
    BY <1>1, <2>2
  <2>. QED
    BY <2>3, <2>4
<1>. QED
  BY <1>1, <1>2
-----------------------------------------------------------------------------
(* A set flushed into a frequency point keeps the invariant (flush).         *)
LEMMA AddPointPreserves ==
    ASSUME IInv, AddPoint
    PROVE  IInv'
<1> USE DEF IInv
<1> DEFINE n == SetPorts
           hz == BlockHz(block)
           point == PushPoint(n, block)
<1>1. /\ n \in Nat \ {0} /\ Len(block) = n * n * 2 + 1
      /\ Finite(hz) /\ PastLastPoint(hz)
  BY PointPasses
<1>2. /\ block \in Seq(Places) /\ hz \in Int
      /\ AfterFlush \in {"extend", "line", "close"}
      /\ AfterFlush = "extend" => pos \in 1..Len(file)
      /\ AfterFlush # "line" => optionLine # 0
      /\ nports # None => n = nports
  BY FlushFacts DEF AddPoint
<1>3. /\ nports' = n /\ s' = s \o point /\ freqHz' = Append(freqHz, hz)
      /\ block' = <<>> /\ pc' = AfterFlush
      /\ UNCHANGED <<input, pos, optionLine, comments, blockLine, inNoise,
                     noiseLine, noise, z0, outcome>>
      /\ ~inNoise
  BY DEF AddPoint, ReadsNoise
<1>4. /\ point \in Seq(Pairs) /\ Len(point) = n * n
      /\ \A i \in 1..(n * n) : /\ 2 * FileOrder(n, i) \in 1..Len(block)
                               /\ point[i] = Pair(block, FileOrder(n, i))
  BY <1>1, <1>2, PointTyped
<1>5. Len(block) % 2 = 1
  <2>1. n * n \in Nat
    BY <1>1
  <2>. QED
    BY <1>1, <2>1
<1> HIDE DEF n, hz, point
<1>6. /\ s' \in Seq(Pairs) /\ Len(s') = Len(s) + n * n /\ Len(s) \in Nat
      /\ \A i \in 1..(Len(s) + n * n) :
            s'[i] = IF i <= Len(s) THEN s[i] ELSE point[i - Len(s)]
  BY <1>3, <1>4, ConcatProperties, LenProperties, ZenonT(40) DEF TypeOK
<1>7. /\ freqHz' \in Seq(Int) /\ Len(freqHz') = Len(freqHz) + 1
      /\ \A i, j \in 1..Len(freqHz') : i < j => freqHz'[i] < freqHz'[j]
  BY <1>1, <1>2, <1>3, AscendingAppend DEF TypeOK, SweepAscends, PastLastPoint
<1>8. TypeOK'
  <2>1. block' \in Seq(Places) /\ nports' \in Nat \cup {None}
    BY <1>1, <1>3, EmptySeq
  <2>. QED
    BY <1>2, <1>3, <1>6, <1>7, <2>1 DEF TypeOK, Locations, input
<1>9. ControlInv'
  BY <1>2, <1>3 DEF ControlInv, input
<1>10. BlockInv' /\ PairInv'
  BY <1>3 DEF BlockInv, PairInv, Odd
<1>11. ShapeInv'
  <2>1. Len(s) = Len(freqHz) * (n * n)
    BY <1>1, <1>2 DEF ShapeInv
  <2>2. Len(freqHz) \in Nat /\ n * n \in Nat
    BY <1>1 DEF TypeOK
  <2>3. (Len(freqHz) + 1) * (n * n) = Len(freqHz) * (n * n) + n * n
    BY <2>2, OneMorePoint
  <2>. QED
    BY <1>1, <1>3, <1>6, <1>7, <2>1, <2>3 DEF ShapeInv, None
<1>12. PairsStayTogether'
  <2>1. SUFFICES ASSUME NEW i \in 1..Len(s')
                 PROVE  s'[i][1][1] = s'[i][2][1] /\ s'[i][1][2] + 1 = s'[i][2][2]
    BY DEF PairsStayTogether
  <2>2. CASE i <= Len(s)
    BY <1>6, <2>2 DEF PairsStayTogether
  <2>3. CASE i > Len(s)
    <3> DEFINE k == FileOrder(n, i - Len(s))
    <3>1. n * n \in Nat /\ i - Len(s) \in 1..(n * n)
      BY <1>1, <1>6, <2>3
    <3>2. 2 * k \in 1..Len(block) /\ s'[i] = Pair(block, k)
      BY <1>4, <1>6, <2>3, <3>1
    <3> HIDE DEF k
    <3>3. WholePair(block, 2 * k) /\ 2 * k \in Nat /\ k \in Int
      <4>1. k \in Int
        BY <1>4, <3>1, <1>1, SMTT(30) DEF k, FileOrder
      <4>. QED
        BY <1>5, <3>2, <4>1 DEF PairInv, Odd
    <3>4. block[2 * k + 1] = <<block[2 * k][1], block[2 * k][2] + 1>>
      BY <3>3 DEF WholePair
    <3>. QED
      BY <3>2, <3>4 DEF Pair
  <2>. QED
    BY <1>6, <2>2, <2>3
<1>13. SweepAscends'
  <2>1. \A i \in 1..Len(freqHz') : (i <= Len(freqHz) /\ freqHz'[i] = freqHz[i]) \/ freqHz'[i] = hz
    BY <1>2, <1>3, AppendProperties, LenProperties, SMTT(30) DEF TypeOK
  <2>2. \A i \in 1..Len(freqHz') : Finite(freqHz'[i])
    <3>1. Len(freqHz) \in Nat /\ \A i \in 1..Len(freqHz) : Finite(freqHz[i])
      BY DEF SweepAscends, TypeOK
    <3>. QED
      BY <1>1, <1>7, <2>1, <3>1
  <2>. QED
    BY <1>3, <1>7, <2>2 DEF SweepAscends
<1>14. NoiseFollowsTwoPortSweep'
  BY <1>3 DEF NoiseFollowsTwoPortSweep
<1>. QED
  BY <1>8, <1>9, <1>10, <1>11, <1>12, <1>13, <1>14
-----------------------------------------------------------------------------
(* What a noise row has passed when it is added.                             *)
LEMMA NoiseRowPasses ==
    ASSUME IInv, Flushing, NoiseFault = NoFault
    PROVE  /\ Len(block) = NoiseValuesPerSet
           /\ PastLastNoise(BlockHz(block)) /\ Finite(BlockHz(block))
           /\ NoisePoint(block) \in NoisePoints
           /\ NoisePoint(block).hz = BlockHz(block)
<1>1. /\ Len(block) = NoiseValuesPerSet
      /\ PastLastNoise(BlockHz(block)) /\ Finite(BlockHz(block))
  BY DEF NoiseFault, NoFault
<1>2. block \in Seq(Places) /\ BlockHz(block) \in Int
  BY FlushFacts
<1>3. SubSeq(block, 2, NoiseValuesPerSet) \in Seq(Places)
  <2>1. \A i \in 1..Len(block) : block[i] \in Places
    BY <1>2, ElementOfSeq
  <2>2. \A i \in 2..5 : block[i] \in Places
    BY <1>1, <2>1 DEF NoiseValuesPerSet
  <2>. QED
    BY <2>2, SubSeqProperties DEF NoiseValuesPerSet
<1>. QED
  BY <1>1, <1>2, <1>3 DEF NoisePoint, NoisePoints

(* The noise sweep grows like the network's.                                 *)
LEMMA NoiseAppend ==
    ASSUME TypeOK, SweepAscends, NEW p \in NoisePoints, PastLastNoise(p.hz), Finite(p.hz),
           noise' = Append(noise, p), freqHz' = freqHz
    PROVE  /\ noise' \in Seq(NoisePoints) /\ noise' # <<>>
           /\ SweepAscends'
           /\ noise # <<>> => noise'[1] = noise[1]
           /\ noise = <<>> => noise'[1] = p
<1>1. /\ noise' \in Seq(NoisePoints) /\ Len(noise') = Len(noise) + 1
      /\ noise \in Seq(NoisePoints) /\ Len(noise) \in Nat
      /\ \A i \in 1..Len(noise) : noise'[i] = noise[i]
      /\ noise'[Len(noise) + 1] = p
  BY AppendProperties, LenProperties DEF TypeOK
<1>2. \A i \in 1..Len(noise) : noise[i].hz \in Int
  <2>1. \A i \in 1..Len(noise) : noise[i] \in NoisePoints
    BY <1>1, ElementOfSeq
  <2>. QED
    BY <2>1 DEF NoisePoints
<1>3. p.hz \in Int
  BY DEF NoisePoints
<1>4. \A i \in 1..Len(noise) : noise[i].hz < p.hz
  <2>1. SUFFICES ASSUME NEW i \in 1..Len(noise) PROVE noise[i].hz < p.hz
    OBVIOUS
  <2>2. Len(noise) \in 1..Len(noise) /\ noise # <<>>
    BY <1>1
  <2>3. noise[Len(noise)].hz < p.hz
    BY <2>2 DEF PastLastNoise
  <2>4. i = Len(noise) \/ noise[i].hz < noise[Len(noise)].hz
    BY <1>1, <2>2 DEF SweepAscends
  <2>. QED
    BY <1>2, <1>3, <2>2, <2>3, <2>4
<1>5. SweepAscends'
  <2>1. \A i, j \in 1..Len(noise') : i < j => noise'[i].hz < noise'[j].hz
    <3>1. SUFFICES ASSUME NEW i \in 1..Len(noise'), NEW j \in 1..Len(noise'), i < j
                   PROVE  noise'[i].hz < noise'[j].hz
      OBVIOUS
    <3>2. i \in 1..Len(noise) /\ noise'[i] = noise[i]
      BY <1>1, <3>1
    <3>3. CASE j \in 1..Len(noise)
      BY <1>1, <3>1, <3>2, <3>3 DEF SweepAscends
    <3>4. CASE j = Len(noise) + 1
      BY <1>1, <1>4, <3>2, <3>4
    <3>. QED
      BY <1>1, <3>1, <3>3, <3>4
  <2>2. \A i \in 1..Len(noise') : Finite(noise'[i].hz)
    <3>1. SUFFICES ASSUME NEW i \in 1..Len(noise') PROVE Finite(noise'[i].hz)
      OBVIOUS
    <3>2. CASE i \in 1..Len(noise)
      BY <1>1, <3>2 DEF SweepAscends
    <3>3. CASE i = Len(noise) + 1
      BY <1>1, <3>3
    <3>. QED
      BY <1>1, <3>1, <3>2, <3>3
  <2>. QED
    BY <2>1, <2>2 DEF SweepAscends, Finite
<1>6. noise' # <<>> /\ (noise # <<>> => noise'[1] = noise[1]) /\ (noise = <<>> => noise'[1] = p)
  BY <1>1, EmptySeq
<1>. QED
  BY <1>1, <1>5, <1>6

(* Both flushes into the noise section leave the scan and the sweep alone.   *)
LEMMA NoiseStepKeeps ==
    ASSUME IInv, Flushing, block' = <<>>, pc' = AfterFlush, nports' \in Nat \cup {None},
           nports # None => nports' = nports, nports' # None,
           nports = None => Len(s) = Len(freqHz) * (nports' * nports'),
           inNoise' \in BOOLEAN, noiseLine' \in 0..Len(file), noise' \in Seq(NoisePoints),
           UNCHANGED <<input, pos, optionLine, comments, blockLine, freqHz, s, z0, outcome>>
    PROVE  TypeOK' /\ ControlInv' /\ BlockInv' /\ PairInv' /\ ShapeInv' /\ PairsStayTogether'
<1>1. /\ AfterFlush \in {"extend", "line", "close"}
      /\ AfterFlush = "extend" => pos \in 1..Len(file)
      /\ AfterFlush # "line" => optionLine # 0
  BY FlushFacts
<1>2. block' \in Seq(Places)
  BY EmptySeq
<1>3. TypeOK'
  BY <1>1, <1>2 DEF IInv, TypeOK, Locations, input
<1>4. ControlInv'
  BY <1>1 DEF ControlInv, input
<1>5. BlockInv' /\ PairInv'
  BY DEF BlockInv, PairInv, Odd
<1>6. ShapeInv' /\ PairsStayTogether'
  BY DEF IInv, ShapeInv, PairsStayTogether
<1>. QED
  BY <1>3, <1>4, <1>5, <1>6

(* The flush that discovers the noise section keeps the invariant (flush).   *)
LEMMA BeginNoisePreserves ==
    ASSUME IInv, BeginNoise
    PROVE  IInv'
<1> USE DEF IInv
<1>1. /\ Flushing /\ NoiseFault = NoFault /\ AtNoiseBoundary(SetPorts, block)
  BY DEF BeginNoise, SetFault, ReadsNoise, NoFault
<1>2. /\ freqHz # <<>> /\ SetPorts = 2 /\ ~inNoise /\ nports # None /\ nports = 2
      /\ freqHz[Len(freqHz)] >= BlockHz(block)
  BY <1>1, FlushFacts DEF AtNoiseBoundary, ShapeInv
<1>3. /\ nports' = 2 /\ inNoise' = TRUE /\ noiseLine' = blockLine
      /\ noise' = Append(noise, NoisePoint(block))
      /\ block' = <<>> /\ pc' = AfterFlush
      /\ UNCHANGED <<input, pos, optionLine, comments, blockLine, freqHz, s, z0, outcome>>
  BY <1>2 DEF BeginNoise
<1>4. /\ noise' \in Seq(NoisePoints) /\ noise' # <<>> /\ SweepAscends'
      /\ noise = <<>> => noise'[1] = NoisePoint(block)
  BY <1>1, <1>3, NoiseRowPasses, NoiseAppend
<1>5. /\ TypeOK' /\ ControlInv' /\ BlockInv' /\ PairInv' /\ ShapeInv' /\ PairsStayTogether'
  BY <1>1, <1>2, <1>3, <1>4, NoiseStepKeeps DEF TypeOK
<1>6. NoiseFollowsTwoPortSweep'
  <2>1. noise = <<>> /\ noise'[1].hz = BlockHz(block)
    BY <1>1, <1>2, <1>4, NoiseRowPasses DEF NoiseFollowsTwoPortSweep
  <2>2. BlockHz(block) \in Int /\ freqHz[Len(freqHz)] \in Int
    BY <1>1, <1>2, FlushFacts, EmptySeq DEF TypeOK
  <2>. QED
    BY <1>2, <1>3, <1>4, <2>1, <2>2 DEF NoiseFollowsTwoPortSweep
<1>. QED
  BY <1>4, <1>5, <1>6

(* A set flushed into a further noise point keeps the invariant              *)
(* (flush_noise).                                                            *)
LEMMA AddNoisePointPreserves ==
    ASSUME IInv, AddNoisePoint
    PROVE  IInv'
<1> USE DEF IInv
<1>1. Flushing /\ NoiseFault = NoFault /\ inNoise /\ nports = 2
  BY DEF AddNoisePoint, SetFault, ReadsNoise, NoFault, NoiseFollowsTwoPortSweep
<1>2. /\ noise' = Append(noise, NoisePoint(block))
      /\ block' = <<>> /\ pc' = AfterFlush
      /\ UNCHANGED <<input, pos, optionLine, comments, nports, blockLine, freqHz, s,
                     inNoise, noiseLine, z0, outcome>>
  BY DEF AddNoisePoint
<1>3. /\ noise' \in Seq(NoisePoints) /\ noise' # <<>> /\ SweepAscends'
      /\ noise # <<>> => noise'[1] = noise[1]
  BY <1>1, <1>2, NoiseRowPasses, NoiseAppend
<1>4. /\ TypeOK' /\ ControlInv' /\ BlockInv' /\ PairInv' /\ ShapeInv' /\ PairsStayTogether'
  BY <1>1, <1>2, <1>3, NoiseStepKeeps DEF TypeOK, None
<1>5. NoiseFollowsTwoPortSweep'
  BY <1>1, <1>2, <1>3 DEF NoiseFollowsTwoPortSweep
<1>. QED
  BY <1>3, <1>4, <1>5
-----------------------------------------------------------------------------
(* A flush that fails keeps the invariant: its error is one of those named.  *)
LEMMA RejectSetPreserves ==
    ASSUME IInv, RejectSet
    PROVE  IInv'
<1>1. SetFault \in SetFaults \cup LineFaults
  BY DEF RejectSet, SetFault, NoiseFault, PointFault, NoFault, SetFaults, LineFaults
<1>2. blockLine \in Nat /\ pos' \in 0..Len(file)
  BY TypeFacts DEF RejectSet, IInv, TypeOK
<1>. QED
  BY <1>1, <1>2, FailPreserves DEF RejectSet

(* The end of the file keeps the invariant (parse_v1 after its loop).        *)
LEMMA EndPreserves ==
    ASSUME IInv, ReachEnd \/ Close
    PROVE  IInv'
<1> USE DEF IInv
<1>1. pos' \in 0..Len(file) /\ optionLine \in Nat
  BY TypeFacts DEF ReachEnd, Close, TypeOK
<1>2. CASE \E kind \in SetFaults \cup LineFaults : \E line \in Nat :
              /\ Fail(kind, line)
              /\ UNCHANGED <<input, pos, optionLine, comments>>
  BY <1>1, <1>2, FailPreserves
<1>3. CASE ReachEnd /\ optionLine # 0
  <2>1. /\ pc' = IF block = <<>> THEN "close" ELSE "last"
        /\ UNCHANGED <<input, sets, pos, optionLine, comments, z0, outcome>>
    BY <1>3 DEF ReachEnd
  <2>2. TypeOK'
    BY <2>1 DEF TypeOK, Locations, input, sets
  <2>3. ControlInv'
    BY <1>3, <2>1 DEF ControlInv, sets
  <2>. QED
    BY <2>1, <2>2, <2>3, SetsUntouched
<1>4. CASE Close /\ Answer("network", 0)
  <2>1. /\ UNCHANGED <<input, sets, pos, optionLine, comments>>
        /\ freqHz # <<>>
        /\ pc' = "done" /\ outcome' = [kind |-> "network", line |-> 0]
    BY <1>4 DEF Close, Answer, Fail
  <2>2. z0' \in Seq(Nat)
    <3>1. Len(freqHz) \in Nat /\ nports \in Nat
      BY <2>1 DEF ShapeInv, TypeOK
    <3>2. z0' = z0 \/ z0' = BroadcastReference(file[optionLine].n, nports, Len(freqHz))
      BY <1>4 DEF Close, Fail
    <3>3. BroadcastReference(file[optionLine].n, nports, Len(freqHz)) \in Seq(Nat)
      <4> DEFINE size == Len(freqHz) * nports
      <4>1. size \in Nat
        BY <3>1
      <4> HIDE DEF size
      <4>2. \A i \in 1..size : nports # 0 => ((i - 1) % nports) + 1 \in Nat
        BY <3>1, <4>1
      <4>3. nports = 0 => size = 0
        BY <3>1 DEF size
      <4>4. BroadcastReference(file[optionLine].n, nports, Len(freqHz))
              = [i \in 1..size |-> IF file[optionLine].n = 1 THEN 1 ELSE ((i - 1) % nports) + 1]
        BY DEF BroadcastReference, size
      <4>. QED
        BY <3>1, <4>1, <4>2, <4>3, <4>4
    <3>. QED
      BY <3>2, <3>3 DEF TypeOK
  <2>3. TypeOK'
    BY <2>1, <2>2 DEF TypeOK, Locations, Outcomes, input, sets
  <2>4. ControlInv'
    BY <2>1 DEF ControlInv
  <2>. QED
    BY <2>1, <2>3, <2>4, SetsUntouched
<1>. QED
  BY <1>1, <1>2, <1>3, <1>4 DEF ReachEnd, Close, LineFaults

(* The invariant is inductive: one line per action.                          *)
THEOREM StepPreserves == IInv /\ [Next]_vars => IInv'
<1> SUFFICES ASSUME IInv, [Next]_vars PROVE IInv'
  OBVIOUS
<1>1. CASE SkipEmptyLine \/ TakeOptionLine \/ IgnoreOptionLine \/ RejectKeyword \/ TakeDataLine
  BY <1>1, LoopPreserves
<1>2. CASE ExtendBlock
  BY <1>2, ExtendPreserves
<1>3. CASE AddPoint
  BY <1>3, AddPointPreserves
<1>4. CASE BeginNoise
  BY <1>4, BeginNoisePreserves
<1>5. CASE AddNoisePoint
  BY <1>5, AddNoisePointPreserves
<1>6. CASE RejectSet
  BY <1>6, RejectSetPreserves
<1>7. CASE ReachEnd \/ Close
  BY <1>7, EndPreserves
<1>8. CASE Done \/ UNCHANGED vars
  <2>1. UNCHANGED vars
    BY <1>8 DEF Done
  <2>2. TypeOK' /\ ControlInv'
    BY <2>1 DEF IInv, vars, input, sets, TypeOK, ControlInv
  <2>. QED
    BY <2>1, <2>2, SetsUntouched DEF IInv, vars
<1>. QED
  BY <1>1, <1>2, <1>3, <1>4, <1>5, <1>6, <1>7, <1>8 DEF Next

(* The invariant holds in every state the reader can reach.                  *)
THEOREM Invariance == Spec => []IInv
<1>1. Init => IInv
  BY InitEstablishes
<1>2. IInv /\ [Next]_vars => IInv'
  BY StepPreserves
<1>. QED
  BY <1>1, <1>2, PTL DEF Spec
-----------------------------------------------------------------------------
(* Every variable of the reader keeps its type.                              *)
THEOREM TypeCorrect == Spec => []TypeOK
  BY Invariance, PTL DEF IInv

(* Whatever is read, the frequencies of both sweeps are finite and strictly  *)
(* ascending (flush, flush_noise).                                           *)
THEOREM SweepsAscend == Spec => []SweepAscends
  BY Invariance, PTL DEF IInv

(* Noise data is found only behind a two-port sweep and starts at or below   *)
(* its last frequency (at_noise_boundary).                                   *)
THEOREM NoiseIsBehindTheSweep == Spec => []NoiseFollowsTwoPortSweep
  BY Invariance, PTL DEF IInv

(* The odd-count rule never splits a pair across lines (ADR 0006).           *)
THEOREM PairsAreWhole == Spec => []PairsStayTogether
  BY Invariance, PTL DEF IInv

(* No expect, debug_assert or index of the reader can fail.                  *)
THEOREM ReaderNeverPanics == Spec => []NothingPanics
<1>1. IInv => NothingPanics
  BY DEF IInv, NothingPanics, ControlInv, ShapeInv, Flushing, ClosesBlock, TypeOK
<1>. QED
  BY <1>1, Invariance, PTL

(* With the port count known no line leaves a whole set in the block, so an  *)
(* error is noticed on the line that makes it (push_line's eager flush).     *)
THEOREM SetsCloseEagerly == Spec => []BlockStaysShort
<1>1. Init => BlockStaysShort
  BY DEF Init, BlockStaysShort
<1>2. IInv /\ BlockStaysShort /\ [Next]_vars => BlockStaysShort'
  <2> SUFFICES ASSUME IInv, BlockStaysShort, [Next]_vars PROVE BlockStaysShort'
    OBVIOUS
  <2>1. CASE ExtendBlock /\ pc' = "line" /\ nports # None
    <3>1. /\ nports' = nports /\ inNoise' = inNoise /\ ~IsFull(nports, block')
          /\ ExpectedLen(nports) # None
      BY <2>1 DEF ExtendBlock, Fail, Answer
    <3>2. Len(block') \in Nat /\ ExpectedLen(nports) \in Nat /\ nports \in Nat
      <4>1. IInv'
        BY StepPreserves
      <4>2. Len(block') \in Nat
        BY <4>1 DEF IInv, TypeOK
      <4>3. nports \in Nat
        BY <2>1 DEF IInv, TypeOK
      <4>. QED
        BY <3>1, <4>2, <4>3, SizeIsExact DEF ExpectedLen, NoiseValuesPerSet
    <3>3. Len(block') < ExpectedLen(nports)
      BY <3>1, <3>2 DEF IsFull
    <3>. QED
      BY <3>1, <3>2, <3>3, SizeIsExact DEF BlockStaysShort, ExpectedLen, NoiseValuesPerSet
  <2>2. CASE AddPoint \/ BeginNoise \/ AddNoisePoint
    BY <2>2 DEF AddPoint, BeginNoise, AddNoisePoint, BlockStaysShort
  <2>3. CASE \/ SkipEmptyLine \/ TakeOptionLine \/ IgnoreOptionLine \/ RejectKeyword
             \/ TakeDataLine
    BY <2>3 DEF SkipEmptyLine, TakeOptionLine, IgnoreOptionLine, RejectKeyword,
                TakeDataLine, LineIs, Fail, Answer, BlockStaysShort, sets
  <2>4. CASE \/ RejectSet \/ ReachEnd \/ Close
             \/ (ExtendBlock /\ ~(pc' = "line" /\ nports # None))
    BY <2>4 DEF RejectSet, ReachEnd, Close, ExtendBlock, Fail, Answer, BlockStaysShort
  <2>5. CASE Done \/ UNCHANGED vars
    BY <2>5 DEF Done, vars, sets, BlockStaysShort
  <2>. QED
    BY <2>1, <2>2, <2>3, <2>4, <2>5 DEF Next
<1>. QED
  BY <1>1, <1>2, Invariance, PTL DEF Spec

(* Once noise has begun the sweep is closed for good (ADR 0007).             *)
THEOREM SweepClosesForGood == Spec => NoiseIsTerminal
<1>1. [Next]_vars => [inNoise => inNoise' /\ UNCHANGED <<nports, freqHz, s, noiseLine>>]_vars
  <2> SUFFICES ASSUME Next, inNoise
               PROVE  inNoise' /\ UNCHANGED <<nports, freqHz, s, noiseLine>>
    OBVIOUS
  <2>1. CASE \/ SkipEmptyLine \/ TakeOptionLine \/ IgnoreOptionLine \/ RejectKeyword
             \/ TakeDataLine \/ RejectSet \/ ReachEnd \/ Close \/ Done
    BY <2>1 DEF SkipEmptyLine, TakeOptionLine, IgnoreOptionLine, RejectKeyword,
         TakeDataLine, RejectSet, ReachEnd, Close, Done, Fail, sets, vars
  <2>2. CASE ExtendBlock
    BY <2>2 DEF ExtendBlock, Fail, sets
  <2>3. CASE AddPoint \/ BeginNoise \/ AddNoisePoint
    BY <2>3 DEF AddPoint, BeginNoise, AddNoisePoint, ReadsNoise
  <2>. QED
    BY <2>1, <2>2, <2>3 DEF Next
<1>. QED
  BY <1>1, PTL DEF Spec, NoiseIsTerminal
-----------------------------------------------------------------------------
(* The reader implements SweepReader: every step maps to one of its steps or *)
(* changes nothing a caller could see.                                       *)

(* Steps inside the scan that no caller sees.                                *)
LEMMA HiddenSteps ==
    ASSUME UNCHANGED <<hint, nports, freqHz, s, noise, z0>>, pc # "done", pc' # "done"
    PROVE  UNCHANGED Promise!vars
  BY DEF Promise!vars

(* A port count from outside is the reader's from the start and stays.       *)
HintHolds == hint # None => nports = hint

LEMMA HintIsKept ==
    ASSUME IInv, HintHolds, [Next]_vars
    PROVE  HintHolds'
<1>1. CASE AddPoint \/ BeginNoise
  BY <1>1, FlushFacts DEF AddPoint, BeginNoise, HintHolds, input
<1>2. CASE AddNoisePoint \/ ExtendBlock
  BY <1>2 DEF AddNoisePoint, ExtendBlock, Fail, HintHolds, input, sets
<1>3. CASE \/ SkipEmptyLine \/ TakeOptionLine \/ IgnoreOptionLine \/ RejectKeyword
           \/ TakeDataLine \/ RejectSet \/ ReachEnd \/ Close \/ Done
           \/ UNCHANGED vars
  BY <1>3 DEF SkipEmptyLine, TakeOptionLine, IgnoreOptionLine, RejectKeyword,
       TakeDataLine, RejectSet, ReachEnd, Close, Done, Fail, HintHolds, input, sets, vars
<1>. QED
  BY <1>1, <1>2, <1>3 DEF Next

(* An accepted file has one reference for each port of each point.           *)
LEMMA AcceptMaps ==
    ASSUME IInv, Close, freqHz # <<>>, Answer("network", 0), UNCHANGED sets,
           z0' = BroadcastReference(file[optionLine].n, nports, Len(freqHz))
    PROVE  Promise!Accept
<1>1. nports \in Nat /\ Len(freqHz) \in Nat
  BY DEF IInv, TypeOK, ShapeInv
<1>2. Len(freqHz) * nports \in Nat
  BY <1>1
<1>3. Len(z0') = Len(freqHz) * nports
  BY <1>2 DEF BroadcastReference
<1>. QED
  BY <1>3 DEF Close, Answer, sets, input, Promise!Accept

(* Every error is a rejection by the abstract reader.                        *)
LEMMA RejectMaps ==
    ASSUME pc # "done", NEW kind, NEW line, kind # "network", Fail(kind, line),
           UNCHANGED hint
    PROVE  Promise!Reject
  BY DEF Promise!Reject, Fail, Answer, sets, input

(* A flushed frequency point is one whole point of the abstract reader.      *)
LEMMA PointMaps ==
    ASSUME IInv, HintHolds, AddPoint
    PROVE  Promise!AddPoint
<1> DEFINE hz == BlockHz(block)
<1>1. /\ SetPorts \in Nat \ {0} /\ Len(block) = SetPorts * SetPorts * 2 + 1
      /\ Finite(hz) /\ PastLastPoint(hz)
  BY PointPasses
<1>2. /\ hz \in Int /\ block \in Seq(Places) /\ AfterFlush # "done"
      /\ nports # None => SetPorts = nports
  BY FlushFacts DEF AddPoint
<1>3. /\ nports' = SetPorts /\ s' = s \o PushPoint(SetPorts, block)
      /\ freqHz' = Append(freqHz, hz) /\ pc' # "done" /\ pc # "done"
      /\ UNCHANGED <<hint, noise, z0, outcome>> /\ ~inNoise
  BY <1>2 DEF AddPoint, ReadsNoise, Flushing, input
<1>4. Len(s') = Len(s) + nports' * nports'
  <2>1. PushPoint(SetPorts, block) \in Seq(Pairs) /\ s \in Seq(Pairs)
    BY <1>1, <1>2, PointTyped DEF IInv, TypeOK
  <2>2. Len(s') = Len(s) + Len(PushPoint(SetPorts, block))
    BY <1>3, <2>1, ConcatProperties
  <2>3. Len(PushPoint(SetPorts, block)) = SetPorts * SetPorts
    BY <1>1, <1>2, PointTyped
  <2>. QED
    BY <1>3, <2>2, <2>3
<1>5. hz \in -MaxHz..MaxHz
  BY <1>1, <1>2, MaxHzAssumption DEF Finite
<1>6. /\ noise = <<>> /\ Len(noise) = 0
      /\ freqHz' # <<>>
  <2>1. noise = <<>>
    BY <1>3 DEF IInv, NoiseFollowsTwoPortSweep
  <2>2. Len(freqHz') = Len(freqHz) + 1 /\ Len(freqHz) \in Nat
    BY <1>2, <1>3, AppendProperties DEF IInv, TypeOK
  <2>. QED
    BY <2>1, <2>2, EmptySeq
<1>7. \E f \in -MaxHz..MaxHz : Promise!Above(freqHz, f) /\ freqHz' = Append(freqHz, f)
  BY <1>1, <1>3, <1>5 DEF Promise!Above, PastLastPoint
<1>8. freqHz # <<>> => nports # None
  BY DEF IInv, ShapeInv
<1> HIDE DEF hz
<1>. QED
  BY <1>1, <1>2, <1>3, <1>4, <1>6, <1>7, <1>8 DEF Promise!AddPoint, HintHolds

(* A flushed noise set is one noise point of the abstract reader.            *)
LEMMA NoiseMaps ==
    ASSUME IInv, HintHolds, BeginNoise \/ AddNoisePoint
    PROVE  Promise!AddNoisePoint
<1> DEFINE hz == BlockHz(block)
           sweep == [i \in 1..Len(noise) |-> noise[i].hz]
<1>1. /\ Flushing /\ NoiseFault = NoFault
      /\ BeginNoise => AtNoiseBoundary(SetPorts, block)
      /\ AddNoisePoint => inNoise
  BY DEF BeginNoise, AddNoisePoint, SetFault, ReadsNoise, NoFault
<1>2. /\ nports = 2 /\ nports' = nports /\ freqHz' = freqHz /\ s' = s
      /\ noise' = Append(noise, NoisePoint(block))
      /\ pc # "done" /\ pc' # "done" /\ UNCHANGED <<hint, z0>>
  BY <1>1, FlushFacts
     DEF BeginNoise, AddNoisePoint, Flushing, AtNoiseBoundary, IInv, ShapeInv,
         NoiseFollowsTwoPortSweep, input
<1>3. /\ NoisePoint(block) \in NoisePoints /\ NoisePoint(block).hz = hz
      /\ PastLastNoise(hz) /\ Finite(hz) /\ hz \in Int
  BY <1>1, NoiseRowPasses, FlushFacts DEF NoiseFault, NoFault
<1>4. hz \in -MaxHz..MaxHz
  BY <1>3, MaxHzAssumption DEF Finite
<1>5. noise \in Seq(NoisePoints) /\ Len(noise) \in Nat
  BY DEF IInv, TypeOK
<1>6. /\ Len(noise') = Len(noise) + 1
      /\ \A i \in 1..Len(noise) : noise'[i] = noise[i]
      /\ noise'[Len(noise) + 1].hz = hz
  BY <1>2, <1>3, <1>5, AppendProperties
<1>7. sweep \in Seq(Int) /\ Len(sweep) = Len(noise)
  <2>1. \A i \in 1..Len(noise) : noise[i] \in NoisePoints
    BY <1>5, ElementOfSeq
  <2>2. \A i \in 1..Len(noise) : noise[i].hz \in Int
    BY <2>1 DEF NoisePoints
  <2>. QED
    BY <1>5, <2>2
<1>8. [i \in 1..Len(noise') |-> noise'[i].hz] = Append(sweep, hz)
  <2>1. Append(sweep, hz) = [i \in 1..(Len(sweep) + 1) |->
                                IF i = Len(sweep) + 1 THEN hz ELSE sweep[i]]
    BY <1>7
  <2>. QED
    BY <1>5, <1>6, <1>7, <2>1
<1>9. Promise!Above(sweep, hz)
  <2>1. CASE noise = <<>>
    BY <1>7, <2>1, EmptySeq DEF Promise!Above
  <2>2. CASE noise # <<>>
    BY <1>3, <1>5, <1>7, <2>2, EmptySeq DEF Promise!Above, PastLastNoise
  <2>. QED
    BY <2>1, <2>2
<1> HIDE DEF hz
<1>. QED
  BY <1>2, <1>4, <1>8, <1>9 DEF Promise!AddNoisePoint, HintHolds

(* Whatever a caller sees of the scan is a behaviour of SweepReader: points  *)
(* appended whole and ascending, noise only behind two ports, one answer.    *)
THEOREM RefinesSweepReader == Spec => Promise!Init /\ [][Promise!Next]_(Promise!vars)
<1>1. Init => Promise!Init
  BY HintsAssumption DEF Init, Promise!Init
<1>2. IInv /\ HintHolds /\ [Next]_vars => [Promise!Next]_(Promise!vars)
  <2> SUFFICES ASSUME IInv, HintHolds, [Next]_vars PROVE [Promise!Next]_(Promise!vars)
    OBVIOUS
  <2>1. CASE AddPoint
    BY <2>1, PointMaps DEF Promise!Next
  <2>2. CASE BeginNoise \/ AddNoisePoint
    BY <2>2, NoiseMaps DEF Promise!Next
  <2>3. CASE \E kind, line : kind # "network" /\ Fail(kind, line) /\ pc # "done"
             /\ UNCHANGED hint
    BY <2>3, RejectMaps DEF Promise!Next
  <2>4. CASE UNCHANGED <<hint, nports, freqHz, s, noise, z0>>
             /\ pc # "done" /\ pc' # "done"
    BY <2>4, HiddenSteps
  <2>5. CASE Done \/ UNCHANGED vars
    BY <2>5 DEF Done, vars, input, sets, Promise!vars
  <2>6. CASE /\ Close /\ freqHz # <<>> /\ Answer("network", 0) /\ UNCHANGED sets
             /\ z0' = BroadcastReference(file[optionLine].n, nports, Len(freqHz))
    BY <2>6, AcceptMaps DEF Promise!Next
  <2>7. CASE \/ SkipEmptyLine \/ TakeOptionLine \/ IgnoreOptionLine \/ RejectKeyword
             \/ TakeDataLine
    <3>1. pc = "line"
      BY <2>7 DEF SkipEmptyLine, TakeOptionLine, IgnoreOptionLine, RejectKeyword,
                  TakeDataLine, LineIs
    <3>. QED
      BY <2>3, <2>4, <2>7, <3>1
         DEF SkipEmptyLine, TakeOptionLine, IgnoreOptionLine, RejectKeyword,
             TakeDataLine, input, sets
  <2>8. CASE ExtendBlock
    <3>1. pc # "done" /\ (pc' \in {"line", "full"} \/ Fail("UnusablePortCount", pos))
      BY <2>8 DEF ExtendBlock
    <3>. QED
      BY <2>3, <2>4, <2>8, <3>1 DEF ExtendBlock, input
  <2>9. CASE RejectSet
    <3>1. pc # "done" /\ SetFault # "network" /\ Fail(SetFault, blockLine) /\ UNCHANGED hint
      BY <2>9 DEF RejectSet, input, Flushing, SetFault, NoiseFault, PointFault, NoFault
    <3>. QED
      BY <2>3, <3>1
  <2>10. CASE ReachEnd
    BY <2>3, <2>4, <2>10 DEF ReachEnd, input, sets
  <2>11. CASE Close
    BY <2>3, <2>6, <2>11 DEF Close, input
  <2>. QED
    BY <2>1, <2>2, <2>5, <2>7, <2>8, <2>9, <2>10, <2>11 DEF Next
<1>3. Init => HintHolds
  BY DEF Init, HintHolds
<1>. QED
  BY <1>1, <1>2, <1>3, HintIsKept, Invariance, PTL DEF Spec
=============================================================================
