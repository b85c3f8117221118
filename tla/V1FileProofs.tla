----------------------------- MODULE V1FileProofs -----------------------------
(***************************************************************************)
(* What V1Reader's answer says of the whole file, for every file, every    *)
(* hint, every MaxUsize and every MaxHz: which line a rejected set is      *)
(* blamed on, and what an accepted file's references are.                  *)
(***************************************************************************)
EXTENDS V1Grammar, V1Proofs, CountingLemmas

(* The line the scan has got to: the one being pushed is not in the block    *)
(* yet.                                                                      *)
ReadUpTo == IF pc \in {"push", "extend"} THEN pos - 1 ELSE pos

IsData(i) == file[i].kind = "data"

(* An open block holds the data lines from its own up to here, and none of   *)
(* them but the first could have opened a set.  Each that has more than one  *)
(* value has one behind the frequency.                                       *)
OpenBlock ==
    /\ blockLine <= ReadUpTo /\ IsData(blockLine)
    /\ \A i \in (blockLine + 1)..ReadUpTo : IsData(i) => ~Odd(file[i].n)
    /\ \A k \in 1..Len(block) : block[k][1] \in blockLine..ReadUpTo
    /\ \A i \in blockLine..ReadUpTo :
          IsData(i) /\ file[i].n > 1 => \E k \in 2..Len(block) : block[k][1] = i

(* The first line of the file that is not data yet, unless it is no data.    *)
FirstUnread == IF block = <<>> THEN ReadUpTo + 1 ELSE blockLine

(* Until the answer every data line before the block has become data and     *)
(* none from the block on.                                                   *)
BlameInv ==
    pc # "done" =>
        /\ outcome.kind = "reading"
        /\ pc \in {"push", "extend"} => IsData(pos)
        /\ block # <<>> => OpenBlock
        /\ \A i \in LinesRead : i < FirstUnread
        /\ \A i \in 1..(FirstUnread - 1) : IsData(i) /\ file[i].n > 1 => i \in LinesRead
-----------------------------------------------------------------------------
(* LinesRead without its unions.                                             *)
LEMMA LinesReadAre ==
    ASSUME NEW i
    PROVE  i \in LinesRead <=>
             \/ \E j \in 1..Len(s) : s[j][1][1] = i
             \/ \E j \in 1..Len(noise) : \E k \in 1..Len(noise[j].values) :
                   noise[j].values[k][1] = i
  BY DEF LinesRead

(* They are line numbers.                                                    *)
LEMMA LinesReadAreNumbers ==
    ASSUME TypeOK
    PROVE  LinesRead \subseteq Int
<1>1. \A j \in 1..Len(s) : s[j] \in Pairs
  BY ElementOfSeq DEF TypeOK
<1>2. \A j \in 1..Len(s) : s[j][1][1] \in Int
  BY <1>1 DEF Pairs, Places
<1>3. \A j \in 1..Len(noise) : noise[j] \in NoisePoints
  BY ElementOfSeq DEF TypeOK
<1>4. \A j \in 1..Len(noise) : \A k \in 1..Len(noise[j].values) :
         noise[j].values[k] \in Places
  BY <1>3, ElementOfSeq DEF NoisePoints
<1>. QED
  BY <1>2, <1>4, LinesReadAre DEF Places

(* Lines taken without touching the sets, none of them data.                 *)
LEMMA ScanGoesOn ==
    ASSUME IInv, BlameInv, pc # "done", UNCHANGED <<input, sets, outcome>>,
           pos' \in Nat,
           \/ ReadUpTo' = ReadUpTo
           \/ ReadUpTo' = ReadUpTo + 1 /\ ~IsData(ReadUpTo + 1),
           pc' \in {"push", "extend"} => IsData(pos')
    PROVE  BlameInv'
<1>1. pos \in Nat /\ ReadUpTo \in Int /\ blockLine \in Nat
  BY DEF IInv, TypeOK, ReadUpTo
<1>2. PICK r \in Int : r = ReadUpTo'
  BY <1>1
<1>3. LinesRead' = LinesRead /\ block' = block /\ blockLine' = blockLine /\ file' = file
  BY DEF LinesRead, sets, input
<1>4. (block # <<>> => OpenBlock)'
  <2>1. SUFFICES ASSUME block # <<>> PROVE OpenBlock'
    BY <1>3
  <2>2. OpenBlock
    BY <2>1 DEF BlameInv
  <2>3. r >= ReadUpTo /\ \A i \in (ReadUpTo + 1)..r : ~IsData(i)
    BY <1>1, <1>2
  <2>4. blockLine <= r /\ IsData(blockLine)
    BY <1>1, <2>2, <2>3 DEF OpenBlock
  <2>5. \A i \in (blockLine + 1)..r : IsData(i) => ~Odd(file[i].n)
    BY <1>1, <2>2, <2>3 DEF OpenBlock
  <2>6. \A k \in 1..Len(block) : block[k][1] \in blockLine..r
    BY <1>1, <2>2, <2>3 DEF OpenBlock
  <2>7. \A i \in blockLine..r :
          IsData(i) /\ file[i].n > 1 => \E k \in 2..Len(block) : block[k][1] = i
    BY <1>1, <2>2, <2>3 DEF OpenBlock
  <2>. QED
    BY <1>2, <1>3, <2>4, <2>5, <2>6, <2>7 DEF OpenBlock, IsData
<1>5. PICK first \in Int : first = FirstUnread'
  <2>1. FirstUnread' = IF block = <<>> THEN r + 1 ELSE blockLine
    BY <1>2, <1>3 DEF FirstUnread
  <2>2. FirstUnread' \in Int
    <3>1. CASE block = <<>>
      BY <2>1, <3>1
    <3>2. CASE block # <<>>
      BY <1>1, <2>1, <3>2
    <3>. QED
      BY <3>1, <3>2
  <2>. QED
    BY <2>2
<1>6. /\ first >= FirstUnread
      /\ \A i \in FirstUnread..(first - 1) : ~IsData(i)
  <2>1. first = IF block = <<>> THEN r + 1 ELSE blockLine
    BY <1>2, <1>3, <1>5 DEF FirstUnread
  <2>2. FirstUnread = IF block = <<>> THEN ReadUpTo + 1 ELSE blockLine
    BY DEF FirstUnread
  <2>3. r = ReadUpTo \/ (r = ReadUpTo + 1 /\ ~IsData(r))
    BY <1>1, <1>2
  <2>4. CASE block = <<>>
    <3>1. \A i \in (ReadUpTo + 1)..r : i = r /\ r = ReadUpTo + 1
      BY <1>1, <2>3
    <3>. QED
      BY <1>1, <2>1, <2>2, <2>3, <2>4, <3>1
  <2>5. CASE block # <<>>
    BY <1>1, <2>1, <2>2, <2>5
  <2>. QED
    BY <2>4, <2>5
<1>7. FirstUnread \in Int /\ LinesRead \subseteq Int
  BY <1>1, LinesReadAreNumbers DEF FirstUnread, IInv
<1>8. /\ \A i \in LinesRead : i < first
      /\ \A i \in 1..(first - 1) : IsData(i) /\ file[i].n > 1 => i \in LinesRead
  BY <1>6, <1>7 DEF BlameInv
<1>. QED
  BY <1>3, <1>4, <1>5, <1>8 DEF BlameInv, IsData

(* A set that became data took its lines with it: every line of the block,   *)
(* and no other.                                                             *)
LEMMA BlockBecomesData ==
    ASSUME IInv, BlameInv, Flushing, block' = <<>>, pc' = AfterFlush,
           UNCHANGED <<input, pos, outcome>>,
           \A i : i \in LinesRead' <=> \/ i \in LinesRead
                                       \/ \E k \in 2..Len(block) : block[k][1] = i
    PROVE  BlameInv'
<1>1. pos \in Nat /\ ReadUpTo \in Int /\ blockLine \in Nat /\ block # <<>> /\ pc # "done"
  BY FlushFacts, SMTT(30) DEF IInv, TypeOK, ReadUpTo, Flushing
<1>2. OpenBlock
  BY <1>1 DEF BlameInv
<1>3. ReadUpTo' = ReadUpTo /\ FirstUnread' = ReadUpTo + 1 /\ FirstUnread = blockLine
  BY <1>1 DEF ReadUpTo, FirstUnread, Flushing, AfterFlush
<1>4. pc' \in {"push", "extend"} => IsData(pos)
  BY DEF BlameInv, Flushing, AfterFlush
<1>5. \A i \in LinesRead' : i < ReadUpTo + 1
  <2>1. SUFFICES ASSUME NEW i \in LinesRead' PROVE i < ReadUpTo + 1
    OBVIOUS
  <2>2. CASE i \in LinesRead
    <3>1. i < blockLine /\ blockLine <= ReadUpTo
      BY <1>1, <1>2, <1>3, <2>2 DEF BlameInv, OpenBlock
    <3>2. i \in Int
      BY <2>2, LinesReadAreNumbers DEF IInv
    <3>. QED
      BY <1>1, <3>1, <3>2
  <2>3. CASE i \notin LinesRead
    <3>1. PICK k \in 2..Len(block) : block[k][1] = i
      BY <2>1, <2>3
    <3>2. i \in blockLine..ReadUpTo
      BY <1>2, <3>1 DEF OpenBlock
    <3>. QED
      BY <1>1, <3>2
  <2>. QED
    BY <2>2, <2>3
<1>6. \A i \in 1..ReadUpTo : IsData(i) /\ file[i].n > 1 => i \in LinesRead'
  <2>1. SUFFICES ASSUME NEW i \in 1..ReadUpTo, IsData(i), file[i].n > 1
                 PROVE  i \in LinesRead'
    OBVIOUS
  <2>2. CASE i < blockLine
    BY <1>1, <1>3, <2>1, <2>2 DEF BlameInv
  <2>3. CASE i >= blockLine
    BY <1>1, <1>2, <2>1, <2>3 DEF OpenBlock
  <2>. QED
    BY <1>1, <2>2, <2>3
<1>7. PICK r \in Int : r = ReadUpTo
  BY <1>1
<1>8. FirstUnread' = r + 1 /\ (FirstUnread' - 1) = r /\ file' = file /\ pos' = pos
  BY <1>3, <1>7 DEF input
<1>9. outcome'.kind = "reading"
  BY <1>1 DEF BlameInv
<1>. QED
  BY <1>4, <1>5, <1>6, <1>7, <1>8, <1>9 DEF BlameInv, IsData

(* A line gave a point a pair just when it gave the block more than the      *)
(* frequency.                                                                *)
TakesTheBlock(n, b) ==
    \A line : (\E j \in 1..(n * n) : PushPoint(n, b)[j][1][1] = line)
                <=> (\E k \in 2..Len(b) : b[k][1] = line)

AllWhole(b) == \A i \in 1..Len(b) : WholePair(b, i)

(* The lines of the pairs a point takes are the block's, its frequency's     *)
(* line if it has another value.                                             *)
LEMMA PointTakesTheBlock ==
    ASSUME NEW n \in Nat \ {0}, NEW b \in Seq(Places), Len(b) = n * n * 2 + 1,
           AllWhole(b)
    PROVE  TakesTheBlock(n, b)
<1> SUFFICES ASSUME NEW line
             PROVE  (\E j \in 1..(n * n) : PushPoint(n, b)[j][1][1] = line)
                      <=> (\E k \in 2..Len(b) : b[k][1] = line)
  BY DEF TakesTheBlock
<1>1. PICK size \in Nat : size = n * n
  OBVIOUS
<1>2. Len(b) = size * 2 + 1 /\ (n = 2 => size = 4)
  BY <1>1
<1>3. \A j \in 1..size : FileOrder(n, j) \in 1..size
  BY <1>2 DEF FileOrder
<1>4. \A i \in 1..size : \E j \in 1..size : FileOrder(n, j) = i
  <2>1. CASE n # 2
    BY <2>1 DEF FileOrder
  <2>2. CASE n = 2
    <3>1. /\ FileOrder(n, 1) = 1 /\ FileOrder(n, 2) = 3
          /\ FileOrder(n, 3) = 2 /\ FileOrder(n, 4) = 4
      BY <2>2 DEF FileOrder
    <3>. QED
      BY <1>2, <2>2, <3>1
  <2>. QED
    BY <2>1, <2>2
<1>5. \A j \in 1..size : PushPoint(n, b)[j][1] = b[2 * FileOrder(n, j)]
  BY <1>1 DEF PushPoint, Pair
<1>6. ASSUME NEW j \in 1..size, PushPoint(n, b)[j][1][1] = line
      PROVE  \E k \in 2..Len(b) : b[k][1] = line
  <2>1. PICK i \in 1..size : i = FileOrder(n, j)
    BY <1>3
  <2>2. 2 * i \in 2..Len(b) /\ b[2 * i][1] = line
    BY <1>2, <1>5, <1>6, <2>1
  <2>. QED
    BY <2>2
<1>7. ASSUME NEW k \in 2..Len(b), b[k][1] = line
      PROVE  \E j \in 1..size : PushPoint(n, b)[j][1][1] = line
  <2>1. PICK i \in 1..size : k = 2 * i \/ k = 2 * i + 1
    <3>1. k \div 2 \in 1..size /\ (k = 2 * (k \div 2) \/ k = 2 * (k \div 2) + 1)
      BY <1>2
    <3>. QED
      BY <3>1
  <2>2. b[2 * i][1] = line
    <3>1. 2 * i \in 1..Len(b) /\ (2 * i) % 2 = 0
      BY <1>2
    <3>2. b[2 * i + 1] = <<b[2 * i][1], b[2 * i][2] + 1>>
      BY <3>1 DEF AllWhole, WholePair
    <3>. QED
      BY <1>7, <2>1, <3>2
  <2>3. PICK j \in 1..size : FileOrder(n, j) = i
    BY <1>4
  <2>. QED
    BY <1>5, <2>2, <2>3
<1>. QED
  BY <1>1, <1>6, <1>7

(* A point's lines become data (push_point).                                 *)
LEMMA PointKeepsBlame ==
    ASSUME IInv, BlameInv, AddPoint
    PROVE  BlameInv'
<1>0. PICK n : n = SetPorts
  OBVIOUS
<1> DEFINE point == PushPoint(n, block)
<1>1. /\ n \in Nat \ {0} /\ Len(block) = n * n * 2 + 1
      /\ block \in Seq(Places)
  BY <1>0, PointPasses, FlushFacts DEF AddPoint
<1>2. \A i \in 1..Len(block) : WholePair(block, i)
  <2>1. n * n \in Nat
    BY <1>1
  <2>2. Odd(Len(block))
    BY <1>1, <2>1 DEF Odd
  <2>. QED
    BY <2>2 DEF IInv, PairInv
<1>3. /\ s' = s \o point /\ noise' = noise /\ block' = <<>> /\ pc' = AfterFlush
      /\ UNCHANGED <<input, pos, outcome>> /\ Flushing
  BY <1>0 DEF AddPoint
<1>4. point \in Seq(Pairs) /\ Len(point) = n * n
  BY <1>1, PointTyped
<1>5. ASSUME NEW line
      PROVE  (\E j \in 1..(n * n) : point[j][1][1] = line)
               <=> (\E k \in 2..Len(block) : block[k][1] = line)
  <2>1. AllWhole(block)
    BY <1>2 DEF AllWhole
  <2>2. TakesTheBlock(n, block)
    BY <1>1, <2>1, PointTakesTheBlock
  <2>. QED
    BY <2>2 DEF TakesTheBlock
<1> HIDE DEF point
<1>6. /\ Len(s') = Len(s) + Len(point) /\ Len(s) \in Nat /\ Len(point) \in Nat
      /\ \A j \in 1..(Len(s) + Len(point)) :
            s'[j] = IF j <= Len(s) THEN s[j] ELSE point[j - Len(s)]
  BY <1>3, <1>4, ConcatProperties, LenProperties DEF IInv, TypeOK
<1>7. ASSUME NEW i
      PROVE  (\E j \in 1..Len(s') : s'[j][1][1] = i)
               <=> \/ \E j \in 1..Len(s) : s[j][1][1] = i
                   \/ \E j \in 1..Len(point) : point[j][1][1] = i
  <2>1. ASSUME NEW j \in 1..Len(s'), s'[j][1][1] = i
        PROVE  \/ \E l \in 1..Len(s) : s[l][1][1] = i
               \/ \E l \in 1..Len(point) : point[l][1][1] = i
    BY <1>6, <2>1
  <2>2. ASSUME NEW j \in 1..Len(s)
        PROVE  j \in 1..Len(s') /\ s'[j] = s[j]
    BY <1>6
  <2>3. ASSUME NEW j \in 1..Len(point)
        PROVE  Len(s) + j \in 1..Len(s') /\ s'[Len(s) + j] = point[j]
    BY <1>6
  <2>. QED
    BY <2>1, <2>2, <2>3
<1>8. ASSUME NEW i
      PROVE  i \in LinesRead' <=> \/ i \in LinesRead
                                 \/ \E k \in 2..Len(block) : block[k][1] = i
  <2>1. i \in LinesRead' <=>
             \/ \E j \in 1..Len(s') : s'[j][1][1] = i
             \/ \E j \in 1..Len(noise') : \E k \in 1..Len(noise'[j].values) :
                   noise'[j].values[k][1] = i
    BY DEF LinesRead
  <2> DEFINE InBlock == \E k \in 2..Len(block) : block[k][1] = i
             InPoint == \E j \in 1..Len(point) : point[j][1][1] = i
             InNoise == \E j \in 1..Len(noise) : \E k \in 1..Len(noise[j].values) :
                           noise[j].values[k][1] = i
             InSweep == \E j \in 1..Len(s) : s[j][1][1] = i
  <2>2. i \in LinesRead' <=> InSweep \/ InPoint \/ InNoise
    BY <1>3, <1>7, <2>1
  <2>3. InPoint <=> InBlock
    BY <1>4, <1>5
  <2>4. i \in LinesRead <=> InSweep \/ InNoise
    BY LinesReadAre
  <2> HIDE DEF InBlock, InPoint, InNoise, InSweep
  <2>5. i \in LinesRead' <=> i \in LinesRead \/ InBlock
    BY <2>2, <2>3, <2>4
  <2>. QED
    BY <2>5 DEF InBlock
<1>. QED
  BY <1>3, <1>8, BlockBecomesData

(* A noise row's lines become data (flush_noise).                            *)
LEMMA NoiseKeepsBlame ==
    ASSUME IInv, BlameInv, BeginNoise \/ AddNoisePoint
    PROVE  BlameInv'
<1>1. /\ Flushing /\ NoiseFault = NoFault
  BY DEF BeginNoise, AddNoisePoint, SetFault, ReadsNoise, NoFault
<1>2. /\ noise' = Append(noise, NoisePoint(block)) /\ s' = s /\ block' = <<>>
      /\ pc' = AfterFlush /\ UNCHANGED <<input, pos, outcome>>
  BY DEF BeginNoise, AddNoisePoint
<1>3. block \in Seq(Places) /\ Len(block) = 5 /\ noise \in Seq(NoisePoints)
  BY <1>1, FlushFacts, NoiseRowPasses DEF NoiseValuesPerSet, IInv, TypeOK
<1>4. /\ Len(noise') = Len(noise) + 1 /\ Len(noise) \in Nat
      /\ \A j \in 1..Len(noise) : noise'[j] = noise[j]
      /\ noise'[Len(noise) + 1] = NoisePoint(block)
  BY <1>1, <1>2, <1>3, NoiseRowPasses, AppendProperties, LenProperties
<1>5. /\ Len(NoisePoint(block).values) = 4
      /\ \A k \in 1..4 : NoisePoint(block).values[k] = block[k + 1]
  BY <1>3 DEF NoisePoint, NoiseValuesPerSet
<1>6. ASSUME NEW i
      PROVE  (\E k \in 1..Len(NoisePoint(block).values) : NoisePoint(block).values[k][1] = i)
               <=> (\E k \in 2..Len(block) : block[k][1] = i)
  <2>1. ASSUME NEW k \in 2..Len(block)
        PROVE  k - 1 \in 1..4 /\ NoisePoint(block).values[k - 1] = block[k]
    BY <1>3, <1>5
  <2>2. ASSUME NEW k \in 1..4
        PROVE  k + 1 \in 2..Len(block)
    BY <1>3
  <2>. QED
    BY <1>5, <2>1, <2>2
<1>7. ASSUME NEW i
      PROVE  i \in LinesRead' <=> \/ i \in LinesRead
                                 \/ \E k \in 2..Len(block) : block[k][1] = i
  <2>1. i \in LinesRead' <=>
             \/ \E j \in 1..Len(s') : s'[j][1][1] = i
             \/ \E j \in 1..Len(noise') : \E k \in 1..Len(noise'[j].values) :
                   noise'[j].values[k][1] = i
    BY DEF LinesRead
  <2>2. (\E j \in 1..Len(noise') : \E k \in 1..Len(noise'[j].values) :
                   noise'[j].values[k][1] = i)
          <=> \/ \E j \in 1..Len(noise) : \E k \in 1..Len(noise[j].values) :
                   noise[j].values[k][1] = i
              \/ \E k \in 1..Len(NoisePoint(block).values) :
                   NoisePoint(block).values[k][1] = i
    <3>1. \A j : j \in 1..Len(noise') <=> j \in 1..Len(noise) \/ j = Len(noise) + 1
      BY <1>4
    <3>. QED
      BY <1>4, <3>1
  <2>. QED
    <3> DEFINE InBlock == \E k \in 2..Len(block) : block[k][1] = i
               InRow == \E k \in 1..Len(NoisePoint(block).values) :
                           NoisePoint(block).values[k][1] = i
               InNoise == \E j \in 1..Len(noise) : \E k \in 1..Len(noise[j].values) :
                             noise[j].values[k][1] = i
               InSweep == \E j \in 1..Len(s) : s[j][1][1] = i
    <3>1. i \in LinesRead' <=> InSweep \/ InNoise \/ InRow
      BY <1>2, <2>1, <2>2
    <3>2. InRow <=> InBlock
      BY <1>6
    <3>3. i \in LinesRead <=> InSweep \/ InNoise
      BY LinesReadAre
    <3> HIDE DEF InBlock, InRow, InNoise, InSweep
    <3>4. i \in LinesRead' <=> i \in LinesRead \/ InBlock
      BY <3>1, <3>2, <3>3
    <3>. QED
      BY <3>4 DEF InBlock
<1>. QED
  BY <1>1, <1>2, <1>7, BlockBecomesData

(* A data line is appended to the block it belongs to (push_line).           *)
LEMMA ExtendKeepsBlame ==
    ASSUME IInv, BlameInv, ExtendBlock
    PROVE  BlameInv'
<1>1. CASE pc' = "done"
  BY <1>1 DEF BlameInv
<1>2. CASE pc' # "done"
  <2>1. /\ pos \in 1..Len(file) /\ pos \in Nat /\ blockLine \in Nat
        /\ block = <<>> \/ ~Odd(file[pos].n)
        /\ pc # "done" /\ outcome.kind = "reading" /\ ReadUpTo = pos - 1 /\ IsData(pos)
    BY DEF ExtendBlock, ClosesBlock, IInv, ControlInv, TypeOK, ReadUpTo, BlameInv
  <2>2. /\ block' = block \o Values(pos) /\ blockLine' = OpenedOn
        /\ pc' \in {"line", "full"}
        /\ UNCHANGED <<input, pos, s, noise, outcome>>
    BY <1>2 DEF ExtendBlock, Fail, Answer
  <2>3. /\ block \in Seq(Places) /\ Values(pos) \in Seq(Places)
        /\ Len(Values(pos)) = file[pos].n /\ file[pos].n \in Nat \ {0}
        /\ \A i \in 1..file[pos].n : Values(pos)[i] = <<pos, i>>
    BY <2>1, ValuesTyped DEF IInv, TypeOK
  <2>4. /\ Len(block') = Len(block) + file[pos].n /\ Len(block) \in Nat
        /\ \A k \in 1..Len(block) : block'[k] = block[k]
        /\ \A k \in 1..file[pos].n : block'[Len(block) + k] = <<pos, k>>
        /\ block' # <<>>
    <3> DEFINE v == Values(pos)
    <3>1. /\ block' \in Seq(Places) /\ Len(block') = Len(block) + Len(v)
          /\ Len(block) \in Nat /\ Len(v) \in Nat \ {0}
          /\ \A k \in 1..(Len(block) + Len(v)) :
                block'[k] = IF k <= Len(block) THEN block[k] ELSE v[k - Len(block)]
      BY <2>2, <2>3, ConcatProperties, LenProperties
    <3> HIDE DEF v
    <3>2. \A k \in 1..Len(v) : /\ Len(block) + k \in 1..(Len(block) + Len(v))
                               /\ ~(Len(block) + k <= Len(block))
                               /\ (Len(block) + k) - Len(block) = k
      BY <3>1
    <3>3. \A k \in 1..Len(v) : block'[Len(block) + k] = v[k]
      BY <3>1, <3>2
    <3>4. Len(v) = file[pos].n /\ \A k \in 1..Len(v) : v[k] = <<pos, k>>
      BY <2>3 DEF v
    <3>5. Len(block') # 0 /\ \A k \in 1..Len(block) : block'[k] = block[k]
      BY <3>1
    <3>6. \A k \in 1..Len(v) : block'[Len(block) + k] = <<pos, k>>
      BY <3>3, <3>4
    <3>. QED
      BY <3>1, <3>4, <3>5, <3>6, EmptySeq
  <2>5. /\ ReadUpTo' = pos /\ FirstUnread' = blockLine' /\ LinesRead' = LinesRead
        /\ file' = file
    BY <2>2, <2>4 DEF ReadUpTo, FirstUnread, LinesRead, input
  <2>6. blockLine' \in Nat /\ FirstUnread = blockLine'
    BY <2>1, <2>2 DEF OpenedOn, FirstUnread
  <2>7. block # <<>> => OpenBlock /\ blockLine' = blockLine
    BY <2>1, <2>2 DEF BlameInv, OpenedOn
  <2>8. blockLine' <= pos /\ IsData(blockLine')
    BY <2>1, <2>2, <2>7 DEF OpenBlock, OpenedOn
  <2>9. \A i \in (blockLine' + 1)..pos : IsData(i) => ~Odd(file[i].n)
    <3>1. CASE block = <<>>
      BY <2>1, <2>2, <3>1 DEF OpenedOn
    <3>2. CASE block # <<>>
      BY <2>1, <2>7, <3>2 DEF OpenBlock
    <3>. QED
      BY <3>1, <3>2
  <2>10. \A k \in 1..Len(block') : block'[k][1] \in blockLine'..pos
    <3>1. SUFFICES ASSUME NEW k \in 1..Len(block') PROVE block'[k][1] \in blockLine'..pos
      OBVIOUS
    <3>2. CASE k \in 1..Len(block)
      <4>1. block # <<>>
        BY <3>2, EmptySeq
      <4>2. block[k][1] \in blockLine..(pos - 1)
        BY <2>1, <2>7, <3>2, <4>1 DEF OpenBlock
      <4>. QED
        BY <2>1, <2>4, <2>7, <3>2, <4>1, <4>2
    <3>3. CASE k \notin 1..Len(block)
      <4>1. k - Len(block) \in 1..file[pos].n /\ Len(block) + (k - Len(block)) = k
        BY <2>3, <2>4, <3>3
      <4>2. block'[k] = <<pos, k - Len(block)>>
        BY <2>4, <4>1
      <4>. QED
        BY <2>1, <2>6, <2>8, <4>2
    <3>. QED
      BY <3>2, <3>3
  <2>11. \A i \in blockLine'..pos :
            IsData(i) /\ file[i].n > 1 => \E k \in 2..Len(block') : block'[k][1] = i
    <3>1. SUFFICES ASSUME NEW i \in blockLine'..pos, IsData(i), file[i].n > 1
                   PROVE  \E k \in 2..Len(block') : block'[k][1] = i
      OBVIOUS
    <3>2. CASE i = pos
      <4>1. Len(block) + 2 \in 2..Len(block') /\ block'[Len(block) + 2] = <<pos, 2>>
        BY <2>3, <2>4, <3>1, <3>2, SMTT(30)
      <4>. QED
        BY <3>2, <4>1
    <3>3. CASE i # pos
      <4>1. block # <<>> /\ i \in blockLine..ReadUpTo
        BY <2>1, <2>2, <2>7, <3>3 DEF OpenedOn
      <4>2. PICK k \in 2..Len(block) : block[k][1] = i
        BY <2>7, <3>1, <4>1 DEF OpenBlock
      <4>3. k \in 1..Len(block) /\ k \in 2..Len(block')
        BY <2>3, <2>4, <4>2
      <4>. QED
        BY <2>4, <4>2, <4>3
    <3>. QED
      BY <3>2, <3>3
  <2>12. OpenBlock'
    BY <2>5, <2>8, <2>9, <2>10, <2>11 DEF OpenBlock, IsData
  <2>13. /\ \A i \in LinesRead : i < blockLine'
         /\ \A i \in 1..(blockLine' - 1) : IsData(i) /\ file[i].n > 1 => i \in LinesRead
    BY <2>1, <2>6 DEF BlameInv
  <2>14. outcome'.kind = "reading"
    BY <2>1, <2>2
  <2>. QED
    BY <2>2, <2>5, <2>12, <2>13, <2>14 DEF BlameInv, IsData
<1>. QED
  BY <1>1, <1>2

(* Every step keeps the account of what has been read.                       *)
LEMMA StepKeepsBlame == IInv /\ BlameInv /\ [Next]_vars => BlameInv'
<1> SUFFICES ASSUME IInv, BlameInv, [Next]_vars PROVE BlameInv'
  OBVIOUS
<1>1. CASE pc' = "done"
  BY <1>1 DEF BlameInv
<1>2. CASE pc' # "done" /\ \/ SkipEmptyLine \/ TakeOptionLine \/ IgnoreOptionLine
                           \/ RejectKeyword \/ TakeDataLine
  <2>1. /\ pc = "line" /\ pos \in Nat /\ pos' = pos + 1
    BY <1>2 DEF SkipEmptyLine, TakeOptionLine, IgnoreOptionLine, RejectKeyword,
                TakeDataLine, LineIs, NextLine, IInv, TypeOK
  <2>2. /\ UNCHANGED <<input, sets, outcome>>
        /\ \/ pc' = "line" /\ ~IsData(pos + 1)
           \/ pc' = "push" /\ IsData(pos + 1)
    <3>0. pc' # "done"
      BY <1>2
    <3>1. CASE SkipEmptyLine \/ IgnoreOptionLine
      BY <3>1 DEF SkipEmptyLine, IgnoreOptionLine, LineIs, NextLine, IsData
    <3>2. CASE TakeOptionLine
      <4>1. UNCHANGED <<input, pc, sets, z0, outcome>>
        BY <3>0, <3>2 DEF TakeOptionLine, Fail, Answer
      <4>. QED
        BY <2>1, <3>2, <4>1 DEF TakeOptionLine, LineIs, NextLine, IsData
    <3>3. CASE RejectKeyword
      BY <3>0, <3>3 DEF RejectKeyword, Fail, Answer
    <3>4. CASE TakeDataLine
      <4>1. pc' = "push" /\ UNCHANGED <<input, sets, z0, outcome>>
        BY <3>0, <3>4 DEF TakeDataLine, Fail, Answer
      <4>. QED
        BY <3>4, <4>1 DEF TakeDataLine, LineIs, NextLine, IsData
    <3>. QED
      BY <1>2, <3>1, <3>2, <3>3, <3>4
  <2>3. ReadUpTo = pos /\ ReadUpTo' = IF pc' = "push" THEN pos ELSE pos + 1
    BY <2>1, <2>2 DEF ReadUpTo
  <2>. QED
    BY <2>1, <2>2, <2>3, ScanGoesOn
<1>3. CASE ExtendBlock
  BY <1>3, ExtendKeepsBlame
<1>4. CASE AddPoint
  BY <1>4, PointKeepsBlame
<1>5. CASE BeginNoise \/ AddNoisePoint
  BY <1>5, NoiseKeepsBlame
<1>6. CASE RejectSet \/ Close
  BY <1>1, <1>6 DEF RejectSet, Close, Fail, Answer
<1>7. CASE ReachEnd /\ pc' # "done"
  <2>1. /\ pc = "line" /\ pc' \in {"close", "last"} /\ UNCHANGED <<input, sets, pos, outcome>>
        /\ pos \in Nat
    BY <1>7 DEF ReachEnd, Fail, Answer, IInv, TypeOK
  <2>2. ReadUpTo' = ReadUpTo
    BY <2>1 DEF ReadUpTo
  <2>. QED
    BY <2>1, <2>2, ScanGoesOn
<1>8. CASE Done \/ UNCHANGED vars
  <2>1. UNCHANGED vars
    BY <1>8 DEF Done
  <2>. QED
    BY <2>1 DEF vars, input, sets, BlameInv, IsData, FirstUnread, ReadUpTo, OpenBlock,
                LinesRead
<1>. QED
  BY <1>1, <1>2, <1>3, <1>4, <1>5, <1>6, <1>7, <1>8 DEF Next

(* Before the first line nothing has been read.                              *)
LEMMA InitBlames == Init => BlameInv /\ BlamesTheSetItRejects
<1> SUFFICES ASSUME Init PROVE BlameInv /\ BlamesTheSetItRejects
  OBVIOUS
<1>1. LinesRead = {} /\ ReadUpTo = 0 /\ FirstUnread = 1 /\ outcome.kind = "reading"
  BY DEF Init, LinesRead, ReadUpTo, FirstUnread
<1>. QED
  BY <1>1 DEF Init, BlameInv, BlamesTheSetItRejects, SetFaults

(* A rejected set is blamed on the line it opened on: all data before that   *)
(* line was read, none from it on, and no line between it and the one being  *)
(* read could have opened another (flush's errors at block_line).            *)
THEOREM BlameIsRight == Spec => []BlamesTheSetItRejects
<1>1. ASSUME IInv, BlameInv, BlamesTheSetItRejects, [Next]_vars
      PROVE  BlamesTheSetItRejects'
  <2>1. CASE RejectSet
    <3>1. /\ Flushing /\ outcome'.line = blockLine
          /\ UNCHANGED <<input, pos, sets>>
      BY <2>1 DEF RejectSet, Fail, Answer
    <3>2. block # <<>> /\ blockLine \in 1..Len(file) /\ pc # "done"
      BY <1>1, <3>1, FlushFacts DEF Flushing
    <3>3. /\ OpenBlock /\ FirstUnread = blockLine
          /\ \A i \in LinesRead : i < blockLine
          /\ \A i \in 1..(blockLine - 1) : IsData(i) /\ file[i].n > 1 => i \in LinesRead
      BY <1>1, <3>2 DEF BlameInv, FirstUnread
    <3>4. pos \in Nat /\ ReadUpTo \in {pos, pos - 1} /\ blockLine \in Nat
      BY <1>1, <3>2 DEF ReadUpTo, IInv, TypeOK
    <3>5. /\ blockLine \in 1..pos /\ IsData(blockLine)
          /\ \A i \in (blockLine + 1)..(pos - 1) : IsData(i) => ~Odd(file[i].n)
      BY <3>2, <3>3, <3>4 DEF OpenBlock
    <3>6. LinesRead' = LinesRead /\ file' = file /\ pos' = pos
      BY <3>1 DEF LinesRead, sets, input
    <3>. QED
      BY <3>1, <3>3, <3>5, <3>6 DEF BlamesTheSetItRejects, IsData
  <2>2. CASE UNCHANGED vars \/ Done
    BY <2>2, <1>1, SMTT(30) DEF Done, vars, input, sets, BlamesTheSetItRejects, LinesRead
  <2>3. CASE \/ SkipEmptyLine \/ TakeOptionLine \/ IgnoreOptionLine \/ RejectKeyword
             \/ TakeDataLine \/ ExtendBlock \/ ReachEnd \/ Close
    <3>1. pc # "done"
      BY <2>3 DEF SkipEmptyLine, TakeOptionLine, IgnoreOptionLine, RejectKeyword,
                  TakeDataLine, ExtendBlock, ReachEnd, Close, LineIs
    <3>2. outcome.kind = "reading"
      BY <1>1, <3>1 DEF BlameInv
    <3>3. outcome' = outcome \/ outcome'.kind \in LineFaults \cup {"network"}
      BY <2>3 DEF SkipEmptyLine, TakeOptionLine, IgnoreOptionLine, RejectKeyword,
                  TakeDataLine, ExtendBlock, ReachEnd, Close, Fail, Answer, LineFaults
    <3>. QED
      BY <3>2, <3>3 DEF BlamesTheSetItRejects, SetFaults, LineFaults
  <2>4. CASE AddPoint \/ BeginNoise \/ AddNoisePoint
    <3>1. pc # "done" /\ outcome' = outcome
      BY <2>4 DEF AddPoint, BeginNoise, AddNoisePoint, Flushing
    <3>. QED
      BY <1>1, <3>1 DEF BlameInv, BlamesTheSetItRejects, SetFaults
  <2>. QED
    BY <1>1, <2>1, <2>2, <2>3, <2>4 DEF Next
<1>. QED
  BY <1>1, InitBlames, StepKeepsBlame, Invariance, PTL DEF Spec
-----------------------------------------------------------------------------
(* What has been kept of the lines above the data: no data line has been     *)
(* read just while the reader would still keep a comment.                    *)
HeaderInv ==
    /\ pc # "done" => (BeforeAnyData <=> \A i \in 1..ReadUpTo : ~IsData(i))
    /\ \A i, j \in 1..Len(comments) : i < j => comments[i] < comments[j]
    /\ \A i : i \in {comments[k] : k \in 1..Len(comments)}
                <=> /\ i \in 1..pos
                    /\ file[i].kind = "comment"
                    /\ \A j \in 1..i : ~IsData(j)
    /\ pc \in {"last", "close"} => pos = Len(file)
    /\ outcome.kind = "network" => pc = "done" /\ pos = Len(file)

(* The reader keeps a comment just when no data line stands above it.        *)
LEMMA SkipKeepsHeader ==
    ASSUME IInv, HeaderInv, SkipEmptyLine
    PROVE  HeaderInv'
<1>1. /\ pc = "line" /\ pos \in Nat /\ pos < Len(file) /\ pos' = pos + 1 /\ pc' = pc
      /\ ReadUpTo = pos /\ ReadUpTo' = pos + 1 /\ ~IsData(pos + 1) /\ Len(file) \in Nat
      /\ UNCHANGED <<file, block, freqHz, outcome>>
      /\ comments' = IF file[pos + 1].kind = "comment" /\ BeforeAnyData
                     THEN Append(comments, pos + 1)
                     ELSE comments
  <2>1. NextLine = pos + 1
    BY DEF NextLine
  <2>2. pc = "line" /\ pos < Len(file) /\ file[pos + 1].kind \in {"comment", "blank"}
    BY <2>1 DEF SkipEmptyLine, LineIs
  <2>3. /\ pos' = pos + 1 /\ pc' = pc
        /\ UNCHANGED <<file, block, freqHz, outcome>>
        /\ comments' = IF file[pos + 1].kind = "comment" /\ BeforeAnyData
                       THEN Append(comments, pos + 1)
                       ELSE comments
    BY <2>1 DEF SkipEmptyLine, input, sets
  <2>4. pos \in Nat /\ Len(file) \in Nat
    BY DEF IInv, TypeOK
  <2>. QED
    BY <2>2, <2>3, <2>4 DEF ReadUpTo, IsData
<1>2. BeforeAnyData' = BeforeAnyData /\ \A i : IsData(i)' = IsData(i)
  BY <1>1 DEF BeforeAnyData, IsData
<1>3. BeforeAnyData <=> \A i \in 1..(pos + 1) : ~IsData(i)
  <2>1. BeforeAnyData <=> \A i \in 1..pos : ~IsData(i)
    BY <1>1 DEF HeaderInv
  <2>2. \A i \in 1..(pos + 1) : i \in 1..pos \/ i = pos + 1
    BY <1>1
  <2>3. \A i \in 1..pos : i \in 1..(pos + 1)
    BY <1>1
  <2>. QED
    BY <1>1, <2>1, <2>2, <2>3
<1>4. comments \in Seq(Nat) /\ Len(comments) \in Nat
  BY LenProperties DEF IInv, TypeOK
<1> DEFINE Kept == {comments[k] : k \in 1..Len(comments)}
<1>5. \A i : i \in Kept <=> /\ i \in 1..pos /\ file[i].kind = "comment"
                            /\ \A j \in 1..i : ~IsData(j)
  BY DEF HeaderInv
<1>6. CASE file[pos + 1].kind = "comment" /\ BeforeAnyData
  <2>1. /\ Len(comments') = Len(comments) + 1
        /\ \A k \in 1..Len(comments) : comments'[k] = comments[k]
        /\ comments'[Len(comments) + 1] = pos + 1
    BY <1>1, <1>4, <1>6, AppendProperties
  <2>2. \A k \in 1..Len(comments) : comments[k] \in Nat /\ comments[k] < pos + 1
    BY <1>1, <1>5
  <2>3. ASSUME NEW i \in 1..Len(comments'), NEW j \in 1..Len(comments'), i < j
        PROVE  comments'[i] < comments'[j]
    <3>1. i \in 1..Len(comments)
      BY <1>4, <2>1, <2>3
    <3>2. CASE j = Len(comments) + 1
      BY <2>1, <2>2, <3>1, <3>2
    <3>3. CASE j \in 1..Len(comments)
      BY <2>1, <2>3, <3>1, <3>3 DEF HeaderInv
    <3>. QED
      BY <1>4, <2>1, <3>2, <3>3
  <2>4. \A i : i \in {comments'[k] : k \in 1..Len(comments')} <=> i \in Kept \/ i = pos + 1
    <3>1. \A k : k \in 1..Len(comments') <=> k \in 1..Len(comments) \/ k = Len(comments) + 1
      BY <1>4, <2>1
    <3>. QED
      BY <2>1, <3>1
  <2>5. \A i : i \in 1..(pos + 1) <=> i \in 1..pos \/ i = pos + 1
    BY <1>1
  <2>6. \A j \in 1..(pos + 1) : ~IsData(j)
    BY <1>3, <1>6
  <2> HIDE DEF Kept
  <2>7. \A i : i \in {comments'[k] : k \in 1..Len(comments')}
                 <=> /\ i \in 1..(pos + 1) /\ file[i].kind = "comment"
                     /\ \A j \in 1..i : ~IsData(j)
    BY <1>5, <1>6, <2>4, <2>5, <2>6
  <2>. QED
    BY <1>1, <1>2, <1>3, <2>3, <2>7 DEF HeaderInv
<1>7. CASE ~(file[pos + 1].kind = "comment" /\ BeforeAnyData)
  <2>1. comments' = comments
    BY <1>1, <1>7
  <2>2. \A i : i \in 1..(pos + 1) <=> i \in 1..pos \/ i = pos + 1
    BY <1>1
  <2>3. ~(file[pos + 1].kind = "comment" /\ \A j \in 1..(pos + 1) : ~IsData(j))
    BY <1>3, <1>7
  <2> HIDE DEF Kept
  <2>4. \A i : i \in Kept <=> /\ i \in 1..(pos + 1) /\ file[i].kind = "comment"
                              /\ \A j \in 1..i : ~IsData(j)
    BY <1>5, <2>2, <2>3
  <2>. QED
    BY <1>1, <1>2, <1>3, <2>1, <2>4 DEF HeaderInv, Kept
<1>. QED
  BY <1>6, <1>7

(* Any other line is no comment.                                             *)
LEMMA LineKeepsHeader ==
    ASSUME IInv, HeaderInv, comments' = comments, file' = file, pos \in Nat,
           pos' = pos \/ (pos' = pos + 1 /\ file[pos + 1].kind # "comment"),
           pc' # "done" => (BeforeAnyData' <=> \A i \in 1..ReadUpTo' : ~IsData(i)),
           pc' \in {"last", "close"} => pos' = Len(file),
           outcome'.kind = "network" => pc' = "done" /\ pos' = Len(file)
    PROVE  HeaderInv'
<1>1. \A i : i \in 1..pos' /\ file[i].kind = "comment" <=> i \in 1..pos /\ file[i].kind = "comment"
  <2>1. CASE pos' = pos
    BY <2>1
  <2>2. CASE pos' = pos + 1 /\ file[pos + 1].kind # "comment"
    <3>1. \A i : i \in 1..(pos + 1) <=> i \in 1..pos \/ i = pos + 1
      OBVIOUS
    <3>. QED
      BY <2>2, <3>1
  <2>. QED
    BY <2>1, <2>2
<1> DEFINE Kept == {comments[k] : k \in 1..Len(comments)}
<1>2. \A i : i \in Kept <=> /\ i \in 1..pos /\ file[i].kind = "comment"
                            /\ \A j \in 1..i : ~IsData(j)
  BY DEF HeaderInv
<1> HIDE DEF Kept
<1>3. \A i : i \in Kept <=> /\ i \in 1..pos' /\ file[i].kind = "comment"
                            /\ \A j \in 1..i : ~IsData(j)
  BY <1>1, <1>2
<1>4. \A i : IsData(i)' = IsData(i)
  BY DEF IsData
<1>5. /\ \A i, j \in 1..Len(comments) : i < j => comments[i] < comments[j]
  BY DEF HeaderInv
<1>. QED
  BY <1>3, <1>4, <1>5, ZenonT(40) DEF HeaderInv, Kept

(* Every step keeps the account of the header's lines.                       *)
LEMMA StepKeepsHeader == IInv /\ BlameInv /\ HeaderInv /\ [Next]_vars => HeaderInv'
<1> SUFFICES ASSUME IInv, BlameInv, HeaderInv, [Next]_vars PROVE HeaderInv'
  OBVIOUS
<1>1. pos \in Nat /\ Len(file) \in Nat
  BY DEF IInv, TypeOK
<1>2. CASE SkipEmptyLine
  BY <1>2, SkipKeepsHeader
<1>3. CASE TakeOptionLine \/ IgnoreOptionLine \/ RejectKeyword \/ TakeDataLine
  <2>1. /\ pc = "line" /\ pos' = pos + 1 /\ comments' = comments /\ file' = file
        /\ file[pos + 1].kind # "comment" /\ UNCHANGED <<freqHz, block>>
        /\ outcome.kind = "reading" /\ ReadUpTo = pos
    BY <1>3 DEF TakeOptionLine, IgnoreOptionLine, RejectKeyword, TakeDataLine, LineIs,
                NextLine, Fail, Answer, sets, input, BlameInv, ReadUpTo
  <2>2. pc' = "done" \/ (pc' = "line" /\ ~IsData(pos + 1)) \/ pc' = "push"
    BY <1>3, <2>1 DEF TakeOptionLine, IgnoreOptionLine, RejectKeyword, TakeDataLine, LineIs,
                NextLine, Fail, Answer, IsData
  <2>3. outcome'.kind # "network"
    BY <1>3, <2>1 DEF TakeOptionLine, IgnoreOptionLine, RejectKeyword, TakeDataLine,
                Fail, Answer
  <2>4. BeforeAnyData' = BeforeAnyData /\ (BeforeAnyData <=> \A i \in 1..pos : ~IsData(i))
    BY <2>1 DEF BeforeAnyData, HeaderInv
  <2>5. CASE pc' = "line" /\ ~IsData(pos + 1)
    <3>1. ReadUpTo' = pos + 1
      BY <2>1, <2>5 DEF ReadUpTo
    <3>2. \A i : i \in 1..(pos + 1) <=> i \in 1..pos \/ i = pos + 1
      BY <1>1
    <3>3. BeforeAnyData' <=> \A i \in 1..ReadUpTo' : ~IsData(i)
      BY <2>4, <2>5, <3>1, <3>2
    <3>. QED
      BY <1>1, <2>1, <2>3, <2>5, <3>3, LineKeepsHeader
  <2>6. CASE pc' = "push"
    <3>1. ReadUpTo' = pos
      BY <1>1, <2>1, <2>6 DEF ReadUpTo
    <3>2. BeforeAnyData' <=> \A i \in 1..ReadUpTo' : ~IsData(i)
      BY <2>4, <3>1
    <3>. QED
      BY <1>1, <2>1, <2>3, <2>6, <3>2, LineKeepsHeader
  <2>7. CASE pc' = "done"
    BY <1>1, <2>1, <2>3, <2>7, LineKeepsHeader
  <2>. QED
    BY <2>2, <2>5, <2>6, <2>7
<1>4. CASE ExtendBlock
  <2>1. /\ pos \in 1..Len(file) /\ pc # "done" /\ IsData(pos)
        /\ outcome.kind = "reading"
        /\ comments' = comments /\ file' = file /\ pos' = pos
    BY <1>4 DEF ExtendBlock, IInv, ControlInv, BlameInv, input
  <2>2. CASE pc' = "done"
    <3>1. outcome'.kind # "network"
      BY <1>4, <2>1, <2>2 DEF ExtendBlock, Fail, Answer
    <3>. QED
      BY <1>1, <2>1, <2>2, <3>1, LineKeepsHeader
  <2>3. CASE pc' # "done"
    <3>1. pc' \in {"line", "full"} /\ outcome' = outcome /\ block' = block \o Values(pos)
      BY <1>4, <2>3 DEF ExtendBlock, Fail, Answer
    <3>2. block' # <<>>
      <4>1. /\ block \in Seq(Places) /\ Values(pos) \in Seq(Places)
            /\ Len(Values(pos)) \in Nat \ {0}
        BY <2>1, ValuesTyped DEF IInv, TypeOK
      <4>2. Len(block') # 0
        BY <3>1, <4>1, ConcatProperties, LenProperties
      <4>. QED
        BY <4>2, EmptySeq
    <3>3. ReadUpTo' = pos
      BY <2>1, <3>1 DEF ReadUpTo
    <3>4. ~BeforeAnyData' /\ ~\A i \in 1..ReadUpTo' : ~IsData(i)
      BY <1>1, <2>1, <3>2, <3>3 DEF BeforeAnyData
    <3>. QED
      BY <1>1, <2>1, <3>1, <3>4, LineKeepsHeader
  <2>. QED
    BY <2>2, <2>3
<1>5. CASE AddPoint \/ BeginNoise \/ AddNoisePoint
  <2>1. /\ Flushing /\ block # <<>> /\ outcome' = outcome /\ outcome.kind = "reading"
        /\ pc # "done" /\ pc' = AfterFlush
        /\ comments' = comments /\ file' = file /\ pos' = pos
    BY <1>5, FlushFacts DEF AddPoint, BeginNoise, AddNoisePoint, Flushing, BlameInv, input
  <2>2. freqHz' # <<>>
    <3>1. CASE AddPoint
      <4>1. freqHz \in Seq(Int) /\ freqHz' = Append(freqHz, BlockHz(block)) /\ BlockHz(block) \in Int
        BY <2>1, <3>1, FlushFacts DEF AddPoint, IInv, TypeOK
      <4>2. Len(freqHz') # 0
        BY <4>1, AppendProperties
      <4>. QED
        BY <4>2, EmptySeq
    <3>2. CASE BeginNoise \/ AddNoisePoint
      BY <3>2 DEF BeginNoise, AddNoisePoint, AtNoiseBoundary, ReadsNoise, IInv,
                  NoiseFollowsTwoPortSweep
    <3>. QED
      BY <1>5, <3>1, <3>2
  <2>3. ReadUpTo' = ReadUpTo
    BY <2>1 DEF ReadUpTo, Flushing, AfterFlush
  <2>4. ~BeforeAnyData' /\ ~\A i \in 1..ReadUpTo' : ~IsData(i)
    BY <2>1, <2>2, <2>3 DEF BeforeAnyData, HeaderInv
  <2>5. pc' \in {"last", "close"} => pos' = Len(file)
    BY <2>1 DEF HeaderInv, Flushing, AfterFlush
  <2>. QED
    BY <1>1, <2>1, <2>4, <2>5, LineKeepsHeader
<1>6. CASE RejectSet
  <2>1. /\ pc' = "done" /\ outcome'.kind # "network"
        /\ comments' = comments /\ file' = file /\ pos' = pos
    BY <1>6 DEF RejectSet, Fail, Answer, SetFault, NoiseFault, PointFault, NoFault, input
  <2>. QED
    BY <1>1, <2>1, LineKeepsHeader
<1>7. CASE ReachEnd
  <2>1. /\ pc = "line" /\ pos = Len(file) /\ comments' = comments /\ file' = file /\ pos' = pos
        /\ UNCHANGED <<freqHz, block>> /\ outcome.kind = "reading"
        /\ pc' \in {"last", "close", "done"} /\ outcome'.kind # "network"
    BY <1>7 DEF ReachEnd, Fail, Answer, sets, input, BlameInv
  <2>2. ReadUpTo' = ReadUpTo
    BY <2>1 DEF ReadUpTo
  <2>3. BeforeAnyData' <=> \A i \in 1..ReadUpTo' : ~IsData(i)
    BY <2>1, <2>2 DEF BeforeAnyData, HeaderInv
  <2>. QED
    BY <1>1, <2>1, <2>3, LineKeepsHeader
<1>8. CASE Close
  <2>1. /\ pc' = "done" /\ comments' = comments /\ file' = file /\ pos' = pos
        /\ pos = Len(file)
    BY <1>8 DEF Close, Fail, Answer, input, HeaderInv
  <2>. QED
    BY <1>1, <2>1, LineKeepsHeader
<1>9. CASE Done \/ UNCHANGED vars
  <2>1. UNCHANGED vars
    BY <1>9 DEF Done
  <2>. QED
    BY <2>1 DEF vars, input, sets, HeaderInv, IsData, ReadUpTo, BeforeAnyData
<1>. QED
  BY <1>2, <1>3, <1>4, <1>5, <1>6, <1>7, <1>8, <1>9 DEF Next

(* Before the first line there is nothing to keep.                           *)
LEMMA InitHeader == Init => HeaderInv
<1> SUFFICES ASSUME Init PROVE HeaderInv
  OBVIOUS
<1>1. /\ freqHz = <<>> /\ block = <<>> /\ comments = <<>> /\ pos = 0 /\ pc = "line"
      /\ outcome.kind = "reading"
  BY DEF Init
<1>2. ReadUpTo = 0 /\ Len(comments) = 0 /\ 1..0 = {}
  BY <1>1 DEF ReadUpTo
<1>. QED
  BY <1>1, <1>2 DEF HeaderInv, BeforeAnyData

(* An accepted file's comments are its comment lines above the first data    *)
(* line, in order (v1.rs before_any_data, model.rs Metadata.comments).       *)
THEOREM HeaderCommentsAreKept == Spec => []KeepsHeaderComments
<1>1. IInv /\ HeaderInv => KeepsHeaderComments
  <2> SUFFICES ASSUME IInv, HeaderInv, outcome.kind = "network"
               PROVE  /\ \A i, j \in 1..Len(comments) : i < j => comments[i] < comments[j]
                      /\ {comments[i] : i \in 1..Len(comments)}
                           = {i \in LinesOf(file, "comment") :
                                 \A j \in LinesOf(file, "data") : i < j}
    BY DEF KeepsHeaderComments
  <2> DEFINE Kept == {comments[k] : k \in 1..Len(comments)}
             Header == {i \in LinesOf(file, "comment") :
                           \A j \in LinesOf(file, "data") : i < j}
  <2>1. pos = Len(file) /\ Len(file) \in Nat
    BY DEF HeaderInv, IInv, TypeOK
  <2>2. \A i : i \in Kept <=> /\ i \in 1..pos /\ file[i].kind = "comment"
                              /\ \A j \in 1..i : ~IsData(j)
    BY DEF HeaderInv
  <2>3. \A i : i \in Header <=> /\ i \in 1..pos /\ file[i].kind = "comment"
                                /\ \A j \in 1..pos : IsData(j) => i < j
    BY <2>1 DEF LinesOf, IsData
  <2>4. ASSUME NEW i \in 1..pos, file[i].kind = "comment"
        PROVE  (\A j \in 1..i : ~IsData(j)) <=> (\A j \in 1..pos : IsData(j) => i < j)
    <3>1. \A j \in 1..pos : j \in 1..i <=> ~(i < j)
      BY <2>1
    <3>2. \A j \in 1..i : j \in 1..pos
      BY <2>1
    <3>. QED
      BY <3>1, <3>2
  <2> HIDE DEF Kept, Header
  <2>5. \A i : i \in Kept <=> i \in Header
    BY <2>2, <2>3, <2>4
  <2>6. Kept = Header
    BY <2>5
  <2>. QED
    BY <2>6 DEF Kept, Header, HeaderInv
<1>. QED
  BY <1>1, InitBlames, InitHeader, StepKeepsBlame, StepKeepsHeader, InitEstablishes,
     StepPreserves, PTL DEF Spec
-----------------------------------------------------------------------------
(* An accepted network's references are the broadcast list.                  *)
ReferenceInv ==
    outcome.kind = "network" =>
        /\ z0 = BroadcastReference(file[optionLine].n, nports, Len(freqHz))
        /\ nports \in Nat

NamesEveryPort(references, declared, ports, points) ==
    /\ Len(references) = points * ports
    /\ \A k \in 1..points : \A port \in 1..ports :
          references[(k - 1) * ports + port] = IF declared = 1 THEN 1 ELSE port

(* Place and value of a broadcast reference, for one R and for n of them.    *)
LEMMA BroadcastNamesEveryPort ==
    ASSUME NEW declared, NEW ports \in Nat, NEW points \in Nat
    PROVE  NamesEveryPort(BroadcastReference(declared, ports, points), declared, ports, points)
<1>1. PICK size \in Nat : size = points * ports
  OBVIOUS
<1>2. Len(BroadcastReference(declared, ports, points)) = points * ports
  BY <1>1 DEF BroadcastReference
<1>3. ASSUME NEW k \in 1..points, NEW port \in 1..ports
      PROVE  BroadcastReference(declared, ports, points)[(k - 1) * ports + port]
                = IF declared = 1 THEN 1 ELSE port
  <2>1. PICK b \in 0..(ports - 1) : b = port - 1
    OBVIOUS
  <2>2. PICK a \in 0..(points - 1) : a = k - 1
    OBVIOUS
  <2>3. /\ (a * ports + b) % ports = b
        /\ a * ports + b \in 0..(points * ports - 1)
    BY OffsetNamesItsPlace, OffsetIsInside
  <2>4. PICK x \in Int : x = a * ports + b
    BY <2>1, <2>2
  <2>5. x + 1 \in 1..size /\ (k - 1) * ports + port = x + 1 /\ x % ports = b
    BY <1>1, <2>1, <2>2, <2>3, <2>4
  <2>6. BroadcastReference(declared, ports, points)[x + 1]
          = IF declared = 1 THEN 1 ELSE (((x + 1) - 1) % ports) + 1
    BY <1>1, <2>5 DEF BroadcastReference
  <2>7. ((x + 1) - 1) = x /\ b + 1 = port
    BY <2>1, <2>4
  <2>. QED
    BY <2>5, <2>6, <2>7
<1>. QED
  BY <1>2, <1>3 DEF NamesEveryPort

(* Every port of every point of an accepted file refers to its own R value,  *)
(* or all to the one (reference_per_port, broadcast_reference).              *)
THEOREM EveryPortIsReferenced == Spec => []ReferencesEveryPort
<1>1. Init => ReferenceInv
  BY DEF Init, ReferenceInv
<1>2. IInv /\ HeaderInv /\ BlameInv /\ ReferenceInv /\ [Next]_vars => ReferenceInv'
  <2> SUFFICES ASSUME IInv, HeaderInv, BlameInv, ReferenceInv, [Next]_vars,
                      outcome'.kind = "network"
               PROVE  /\ z0' = BroadcastReference(file'[optionLine'].n, nports', Len(freqHz'))
                      /\ nports' \in Nat
    BY DEF ReferenceInv
  <2>1. CASE outcome.kind = "network"
    <3>1. UNCHANGED vars
      <4>1. pc = "done"
        BY <2>1 DEF HeaderInv
      <4>. QED
        BY <4>1 DEF Next, SkipEmptyLine, TakeOptionLine, IgnoreOptionLine, RejectKeyword,
             TakeDataLine, LineIs, ExtendBlock, AddPoint, BeginNoise, AddNoisePoint,
             RejectSet, Flushing, ReachEnd, Close, Done
    <3>. QED
      BY <2>1, <3>1 DEF vars, input, sets, ReferenceInv
  <2>2. CASE outcome.kind # "network"
    <3>1. Close
      <4>1. outcome' # outcome
        BY <2>2
      <4>2. CASE TakeOptionLine \/ RejectKeyword \/ TakeDataLine \/ ExtendBlock \/ ReachEnd
        BY <4>1, <4>2 DEF TakeOptionLine, RejectKeyword, TakeDataLine, ExtendBlock, ReachEnd,
                         Fail, Answer
      <4>3. CASE RejectSet
        BY <4>3 DEF RejectSet, Fail, Answer, SetFault, NoiseFault, PointFault, NoFault
      <4>4. CASE \/ SkipEmptyLine \/ IgnoreOptionLine \/ AddPoint \/ BeginNoise
                 \/ AddNoisePoint \/ Done \/ UNCHANGED vars
        BY <4>1, <4>4 DEF SkipEmptyLine, IgnoreOptionLine, AddPoint, BeginNoise,
                         AddNoisePoint, Done, vars
      <4>. QED
        BY <4>2, <4>3, <4>4 DEF Next
    <3>2. /\ freqHz # <<>> /\ UNCHANGED <<input, sets, optionLine>>
          /\ z0' = BroadcastReference(file[optionLine].n, nports, Len(freqHz))
      BY <3>1 DEF Close, Fail, Answer
    <3>3. nports \in Nat
      BY <3>2 DEF IInv, ShapeInv, TypeOK
    <3>. QED
      BY <3>2, <3>3 DEF input, sets
  <2>. QED
    BY <2>1, <2>2
<1>3. IInv /\ ReferenceInv /\ HeaderInv => ReferencesEveryPort
  <2> SUFFICES ASSUME IInv, ReferenceInv, outcome.kind = "network"
               PROVE  /\ Len(z0) = Len(freqHz) * nports
                      /\ \A k \in 1..Len(freqHz) : \A port \in 1..nports :
                            z0[(k - 1) * nports + port]
                              = IF file[optionLine].n = 1 THEN 1 ELSE port
    BY DEF ReferencesEveryPort
  <2>1. /\ Len(freqHz) \in Nat /\ nports \in Nat
        /\ z0 = BroadcastReference(file[optionLine].n, nports, Len(freqHz))
    BY LenProperties DEF IInv, TypeOK, ReferenceInv
  <2>2. PICK declared : declared = file[optionLine].n
    OBVIOUS
  <2>3. PICK points \in Nat : points = Len(freqHz)
    BY <2>1
  <2>4. NamesEveryPort(z0, declared, nports, points)
    BY <2>1, <2>2, <2>3, BroadcastNamesEveryPort
  <2>. QED
    BY <2>2, <2>3, <2>4 DEF NamesEveryPort
<1>. QED
  BY <1>1, <1>2, <1>3, InitBlames, InitHeader, StepKeepsBlame, StepKeepsHeader,
     InitEstablishes, StepPreserves, PTL DEF Spec
-----------------------------------------------------------------------------
(* The values on a data line.                                                *)
Row(f, i) == [col \in 1..f[i].n |-> <<i, col>>]

(* One more line of a file: a line of an odd number of values opens a data   *)
(* set, any other data line joins the one that is open.                      *)
Joined(f, sofar, i) ==
    IF f[i].kind # "data" THEN sofar
    ELSE IF Odd(f[i].n) THEN Append(sofar, Row(f, i))
    ELSE IF sofar = <<>> THEN sofar
    ELSE [sofar EXCEPT ![Len(sofar)] = sofar[Len(sofar)] \o Row(f, i)]

(* Sequences of data sets, each the places of its values, and which of them  *)
(* are gathered from ever more of a file's lines.                            *)
AllSets == Seq(Seq(Places))
IsGathered(f, g) == g[0] = <<>> /\ \A i \in 1..Len(f) : g[i] = Joined(f, g[i - 1], i)

(* The data sets on the first lines of a file, however many lines.           *)
SetsUpTo(f) == CHOOSE g \in [0..Len(f) -> AllSets] : IsGathered(f, g)

(* The values of a line, by their places.                                    *)
LEMMA RowIsTyped ==
    ASSUME NEW f \in Seq(Lines), NEW i \in 1..Len(f)
    PROVE  /\ Row(f, i) \in Seq(Places) /\ Len(Row(f, i)) = f[i].n
           /\ f[i].n \in Nat \ {0} /\ Row(f, i)[1] = <<i, 1>>
           /\ \A c \in 1..f[i].n : Row(f, i)[c] = <<i, c>>
<1>1. f[i] \in Lines /\ i \in Nat
  BY ElementOfSeq
<1>2. PICK n \in Nat \ {0} : n = f[i].n
  BY <1>1 DEF Lines
<1>3. Row(f, i) \in [1..n -> Places]
  BY <1>1, <1>2 DEF Row, Places
<1>4. PICK row : row = Row(f, i)
  OBVIOUS
<1>5. row \in Seq(Places) /\ Len(row) = n
  BY <1>3, <1>4, FunctionIsSequence
<1>. QED
  BY <1>2, <1>4, <1>5 DEF Row

(* What one more line makes of data sets are data sets.                      *)
LEMMA JoinedIsTyped ==
    ASSUME NEW f \in Seq(Lines), NEW i \in 1..Len(f), NEW sofar \in AllSets
    PROVE  Joined(f, sofar, i) \in AllSets
<1>1. PICK row \in Seq(Places) : row = Row(f, i)
  BY RowIsTyped
<1>2. Append(sofar, row) \in AllSets
  BY AppendProperties DEF AllSets
<1>3. CASE sofar # <<>>
  <2>1. Len(sofar) \in 1..Len(sofar) /\ sofar[Len(sofar)] \in Seq(Places)
    BY <1>3, EmptySeq, ElementOfSeq DEF AllSets
  <2>2. PICK last \in Seq(Places), k \in 1..Len(sofar) :
           last = sofar[Len(sofar)] \o row /\ k = Len(sofar)
    BY <2>1, ConcatProperties
  <2>3. [sofar EXCEPT ![k] = last] \in Seq(Seq(Places))
    BY ExceptSeq DEF AllSets
  <2>. QED
    BY <1>1, <1>2, <2>2, <2>3 DEF Joined, AllSets
<1>. QED
  BY <1>1, <1>2, <1>3 DEF Joined

(* There are such sets for every file, so SetsUpTo is what its definition    *)
(* says.                                                                     *)
LEMMA SetsAreGathered ==
    ASSUME NEW f \in Seq(Lines)
    PROVE  SetsUpTo(f) \in [0..Len(f) -> AllSets] /\ IsGathered(f, SetsUpTo(f))
<1>1. PICK last \in Nat : last = Len(f)
  OBVIOUS
<1> DEFINE step == [i \in 1..last |-> [x \in AllSets |-> Joined(f, x, i)]]
<1>2. step \in [1..last -> [AllSets -> AllSets]] /\ <<>> \in AllSets
  BY <1>1, JoinedIsTyped, EmptySeq DEF AllSets
<1>3. PICK g \in [0..last -> AllSets] : /\ g[0] = <<>>
                                        /\ \A i \in 1..last : g[i] = step[i][g[i - 1]]
  <2> HIDE DEF step
  <2>1. PICK V : V = AllSets
    OBVIOUS
  <2>2. IsDefined(last, V, <<>>, step)
    BY <1>2, <2>1, RecursionDefines
  <2>. QED
    BY <2>1, <2>2 DEF IsDefined
<1>4. \A i \in 1..last : g[i] = Joined(f, g[i - 1], i)
  <2>1. SUFFICES ASSUME NEW i \in 1..last PROVE g[i] = Joined(f, g[i - 1], i)
    OBVIOUS
  <2>2. \A x \in AllSets : step[i][x] = Joined(f, x, i)
    OBVIOUS
  <2> HIDE DEF step
  <2>3. g[i - 1] \in AllSets
    OBVIOUS
  <2>. QED
    BY <1>3, <2>2, <2>3
<1>5. IsGathered(f, g)
  BY <1>1, <1>3, <1>4 DEF IsGathered
<1>. QED
  BY <1>1, <1>5 DEF SetsUpTo

(* The chosen lines one by one.                                              *)
OneByOne(g, S, last) ==
    /\ g[0] = <<>>
    /\ \A i \in 1..last : g[i] = IF i \in S THEN Append(g[i - 1], i) ELSE g[i - 1]

(* V1Grammar picks the opening lines like that.                              *)
LEMMA InOrderUnfolds ==
    ASSUME NEW f \in Seq(Lines), NEW S
    PROVE  \E g \in [0..Len(f) -> Seq(Nat)] :
              OneByOne(g, S, Len(f)) /\ InOrder(f, S) = g[Len(f)]
<1>1. PICK last \in Nat : last = Len(f)
  OBVIOUS
<1> DEFINE V == Seq(Nat)
           step == [i \in 1..last |-> [x \in V |-> IF i \in S THEN Append(x, i) ELSE x]]
<1>2. step \in [1..last -> [V -> V]] /\ <<>> \in V
  <2>1. ASSUME NEW i \in 1..last, NEW x \in V PROVE Append(x, i) \in V
    BY AppendProperties
  <2>2. <<>> \in V
    OBVIOUS
  <2> HIDE DEF V
  <2>. QED
    BY <2>1, <2>2
<1>3. PICK g \in [0..last -> V] : /\ g[0] = <<>>
                                  /\ \A i \in 1..last : g[i] = step[i][g[i - 1]]
  <2> HIDE DEF step, V
  <2>1. IsDefined(last, V, <<>>, step)
    BY <1>2, RecursionDefines
  <2>. QED
    BY <2>1 DEF IsDefined
<1>4. \A i \in 1..last : g[i] = IF i \in S THEN Append(g[i - 1], i) ELSE g[i - 1]
  <2>1. SUFFICES ASSUME NEW i \in 1..last
                 PROVE  g[i] = IF i \in S THEN Append(g[i - 1], i) ELSE g[i - 1]
    OBVIOUS
  <2>2. \A x \in V : step[i][x] = IF i \in S THEN Append(x, i) ELSE x
    OBVIOUS
  <2> HIDE DEF step, V
  <2>3. g[i - 1] \in V
    OBVIOUS
  <2>. QED
    BY <1>3, <2>2, <2>3
<1> HIDE DEF step, V
<1> DEFINE Rec(h) == h = [i \in 0..last |-> IF i = 0 THEN <<>>
                             ELSE IF i \in S THEN Append(h[i - 1], i) ELSE h[i - 1]]
<1>5. Rec(g)
  <2>1. \A i \in 0..last : i = 0 \/ i \in 1..last
    OBVIOUS
  <2>2. \A i \in 0..last : g[i] = IF i = 0 THEN <<>>
                             ELSE IF i \in S THEN Append(g[i - 1], i) ELSE g[i - 1]
    BY <1>3, <1>4, <2>1
  <2>3. g = [i \in 0..last |-> g[i]]
    OBVIOUS
  <2>. QED
    BY <2>2, <2>3
<1>6. PICK h : h = CHOOSE upTo : Rec(upTo)
  OBVIOUS
<1>7. Rec(h)
  <2> HIDE DEF Rec
  <2>. QED
    BY <1>5, <1>6
<1>8. InOrder(f, S) = h[last]
  BY <1>1, <1>6 DEF InOrder
<1>9. \A i \in 0..last : h[i] = IF i = 0 THEN <<>>
                             ELSE IF i \in S THEN Append(h[i - 1], i) ELSE h[i - 1]
  BY <1>7, Zenon
<1>10. h[0] = <<>> /\ \A i \in 1..last : h[i] = IF i \in S THEN Append(h[i - 1], i) ELSE h[i - 1]
  <2>1. 0 \in 0..last /\ \A i \in 1..last : i \in 0..last /\ i # 0
    OBVIOUS
  <2>. QED
    BY <1>9, <2>1, Zenon
<1> HIDE DEF Rec
<1> DEFINE T == {i \in 0..last : h[i] = g[i]}
<1>11. 0 \in T
  BY <1>3, <1>10
<1>12. ASSUME NEW i \in 1..last, i - 1 \in T
       PROVE  i \in T
  BY <1>4, <1>10, <1>12
<1> HIDE DEF T
<1>13. \A i \in 0..last : i \in T
  BY <1>11, <1>12, StepByStep
<1>14. h[last] = g[last]
  BY <1>13 DEF T
<1>15. OneByOne(g, S, last)
  BY <1>3, <1>4 DEF OneByOne
<1>. QED
  BY <1>1, <1>8, <1>14, <1>15 DEF V

(* The values on some neighbouring lines.                                    *)
Part(f, line) == IF f[line].kind = "data" THEN Row(f, line) ELSE <<>>
Parts(f, from, count) == [j \in 1..count |-> Part(f, from + j - 1)]
Span(f, from, to) == FlattenSeq(Parts(f, from, to - from + 1))

(* The values on one line are places.                                        *)
LEMMA PartIsTyped ==
    ASSUME NEW f \in Seq(Lines), NEW line \in 1..Len(f)
    PROVE  Part(f, line) \in Seq(Places)
<1>1. Row(f, line) \in Seq(Places) /\ <<>> \in Seq(Places)
  BY RowIsTyped
<1>. QED
  BY <1>1 DEF Part

(* The values on neighbouring lines are those of the lines joined one after  *)
(* another.                                                                  *)
LEMMA SpanIsJoined ==
    ASSUME NEW f \in Seq(Lines), NEW from \in 1..Len(f)
    PROVE  \E h \in [0..(Len(f) - from + 1) -> Seq(Places)] :
              /\ h[0] = <<>>
              /\ \A j \in 1..(Len(f) - from + 1) :
                    /\ h[j] = h[j - 1] \o Part(f, from + j - 1)
                    /\ Span(f, from, from + j - 1) = h[j]
<1>1. PICK count \in Nat : count = Len(f) - from + 1
  OBVIOUS
<1>2. \A j \in 1..count : from + j - 1 \in 1..Len(f)
  BY <1>1
<1> DEFINE parts == Parts(f, from, count)
           step == [j \in 1..count |-> [x \in Seq(Places) |-> x \o parts[j]]]
<1>3. parts \in [1..count -> Seq(Places)] /\ \A j \in 1..count : parts[j] = Part(f, from + j - 1)
  <2>1. \A j \in 1..count : Part(f, from + j - 1) \in Seq(Places)
    BY <1>2, PartIsTyped
  <2>. QED
    BY <2>1 DEF Parts
<1> HIDE DEF parts
<1>4. step \in [1..count -> [Seq(Places) -> Seq(Places)]] /\ <<>> \in Seq(Places)
  BY <1>3, ConcatProperties
<1>5. PICK h \in [0..count -> Seq(Places)] :
         h[0] = <<>> /\ \A j \in 1..count : h[j] = step[j][h[j - 1]]
  <2> HIDE DEF step
  <2>1. IsDefined(count, Seq(Places), <<>>, step)
    BY <1>4, RecursionDefines
  <2>. QED
    BY <2>1 DEF IsDefined
<1>6. \A j \in 1..count : h[j] = h[j - 1] \o parts[j]
  <2>1. SUFFICES ASSUME NEW j \in 1..count PROVE h[j] = h[j - 1] \o parts[j]
    OBVIOUS
  <2>2. \A x \in Seq(Places) : step[j][x] = x \o parts[j]
    OBVIOUS
  <2> HIDE DEF step
  <2>3. h[j - 1] \in Seq(Places)
    OBVIOUS
  <2>. QED
    BY <1>5, <2>2, <2>3
<1> HIDE DEF step
<1>7. ASSUME NEW j \in 1..count PROVE Span(f, from, from + j - 1) = h[j]
  <2>1. PICK seqs : seqs = Parts(f, from, j)
    OBVIOUS
  <2>2. seqs = [i \in 1..j |-> Part(f, from + i - 1)] /\ \A i \in 1..j : i \in 1..count
    BY <2>1 DEF Parts
  <2>3. \A i \in 1..j : seqs[i] = parts[i] /\ seqs[i] \in Seq(Places)
    BY <1>3, <2>2
  <2>4. seqs \in [1..j -> Seq(Places)]
    BY <2>2, <2>3
  <2>5. Len(seqs) = j
    BY <2>4, FunctionIsSequence
  <2>6. JoinsUp(h, j, seqs)
    BY <1>5, <1>6, <2>2, <2>3 DEF JoinsUp
  <2>7. \A i \in 0..j : h[i] \in Seq(Places)
    OBVIOUS
  <2>8. FlattenSeq(seqs) = h[j]
    <3>1. PICK last \in Nat : last = j /\ last # 0 /\ last = Len(seqs)
      BY <2>5
    <3>2. \A i \in 1..last : seqs[i] \in Seq(Places)
      BY <2>3, <3>1
    <3>3. \A i \in 0..last : h[i] \in Seq(Places)
      BY <2>7, <3>1
    <3>4. JoinsUp(h, last, seqs)
      BY <2>6, <3>1
    <3>5. FlattenSeq(seqs) = h[last]
      BY <3>1, <3>2, <3>3, <3>4, FlattenJoinsUp
    <3>. QED
      BY <3>1, <3>5
  <2>9. (from + j - 1) - from + 1 = j
    OBVIOUS
  <2>. QED
    BY <2>1, <2>8, <2>9 DEF Span
<1>8. \A j \in 1..count : h[j] = h[j - 1] \o Part(f, from + j - 1)
  BY <1>3, <1>6
<1>. QED
  BY <1>1, <1>5, <1>7, <1>8

(* One more line's values go to the end.                                     *)
LEMMA SpanGrows ==
    ASSUME NEW f \in Seq(Lines), NEW from \in 1..Len(f), NEW to \in from..Len(f)
    PROVE  /\ Span(f, from, to) \in Seq(Places)
           /\ to = from => Span(f, from, to) = Part(f, to)
           /\ from < to => Span(f, from, to) = Span(f, from, to - 1) \o Part(f, to)
<1>1. PICK count \in Nat : count = Len(f) - from + 1
  OBVIOUS
<1>2. PICK h \in [0..count -> Seq(Places)] :
              /\ h[0] = <<>>
              /\ \A j \in 1..count : /\ h[j] = h[j - 1] \o Part(f, from + j - 1)
                                     /\ Span(f, from, from + j - 1) = h[j]
  BY <1>1, SpanIsJoined
<1>3. PICK m \in 1..count : m = to - from + 1
  BY <1>1
<1>4. from + m - 1 = to
  BY <1>3
<1>5. Span(f, from, to) = h[m] /\ h[m] = h[m - 1] \o Part(f, to)
  BY <1>2, <1>4
<1>6. to = from => h[m - 1] = <<>>
  BY <1>2, <1>3
<1>7. from < to => Span(f, from, to - 1) = h[m - 1]
  <2>1. from < to => m - 1 \in 1..count /\ from + (m - 1) - 1 = to - 1
    BY <1>3
  <2>. QED
    BY <1>2, <2>1
<1>8. PICK part \in Seq(Places) : part = Part(f, to)
  BY PartIsTyped
<1>9. <<>> \o part = part
  BY ConcatEmptySeq
<1>10. h[m] \in Seq(Places)
  OBVIOUS
<1>. QED
  BY <1>5, <1>6, <1>7, <1>8, <1>9, <1>10

(* The sets on the first lines, from where each opens to where the next one  *)
(* does.                                                                     *)
EndOf(opening, k, i) == IF k = Len(opening) THEN i ELSE opening[k + 1] - 1

(* The first i lines divide into d, which open on these lines.               *)
Divided(f, opening, d, i) ==
    /\ Len(d) = Len(opening)
    /\ \A k \in 1..Len(opening) : /\ opening[k] \in 1..i
                                  /\ k < Len(opening) => opening[k] < opening[k + 1]
                                  /\ d[k] = Span(f, opening[k], EndOf(opening, k, i))

(* The next line opens a set or lengthens the last, and the sets of          *)
(* V1Grammar change the same way.                                            *)
LEMMA LineDivides ==
    ASSUME NEW f \in Seq(Lines), NEW i \in 1..Len(f),
           NEW d \in AllSets, NEW opening \in Seq(Nat), Divided(f, opening, d, i - 1)
    PROVE  Divided(f, IF i \in Openers(f) THEN Append(opening, i) ELSE opening, Joined(f, d, i), i)
<1>1. PICK last \in Nat : last = Len(opening) /\ Len(d) = last
  BY DEF Divided
<1>2. \A k \in 1..last : /\ opening[k] \in 1..(i - 1) /\ opening[k] \in 1..i
                         /\ k < last => opening[k] < opening[k + 1]
                         /\ d[k] = Span(f, opening[k], EndOf(opening, k, i - 1))
  BY <1>1 DEF Divided
<1>3. i \in Openers(f) <=> f[i].kind = "data" /\ Odd(f[i].n)
  BY DEF Openers, LinesOf
<1>4. \A k \in 1..last : k # last => EndOf(opening, k, i) = EndOf(opening, k, i - 1)
  BY <1>1 DEF EndOf
<1>5. ASSUME last # 0
      PROVE  Span(f, opening[last], i) = d[last] \o Part(f, i) /\ d[last] \in Seq(Places)
  <2>1. last \in 1..last
    BY <1>5
  <2>2. PICK from \in 1..(i - 1) : from = opening[last]
    BY <1>2, <2>1
  <2>3. d[last] = Span(f, from, i - 1)
    BY <1>1, <1>2, <2>1, <2>2 DEF EndOf
  <2>4. from \in 1..Len(f) /\ i \in from..Len(f) /\ from < i
    OBVIOUS
  <2>5. Span(f, from, i) = Span(f, from, i - 1) \o Part(f, i)
    BY <2>4, SpanGrows
  <2>6. d[last] \in Seq(Places)
    BY <1>1, <2>1, ElementOfSeq DEF AllSets
  <2>. QED
    BY <2>2, <2>3, <2>5, <2>6
<1>6. CASE f[i].kind # "data"
  <2>1. Joined(f, d, i) = d /\ i \notin Openers(f)
    BY <1>3, <1>6 DEF Joined
  <2>2. last # 0 => Span(f, opening[last], i) = d[last]
    <3>1. Part(f, i) = <<>>
      BY <1>6 DEF Part
    <3>2. ASSUME last # 0 PROVE d[last] \o <<>> = d[last]
      <4>1. PICK x \in Seq(Places) : x = d[last]
        BY <1>5, <3>2
      <4>. QED
        BY <4>1, ConcatEmptySeq
    <3>. QED
      BY <1>5, <3>1, <3>2
  <2>3. ASSUME NEW k \in 1..last PROVE d[k] = Span(f, opening[k], EndOf(opening, k, i))
    <3>1. CASE k = last
      BY <1>1, <2>2, <3>1 DEF EndOf
    <3>2. CASE k # last
      BY <1>2, <1>4, <3>2
    <3>. QED
      BY <3>1, <3>2
  <2>. QED
    BY <1>1, <1>2, <2>1, <2>3 DEF Divided
<1>7. CASE f[i].kind = "data" /\ ~Odd(f[i].n)
  <2>1. i \notin Openers(f) /\ Part(f, i) = Row(f, i)
    BY <1>3, <1>7 DEF Part
  <2>2. CASE last = 0
    <3>1. d = <<>>
      BY <1>1, <2>2, EmptySeq DEF AllSets
    <3>2. Joined(f, d, i) = d
      BY <1>7, <3>1 DEF Joined
    <3>3. \A k \in 1..Len(opening) : FALSE
      BY <1>1, <2>2
    <3>4. Divided(f, opening, d, i)
      BY <1>1, <3>3 DEF Divided
    <3>. QED
      BY <2>1, <3>2, <3>4
  <2>3. CASE last # 0
    <3>1. d # <<>>
      BY <1>1, <2>3, EmptySeq
    <3>2. PICK e \in Seq(Places) : e = d[last] \o Row(f, i)
      BY <1>5, <2>3, RowIsTyped, ConcatProperties
    <3>3. PICK q \in AllSets : q = [d EXCEPT ![last] = e]
                               /\ Len(q) = last
                               /\ \A k \in 1..last : q[k] = IF k = last THEN e ELSE d[k]
      <4>1. PICK k \in 1..Len(d) : k = last
        BY <1>1, <2>3
      <4>2. d \in Seq(Seq(Places))
        BY DEF AllSets
      <4>3. PICK q \in AllSets : q = [d EXCEPT ![k] = e]
        BY <4>2, ExceptSeq DEF AllSets
      <4>4. Len(q) = Len(d) /\ \A j \in 1..Len(d) : q[j] = IF j = k THEN e ELSE d[j]
        BY <4>2, <4>3, ExceptSeq, SMTT(30)
      <4>. QED
        BY <1>1, <4>1, <4>3, <4>4
    <3>4. Joined(f, d, i) = q
      BY <1>1, <1>7, <3>1, <3>2, <3>3 DEF Joined
    <3>5. ASSUME NEW k \in 1..last PROVE q[k] = Span(f, opening[k], EndOf(opening, k, i))
      <4>1. CASE k = last
        BY <1>1, <1>5, <2>1, <2>3, <3>2, <3>3, <4>1 DEF EndOf
      <4>2. CASE k # last
        BY <1>2, <1>4, <3>3, <4>2
      <4>. QED
        BY <4>1, <4>2
    <3>. QED
      BY <1>1, <1>2, <2>1, <3>3, <3>4, <3>5 DEF Divided
  <2>. QED
    BY <2>2, <2>3
<1>8. CASE f[i].kind = "data" /\ Odd(f[i].n)
  <2>1. i \in Openers(f) /\ Joined(f, d, i) = Append(d, Row(f, i)) /\ Part(f, i) = Row(f, i)
    BY <1>3, <1>8 DEF Joined, Part
  <2>2. PICK more \in Seq(Nat) : more = Append(opening, i) /\ Len(more) = last + 1
                                 /\ \A k \in 1..last : more[k] = opening[k]
                                 /\ more[last + 1] = i
    <3>1. PICK line \in Nat : line = i
      OBVIOUS
    <3>2. PICK more \in Seq(Nat) : more = Append(opening, line)
      BY OneMore
    <3>3. /\ Len(more) = Len(opening) + 1 /\ more[Len(opening) + 1] = line
          /\ \A k \in 1..Len(opening) : more[k] = opening[k]
      BY <3>2, OneMore
    <3>. QED
      BY <1>1, <3>1, <3>2, <3>3
  <2>3. PICK q \in AllSets : q = Append(d, Row(f, i)) /\ Len(q) = last + 1
                 /\ \A k \in 1..last : q[k] = d[k]
                 /\ q[last + 1] = Row(f, i)
    <3>1. Row(f, i) \in Seq(Places) /\ d \in Seq(Seq(Places))
      BY RowIsTyped DEF AllSets
    <3>2. PICK row \in Seq(Places) : row = Row(f, i)
      BY <3>1
    <3>3. PICK q \in AllSets : q = Append(d, row)
      BY <3>1, OneMore DEF AllSets
    <3>4. /\ Len(q) = Len(d) + 1 /\ q[Len(d) + 1] = row
          /\ \A k \in 1..Len(d) : q[k] = d[k]
      BY <3>1, <3>3, OneMore
    <3>. QED
      BY <1>1, <3>2, <3>3, <3>4
  <2>4. ASSUME NEW k \in 1..(last + 1)
        PROVE  /\ more[k] \in 1..i
               /\ k < last + 1 => more[k] < more[k + 1]
               /\ q[k] = Span(f, more[k], EndOf(more, k, i))
    <3>1. CASE k = last + 1
      <4>1. Span(f, i, i) = Part(f, i)
        BY SpanGrows
      <4>. QED
        BY <2>1, <2>2, <2>3, <3>1, <4>1 DEF EndOf
    <3>2. CASE k = last
      <4>1. k \in 1..last /\ more[k + 1] = i /\ more[k] = opening[k]
        BY <2>2, <3>2
      <4>2. EndOf(more, k, i) = i - 1 /\ EndOf(opening, k, i - 1) = i - 1
        BY <1>1, <2>2, <3>2, <4>1 DEF EndOf
      <4>. QED
        BY <1>2, <2>3, <4>1, <4>2, SMTT(30)
    <3>3. CASE k \in 1..last /\ k # last
      <4>1. k + 1 \in 1..last /\ more[k + 1] = opening[k + 1] /\ more[k] = opening[k]
        BY <2>2, <3>3
      <4>2. EndOf(more, k, i) = EndOf(opening, k, i - 1)
        BY <1>1, <2>2, <3>3, <4>1 DEF EndOf
      <4>. QED
        BY <1>2, <2>3, <3>3, <4>1, <4>2
    <3>. QED
      BY <3>1, <3>2, <3>3
  <2>. QED
    BY <2>1, <2>2, <2>3, <2>4 DEF Divided
<1>. QED
  BY <1>6, <1>7, <1>8

(* The sets the file divides into are those gathered on all of its lines.    *)
LEMMA SetsAreDataSets ==
    ASSUME NEW f \in Seq(Lines)
    PROVE  /\ DataSets(f) = SetsUpTo(f)[Len(f)]
           /\ Len(OpeningLines(f)) = Len(DataSets(f))
<1>1. PICK last \in Nat : last = Len(f)
  OBVIOUS
<1>2. PICK g \in [0..last -> AllSets] : IsGathered(f, g) /\ g = SetsUpTo(f)
  BY <1>1, SetsAreGathered
<1>3. PICK S : S = Openers(f)
  OBVIOUS
<1>4. PICK o \in [0..last -> Seq(Nat)] : OneByOne(o, S, last) /\ InOrder(f, S) = o[last]
  BY <1>1, InOrderUnfolds
<1> DEFINE T == {i \in 0..last : Divided(f, o[i], g[i], i)}
<1>5. 0 \in T
  <2>1. g[0] = <<>> /\ o[0] = <<>>
    BY <1>2, <1>4 DEF IsGathered, OneByOne
  <2>. QED
    BY <2>1 DEF Divided
<1>6. ASSUME NEW i \in 1..last, i - 1 \in T PROVE i \in T
  <2>1. i - 1 \in 0..last /\ i \in 0..last
    OBVIOUS
  <2>2. PICK d \in AllSets, opening \in Seq(Nat) : d = g[i - 1] /\ opening = o[i - 1]
    BY <2>1
  <2>3. Divided(f, opening, d, i - 1)
    BY <1>6, <2>2
  <2>4. Divided(f, IF i \in Openers(f) THEN Append(opening, i) ELSE opening, Joined(f, d, i), i)
    BY <1>1, <2>3, LineDivides
  <2>5. g[i] = Joined(f, d, i) /\ o[i] = IF i \in Openers(f) THEN Append(opening, i) ELSE opening
    BY <1>1, <1>2, <1>3, <1>4, <2>2 DEF IsGathered, OneByOne
  <2>. QED
    BY <2>1, <2>4, <2>5
<1>7. \A i \in 0..last : i \in T
  <2> HIDE DEF T
  <2>. QED
    BY <1>5, <1>6, StepByStep
<1>8. PICK opening \in Seq(Nat), d \in AllSets :
         opening = o[last] /\ d = g[last] /\ Divided(f, opening, d, last)
  <2>1. last \in 0..last
    OBVIOUS
  <2>. QED
    BY <1>7, <2>1
<1>9. OpeningLines(f) = opening /\ Len(d) = Len(opening)
  BY <1>3, <1>4, <1>8 DEF OpeningLines, Divided
<1>10. ASSUME NEW k \in 1..Len(opening) PROVE DataSet(f, k) = d[k]
  <2>1. PICK from, to : from = opening[k] /\ to = EndOf(opening, k, last)
    OBVIOUS
  <2>2. d[k] = Span(f, from, to)
    BY <1>8, <2>1 DEF Divided
  <2>3. DataSet(f, k) = FlattenSeq([j \in 1..(to - from + 1) |->
                           IF f[from + j - 1].kind = "data"
                           THEN [col \in 1..f[from + j - 1].n |-> <<from + j - 1, col>>]
                           ELSE <<>>])
    BY <1>1, <1>9, <2>1 DEF DataSet, EndOf
  <2>. QED
    BY <2>2, <2>3 DEF Span, Parts, Part, Row
<1>11. DataSets(f) = [k \in 1..Len(opening) |-> d[k]]
  BY <1>9, <1>10 DEF DataSets
<1>12. d = [k \in 1..Len(d) |-> d[k]]
  BY DEF AllSets
<1>. QED
  BY <1>1, <1>2, <1>8, <1>9, <1>11, <1>12

(* What has been read of the data sets d: hz and entries from the first of   *)
(* them, each of an n-port network's size, and rows from the others.         *)
IsSweep(f, d, hz, size) ==
    \A k \in 1..Len(hz) : /\ hz[k] = Hz(f, d[k]) /\ Len(d[k]) = size
                          /\ \A i \in 1..Len(d[k]) : f[d[k][i][1]].conv

IsNetwork(d, count, entries, n) ==
    \A k \in 1..count : \A i \in 1..(n * n) :
        entries[(k - 1) * (n * n) + i] = Pair(d[k], FileOrder(n, i))

IsNoise(f, d, from, rows) ==
    \A k \in 1..Len(rows) :
       /\ rows[k] = [hz |-> Hz(f, d[from + k]), values |-> Tail(d[from + k])]
       /\ Len(d[from + k]) = 5
       /\ Finite(rows[k].hz)
       /\ \A i \in 1..5 : f[d[from + k][i][1]].fin

IsRead(f, d, hz, entries, rows, n) ==
    /\ Len(d) = Len(hz) + Len(rows)
    /\ IsSweep(f, d, hz, n * n * 2 + 1)
    /\ IsNetwork(d, Len(hz), entries, n)
    /\ IsNoise(f, d, Len(hz), rows)

(* Before there is a point the number of ports does not matter.              *)
LEMMA NothingIsRead ==
    ASSUME NEW f, NEW d, NEW entries, NEW rows, NEW n, NEW m, IsRead(f, d, <<>>, entries, rows, n)
    PROVE  IsRead(f, d, <<>>, entries, rows, m)
  BY DEF IsRead, IsSweep, IsNetwork

(* A block with an n-port set's values becomes the next point (push_point).  *)
LEMMA PointIsRead ==
    ASSUME NEW f, NEW d \in AllSets, NEW b \in Seq(Places), NEW n \in Nat \ {0},
           NEW hz \in Seq(Int), NEW h \in Int, NEW entries \in Seq(Pairs),
           IsRead(f, d, hz, entries, <<>>, n),
           Len(entries) = Len(hz) * (n * n), Len(b) = n * n * 2 + 1, h = Hz(f, b),
           \A i \in 1..Len(b) : f[b[i][1]].conv
    PROVE  IsRead(f, Append(d, b), Append(hz, h), entries \o PushPoint(n, b), <<>>, n)
<1>1. PICK m \in Nat : m = Len(hz)
  OBVIOUS
<1>2. PICK e \in AllSets : /\ e = Append(d, b) /\ Len(e) = Len(d) + 1
                           /\ \A k \in 1..Len(d) : e[k] = d[k]
                           /\ e[Len(d) + 1] = b
  <2>1. d \in Seq(Seq(Places))
    BY DEF AllSets
  <2>2. PICK e \in AllSets : e = Append(d, b)
    BY <2>1, OneMore DEF AllSets
  <2>3. /\ Len(e) = Len(d) + 1 /\ e[Len(d) + 1] = b
        /\ \A k \in 1..Len(d) : e[k] = d[k]
    BY <2>1, <2>2, OneMore
  <2>. QED
    BY <2>2, <2>3
<1>3. PICK g \in Seq(Int) : /\ g = Append(hz, h) /\ Len(g) = m + 1
                            /\ \A k \in 1..m : g[k] = hz[k]
                            /\ g[m + 1] = h
  <2>1. PICK g \in Seq(Int) : g = Append(hz, h)
    BY OneMore
  <2>2. /\ Len(g) = Len(hz) + 1 /\ g[Len(hz) + 1] = h
        /\ \A k \in 1..Len(hz) : g[k] = hz[k]
    BY <2>1, OneMore
  <2>. QED
    BY <1>1, <2>1, <2>2
<1>4. PICK p \in Seq(Pairs) : /\ p = PushPoint(n, b) /\ Len(p) = n * n
                              /\ \A i \in 1..(n * n) : p[i] = Pair(b, FileOrder(n, i))
  BY PointTyped
<1>5. PICK all \in Seq(Pairs) : /\ all = entries \o p
                                /\ \A i \in 1..Len(entries) : all[i] = entries[i]
                                /\ \A i \in 1..Len(p) : all[Len(entries) + i] = p[i]
  <2>1. PICK all \in Seq(Pairs) : all = entries \o p
    BY JoinBegins
  <2>2. Begins(all, entries) /\ Holds(all, Len(entries), p)
    BY <2>1, JoinBegins
  <2>. QED
    BY <2>1, <2>2 DEF Begins, Holds
<1>6. Len(d) = m
  BY <1>1, EmptySeq DEF IsRead
<1>7. IsSweep(f, e, g, n * n * 2 + 1)
  <2>1. ASSUME NEW k \in 1..m
        PROVE  /\ g[k] = Hz(f, e[k]) /\ Len(e[k]) = n * n * 2 + 1
               /\ \A i \in 1..Len(e[k]) : f[e[k][i][1]].conv
    <3>1. e[k] = d[k] /\ g[k] = hz[k]
      BY <1>2, <1>3, <1>6
    <3>2. /\ hz[k] = Hz(f, d[k]) /\ Len(d[k]) = n * n * 2 + 1
          /\ \A i \in 1..Len(d[k]) : f[d[k][i][1]].conv
      BY <1>1 DEF IsRead, IsSweep
    <3>. QED
      BY <3>1, <3>2, Zenon
  <2>2. /\ g[m + 1] = Hz(f, e[m + 1]) /\ Len(e[m + 1]) = n * n * 2 + 1
        /\ \A i \in 1..Len(e[m + 1]) : f[e[m + 1][i][1]].conv
    BY <1>2, <1>3, <1>6
  <2>3. \A k \in 1..Len(g) : k \in 1..m \/ k = m + 1
    BY <1>3
  <2>. QED
    BY <2>1, <2>2, <2>3 DEF IsSweep
<1>8. IsNetwork(e, m + 1, all, n)
  <2>1. PICK nn \in Nat : nn = n * n
    OBVIOUS
  <2>2. ASSUME NEW k \in 1..m, NEW i \in 1..nn
        PROVE  all[(k - 1) * nn + i] = Pair(e[k], FileOrder(n, i))
    <3>1. (k - 1) * nn + i \in 1..(m * nn)
      <4>1. nn \in Nat \ {0} /\ k - 1 \in 0..(m - 1)
        BY <2>1, <2>2
      <4>. QED
        BY <4>1, ValueIsInside
    <3>2. entries[(k - 1) * nn + i] = Pair(d[k], FileOrder(n, i))
      BY <1>1, <2>1 DEF IsRead, IsNetwork
    <3>. QED
      BY <1>1, <1>2, <1>5, <1>6, <2>1, <3>1, <3>2
  <2>3. ASSUME NEW i \in 1..nn
        PROVE  all[m * nn + i] = Pair(e[m + 1], FileOrder(n, i))
    <3>1. Len(p) = nn /\ p[i] = Pair(b, FileOrder(n, i)) /\ Len(entries) = m * nn
      BY <1>1, <1>4, <2>1
    <3>2. all[Len(entries) + i] = p[i]
      BY <1>5, <3>1
    <3>. QED
      BY <1>2, <1>6, <3>1, <3>2
  <2>4. ASSUME NEW k \in 1..(m + 1), NEW i \in 1..nn
        PROVE  all[(k - 1) * nn + i] = Pair(e[k], FileOrder(n, i))
    <3>1. CASE k \in 1..m
      BY <2>2, <3>1
    <3>2. CASE k = m + 1
      <4>1. k - 1 = m
        BY <3>2
      <4>. QED
        BY <2>3, <3>2, <4>1
    <3>3. k \in 1..m \/ k = m + 1
      OBVIOUS
    <3>. QED
      BY <3>1, <3>2, <3>3
  <2>. QED
    BY <2>1, <2>4 DEF IsNetwork
<1>9. IsNoise(f, e, m + 1, <<>>) /\ Len(e) = Len(g) + Len(<<>>)
  BY <1>2, <1>3, <1>6 DEF IsNoise
<1>. QED
  BY <1>2, <1>3, <1>4, <1>5, <1>7, <1>8, <1>9 DEF IsRead

(* A block of five values becomes the next noise point (flush_noise).        *)
LEMMA NoiseIsRead ==
    ASSUME NEW f, NEW d \in AllSets, NEW b \in Seq(Places), NEW n,
           NEW hz \in Seq(Int), NEW entries, NEW rows \in Seq(NoisePoints), NEW row \in NoisePoints,
           IsRead(f, d, hz, entries, rows, n), Len(b) = 5, Finite(row.hz),
           row = [hz |-> Hz(f, b), values |-> SubSeq(b, 2, 5)],
           \A i \in 1..5 : f[b[i][1]].fin
    PROVE  IsRead(f, Append(d, b), hz, entries, Append(rows, row), n)
<1>1. PICK m \in Nat, r \in Nat : m = Len(hz) /\ r = Len(rows)
  OBVIOUS
<1>2. PICK e \in AllSets : /\ e = Append(d, b) /\ Len(e) = Len(d) + 1
                           /\ \A k \in 1..Len(d) : e[k] = d[k]
                           /\ e[Len(d) + 1] = b
  <2>1. d \in Seq(Seq(Places))
    BY DEF AllSets
  <2>2. PICK e \in AllSets : e = Append(d, b)
    BY <2>1, OneMore DEF AllSets
  <2>3. /\ Len(e) = Len(d) + 1 /\ e[Len(d) + 1] = b
        /\ \A k \in 1..Len(d) : e[k] = d[k]
    BY <2>1, <2>2, OneMore
  <2>. QED
    BY <2>2, <2>3
<1>3. PICK q \in Seq(NoisePoints) : /\ q = Append(rows, row) /\ Len(q) = r + 1
                                    /\ \A k \in 1..r : q[k] = rows[k]
                                    /\ q[r + 1] = row
  <2>1. PICK q \in Seq(NoisePoints) : q = Append(rows, row)
    BY OneMore
  <2>2. /\ Len(q) = Len(rows) + 1 /\ q[Len(rows) + 1] = row
        /\ \A k \in 1..Len(rows) : q[k] = rows[k]
    BY <2>1, OneMore
  <2>. QED
    BY <1>1, <2>1, <2>2
<1>4. Len(d) = m + r
  BY <1>1 DEF IsRead
<1>5. Tail(b) = SubSeq(b, 2, 5)
  <2>1. b # <<>>
    OBVIOUS
  <2>. QED
    BY <2>1, TailIsSubSeq
<1>6. IsSweep(f, e, hz, n * n * 2 + 1)
  <2>1. \A k \in 1..m : e[k] = d[k]
    BY <1>2, <1>4
  <2>. QED
    BY <1>1, <2>1 DEF IsRead, IsSweep, Hz
<1>7. IsNetwork(e, m, entries, n)
  <2>1. \A k \in 1..m : e[k] = d[k]
    BY <1>2, <1>4, SMTT(30)
  <2>. QED
    BY <1>1, <2>1 DEF IsRead, IsNetwork
<1>8. IsNoise(f, e, m, q)
  <2>1. ASSUME NEW k \in 1..r
        PROVE  /\ q[k] = [hz |-> Hz(f, e[m + k]), values |-> Tail(e[m + k])]
               /\ Len(e[m + k]) = 5
               /\ Finite(q[k].hz)
               /\ \A i \in 1..5 : f[e[m + k][i][1]].fin
    <3>1. m + k \in 1..Len(d) /\ q[k] = rows[k]
      BY <1>3, <1>4
    <3>2. e[m + k] = d[m + k]
      BY <1>2, <3>1
    <3>. QED
      BY <1>1, <3>1, <3>2 DEF IsRead, IsNoise
  <2>2. /\ q[r + 1] = [hz |-> Hz(f, e[m + (r + 1)]), values |-> Tail(e[m + (r + 1)])]
        /\ Len(e[m + (r + 1)]) = 5
        /\ Finite(q[r + 1].hz)
        /\ \A i \in 1..5 : f[e[m + (r + 1)][i][1]].fin
    <3>1. e[m + (r + 1)] = b
      BY <1>2, <1>4, SMTT(30)
    <3>. QED
      BY <1>3, <1>5, <3>1
  <2>3. \A k \in 1..Len(q) : k \in 1..r \/ k = r + 1
    BY <1>3
  <2>. QED
    BY <2>1, <2>2, <2>3 DEF IsNoise
<1>. QED
  BY <1>1, <1>2, <1>3, <1>4, <1>6, <1>7, <1>8 DEF IsRead

(* A call that has not failed.                                               *)
Live == pc # "done" \/ outcome.kind = "network"

(* A block no flush will take: it began with an even line, one that opens no *)
(* data set.                                                                 *)
Poisoned == block # <<>> /\ ~Odd(Len(block))

(* The data sets on the lines taken so far.                                  *)
Seen == SetsUpTo(file)[ReadUpTo]

(* The data sets on the lines read, but for the open block all read into the *)
(* network.                                                                  *)
SetsInv ==
    Live /\ ~Poisoned =>
        \E d \in AllSets : /\ Seen = IF block = <<>> THEN d ELSE Append(d, block)
                           /\ IsRead(file, d, freqHz, s, noise, nports)

(* The port count is one that data sets have, and somebody's.                *)
PortsInv ==
    Live =>
        /\ freqHz # <<>> => ValuesPerPoint(nports) # None
        /\ hint = None /\ nports # None => freqHz # <<>>
        /\ outcome.kind = "network" =>
              /\ pc = "done" /\ block = <<>> /\ freqHz # <<>> /\ optionLine # 0
              /\ ReferenceNamesPorts(file[optionLine].n, nports)

(* They are those of the line before and one line more.                      *)
LEMMA SeenIs ==
    ASSUME IInv
    PROVE  /\ ReadUpTo \in 0..Len(file) /\ Len(file) \in Nat /\ Seen \in AllSets
           /\ \A i \in 1..Len(file) :
                 /\ SetsUpTo(file)[i - 1] \in AllSets
                 /\ SetsUpTo(file)[i] = Joined(file, SetsUpTo(file)[i - 1], i)
<1>1. file \in Seq(Lines)
  BY DEF IInv, TypeOK
<1>2. PICK f \in Seq(Lines), last \in Nat : f = file /\ last = Len(f)
  BY <1>1
<1>3. SetsUpTo(f) \in [0..last -> AllSets] /\ \A i \in 1..last : SetsUpTo(f)[i] = Joined(f, SetsUpTo(f)[i - 1], i)
  BY <1>2, SetsAreGathered DEF IsGathered
<1>4. \A i \in 1..last : i - 1 \in 0..last
  OBVIOUS
<1>5. ReadUpTo \in 0..last
  BY <1>2 DEF ReadUpTo, IInv, TypeOK, ControlInv
<1>. QED
  BY <1>2, <1>3, <1>4, <1>5 DEF Seen

(* A line that is not data changes no set.                                   *)
LEMMA SeenIsKept ==
    ASSUME IInv, file' = file,
           \/ ReadUpTo' = ReadUpTo
           \/ ReadUpTo' \in 1..Len(file) /\ ReadUpTo' = ReadUpTo + 1 /\ ~IsData(ReadUpTo')
    PROVE  Seen' = Seen
<1>1. Seen' = SetsUpTo(file)[ReadUpTo']
  BY DEF Seen
<1>2. CASE ReadUpTo' = ReadUpTo
  BY <1>1, <1>2 DEF Seen
<1>3. CASE ReadUpTo' \in 1..Len(file) /\ ReadUpTo' = ReadUpTo + 1 /\ ~IsData(ReadUpTo')
  <2>1. PICK i \in 1..Len(file) : i = ReadUpTo' /\ i - 1 = ReadUpTo /\ file[i].kind # "data"
    BY <1>3, SeenIs DEF IsData
  <2>2. SetsUpTo(file)[i] = Joined(file, SetsUpTo(file)[i - 1], i)
    BY SeenIs
  <2>. QED
    BY <1>1, <2>1, <2>2 DEF Seen, Joined
<1>. QED
  BY <1>2, <1>3

(* Nor what has been read of them.                                           *)
LEMMA ScanKeepsSets ==
    ASSUME IInv, SetsInv, Live, UNCHANGED <<input, sets>>,
           \/ ReadUpTo' = ReadUpTo
           \/ ReadUpTo' \in 1..Len(file) /\ ReadUpTo' = ReadUpTo + 1 /\ ~IsData(ReadUpTo')
    PROVE  SetsInv'
<1>1. SUFFICES ASSUME ~Poisoned
      PROVE  \E d \in AllSets : /\ Seen' = IF block = <<>> THEN d ELSE Append(d, block)
                                /\ IsRead(file, d, freqHz, s, noise, nports)
  BY DEF SetsInv, Poisoned, input, sets
<1>2. Seen' = Seen
  BY SeenIsKept DEF input
<1>. QED
  BY <1>1, <1>2 DEF SetsInv

(* The last set of some grows.                                               *)
LEMMA LastGrows ==
    ASSUME NEW d \in AllSets, NEW b \in Seq(Places), NEW e \in Seq(Places)
    PROVE  LET all == Append(d, b) IN
           /\ all # <<>> /\ all[Len(all)] = b
           /\ [all EXCEPT ![Len(all)] = e] = Append(d, e)
<1>1. d \in Seq(Seq(Places))
  BY DEF AllSets
<1>2. PICK all \in Seq(Seq(Places)), m \in Nat : all = Append(d, b) /\ m = Len(d)
  <2>1. Append(d, b) \in Seq(Seq(Places))
    BY <1>1, OneMore
  <2>2. Len(d) \in Nat
    BY <1>1
  <2>. QED
    BY <2>1, <2>2
<1>3. Len(all) = m + 1 /\ all[m + 1] = b /\ \A k \in 1..m : all[k] = d[k]
  BY <1>1, <1>2, OneMore
<1>4. PICK more \in Seq(Seq(Places)) : more = Append(d, e)
  BY <1>1, OneMore
<1>5. Len(more) = m + 1 /\ more[m + 1] = e /\ \A k \in 1..m : more[k] = d[k]
  BY <1>1, <1>2, <1>4, OneMore
<1>6. PICK last \in 1..Len(all) : last = m + 1
  BY <1>3
<1>7. PICK new \in Seq(Seq(Places)) : new = [all EXCEPT ![last] = e]
  BY ExceptSeq
<1>8. Len(new) = Len(all) /\ \A k \in 1..Len(all) : new[k] = IF k = last THEN e ELSE all[k]
  BY <1>7, ExceptSeq
<1>9. ASSUME NEW k \in 1..(m + 1) PROVE new[k] = more[k]
  <2>1. k \in 1..Len(all) /\ (k \in 1..m \/ k = m + 1)
    BY <1>3
  <2>2. new[k] = IF k = last THEN e ELSE all[k]
    BY <1>8, <2>1
  <2>. QED
    BY <1>3, <1>5, <1>6, <2>1, <2>2
<1>10. new = more
  BY <1>3, <1>5, <1>8, <1>9, SeqEqual
<1>11. all # <<>>
  BY <1>3
<1>. QED
  BY <1>2, <1>3, <1>4, <1>6, <1>7, <1>10, <1>11

(* A data line does to the open block what it does to the last set.          *)
LEMMA ExtendKeepsSets ==
    ASSUME IInv, BlameInv, SetsInv, ExtendBlock
    PROVE  SetsInv'
<1>1. CASE pc' = "done"
  <2>1. \/ outcome'.kind = "UnusablePortCount"
        \/ outcome' = outcome
    BY DEF ExtendBlock, Fail, Answer
  <2>2. outcome.kind = "reading"
    BY DEF ExtendBlock, BlameInv
  <2>. QED
    BY <1>1, <2>1, <2>2 DEF SetsInv, Live
<1>2. CASE pc' # "done"
  <2>1. /\ pos \in 1..Len(file)
        /\ block = <<>> \/ ~Odd(file[pos].n)
        /\ pc # "done" /\ ReadUpTo = pos - 1 /\ file[pos].kind = "data"
    BY DEF ExtendBlock, ClosesBlock, IInv, ControlInv, TypeOK, ReadUpTo, BlameInv, IsData
  <2>2. /\ block' = block \o Row(file, pos) /\ pc' \in {"line", "full"}
        /\ UNCHANGED <<input, pos, freqHz, nports, s, noise>>
    BY <1>2 DEF ExtendBlock, Fail, Answer, Values, Row
  <2>21. file \in Seq(Lines)
    BY DEF IInv, TypeOK
  <2>22. PICK f \in Seq(Lines) : f = file
    BY <2>21
  <2>23. PICK i \in 1..Len(f) : i = pos
    BY <2>1, <2>22
  <2>3. f = file /\ i = pos /\ i \in 1..Len(file)
    BY <2>22, <2>23
  <2>24. Row(f, i) \in Seq(Places) /\ Len(Row(f, i)) = f[i].n /\ f[i].n \in Nat \ {0}
    BY RowIsTyped
  <2>4. PICK b \in Seq(Places), row \in Seq(Places) :
           b = block /\ row = Row(f, i) /\ Len(row) = f[i].n /\ f[i].n \in Nat \ {0}
    BY <2>24 DEF IInv, TypeOK
  <2>5. Seen' = Joined(f, Seen, i)
    <3>1. ReadUpTo' = i
      BY <2>2, <2>3 DEF ReadUpTo
    <3>2. SetsUpTo(file)[i] = Joined(file, SetsUpTo(file)[i - 1], i)
      BY <2>3, SeenIs
    <3>. QED
      BY <2>1, <2>2, <2>3, <3>1, <3>2 DEF Seen, input
  <2>6. PICK new \in Seq(Places) : new = b \o row /\ Len(new) = Len(b) + f[i].n
    <3>1. b \o row \in Seq(Places) /\ Len(b \o row) = Len(b) + Len(row)
      BY ConcatProperties
    <3>. QED
      BY <2>4, <3>1
  <2>7. new = block' /\ new # <<>> /\ file' = f
    BY <2>2, <2>3, <2>4, <2>6 DEF input
  <2>8. SUFFICES ASSUME Odd(Len(new))
                 PROVE  \E d \in AllSets : /\ Joined(f, Seen, i) = Append(d, new)
                                           /\ IsRead(f, d, freqHz, s, noise, nports)
    BY <2>2, <2>5, <2>7 DEF SetsInv, Poisoned
  <2>9. CASE b = <<>>
    <3>1. new = row
      BY <2>6, <2>9, ConcatEmptySeq
    <3>2. PICK d \in AllSets : Seen = d /\ IsRead(f, d, freqHz, s, noise, nports)
      BY <2>1, <2>3, <2>4, <2>9 DEF SetsInv, Live, Poisoned
    <3>3. Odd(f[i].n)
      BY <2>4, <2>8, <3>1
    <3>4. Joined(f, Seen, i) = Append(d, row)
      BY <2>1, <2>3, <2>4, <3>2, <3>3 DEF Joined
    <3>. QED
      BY <3>1, <3>2, <3>4
  <2>10. CASE b # <<>>
    <3>1. ~Odd(f[i].n)
      BY <2>1, <2>3, <2>4, <2>10
    <3>2. Odd(Len(b))
      <4>1. PICK x \in Nat, y \in Nat : x = Len(b) /\ y = f[i].n
        BY <2>4
      <4>2. (x + y) % 2 = 1 /\ ~(y % 2 = 1)
        BY <2>6, <2>8, <3>1, <4>1 DEF Odd
      <4>3. x % 2 = 1
        BY <4>2, Parity
      <4>. QED
        BY <4>1, <4>3 DEF Odd
    <3>3. PICK d \in AllSets : Seen = Append(d, b) /\ IsRead(f, d, freqHz, s, noise, nports)
      BY <2>1, <2>3, <2>4, <2>10, <3>2 DEF SetsInv, Live, Poisoned
    <3>4. PICK all : all = Append(d, b)
      OBVIOUS
    <3>5. all # <<>> /\ all[Len(all)] = b /\ [all EXCEPT ![Len(all)] = new] = Append(d, new)
      BY <3>4, LastGrows
    <3>6. Joined(f, all, i) = [all EXCEPT ![Len(all)] = new]
      BY <2>1, <2>3, <2>4, <2>6, <3>1, <3>5 DEF Joined
    <3>. QED
      BY <3>3, <3>4, <3>5, <3>6
  <2>. QED
    BY <2>9, <2>10
<1>. QED
  BY <1>1, <1>2

(* A flushed block is a set that has been read.                              *)
LEMMA FlushKeepsSets ==
    ASSUME IInv, SetsInv, Flushing, block' = <<>>, pc' = AfterFlush,
           UNCHANGED <<input, pos>>, Odd(Len(block)),
           \A d \in AllSets : IsRead(file, d, freqHz, s, noise, nports) =>
               IsRead(file, Append(d, block), freqHz', s', noise', nports')
    PROVE  SetsInv'
<1>1. PICK b \in Seq(Places) : b = block /\ b # <<>>
  BY FlushFacts
<1>2. pc # "done" /\ ReadUpTo' = ReadUpTo
  BY DEF Flushing, AfterFlush, ReadUpTo
<1>3. PICK d \in AllSets : Seen = Append(d, b) /\ IsRead(file, d, freqHz, s, noise, nports)
  BY <1>1, <1>2 DEF SetsInv, Live, Poisoned
<1>4. Append(d, b) \in AllSets
  <2>1. d \in Seq(Seq(Places))
    BY DEF AllSets
  <2>. QED
    BY <2>1, OneMore DEF AllSets
<1>5. IsRead(file, Append(d, b), freqHz', s', noise', nports')
  BY <1>1, <1>3
<1>6. Seen' = Append(d, b)
  BY <1>2, <1>3 DEF Seen, input
<1>7. file' = file
  BY DEF input
<1>. QED
  BY <1>4, <1>5, <1>6, <1>7 DEF SetsInv

(* A point is a data set read.                                               *)
LEMMA PointKeepsSets ==
    ASSUME IInv, SetsInv, PortsInv, AddPoint
    PROVE  SetsInv'
<1>1. /\ Flushing /\ block' = <<>> /\ pc' = AfterFlush /\ UNCHANGED <<input, pos, noise>>
      /\ nports' = SetPorts /\ s' = s \o PushPoint(SetPorts, block)
      /\ freqHz' = Append(freqHz, BlockHz(block)) /\ ~inNoise
  BY DEF AddPoint, ReadsNoise
<1>2. PICK n \in Nat \ {0} : n = SetPorts /\ Len(block) = n * n * 2 + 1
  BY PointPasses
<1>3. Converts(block)
  BY DEF AddPoint, SetFault, ReadsNoise, PointFault, NoFault
<1>4. noise = <<>>
  BY <1>1 DEF IInv, NoiseFollowsTwoPortSweep
<1>5. PICK b \in Seq(Places), h \in Int : b = block /\ h = BlockHz(block)
  BY <1>1, FlushFacts
<1>6. PICK hz \in Seq(Int), entries \in Seq(Pairs) : hz = freqHz /\ entries = s
  BY DEF IInv, TypeOK
<1>7. Odd(Len(block))
  <2>1. PICK m \in Nat : m = n * n
    OBVIOUS
  <2>2. Len(block) = m * 2 + 1
    BY <1>2, <2>1
  <2>. QED
    BY <2>2 DEF Odd
<1>8. nports # None => n = nports
  BY <1>1, <1>2, FlushFacts
<1>9. nports = None => hz = <<>> /\ Len(entries) = 0
  BY <1>6 DEF IInv, ShapeInv
<1>10. Len(entries) = Len(hz) * (n * n)
  <2>1. CASE nports = None
    <3>1. 0 * (n * n) = 0
      OBVIOUS
    <3>. QED
      BY <1>9, <2>1, <3>1
  <2>2. CASE nports # None
    BY <1>6, <1>8, <2>2 DEF IInv, ShapeInv
  <2>. QED
    BY <2>1, <2>2
<1>11. h = Hz(file, b) /\ \A i \in 1..Len(b) : file[b[i][1]].conv
  BY <1>3, <1>5 DEF Hz, BlockHz, Converts
<1>12. ASSUME NEW d \in AllSets, IsRead(file, d, freqHz, s, noise, nports)
       PROVE  IsRead(file, Append(d, block), freqHz', s', noise', nports')
  <2>1. IsRead(file, d, hz, entries, <<>>, n)
    <3>1. CASE nports = None
      BY <1>4, <1>6, <1>9, <1>12, <3>1, NothingIsRead
    <3>2. CASE nports # None
      BY <1>4, <1>6, <1>8, <1>12, <3>2
    <3>. QED
      BY <3>1, <3>2
  <2>2. IsRead(file, Append(d, b), Append(hz, h), entries \o PushPoint(n, b), <<>>, n)
    BY <1>2, <1>5, <1>10, <1>11, <2>1, PointIsRead
  <2>. QED
    BY <1>1, <1>2, <1>4, <1>5, <1>6, <2>2
<1>. QED
  BY <1>1, <1>7, <1>12, FlushKeepsSets

(* So is a noise point.                                                      *)
LEMMA NoiseKeepsSets ==
    ASSUME IInv, SetsInv, PortsInv, BeginNoise \/ AddNoisePoint
    PROVE  SetsInv'
<1>1. /\ Flushing /\ NoiseFault = NoFault
  BY DEF BeginNoise, AddNoisePoint, SetFault, ReadsNoise, NoFault
<1>2. /\ noise' = Append(noise, NoisePoint(block)) /\ block' = <<>>
      /\ pc' = AfterFlush /\ UNCHANGED <<input, pos, s, freqHz>>
  BY DEF BeginNoise, AddNoisePoint
<1>3. nports' = nports
  <2>1. CASE AddNoisePoint
    BY <2>1 DEF AddNoisePoint
  <2>2. CASE BeginNoise
    <3>1. freqHz # <<>> /\ nports' = SetPorts
      BY <2>2 DEF BeginNoise, AtNoiseBoundary
    <3>2. nports # None
      BY <3>1 DEF IInv, ShapeInv
    <3>. QED
      BY <1>1, <3>1, <3>2, FlushFacts
  <2>. QED
    BY <2>1, <2>2
<1>4. /\ block \in Seq(Places) /\ Len(block) = 5
      /\ Finite(BlockHz(block)) /\ AllFinite(block)
  BY <1>1, FlushFacts DEF NoiseFault, NoFault, NoiseValuesPerSet
<1>5. PICK b \in Seq(Places), row \in NoisePoints :
         /\ b = block /\ row = NoisePoint(b) /\ row = [hz |-> Hz(file, b), values |-> SubSeq(b, 2, 5)]
         /\ row.hz = BlockHz(b)
  BY <1>1, <1>4, NoiseRowPasses DEF NoisePoint, NoiseValuesPerSet, BlockHz, Hz
<1>6. \A i \in 1..5 : file[b[i][1]].fin
  BY <1>4, <1>5 DEF AllFinite
<1>7. PICK hz \in Seq(Int), rows \in Seq(NoisePoints) : hz = freqHz /\ rows = noise
  BY DEF IInv, TypeOK
<1>8. Odd(Len(block))
  BY <1>4 DEF Odd
<1>9. ASSUME NEW d \in AllSets, IsRead(file, d, freqHz, s, noise, nports)
      PROVE  IsRead(file, Append(d, block), freqHz', s', noise', nports')
  <2>1. IsRead(file, Append(d, b), hz, s, Append(rows, row), nports)
    BY <1>4, <1>5, <1>6, <1>7, <1>9, NoiseIsRead
  <2>. QED
    BY <1>2, <1>3, <1>5, <1>7, <2>1
<1>. QED
  BY <1>1, <1>2, <1>8, <1>9, FlushKeepsSets

(* What the lines taken so far can have been, and that the option line is    *)
(* the first of its kind, above all data.                                    *)
HeadInv ==
    Live =>
        /\ optionLine <= pos
        /\ \A i \in 1..pos : /\ file[i].kind # "keyword"
                             /\ IsData(i) => file[i].form # "malformed"
        /\ optionLine = 0 => \A i \in 1..pos : file[i].kind \notin {"option", "data"}
        /\ optionLine # 0 =>
              /\ file[optionLine].kind = "option" /\ file[optionLine].form = "ok"
              /\ \A i \in 1..(optionLine - 1) : file[i].kind \notin {"option", "data"}

(* Every data set that has been closed began with a finite frequency, and    *)
(* no data line stands above the first of them.                              *)
OpenersInv ==
    Live =>
        /\ \A i \in 1..(FirstUnread - 1) : IsData(i) /\ Odd(file[i].n) => Finite(file[i].hz)
        /\ ~Poisoned => \A i \in 1..ReadUpTo :
                           IsData(i) => \E j \in 1..i : IsData(j) /\ Odd(file[j].n)

(* What holds of the file and what has been read of it.                      *)
GrammarInv == SetsInv /\ PortsInv /\ HeadInv /\ OpenersInv

(* The steps of a call that does not fail.                                   *)
TakesLine ==
    /\ pc = "line" /\ pos' = pos + 1 /\ pos' \in 1..Len(file)
    /\ UNCHANGED <<sets, outcome>>
    /\ file[pos'].kind # "keyword"
    /\ \/ /\ pc' = "line" /\ ~IsData(pos')
          /\ optionLine' = optionLine
          /\ file[pos'].kind = "option" => optionLine # 0
       \/ /\ pc' = "line" /\ ~IsData(pos')
          /\ optionLine = 0 /\ optionLine' = pos'
          /\ file[pos'].kind = "option" /\ file[pos'].form = "ok"
       \/ /\ pc' = "push" /\ IsData(pos')
          /\ file[pos'].form # "malformed"
          /\ optionLine # 0 /\ optionLine' = optionLine

(* The steps after the last line.                                            *)
Ends ==
    /\ UNCHANGED <<sets, pos, optionLine>>
    /\ \/ /\ pc = "line" /\ pc' \in {"close", "last"} /\ outcome' = outcome
       \/ /\ pc = "close" /\ pc' = "done" /\ block = <<>> /\ freqHz # <<>>
          /\ optionLine # 0 /\ ReferenceNamesPorts(file[optionLine].n, nports)

(* A line's values taken, and a block turned into data.                      *)
Extends == ExtendBlock /\ pc' # "done"

Flushes == AddPoint \/ BeginNoise \/ AddNoisePoint

(* Every other step fails the call.                                          *)
LEMMA LiveSteps ==
    ASSUME IInv, BlameInv, [Next]_vars, Live'
    PROVE  /\ Live /\ UNCHANGED input
           /\ UNCHANGED vars \/ TakesLine \/ Extends \/ Flushes \/ Ends
           /\ ~UNCHANGED vars => pc # "done" /\ outcome.kind = "reading"
<1>1. CASE UNCHANGED vars
  BY <1>1 DEF Live, vars
<1>2. pc # "done" => outcome.kind = "reading"
  BY DEF BlameInv
<1>3. ASSUME NEW kind \in SetFaults \cup LineFaults, NEW line, Fail(kind, line)
      PROVE  FALSE
  BY <1>3 DEF Fail, Answer, Live, SetFaults, LineFaults
<1>4. CASE SkipEmptyLine
  BY <1>2, <1>4, SMTT(30) DEF SkipEmptyLine, LineIs, NextLine, TakesLine, Live, IInv, TypeOK, IsData
<1>5. CASE TakeOptionLine
  <2>1. ~Fail("OptionLineFault", NextLine) /\ ~Fail("UnsupportedParameter", NextLine)
    BY <1>3 DEF LineFaults
  <2>. QED
    BY <1>2, <1>5, <2>1 DEF TakeOptionLine, LineIs, NextLine, TakesLine, Live, IInv, TypeOK, IsData
<1>6. CASE IgnoreOptionLine
  BY <1>2, <1>6 DEF IgnoreOptionLine, LineIs, NextLine, TakesLine, Live, IInv, TypeOK, IsData
<1>7. CASE RejectKeyword
  <2>1. ~Fail("V2KeywordInV1File", NextLine) /\ ~Fail("KeywordFault", NextLine)
    BY <1>3 DEF LineFaults
  <2>. QED
    BY <1>7, <2>1 DEF RejectKeyword
<1>8. CASE TakeDataLine
  <2>1. ~Fail("DataBeforeOptionLine", NextLine) /\ ~Fail("InvalidNumber", NextLine)
    BY <1>3 DEF LineFaults
  <2>. QED
    BY <1>2, <1>8, <2>1 DEF TakeDataLine, LineIs, NextLine, TakesLine, Live, IInv, TypeOK, IsData
<1>9. CASE ExtendBlock
  <2>1. ~Fail("UnusablePortCount", pos)
    BY <1>3 DEF LineFaults
  <2>2. pc' # "done" /\ UNCHANGED input /\ pc # "done"
    BY <1>9, <2>1 DEF ExtendBlock
  <2>. QED
    BY <1>2, <1>9, <2>2 DEF Extends, Live
<1>10. CASE Flushes
  <2>1. UNCHANGED input /\ pc # "done"
    BY <1>10 DEF Flushes, AddPoint, BeginNoise, AddNoisePoint, Flushing
  <2>. QED
    BY <1>2, <1>10, <2>1 DEF Live
<1>11. CASE RejectSet
  <2>1. SetFault \in SetFaults \cup LineFaults
    BY <1>11 DEF RejectSet, SetFault, NoiseFault, PointFault, NoFault, SetFaults, LineFaults
  <2>. QED
    BY <1>3, <1>11, <2>1 DEF RejectSet
<1>12. CASE ReachEnd
  <2>1. ~Fail("MissingOptionLine", 1)
    BY <1>3 DEF LineFaults
  <2>. QED
    BY <1>2, <1>12, <2>1 DEF ReachEnd, Ends, Live
<1>13. CASE Close
  <2>1. ~Fail("NoDataLines", optionLine) /\ ~Fail("WrongResistanceCount", optionLine)
    BY <1>3 DEF LineFaults
  <2>. QED
    BY <1>2, <1>13, <2>1 DEF Close, Answer, Ends, Live, IInv, ControlInv
<1>14. CASE Done
  BY <1>1, <1>14 DEF Done
<1>. QED
  BY <1>1, <1>4, <1>5, <1>6, <1>7, <1>8, <1>9, <1>10, <1>11, <1>12, <1>13, <1>14 DEF Next, Flushes

(* No step revises a port count.                                             *)
LEMMA StepKeepsPorts ==
    ASSUME IInv, BlameInv, PortsInv, [Next]_vars
    PROVE  PortsInv'
<1> SUFFICES ASSUME Live' PROVE PortsInv'
  BY DEF PortsInv
<1>1. /\ Live /\ UNCHANGED input
      /\ UNCHANGED vars \/ TakesLine \/ Extends \/ Flushes \/ Ends
      /\ ~UNCHANGED vars => pc # "done" /\ outcome.kind = "reading"
  BY LiveSteps
<1>2. CASE UNCHANGED vars
  BY <1>2 DEF PortsInv, Live, vars, sets, input
<1>3. CASE TakesLine /\ ~UNCHANGED vars
  BY <1>1, <1>3 DEF PortsInv, TakesLine, sets, input
<1>4. CASE Extends /\ ~UNCHANGED vars
  <2>1. UNCHANGED <<nports, freqHz, outcome>>
    BY <1>4 DEF Extends, ExtendBlock, Fail, Answer
  <2>. QED
    BY <1>1, <1>4, <2>1 DEF PortsInv, input
<1>5. CASE Ends /\ ~UNCHANGED vars
  BY <1>1, <1>5 DEF PortsInv, Ends, sets, input
<1>6. CASE Flushes /\ ~UNCHANGED vars
  <2>1. outcome' = outcome /\ Flushing
    BY <1>6 DEF Flushes, AddPoint, BeginNoise, AddNoisePoint
  <2>2. CASE AddPoint
    <3>1. ValuesPerPoint(SetPorts) # None /\ nports' = SetPorts
      BY <2>2 DEF AddPoint, SetFault, ReadsNoise, PointFault, NoFault
    <3>2. freqHz' # <<>>
      <4>1. PICK hz \in Seq(Int), h \in Int : hz = freqHz /\ h = BlockHz(block)
        BY <2>1, FlushFacts DEF IInv, TypeOK
      <4>2. Append(hz, h) \in Seq(Int) /\ Len(Append(hz, h)) = Len(hz) + 1
        BY OneMore
      <4>. QED
        BY <2>2, <4>1, <4>2 DEF AddPoint
    <3>. QED
      BY <1>1, <1>6, <2>1, <3>1, <3>2 DEF PortsInv, input
  <2>3. CASE BeginNoise \/ AddNoisePoint
    <3>1. freqHz # <<>> /\ freqHz' = freqHz
      BY <2>3 DEF BeginNoise, AddNoisePoint, AtNoiseBoundary, ReadsNoise, IInv, NoiseFollowsTwoPortSweep
    <3>2. nports # None
      BY <3>1 DEF IInv, ShapeInv
    <3>3. nports' = nports
      BY <2>1, <2>3, <3>2, FlushFacts DEF BeginNoise, AddNoisePoint
    <3>. QED
      BY <1>1, <1>6, <2>1, <3>1, <3>3 DEF PortsInv, input
  <2>. QED
    BY <1>6, <2>2, <2>3 DEF Flushes
<1>. QED
  BY <1>1, <1>2, <1>3, <1>4, <1>5, <1>6

(* Every step that does not fail reads the data sets as the file divides.    *)
LEMMA StepKeepsSets ==
    ASSUME IInv, BlameInv, SetsInv, PortsInv, [Next]_vars
    PROVE  SetsInv'
<1> SUFFICES ASSUME Live' PROVE SetsInv'
  BY DEF SetsInv
<1>1. /\ Live /\ UNCHANGED input
      /\ UNCHANGED vars \/ TakesLine \/ Extends \/ Flushes \/ Ends
      /\ ~UNCHANGED vars => pc # "done" /\ outcome.kind = "reading"
  BY LiveSteps
<1>2. CASE UNCHANGED vars \/ TakesLine \/ Ends
  <2>1. UNCHANGED sets /\ pos \in Nat
    BY <1>2 DEF vars, TakesLine, Ends, IInv, TypeOK
  <2>2. \/ ReadUpTo' = ReadUpTo
        \/ ReadUpTo' \in 1..Len(file) /\ ReadUpTo' = ReadUpTo + 1 /\ ~IsData(ReadUpTo')
    BY <1>2, <2>1 DEF vars, TakesLine, Ends, ReadUpTo
  <2>. QED
    BY <1>1, <2>1, <2>2, ScanKeepsSets
<1>3. CASE Extends
  BY <1>3, ExtendKeepsSets DEF Extends
<1>4. CASE Flushes
  BY <1>4, PointKeepsSets, NoiseKeepsSets DEF Flushes
<1>. QED
  BY <1>1, <1>2, <1>3, <1>4

(* The loop lets no line pass that a well-formed file cannot have.           *)
LEMMA StepKeepsHead ==
    ASSUME IInv, BlameInv, HeadInv, [Next]_vars
    PROVE  HeadInv'
<1> SUFFICES ASSUME Live' PROVE HeadInv'
  BY DEF HeadInv
<1>1. /\ Live /\ UNCHANGED input
      /\ UNCHANGED vars \/ TakesLine \/ Extends \/ Flushes \/ Ends
      /\ ~UNCHANGED vars => pc # "done" /\ outcome.kind = "reading"
  BY LiveSteps
<1>2. CASE UNCHANGED <<pos, optionLine>>
  BY <1>1, <1>2 DEF HeadInv, input, IsData
<1>3. CASE TakesLine
  <2>1. pos \in Nat /\ optionLine \in 0..pos /\ pos' = pos + 1
    BY <1>1, <1>3 DEF TakesLine, HeadInv, IInv, TypeOK
  <2>. QED
    BY <1>1, <1>3, <2>1 DEF HeadInv, TakesLine, input, IsData
<1>4. UNCHANGED vars \/ Extends \/ Flushes \/ Ends => UNCHANGED <<pos, optionLine>>
  BY DEF vars, Extends, ExtendBlock, Flushes, AddPoint, BeginNoise, AddNoisePoint, Ends
<1>. QED
  BY <1>1, <1>2, <1>3, <1>4

(* A set passes its flush only with a finite frequency in front.             *)
LEMMA StepKeepsOpeners ==
    ASSUME IInv, BlameInv, OpenersInv, [Next]_vars
    PROVE  OpenersInv'
<1> SUFFICES ASSUME Live' PROVE OpenersInv'
  BY DEF OpenersInv
<1>1. /\ Live /\ UNCHANGED input
      /\ UNCHANGED vars \/ TakesLine \/ Extends \/ Flushes \/ Ends
      /\ ~UNCHANGED vars => pc # "done" /\ outcome.kind = "reading"
  BY LiveSteps
<1>2. CASE UNCHANGED vars \/ TakesLine \/ Ends
  <2>1. UNCHANGED sets /\ pos \in Nat /\ blockLine \in Nat
    BY <1>2 DEF vars, TakesLine, Ends, IInv, TypeOK
  <2>2. \/ ReadUpTo' = ReadUpTo
        \/ ReadUpTo' = ReadUpTo + 1 /\ ~IsData(ReadUpTo')
    BY <1>2, <2>1 DEF vars, TakesLine, Ends, ReadUpTo
  <2>3. ReadUpTo \in Int
    BY <2>1 DEF ReadUpTo
  <2>4. \/ FirstUnread' = FirstUnread
        \/ FirstUnread' = FirstUnread + 1 /\ ~IsData(FirstUnread) /\ FirstUnread \in Int
    BY <2>1, <2>2, <2>3 DEF FirstUnread, sets
  <2>5. \A i \in 1..(FirstUnread' - 1) : IsData(i) /\ Odd(file[i].n) => Finite(file[i].hz)
    BY <1>1, <2>1, <2>3, <2>4 DEF OpenersInv, FirstUnread
  <2>6. ASSUME ~Poisoned, NEW i \in 1..ReadUpTo', IsData(i)
        PROVE  \E j \in 1..i : IsData(j) /\ Odd(file[j].n)
    BY <1>1, <2>2, <2>3, <2>6 DEF OpenersInv
  <2>. QED
    BY <1>1, <2>1, <2>5, <2>6 DEF OpenersInv, Poisoned, IsData, sets, input
<1>3. CASE Extends
  <2>1. /\ pos \in 1..Len(file) /\ pos \in Nat
        /\ block = <<>> \/ ~Odd(file[pos].n)
        /\ pc # "done" /\ ReadUpTo = pos - 1 /\ IsData(pos)
    BY <1>3 DEF Extends, ExtendBlock, ClosesBlock, IInv, ControlInv, TypeOK, ReadUpTo, BlameInv
  <2>2. /\ block' = block \o Row(file, pos) /\ blockLine' = OpenedOn
        /\ pc' \in {"line", "full"} /\ UNCHANGED <<input, pos>>
    BY <1>3 DEF Extends, ExtendBlock, Fail, Answer, Values, Row
  <2>3. file \in Seq(Lines) /\ block \in Seq(Places)
    BY DEF IInv, TypeOK
  <2>4. Row(file, pos) \in Seq(Places) /\ Len(Row(file, pos)) = file[pos].n /\ file[pos].n \in Nat \ {0}
    BY <2>1, <2>3, RowIsTyped
  <2>5. /\ block' \in Seq(Places) /\ Len(block') = Len(block) + file[pos].n /\ block' # <<>>
        /\ Len(block) \in Nat
    BY <2>2, <2>3, <2>4, ConcatProperties, SMTT(30)
  <2>6. FirstUnread' = FirstUnread /\ ReadUpTo' = pos
    <3>1. (pos - 1) + 1 = pos /\ ReadUpTo' = pos
      BY <2>1, <2>2 DEF ReadUpTo
    <3>2. FirstUnread' = OpenedOn
      BY <2>2, <2>5 DEF FirstUnread
    <3>. QED
      BY <2>1, <3>1, <3>2 DEF FirstUnread, OpenedOn
  <2>7. ASSUME ~Poisoned', NEW i \in 1..pos, IsData(i)
        PROVE  \E j \in 1..i : IsData(j) /\ Odd(file[j].n)
    <3>1. Odd(Len(block'))
      BY <2>5, <2>7 DEF Poisoned
    <3>2. CASE block = <<>>
      <4>1. Odd(file[pos].n) /\ ~Poisoned
        BY <2>4, <2>5, <3>1, <3>2 DEF Poisoned
      <4>. QED
        BY <1>1, <2>1, <2>7, <4>1 DEF OpenersInv
    <3>3. CASE block # <<>>
      <4>1. PICK x \in Nat, y \in Nat : x = Len(block) /\ y = file[pos].n
        BY <2>4, <2>5
      <4>2. (x + y) % 2 = 1 /\ ~(y % 2 = 1)
        BY <2>1, <2>5, <3>1, <3>3, <4>1 DEF Odd
      <4>3. x % 2 = 1
        BY <4>2, Parity
      <4>4. ~Poisoned
        BY <4>1, <4>3 DEF Poisoned, Odd
      <4>5. blockLine \in 1..(pos - 1) /\ IsData(blockLine)
        BY <2>1, <3>3 DEF BlameInv, OpenBlock, IInv, BlockInv, TypeOK
      <4>6. PICK j \in 1..blockLine : IsData(j) /\ Odd(file[j].n)
        BY <1>1, <2>1, <4>4, <4>5 DEF OpenersInv
      <4>7. i \in 1..(pos - 1) \/ j \in 1..i
        BY <2>1, <4>5
      <4>. QED
        BY <1>1, <2>1, <2>7, <4>4, <4>6, <4>7 DEF OpenersInv
    <3>. QED
      BY <3>2, <3>3
  <2>. QED
    BY <1>1, <2>2, <2>6, <2>7 DEF OpenersInv, IsData, input
<1>4. CASE Flushes
  <2>1. /\ Flushing /\ block' = <<>> /\ pc' = AfterFlush /\ UNCHANGED <<input, pos, blockLine>>
        /\ pc # "done"
    BY <1>4 DEF Flushes, AddPoint, BeginNoise, AddNoisePoint, Flushing
  <2>2. Finite(BlockHz(block)) /\ Odd(Len(block))
    <3>1. CASE AddPoint
      <4>1. PICK n \in Nat \ {0} : Len(block) = n * n * 2 + 1 /\ Finite(BlockHz(block))
        BY <3>1, PointPasses
      <4>2. PICK m \in Nat : m = n * n
        OBVIOUS
      <4>3. Len(block) = m * 2 + 1
        BY <4>1, <4>2
      <4>. QED
        BY <4>1, <4>3 DEF Odd
    <3>2. CASE BeginNoise \/ AddNoisePoint
      <4>1. NoiseFault = NoFault
        BY <3>2 DEF BeginNoise, AddNoisePoint, SetFault, ReadsNoise, NoFault
      <4>2. Len(block) = 5 /\ Finite(BlockHz(block))
        BY <4>1 DEF NoiseFault, NoFault, NoiseValuesPerSet
      <4>. QED
        BY <4>2 DEF Odd
    <3>. QED
      BY <1>4, <3>1, <3>2 DEF Flushes
  <2>3. block # <<>> /\ block[1] = <<blockLine, 1>> /\ blockLine \in 1..Len(file)
    BY <2>1, FlushFacts
  <2>4. OpenBlock /\ FirstUnread = blockLine /\ ~Poisoned
    BY <2>1, <2>2, <2>3 DEF BlameInv, FirstUnread, Poisoned
  <2>5. ReadUpTo \in Int /\ ReadUpTo' = ReadUpTo /\ FirstUnread' = ReadUpTo + 1
    BY <2>1 DEF ReadUpTo, FirstUnread, AfterFlush, Flushing, IInv, TypeOK
  <2>6. Finite(file[blockLine].hz)
    BY <2>2, <2>3 DEF BlockHz
  <2>7. ASSUME NEW i \in 1..ReadUpTo, IsData(i), Odd(file[i].n)
        PROVE  Finite(file[i].hz)
    <3>1. \/ i \in 1..(blockLine - 1) \/ i = blockLine \/ i \in (blockLine + 1)..ReadUpTo
      BY <2>3, <2>5
    <3>. QED
      BY <1>1, <2>4, <2>6, <2>7, <3>1 DEF OpenersInv, OpenBlock
  <2>. QED
    BY <1>1, <2>1, <2>4, <2>5, <2>7 DEF OpenersInv, IsData, input
<1>. QED
  BY <1>1, <1>2, <1>3, <1>4

(* Before the first line there is nothing to read.                           *)
LEMMA InitHoldsNothing == Init => GrammarInv /\ HintHolds
<1> SUFFICES ASSUME Init PROVE GrammarInv /\ HintHolds
  OBVIOUS
<1>1. IInv
  BY InitEstablishes
<1>2. /\ pos = 0 /\ ReadUpTo = 0 /\ block = <<>> /\ freqHz = <<>> /\ noise = <<>> /\ optionLine = 0
      /\ outcome.kind = "reading" /\ pc = "line" /\ nports = hint
  BY DEF Init, ReadUpTo
<1>3. Seen = <<>>
  BY <1>1, <1>2, SetsAreGathered DEF Seen, IsGathered, IInv, TypeOK
<1>4. IsRead(file, <<>>, <<>>, s, <<>>, nports)
  BY DEF IsRead, IsSweep, IsNetwork, IsNoise
<1>5. <<>> \in AllSets
  BY DEF AllSets
<1>6. SetsInv
  BY <1>2, <1>3, <1>4, <1>5 DEF SetsInv
<1>7. PortsInv /\ HintHolds
  BY <1>2 DEF PortsInv, HintHolds
<1>8. HeadInv /\ OpenersInv
  BY <1>2 DEF HeadInv, OpenersInv, FirstUnread
<1>. QED
  BY <1>6, <1>7, <1>8 DEF GrammarInv

(* The inductive invariant of what an answer says about its file.            *)
FileInv == IInv /\ BlameInv /\ HeaderInv /\ HintHolds /\ GrammarInv

(* Every step keeps it (push_line, flush, flush_noise, finish).              *)
LEMMA StepKeepsFile == FileInv /\ [Next]_vars => FileInv'
<1> SUFFICES ASSUME FileInv, [Next]_vars PROVE FileInv'
  OBVIOUS
<1>1. IInv /\ BlameInv /\ HeaderInv /\ HintHolds /\ SetsInv /\ PortsInv /\ HeadInv /\ OpenersInv
  BY DEF FileInv, GrammarInv
<1>2. IInv' /\ BlameInv' /\ HeaderInv' /\ HintHolds'
  BY <1>1, StepPreserves, StepKeepsBlame, StepKeepsHeader, HintIsKept
<1>3. GrammarInv'
  BY <1>1, StepKeepsSets, StepKeepsPorts, StepKeepsHead, StepKeepsOpeners DEF GrammarInv
<1>. QED
  BY <1>2, <1>3 DEF FileInv

(* So it holds in every state of every call.                                 *)
LEMMA FilesAreGathered == Spec => []FileInv
<1>1. Init => FileInv
  BY InitEstablishes, InitBlames, InitHeader, InitHoldsNothing DEF FileInv
<1>. QED
  BY <1>1, StepKeepsFile, PTL DEF Spec

(* Once the noise has begun below the sweep it cannot begin again.           *)
LEMMA OneBoundary ==
    ASSUME NEW f, NEW given, NEW a \in Nat, NEW b \in Nat,
           Divides(f, given, a), Divides(f, given, b), DataSets(f) \in AllSets,
           \A k \in 1..Len(DataSets(f)) : Hz(f, DataSets(f)[k]) \in Int
    PROVE  ~(a < b)
<1>1. PICK d \in AllSets, last \in Nat : d = DataSets(f) /\ last = Len(d)
  BY DEF AllSets
<1>2. a \in 2..(last + 1) /\ b \in 2..(last + 1)
  BY <1>1 DEF Divides
<1>3. SUFFICES ASSUME a < b PROVE FALSE
  OBVIOUS
<1>4. Hz(f, d[a]) <= Hz(f, d[a - 1])
  BY <1>1, <1>2, <1>3 DEF Divides, NoiseHolds
<1>5. Hz(f, d[a - 1]) < Hz(f, d[a])
  <2>1. a - 1 \in 1..(b - 1) /\ a \in 1..(b - 1) /\ a - 1 < a
    BY <1>2, <1>3
  <2>. QED
    BY <1>1, <2>1 DEF Divides, NetworkHolds, Ascending
<1>6. a \in 1..last /\ a - 1 \in 1..last
  BY <1>2, <1>3
<1>. QED
  BY <1>1, <1>4, <1>5, <1>6

(* The count is the one whose matrices have that many values.                *)
LEMMA PortsAreThose ==
    ASSUME NEW d, NEW n \in Nat \ {0}, NEW given, Len(d[1]) = n * n * 2 + 1,
           n * n * 2 + 1 <= MaxUsize, given = None \/ given = n
    PROVE  PortsOf(d, given) = n /\ HasPorts(d, given)
<1>1. PICK m \in Nat : m = n * n
  OBVIOUS
<1>2. 2 * n * n + 1 = n * n * 2 + 1 /\ Len(d[1]) = m * 2 + 1 /\ n <= m
  <2>1. 2 * n * n = 2 * (n * n)
    OBVIOUS
  <2>2. n * 1 <= n * n
    OBVIOUS
  <2>. QED
    BY <1>1, <2>1, <2>2
<1>3. n \in 1..Len(d[1])
  BY <1>2
<1>4. CASE given = n
  <2>1. n # None
    BY DEF None
  <2>. QED
    BY <1>2, <1>4, <2>1 DEF PortsOf, HasPorts
<1>5. CASE given = None
  <2>1. ASSUME NEW x \in 1..Len(d[1]), 2 * x * x + 1 = Len(d[1]) PROVE x = n
    <3>1. PICK y \in Nat : y = x * x
      BY <1>2
    <3>2. 2 * x * x = 2 * y
      BY <3>1
    <3>3. x * x = n * n /\ x \in Nat
      BY <1>1, <1>2, <2>1, <3>1, <3>2
    <3>. QED
      BY <3>3, OneRoot
  <2>2. 2 * n * n + 1 = Len(d[1])
    BY <1>2
  <2>3. PortsOf(d, given) = CHOOSE x \in 1..Len(d[1]) : 2 * x * x + 1 = Len(d[1])
    BY <1>5 DEF PortsOf
  <2>4. PortsOf(d, given) = n
    BY <1>3, <2>1, <2>2, <2>3
  <2>. QED
    BY <1>2, <1>3, <1>5, <2>2, <2>4 DEF HasPorts
<1>. QED
  BY <1>4, <1>5

(* Two sweeps, each ascending, the second beginning at or below the end of   *)
(* the first.                                                                *)
SweepsRise(hz, rows, n) ==
    /\ \A i, j \in 1..Len(hz) : i < j => hz[i] < hz[j]
    /\ \A i, j \in 1..Len(rows) : i < j => rows[i].hz < rows[j].hz
    /\ rows # <<>> => n = 2 /\ hz # <<>> /\ rows[1].hz <= hz[Len(hz)]

(* What has been read whole is what the file divides into.                   *)
LEMMA WhatIsReadDivides ==
    ASSUME NEW f, NEW d \in AllSets, d = DataSets(f),
           NEW hz \in Seq(Int), hz # <<>>, NEW entries, NEW rows \in Seq(NoisePoints),
           NEW n \in Nat \ {0}, n * n * 2 + 1 <= MaxUsize, NEW given, given = None \/ given = n,
           IsRead(f, d, hz, entries, rows, n), SweepsRise(hz, rows, n)
    PROVE  /\ PortsOf(d, given) = n
           /\ Len(hz) + 1 \in 2..(Len(d) + 1)
           /\ Divides(f, given, Len(hz) + 1)
           /\ \A b \in 2..(Len(d) + 1) : Divides(f, given, b) => b = Len(hz) + 1
<1>1. PICK m \in Nat, r \in Nat : m = Len(hz) /\ r = Len(rows)
  OBVIOUS
<1>2. m # 0
  BY <1>1, EmptySeq
<1>3. Len(d) = m + r
  BY <1>1 DEF IsRead
<1>4. \A k \in 1..m : /\ hz[k] = Hz(f, d[k]) /\ Len(d[k]) = n * n * 2 + 1
                      /\ \A i \in 1..Len(d[k]) : f[d[k][i][1]].conv
  BY <1>1 DEF IsRead, IsSweep
<1>5. ASSUME NEW k \in 1..r
      PROVE  /\ rows[k].hz = Hz(f, d[m + k]) /\ Len(d[m + k]) = 5
             /\ \A i \in 1..5 : f[d[m + k][i][1]].fin
  <2>1. PICK h, v : h = Hz(f, d[m + k]) /\ v = Tail(d[m + k])
    OBVIOUS
  <2>2. /\ rows[k] = [hz |-> h, values |-> v] /\ Len(d[m + k]) = 5
        /\ \A i \in 1..5 : f[d[m + k][i][1]].fin
    BY <1>1, <2>1 DEF IsRead, IsNoise
  <2>3. rows[k].hz = h
    BY <2>2
  <2>. QED
    BY <2>1, <2>2, <2>3
<1>6. \A k \in 1..Len(d) : k \in 1..m \/ (k - m \in 1..r /\ k = m + (k - m))
  BY <1>3
<1>7. \A k \in 1..Len(d) : d[k] \in Seq(Places) /\ DOMAIN d[k] = 1..Len(d[k])
  BY ElementOfSeq DEF AllSets
<1>8. ASSUME NEW k \in 1..Len(d) PROVE Hz(f, d[k]) \in Int
  <2>1. CASE k \in 1..m
    <3>1. hz[k] \in Int
      BY <1>1, <2>1, ElementOfSeq
    <3>. QED
      BY <1>4, <2>1, <3>1
  <2>2. CASE k - m \in 1..r /\ k = m + (k - m)
    <3>1. PICK j \in 1..r : j = k - m /\ k = m + j
      BY <2>2
    <3>2. rows[j] \in NoisePoints
      BY <1>1, <3>1, ElementOfSeq
    <3>. QED
      BY <1>5, <3>1, <3>2 DEF NoisePoints
  <2>. QED
    BY <1>6, <2>1, <2>2
<1>9. PortsOf(d, given) = n /\ HasPorts(d, given)
  <2>1. 1 \in 1..m
    BY <1>2
  <2>2. Len(d[1]) = n * n * 2 + 1
    BY <1>4, <2>1
  <2>. QED
    BY <2>2, PortsAreThose
<1>10. NetworkHolds(f, d, n, m + 1)
  <2>1. (m + 1) - 1 = m /\ 2 * n * n + 1 = n * n * 2 + 1
    <3>1. 2 * n * n = 2 * (n * n)
      OBVIOUS
    <3>. QED
      BY <3>1
  <2>2. Ascending(f, d, 1, m)
    BY <1>1, <1>4 DEF Ascending, SweepsRise
  <2>3. ASSUME NEW k \in 1..m, NEW i \in DOMAIN d[k] PROVE f[d[k][i][1]].conv
    <3>1. i \in 1..Len(d[k])
      BY <1>3, <1>7
    <3>. QED
      BY <1>4, <3>1, Zenon
  <2>. QED
    BY <1>4, <2>1, <2>2, <2>3 DEF NetworkHolds
<1>11. NoiseHolds(f, d, n, m + 1)
  <2>1. SUFFICES ASSUME r # 0
                 PROVE  /\ n = 2
                        /\ Hz(f, d[m + 1]) <= Hz(f, d[(m + 1) - 1])
                        /\ Ascending(f, d, m + 1, Len(d))
                        /\ \A k \in (m + 1)..Len(d) : Len(d[k]) = 5
                        /\ \A k \in (m + 1)..Len(d) : \A i \in DOMAIN d[k] : f[d[k][i][1]].fin
    BY <1>3 DEF NoiseHolds
  <2>2. n = 2 /\ rows[1].hz <= hz[m]
    BY <1>1, <2>1, EmptySeq DEF SweepsRise
  <2>3. Hz(f, d[m + 1]) <= Hz(f, d[(m + 1) - 1])
    <3>1. 1 \in 1..r /\ m \in 1..m /\ (m + 1) - 1 = m
      BY <1>2, <2>1
    <3>2. rows[1].hz = Hz(f, d[m + 1]) /\ hz[m] = Hz(f, d[m])
      BY <1>4, <1>5, <3>1
    <3>. QED
      BY <2>2, <3>1, <3>2
  <2>4. \A k \in (m + 1)..Len(d) : k \in 1..Len(d) /\ k - m \in 1..r /\ k = m + (k - m)
    BY <1>3
  <2>5. ASSUME NEW k \in (m + 1)..Len(d)
        PROVE  /\ Len(d[k]) = 5 /\ rows[k - m].hz = Hz(f, d[k])
               /\ \A i \in DOMAIN d[k] : f[d[k][i][1]].fin
    <3>1. PICK j \in 1..r : j = k - m /\ k = m + j
      BY <2>4
    <3>2. rows[j].hz = Hz(f, d[k]) /\ Len(d[k]) = 5 /\ \A i \in 1..5 : f[d[k][i][1]].fin
      BY <1>5, <3>1
    <3>. QED
      BY <1>7, <2>4, <3>1, <3>2
  <2>6. ASSUME NEW i \in (m + 1)..Len(d), NEW j \in (m + 1)..Len(d), i < j
        PROVE  Hz(f, d[i]) < Hz(f, d[j])
    <3>1. i - m \in 1..r /\ j - m \in 1..r /\ i - m < j - m
      BY <2>4, <2>6
    <3>2. rows[i - m].hz < rows[j - m].hz
      BY <1>1, <3>1 DEF SweepsRise
    <3>. QED
      BY <2>5, <3>2
  <2>. QED
    BY <2>2, <2>3, <2>5, <2>6 DEF Ascending
<1>12. m + 1 \in 2..(Len(d) + 1)
  BY <1>2, <1>3
<1>13. Divides(f, given, m + 1)
  BY <1>9, <1>10, <1>11, <1>12 DEF Divides
<1>14. ASSUME NEW b \in 2..(Len(d) + 1), Divides(f, given, b) PROVE b = m + 1
  <2>1. b \in Nat /\ m + 1 \in Nat
    OBVIOUS
  <2>2. ~(b < m + 1)
    BY <1>8, <1>13, <1>14, <2>1, OneBoundary
  <2>3. ~(m + 1 < b)
    BY <1>8, <1>13, <1>14, <2>1, OneBoundary
  <2>. QED
    BY <2>1, <2>2, <2>3
<1>. QED
  BY <1>1, <1>9, <1>12, <1>13, <1>14

(* The place the standard gives a pair is where the reader put it.           *)
LEMMA PairHasItsPlace ==
    ASSUME NEW n \in Nat \ {0}, NEW i \in 1..(n * n)
    PROVE  /\ Entry(n, i)[1] \in Int /\ Entry(n, i)[2] \in Int
           /\ (Entry(n, i)[1] - 1) * n + Entry(n, i)[2] \in 1..(n * n)
           /\ FileOrder(n, (Entry(n, i)[1] - 1) * n + Entry(n, i)[2]) = i
<1>1. CASE n = 2
  <2>1. i \in 1..4
    BY <1>1
  <2>2. i = 1 \/ i = 2 \/ i = 3 \/ i = 4
    BY <2>1
  <2>3. Entry(2, i) = <<<<1, 1>>, <<2, 1>>, <<1, 2>>, <<2, 2>>>>[i]
    BY DEF Entry
  <2>4. \A e \in 1..4 : FileOrder(2, e) = <<1, 3, 2, 4>>[e]
    BY DEF FileOrder
  <2>. QED
    BY <1>1, <2>2, <2>3, <2>4
<1>2. CASE n # 2
  <2>1. PICK q \in Int, c \in 0..(n - 1) :
           (i - 1) \div n = q /\ (i - 1) % n = c /\ i - 1 = n * q + c
    <3>1. i - 1 \in Int
      OBVIOUS
    <3>. QED
      BY <3>1, QuotientAndRemainder
  <2>2. Entry(n, i) = <<q + 1, c + 1>>
    BY <1>2, <2>1 DEF Entry
  <2>3. ((q + 1) - 1) * n + (c + 1) = i
    <3>1. ((q + 1) - 1) * n = n * q
      BY <2>1
    <3>. QED
      BY <2>1, <3>1
  <2>4. FileOrder(n, i) = i
    BY <1>2 DEF FileOrder
  <2>. QED
    BY <2>2, <2>3, <2>4
<1>. QED
  BY <1>1, <1>2

(* The state an answer is given in.                                          *)
LEMMA AcceptedIsRead ==
    ASSUME FileInv, outcome.kind = "network"
    PROVE  /\ file \in Seq(Lines) /\ DataSets(file) \in AllSets
           /\ IsRead(file, DataSets(file), freqHz, s, noise, nports)
           /\ freqHz \in Seq(Int) /\ freqHz # <<>> /\ noise \in Seq(NoisePoints)
           /\ nports \in Nat \ {0} /\ nports * nports * 2 + 1 <= MaxUsize
           /\ hint = None \/ hint = nports
           /\ SweepsRise(freqHz, noise, nports)
           /\ inNoise <=> noise # <<>>
           /\ Len(s) = Len(freqHz) * (nports * nports)
<1>1. IInv /\ HeaderInv /\ HintHolds /\ SetsInv /\ PortsInv
  BY DEF FileInv, GrammarInv
<1>2. pc = "done" /\ pos = Len(file) /\ block = <<>> /\ freqHz # <<>> /\ ValuesPerPoint(nports) # None
  BY <1>1 DEF HeaderInv, PortsInv, Live
<1>3. PICK f \in Seq(Lines) : f = file
  BY <1>1 DEF IInv, TypeOK
<1>4. Seen = DataSets(f) /\ Seen \in AllSets
  BY <1>1, <1>2, <1>3, SetsAreDataSets, SeenIs DEF Seen, ReadUpTo
<1>5. IsRead(file, DataSets(f), freqHz, s, noise, nports)
  BY <1>1, <1>2, <1>4 DEF SetsInv, Poisoned, Live
<1>6. nports # None /\ nports \in Nat
  BY <1>1, <1>2 DEF IInv, ShapeInv, TypeOK
<1>7. nports \in Nat \ {0} /\ nports * nports * 2 + 1 <= MaxUsize
  <2>1. PICK n \in Nat : n = nports
    BY <1>6
  <2>2. n > 0 /\ Fits(n * n * 2 + 1)
    BY <1>2, <2>1 DEF ValuesPerPoint
  <2>. QED
    BY <2>1, <2>2 DEF Fits
<1>. QED
  BY <1>1, <1>2, <1>3, <1>4, <1>5, <1>6, <1>7
     DEF IInv, TypeOK, SweepAscends, SweepsRise, NoiseFollowsTwoPortSweep, ShapeInv, HintHolds

(* An accepted file reads as it divides.                                     *)
LEMMA AcceptedIsWhatItSays == FileInv => ReadsWhatTheFileSays
<1> SUFFICES ASSUME FileInv, outcome.kind = "network" PROVE ReadsWhatTheFileSays
  BY DEF ReadsWhatTheFileSays
<1>1. PICK f \in Seq(Lines), d \in AllSets, n \in Nat \ {0}, given \in {hint},
           hz \in Seq(Int), rows \in Seq(NoisePoints) :
         f = file /\ d = DataSets(file) /\ n = nports /\ given = hint /\ hz = freqHz /\ rows = noise
  <2>1. /\ file \in Seq(Lines) /\ DataSets(file) \in AllSets /\ nports \in Nat \ {0}
        /\ freqHz \in Seq(Int) /\ noise \in Seq(NoisePoints)
    BY AcceptedIsRead
  <2>. QED
    BY <2>1, Zenon
<1>2. IsRead(f, d, hz, s, rows, n) /\ Len(s) = Len(hz) * (n * n)
  BY <1>1, AcceptedIsRead
<1>3. /\ d = DataSets(f) /\ hz # <<>> /\ n * n * 2 + 1 <= MaxUsize
      /\ given = None \/ given = n
  BY <1>1, AcceptedIsRead
<1>4. SweepsRise(hz, rows, n)
  BY <1>1, AcceptedIsRead
<1>5. PICK m \in Nat, r \in Nat : m = Len(hz) /\ r = Len(rows) /\ Len(d) = m + r
  BY <1>2 DEF IsRead
<1>6. PICK b \in 2..(Len(d) + 1) : /\ b = m + 1 /\ PortsOf(d, given) = n
                                   /\ b = CHOOSE i \in 2..(Len(d) + 1) : Divides(f, given, i)
  <2>1. /\ PortsOf(d, given) = n
        /\ m + 1 \in 2..(Len(d) + 1)
        /\ Divides(f, given, m + 1)
        /\ \A i \in 2..(Len(d) + 1) : Divides(f, given, i) => i = m + 1
    BY <1>2, <1>3, <1>4, <1>5, WhatIsReadDivides
  <2>2. m + 1 = CHOOSE i \in 2..(Len(d) + 1) : Divides(f, given, i)
    BY <2>1
  <2>. QED
    BY <2>1, <2>2
<1>7. b - 1 = m /\ Len(d) - b + 1 = r
  BY <1>5, <1>6
<1>8. hz = [k \in 1..m |-> Hz(f, d[k])]
  <2>1. \A k \in 1..m : hz[k] = Hz(f, d[k])
    BY <1>2, <1>5 DEF IsRead, IsSweep
  <2>2. hz = [k \in 1..m |-> hz[k]]
    BY <1>5
  <2>. QED
    BY <2>1, <2>2
<1>9. ASSUME NEW k \in 1..m, NEW i \in 1..(n * n)
      PROVE  s[(k - 1) * n * n + (Entry(n, i)[1] - 1) * n + Entry(n, i)[2]] = <<d[k][2 * i], d[k][2 * i + 1]>>
  <2>1. PICK e \in 1..(n * n) : /\ e = (Entry(n, i)[1] - 1) * n + Entry(n, i)[2]
                                /\ FileOrder(n, e) = i
    BY PairHasItsPlace
  <2>2. s[(k - 1) * (n * n) + e] = Pair(d[k], i)
    BY <1>2, <1>5, <2>1 DEF IsRead, IsNetwork
  <2>3. (k - 1) * n * n = (k - 1) * (n * n)
    OBVIOUS
  <2>4. (k - 1) * n * n + (Entry(n, i)[1] - 1) * n + Entry(n, i)[2] = (k - 1) * (n * n) + e
    <3>1. PICK row \in Int, column \in Int : row = Entry(n, i)[1] /\ column = Entry(n, i)[2]
      BY PairHasItsPlace
    <3>2. PICK x \in Int, y \in Int : x = (k - 1) * (n * n) /\ y = (row - 1) * n
      OBVIOUS
    <3>3. e = y + column
      BY <2>1, <3>1, <3>2
    <3>4. (k - 1) * n * n = x /\ (Entry(n, i)[1] - 1) * n = y /\ Entry(n, i)[2] = column
      BY <2>3, <3>1, <3>2
    <3>. QED
      BY <3>2, <3>3, <3>4
  <2>. QED
    BY <2>2, <2>4 DEF Pair
<1>10. Len(s) = m * n * n
  <2>1. m * n * n = m * (n * n)
    OBVIOUS
  <2>. QED
    BY <1>2, <1>5, <2>1
<1>11. inNoise <=> b <= Len(d)
  <2>1. b <= Len(d) <=> r # 0
    BY <1>5, <1>6
  <2>2. rows # <<>> <=> r # 0
    BY <1>5, EmptySeq
  <2>. QED
    BY <1>1, <2>1, <2>2, AcceptedIsRead
<1>12. rows = [k \in 1..r |-> [hz |-> Hz(f, d[b + k - 1]), values |-> Tail(d[b + k - 1])]]
  <2>1. ASSUME NEW k \in 1..r
        PROVE  rows[k] = [hz |-> Hz(f, d[b + k - 1]), values |-> Tail(d[b + k - 1])]
    <3>1. m + k = b + k - 1
      BY <1>6
    <3>. QED
      BY <1>2, <1>5, <3>1 DEF IsRead, IsNoise
  <2>2. rows = [k \in 1..r |-> rows[k]]
    BY <1>5
  <2>. QED
    BY <2>1, <2>2
<1> DEFINE Reads(lines, sets_, from, ports) ==
        /\ nports = ports
        /\ freqHz = [k \in 1..(from - 1) |-> Hz(lines, sets_[k])]
        /\ Len(s) = (from - 1) * ports * ports
        /\ \A k \in 1..(from - 1) : \A i \in 1..(ports * ports) :
              s[(k - 1) * ports * ports + (Entry(ports, i)[1] - 1) * ports + Entry(ports, i)[2]]
                = <<sets_[k][2 * i], sets_[k][2 * i + 1]>>
        /\ inNoise <=> from <= Len(sets_)
        /\ noise = [k \in 1..(Len(sets_) - from + 1) |->
                      [hz |-> Hz(lines, sets_[from + k - 1]), values |-> Tail(sets_[from + k - 1])]]
<1>13. Reads(f, d, b, n)
  <2>1. freqHz = [k \in 1..(b - 1) |-> Hz(f, d[k])]
    BY <1>1, <1>7, <1>8
  <2>2. noise = [k \in 1..(Len(d) - b + 1) |->
                   [hz |-> Hz(f, d[b + k - 1]), values |-> Tail(d[b + k - 1])]]
    BY <1>1, <1>7, <1>12
  <2>. QED
    BY <1>1, <1>7, <1>9, <1>10, <1>11, <2>1, <2>2
<1>14. Reads(f, d, CHOOSE i \in 2..(Len(d) + 1) : Divides(f, given, i), PortsOf(d, given))
  <2> HIDE DEF Reads
  <2>. QED
    BY <1>6, <1>13
<1>15. LET all == DataSets(file)
       IN  Reads(file, all, CHOOSE i \in 2..(Len(all) + 1) : Divides(file, hint, i), PortsOf(all, hint))
  <2> HIDE DEF Reads
  <2>. QED
    BY <1>1, <1>14
<1>. QED
  BY <1>15, Zenon DEF ReadsWhatTheFileSays

(* Every accepted file is read as the standard divides it: every point and   *)
(* noise point in order, every value of its data set in its place, nothing   *)
(* dropped and nothing used twice, although the reader infers sets, ports    *)
(* and noise as it goes (ADR 0006, ADR 0007).                                *)
THEOREM FilesReadAsTheyDivide == Spec => []ReadsWhatTheFileSays
  BY FilesAreGathered, AcceptedIsWhatItSays, PTL

(* One line more leaves all sets but the last as they are, and the last      *)
(* begins as it did.                                                         *)
IsEarlier(seen, d) ==
    /\ Len(seen) <= Len(d)
    /\ \A k \in 1..Len(seen) : Begins(d[k], seen[k]) /\ (k < Len(seen) => d[k] = seen[k])

(* Every set begins with itself.                                             *)
LEMMA BeginsItself ==
    ASSUME NEW a \in Seq(Places)
    PROVE  Begins(a, a)
  BY DEF Begins

(* What is earlier than the sets so far is earlier than those with one more  *)
(* line.                                                                     *)
LEMMA JoinedIsLater ==
    ASSUME NEW f \in Seq(Lines), NEW i \in 1..Len(f), NEW seen \in AllSets, NEW d \in AllSets,
           IsEarlier(seen, d)
    PROVE  IsEarlier(seen, Joined(f, d, i))
<1>1. PICK row \in Seq(Places) : row = Row(f, i)
  BY RowIsTyped
<1>2. PICK m \in Nat, last \in Nat : m = Len(seen) /\ last = Len(d) /\ m <= last
  BY DEF AllSets, IsEarlier
<1>3. d \in Seq(Seq(Places)) /\ seen \in Seq(Seq(Places))
  BY DEF AllSets
<1>4. CASE f[i].kind = "data" /\ Odd(f[i].n)
  <2>1. PICK e \in Seq(Seq(Places)) : e = Append(d, row)
    BY <1>3, OneMore
  <2>2. Len(e) = last + 1 /\ \A k \in 1..last : e[k] = d[k]
    BY <1>2, <1>3, <2>1, OneMore
  <2>3. ASSUME NEW k \in 1..m PROVE Begins(e[k], seen[k]) /\ (k < m => e[k] = seen[k])
    <3>1. e[k] = d[k]
      BY <1>2, <2>2
    <3>2. Begins(d[k], seen[k]) /\ (k < m => d[k] = seen[k])
      BY <1>2 DEF IsEarlier
    <3>. QED
      BY <3>1, <3>2
  <2>4. IsEarlier(seen, e)
    BY <1>2, <2>2, <2>3 DEF IsEarlier
  <2>. QED
    BY <1>1, <1>4, <2>1, <2>4 DEF Joined
<1>5. CASE f[i].kind = "data" /\ ~Odd(f[i].n) /\ d # <<>>
  <2>1. last \in 1..Len(d)
    BY <1>2, <1>5, EmptySeq
  <2>2. d[last] \in Seq(Places)
    BY <1>3, <2>1, ElementOfSeq
  <2>3. PICK b \in Seq(Places), more \in Seq(Places) :
           b = d[last] /\ more = b \o row /\ Begins(more, b)
    BY <2>2, JoinBegins
  <2>4. PICK k \in 1..Len(d) : k = last
    BY <2>1
  <2>5. PICK e \in Seq(Seq(Places)) : e = [d EXCEPT ![k] = more]
    BY <1>3, ExceptSeq
  <2>6. Len(e) = Len(d) /\ \A j \in 1..Len(d) : e[j] = IF j = k THEN more ELSE d[j]
    BY <1>3, <2>5, ExceptSeq, SMTT(30)
  <2>7. Joined(f, d, i) = e
    BY <1>1, <1>2, <1>5, <2>3, <2>4, <2>5 DEF Joined
  <2>8. ASSUME NEW j \in 1..m PROVE Begins(e[j], seen[j]) /\ (j < m => e[j] = seen[j])
    <3>1. j \in 1..Len(d) /\ Begins(d[j], seen[j]) /\ (j < m => d[j] = seen[j])
      BY <1>2 DEF IsEarlier
    <3>2. CASE j # k
      BY <2>6, <3>1, <3>2
    <3>3. CASE j = k
      <4>1. seen[j] \in Seq(Places)
        BY <1>2, <1>3, ElementOfSeq
      <4>2. PICK a \in Seq(Places) : a = seen[j]
        BY <4>1
      <4>3. Begins(b, a)
        BY <2>3, <2>4, <3>1, <3>3, <4>2
      <4>4. Begins(more, a)
        BY <2>3, <4>3, BeginsPasses
      <4>5. ~(j < m) /\ e[j] = more
        BY <1>2, <2>4, <2>6, <3>1, <3>3
      <4>. QED
        BY <4>2, <4>4, <4>5
    <3>. QED
      BY <3>2, <3>3
  <2>9. IsEarlier(seen, e)
    BY <1>2, <2>6, <2>8 DEF IsEarlier
  <2>. QED
    BY <2>7, <2>9
<1>6. CASE f[i].kind # "data" \/ (~Odd(f[i].n) /\ d = <<>>)
  BY <1>6 DEF Joined
<1>. QED
  BY <1>4, <1>5, <1>6

(* The sets on a file's first lines are earlier than those on any more of    *)
(* it.                                                                       *)
LEMMA SetsOnlyGrow ==
    ASSUME NEW f \in Seq(Lines), NEW i \in 0..Len(f), NEW j \in i..Len(f)
    PROVE  IsEarlier(SetsUpTo(f)[i], SetsUpTo(f)[j])
<1>1. PICK last \in Nat : last = Len(f)
  OBVIOUS
<1>2. PICK g \in [0..last -> AllSets] : g = SetsUpTo(f) /\ IsGathered(f, g)
  BY <1>1, SetsAreGathered
<1>3. PICK count \in Nat : count = last - i
  BY <1>1
<1> DEFINE T == {t \in 0..count : IsEarlier(g[i], g[i + t])}
<1>4. 0 \in T
  <2>1. PICK x \in AllSets : x = g[i]
    BY <1>1
  <2>2. \A k \in 1..Len(x) : x[k] \in Seq(Places)
    BY ElementOfSeq DEF AllSets
  <2>3. IsEarlier(x, x)
    BY <2>2, BeginsItself DEF IsEarlier, AllSets
  <2>4. i + 0 = i /\ 0 \in 0..count
    OBVIOUS
  <2>. QED
    BY <2>1, <2>3, <2>4
<1>5. ASSUME NEW t \in 1..count, t - 1 \in T PROVE t \in T
  <2>1. PICK k \in 1..Len(f) : k = i + t /\ k - 1 = i + (t - 1)
    BY <1>1, <1>3
  <2>2. g[k] = Joined(f, g[k - 1], k) /\ g[k - 1] \in AllSets /\ g[i] \in AllSets
    BY <1>1, <1>2, <2>1 DEF IsGathered
  <2>3. IsEarlier(g[i], g[k - 1])
    BY <1>5, <2>1
  <2>4. IsEarlier(g[i], g[k])
    BY <2>2, <2>3, JoinedIsLater
  <2>. QED
    BY <2>1, <2>4
<1>6. \A t \in 0..count : t \in T
  <2> HIDE DEF T
  <2>. QED
    BY <1>4, <1>5, StepByStep
<1>7. j - i \in 0..count /\ i + (j - i) = j
  BY <1>1, <1>3
<1>8. IsEarlier(g[i], g[i + (j - i)])
  BY <1>6, <1>7
<1>. QED
  BY <1>2, <1>7, <1>8

(* A file with a data set has a data line.                                   *)
LEMMA SetsNeedData ==
    ASSUME NEW f \in Seq(Lines), NEW i \in 0..Len(f), SetsUpTo(f)[i] # <<>>
    PROVE  LinesOf(f, "data") # {}
<1>1. SUFFICES ASSUME LinesOf(f, "data") = {} PROVE SetsUpTo(f)[i] = <<>>
  OBVIOUS
<1>2. PICK last \in Nat : last = Len(f)
  OBVIOUS
<1>3. PICK g \in [0..last -> AllSets] : g = SetsUpTo(f) /\ IsGathered(f, g)
  BY <1>2, SetsAreGathered
<1> DEFINE T == {k \in 0..last : g[k] = <<>>}
<1>4. 0 \in T
  BY <1>3 DEF IsGathered
<1>5. ASSUME NEW k \in 1..last, k - 1 \in T PROVE k \in T
  <2>1. f[k].kind # "data"
    BY <1>1, <1>2 DEF LinesOf
  <2>2. g[k] = g[k - 1]
    BY <1>2, <1>3, <2>1 DEF IsGathered, Joined
  <2>. QED
    BY <1>5, <2>2
<1>6. \A k \in 0..last : k \in T
  <2> HIDE DEF T
  <2>. QED
    BY <1>4, <1>5, StepByStep
<1>. QED
  BY <1>2, <1>3, <1>6

(* Nothing is accepted that is not well-formed.                              *)
LEMMA AcceptedIsWellFormed ==
    ASSUME FileInv, outcome.kind = "network"
    PROVE  WellFormed(file, hint)
<1>1. PICK f \in Seq(Lines), d \in AllSets, n \in Nat \ {0}, given \in {hint},
           hz \in Seq(Int), rows \in Seq(NoisePoints), o \in 1..Len(file) :
         /\ f = file /\ d = DataSets(file) /\ n = nports /\ given = hint /\ hz = freqHz /\ rows = noise
         /\ o = optionLine /\ ReferenceNamesPorts(f[o].n, n)
  <2>1. /\ file \in Seq(Lines) /\ DataSets(file) \in AllSets /\ nports \in Nat \ {0}
        /\ freqHz \in Seq(Int) /\ noise \in Seq(NoisePoints)
    BY AcceptedIsRead
  <2>2. optionLine \in 0..Len(file) /\ optionLine # 0 /\ ReferenceNamesPorts(file[optionLine].n, nports)
    BY DEF FileInv, IInv, TypeOK, GrammarInv, PortsInv, Live
  <2>3. optionLine \in 1..Len(file)
    BY <2>2
  <2>. QED
    BY <2>1, <2>2, <2>3, Zenon
<1>2. IsRead(f, d, hz, s, rows, n)
  BY <1>1, AcceptedIsRead
<1>3. /\ d = DataSets(f) /\ hz # <<>> /\ n * n * 2 + 1 <= MaxUsize
      /\ given = None \/ given = n
      /\ SweepsRise(hz, rows, n)
  BY <1>1, AcceptedIsRead
<1>4. PICK b \in 2..(Len(d) + 1) : PortsOf(d, given) = n /\ Divides(f, given, b)
  <2>1. /\ PortsOf(d, given) = n
        /\ Len(hz) + 1 \in 2..(Len(d) + 1)
        /\ Divides(f, given, Len(hz) + 1)
    BY <1>2, <1>3, WhatIsReadDivides
  <2>. QED
    BY <2>1
<1>5. \E i \in 2..(Len(OpeningLines(f)) + 1) : Divides(f, given, i)
  <2>1. Len(OpeningLines(f)) = Len(d)
    BY <1>3, SetsAreDataSets
  <2>. QED
    BY <1>4, <2>1
<1>6. pc = "done" /\ pos = Len(f) /\ block = <<>> /\ Live /\ ReadUpTo = Len(f) /\ FirstUnread = Len(f) + 1 /\ ~Poisoned
  BY <1>1 DEF FileInv, GrammarInv, HeaderInv, PortsInv, Live, ReadUpTo, FirstUnread, Poisoned
<1>7. PICK last \in Nat : last = Len(f)
  OBVIOUS
<1>8. /\ \A i \in 1..last : /\ f[i].kind # "keyword"
                            /\ f[i].kind = "data" => f[i].form # "malformed"
      /\ f[o].kind = "option" /\ f[o].form = "ok"
      /\ \A i \in 1..(o - 1) : f[i].kind \notin {"option", "data"}
  BY <1>1, <1>6, <1>7 DEF FileInv, GrammarInv, HeadInv, IsData
<1>9. /\ \A i \in 1..last : f[i].kind = "data" /\ Odd(f[i].n) => Finite(f[i].hz)
      /\ \A i \in 1..last : f[i].kind = "data" => \E j \in 1..i : f[j].kind = "data" /\ Odd(f[j].n)
  BY <1>1, <1>6, <1>7 DEF FileInv, GrammarInv, OpenersInv, IsData
<1>10. LinesOf(f, "data") # {}
  <2>1. d # <<>>
    <3>1. Len(hz) # 0
      BY <1>3, EmptySeq
    <3>2. Len(d) = Len(hz) + Len(rows) /\ Len(hz) \in Nat /\ Len(rows) \in Nat
      BY <1>2 DEF IsRead
    <3>. QED
      BY <3>1, <3>2
  <2>2. d = SetsUpTo(f)[Len(f)] /\ Len(f) \in 0..Len(f)
    BY <1>3, SetsAreDataSets
  <2>. QED
    BY <2>1, <2>2, SetsNeedData
<1>11. HeaderHolds(f) /\ Min(LinesOf(f, "option")) = o
  <2>1. o \in LinesOf(f, "option") /\ LinesOf(f, "option") \subseteq Nat
    BY <1>1, <1>8 DEF LinesOf
  <2>2. \A i \in LinesOf(f, "option") : o <= i
    BY <1>8 DEF LinesOf
  <2>3. Min(LinesOf(f, "option")) = o
    BY <2>1, <2>2, MinIsThat
  <2>4. \A i \in LinesOf(f, "data") : o < i
    BY <1>8 DEF LinesOf
  <2>. QED
    BY <1>7, <1>8, <2>1, <2>3, <2>4 DEF HeaderHolds, LinesOf
<1>12. Min(LinesOf(f, "data")) \in Openers(f)
  <2>1. PICK T : T = LinesOf(f, "data")
    OBVIOUS
  <2>2. T \subseteq Nat
    BY <2>1 DEF LinesOf
  <2>3. Min(T) \in T /\ \A x \in T : Min(T) <= x
    BY <1>10, <2>1, <2>2, MinIsLeast
  <2>4. PICK i \in T : i = Min(T) /\ \A x \in T : i <= x
    BY <2>3
  <2>5. i \in 1..last /\ f[i].kind = "data"
    BY <1>7, <2>1 DEF LinesOf
  <2>6. PICK j \in 1..i : f[j].kind = "data" /\ Odd(f[j].n)
    BY <1>9, <2>5
  <2>7. j \in T
    BY <1>7, <2>1, <2>5, <2>6 DEF LinesOf
  <2>8. j = i
    BY <2>4, <2>5, <2>7
  <2>. QED
    BY <2>1, <2>4, <2>6, <2>7, <2>8 DEF Openers
<1>13. /\ \A i \in LinesOf(f, "data") : f[i].form # "malformed"
       /\ \A i \in Openers(f) : Finite(f[i].hz)
  BY <1>7, <1>8, <1>9 DEF Openers, LinesOf
<1>14. f[o].n = 1 \/ f[o].n = PortsOf(d, given)
  BY <1>1, <1>4 DEF ReferenceNamesPorts
<1>15. WellFormed(f, given)
  BY <1>3, <1>5, <1>10, <1>11, <1>12, <1>13, <1>14 DEF WellFormed
<1>. QED
  BY <1>1, <1>15

(* What has been read of a file that divides into d.                         *)
ReadSoFar(f, d, sofar, hz, entries, rows, n) ==
    /\ IsEarlier(sofar, d)
    /\ IsRead(f, sofar, hz, entries, rows, n)
    /\ SweepsRise(hz, rows, n)

(* All the earlier sets are whole, and the open one is a beginning.          *)
LEMMA EarlierSets ==
    ASSUME NEW sofar \in AllSets, NEW b \in Seq(Places), NEW d \in AllSets,
           IsEarlier(Append(sofar, b), d)
    PROVE  /\ IsEarlier(sofar, d) /\ Len(sofar) + 1 \in 1..Len(d)
           /\ Begins(d[Len(sofar) + 1], b)
           /\ \A k \in 1..Len(sofar) : d[k] = sofar[k]
<1>1. sofar \in Seq(Seq(Places)) /\ d \in Seq(Seq(Places))
  BY DEF AllSets
<1>2. PICK m \in Nat, e \in Seq(Seq(Places)) : m = Len(sofar) /\ e = Append(sofar, b)
  <2>1. Append(sofar, b) \in Seq(Seq(Places))
    BY <1>1, OneMore
  <2>2. Len(sofar) \in Nat
    BY <1>1
  <2>. QED
    BY <2>1, <2>2
<1>3. Len(e) = m + 1 /\ e[m + 1] = b /\ \A k \in 1..m : e[k] = sofar[k]
  BY <1>1, <1>2, OneMore
<1>4. m + 1 <= Len(d) /\ Len(d) \in Nat
  BY <1>1, <1>2, <1>3 DEF IsEarlier
<1>5. Begins(d[m + 1], b)
  <2>1. m + 1 \in 1..Len(e)
    BY <1>3
  <2>. QED
    BY <1>2, <1>3, <2>1 DEF IsEarlier
<1>6. ASSUME NEW k \in 1..m PROVE d[k] = sofar[k]
  <2>1. k \in 1..Len(e) /\ k < Len(e)
    BY <1>3
  <2>. QED
    BY <1>2, <1>3, <2>1 DEF IsEarlier
<1>7. IsEarlier(sofar, d)
  <2>1. \A k \in 1..m : sofar[k] \in Seq(Places)
    BY <1>1, <1>2, ElementOfSeq
  <2>. QED
    BY <1>2, <1>4, <1>6, <2>1, BeginsItself DEF IsEarlier
<1>. QED
  BY <1>2, <1>4, <1>5, <1>6, <1>7

(* What has been read is of the sets the file divides into: the sweep has    *)
(* not passed the boundary, and the noise has begun just at it.              *)
AtBoundary(f, d, b, sofar, hz, rows) ==
    /\ b \in 2..(Len(d) + 1)
    /\ Len(hz) + 1 <= b
    /\ rows # <<>> => b = Len(hz) + 1
    /\ Len(sofar) = Len(hz) + Len(rows) /\ Len(sofar) <= Len(d)
    /\ \A k \in 1..Len(hz) : hz[k] = Hz(f, d[k])
    /\ \A k \in 1..Len(rows) : rows[k].hz = Hz(f, d[Len(hz) + k])

(* The reader never misjudges that: the sweep rises and the noise begins     *)
(* below it, in the file as in what has been read.                           *)
LEMMA ReadAsItDivides ==
    ASSUME NEW f, NEW d \in AllSets, d = DataSets(f), NEW b,
           NEW sofar \in AllSets, NEW hz \in Seq(Int), NEW rows \in Seq(NoisePoints),
           \E given : Divides(f, given, b),
           \E n \in Int : \E entries : ReadSoFar(f, d, sofar, hz, entries, rows, n)
    PROVE  AtBoundary(f, d, b, sofar, hz, rows)
<1> PICK given : Divides(f, given, b)
  OBVIOUS
<1> PICK n \in Int : \E entries : ReadSoFar(f, d, sofar, hz, entries, rows, n)
  OBVIOUS
<1> PICK entries : ReadSoFar(f, d, sofar, hz, entries, rows, n)
  OBVIOUS
<1>1. PICK m \in Nat, r \in Nat, last \in Nat : m = Len(hz) /\ r = Len(rows) /\ last = Len(d)
  BY DEF AllSets
<1>2. Len(sofar) = m + r /\ m + r <= last /\ b \in 2..(last + 1)
  BY <1>1 DEF ReadSoFar, IsRead, IsEarlier, Divides
<1>3. ASSUME NEW k \in 1..(m + r), NEW len \in Nat \ {0}, Len(sofar[k]) = len
      PROVE  Hz(f, sofar[k]) = Hz(f, d[k])
  <2>1. Begins(d[k], sofar[k])
    BY <1>2 DEF ReadSoFar, IsEarlier
  <2>2. 1 \in 1..Len(sofar[k])
    BY <1>3
  <2>3. d[k][1] = sofar[k][1]
    BY <2>1, <2>2 DEF Begins
  <2>. QED
    BY <2>3 DEF Hz
<1>4. ASSUME NEW k \in 1..m PROVE hz[k] = Hz(f, d[k])
  <2>1. hz[k] = Hz(f, sofar[k]) /\ Len(sofar[k]) = n * n * 2 + 1
    BY <1>1 DEF ReadSoFar, IsRead, IsSweep
  <2>2. PICK x \in Nat : x = n * n
    OBVIOUS
  <2>3. n * n * 2 + 1 \in Nat \ {0} /\ k \in 1..(m + r)
    BY <2>2
  <2>. QED
    BY <1>3, <2>1, <2>3
<1>5. ASSUME NEW k \in 1..r PROVE rows[k].hz = Hz(f, d[m + k])
  <2>1. PICK h, v : h = Hz(f, sofar[m + k]) /\ v = Tail(sofar[m + k])
    OBVIOUS
  <2>2. rows[k] = [hz |-> h, values |-> v] /\ Len(sofar[m + k]) = 5
    BY <1>1, <2>1 DEF ReadSoFar, IsRead, IsNoise
  <2>3. rows[k].hz = h
    BY <2>2
  <2>4. PICK j \in 1..(m + r), len \in Nat \ {0} : j = m + k /\ len = 5
    OBVIOUS
  <2>5. Hz(f, sofar[j]) = Hz(f, d[j])
    BY <1>3, <2>2, <2>4
  <2>. QED
    BY <2>1, <2>3, <2>4, <2>5
<1>6. \A i, j \in 1..m : i < j => hz[i] < hz[j]
  BY <1>1 DEF ReadSoFar, SweepsRise
<1>7. \A k \in 1..m : hz[k] \in Int
  BY <1>1, ElementOfSeq
<1>8. m + 1 <= b
  <2>1. SUFFICES ASSUME b <= m PROVE FALSE
    BY <1>2
  <2>2. b \in 1..m /\ b - 1 \in 1..m /\ b - 1 < b /\ b <= last
    BY <1>2, <2>1
  <2>3. Hz(f, d[b]) <= Hz(f, d[b - 1])
    BY <1>1, <2>2 DEF Divides, NoiseHolds
  <2>4. hz[b] <= hz[b - 1] /\ hz[b - 1] < hz[b]
    BY <1>4, <1>6, <2>2, <2>3
  <2>. QED
    BY <1>7, <2>2, <2>4
<1>9. ASSUME rows # <<>> PROVE b = m + 1
  <2>1. r # 0 /\ m # 0
    BY <1>1, <1>9, EmptySeq DEF ReadSoFar, SweepsRise
  <2>2. SUFFICES ASSUME m + 1 < b PROVE FALSE
    BY <1>2, <1>8
  <2>3. m \in 1..m /\ 1 \in 1..r /\ m \in 1..(b - 1) /\ m + 1 \in 1..(b - 1)
    BY <1>2, <2>1, <2>2
  <2>4. Hz(f, d[m]) < Hz(f, d[m + 1])
    BY <2>3 DEF Divides, NetworkHolds, Ascending
  <2>5. rows[1].hz <= hz[m]
    BY <1>1, <1>9 DEF ReadSoFar, SweepsRise
  <2>6. rows[1] \in NoisePoints
    BY <1>1, <2>3, ElementOfSeq
  <2>7. rows[1].hz \in Int /\ hz[m] \in Int
    BY <1>7, <2>3, <2>6 DEF NoisePoints
  <2>8. hz[m] < rows[1].hz
    BY <1>4, <1>5, <2>3, <2>4
  <2>. QED
    BY <2>5, <2>7, <2>8
<1>. QED
  BY <1>1, <1>2, <1>4, <1>5, <1>8, <1>9 DEF AtBoundary

(* The reader's count is that of the file, given or inferred.                *)
LEMMA ReadersPorts ==
    ASSUME NEW d, NEW n \in Nat, NEW given, HasPorts(d, given),
           given # None => n = given,
           given = None => Len(d[1]) = n * n * 2 + 1
    PROVE  n # 0 /\ PortsOf(d, given) = n /\ ValuesPerPoint(n) = n * n * 2 + 1
<1>1. n * n * 2 + 1 <= MaxUsize /\ n # 0
  <2>1. CASE given # None
    <3>1. n > 0 /\ 2 * n * n + 1 <= MaxUsize
      BY <2>1 DEF HasPorts
    <3>2. 2 * n * n = n * n * 2
      OBVIOUS
    <3>. QED
      BY <3>1, <3>2
  <2>2. CASE given = None
    <3>1. PICK x \in 1..Len(d[1]) : 2 * x * x + 1 = Len(d[1]) /\ Len(d[1]) <= MaxUsize
      BY <2>2 DEF HasPorts
    <3>2. x > 0 /\ x \in Nat
      BY <2>2, <3>1
    <3>3. x * x > 0
      BY <3>2
    <3>4. 2 * x * x = 2 * (x * x)
      OBVIOUS
    <3>5. n # 0
      BY <2>2, <3>1, <3>2, <3>3, <3>4
    <3>. QED
      BY <2>2, <3>1, <3>5
  <2>. QED
    BY <2>1, <2>2
<1>2. ValuesPerPoint(n) = n * n * 2 + 1
  <2>1. PICK m \in Nat : m = n * n
    OBVIOUS
  <2>2. m * 2 + 1 <= MaxUsize
    BY <1>1, <2>1
  <2>3. Fits(m) /\ Fits(m * 2) /\ Fits(m * 2 + 1)
    BY <2>2, MaxUsizeAssumption DEF Fits
  <2>4. n > 0 /\ Fits(n * n) /\ Fits(n * n * 2) /\ Fits(n * n * 2 + 1)
    BY <1>1, <2>1, <2>3
  <2>. QED
    BY <2>4 DEF ValuesPerPoint
<1>3. PortsOf(d, given) = n
  <2>1. CASE given # None
    BY <2>1 DEF PortsOf
  <2>2. CASE given = None
    BY <1>1, <2>2, PortsAreThose
  <2>. QED
    BY <2>1, <2>2
<1>. QED
  BY <1>1, <1>2, <1>3

(* What the next flush relies on: why a set was closed, that an inferred     *)
(* port count came from a set no line can be added to, and that a set with a *)
(* frequency in front opened on an odd line.                                 *)
ScanInv ==
    pc # "done" =>
        /\ pc = "extend" => Odd(file[pos].n)
        /\ pc = "full" => IsFull(nports, block)
        /\ hint = None /\ nports # None => Len(Seen) >= 2 \/ pc \in {"extend", "close"}
        /\ Odd(Len(block)) => Odd(file[blockLine].n)

(* A data line taken into the block keeps ScanInv.                           *)
LEMMA ExtendKeepsScan ==
    ASSUME IInv, BlameInv, SetsInv, PortsInv, ScanInv, ExtendBlock, pc' # "done"
    PROVE  ScanInv'
<1>1. /\ pos \in 1..Len(file)
      /\ block = <<>> \/ ~Odd(file[pos].n)
      /\ pc # "done" /\ ReadUpTo = pos - 1 /\ file[pos].kind = "data"
      /\ pc = "extend" => block = <<>> /\ Odd(file[pos].n)
      /\ pc # "extend" => pc = "push"
      /\ Live
  BY DEF ExtendBlock, ClosesBlock, IInv, ControlInv, TypeOK, ReadUpTo, BlameInv, IsData, ScanInv, Live
<1>2. /\ block' = block \o Row(file, pos) /\ blockLine' = OpenedOn /\ pc' \in {"line", "full"}
      /\ UNCHANGED <<input, pos, freqHz, nports, s, noise, inNoise>>
      /\ pc' = "full" => IsFull(nports, block')
  BY DEF ExtendBlock, Fail, Answer, Values, Row
<1>3. file \in Seq(Lines) /\ block \in Seq(Places)
  BY DEF IInv, TypeOK
<1>4. Row(file, pos) \in Seq(Places) /\ Len(Row(file, pos)) = file[pos].n /\ file[pos].n \in Nat \ {0}
  BY <1>1, <1>3, RowIsTyped
<1>5. /\ Len(block') = Len(block) + file[pos].n /\ Len(block) \in Nat
      /\ block = <<>> => Len(block') = file[pos].n
  BY <1>2, <1>3, <1>4, ConcatProperties
<1>6. pc' = "full" => IsFull(nports, block)'
  BY <1>2 DEF IsFull, ExpectedLen, AtNoiseBoundary, BlockHz, input
<1>7. Odd(Len(block')) => Odd(file'[blockLine'].n)
  <2>1. file' = file
    BY <1>2 DEF input
  <2>2. CASE block = <<>>
    BY <1>2, <1>5, <2>1, <2>2 DEF OpenedOn
  <2>3. CASE block # <<>>
    <3>1. SUFFICES ASSUME Odd(Len(block')) PROVE Odd(Len(block))
      BY <1>1, <1>2, <2>1, <2>3 DEF OpenedOn, ScanInv
    <3>2. PICK x \in Nat, y \in Nat : x = Len(block) /\ y = file[pos].n
      BY <1>4, <1>5
    <3>3. (x + y) % 2 = 1 /\ ~(y % 2 = 1)
      BY <1>1, <1>5, <2>3, <3>1, <3>2 DEF Odd
    <3>4. x % 2 = 1
      BY <3>3, Parity
    <3>. QED
      BY <3>2, <3>4 DEF Odd
  <2>. QED
    BY <2>2, <2>3
<1>8. PICK i \in 1..Len(file) : i = pos
  BY <1>1
<1>9. Seen' = SetsUpTo(file)[i] /\ Seen = SetsUpTo(file)[i - 1] /\ Seen' = Joined(file, Seen, i)
  <2>1. ReadUpTo' = i
    BY <1>2, <1>8 DEF ReadUpTo
  <2>. QED
    BY <1>1, <1>2, <1>8, <2>1, SeenIs DEF Seen, input
<1>10. ASSUME hint = None, nports # None PROVE Len(Seen') >= 2
  <2>1. CASE pc = "extend"
    <3>1. PICK d \in AllSets : Seen = d /\ IsRead(file, d, freqHz, s, noise, nports)
      BY <1>1, <2>1 DEF SetsInv, Poisoned
    <3>2. freqHz # <<>> /\ freqHz \in Seq(Int) /\ noise \in Seq(NoisePoints)
      BY <1>1, <1>10 DEF PortsInv, IInv, TypeOK
    <3>3. Len(d) >= 1 /\ Len(d) \in Nat /\ d \in Seq(Seq(Places))
      <4>1. Len(freqHz) # 0
        BY <3>2, EmptySeq
      <4>2. Len(d) = Len(freqHz) + Len(noise) /\ Len(freqHz) \in Nat /\ Len(noise) \in Nat
        BY <3>1, <3>2 DEF IsRead
      <4>. QED
        BY <4>1, <4>2 DEF AllSets
    <3>4. PICK row \in Seq(Places) : row = Row(file, i)
      BY <1>4, <1>8
    <3>5. Seen' = Append(d, row)
      BY <1>1, <1>8, <1>9, <2>1, <3>1, <3>4 DEF Joined
    <3>6. Len(Append(d, row)) = Len(d) + 1
      BY <3>3, OneMore
    <3>. QED
      BY <3>3, <3>5, <3>6
  <2>2. CASE pc = "push"
    <3>1. Len(Seen) >= 2
      BY <1>1, <1>10, <2>2 DEF ScanInv
    <3>2. PICK x \in 0..Len(file), y \in 1..Len(file) : x = i - 1 /\ y = i /\ y \in x..Len(file)
      OBVIOUS
    <3>3. IsEarlier(SetsUpTo(file)[x], SetsUpTo(file)[y])
      BY <1>3, <3>2, SetsOnlyGrow
    <3>4. Len(Seen) <= Len(Seen')
      BY <1>9, <3>2, <3>3 DEF IsEarlier
    <3>5. Seen \in AllSets /\ SetsUpTo(file)[i] \in AllSets
      BY <1>8, <1>9, SeenIs, <1>3, SetsAreGathered, SMTT(30)
    <3>6. Len(Seen) \in Nat /\ Len(Seen') \in Nat
      BY <1>9, <3>5 DEF AllSets
    <3>. QED
      BY <3>1, <3>4, <3>6
  <2>. QED
    BY <1>1, <2>1, <2>2
<1>. QED
  BY <1>2, <1>6, <1>7, <1>10 DEF ScanInv, input

(* So does every step of a call that goes on.                                *)
LEMMA StepKeepsScan ==
    ASSUME IInv, BlameInv, SetsInv, PortsInv, ScanInv, [Next]_vars
    PROVE  ScanInv'
<1> SUFFICES ASSUME pc' # "done" PROVE ScanInv'
  BY DEF ScanInv
<1>1. /\ Live /\ UNCHANGED input
      /\ UNCHANGED vars \/ TakesLine \/ Extends \/ Flushes \/ Ends
      /\ ~UNCHANGED vars => pc # "done" /\ outcome.kind = "reading"
  BY LiveSteps DEF Live
<1>2. CASE UNCHANGED vars \/ TakesLine \/ Ends
  <2>1. UNCHANGED <<input, sets>> /\ pos \in Nat
    BY <1>1, <1>2 DEF vars, TakesLine, Ends, IInv, TypeOK
  <2>2. \/ ReadUpTo' = ReadUpTo
        \/ ReadUpTo' \in 1..Len(file) /\ ReadUpTo' = ReadUpTo + 1 /\ ~IsData(ReadUpTo')
    BY <1>2, <2>1 DEF vars, TakesLine, Ends, ReadUpTo
  <2>3. Seen' = Seen
    BY <2>1, <2>2, SeenIsKept DEF input
  <2>4. \/ pc' = pc /\ pos' = pos
        \/ pc' \in {"line", "push", "close", "last"} /\ pc = "line"
    BY <1>2 DEF vars, TakesLine, Ends
  <2>5. pc # "done"
    BY <2>4
  <2>6. IsFull(nports, block)' <=> IsFull(nports, block)
    BY <2>1 DEF IsFull, ExpectedLen, AtNoiseBoundary, BlockHz, input, sets
  <2>. QED
    BY <2>1, <2>3, <2>4, <2>5, <2>6 DEF ScanInv, input, sets
<1>3. CASE Extends
  BY <1>3, ExtendKeepsScan DEF Extends
<1>4. CASE Flushes
  <2>1. /\ Flushing /\ block' = <<>> /\ pc' = AfterFlush /\ UNCHANGED <<input, pos>>
        /\ pc \in {"push", "full", "last"}
        /\ nports' = nports \/ nports' = SetPorts
    BY <1>4 DEF Flushes, AddPoint, BeginNoise, AddNoisePoint, Flushing
  <2>2. pc' \in {"extend", "line", "close"} /\ ReadUpTo' = ReadUpTo
    BY <2>1 DEF AfterFlush, ReadUpTo
  <2>3. Seen' = Seen
    BY <2>1, <2>2, SeenIsKept DEF input
  <2>4. pc' = "extend" => Odd(file[pos].n)
    BY <2>1 DEF AfterFlush, Flushing, ClosesBlock
  <2>5. nports # None => nports' = nports
    BY <2>1, FlushFacts
  <2>6. nports = None => pc' \in {"extend", "close"}
    BY <2>1 DEF AfterFlush, IInv, ControlInv
  <2>7. ~Odd(Len(<<>>))
    BY DEF Odd
  <2>. QED
    BY <2>1, <2>2, <2>3, <2>4, <2>5, <2>6, <2>7 DEF ScanInv, input
<1>. QED
  BY <1>1, <1>2, <1>3, <1>4

(* Before the first line nothing is relied on.                               *)
LEMMA InitScans == Init => ScanInv
  BY DEF Init, ScanInv, Odd

(* Where the reader stands in a well-formed file: it has read the data sets  *)
(* sofar of d, whose noise begins with the b-th, and has the next one open.  *)
Stands(d, b, sofar) ==
    /\ d = DataSets(file) /\ Divides(file, hint, b)
    /\ Seen = IF block = <<>> THEN sofar ELSE Append(sofar, block)
    /\ IsEarlier(Seen, d)
    /\ ReadSoFar(file, d, sofar, freqHz, s, noise, nports)

(* In a well-formed file the reader always stands somewhere.                 *)
LEMMA WhereItStands ==
    ASSUME FileInv, WellFormed(file, hint), ~Poisoned, pc # "done"
    PROVE  \E d \in AllSets, b \in Nat, sofar \in AllSets : Stands(d, b, sofar)
<1>1. IInv /\ SetsInv
  BY DEF FileInv, GrammarInv
<1>2. PICK f \in Seq(Lines) : f = file
  BY <1>1 DEF IInv, TypeOK
<1>3. PICK sofar \in AllSets : /\ Seen = IF block = <<>> THEN sofar ELSE Append(sofar, block)
                               /\ IsRead(file, sofar, freqHz, s, noise, nports)
  BY <1>1 DEF SetsInv, Live
<1>4. PICK d \in AllSets : d = DataSets(f) /\ d = SetsUpTo(f)[Len(f)] /\ Len(OpeningLines(f)) = Len(d)
  <2>1. DataSets(f) = SetsUpTo(f)[Len(f)] /\ Len(OpeningLines(f)) = Len(DataSets(f))
    BY SetsAreDataSets
  <2>2. Len(f) \in 0..Len(f)
    OBVIOUS
  <2>3. SetsUpTo(f)[Len(f)] \in AllSets
    BY <2>2, SetsAreGathered
  <2>. QED
    BY <2>1, <2>3
<1>5. IsEarlier(Seen, d)
  <2>1. PICK i \in 0..Len(f), j \in 0..Len(f) : i = ReadUpTo /\ j = Len(f) /\ j \in i..Len(f)
    BY <1>1, <1>2, SeenIs
  <2>2. IsEarlier(SetsUpTo(f)[i], SetsUpTo(f)[j])
    BY <2>1, SetsOnlyGrow
  <2>. QED
    BY <1>2, <1>4, <2>1, <2>2 DEF Seen
<1>6. PICK b \in Nat : Divides(f, hint, b)
  <2>1. \E b \in 2..(Len(d) + 1) : Divides(f, hint, b)
    BY <1>2, <1>4 DEF WellFormed
  <2>. QED
    BY <2>1 DEF AllSets
<1>7. IsEarlier(sofar, d)
  <2>1. CASE block = <<>>
    BY <1>3, <1>5, <2>1
  <2>2. CASE block # <<>>
    <3>1. block \in Seq(Places)
      BY <1>1 DEF IInv, TypeOK
    <3>. QED
      BY <1>3, <1>5, <2>2, <3>1, EarlierSets
  <2>. QED
    BY <2>1, <2>2
<1>8. SweepsRise(freqHz, noise, nports)
  BY <1>1 DEF IInv, SweepAscends, NoiseFollowsTwoPortSweep, SweepsRise
<1>. QED
  BY <1>2, <1>3, <1>4, <1>5, <1>6, <1>7, <1>8 DEF Stands, ReadSoFar

(* And where the noise begins it has not misjudged.                          *)
LEMMA StandsAtBoundary ==
    ASSUME FileInv, NEW d \in AllSets, NEW b \in Nat, NEW sofar \in AllSets, Stands(d, b, sofar)
    PROVE  AtBoundary(file, d, b, sofar, freqHz, noise)
<1>1. PICK hz \in Seq(Int), rows \in Seq(NoisePoints), n \in Int : hz = freqHz /\ rows = noise /\ n = nports
  BY DEF FileInv, IInv, TypeOK, None
<1>2. ReadSoFar(file, d, sofar, hz, s, rows, n) /\ d = DataSets(file) /\ Divides(file, hint, b)
  BY <1>1 DEF Stands
<1>3. PICK f : f = file
  OBVIOUS
<1>4. AtBoundary(f, d, b, sofar, hz, rows)
  BY <1>2, <1>3, ReadAsItDivides
<1>. QED
  BY <1>1, <1>3, <1>4

(* The count the reader goes by is the file's.                               *)
LEMMA PortsKnown ==
    ASSUME FileInv, ScanInv, NEW d \in AllSets, NEW b \in Nat, NEW sofar \in AllSets,
           Stands(d, b, sofar), pc \notin {"extend", "done"}, nports # None
    PROVE  /\ nports \in Nat \ {0} /\ PortsOf(d, hint) = nports
           /\ ValuesPerPoint(nports) = nports * nports * 2 + 1
<1>1. PICK n \in Nat : n = nports
  BY DEF FileInv, IInv, TypeOK
<1>2. HasPorts(d, hint)
  BY DEF Stands, Divides
<1>3. hint # None => n = hint
  BY <1>1 DEF FileInv, HintHolds
<1>4. ASSUME hint = None PROVE Len(d[1]) = n * n * 2 + 1
  <2>1. freqHz # <<>> /\ freqHz \in Seq(Int)
    BY <1>4 DEF FileInv, GrammarInv, PortsInv, Live, IInv, TypeOK
  <2>2. 1 \in 1..Len(freqHz)
    <3>1. Len(freqHz) # 0 /\ Len(freqHz) \in Nat
      BY <2>1, EmptySeq
    <3>. QED
      BY <3>1
  <2>3. Len(sofar[1]) = n * n * 2 + 1
    BY <1>1, <2>2 DEF Stands, ReadSoFar, IsRead, IsSweep
  <2>4. 1 \in 1..Len(sofar)
    <3>1. noise \in Seq(NoisePoints)
      BY DEF FileInv, IInv, TypeOK
    <3>2. Len(sofar) = Len(freqHz) + Len(noise) /\ Len(noise) \in Nat /\ Len(freqHz) \in Nat
      BY <2>1, <3>1, StandsAtBoundary DEF AtBoundary
    <3>. QED
      BY <2>2, <3>2
  <2>5. d[1] = sofar[1]
    <3>1. CASE block # <<>>
      <4>1. block \in Seq(Places)
        BY DEF FileInv, IInv, TypeOK
      <4>2. IsEarlier(Append(sofar, block), d)
        BY <3>1 DEF Stands
      <4>. QED
        BY <2>4, <4>1, <4>2, EarlierSets
    <3>2. CASE block = <<>> /\ pc # "close"
      <4>1. Len(Seen) >= 2 /\ Seen = sofar
        BY <1>4, <3>2 DEF ScanInv, Stands
      <4>2. 1 < Len(sofar)
        BY <4>1 DEF AllSets
      <4>. QED
        BY <2>4, <4>1, <4>2 DEF Stands, IsEarlier
    <3>3. CASE block = <<>> /\ pc = "close"
      <4>1. ReadUpTo = Len(file) /\ file \in Seq(Lines)
        BY <3>3 DEF FileInv, HeaderInv, ReadUpTo, IInv, TypeOK
      <4>2. Seen = DataSets(file)
        BY <4>1, SetsAreDataSets DEF Seen
      <4>. QED
        BY <3>3, <4>2 DEF Stands
    <3>. QED
      BY <3>1, <3>2, <3>3
  <2>. QED
    BY <2>3, <2>5
<1>5. n # 0 /\ PortsOf(d, hint) = n /\ ValuesPerPoint(n) = n * n * 2 + 1
  BY <1>2, <1>3, <1>4, ReadersPorts
<1>. QED
  BY <1>1, <1>5

(* What the k-th set is: a network set before the b-th, a noise set from     *)
(* there on, above the one before it in its section.                         *)
IsSet(f, d, b, k, n) ==
    /\ k < b => /\ Len(d[k]) = n * n * 2 + 1
                /\ \A i \in 1..Len(d[k]) : f[d[k][i][1]].conv
    /\ k >= b => /\ n = 2 /\ Len(d[k]) = 5
                 /\ \A i \in 1..5 : f[d[k][i][1]].fin
                 /\ Hz(f, d[b]) <= Hz(f, d[b - 1])
    /\ \A j \in 1..(k - 1) : k < b \/ b <= j => Hz(f, d[j]) < Hz(f, d[k])

(* The sets a file divides into are like that.                               *)
LEMMA SizesOfSets ==
    ASSUME NEW f, NEW b \in Nat, NEW d \in AllSets, d = DataSets(f),
           NEW k \in 1..Len(d), NEW n \in Int, \E x : Divides(f, x, b) /\ n = PortsOf(d, x)
    PROVE  IsSet(f, d, b, k, n)
<1> PICK given : Divides(f, given, b) /\ n = PortsOf(d, given)
  OBVIOUS
<1>1. PICK last \in Nat : last = Len(d)
  BY DEF AllSets
<1>2. d[k] \in Seq(Places) /\ DOMAIN d[k] = 1..Len(d[k])
  BY ElementOfSeq DEF AllSets
<1>3. ASSUME k < b
      PROVE  /\ Len(d[k]) = n * n * 2 + 1
             /\ \A i \in 1..Len(d[k]) : f[d[k][i][1]].conv
             /\ \A j \in 1..(k - 1) : Hz(f, d[j]) < Hz(f, d[k])
  <2>1. k \in 1..(b - 1)
    BY <1>1, <1>3
  <2>2. NetworkHolds(f, d, n, b)
    BY DEF Divides
  <2>3. Len(d[k]) = 2 * n * n + 1 /\ \A i \in DOMAIN d[k] : f[d[k][i][1]].conv
    BY <2>1, <2>2 DEF NetworkHolds
  <2>4. 2 * n * n + 1 = n * n * 2 + 1
    <3>1. 2 * n * n = 2 * (n * n)
      OBVIOUS
    <3>. QED
      BY <3>1
  <2>5. \A j \in 1..(k - 1) : j \in 1..(b - 1) /\ j < k
    BY <2>1
  <2>6. \A j \in 1..(k - 1) : Hz(f, d[j]) < Hz(f, d[k])
    BY <2>1, <2>2, <2>5 DEF NetworkHolds, Ascending
  <2>. QED
    BY <1>2, <2>3, <2>4, <2>6, Zenon
<1>4. ASSUME k >= b
      PROVE  /\ n = 2 /\ Len(d[k]) = 5
             /\ \A i \in 1..5 : f[d[k][i][1]].fin
             /\ Hz(f, d[b]) <= Hz(f, d[b - 1])
             /\ \A j \in 1..(k - 1) : b <= j => Hz(f, d[j]) < Hz(f, d[k])
  <2>1. k \in b..Len(d) /\ b <= Len(d)
    BY <1>1, <1>4
  <2>2. NoiseHolds(f, d, n, b)
    BY DEF Divides
  <2>3. /\ n = 2 /\ Hz(f, d[b]) <= Hz(f, d[b - 1])
        /\ Ascending(f, d, b, Len(d)) /\ Len(d[k]) = 5
        /\ \A i \in DOMAIN d[k] : f[d[k][i][1]].fin
    BY <2>1, <2>2 DEF NoiseHolds
  <2>4. \A j \in 1..(k - 1) : b <= j => j \in b..Len(d) /\ j < k
    BY <2>1
  <2>5. \A j \in 1..(k - 1) : b <= j => Hz(f, d[j]) < Hz(f, d[k])
    BY <2>1, <2>3, <2>4 DEF Ascending
  <2>6. \A i \in 1..5 : f[d[k][i][1]].fin
    BY <1>2, <2>3, Zenon
  <2>. QED
    BY <2>3, <2>5, <2>6
<1>5. k < b \/ k >= b
  BY <1>1
<1>6. ASSUME k < b PROVE ~(k >= b)
  BY <1>1, <1>6
<1>. QED
  BY <1>3, <1>4, <1>5, <1>6, Zenon DEF IsSet

(* From the first opening line on there is a data set.                       *)
LEMMA OpenerOpens ==
    ASSUME NEW f \in Seq(Lines), NEW i \in Openers(f), NEW j \in i..Len(f)
    PROVE  Len(SetsUpTo(f)[j]) >= 1
<1>1. PICK k \in 1..Len(f) : k = i /\ f[k].kind = "data" /\ Odd(f[k].n)
  BY DEF Openers, LinesOf
<1>2. PICK g \in [0..Len(f) -> AllSets] : g = SetsUpTo(f) /\ IsGathered(f, g)
  BY SetsAreGathered
<1>3. PICK x \in 0..Len(f), y \in 0..Len(f) : x = k /\ y = j /\ y \in x..Len(f) /\ k - 1 \in 0..Len(f)
  BY <1>1
<1>4. PICK before \in Seq(Seq(Places)) : before = g[k - 1]
  <2>1. g[k - 1] \in AllSets
    BY <1>3
  <2>. QED
    BY <2>1 DEF AllSets
<1>5. PICK row \in Seq(Places) : row = Row(f, k)
  BY RowIsTyped
<1>6. g[k] = Append(before, row)
  BY <1>1, <1>2, <1>4, <1>5 DEF IsGathered, Joined
<1>7. Len(Append(before, row)) = Len(before) + 1 /\ Len(before) \in Nat
  BY OneMore
<1>8. IsEarlier(g[x], g[y])
  BY <1>2, <1>3, SetsOnlyGrow
<1>9. Len(g[x]) <= Len(g[y]) /\ g[y] \in AllSets
  BY <1>3, <1>8 DEF IsEarlier
<1>. QED
  BY <1>1, <1>2, <1>3, <1>6, <1>7, <1>9 DEF AllSets

(* A beginning as long as the whole is the whole.                            *)
LEMMA WholeBeginning ==
    ASSUME NEW long \in Seq(Places), NEW short \in Seq(Places), Begins(long, short),
           Len(long) <= Len(short)
    PROVE  short = long
<1>1. Len(long) = Len(short) /\ \A i \in 1..Len(short) : short[i] = long[i]
  BY DEF Begins
<1>. QED
  BY <1>1, SeqEqual

(* The sets that have been read have all their values.                       *)
LEMMA ReadSetsAreWhole ==
    ASSUME FileInv, ScanInv, NEW d \in AllSets, NEW b \in Nat, NEW sofar \in AllSets,
           Stands(d, b, sofar), pc \notin {"extend", "done"}, NEW k \in 1..Len(sofar)
    PROVE  k \in 1..Len(d) /\ Len(d[k]) = Len(sofar[k])
<1>1. PICK hz \in Seq(Int), rows \in Seq(NoisePoints), f \in Seq(Lines), n \in Nat \cup {None}, given \in {hint} :
         hz = freqHz /\ rows = noise /\ f = file /\ n = nports /\ given = hint
  BY DEF FileInv, IInv, TypeOK
<1>2. PICK m \in Nat, r \in Nat, last \in Nat : m = Len(hz) /\ r = Len(rows) /\ last = Len(d)
  BY DEF AllSets
<1>3. AtBoundary(f, d, b, sofar, hz, rows)
  BY <1>1, StandsAtBoundary
<1>4. Len(sofar) = m + r /\ m + r <= last /\ m + 1 <= b /\ (rows # <<>> => b = m + 1)
  BY <1>2, <1>3 DEF AtBoundary
<1>5. k \in 1..last
  BY <1>2, <1>4
<1>6. IsRead(f, sofar, hz, s, rows, n) /\ Divides(f, given, b) /\ d = DataSets(f)
  BY <1>1 DEF Stands, ReadSoFar
<1>7. n # None
  <2>1. m # 0
    <3>1. rows # <<>> => hz # <<>>
      BY <1>1 DEF FileInv, IInv, NoiseFollowsTwoPortSweep
    <3>2. m = 0 => hz = <<>>
      BY <1>2, EmptySeq
    <3>3. r # 0 => rows # <<>>
      BY <1>2, EmptySeq
    <3>. QED
      BY <1>2, <1>4, <3>1, <3>2, <3>3, EmptySeq
  <2>2. hz # <<>>
    BY <1>2, <2>1, EmptySeq
  <2>. QED
    BY <1>1, <2>2 DEF FileInv, IInv, ShapeInv
<1>8. n \in Int /\ n = PortsOf(d, given)
  BY <1>1, <1>7, PortsKnown
<1>9. /\ k < b => Len(d[k]) = n * n * 2 + 1
      /\ k >= b => Len(d[k]) = 5
  <2>1. k \in 1..Len(d)
    BY <1>2, <1>5
  <2>2. IsSet(f, d, b, k, n)
    BY <1>6, <1>8, <2>1, SizesOfSets
  <2>. QED
    BY <2>2 DEF IsSet
<1>10. CASE k \in 1..m
  <2>1. Len(sofar[k]) = n * n * 2 + 1
    BY <1>2, <1>6, <1>10 DEF IsRead, IsSweep
  <2>2. k < b
    BY <1>4, <1>10
  <2>. QED
    BY <1>2, <1>5, <1>9, <2>1, <2>2
<1>11. CASE k \in (m + 1)..(m + r)
  <2>1. PICK i \in 1..r : k = m + i
    <3>1. k - m \in 1..r /\ k = m + (k - m)
      BY <1>11
    <3>. QED
      BY <3>1
  <2>2. Len(sofar[k]) = 5
    BY <1>2, <1>6, <2>1 DEF IsRead, IsNoise
  <2>3. k >= b
    <3>1. r # 0
      BY <2>1
    <3>. QED
      BY <1>2, <1>4, <1>11, <3>1, EmptySeq
  <2>. QED
    BY <1>2, <1>5, <1>9, <2>2, <2>3
<1>. QED
  BY <1>4, <1>10, <1>11

(* No line of a well-formed file begins a block that is not a data set.      *)
LEMMA NoPoison ==
    ASSUME FileInv, ScanInv, WellFormed(file, hint), ~Poisoned, ExtendBlock, pc' # "done"
    PROVE  ~Poisoned'
<1>. USE DEF FileInv, GrammarInv
<1>1. /\ pos \in 1..Len(file)
      /\ block = <<>> \/ ~Odd(file[pos].n)
      /\ pc # "done" /\ ReadUpTo = pos - 1 /\ file[pos].kind = "data"
      /\ pc = "extend" => block = <<>> /\ Odd(file[pos].n)
      /\ pc # "extend" => pc = "push"
  BY DEF ExtendBlock, ClosesBlock, IInv, ControlInv, TypeOK, ReadUpTo, BlameInv, IsData, ScanInv
<1>2. block' = block \o Row(file, pos) /\ pc' \in {"line", "full"} /\ UNCHANGED <<input, pos>>
  BY DEF ExtendBlock, Fail, Answer, Values, Row
<1>3. file \in Seq(Lines) /\ block \in Seq(Places)
  BY DEF IInv, TypeOK
<1>4. Row(file, pos) \in Seq(Places) /\ Len(Row(file, pos)) = file[pos].n /\ file[pos].n \in Nat \ {0}
  BY <1>1, <1>3, RowIsTyped
<1>5. /\ Len(block') = Len(block) + file[pos].n /\ Len(block) \in Nat
      /\ block = <<>> => Len(block') = file[pos].n
  BY <1>2, <1>3, <1>4, ConcatProperties
<1>6. CASE block # <<>>
  <2>1. PICK x \in Nat, y \in Nat : x = Len(block) /\ y = file[pos].n
    BY <1>4, <1>5
  <2>2. x % 2 = 1 /\ ~(y % 2 = 1)
    BY <1>1, <1>6, <2>1 DEF Poisoned, Odd
  <2>3. (x + y) % 2 = 1
    BY <2>2
  <2>. QED
    BY <1>5, <2>1, <2>3 DEF Poisoned, Odd
<1>7. CASE block = <<>> /\ Odd(file[pos].n)
  BY <1>5, <1>7 DEF Poisoned
<1>8. CASE block = <<>> /\ ~Odd(file[pos].n)
  <2>1. pc = "push"
    BY <1>1, <1>8
  <2>2. PICK d \in AllSets, b \in Nat, sofar \in AllSets : Stands(d, b, sofar)
    BY <1>1, WhereItStands
  <2>3. Seen = sofar
    BY <1>8, <2>2 DEF Stands
  <2>4. PICK f \in Seq(Lines) : f = file
    BY <1>3
  <2>5. PICK i \in 1..Len(f), x \in 0..Len(f), last \in 0..Len(f) :
           i = pos /\ x = i - 1 /\ last = Len(f) /\ last \in i..Len(f)
    BY <1>1, <2>4
  <2>6. /\ sofar = SetsUpTo(f)[x] /\ SetsUpTo(f)[i] = Joined(f, sofar, i)
    BY <1>1, <2>3, <2>4, <2>5, SeenIs DEF Seen
  <2>7. Len(sofar) >= 1
    <3>1. PICK T : T = LinesOf(f, "data")
      OBVIOUS
    <3>2. T \subseteq Nat
      BY <3>1 DEF LinesOf
    <3>3. i \in T
      BY <1>1, <2>4, <2>5, <3>1 DEF LinesOf
    <3>4. Min(T) \in T /\ \A y \in T : Min(T) <= y
      BY <3>2, <3>3, MinIsLeast
    <3>5. PICK least \in T : least = Min(T) /\ least <= i
      BY <3>3, <3>4
    <3>6. least \in Openers(f)
      BY <2>4, <3>1, <3>5 DEF WellFormed
    <3>7. least # i
      BY <1>8, <2>4, <2>5, <3>6 DEF Openers
    <3>8. x \in least..Len(f)
      BY <2>5, <3>2, <3>5, <3>7
    <3>. QED
      BY <2>6, <3>6, <3>8, OpenerOpens
  <2>8. PICK k \in 1..Len(sofar) : k = Len(sofar)
    BY <2>7 DEF AllSets
  <2>9. k \in 1..Len(d) /\ Len(d[k]) = Len(sofar[k])
    BY <2>1, <2>2, ReadSetsAreWhole
  <2>10. IsEarlier(SetsUpTo(f)[i], d)
    <3>1. IsEarlier(SetsUpTo(f)[i], SetsUpTo(f)[last])
      BY <2>5, SetsOnlyGrow
    <3>2. d = SetsUpTo(f)[last]
      BY <2>2, <2>4, <2>5, SetsAreDataSets DEF Stands
    <3>. QED
      BY <3>1, <3>2
  <2>11. PICK set \in Seq(Places), row \in Seq(Places) :
            set = sofar[k] /\ row = Row(f, i) /\ Len(row) \in Nat \ {0}
    <3>1. sofar[k] \in Seq(Places)
      BY ElementOfSeq DEF AllSets
    <3>. QED
      BY <1>4, <2>4, <2>5, <3>1
  <2>12. PICK more \in Seq(Places) : more = set \o row /\ Len(more) = Len(set) + Len(row)
    BY JoinBegins
  <2>13. PICK e \in Seq(Seq(Places)) : e = [sofar EXCEPT ![k] = more]
    BY ExceptSeq DEF AllSets
  <2>14. Len(e) = Len(sofar) /\ e[k] = more
    BY <2>13, ExceptSeq DEF AllSets
  <2>15. SetsUpTo(f)[i] = e
    <3>1. sofar # <<>>
      BY <2>7
    <3>. QED
      BY <1>1, <1>8, <2>4, <2>5, <2>6, <2>8, <2>11, <2>12, <2>13, <3>1 DEF Joined
  <2>16. Len(more) <= Len(d[k])
    BY <2>10, <2>14, <2>15 DEF IsEarlier, Begins
  <2>17. Len(set) \in Nat
    OBVIOUS
  <2>. QED
    BY <2>9, <2>11, <2>12, <2>16, <2>17
<1>. QED
  BY <1>6, <1>7, <1>8

(* Once the set that follows has opened, or the file has ended, the block    *)
(* has all of its set.                                                       *)
LEMMA ClosedIsWhole ==
    ASSUME FileInv, NEW d \in AllSets, NEW b \in Nat, NEW sofar \in AllSets,
           Stands(d, b, sofar), Flushing, pc # "full"
    PROVE  /\ Len(sofar) + 1 \in 1..Len(d) /\ Begins(d[Len(sofar) + 1], block)
           /\ block = d[Len(sofar) + 1]
<1>. USE DEF FileInv, GrammarInv
<1>1. PICK f \in Seq(Lines), set \in Seq(Places), e \in AllSets :
         /\ f = file /\ set = block /\ set # <<>> /\ e = Append(sofar, set) /\ Seen = e
         /\ IsEarlier(e, d)
  <2>1. file \in Seq(Lines) /\ block \in Seq(Places) /\ block # <<>>
    BY FlushFacts DEF IInv, TypeOK
  <2>2. Seen = Append(sofar, block) /\ Seen \in AllSets /\ IsEarlier(Seen, d)
    BY <2>1, SeenIs DEF Stands
  <2>. QED
    BY <2>1, <2>2
<1>2. /\ Len(sofar) + 1 \in 1..Len(d) /\ Begins(d[Len(sofar) + 1], set)
  BY <1>1, EarlierSets
<1>3. PICK m \in Nat : m = Len(sofar)
  BY DEF AllSets
<1>4. Len(e) = m + 1 /\ e[m + 1] = set
  <2>1. sofar \in Seq(Seq(Places))
    BY DEF AllSets
  <2>. QED
    BY <1>1, <1>3, <2>1, OneMore
<1>5. CASE pc = "last"
  <2>1. ReadUpTo = Len(f)
    BY <1>1, <1>5 DEF HeaderInv, ReadUpTo
  <2>2. d = e
    BY <1>1, <2>1, SetsAreDataSets DEF Seen, Stands
  <2>. QED
    BY <1>1, <1>2, <1>3, <1>4, <2>2
<1>6. CASE pc = "push"
  <2>1. pos \in 1..Len(f) /\ Odd(f[pos].n) /\ f[pos].kind = "data" /\ ReadUpTo = pos - 1
    BY <1>1, <1>6 DEF Flushing, ClosesBlock, IInv, ControlInv, BlameInv, IsData, ReadUpTo
  <2>2. PICK i \in 1..Len(f), x \in 0..Len(f), last \in 0..Len(f) :
           i = pos /\ x = i /\ last = Len(f) /\ last \in x..Len(f)
    BY <2>1
  <2>3. PICK row \in Seq(Places) : row = Row(f, i)
    BY RowIsTyped
  <2>4. PICK later \in AllSets : later = Append(e, row)
    <3>1. e \in Seq(Seq(Places))
      BY DEF AllSets
    <3>. QED
      BY <3>1, OneMore DEF AllSets
  <2>5. SetsUpTo(f)[x] = later
    <3>1. SetsUpTo(f)[i] = Joined(f, SetsUpTo(f)[i - 1], i)
      BY <1>1, <2>2, SeenIs
    <3>2. SetsUpTo(f)[i - 1] = e
      BY <1>1, <2>1, <2>2 DEF Seen
    <3>. QED
      BY <2>1, <2>2, <2>3, <2>4, <3>1, <3>2 DEF Joined
  <2>6. IsEarlier(later, d)
    <3>1. IsEarlier(SetsUpTo(f)[x], SetsUpTo(f)[last])
      BY <2>2, SetsOnlyGrow
    <3>2. d = SetsUpTo(f)[last]
      BY <1>1, <2>2, SetsAreDataSets DEF Stands
    <3>. QED
      BY <2>5, <3>1, <3>2
  <2>7. \A k \in 1..Len(e) : d[k] = e[k]
    BY <2>4, <2>6, EarlierSets
  <2>. QED
    BY <1>1, <1>2, <1>3, <1>4, <2>7
<1>7. pc \in {"push", "last"}
  BY DEF Flushing
<1>. QED
  BY <1>5, <1>6, <1>7

(* A block that is full has all of its set and no more.                      *)
LEMMA FullIsWhole ==
    ASSUME FileInv, ScanInv, NEW d \in AllSets, NEW b \in Nat, NEW sofar \in AllSets,
           Stands(d, b, sofar), pc = "full"
    PROVE  /\ Len(sofar) + 1 \in 1..Len(d) /\ Begins(d[Len(sofar) + 1], block)
           /\ block = d[Len(sofar) + 1]
<1>. USE DEF FileInv, GrammarInv
<1>1. PICK f \in Seq(Lines), set \in Seq(Places) :
         f = file /\ set = block /\ set # <<>> /\ IsEarlier(Append(sofar, set), d)
  <2>1. file \in Seq(Lines) /\ block \in Seq(Places) /\ block # <<>>
    BY FlushFacts DEF IInv, TypeOK, Flushing
  <2>2. IsEarlier(Append(sofar, block), d)
    BY <2>1 DEF Stands
  <2>. QED
    BY <2>1, <2>2
<1>2. /\ Len(sofar) + 1 \in 1..Len(d) /\ Begins(d[Len(sofar) + 1], set)
  BY <1>1, EarlierSets
<1>3. PICK k \in 1..Len(d), whole \in Seq(Places) : k = Len(sofar) + 1 /\ whole = d[k]
  <2>1. \A k \in 1..Len(d) : d[k] \in Seq(Places)
    BY ElementOfSeq DEF AllSets
  <2>. QED
    BY <1>2, <2>1
<1>4. Begins(whole, set) /\ Len(set) \in Nat /\ Len(whole) \in Nat /\ Len(set) <= Len(whole)
  BY <1>2, <1>3 DEF Begins
<1>5. SUFFICES Len(whole) <= Len(set)
  BY <1>1, <1>2, <1>3, <1>4, WholeBeginning
<1>6. nports # None /\ IsFull(nports, set)
  BY <1>1 DEF IInv, ControlInv, ScanInv
<1>7. PICK n \in Nat \ {0} : n = nports /\ n = PortsOf(d, hint) /\ ValuesPerPoint(n) = n * n * 2 + 1
  BY <1>6, PortsKnown
<1>8. IsSet(f, d, b, k, n)
  BY <1>1, <1>7, SizesOfSets, SMTT(30) DEF Stands
<1>9. AtBoundary(f, d, b, sofar, freqHz, noise)
  BY <1>1, StandsAtBoundary
<1>10. PICK m \in Nat, r \in Nat, hz \in Seq(Int) : m = Len(hz) /\ r = Len(noise) /\ hz = freqHz
  BY SMTT(30) DEF IInv, TypeOK
<1>11. k = m + r + 1 /\ m + 1 <= b /\ (noise # <<>> => b = m + 1)
  BY <1>3, <1>9, <1>10 DEF AtBoundary
<1>12. CASE inNoise
  <2>1. noise # <<>>
    BY <1>12 DEF IInv, NoiseFollowsTwoPortSweep
  <2>2. k >= b
    BY <1>11, <2>1
  <2>3. Len(whole) = 5
    BY <1>3, <1>8, <2>2 DEF IsSet
  <2>4. Len(set) >= 5
    BY <1>6, <1>12 DEF IsFull, ExpectedLen, NoiseValuesPerSet, AtNoiseBoundary
  <2>. QED
    BY <1>4, <2>3, <2>4
<1>13. CASE ~inNoise
  <2>1. noise = <<>> /\ r = 0
    BY <1>10, <1>13, EmptySeq DEF IInv, NoiseFollowsTwoPortSweep
  <2>2. k = m + 1 /\ k <= b
    BY <1>11, <2>1
  <2>3. Len(set) >= n * n * 2 + 1 \/ AtNoiseBoundary(n, set)
    BY <1>6, <1>7, <1>13 DEF IsFull, ExpectedLen
  <2>4. CASE k < b
    <3>1. Len(whole) = n * n * 2 + 1
      BY <1>3, <1>8, <2>4 DEF IsSet
    <3>2. ~AtNoiseBoundary(n, set)
      <4>1. SUFFICES ASSUME m # 0, hz[m] >= BlockHz(set) PROVE FALSE
        BY <1>10, EmptySeq DEF AtNoiseBoundary
      <4>2. m \in 1..m /\ m \in 1..(k - 1)
        BY <2>2, <4>1
      <4>3. hz[m] = Hz(f, d[m])
        BY <1>9, <1>10, <4>2 DEF AtBoundary
      <4>4. Hz(f, d[m]) < Hz(f, d[k])
        BY <1>8, <2>4, <4>2 DEF IsSet
      <4>5. BlockHz(set) = Hz(f, d[k])
        <5>1. 1 \in 1..Len(set)
          BY <1>1, EmptySeq
        <5>2. whole[1] = set[1]
          BY <1>4, <5>1 DEF Begins
        <5>. QED
          BY <1>1, <1>3, <5>2 DEF BlockHz, Hz
      <4>6. hz[m] \in Int /\ BlockHz(set) \in Int
        BY <1>1, <1>10, <4>2, ElementOfSeq, FlushFacts DEF Flushing
      <4>. QED
        BY <4>1, <4>3, <4>4, <4>5, <4>6
    <3>3. PICK size \in Nat : size = n * n * 2 + 1
      OBVIOUS
    <3>. QED
      BY <1>4, <2>3, <3>1, <3>2, <3>3
  <2>5. CASE k = b
    <3>1. n = 2 /\ Len(whole) = 5
      <4>1. k >= b
        BY <2>5
      <4>. QED
        BY <1>3, <1>8, <4>1 DEF IsSet
    <3>2. Len(set) >= 5
      <4>1. PICK size \in Nat : size = n * n * 2 + 1 /\ size = 9
        BY <3>1
      <4>2. AtNoiseBoundary(n, set) => Len(set) = 5
        BY DEF AtNoiseBoundary, NoiseValuesPerSet
      <4>3. Len(set) \in Nat
        BY <1>4
      <4>4. Len(set) >= size \/ AtNoiseBoundary(n, set)
        BY <2>3, <4>1
      <4>5. CASE Len(set) >= size
        BY <4>1, <4>3, <4>5
      <4>6. CASE AtNoiseBoundary(n, set)
        <5>1. Len(set) = 5
          BY <4>2, <4>6
        <5>. QED
          BY <5>1
      <4>. QED
        BY <4>4, <4>5, <4>6
    <3>. QED
      BY <1>4, <3>1, <3>2
  <2>. QED
    BY <2>2, <2>4, <2>5
<1>. QED
  BY <1>12, <1>13

(* The block about to be closed is the next of the file's data sets.         *)
LEMMA NextSet ==
    ASSUME FileInv, ScanInv, NEW d \in AllSets, NEW b \in Nat, NEW sofar \in AllSets,
           Stands(d, b, sofar), Flushing
    PROVE  /\ Len(sofar) + 1 \in 1..Len(d)
           /\ block = d[Len(sofar) + 1]
<1>1. CASE pc = "full"
  BY <1>1, FullIsWhole
<1>2. CASE pc # "full"
  BY <1>2, ClosedIsWhole
<1>. QED
  BY <1>1, <1>2

(* A data set's length names its port count.                                 *)
LEMMA CountFromLength ==
    ASSUME NEW n \in Nat \ {0}
    PROVE  NportsFromDataSet(n * n * 2 + 1) = n
<1>1. PICK size \in Nat \ {0} : size = n * n
  BY SMT
<1>2. (size * 2 + 1 - 1) \div 2 = size
  <2>1. size * 2 + 1 - 1 = 2 * size
    OBVIOUS
  <2>. QED
    BY <2>1, HalfOfTwice
<1>3. n \in 1..size
  <2>1. n * 1 <= n * n
    OBVIOUS
  <2>. QED
    BY <1>1, <2>1
<1>4. size * 2 + 1 >= 3 /\ Odd(size * 2 + 1)
  BY DEF Odd
<1>5. \A x \in 1..size : x * x = size => x = n
  <2>1. ASSUME NEW x \in 1..size, x * x = size PROVE x = n
    <3>1. x \in Nat /\ x * x = n * n
      BY <1>1, <2>1
    <3>. QED
      BY <3>1, OneRoot
  <2>. QED
    BY <2>1
<1>6. NportsFromDataSet(size * 2 + 1) = CHOOSE x \in 1..size : x * x = size
  BY <1>1, <1>2, <1>3, <1>4 DEF NportsFromDataSet
<1>7. NportsFromDataSet(size * 2 + 1) = n
  BY <1>1, <1>3, <1>5, <1>6
<1>. QED
  BY <1>1, <1>7

(* The set is finite in front: the line it opened on opens a data set.       *)
LEMMA FirstIsFinite ==
    ASSUME FileInv, ScanInv, WellFormed(file, hint), Flushing, Odd(Len(block))
    PROVE  Finite(BlockHz(block))
<1>1. block # <<>> /\ block[1] = <<blockLine, 1>> /\ blockLine \in 1..Len(file) /\ pc # "done"
  BY FlushFacts DEF FileInv, Flushing
<1>2. IsData(blockLine) /\ Odd(file[blockLine].n)
  BY <1>1 DEF FileInv, BlameInv, OpenBlock, ScanInv
<1>3. blockLine \in Openers(file)
  BY <1>1, <1>2 DEF Openers, LinesOf, IsData
<1>4. Finite(file[blockLine].hz)
  BY <1>3 DEF WellFormed
<1>. QED
  BY <1>1, <1>4 DEF BlockHz

(* No check of flush or flush_noise fails on a set of a well-formed file.    *)
LEMMA SetPasses ==
    ASSUME FileInv, ScanInv, WellFormed(file, hint), NEW d \in AllSets, NEW b \in Nat,
           NEW sofar \in AllSets, Stands(d, b, sofar), Flushing
    PROVE  SetFault = NoFault
<1>. USE DEF FileInv, GrammarInv
<1>1. PICK f \in Seq(Lines), set \in Seq(Places), hz \in Seq(Int), rows \in Seq(NoisePoints),
           m \in Nat, r \in Nat, k \in 1..Len(d) :
         /\ f = file /\ set = block /\ hz = freqHz /\ rows = noise
         /\ m = Len(hz) /\ r = Len(rows) /\ k = Len(sofar) + 1
  <2>1. /\ file \in Seq(Lines) /\ block \in Seq(Places) /\ freqHz \in Seq(Int)
        /\ noise \in Seq(NoisePoints)
    BY DEF IInv, TypeOK
  <2>2. Len(sofar) + 1 \in 1..Len(d)
    BY NextSet
  <2>. QED
    BY <2>1, <2>2
<1>2. set = d[k] /\ set # <<>> /\ BlockHz(set) = Hz(f, d[k]) /\ BlockHz(set) \in Int
  BY <1>1, NextSet, FlushFacts DEF BlockHz, Hz
<1>3. AtBoundary(f, d, b, sofar, hz, rows)
  BY <1>1, StandsAtBoundary
<1>4. k = m + r + 1 /\ m + 1 <= b /\ (rows # <<>> => b = m + 1) /\ b >= 2
  BY <1>1, <1>3 DEF AtBoundary
<1>5. PICK n \in Nat \ {0} : /\ n = SetPorts /\ ValuesPerPoint(n) = n * n * 2 + 1
                             /\ IsSet(f, d, b, k, n)
  <2>1. pc \notin {"extend", "done"}
    BY DEF Flushing
  <2>2. CASE nports # None
    <3>1. /\ nports \in Nat \ {0} /\ PortsOf(d, hint) = nports
          /\ ValuesPerPoint(nports) = nports * nports * 2 + 1
      BY <2>1, <2>2, PortsKnown
    <3>2. SetPorts = nports
      BY <2>2 DEF SetPorts
    <3>3. IsSet(f, d, b, k, nports)
      BY <1>1, <3>1, SizesOfSets DEF Stands
    <3>. QED
      BY <3>1, <3>2, <3>3
  <2>3. CASE nports = None
    <3>1. hint = None /\ freqHz = <<>> /\ noise = <<>>
      BY <2>3 DEF HintHolds, IInv, ShapeInv, NoiseFollowsTwoPortSweep
    <3>2. k = 1 /\ HasPorts(d, hint)
      BY <1>1, <1>4, <3>1 DEF Stands, Divides
    <3>3. PICK n \in 1..Len(d[1]) : 2 * n * n + 1 = Len(d[1])
      BY <3>1, <3>2 DEF HasPorts
    <3>4. Len(d[1]) \in Nat
      BY <1>1, <1>2, <3>2
    <3>5. n \in Nat \ {0} /\ 2 * n * n + 1 = n * n * 2 + 1
      <4>1. n \in Nat \ {0}
        BY <3>3, <3>4
      <4>2. 2 * n * n = n * n * 2
        BY <4>1
      <4>. QED
        BY <4>1, <4>2
    <3>6. PortsOf(d, hint) = n /\ ValuesPerPoint(n) = n * n * 2 + 1
      <4>1. hint = None => Len(d[1]) = n * n * 2 + 1
        BY <3>3, <3>5
      <4>2. n \in Nat
        BY <3>5
      <4>. QED
        BY <3>1, <3>2, <4>1, <4>2, ReadersPorts
    <3>7. SetPorts = n
      <4>1. Len(block) = n * n * 2 + 1
        BY <1>1, <1>2, <3>2, <3>3, <3>5
      <4>. QED
        BY <2>3, <3>5, <4>1, CountFromLength DEF SetPorts
    <3>8. IsSet(f, d, b, k, n)
      BY <1>1, <3>5, <3>6, SizesOfSets DEF Stands
    <3>. QED
      BY <3>5, <3>6, <3>7, <3>8
  <2>. QED
    BY <2>2, <2>3
<1>6. PICK size \in Nat : size = n * n * 2 + 1 /\ Odd(size)
  <2>1. PICK x \in Nat : x = n * n
    OBVIOUS
  <2>. QED
    BY <2>1 DEF Odd
<1>7. Odd(Len(set))
  <2>1. Len(set) = size \/ Len(set) = 5
    <3>1. k < b \/ k >= b
      OBVIOUS
    <3>. QED
      BY <1>2, <1>5, <1>6, <3>1 DEF IsSet
  <2>2. Odd(5)
    BY DEF Odd
  <2>. QED
    BY <1>6, <2>1, <2>2
<1>8. Finite(BlockHz(set))
  BY <1>1, <1>7, FirstIsFinite
<1>9. \A i \in 1..m : hz[i] = Hz(f, d[i]) /\ hz[i] \in Int
  BY <1>1, <1>3, ElementOfSeq DEF AtBoundary
<1>10. ASSUME k >= b, inNoise \/ noise = <<>>
       PROVE  NoiseFault = NoFault
  <2>1. Len(set) = NoiseValuesPerSet
    BY <1>2, <1>5, <1>10 DEF IsSet, NoiseValuesPerSet
  <2>2. AllFinite(set)
    BY <1>1, <1>2, <1>5, <1>10 DEF IsSet, AllFinite
  <2>3. PastLastNoise(BlockHz(set))
    <3>1. SUFFICES ASSUME rows # <<>> PROVE rows[r].hz < BlockHz(set)
      BY <1>1 DEF PastLastNoise
    <3>2. r \in 1..r /\ b = m + 1
      BY <1>1, <1>4, <3>1, EmptySeq
    <3>3. rows[r].hz = Hz(f, d[m + r])
      BY <1>1, <1>3, <3>2 DEF AtBoundary
    <3>4. m + r \in 1..(k - 1) /\ b <= m + r
      BY <1>4, <3>2
    <3>5. Hz(f, d[m + r]) < Hz(f, d[k])
      BY <1>5, <3>4 DEF IsSet
    <3>. QED
      BY <1>2, <3>3, <3>5
  <2>. QED
    BY <1>1, <1>8, <2>1, <2>2, <2>3 DEF NoiseFault, NoFault
<1>11. CASE inNoise
  <2>1. rows # <<>>
    BY <1>1, <1>11 DEF IInv, NoiseFollowsTwoPortSweep
  <2>2. k >= b
    BY <1>4, <2>1
  <2>. QED
    BY <1>10, <1>11, <2>2 DEF SetFault, ReadsNoise
<1>12. CASE ~inNoise /\ k >= b
  <2>1. rows = <<>> /\ r = 0
    BY <1>1, <1>12, EmptySeq DEF IInv, NoiseFollowsTwoPortSweep
  <2>2. k = b /\ m = b - 1 /\ m \in 1..m
    BY <1>4, <1>12, <2>1
  <2>3. hz # <<>> /\ hz[m] >= BlockHz(set)
    <3>1. Hz(f, d[b]) <= Hz(f, d[b - 1])
      BY <1>5, <1>12 DEF IsSet
    <3>2. hz[m] = Hz(f, d[b - 1]) /\ BlockHz(set) = Hz(f, d[b]) /\ hz[m] \in Int
      BY <1>2, <1>9, <2>2
    <3>3. hz # <<>>
      <4>1. Len(hz) # 0
        BY <1>1, <2>2
      <4>. QED
        BY <4>1, EmptySeq
    <3>. QED
      BY <1>1, <1>2, <2>2, <3>1, <3>2, <3>3
  <2>4. AtNoiseBoundary(n, set)
    BY <1>1, <1>2, <1>5, <1>12, <2>3 DEF AtNoiseBoundary, IsSet, NoiseValuesPerSet
  <2>5. NoiseFault = NoFault
    BY <1>1, <1>10, <1>12, <2>1
  <2>6. SetPorts # None
    BY <1>5 DEF None
  <2>. QED
    BY <1>1, <1>5, <1>8, <1>12, <2>4, <2>5, <2>6 DEF SetFault, ReadsNoise
<1>13. CASE ~inNoise /\ k < b
  <2>1. rows = <<>> /\ r = 0
    BY <1>1, <1>13, EmptySeq DEF IInv, NoiseFollowsTwoPortSweep
  <2>2. k = m + 1
    BY <1>4, <2>1
  <2>3. hz = <<>> \/ hz[m] < BlockHz(set)
    <3>1. SUFFICES ASSUME hz # <<>> PROVE hz[m] < BlockHz(set)
      OBVIOUS
    <3>2. m \in 1..m /\ m \in 1..(k - 1)
      BY <1>1, <2>2, <3>1, EmptySeq
    <3>3. Hz(f, d[m]) < Hz(f, d[k])
      BY <1>5, <1>13, <3>2 DEF IsSet
    <3>. QED
      BY <1>2, <1>9, <3>2, <3>3
  <2>4. PastLastPoint(BlockHz(set))
    BY <1>1, <2>3 DEF PastLastPoint
  <2>5. ~AtNoiseBoundary(n, set)
    <3>1. SUFFICES ASSUME hz # <<>>, hz[m] >= BlockHz(set) PROVE FALSE
      BY <1>1 DEF AtNoiseBoundary
    <3>2. m \in 1..m
      BY <1>1, <3>1, EmptySeq
    <3>. QED
      BY <1>2, <1>9, <2>3, <3>1, <3>2
  <2>6. Len(set) = ValuesPerPoint(n) /\ Converts(set)
    BY <1>1, <1>2, <1>5, <1>13 DEF IsSet, Converts
  <2>7. ValuesPerPoint(n) # None /\ SetPorts # None
    BY <1>5, <1>6 DEF None
  <2>8. PointFault(n) = NoFault
    BY <1>1, <2>4, <2>6, <2>7 DEF PointFault, NoFault
  <2>. QED
    BY <1>1, <1>5, <1>8, <1>13, <2>5, <2>7, <2>8 DEF SetFault, ReadsNoise
<1>. QED
  BY <1>4, <1>11, <1>12, <1>13

(* A well-formed file's first option line is o.                              *)
IsHeaded(f, o, given) ==
    /\ o \in 1..Len(f) /\ f[o].kind = "option" /\ f[o].form = "ok"
    /\ \A i \in 1..Len(f) : /\ f[i].kind # "keyword"
                            /\ f[i].kind = "option" => o <= i
                            /\ f[i].kind = "data" => o < i /\ f[i].form # "malformed"
    /\ f[o].n = 1 \/ f[o].n = PortsOf(DataSets(f), given)

(* Every well-formed file has such a head.                                   *)
LEMMA HeadOfFile ==
    ASSUME NEW f \in Seq(Lines), NEW given, WellFormed(f, given)
    PROVE  \E o \in 1..Len(f) : IsHeaded(f, o, given)
<1>1. PICK T : T = LinesOf(f, "option")
  OBVIOUS
<1>2. T \subseteq Nat /\ T # {}
  BY <1>1 DEF LinesOf, WellFormed, HeaderHolds
<1>3. Min(T) \in T /\ \A x \in T : Min(T) <= x
  BY <1>2, MinIsLeast
<1>4. PICK o \in T : o = Min(T) /\ \A x \in T : o <= x
  BY <1>3
<1>5. o \in 1..Len(f) /\ f[o].kind = "option"
  BY <1>1 DEF LinesOf
<1>6. f[o].form = "ok" /\ \A i \in LinesOf(f, "data") : o < i
  BY <1>1, <1>4 DEF WellFormed, HeaderHolds
<1>7. f[o].n = 1 \/ f[o].n = PortsOf(DataSets(f), given)
  BY <1>1, <1>4 DEF WellFormed
<1>8. ASSUME NEW i \in 1..Len(f)
      PROVE  /\ f[i].kind # "keyword"
             /\ f[i].kind = "option" => o <= i
             /\ f[i].kind = "data" => o < i /\ f[i].form # "malformed"
  <2>1. f[i].kind # "keyword"
    BY DEF WellFormed, HeaderHolds, LinesOf
  <2>2. f[i].kind = "option" => o <= i
    BY <1>1, <1>4 DEF LinesOf
  <2>3. f[i].kind = "data" => i \in LinesOf(f, "data")
    BY DEF LinesOf
  <2>. QED
    BY <1>6, <2>1, <2>2, <2>3 DEF WellFormed
<1>. QED
  BY <1>5, <1>6, <1>7, <1>8 DEF IsHeaded

(* No line of a well-formed file is turned down by the loop.                 *)
LEMMA LinesAreTaken ==
    ASSUME FileInv, WellFormed(file, hint), pc # "done",
           \/ SkipEmptyLine \/ TakeOptionLine \/ IgnoreOptionLine \/ RejectKeyword
           \/ TakeDataLine \/ ReachEnd
    PROVE  pc' # "done" /\ block' = block
<1>. USE DEF FileInv, GrammarInv
<1>1. PICK f \in Seq(Lines) : f = file
  BY DEF IInv, TypeOK
<1>2. PICK o \in 1..Len(f) : IsHeaded(f, o, hint)
  BY <1>1, HeadOfFile
<1>3. PICK i \in Nat : i = pos /\ i <= Len(f) /\ NextLine = i + 1
  BY <1>1 DEF IInv, TypeOK, NextLine
<1>4. optionLine = 0 => i < o
  <2>1. optionLine = 0 => \A j \in 1..i : f[j].kind \notin {"option", "data"}
    BY <1>1, <1>3 DEF HeadInv, Live
  <2>. QED
    BY <1>2, <1>3, <2>1 DEF IsHeaded
<1>5. i < Len(f) => NextLine \in 1..Len(f)
  BY <1>3
<1>6. CASE SkipEmptyLine \/ IgnoreOptionLine
  BY <1>6 DEF SkipEmptyLine, IgnoreOptionLine, sets
<1>7. CASE TakeOptionLine
  <2>1. NextLine \in 1..Len(f) /\ f[NextLine].kind = "option" /\ optionLine = 0
    BY <1>1, <1>3, <1>5, <1>7 DEF TakeOptionLine, LineIs
  <2>2. NextLine = o
    BY <1>2, <1>3, <1>4, <2>1 DEF IsHeaded
  <2>3. file[NextLine].form = "ok"
    BY <1>1, <1>2, <2>2 DEF IsHeaded
  <2>. QED
    BY <1>7, <2>3 DEF TakeOptionLine, sets
<1>8. CASE RejectKeyword
  <2>1. NextLine \in 1..Len(f) /\ f[NextLine].kind = "keyword"
    BY <1>1, <1>3, <1>5, <1>8 DEF RejectKeyword, LineIs
  <2>. QED
    BY <1>2, <2>1 DEF IsHeaded
<1>9. CASE TakeDataLine
  <2>1. NextLine \in 1..Len(f) /\ f[NextLine].kind = "data"
    BY <1>1, <1>3, <1>5, <1>9 DEF TakeDataLine, LineIs
  <2>2. o < NextLine /\ file[NextLine].form # "malformed"
    BY <1>1, <1>2, <2>1 DEF IsHeaded
  <2>3. optionLine # 0
    BY <1>2, <1>3, <1>4, <2>2
  <2>. QED
    BY <1>9, <2>2, <2>3 DEF TakeDataLine, sets
<1>10. CASE ReachEnd
  <2>1. i = Len(f)
    BY <1>1, <1>3, <1>10 DEF ReachEnd
  <2>2. optionLine # 0
    BY <1>2, <1>3, <1>4, <2>1
  <2>. QED
    BY <1>10, <2>2 DEF ReachEnd, sets
<1>. QED
  BY <1>6, <1>7, <1>8, <1>9, <1>10

(* Nor are its values, for want of a usable port count (expected_len).       *)
LEMMA ValuesAreTaken ==
    ASSUME FileInv, WellFormed(file, hint), ExtendBlock
    PROVE  pc' # "done"
<1>. USE DEF FileInv, GrammarInv
<1>1. SUFFICES ASSUME nports # None PROVE ExpectedLen(nports) # None
  BY DEF ExtendBlock
<1>2. PICK n \in Nat : n = nports
  BY <1>1 DEF IInv, TypeOK
<1>3. Live
  BY DEF ExtendBlock, Live
<1>4. CASE inNoise
  BY <1>4 DEF ExpectedLen, NoiseValuesPerSet, None
<1>5. CASE ~inNoise /\ freqHz # <<>>
  BY <1>3, <1>5 DEF ExpectedLen, PortsInv
<1>6. CASE ~inNoise /\ freqHz = <<>>
  <2>1. hint # None /\ n = hint
    BY <1>1, <1>2, <1>3, <1>6 DEF PortsInv, HintHolds
  <2>2. PICK b : Divides(file, hint, b)
    BY DEF WellFormed
  <2>3. PICK d : d = DataSets(file) /\ HasPorts(d, hint)
    BY <2>2 DEF Divides
  <2>4. ValuesPerPoint(n) = n * n * 2 + 1
    BY <2>1, <2>3, ReadersPorts
  <2>5. PICK size \in Nat : size = n * n
    OBVIOUS
  <2>6. ValuesPerPoint(n) = size * 2 + 1
    BY <2>4, <2>5
  <2>. QED
    BY <1>2, <1>6, <2>6 DEF ExpectedLen, None
<1>. QED
  BY <1>4, <1>5, <1>6

(* At its end the answer is the network (finish, reference_per_port).        *)
LEMMA CloseAccepts ==
    ASSUME FileInv, ScanInv, WellFormed(file, hint), ~Poisoned, Close
    PROVE  outcome'.kind = "network" /\ block' = block
<1>. USE DEF FileInv, GrammarInv
<1>1. pc = "close" /\ pc # "done" /\ block = <<>> /\ pos = Len(file) /\ optionLine # 0
  BY DEF Close, IInv, ControlInv, HeaderInv
<1>2. PICK f \in Seq(Lines) : f = file
  BY DEF IInv, TypeOK
<1>3. PICK d \in AllSets, b \in Nat, sofar \in AllSets : Stands(d, b, sofar)
  BY <1>1, WhereItStands
<1>4. sofar = d
  <2>1. Seen = sofar /\ ReadUpTo = Len(f)
    BY <1>1, <1>2, <1>3 DEF Stands, ReadUpTo
  <2>. QED
    BY <1>2, <1>3, <2>1, SetsAreDataSets DEF Seen, Stands
<1>5. PICK hz \in Seq(Int), rows \in Seq(NoisePoints) : hz = freqHz /\ rows = noise
  BY DEF IInv, TypeOK
<1>6. AtBoundary(f, d, b, sofar, hz, rows)
  BY <1>2, <1>3, <1>5, StandsAtBoundary
<1>7. freqHz # <<>>
  <2>1. SUFFICES ASSUME hz = <<>> PROVE FALSE
    BY <1>5
  <2>2. rows = <<>>
    BY <1>5, <2>1 DEF IInv, NoiseFollowsTwoPortSweep
  <2>3. Len(d) = 0 /\ b \in 2..(Len(d) + 1)
    BY <1>4, <1>6, <2>1, <2>2 DEF AtBoundary
  <2>. QED
    BY <2>3
<1>8. nports # None /\ PortsOf(d, hint) = nports
  <2>1. nports # None
    BY <1>7 DEF IInv, ShapeInv
  <2>. QED
    BY <1>1, <1>3, <2>1, PortsKnown
<1>9. PICK o \in 1..Len(f) : IsHeaded(f, o, hint)
  BY <1>2, HeadOfFile
<1>10. optionLine = o
  <2>1. PICK x \in 1..Len(f) : x = optionLine
    BY <1>1, <1>2 DEF IInv, TypeOK
  <2>2. f[x].kind = "option" /\ \A i \in 1..(x - 1) : f[i].kind # "option"
    BY <1>1, <1>2, <2>1 DEF HeadInv, Live
  <2>3. o <= x
    BY <1>9, <2>2 DEF IsHeaded
  <2>4. ~(o < x)
    BY <1>9, <2>2 DEF IsHeaded
  <2>. QED
    BY <2>1, <2>3, <2>4
<1>11. ReferenceNamesPorts(file[optionLine].n, nports)
  <2>1. d = DataSets(f)
    BY <1>2, <1>3 DEF Stands
  <2>. QED
    BY <1>2, <1>8, <1>9, <1>10, <2>1 DEF IsHeaded, ReferenceNamesPorts
<1>. QED
  BY <1>7, <1>11 DEF Close, Answer, sets

(* So a well-formed file is never turned down.                               *)
GoodInv == WellFormed(file, hint) => Live /\ ~Poisoned

(* No step fails on a well-formed file.                                      *)
LEMMA StepKeepsGood ==
    ASSUME FileInv, ScanInv, GoodInv, [Next]_vars
    PROVE  GoodInv'
<1>1. file' = file /\ hint' = hint
  BY DEF vars, input, Next, SkipEmptyLine, TakeOptionLine, IgnoreOptionLine, RejectKeyword, TakeDataLine,
         ExtendBlock, AddPoint, BeginNoise, AddNoisePoint, RejectSet, ReachEnd, Close, Done
<1>2. SUFFICES ASSUME WellFormed(file, hint) PROVE Live' /\ ~Poisoned'
  BY <1>1 DEF GoodInv
<1>3. Live /\ ~Poisoned
  BY <1>2 DEF GoodInv
<1>4. CASE UNCHANGED vars
  BY <1>3, <1>4 DEF vars, sets, Live, Poisoned
<1>5. CASE \/ SkipEmptyLine \/ TakeOptionLine \/ IgnoreOptionLine \/ RejectKeyword
           \/ TakeDataLine \/ ReachEnd
  <2>1. pc # "done"
    BY <1>5 DEF SkipEmptyLine, TakeOptionLine, IgnoreOptionLine, RejectKeyword, TakeDataLine,
                ReachEnd, LineIs
  <2>2. pc' # "done" /\ block' = block
    BY <1>2, <1>5, <2>1, LinesAreTaken
  <2>. QED
    BY <1>3, <2>2 DEF Live, Poisoned
<1>6. CASE ExtendBlock
  <2>1. pc' # "done"
    BY <1>2, <1>6, ValuesAreTaken
  <2>. QED
    BY <1>2, <1>3, <1>6, <2>1, NoPoison DEF Live
<1>7. CASE Flushes
  <2>1. block' = <<>> /\ pc' = AfterFlush /\ Flushing
    BY <1>7 DEF Flushes, AddPoint, BeginNoise, AddNoisePoint
  <2>2. pc' # "done"
    BY <2>1 DEF AfterFlush, Flushing
  <2>. QED
    BY <2>1, <2>2 DEF Live, Poisoned
<1>8. CASE RejectSet
  <2>1. Flushing /\ SetFault # NoFault /\ pc # "done"
    BY <1>8 DEF RejectSet, Flushing
  <2>2. PICK d \in AllSets, b \in Nat, sofar \in AllSets : Stands(d, b, sofar)
    BY <1>2, <1>3, <2>1, WhereItStands
  <2>. QED
    BY <1>2, <2>1, <2>2, SetPasses
<1>9. CASE Close
  <2>1. outcome'.kind = "network" /\ block' = block
    BY <1>2, <1>3, <1>9, CloseAccepts
  <2>. QED
    BY <1>3, <2>1 DEF Live, Poisoned
<1>10. CASE Done
  BY <1>4, <1>10 DEF Done
<1>. QED
  BY <1>4, <1>5, <1>6, <1>7, <1>8, <1>9, <1>10 DEF Next, Flushes

(* The scan's answer is the whole file's.                                    *)
LEMMA AnswerIsExact == FileInv /\ GoodInv => AcceptsExactlyTheGrammar
<1> SUFFICES ASSUME FileInv, GoodInv, pc = "done"
             PROVE  outcome.kind = "network" <=> WellFormed(file, hint)
  BY DEF AcceptsExactlyTheGrammar
<1>. QED
  BY AcceptedIsWellFormed DEF GoodInv, Live

(* Of every file, with every port count supplied or none, the reader accepts *)
(* just the well-formed ones.                                                *)
THEOREM GrammarIsExact == Spec => []AcceptsExactlyTheGrammar
<1>1. Init => FileInv /\ ScanInv /\ GoodInv
  <2>1. Init => FileInv
    BY InitEstablishes, InitBlames, InitHeader, InitHoldsNothing DEF FileInv
  <2>2. Init => Live /\ ~Poisoned
    BY DEF Init, Live, Poisoned
  <2>. QED
    BY <2>1, <2>2, InitScans DEF GoodInv
<1>2. FileInv /\ ScanInv /\ GoodInv /\ [Next]_vars => FileInv' /\ ScanInv' /\ GoodInv'
  <2>1. FileInv => IInv /\ BlameInv /\ SetsInv /\ PortsInv
    BY DEF FileInv, GrammarInv
  <2>. QED
    BY <2>1, StepKeepsFile, StepKeepsScan, StepKeepsGood
<1>3. FileInv /\ GoodInv => AcceptsExactlyTheGrammar
  BY AnswerIsExact
<1>. QED
  BY <1>1, <1>2, <1>3, PTL DEF Spec
=============================================================================
