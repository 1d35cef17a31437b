--------------------------- MODULE Analyze_proofs ---------------------------
(***************************************************************************)
(* Proofs about the analyzers of the three modes, for every number of      *)
(* ranks, hooks, streams, processes, analyses, groups and arrivals.        *)
(*                                                                         *)
(* The records.  A word is a source and a channel below the invalid mark,  *)
(* so all parts can be read back (Pack, PackedFits, RowDecoded,            *)
(* DebugDecoded).  RecordsInv says that the streams of a launch, and of    *)
(* each result file, hold the rows of exactly the records the hooks meant  *)
(* or the local probe meant to save, each at its place; both analyzers are *)
(* then functions of these records.                                        *)
(*                                                                         *)
(* The CSV files.  MemoryInv says of every line that its bytes are of its  *)
(* rank and launch (Fits), and of every file which processes' rows it has, *)
(* each once (TellRows), through the stages of an analysis: the lists of   *)
(* the processes until a file of the root is made of them, the file of the *)
(* root from then on, unless a failed write cut it.  RepeatInv says in     *)
(* what order that file is, and that a finished analysis has settled it.   *)
(*                                                                         *)
(* The offsets.  AlignInv says that the slots of a map, and of each result *)
(* file, show no other samples than those logged, and all of those that    *)
(* were complete before the copy (Shows), and that the two rows of a       *)
(* sample are opposite.  A list of a pair that lost no sample then has a   *)
(* row of every launch and sample, in the only order there is (Places,     *)
(* SamePlaces).                                                            *)
(*                                                                         *)
(* The throughput.  CaptureInv says of each slice of the map, and of each  *)
(* result file, that its header is of an owner that was flushed, and each  *)
(* other cell of an owner that saw that arrival (CellsApart: no cell is of *)
(* two slices).  The sums of the summary are unfolded one file at a time   *)
(* (Sums).                                                                 *)
(***************************************************************************)
EXTENDS Analyze, FiniteSetTheorems, FunctionTheorems, SequenceTheorems, TLAPS

------------------------------------------------------------------------------
(***************************************************************************)
(* Two lists of the same things, in an order in which no two of them come  *)
(* before each other, are the same list: the first place where they differ *)
(* would hold two things each of which comes before the other.             *)
(***************************************************************************)
LEMMA Least ==
  ASSUME NEW T, T \subseteq Nat, T # {}
  PROVE  \E n \in T : \A m \in T : n <= m
<1> DEFINE R == {ss \in Nat \X Nat : ss[1] < ss[2]}
<1>1. R = OpToRel(<, Nat)
  BY DEF OpToRel
<1>2. IsWellFoundedOn(R, Nat)
  BY <1>1, NatLessThanWellFounded
<1>. HIDE DEF R
<1>3. PICK n \in T : \A m \in T : ~ (<<m, n>> \in R)
  BY <1>2, WFMin
<1>4. ASSUME NEW m \in T
      PROVE  n <= m
  <2>1. ~ (<<m, n>> \in R) /\ n \in Nat /\ m \in Nat /\ <<m, n>> \in Nat \X Nat
    BY <1>3
  <2>2. ~ (m < n)
    BY <2>1 DEF R
  <2>. QED  BY <2>1, <2>2
<1>. QED  BY <1>4

LEMMA OneListing ==
  ASSUME NEW R, NEW S, \A x, y \in S : <<x, y>> \in R => <<y, x>> \notin R,
         NEW a \in Seq(S), NEW b \in Seq(S), Range(a) = Range(b),
         \A i, j \in DOMAIN a : i < j => <<a[i], a[j]>> \in R,
         \A i, j \in DOMAIN b : i < j => <<b[i], b[j]>> \in R
  PROVE  a = b
<1>1. /\ Len(a) \in Nat /\ Len(b) \in Nat
      /\ DOMAIN a = 1..Len(a) /\ DOMAIN b = 1..Len(b)
      /\ \A i \in DOMAIN a : a[i] \in S
      /\ \A i \in DOMAIN b : b[i] \in S
  OBVIOUS
<1>2. /\ \A i, j \in DOMAIN a : a[i] = a[j] => i = j
      /\ \A i, j \in DOMAIN b : b[i] = b[j] => i = j
  <2>1. \A x \in S : <<x, x>> \notin R
    OBVIOUS
  <2>2. ASSUME NEW i \in DOMAIN a, NEW j \in DOMAIN a, a[i] = a[j]
        PROVE  i = j
    <3>1. ~(i < j) /\ ~(j < i)
      BY <1>1, <2>1, <2>2
    <3>. QED  BY <1>1, <3>1
  <2>3. ASSUME NEW i \in DOMAIN b, NEW j \in DOMAIN b, b[i] = b[j]
        PROVE  i = j
    <3>1. ~(i < j) /\ ~(j < i)
      BY <1>1, <2>1, <2>3
    <3>. QED  BY <1>1, <3>1
  <2>. QED  BY <2>2, <2>3
<1> DEFINE Differ == {i \in Nat : ~(i \in DOMAIN a <=> i \in DOMAIN b)
                                  \/ (i \in DOMAIN a /\ i \in DOMAIN b /\ a[i] # b[i])}
<1>3. CASE Differ = {}
  <2>1. \A i \in Nat : (i \in DOMAIN a <=> i \in DOMAIN b)
                       /\ (i \in DOMAIN a /\ i \in DOMAIN b => a[i] = b[i])
    BY <1>3
  <2>2. DOMAIN a = DOMAIN b
    <3>1. DOMAIN a \subseteq Nat /\ DOMAIN b \subseteq Nat
      BY <1>1
    <3>. QED  BY <2>1, <3>1
  <2>3. \A i \in DOMAIN a : a[i] = b[i]
    BY <1>1, <2>1, <2>2
  <2>4. a = [i \in DOMAIN a |-> a[i]] /\ b = [i \in DOMAIN b |-> b[i]]
    BY <1>1
  <2>. QED  BY <2>2, <2>3, <2>4
<1>4. CASE Differ # {}
  <2>1. PICK n \in Differ : \A m \in Differ : n <= m
    <3>. HIDE DEF Differ
    <3>1. Differ \subseteq Nat
      BY DEF Differ
    <3>. QED  BY <1>4, <3>1, Least
  <2>2. n \in Nat
    OBVIOUS
  <2>3. \A i \in Nat : i < n =>
          (i \in DOMAIN a <=> i \in DOMAIN b) /\ (i \in DOMAIN a /\ i \in DOMAIN b => a[i] = b[i])
    <3>1. \A i \in Nat : i < n => i \notin Differ
      BY <2>1, <2>2
    <3>. QED  BY <3>1
  \* What one list has at place n, the other can have only later.
  <2>4. ASSUME n \in DOMAIN a
        PROVE  \E j \in DOMAIN b : j > n /\ b[j] = a[n]
    <3>1. a[n] \in Range(b)
      BY <2>4 DEF Range
    <3>2. PICK j \in DOMAIN b : b[j] = a[n]
      BY <3>1 DEF Range
    <3>3. j \in Nat
      BY <1>1
    <3>4. ~(j < n)
      <4>. SUFFICES ASSUME j < n PROVE FALSE
        OBVIOUS
      <4>1. j \in DOMAIN a /\ a[j] = b[j]
        BY <2>3, <3>3
      <4>. QED  BY <1>2, <2>2, <2>4, <3>2, <3>3, <4>1
    <3>5. j # n
      BY <2>1, <2>4, <3>2
    <3>. QED  BY <2>2, <3>2, <3>3, <3>4, <3>5
  <2>5. ASSUME n \in DOMAIN b
        PROVE  \E j \in DOMAIN a : j > n /\ a[j] = b[n]
    <3>1. b[n] \in Range(a)
      BY <2>5 DEF Range
    <3>2. PICK j \in DOMAIN a : a[j] = b[n]
      BY <3>1 DEF Range
    <3>3. j \in Nat
      BY <1>1
    <3>4. ~(j < n)
      <4>. SUFFICES ASSUME j < n PROVE FALSE
        OBVIOUS
      <4>1. j \in DOMAIN b /\ a[j] = b[j]
        BY <2>3, <3>3
      <4>. QED  BY <1>2, <2>2, <2>5, <3>2, <3>3, <4>1
    <3>5. j # n
      BY <2>1, <2>5, <3>2
    <3>. QED  BY <2>2, <3>2, <3>3, <3>4, <3>5
  <2>6. n \in DOMAIN a \/ n \in DOMAIN b
    BY <2>1
  <2>7. n \in DOMAIN a /\ n \in DOMAIN b
    <3>1. \A j \in Nat : j > n /\ n \in Nat /\ j \in DOMAIN b => n \in DOMAIN b \/ n = 0
      BY <1>1
    <3>2. \A j \in Nat : j > n /\ n \in Nat /\ j \in DOMAIN a => n \in DOMAIN a \/ n = 0
      BY <1>1
    <3>3. n # 0
      BY <1>1, <2>6
    <3>. QED  BY <1>1, <2>2, <2>4, <2>5, <2>6, <3>1, <3>2, <3>3
  <2>8. PICK j \in DOMAIN b : j > n /\ b[j] = a[n]
    BY <2>4, <2>7
  <2>9. PICK k \in DOMAIN a : k > n /\ a[k] = b[n]
    BY <2>5, <2>7
  <2>10. <<b[n], a[n]>> \in R
    BY <2>2, <2>7, <2>8, <1>1
  <2>11. <<a[n], b[n]>> \in R
    BY <2>2, <2>7, <2>9, <1>1
  <2>. QED  BY <1>1, <2>7, <2>10, <2>11
<1>. QED  BY <1>3, <1>4

------------------------------------------------------------------------------
(***************************************************************************)
(* The latency records.  First the word of a record, whatever the weights  *)
(* of its parts: what was packed is what is unpacked.                      *)
(***************************************************************************)
Record(n) ==
  [src : 0..(n - 1), vblock : 0..(VBlocks - 1), latency : Int, step : Nat, polls : Nat,
   invalid : BOOLEAN, stream : Streams, at : Nat]

\* Of the local probe.
Arrival ==
  [src : {Unknown}, vblock : 0..(VBlocks - 1), latency : Int, step : Nat, polls : {0},
   invalid : {FALSE}, stream : Streams, at : Nat]

RecordOf(s) == IF s.compact THEN Arrival ELSE Record(s.ranks)

Packed(x) == (x.src + 1) * SourceShift + x.vblock

LEMMA Weights ==
  /\ ReceiveLoads \in Nat \ {0}
  /\ VBlocks \in Nat \ {0} /\ SourceShift \in Nat \ {0} /\ InvalidFlag \in Nat \ {0}
  /\ WordSize \in Nat \ {0}
  /\ VBlocks <= SourceShift /\ 2 * InvalidFlag <= WordSize
BY RecordsAssumption DEF RecordsAssumption

LEMMA RanksFit ==
  ASSUME NEW s \in Shapes
  PROVE  s.ranks \in Nat \ {0} /\ (s.ranks + 1) * SourceShift <= InvalidFlag
BY RecordsAssumption, AlignmentAssumption DEF RecordsAssumption, AlignmentAssumption

LEMMA Pack ==
  ASSUME NEW q \in Nat, NEW S \in Nat \ {0}, NEW v \in 0..(S - 1)
  PROVE  q * S + v \in Nat /\ (q * S + v) \div S = q /\ (q * S + v) % S = v
OBVIOUS

LEMMA Below ==
  ASSUME NEW q \in Nat, NEW n \in Nat, NEW S \in Nat \ {0}, NEW v \in 0..(S - 1), q < n
  PROVE  q * S + v < n * S
<1>1. PICK k \in Nat : n = q + 1 + k
  <2>1. n - (q + 1) \in Nat /\ n = q + 1 + (n - (q + 1))
    OBVIOUS
  <2>. QED  BY <2>1
<1>2. n * S = (q + 1) * S + k * S /\ k * S \in Nat
  BY <1>1
<1>3. (q + 1) * S = q * S + S /\ q * S \in Nat
  OBVIOUS
<1>. QED  BY <1>2, <1>3

\* Source and channel fit below the invalid mark, and all of it in the word.
LEMMA PackedFits ==
  ASSUME NEW s \in Shapes, NEW x \in Record(s.ranks)
  PROVE  /\ Packed(x) \in Nat /\ SourceShift <= Packed(x) /\ Packed(x) < InvalidFlag
         /\ Packed(x) \div SourceShift = x.src + 1 /\ Packed(x) % SourceShift = x.vblock
         /\ Word(x) = Packed(x) + (IF x.invalid THEN InvalidFlag ELSE 0)
         /\ Word(x) \in Nat /\ Word(x) < WordSize
         /\ Unflagged(Word(x)) = Packed(x)
         /\ Word(x) >= InvalidFlag <=> x.invalid
<1> DEFINE q == x.src + 1
<1>1. /\ s.ranks \in Nat \ {0} /\ (s.ranks + 1) * SourceShift <= InvalidFlag
      /\ q \in Nat /\ q < s.ranks + 1 /\ q >= 1
      /\ x.vblock \in 0..(SourceShift - 1) /\ x.invalid \in BOOLEAN
  BY RanksFit, Weights DEF Record
<1>2. /\ Packed(x) \in Nat
      /\ Packed(x) \div SourceShift = q /\ Packed(x) % SourceShift = x.vblock
  BY <1>1, Weights, Pack DEF Packed
<1>3. Packed(x) < InvalidFlag
  <2>1. q * SourceShift + x.vblock < (s.ranks + 1) * SourceShift
    BY <1>1, Weights, Below
  <2>2. (s.ranks + 1) * SourceShift \in Nat
    BY <1>1, Weights
  <2>. QED  BY <1>1, <1>2, <2>1, <2>2, Weights DEF Packed
<1>4. SourceShift <= Packed(x)
  <2>1. PICK k \in Nat : q = k + 1
    BY <1>1
  <2>2. q * SourceShift = k * SourceShift + SourceShift /\ k * SourceShift \in Nat
    BY <2>1, Weights
  <2>. QED  BY <1>1, <2>2, Weights DEF Packed
<1>5. Word(x) = Packed(x) + (IF x.invalid THEN InvalidFlag ELSE 0)
  BY DEF Word, Marked, SourceField, Packed
<1>6. CASE x.invalid
  <2>1. Word(x) = 1 * InvalidFlag + Packed(x)
    BY <1>2, <1>5, <1>6, Weights
  <2>2. Unflagged(Word(x)) = Packed(x)
    BY <1>2, <1>3, <2>1, Weights, Pack DEF Unflagged
  <2>. QED  BY <1>2, <1>3, <1>4, <1>5, <1>6, <2>1, <2>2, Weights
<1>7. CASE ~x.invalid
  <2>1. Word(x) = 0 * InvalidFlag + Packed(x)
    BY <1>2, <1>5, <1>7, Weights
  <2>2. Unflagged(Word(x)) = Packed(x)
    BY <1>2, <1>3, <2>1, Weights, Pack DEF Unflagged
  <2>. QED  BY <1>2, <1>3, <1>4, <1>5, <1>7, <2>1, <2>2, Weights
<1>. QED  BY <1>6, <1>7

\* The row of a record is read back as that record by analysis/latency.py.
LEMMA RowDecoded ==
  ASSUME NEW s \in Shapes, NEW x \in Record(s.ranks)
  PROVE  /\ SplitChannel(Row(x).word) = <<x.src, x.vblock>>
         /\ IsInvalidRecord(Row(x)) = x.invalid
         /\ Row(x).latency = x.latency /\ Row(x).step = x.step
         /\ ~IsUnwrittenRecord(Row(x))
<1>1. Row(x).word = Word(x) /\ Row(x).latency = x.latency /\ Row(x).step = x.step
  BY DEF Row
<1>2. x.src \in Nat /\ x.invalid \in BOOLEAN
  BY RanksFit DEF Record
<1>3. SplitChannel(Word(x)) = <<x.src, x.vblock>>
  <2>1. Unflagged(Word(x)) >= SourceShift
    BY PackedFits, Weights
  <2>2. SplitChannel(Word(x)) = <<Packed(x) \div SourceShift - 1, Packed(x) % SourceShift>>
    BY <2>1, PackedFits DEF SplitChannel
  <2>3. Packed(x) \div SourceShift - 1 = x.src
    BY <1>2, PackedFits
  <2>. QED  BY <2>2, <2>3, PackedFits
<1>4. IsInvalidRecord(Row(x)) = x.invalid
  BY <1>1, <1>2, PackedFits DEF IsInvalidRecord
<1>5. Word(x) # 0
  BY PackedFits, Weights
<1>. QED  BY <1>1, <1>3, <1>4, <1>5 DEF IsUnwrittenRecord

\* The row of an arrival has no source and no mark.
LEMMA ArrivalDecoded ==
  ASSUME NEW s \in Shapes, NEW x \in Arrival
  PROVE  /\ Word(x) = x.vblock /\ Word(x) \in Nat
         /\ SplitChannel(Row(x).word) = <<x.src, x.vblock>>
         /\ IsInvalidRecord(Row(x)) = x.invalid
         /\ Row(x).latency = x.latency /\ Row(x).step = x.step
<1>1. /\ x.src = -1 /\ x.invalid = FALSE /\ x.vblock \in 0..(SourceShift - 1)
      /\ x.vblock \in Nat
  <2>1. x.src = Unknown /\ x.invalid \in {FALSE} /\ x.vblock \in 0..(VBlocks - 1)
    BY DEF Arrival
  <2>2. x.vblock \in 0..(SourceShift - 1) /\ x.vblock \in Nat
    BY <2>1, Weights
  <2>. QED  BY <2>1, <2>2 DEF Unknown
<1>2. SourceShift <= InvalidFlag
  <2>1. PICK n \in Nat : s.ranks = n + 1 /\ (s.ranks + 1) * SourceShift <= InvalidFlag
    <3>1. s.ranks - 1 \in Nat /\ s.ranks = (s.ranks - 1) + 1
      BY RanksFit
    <3>. QED  BY <3>1, RanksFit
  <2>2. (s.ranks + 1) * SourceShift = (n + 1) * SourceShift + SourceShift
        /\ (n + 1) * SourceShift \in Nat
    BY <2>1, Weights
  <2>. QED  BY <2>1, <2>2, Weights
<1>3. Word(x) = x.vblock
  <2>1. 0 * SourceShift + x.vblock = x.vblock
    BY <1>1, Weights
  <2>. QED  BY <1>1, <2>1 DEF Word, Marked, SourceField
<1>4. Unflagged(x.vblock) = x.vblock
  <2>1. x.vblock \in 0..(InvalidFlag - 1) /\ 0 * InvalidFlag + x.vblock = x.vblock
    BY <1>1, <1>2, Weights
  <2>2. (0 * InvalidFlag + x.vblock) % InvalidFlag = x.vblock
    BY <2>1, Weights, Pack
  <2>. QED  BY <2>1, <2>2 DEF Unflagged
<1>5. SplitChannel(x.vblock) = <<x.src, x.vblock>>
  BY <1>1, <1>4, Weights DEF SplitChannel, Unknown
<1>6. Row(x).word = Word(x) /\ Row(x).latency = x.latency /\ Row(x).step = x.step
  BY DEF Row
<1>7. ~(Row(x).word >= InvalidFlag)
  BY <1>1, <1>2, <1>3, <1>6, Weights
<1>8. IsInvalidRecord(Row(x)) = x.invalid
  <2>1. ~IsInvalidRecord(Row(x))
    BY <1>7 DEF IsInvalidRecord
  <2>2. IsInvalidRecord(Row(x)) = FALSE
    BY <2>1 DEF IsInvalidRecord
  <2>. QED  BY <1>1, <2>2
<1>. QED  BY <1>1, <1>3, <1>5, <1>6, <1>8

\* And by analysis/mailbox_debug.py, with its polls.
LEMMA DebugDecoded ==
  ASSUME NEW s \in Shapes, NEW x \in Record(s.ranks)
  PROVE  /\ DebugSource(Row(x).meta) = x.src
         /\ DebugPacked(Row(x).meta) % SourceShift = x.vblock
         /\ DebugPolls(Row(x).meta) = x.polls
         /\ DebugInvalid(Row(x).meta) = x.invalid
         /\ ~IsUnwrittenDebug(Row(x))
<1> DEFINE meta == x.polls * WordSize + Word(x)
<1>1. Row(x).meta = meta
  BY DEF Row
<1>2. x.src \in Nat /\ x.invalid \in BOOLEAN /\ x.polls \in Nat
  BY RanksFit DEF Record
<1>3. meta \in Nat /\ meta \div WordSize = x.polls /\ meta % WordSize = Word(x)
  <2>1. Word(x) \in 0..(WordSize - 1)
    BY PackedFits, Weights
  <2>. QED  BY <1>2, <2>1, Weights, Pack
<1>4. DebugPacked(meta) = Packed(x)
  BY <1>3, PackedFits DEF DebugPacked, Unflagged
<1>5. DebugSource(meta) = x.src
  BY <1>2, <1>4, PackedFits DEF DebugSource
<1>6. DebugInvalid(meta) = x.invalid
  BY <1>2, <1>3, PackedFits DEF DebugInvalid
<1>7. meta # 0
  <2>1. Word(x) # 0
    BY PackedFits, Weights
  <2>2. x.polls * WordSize \in Nat
    BY <1>2, Weights
  <2>. QED  BY <2>1, <2>2, PackedFits
<1>. QED  BY <1>1, <1>3, <1>4, <1>5, <1>6, <1>7, PackedFits DEF DebugPolls, IsUnwrittenDebug

------------------------------------------------------------------------------
(***************************************************************************)
(* The invariant.  The streams of a launch, and those of each result file, *)
(* hold the rows of exactly the records that were meant, each at its place.*)
(***************************************************************************)
RowType == [latency : Int, word : Nat, step : Nat, meta : Nat]
StreamType == [Streams -> Seq(RowType)]

Hold(ws, xs) ==
  /\ \A w \in Streams : \A k \in DOMAIN ws[w] :
       \E x \in xs : x.stream = w /\ x.at = k /\ ws[w][k] = Row(x)
  /\ \A x \in xs : x.at \in DOMAIN ws[x.stream] /\ ws[x.stream][x.at] = Row(x)
  /\ ~shape.compact => \A x \in xs : x.polls <= 1 => x.invalid

RecordsType ==
  /\ shape \in Shapes
  /\ rows \in [Receiver -> StreamType]
  /\ hooked \in [Receiver -> SUBSET RecordOf(shape)]
  /\ saved \in [Receiver -> Seq(StreamType)]
  /\ meant \in [Receiver -> Seq(SUBSET RecordOf(shape))]

LaunchHeld == \A r \in Receiver : IsFiniteSet(hooked[r]) /\ Hold(rows[r], hooked[r])

FilesHeld ==
  \A r \in Receiver : /\ Len(saved[r]) = Len(meant[r])
                      /\ \A i \in File(r) : Hold(saved[r][i], meant[r][i])

RecordsInv == RecordsType /\ LaunchHeld /\ FilesHeld

LEMMA RowTyped ==
  ASSUME NEW s \in Shapes, NEW x \in RecordOf(s)
  PROVE  Row(x) \in RowType /\ x.stream \in Streams
<1>1. Word(x) \in Nat
  BY PackedFits, ArrivalDecoded DEF RecordOf
<1>2. x.polls \in Nat /\ x.latency \in Int /\ x.step \in Nat /\ x.stream \in Streams
  <2>1. CASE x \in Arrival
    <3>1. x.polls \in {0} /\ x.latency \in Int /\ x.step \in Nat /\ x.stream \in Streams
      BY <2>1 DEF Arrival
    <3>. QED  BY <3>1
  <2>2. CASE x \in Record(s.ranks)
    BY <2>2 DEF Record
  <2>. QED  BY <2>1, <2>2 DEF RecordOf
<1>3. x.polls * WordSize \in Nat
  BY <1>2, Weights
<1>. QED  BY <1>1, <1>2, <1>3 DEF Row, RowType

LEMMA RecordsInitial == RecordsInit => RecordsInv
<1>. SUFFICES ASSUME RecordsInit PROVE RecordsInv
  OBVIOUS
<1>1. RecordsType
  BY DEF RecordsInit, Init, NoRows, RecordsType, StreamType
<1>2. \A r \in Receiver : hooked[r] = {} /\ saved[r] = <<>> /\ meant[r] = <<>>
  BY DEF RecordsInit
<1>3. \A r \in Receiver : \A w \in Streams : rows[r][w] = <<>>
  BY DEF RecordsInit, NoRows
<1>4. LaunchHeld
  <2>1. \A w \in Streams : DOMAIN <<>> = {} /\ Len(<<>>) = 0
    OBVIOUS
  <2>2. ASSUME NEW r \in Receiver
        PROVE  IsFiniteSet(hooked[r]) /\ Hold(rows[r], hooked[r])
    <3>1. IsFiniteSet(hooked[r])
      BY <1>2, FS_EmptySet
    <3>2. Hold(rows[r], hooked[r])
      BY <1>2, <1>3, <2>1 DEF Hold
    <3>. QED  BY <3>1, <3>2
  <2>. QED  BY <2>2 DEF LaunchHeld
<1>5. FilesHeld
  BY <1>2 DEF FilesHeld, File
<1>. QED  BY <1>1, <1>4, <1>5 DEF RecordsInv

\* The streams with one more record hold it and what they held.
LEMMA HoldMore ==
  ASSUME RecordsType, NEW ws \in StreamType, NEW xs \in SUBSET RecordOf(shape),
         Hold(ws, xs), NEW x \in RecordOf(shape), NEW w \in Streams,
         x.stream = w, x.at = Len(ws[w]) + 1,
         ~shape.compact => (x.polls <= 1 => x.invalid)
  PROVE  /\ [ws EXCEPT ![w] = Append(@, Row(x))] \in StreamType
         /\ Hold([ws EXCEPT ![w] = Append(@, Row(x))], xs \cup {x})
<1> DEFINE more == [ws EXCEPT ![w] = Append(@, Row(x))]
<1>1. Row(x) \in RowType /\ \A y \in xs : y.stream \in Streams
  BY RowTyped DEF RecordsType
<1>2. \A v \in Streams : ws[v] \in Seq(RowType)
  BY DEF StreamType
<1>3. \A v \in Streams : more[v] = IF v = w THEN Append(ws[w], Row(x)) ELSE ws[v]
  BY DEF StreamType
<1>4. more \in StreamType
  BY <1>1, <1>2 DEF StreamType
<1>5. /\ DOMAIN more[w] = 1..(Len(ws[w]) + 1) /\ DOMAIN ws[w] = 1..Len(ws[w])
      /\ more[w][Len(ws[w]) + 1] = Row(x)
      /\ \A k \in DOMAIN ws[w] : more[w][k] = ws[w][k]
      /\ Len(ws[w]) \in Nat
  <2>1. ws[w] \in Seq(RowType) /\ more[w] = Append(ws[w], Row(x))
    BY <1>2, <1>3
  <2>. HIDE DEF more
  <2>. DEFINE old == ws[w]
  <2>2. /\ old \in Seq(RowType) /\ more[w] = Append(old, Row(x)) /\ Row(x) \in RowType
    BY <1>1, <2>1
  <2>3. /\ DOMAIN Append(old, Row(x)) = 1..(Len(old) + 1) /\ DOMAIN old = 1..Len(old)
        /\ Append(old, Row(x))[Len(old) + 1] = Row(x)
        /\ \A k \in DOMAIN old : Append(old, Row(x))[k] = old[k]
        /\ Len(old) \in Nat
    <3>. HIDE DEF old
    <3>. QED  BY <2>2
  <2>. QED  BY <2>2, <2>3
<1>. HIDE DEF more
<1>6. \A v \in Streams : \A k \in DOMAIN more[v] :
        \E y \in xs \cup {x} : y.stream = v /\ y.at = k /\ more[v][k] = Row(y)
  <2>. SUFFICES ASSUME NEW v \in Streams, NEW k \in DOMAIN more[v]
                PROVE  \E y \in xs \cup {x} : y.stream = v /\ y.at = k /\ more[v][k] = Row(y)
    OBVIOUS
  <2>1. CASE v # w
    BY <2>1, <1>3 DEF Hold
  <2>2. CASE v = w /\ k \in DOMAIN ws[w]
    BY <2>2, <1>5 DEF Hold
  <2>3. CASE v = w /\ k = Len(ws[w]) + 1
    BY <2>3, <1>5
  <2>. QED  BY <2>1, <2>2, <2>3, <1>5
<1>7. \A y \in xs \cup {x} : y.at \in DOMAIN more[y.stream] /\ more[y.stream][y.at] = Row(y)
  <2>1. ASSUME NEW y \in xs
        PROVE  y.at \in DOMAIN more[y.stream] /\ more[y.stream][y.at] = Row(y)
    <3>1. y.stream \in Streams /\ y.at \in DOMAIN ws[y.stream] /\ ws[y.stream][y.at] = Row(y)
      BY <1>1 DEF Hold
    <3>2. CASE y.stream = w
      BY <3>1, <3>2, <1>5
    <3>3. CASE y.stream # w
      BY <3>1, <3>3, <1>3
    <3>. QED  BY <3>2, <3>3
  <2>2. x.at \in DOMAIN more[x.stream] /\ more[x.stream][x.at] = Row(x)
    BY <1>5
  <2>. QED  BY <2>1, <2>2
<1>8. ~shape.compact => \A y \in xs \cup {x} : y.polls <= 1 => y.invalid
  BY DEF Hold
<1>9. more \in StreamType /\ Hold(more, xs \cup {x})
  BY <1>4, <1>6, <1>7, <1>8 DEF Hold
<1>. QED  BY <1>9 DEF more

\* A hook of either probe saves a row.
LEMMA RowSaved ==
  ASSUME RecordsInv, NEW r \in Receiver, NEW w \in Streams, NEW x \in RecordOf(shape),
         x.stream = w, x.at = Len(rows[r][w]) + 1,
         ~shape.compact => (x.polls <= 1 => x.invalid),
         rows' = [rows EXCEPT ![r][w] = Append(@, Row(x))],
         hooked' = [hooked EXCEPT ![r] = @ \cup {x}],
         UNCHANGED <<shape, saved, meant>>
  PROVE  RecordsInv'
<1>1. Receiver' = Receiver
  BY DEF Receiver, Rank
<1>2. /\ rows \in [Receiver -> StreamType] /\ rows[r] \in StreamType
      /\ hooked \in [Receiver -> SUBSET RecordOf(shape)]
      /\ hooked[r] \in SUBSET RecordOf(shape)
      /\ IsFiniteSet(hooked[r]) /\ Hold(rows[r], hooked[r])
  BY DEF RecordsInv, RecordsType, LaunchHeld
<1> DEFINE more == [rows[r] EXCEPT ![w] = Append(@, Row(x))]
<1>3. more \in StreamType /\ Hold(more, hooked[r] \cup {x})
  BY <1>2, HoldMore DEF RecordsInv
<1>4. IsFiniteSet(hooked[r] \cup {x})
  BY <1>2, FS_AddElement
<1>5. rows' = [rows EXCEPT ![r] = more] /\ hooked' = [hooked EXCEPT ![r] = hooked[r] \cup {x}]
  OBVIOUS
<1>. HIDE DEF more
<1>6. RecordsType'
  <2>1. rows' \in [Receiver -> StreamType]
    BY <1>2, <1>3, <1>5
  <2>2. hooked[r] \cup {x} \in SUBSET RecordOf(shape)
    BY <1>2
  <2>3. hooked' \in [Receiver -> SUBSET RecordOf(shape)]
    BY <1>2, <1>5, <2>2
  <2>. QED  BY <1>1, <2>1, <2>3 DEF RecordsInv, RecordsType
<1>7. LaunchHeld'
  <2>1. ASSUME NEW p \in Receiver
        PROVE  IsFiniteSet(hooked'[p]) /\ Hold(rows'[p], hooked'[p])
    BY <1>2, <1>3, <1>4, <1>5 DEF RecordsInv, LaunchHeld
  <2>2. \A p \in Receiver : Hold(rows[p], hooked[p])' <=> Hold(rows'[p], hooked'[p])
    BY DEF Hold
  <2>. QED  BY <1>1, <2>1, <2>2 DEF LaunchHeld
<1>8. FilesHeld'
  BY <1>1 DEF RecordsInv, FilesHeld, File, Hold
<1>. QED  BY <1>6, <1>7, <1>8 DEF RecordsInv

LEMMA SavesInNat ==
  ASSUME RecordsInv, NEW r \in Receiver
  PROVE  Saves(r) \in Nat
BY FS_CardinalityType DEF RecordsInv, LaunchHeld, Saves

LEMMA PlaceInNat ==
  ASSUME RecordsInv, NEW r \in Receiver, NEW w \in Streams
  PROVE  Len(rows[r][w]) + 1 \in Nat
<1>1. rows[r][w] \in Seq(RowType)
  BY DEF RecordsInv, RecordsType, StreamType
<1>. QED  BY <1>1, LenProperties

LEMMA HookStep ==
  ASSUME RecordsInv, NEW r \in Receiver, HookSaves(r)
  PROVE  RecordsInv'
<1>1. UNCHANGED <<shape, saved, meant>> /\ ~shape.compact
  BY DEF HookSaves, vars
<1>2. PICK q \in Rank \ {r}, v \in 0..(VBlocks - 1), l \in Measured, n \in Polls,
           timed \in BOOLEAN, w \in Streams :
        LET x == [src |-> q, vblock |-> v, latency |-> l, step |-> Saves(r),
                  polls |-> n, invalid |-> Invalid(n, timed),
                  stream |-> w, at |-> Len(rows[r][w]) + 1]
        IN  /\ rows' = [rows EXCEPT ![r][w] = Append(@, Row(x))]
            /\ hooked' = [hooked EXCEPT ![r] = @ \cup {x}]
  BY DEF HookSaves
<1> DEFINE x == [src |-> q, vblock |-> v, latency |-> l, step |-> Saves(r),
                 polls |-> n, invalid |-> Invalid(n, timed),
                 stream |-> w, at |-> Len(rows[r][w]) + 1]
<1>3. x \in Record(shape.ranks) /\ (x.polls <= 1 => x.invalid)
  <2>1. l \in Int /\ n \in Nat
    BY RecordsAssumption DEF RecordsAssumption
  <2>2. Invalid(n, timed) \in BOOLEAN /\ (n <= 1 => Invalid(n, timed))
    BY <2>1 DEF Invalid
  <2>. QED  BY <2>1, <2>2, SavesInNat, PlaceInNat DEF Record, Rank
<1>4. x \in RecordOf(shape) /\ x.stream = w /\ x.at = Len(rows[r][w]) + 1
  BY <1>1, <1>3 DEF RecordOf
<1>5. rows' = [rows EXCEPT ![r][w] = Append(@, Row(x))] /\ hooked' = [hooked EXCEPT ![r] = @ \cup {x}]
  BY <1>2
<1>. HIDE DEF x
<1>. QED  BY <1>1, <1>3, <1>4, <1>5, RowSaved

LEMMA LocalStep ==
  ASSUME RecordsInv, NEW r \in Receiver, LocalSaves(r)
  PROVE  RecordsInv'
<1>1. UNCHANGED <<shape, saved, meant>> /\ shape.compact
  BY DEF LocalSaves, vars
<1>2. PICK l \in Measured \cap Nat, k \in ReceiveLoad, w \in Streams :
        LET x == [src |-> Unknown, vblock |-> CtaOf[w], latency |-> l, step |-> k,
                  polls |-> 0, invalid |-> FALSE,
                  stream |-> w, at |-> Len(rows[r][w]) + 1]
        IN  /\ rows' = [rows EXCEPT ![r][w] = Append(@, Row(x))]
            /\ hooked' = [hooked EXCEPT ![r] = @ \cup {x}]
  BY DEF LocalSaves
<1> DEFINE x == [src |-> Unknown, vblock |-> CtaOf[w], latency |-> l, step |-> k,
                 polls |-> 0, invalid |-> FALSE,
                 stream |-> w, at |-> Len(rows[r][w]) + 1]
<1>3. x \in Arrival
  <2>1. CtaOf[w] \in 0..(VBlocks - 1)
    BY RecordsAssumption DEF RecordsAssumption
  <2>2. k \in Nat /\ l \in Int
    BY Weights DEF ReceiveLoad
  <2>. QED  BY <2>1, <2>2, PlaceInNat DEF Arrival
<1>4. x \in RecordOf(shape) /\ x.stream = w /\ x.at = Len(rows[r][w]) + 1
  BY <1>1, <1>3 DEF RecordOf
<1>5. rows' = [rows EXCEPT ![r][w] = Append(@, Row(x))] /\ hooked' = [hooked EXCEPT ![r] = @ \cup {x}]
  BY <1>2
<1>. HIDE DEF x
<1>. QED  BY <1>1, <1>4, <1>5, RowSaved

\* A file gets the streams of its launch, and the next launch starts with none.
LEMMA SaveStep ==
  ASSUME RecordsInv, SaveAll
  PROVE  RecordsInv'
<1>1. UNCHANGED shape /\ Receiver' = Receiver
  BY DEF SaveAll, Save, Receiver, Rank
<1>2. /\ saved' = [r \in Receiver |-> Append(saved[r], rows[r])]
      /\ meant' = [r \in Receiver |-> Append(meant[r], hooked[r])]
      /\ rows' = NoRows /\ hooked' = [r \in Receiver |-> {}]
  BY DEF SaveAll
<1>3. /\ NoRows \in [Receiver -> StreamType]
      /\ \A r \in Receiver : /\ saved[r] \in Seq(StreamType) /\ rows[r] \in StreamType
                             /\ meant[r] \in Seq(SUBSET RecordOf(shape))
                             /\ hooked[r] \in SUBSET RecordOf(shape)
  BY DEF NoRows, StreamType, RecordsInv, RecordsType
<1>4. RecordsType'
  <2>1. saved' \in [Receiver -> Seq(StreamType)]
    BY <1>2, <1>3
  <2>2. meant' \in [Receiver -> Seq(SUBSET RecordOf(shape))]
    BY <1>2, <1>3
  <2>. QED  BY <1>1, <1>2, <1>3, <2>1, <2>2 DEF RecordsInv, RecordsType
<1>5. \A ws, xs : Hold(ws, xs)' <=> Hold(ws', xs')
  BY <1>1 DEF Hold
<1>6. LaunchHeld'
  <2>1. \A w \in Streams : DOMAIN <<>> = {} /\ Len(<<>>) = 0
    OBVIOUS
  <2>2. ASSUME NEW r \in Receiver
        PROVE  IsFiniteSet(hooked'[r]) /\ Hold(rows'[r], hooked'[r])
    <3>1. hooked'[r] = {} /\ \A w \in Streams : rows'[r][w] = <<>>
      BY <1>2 DEF NoRows
    <3>. QED  BY <3>1, <2>1, FS_EmptySet DEF Hold
  <2>3. \A r \in Receiver : Hold(rows[r], hooked[r])' <=> Hold(rows'[r], hooked'[r])
    BY <1>1 DEF Hold
  <2>. QED  BY <1>1, <2>2, <2>3 DEF LaunchHeld
<1>7. FilesHeld'
  <2>1. ASSUME NEW r \in Receiver
        PROVE  /\ Len(saved'[r]) = Len(meant'[r])
               /\ \A i \in 1..Len(saved'[r]) : Hold(saved'[r][i], meant'[r][i])
    <3> DEFINE s == saved[r]  m == meant[r]
    <3>1. saved'[r] = Append(s, rows[r]) /\ meant'[r] = Append(m, hooked[r])
      BY <1>2
    <3>2. s \in Seq(StreamType) /\ m \in Seq(SUBSET RecordOf(shape))
      BY <1>3
    <3>3. Len(s) = Len(m) /\ \A i \in 1..Len(s) : Hold(s[i], m[i])
      BY DEF RecordsInv, FilesHeld, File
    <3>4. Hold(rows[r], hooked[r])
      BY DEF RecordsInv, LaunchHeld
    <3>. HIDE DEF s, m
    <3>5. /\ Len(Append(s, rows[r])) = Len(s) + 1 /\ Len(Append(m, hooked[r])) = Len(m) + 1
          /\ \A i \in 1..Len(s) : /\ Append(s, rows[r])[i] = s[i]
                                  /\ Append(m, hooked[r])[i] = m[i]
          /\ Append(s, rows[r])[Len(s) + 1] = rows[r]
          /\ Append(m, hooked[r])[Len(s) + 1] = hooked[r]
          /\ Len(s) \in Nat
      BY <1>3, <3>2, <3>3
    <3>6. ASSUME NEW i \in 1..Len(saved'[r])
          PROVE  Hold(saved'[r][i], meant'[r][i])
      <4>1. i \in 1..Len(s) \/ i = Len(s) + 1
        BY <3>1, <3>5
      <4>. QED  BY <3>1, <3>3, <3>4, <3>5, <4>1
    <3>. QED  BY <3>1, <3>3, <3>5, <3>6
  <2>2. \A r \in Receiver : \A i \in 1..Len(saved'[r]) :
          Hold(saved[r][i], meant[r][i])' <=> Hold(saved'[r][i], meant'[r][i])
    BY <1>1 DEF Hold
  <2>. QED  BY <1>1, <2>1, <2>2 DEF FilesHeld, File
<1>. QED  BY <1>4, <1>6, <1>7 DEF RecordsInv

LEMMA RecordsIdle ==
  ASSUME RecordsInv, UNCHANGED <<shape, rows, hooked, saved, meant>>
  PROVE  RecordsInv'
BY DEF RecordsInv, RecordsType, LaunchHeld, FilesHeld, Hold, File, Receiver, Rank

LEMMA RecordsStep == RecordsInv /\ [RecordsNext]_allVars => RecordsInv'
<1>. SUFFICES ASSUME RecordsInv, [RecordsNext]_allVars PROVE RecordsInv'
  OBVIOUS
<1>1. CASE CalibrationStep
  <2>1. UNCHANGED <<shape, recordVars>>
    BY <1>1 DEF CalibrationStep, Calibrate, LeaveBarrier, TakeSample
  <2>. QED  BY <2>1, RecordsIdle DEF recordVars
<1>2. ASSUME NEW r \in Receiver, HookSaves(r) \/ LocalSaves(r) PROVE RecordsInv'
  BY <1>2, HookStep, LocalStep
<1>3. CASE SaveAll
  BY <1>3, SaveStep
<1>4. CASE UNCHANGED allVars
  BY <1>4, RecordsIdle DEF allVars, vars, recordVars
<1>. QED  BY <1>1, <1>2, <1>3, <1>4 DEF RecordsNext

(***************************************************************************)
(* From the invariant to the analyzers: what either of them reads from a   *)
(* result file are the rows of the records that were meant; of those of    *)
(* the local probe, the first of each stream that does not look unwritten. *)
(***************************************************************************)
Legible(r, i) == IF shape.compact THEN FirstArrivals(r, i) ELSE meant[r][i]

LEMMA MeantTyped ==
  ASSUME RecordsInv, NEW r \in Receiver, NEW i \in File(r)
  PROVE  /\ meant[r][i] \in SUBSET RecordOf(shape) /\ saved[r][i] \in StreamType
         /\ shape \in Shapes /\ Hold(saved[r][i], meant[r][i])
<1>1. /\ saved[r] \in Seq(StreamType) /\ meant[r] \in Seq(SUBSET RecordOf(shape))
      /\ Len(saved[r]) = Len(meant[r])
  BY DEF RecordsInv, RecordsType, FilesHeld
<1>. QED  BY <1>1 DEF RecordsInv, RecordsType, FilesHeld, File

LEMMA ReadsTheRecords ==
  ASSUME RecordsInv, NEW r \in Receiver, NEW i \in File(r)
  PROVE  RowsRead(r, i) = {Row(x) : x \in Legible(r, i)}
<1> DEFINE ws == saved[r][i]  xs == meant[r][i]
           seen == UNION {{ws[w][k] : k \in SlotsRead(ws[w])} : w \in Streams}
<1>1. /\ ws \in StreamType /\ xs \in SUBSET RecordOf(shape) /\ shape \in Shapes
      /\ Hold(ws, xs) /\ \A x \in xs : x.stream \in Streams
  BY MeantTyped, RowTyped
<1>2. RowsRead(r, i) = {y \in seen : ~IsUnwrittenRecord(y)}
  BY DEF RowsRead
<1>3. CASE ~shape.compact
  <2>1. \A x \in xs : ~IsUnwrittenRecord(Row(x))
    BY <1>1, <1>3, RowDecoded DEF RecordOf
  <2>2. Legible(r, i) = xs
    BY <1>3 DEF Legible
  <2>3. \A w \in Streams : SlotsRead(ws[w]) = DOMAIN ws[w]
    BY <1>3 DEF SlotsRead, AllSlots
  <2>. HIDE DEF ws, xs
  <2>4. seen = {Row(x) : x \in xs}
    BY <1>1, <2>3 DEF Hold
  <2>. QED  BY <1>2, <2>1, <2>2, <2>4
<1>4. CASE shape.compact
  <2>1. Legible(r, i) = {x \in xs : ~IsUnwrittenRecord(Row(x)) /\ x.at = 1}
    BY <1>4 DEF Legible, FirstArrivals, Visible
  <2>. HIDE DEF ws, xs
  <2>2. \A w \in Streams : \A k : k \in SlotsRead(ws[w]) <=> k \in DOMAIN ws[w] /\ k = 1
    <3>. SUFFICES ASSUME NEW w \in Streams
                  PROVE  SlotsRead(ws[w]) = {k \in DOMAIN ws[w] : k = 1}
      OBVIOUS
    <3> DEFINE s == ws[w]
    <3>1. s \in Seq(RowType) /\ SlotsRead(s) = IF s = <<>> THEN {} ELSE {1}
      BY <1>1, <1>4 DEF StreamType, SlotsRead, FirstSlots
    <3>. HIDE DEF s
    <3>2. DOMAIN s = 1..Len(s) /\ Len(s) \in Nat /\ (s = <<>> <=> Len(s) = 0)
      <4>1. DOMAIN s = 1..Len(s) /\ Len(s) \in Nat
        BY <3>1, LenProperties
      <4>2. Len(<<>>) = 0 /\ (s # <<>> => Len(s) \in Nat \ {0})
        BY <3>1, EmptySeq
      <4>. QED  BY <4>1, <4>2
    <3>. QED  BY <3>1, <3>2 DEF s
  <2>3. seen = {Row(x) : x \in {y \in xs : y.at = 1}}
    <3>1. ASSUME NEW w \in Streams, NEW k \in SlotsRead(ws[w])
          PROVE  \E x \in xs : x.at = 1 /\ ws[w][k] = Row(x)
      BY <1>1, <2>2 DEF Hold
    <3>2. ASSUME NEW x \in xs, x.at = 1
          PROVE  x.stream \in Streams /\ 1 \in SlotsRead(ws[x.stream]) /\ ws[x.stream][1] = Row(x)
      BY <1>1, <2>2, <3>2 DEF Hold
    <3>3. \A y : y \in seen <=> \E w \in Streams : \E k \in SlotsRead(ws[w]) : y = ws[w][k]
      OBVIOUS
    <3>. QED  BY <3>1, <3>2, <3>3
  <2>. QED  BY <1>2, <2>1, <2>3
<1>. QED  BY <1>3, <1>4

LEMMA DebugReadsTheRecords ==
  ASSUME RecordsInv, ~shape.compact, NEW r \in Receiver, NEW i \in File(r)
  PROVE  {y \in UNION {Range(saved[r][i][w]) : w \in Streams} : ~IsUnwrittenDebug(y)}
           = {Row(x) : x \in meant[r][i]}
<1> DEFINE ws == saved[r][i]  xs == meant[r][i]
<1>1. /\ xs \in SUBSET Record(shape.ranks) /\ shape \in Shapes /\ Hold(ws, xs)
      /\ \A x \in xs : x.stream \in Streams
  BY MeantTyped, RowTyped DEF RecordOf
<1>2. \A x \in xs : ~IsUnwrittenDebug(Row(x))
  BY <1>1, DebugDecoded
<1>. HIDE DEF ws, xs
<1>3. UNION {Range(ws[w]) : w \in Streams} = {Row(x) : x \in xs}
  BY <1>1 DEF Hold, Range
<1>. QED  BY <1>2, <1>3 DEF ws, xs

(***************************************************************************)
(* The inductive invariant of the latency records: whatever is taken,      *)
(* packed, saved and torn, in every run of the analyzers.                  *)
(***************************************************************************)
THEOREM RecordsInductive == AnalyzeSpec => []RecordsInv
<1>1. AnalyzeInit => RecordsInv
  BY RecordsInitial DEF AnalyzeInit
<1>2. RecordsInv /\ [AnalyzeNext]_analyzeVars => RecordsInv'
  <2>1. [AnalyzeNext]_analyzeVars => [RecordsNext]_allVars
    BY DEF AnalyzeNext, LatencyRun, MemoryRun, ThroughputRun, analyzeVars
  <2>. QED  BY <2>1, RecordsStep
<1>. QED  BY <1>1, <1>2, PTL DEF AnalyzeSpec

\* A sample of file i as the latency analyzer reads it.
ReadSample(i, y) ==
  [file |-> i, src |-> SplitChannel(y.word)[1], vblock |-> SplitChannel(y.word)[2],
   latency |-> y.latency, step |-> y.step, invalid |-> IsInvalidRecord(y)]

LEMMA SampleRead ==
  ASSUME NEW s \in Shapes, NEW x \in RecordOf(s), NEW i
  PROVE  ReadSample(i, Row(x)) = WithoutPolls(Said(x, i))
BY RowDecoded, ArrivalDecoded DEF RecordOf, ReadSample, Said, WithoutPolls

LEMMA Collects ==
  ASSUME RecordsInv, NEW r \in Receiver
  PROVE  Collected(r) =
           UNION {{WithoutPolls(Said(x, i)) : x \in Legible(r, i)} : i \in Readable(r)}
<1>1. \A i \in Readable(r) :
        /\ \A x \in Legible(r, i) : ReadSample(i, Row(x)) = WithoutPolls(Said(x, i))
        /\ RowsRead(r, i) = {Row(x) : x \in Legible(r, i)}
  <2>. SUFFICES ASSUME NEW i \in Readable(r)
                PROVE  /\ \A x \in Legible(r, i) : ReadSample(i, Row(x)) = WithoutPolls(Said(x, i))
                       /\ RowsRead(r, i) = {Row(x) : x \in Legible(r, i)}
    OBVIOUS
  <2>1. i \in File(r)
    BY DEF Readable
  <2>2. Legible(r, i) \subseteq RecordOf(shape) /\ shape \in Shapes
    BY <2>1, MeantTyped DEF Legible, FirstArrivals, Visible
  <2>. QED  BY <2>1, <2>2, ReadsTheRecords, SampleRead
<1>2. Collected(r) = UNION {{ReadSample(i, y) : y \in RowsRead(r, i)} : i \in Readable(r)}
  BY DEF Collected, ReadSample
<1>3. \A i \in Readable(r) :
        {ReadSample(i, y) : y \in RowsRead(r, i)} = {WithoutPolls(Said(x, i)) : x \in Legible(r, i)}
  <2>. SUFFICES ASSUME NEW i \in Readable(r)
                PROVE  {ReadSample(i, y) : y \in {Row(x) : x \in Legible(r, i)}}
                         = {WithoutPolls(Said(x, i)) : x \in Legible(r, i)}
    BY <1>1
  <2>1. {ReadSample(i, y) : y \in {Row(x) : x \in Legible(r, i)}}
          = {ReadSample(i, Row(x)) : x \in Legible(r, i)}
    OBVIOUS
  <2>. QED  BY <1>1, <2>1
<1> DEFINE read(i) == {ReadSample(i, y) : y \in RowsRead(r, i)}
           told(i) == {WithoutPolls(Said(x, i)) : x \in Legible(r, i)}
<1>4. Collected(r) = UNION {read(i) : i \in Readable(r)} /\ \A i \in Readable(r) : read(i) = told(i)
  BY <1>2, <1>3
<1>. HIDE DEF read, told
<1>5. Collected(r) = UNION {told(i) : i \in Readable(r)}
  BY <1>4
<1>. QED  BY <1>5 DEF told

(***************************************************************************)
(* recv_latency, read_trace: the latency analyzer collects exactly what    *)
(* the hooks measured in the launches whose files can be read, under its   *)
(* source, channel and validity; a rank that is left out measured nothing. *)
(* Of the arrivals of the local probe, latency_local_arrival_snippet, it   *)
(* collects the first of each stream that does not look unwritten.         *)
(***************************************************************************)
THEOREM CollectedIsMeasuredHolds == AnalyzeSpec => []CollectedIsMeasured
<1>1. RecordsInv => CollectedIsMeasured
  <2>. SUFFICES ASSUME RecordsInv, NEW r \in Receiver
                PROVE  IF shape.compact
                       THEN Collected(r) =
                              UNION {{WithoutPolls(Said(x, i)) : x \in FirstArrivals(r, i)} : i \in Readable(r)}
                       ELSE /\ Collected(r) = {WithoutPolls(x) : x \in MeantIn(r, Readable(r))}
                            /\ r \notin Reported => \A i \in Readable(r) : meant[r][i] = {}
    BY DEF CollectedIsMeasured
  <2>1. CASE shape.compact
    BY <2>1, Collects DEF Legible
  <2>2. CASE ~shape.compact
    <3>1. Collected(r) =
            UNION {{WithoutPolls(Said(x, i)) : x \in meant[r][i]} : i \in Readable(r)}
      BY <2>2, Collects DEF Legible
    <3>2. Collected(r) = {WithoutPolls(x) : x \in MeantIn(r, Readable(r))}
      BY <3>1 DEF MeantIn
    <3>3. ASSUME r \notin Reported, NEW i \in Readable(r), NEW x \in meant[r][i]
          PROVE  FALSE
      <4>1. WithoutPolls(Said(x, i)) \in Collected(r)
        BY <3>1
      <4>. QED  BY <3>3, <4>1 DEF Reported
    <3>. QED  BY <2>2, <3>2, <3>3
  <2>. QED  BY <2>1, <2>2
<1>. QED  BY <1>1, RecordsInductive, PTL

\* And as the mailbox debug analyzer reads it.
DebugSample(i, y) ==
  [file |-> i, src |-> DebugSource(y.meta), vblock |-> DebugPacked(y.meta) % SourceShift,
   latency |-> y.latency, step |-> y.step, polls |-> DebugPolls(y.meta),
   invalid |-> DebugInvalid(y.meta)]

LEMMA SampleDebugged ==
  ASSUME NEW s \in Shapes, NEW x \in Record(s.ranks), NEW i
  PROVE  DebugSample(i, Row(x)) = Said(x, i)
BY RowDecoded, DebugDecoded DEF DebugSample, Said

(***************************************************************************)
(* The two analyzers read the same samples out of the same files, and the  *)
(* latency of a message that was there by the first or second poll is      *)
(* valid in neither.                                                       *)
(***************************************************************************)
THEOREM AnalyzersAgreeHolds == AnalyzeSpec => []AnalyzersAgree
<1>1. RecordsInv => AnalyzersAgree
  <2>. SUFFICES ASSUME RecordsInv, NEW r \in Receiver, torn[r] = {}, ~shape.compact
                PROVE  /\ DebugRecords(r) = MeantIn(r, File(r))
                       /\ {WithoutPolls(x) : x \in DebugRecords(r)} = Collected(r)
                       /\ \A x \in DebugRecords(r) : x.polls <= 1 => x.invalid
    BY DEF AnalyzersAgree
  <2>1. \A i \in File(r) :
          /\ \A x \in meant[r][i] : DebugSample(i, Row(x)) = Said(x, i)
          /\ {y \in UNION {Range(saved[r][i][w]) : w \in Streams} : ~IsUnwrittenDebug(y)}
               = {Row(x) : x \in meant[r][i]}
    BY MeantTyped, DebugReadsTheRecords, SampleDebugged DEF RecordOf
  <2> DEFINE Debugged(i) ==
    {y \in UNION {Range(saved[r][i][w]) : w \in Streams} : ~IsUnwrittenDebug(y)}
  <2>2. DebugRecords(r) = UNION {{DebugSample(i, y) : y \in Debugged(i)} : i \in File(r)}
    BY DEF DebugRecords, DebugSample
  <2>3. MeantIn(r, File(r)) = UNION {{Said(x, i) : x \in meant[r][i]} : i \in File(r)}
    BY DEF MeantIn
  <2>4. DebugRecords(r) = MeantIn(r, File(r))
    <3>. HIDE DEF Debugged
    <3>1. \A i \in File(r) : /\ Debugged(i) = {Row(x) : x \in meant[r][i]}
                             /\ \A x \in meant[r][i] : DebugSample(i, Row(x)) = Said(x, i)
      BY <2>1 DEF Debugged
    <3>2. ASSUME NEW c \in DebugRecords(r)
          PROVE  c \in MeantIn(r, File(r))
      <4>1. PICK i \in File(r) : \E y \in Debugged(i) : c = DebugSample(i, y)
        BY <2>2
      <4>2. PICK x \in meant[r][i] : c = DebugSample(i, Row(x))
        BY <3>1, <4>1
      <4>. QED  BY <2>3, <3>1, <4>2
    <3>3. ASSUME NEW z \in MeantIn(r, File(r))
          PROVE  z \in DebugRecords(r)
      <4>1. PICK i \in File(r) : \E x \in meant[r][i] : z = Said(x, i)
        BY <2>3
      <4>2. PICK x \in meant[r][i] : z = DebugSample(i, Row(x))
        BY <3>1, <4>1
      <4>. QED  BY <2>2, <3>1, <4>2
    <3>. QED  BY <3>2, <3>3
  <2>5. Readable(r) = File(r)
    BY DEF Readable
  <2>6. {WithoutPolls(x) : x \in DebugRecords(r)} = Collected(r)
    <3>1. Collected(r) = UNION {{WithoutPolls(Said(x, i)) : x \in meant[r][i]} : i \in File(r)}
      BY <2>5, Collects DEF Legible
    <3>. QED  BY <2>3, <2>4, <3>1
  <2>7. \A x \in DebugRecords(r) : x.polls <= 1 => x.invalid
    <3>. SUFFICES ASSUME NEW i \in File(r), NEW x \in meant[r][i]
                  PROVE  Said(x, i).polls <= 1 => Said(x, i).invalid
      BY <2>3, <2>4
    <3>1. x.polls <= 1 => x.invalid
      BY DEF RecordsInv, FilesHeld, Hold
    <3>. QED  BY <3>1 DEF Said
  <2>. QED  BY <2>4, <2>6, <2>7
<1>. QED  BY <1>1, RecordsInductive, PTL

------------------------------------------------------------------------------
(***************************************************************************)
(* The files of memory mode.  The invariant, in parts.                     *)
(***************************************************************************)
Totals == SUBSET (Processes \X Nat)
Line == [by : Processes \cup {0}, launch : Nat, timed : BOOLEAN, bytes : Totals, rate : Totals]
Table == Seq(Line)
Stages == {"workload", "read", "directories", "wide", "long", "end"}

MemoryType ==
  /\ shared \in BOOLEAN /\ workload \in Nat \ {0}
  /\ open \in [Processes -> {"closed", "header", "open"}]
  /\ appended \in [Processes -> Nat] /\ counted \in [Processes -> SUBSET Nat]
  /\ csv \in [Processes \cup {Memory!Root} -> Table] /\ merged \in Table
  /\ stage \in Stages /\ todo \in SUBSET Processes /\ cut \in BOOLEAN

\* What a process did, and when it could.
Opened ==
  \A p \in Processes :
    /\ open[p] = "closed" => appended[p] = 0 /\ counted[p] = {}
    /\ WorkloadOf[p] > workload => open[p] = "closed"
    /\ stage = "workload" /\ WorkloadOf[p] = workload /\ open[p] = "open" =>
         csv[Memory!FileOf(p)] # <<>>

\* A line of a row that was written, with bytes of its rank and launch.
Fits(line) ==
  line.by # 0 =>
    /\ line.launch < appended[line.by]
    /\ \A b \in line.bytes : /\ RankOf[b[1]] = RankOf[line.by]
                             /\ b[2] = line.launch /\ b[2] \in counted[b[1]]
                             /\ workload = 1 => b[1] = line.by
    /\ line.rate # {} => line.timed /\ line.rate = line.bytes

LinesFit ==
  /\ \A f \in DOMAIN csv : \A i \in DOMAIN csv[f] : Fits(csv[f][i])
  /\ \A i \in DOMAIN merged : Fits(merged[i])

Headed(lines) == lines # <<>> => lines[1].by = 0

\* Who has written to which file.
FilesApart ==
  /\ \A f \in DOMAIN csv : Headed(csv[f])
  /\ shared => \A p \in Processes : csv[p] = <<>>
  /\ ~shared => \A p \in Processes : \A i \in DOMAIN csv[p] : csv[p][i].by \in {0, p}
  /\ stage = "workload" /\ workload = 1 =>
       merged = <<>> /\ (~shared => csv[Memory!Root] = <<>>)

\* The lines hold every row of p, of n rows, once.
TellRows(p, n, lines) ==
  /\ \A i \in DOMAIN lines : lines[i].by = p => lines[i].launch < n
  /\ \A l \in 0..(n - 1) : \E i \in DOMAIN lines : lines[i].by = p /\ lines[i].launch = l
  /\ \A i, j \in DOMAIN lines :
       lines[i].by = p /\ lines[j].by = p /\ lines[i].launch = lines[j].launch => i = j

Tell(p, lines) == TellRows(p, appended[p], lines)
Claimed == {p \in Processes : shared \/ WorkloadOf[p] = 1}

FilesTell ==
  /\ ~shared => \A p \in Processes : Tell(p, csv[p])
  /\ ~cut /\ (shared \/ Memory!DataRows(Memory!Root) # <<>>) =>
       \A p \in Claimed : Tell(p, csv[Memory!Root])

\* What has been merged, stage by stage.
MergedTell ==
  /\ stage = "directories" =>
       /\ Memory!DataRows(Memory!Root) = <<>>
       /\ shared => merged = <<>>
       /\ ~shared => /\ \A p \in Processes \ todo : Tell(p, merged)
                     /\ \A p \in todo : \A i \in DOMAIN merged : merged[i].by # p
  /\ stage = "wide" /\ ~cut => \A p \in Claimed : Tell(p, merged)
  /\ stage \in {"wide", "long"} => merged # <<>>
  /\ stage = "long" => csv[Memory!Root] = Memory!Wide

Exact ==
  workload = 1 => \A i \in DOMAIN merged :
    merged[i].by # 0 => merged[i].bytes = Memory!Total(merged[i].by, merged[i].launch)

Done ==
  /\ status = "ok" => stage \in {"workload", "end"}
  /\ stage = "end" /\ status = "ok" =>
       merged # <<>> /\ csv[Memory!Root] = Memory!Wide /\ long = merged

MemoryInv ==
  /\ MemoryType
  /\ Opened
  /\ LinesFit
  /\ FilesApart
  /\ FilesTell
  /\ MergedTell
  /\ Exact
  /\ Done

------------------------------------------------------------------------------
(***************************************************************************)
(* Lists of lines: what they tell of a process does not change when lines  *)
(* of others come before or after, or when bytes are merged into them.     *)
(***************************************************************************)
LEMMA Processes0 == Processes \subseteq Nat \ {0} /\ 0 \notin Processes
BY MergeAssumption DEF Memory!MergeConstants

LEMMA TableLines ==
  ASSUME NEW a \in Table, NEW i \in DOMAIN a
  PROVE  a[i] \in Line /\ a[i].launch \in Nat /\ a[i].by \in Processes \cup {0}
<1>1. a[i] \in Line
  BY LenProperties DEF Table
<1>. QED  BY <1>1 DEF Line

LEMMA TellNone ==
  ASSUME NEW p PROVE TellRows(p, 0, <<>>)
<1>1. DOMAIN <<>> = {} /\ 0..(0 - 1) = {}
  OBVIOUS
<1>. QED  BY <1>1 DEF TellRows

LEMMA AppendedLine ==
  ASSUME NEW S, NEW a \in Seq(S), NEW x \in S
  PROVE  /\ Append(a, x) \in Seq(S) /\ Append(a, x) # <<>>
         /\ Len(a) \in Nat /\ DOMAIN a = 1..Len(a)
         /\ DOMAIN Append(a, x) = 1..(Len(a) + 1)
         /\ \A i \in 1..Len(a) : Append(a, x)[i] = a[i]
         /\ Append(a, x)[Len(a) + 1] = x
<1>1. Len(Append(a, x)) = Len(a) + 1
  OBVIOUS
<1>2. Append(a, x) # <<>>
  BY <1>1
<1>. QED  BY <1>2

LEMMA JoinedLines ==
  ASSUME NEW S, NEW a \in Seq(S), NEW b \in Seq(S)
  PROVE  /\ a \o b \in Seq(S)
         /\ Len(a) \in Nat /\ DOMAIN a = 1..Len(a)
         /\ Len(b) \in Nat /\ DOMAIN b = 1..Len(b)
         /\ DOMAIN (a \o b) = 1..(Len(a) + Len(b))
         /\ \A i \in 1..Len(a) : (a \o b)[i] = a[i]
         /\ \A i \in 1..Len(b) : (a \o b)[Len(a) + i] = b[i]
OBVIOUS

LEMMA TellOther ==
  ASSUME NEW a \in Table, NEW x \in Line, NEW p, NEW n \in Nat, x.by # p, TellRows(p, n, a)
  PROVE  TellRows(p, n, Append(a, x))
<1> DEFINE b == Append(a, x)  N == Len(a)
<1>1. /\ N \in Nat /\ DOMAIN a = 1..N /\ DOMAIN b = 1..(N + 1)
      /\ \A i \in 1..N : b[i] = a[i]
      /\ b[N + 1] = x
  BY AppendedLine DEF Table
<1>. HIDE DEF b, N
<1>2. \A i \in DOMAIN b : b[i].by = p => i \in DOMAIN a /\ b[i] = a[i]
  BY <1>1
<1>3. \A i \in DOMAIN a : i \in DOMAIN b /\ b[i] = a[i]
  BY <1>1
<1>. QED  BY <1>2, <1>3 DEF TellRows, b

LEMMA TellOwn ==
  ASSUME NEW a \in Table, NEW x \in Line, NEW p, NEW n \in Nat,
         x.by = p, x.launch = n, TellRows(p, n, a)
  PROVE  TellRows(p, n + 1, Append(a, x))
<1> DEFINE b == Append(a, x)  N == Len(a)
<1>1. /\ N \in Nat /\ DOMAIN a = 1..N /\ DOMAIN b = 1..(N + 1)
      /\ \A i \in 1..N : b[i] = a[i]
      /\ b[N + 1] = x
  BY AppendedLine DEF Table
<1>2. \A i \in DOMAIN a : a[i].launch \in Nat
  BY TableLines
<1>. HIDE DEF b, N
<1>3. \A i \in DOMAIN b : (i \in DOMAIN a /\ b[i] = a[i]) \/ (i = N + 1 /\ b[i] = x)
  BY <1>1
<1>4. \A i \in DOMAIN a : i \in DOMAIN b /\ b[i] = a[i]
  BY <1>1
<1>5. N + 1 \in DOMAIN b /\ b[N + 1] = x
  BY <1>1
<1>6. \A i \in DOMAIN b : b[i].by = p => b[i].launch < n + 1
  BY <1>2, <1>3 DEF TellRows
<1>7. ASSUME NEW l \in 0..((n + 1) - 1)
      PROVE  \E i \in DOMAIN b : b[i].by = p /\ b[i].launch = l
  <2>1. CASE l = n
    BY <2>1, <1>5
  <2>2. CASE l # n
    <3>1. l \in 0..(n - 1)
      BY <2>2
    <3>. QED  BY <3>1, <1>4 DEF TellRows
  <2>. QED  BY <2>1, <2>2
<1>8. ASSUME NEW i \in DOMAIN b, NEW j \in DOMAIN b,
             b[i].by = p, b[j].by = p, b[i].launch = b[j].launch
      PROVE  i = j
  <2>1. \A k \in DOMAIN a : a[k].by = p => a[k].launch # n
    BY <1>2 DEF TellRows
  <2>. QED  BY <1>3, <1>8, <2>1 DEF TellRows
<1>9. TellRows(p, n + 1, b)
  BY <1>6, <1>7, <1>8 DEF TellRows
<1>. QED  BY <1>9 DEF b

LEMMA TellBefore ==
  ASSUME NEW a \in Table, NEW c \in Table, NEW p, NEW n \in Nat,
         TellRows(p, n, a), \A i \in DOMAIN c : c[i].by # p
  PROVE  TellRows(p, n, a \o c)
<1> DEFINE b == a \o c  N == Len(a)  M == Len(c)
<1>1. /\ N \in Nat /\ DOMAIN a = 1..N /\ M \in Nat /\ DOMAIN c = 1..M /\ DOMAIN b = 1..(N + M)
      /\ \A i \in 1..N : b[i] = a[i]
      /\ \A i \in 1..M : b[N + i] = c[i]
  BY JoinedLines DEF Table
<1>. HIDE DEF b, N, M
<1>2. \A i \in DOMAIN b : b[i].by = p => i \in DOMAIN a /\ b[i] = a[i]
  <2>. SUFFICES ASSUME NEW i \in DOMAIN b, b[i].by = p PROVE i \in DOMAIN a /\ b[i] = a[i]
    OBVIOUS
  <2>1. CASE i \in 1..N
    BY <2>1, <1>1
  <2>2. CASE i - N \in 1..M
    <3>1. b[N + (i - N)] = c[i - N] /\ N + (i - N) = i
      BY <2>2, <1>1
    <3>. QED  BY <3>1, <2>2, <1>1
  <2>. QED  BY <2>1, <2>2, <1>1
<1>3. \A i \in DOMAIN a : i \in DOMAIN b /\ b[i] = a[i]
  BY <1>1
<1>. QED  BY <1>2, <1>3 DEF TellRows, b

LEMMA TellAfter ==
  ASSUME NEW a \in Table, NEW c \in Table, NEW p, NEW n \in Nat,
         TellRows(p, n, c), \A i \in DOMAIN a : a[i].by # p
  PROVE  TellRows(p, n, a \o c)
<1> DEFINE b == a \o c  N == Len(a)  M == Len(c)
<1>1. /\ N \in Nat /\ DOMAIN a = 1..N /\ M \in Nat /\ DOMAIN c = 1..M /\ DOMAIN b = 1..(N + M)
      /\ \A i \in 1..N : b[i] = a[i]
      /\ \A i \in 1..M : b[N + i] = c[i]
  BY JoinedLines DEF Table
<1>. HIDE DEF b, N, M
<1>2. \A i \in DOMAIN b : b[i].by = p => i - N \in DOMAIN c /\ b[i] = c[i - N]
  <2>. SUFFICES ASSUME NEW i \in DOMAIN b, b[i].by = p
                PROVE  i - N \in DOMAIN c /\ b[i] = c[i - N]
    OBVIOUS
  <2>1. i \notin 1..N
    BY <1>1
  <2>2. i - N \in 1..M
    BY <1>1, <2>1
  <2>3. b[N + (i - N)] = c[i - N] /\ N + (i - N) = i
    BY <2>2, <1>1
  <2>. QED  BY <1>1, <2>2, <2>3
<1>3. \A i \in DOMAIN c : N + i \in DOMAIN b /\ b[N + i] = c[i]
  BY <1>1
<1>4. \A i \in DOMAIN b : b[i].by = p => b[i].launch < n
  BY <1>2 DEF TellRows
<1>5. \A l \in 0..(n - 1) : \E i \in DOMAIN b : b[i].by = p /\ b[i].launch = l
  BY <1>3 DEF TellRows
<1>6. ASSUME NEW i \in DOMAIN b, NEW j \in DOMAIN b,
             b[i].by = p, b[j].by = p, b[i].launch = b[j].launch
      PROVE  i = j
  <2>1. i - N = j - N
    BY <1>2, <1>6 DEF TellRows
  <2>. QED  BY <1>1, <2>1
<1>. QED  BY <1>4, <1>5, <1>6 DEF TellRows, b

\* The first line is a header.
LEMMA TellTail ==
  ASSUME NEW a \in Table, NEW p \in Processes, NEW n \in Nat,
         a # <<>>, Headed(a), TellRows(p, n, a)
  PROVE  TellRows(p, n, Tail(a))
<1> DEFINE b == Tail(a)  N == Len(a)
<1>1. N \in Nat \ {0} /\ DOMAIN a = 1..N
  BY EmptySeq, LenProperties DEF Table
<1>2. DOMAIN b = 1..(N - 1) /\ \A i \in 1..(N - 1) : b[i] = a[i + 1]
  BY <1>1 DEF Table
<1>3. a[1].by # p
  BY Processes0 DEF Headed
<1>. HIDE DEF b, N
<1>4. \A i \in DOMAIN a : a[i].by = p => i - 1 \in DOMAIN b /\ b[i - 1] = a[i]
  <2>. SUFFICES ASSUME NEW i \in DOMAIN a, a[i].by = p
                PROVE  i - 1 \in DOMAIN b /\ b[i - 1] = a[i]
    OBVIOUS
  <2>1. i # 1
    BY <1>3
  <2>2. i - 1 \in 1..(N - 1) /\ (i - 1) + 1 = i
    BY <1>1, <2>1
  <2>. QED  BY <1>2, <2>2
<1>5. \A i \in DOMAIN b : i + 1 \in DOMAIN a /\ b[i] = a[i + 1]
  BY <1>1, <1>2
<1>6. \A i \in DOMAIN b : b[i].by = p => b[i].launch < n
  BY <1>5 DEF TellRows
<1>7. \A l \in 0..(n - 1) : \E i \in DOMAIN b : b[i].by = p /\ b[i].launch = l
  BY <1>4 DEF TellRows
<1>8. ASSUME NEW i \in DOMAIN b, NEW j \in DOMAIN b,
             b[i].by = p, b[j].by = p, b[i].launch = b[j].launch
      PROVE  i = j
  <2>1. i + 1 = j + 1
    BY <1>5, <1>8 DEF TellRows
  <2>. QED  BY <1>1, <1>2, <2>1
<1>. QED  BY <1>6, <1>7, <1>8 DEF TellRows, b

LEMMA TellSame ==
  ASSUME NEW a \in Table, NEW b \in Table, NEW p, NEW n \in Nat, TellRows(p, n, a),
         DOMAIN b = DOMAIN a, \A i \in DOMAIN a : b[i].by = a[i].by /\ b[i].launch = a[i].launch
  PROVE  TellRows(p, n, b)
BY DEF TellRows

\* How many rows that are.
LEMMA TellCount ==
  ASSUME NEW a \in Table, NEW p, NEW n \in Nat, TellRows(p, n, a)
  PROVE  Cardinality(Memory!RowsIn(p, a)) = n
<1> DEFINE R == Memory!RowsIn(p, a)  f == [i \in R |-> a[i].launch]
<1>1. R = {i \in DOMAIN a : a[i].by = p}
  BY DEF Memory!RowsIn
<1>2. IsFiniteSet(R)
  <2>1. DOMAIN a = 1..Len(a) /\ Len(a) \in Nat
    BY LenProperties DEF Table
  <2>2. IsFiniteSet(1..Len(a))
    BY <2>1, FS_Interval
  <2>3. R \subseteq 1..Len(a)
    BY <1>1, <2>1
  <2>. QED  BY <2>2, <2>3, FS_Subset
<1>3. \A i \in R : a[i].launch \in Nat
  BY <1>1, TableLines
<1>4. f \in [R -> 0..(n - 1)]
  BY <1>1, <1>3 DEF TellRows
<1>5. f \in Bijection(R, 0..(n - 1))
  <2>1. \A i, j \in R : f[i] = f[j] => i = j
    BY <1>1 DEF TellRows
  <2>2. \A l \in 0..(n - 1) : \E i \in R : f[i] = l
    BY <1>1 DEF TellRows
  <2>. QED  BY <1>4, <2>1, <2>2, Fun_IsBij
<1>6. Cardinality(0..(n - 1)) = n
  <2>1. Cardinality(0..(n - 1)) = IF 0 > n - 1 THEN 0 ELSE (n - 1) - 0 + 1
    BY FS_Interval
  <2>. QED  BY <2>1
<1>. HIDE DEF R, f
<1>7. Cardinality(0..(n - 1)) = Cardinality(R)
  BY <1>2, <1>5, FS_Bijection DEF ExistsBijection
<1>. QED  BY <1>6, <1>7 DEF R

(***************************************************************************)
(* Merging.  In the first workload the bytes of a row can only be those of *)
(* its own process: no two of a workload are of one rank, and none of a    *)
(* later workload has saved anything.                                      *)
(***************************************************************************)
LEMMA FirstWorkload ==
  ASSUME MemoryInv, workload = 1, NEW p \in Processes, appended[p] # 0 \/ counted[p] # {}
  PROVE  WorkloadOf[p] = 1
<1>1. WorkloadOf[p] \in Nat \ {0}
  BY MergeAssumption DEF Memory!MergeConstants
<1>. QED  BY <1>1 DEF MemoryInv, Opened

LEMMA TotalTyped ==
  ASSUME NEW p \in Processes, NEW l \in Nat
  PROVE  /\ Memory!Total(p, l) \in Totals
         /\ \A b \in Memory!Total(p, l) : b = <<p, l>> /\ l \in counted[p]
BY DEF Memory!Total, Memory!Nothing, Totals

\* The bytes a line may get.
Offers(line, total) ==
  line.by # 0 => \A b \in total : /\ RankOf[b[1]] = RankOf[line.by]
                                  /\ b[2] = line.launch /\ b[2] \in counted[b[1]]
                                  /\ workload = 1 => b[1] = line.by

LEMMA ByRankOffers ==
  ASSUME MemoryInv, NEW line \in Line, Fits(line)
  PROVE  /\ Memory!TotalByRank(line) \in Totals
         /\ Offers(line, Memory!TotalByRank(line))
         /\ workload = 1 /\ line.by # 0 =>
              Memory!TotalByRank(line) = Memory!Total(line.by, line.launch)
<1> DEFINE C == Memory!Candidates(line)
<1>1. C = {p \in Processes : RankOf[p] = Memory!RankOfLine(line) /\ line.launch \in counted[p]}
  BY DEF Memory!Candidates
<1>2. line.launch \in Nat /\ line.by \in Processes \cup {0}
  BY DEF Line
<1>3. Memory!TotalByRank(line) = UNION {Memory!Total(p, line.launch) : p \in Memory!LastOf(C)}
  BY DEF Memory!TotalByRank
<1>4. Memory!LastOf(C) \subseteq C
  BY DEF Memory!LastOf
<1>5. \A b \in Memory!TotalByRank(line) : \E p \in C : b = <<p, line.launch>>
  BY <1>1, <1>2, <1>3, <1>4, TotalTyped
<1>. HIDE DEF C
<1>6. Memory!TotalByRank(line) \in Totals
  BY <1>1, <1>2, <1>5 DEF Totals
<1>7. ASSUME workload = 1, line.by # 0
      PROVE  /\ \A p \in C : p = line.by
             /\ line.by \in C <=> line.launch \in counted[line.by]
  <2>1. line.by \in Processes /\ line.launch < appended[line.by]
    BY <1>2, <1>7 DEF Fits
  <2>2. WorkloadOf[line.by] = 1
    <3>1. appended[line.by] \in Nat
      BY <2>1 DEF MemoryInv, MemoryType
    <3>2. appended[line.by] # 0
      BY <1>2, <2>1, <3>1
    <3>. QED  BY <1>7, <2>1, <3>2, FirstWorkload
  <2>3. \A p \in C : WorkloadOf[p] = 1
    BY <1>1, <1>7, FirstWorkload
  <2>4. Memory!RankOfLine(line) = RankOf[line.by]
    BY <1>7 DEF Memory!RankOfLine
  <2>5. \A p \in C : p = line.by
    BY <1>1, <2>1, <2>2, <2>3, <2>4, MergeAssumption DEF Memory!MergeConstants
  <2>6. line.by \in C <=> line.launch \in counted[line.by]
    BY <1>1, <2>1, <2>4
  <2>. QED  BY <2>5, <2>6
<1>8. Offers(line, Memory!TotalByRank(line))
  <2>. SUFFICES ASSUME line.by # 0, NEW b \in Memory!TotalByRank(line)
                PROVE  /\ RankOf[b[1]] = RankOf[line.by]
                       /\ b[2] = line.launch /\ b[2] \in counted[b[1]]
                       /\ workload = 1 => b[1] = line.by
    BY DEF Offers
  <2>1. PICK p \in C : b = <<p, line.launch>>
    BY <1>5
  <2>2. RankOf[p] = RankOf[line.by] /\ line.launch \in counted[p]
    BY <1>1 DEF Memory!RankOfLine
  <2>3. workload = 1 => p = line.by
    BY <1>7
  <2>. QED  BY <2>1, <2>2, <2>3
<1>9. ASSUME workload = 1, line.by # 0
      PROVE  Memory!TotalByRank(line) = Memory!Total(line.by, line.launch)
  <2>1. CASE line.launch \in counted[line.by]
    <3>1. C = {line.by}
      <4>1. line.by \in C /\ \A p \in C : p = line.by
        BY <1>7, <1>9, <2>1
      <4>. QED  BY <4>1
    <3>2. line.by \in Nat
      <4>1. line.by \in Processes
        BY <1>2, <1>9
      <4>. QED  BY <4>1, Processes0
    <3>3. Memory!LastOf(C) = {line.by}
      BY <3>1, <3>2 DEF Memory!LastOf
    <3>4. {Memory!Total(p, line.launch) : p \in {line.by}} = {Memory!Total(line.by, line.launch)}
      OBVIOUS
    <3>. QED  BY <1>3, <3>3, <3>4
  <2>2. CASE line.launch \notin counted[line.by]
    <3>1. C = {}
      <4>1. line.by \notin C /\ \A p \in C : p = line.by
        BY <1>7, <1>9, <2>2
      <4>. QED  BY <4>1
    <3>2. Memory!TotalByRank(line) = {}
      BY <1>5, <3>1
    <3>. QED  BY <2>2, <3>2 DEF Memory!Total, Memory!Nothing
  <2>. QED  BY <2>1, <2>2
<1>. QED  BY <1>6, <1>8, <1>9

LEMMA OwnOffers ==
  ASSUME NEW line \in Line, NEW p \in Processes, line.by \in {0, p}
  PROVE  /\ Memory!TotalOfDirectory(p, line) \in Totals
         /\ Offers(line, Memory!TotalOfDirectory(p, line))
         /\ line.by # 0 => Memory!TotalOfDirectory(p, line) = Memory!Total(line.by, line.launch)
<1>1. Memory!TotalOfDirectory(p, line) = Memory!Total(p, line.launch) /\ line.launch \in Nat
  BY DEF Memory!TotalOfDirectory, Line
<1>2. \A b \in Memory!Total(p, line.launch) :
        b[1] = p /\ b[2] = line.launch /\ line.launch \in counted[p]
  BY <1>1, TotalTyped
<1>3. Memory!Total(p, line.launch) \in Totals
  BY <1>1, TotalTyped
<1>. QED  BY <1>1, <1>2, <1>3 DEF Offers

\* A merged line is the line but for its bytes, and these fit.
LEMMA MergedFits ==
  ASSUME NEW line \in Line, Fits(line), NEW total \in Totals, Offers(line, total)
  PROVE  /\ Memory!Merge(line, total) \in Line
         /\ Fits(Memory!Merge(line, total))
         /\ Memory!Merge(line, total).by = line.by
         /\ Memory!Merge(line, total).launch = line.launch
         /\ workload = 1 /\ line.by # 0 /\ total = Memory!Total(line.by, line.launch) =>
              Memory!Merge(line, total).bytes = total
<1> DEFINE new == Memory!Merge(line, total)
<1>1. CASE total = {}
  <2>1. new = line
    BY <1>1 DEF Memory!Merge, Memory!Nothing
  <2>2. ASSUME workload = 1, line.by # 0, total = Memory!Total(line.by, line.launch)
        PROVE  line.bytes = {}
    <3>1. line.launch \notin counted[line.by]
      BY <1>1, <2>2 DEF Memory!Total
    <3>. QED  BY <2>2, <3>1 DEF Fits
  <2>. QED  BY <1>1, <2>1, <2>2
<1>2. CASE total # {}
  <2>1. new = [by |-> line.by, launch |-> line.launch, timed |-> line.timed, bytes |-> total,
               rate |-> IF line.timed THEN total ELSE {}]
    BY <1>2 DEF Memory!Merge, Memory!Nothing, Line
  <2>2. /\ new.by = line.by /\ new.launch = line.launch /\ new.timed = line.timed
        /\ new.bytes = total /\ new.rate = IF line.timed THEN total ELSE {}
    BY <2>1
  <2>3. new \in Line
    BY <2>1 DEF Line, Totals
  <2>4. Fits(new)
    BY <2>2 DEF Fits, Offers
  <2>. QED  BY <2>2, <2>3, <2>4
<1>. QED  BY <1>1, <1>2

\* The rows of a file: its lines but the first.
LEMMA DataRowsAre ==
  ASSUME MemoryInv, NEW f \in DOMAIN csv
  PROVE  /\ csv[f] \in Table /\ Memory!DataRows(f) \in Table
         /\ csv[f] = <<>> => Memory!DataRows(f) = <<>>
         /\ csv[f] # <<>> => Memory!DataRows(f) = Tail(csv[f])
         /\ \A i \in DOMAIN Memory!DataRows(f) :
              i + 1 \in DOMAIN csv[f] /\ Memory!DataRows(f)[i] = csv[f][i + 1]
<1>1. csv[f] \in Table
  BY DEF MemoryInv, MemoryType
<1> DEFINE a == csv[f]  b == Memory!DataRows(f)
<1>2. b = IF a = <<>> THEN <<>> ELSE Tail(a)
  BY DEF Memory!DataRows
<1>3. a \in Table
  BY <1>1
<1>. HIDE DEF a, b
<1>4. CASE a = <<>>
  <2>1. b \in Table /\ DOMAIN b = {}
    BY <1>2, <1>4, EmptySeq DEF Table
  <2>. QED  BY <1>2, <1>3, <1>4, <2>1 DEF a, b
<1>5. CASE a # <<>>
  <2>1. b = Tail(a)
    BY <1>2, <1>5
  <2>2. Len(a) \in Nat \ {0} /\ DOMAIN a = 1..Len(a)
    BY <1>3, <1>5, EmptySeq, LenProperties DEF Table
  <2>3. /\ Tail(a) \in Seq(Line) /\ DOMAIN Tail(a) = 1..(Len(a) - 1)
        /\ \A i \in 1..(Len(a) - 1) : Tail(a)[i] = a[i + 1]
    BY <1>3, <1>5, <2>2 DEF Table
  <2>4. \A i \in DOMAIN b : i + 1 \in DOMAIN a /\ b[i] = a[i + 1]
    BY <2>1, <2>2, <2>3
  <2>. QED  BY <1>3, <1>5, <2>1, <2>3, <2>4 DEF a, b, Table
<1>. QED  BY <1>4, <1>5

\* A table of merged lines.
LEMMA MergedTable ==
  ASSUME NEW old \in Table, NEW t \in [DOMAIN old -> Totals],
         \A i \in DOMAIN old : Fits(old[i]) /\ Offers(old[i], t[i])
  PROVE  LET new == [i \in DOMAIN old |-> Memory!Merge(old[i], t[i])]
         IN  /\ new \in Table /\ DOMAIN new = DOMAIN old
             /\ \A i \in DOMAIN new : /\ Fits(new[i]) /\ new[i].by = old[i].by
                                      /\ new[i].launch = old[i].launch
             /\ \A i \in DOMAIN new :
                  workload = 1 /\ new[i].by # 0 /\ t[i] = Memory!Total(old[i].by, old[i].launch) =>
                    new[i].bytes = t[i]
<1> DEFINE new == [i \in DOMAIN old |-> Memory!Merge(old[i], t[i])]
<1>1. \A i \in DOMAIN old : new[i] = Memory!Merge(old[i], t[i])
  OBVIOUS
<1>2. DOMAIN new = DOMAIN old
  OBVIOUS
<1>. HIDE DEF new
<1>3. ASSUME NEW i \in DOMAIN old
      PROVE  /\ new[i] \in Line /\ Fits(new[i]) /\ new[i].by = old[i].by
             /\ new[i].launch = old[i].launch
             /\ workload = 1 /\ old[i].by # 0 /\ t[i] = Memory!Total(old[i].by, old[i].launch) =>
                  new[i].bytes = t[i]
  BY <1>1, TableLines, MergedFits
<1>4. new \in Table
  <2>1. DOMAIN old = 1..Len(old) /\ Len(old) \in Nat
    BY LenProperties DEF Table
  <2>2. new \in [1..Len(old) -> Line]
    BY <1>2, <1>3, <2>1 DEF new
  <2>. QED  BY <2>1, <2>2 DEF Table
<1>. QED  BY <1>2, <1>3, <1>4 DEF new

LEMMA RootMerged ==
  ASSUME MemoryInv
  PROVE  /\ Memory!RootRows \in Table
         /\ DOMAIN Memory!RootRows = DOMAIN Memory!DataRows(Memory!Root)
         /\ \A i \in DOMAIN Memory!RootRows :
              /\ Fits(Memory!RootRows[i])
              /\ Memory!RootRows[i].by = Memory!DataRows(Memory!Root)[i].by
              /\ Memory!RootRows[i].launch = Memory!DataRows(Memory!Root)[i].launch
              /\ workload = 1 /\ Memory!RootRows[i].by # 0 =>
                   Memory!RootRows[i].bytes =
                     Memory!Total(Memory!RootRows[i].by, Memory!RootRows[i].launch)
<1> DEFINE old == Memory!DataRows(Memory!Root)
           t == [i \in DOMAIN old |-> Memory!TotalByRank(old[i])]
           new == Memory!RootRows
<1>1. new = [i \in DOMAIN old |-> Memory!Merge(old[i], t[i])]
  BY DEF Memory!RootRows
<1>2. Memory!Root \in DOMAIN csv
  BY DEF MemoryInv, MemoryType
<1>3. old \in Table
  BY <1>2, DataRowsAre
<1>4. \A i \in DOMAIN old : Fits(old[i])
  BY <1>2, DataRowsAre DEF MemoryInv, LinesFit
<1>5. ASSUME NEW i \in DOMAIN old
      PROVE  /\ Memory!TotalByRank(old[i]) \in Totals
             /\ Offers(old[i], Memory!TotalByRank(old[i]))
             /\ workload = 1 /\ old[i].by # 0 =>
                  Memory!TotalByRank(old[i]) = Memory!Total(old[i].by, old[i].launch)
  BY <1>3, <1>4, TableLines, ByRankOffers
<1>6. t \in [DOMAIN old -> Totals]
  BY <1>5
<1>7. \A i \in DOMAIN old : t[i] = Memory!TotalByRank(old[i])
  OBVIOUS
<1>. HIDE DEF old, t, new
<1>8. /\ new \in Table /\ DOMAIN new = DOMAIN old
      /\ \A i \in DOMAIN new : /\ Fits(new[i]) /\ new[i].by = old[i].by
                               /\ new[i].launch = old[i].launch
      /\ \A i \in DOMAIN new :
           workload = 1 /\ new[i].by # 0 /\ t[i] = Memory!Total(old[i].by, old[i].launch) =>
             new[i].bytes = t[i]
  BY <1>1, <1>3, <1>4, <1>5, <1>6, <1>7, MergedTable
<1>9. \A i \in DOMAIN new : workload = 1 /\ new[i].by # 0 =>
        new[i].bytes = Memory!Total(new[i].by, new[i].launch)
  BY <1>5, <1>7, <1>8
<1>. QED  BY <1>8, <1>9 DEF old, new

LEMMA DirectoryMerged ==
  ASSUME MemoryInv, ~shared, NEW p \in Processes
  PROVE  /\ Memory!RowsOf(p) \in Table
         /\ DOMAIN Memory!RowsOf(p) = DOMAIN Memory!DataRows(p)
         /\ \A i \in DOMAIN Memory!RowsOf(p) :
              /\ Fits(Memory!RowsOf(p)[i])
              /\ Memory!RowsOf(p)[i].by \in {0, p}
              /\ Memory!RowsOf(p)[i].by = Memory!DataRows(p)[i].by
              /\ Memory!RowsOf(p)[i].launch = Memory!DataRows(p)[i].launch
              /\ workload = 1 /\ Memory!RowsOf(p)[i].by # 0 =>
                   Memory!RowsOf(p)[i].bytes =
                     Memory!Total(Memory!RowsOf(p)[i].by, Memory!RowsOf(p)[i].launch)
<1> DEFINE old == Memory!DataRows(p)
           t == [i \in DOMAIN old |-> Memory!TotalOfDirectory(p, old[i])]
           new == Memory!RowsOf(p)
<1>1. new = [i \in DOMAIN old |-> Memory!Merge(old[i], t[i])]
  BY DEF Memory!RowsOf
<1>2. p \in DOMAIN csv
  BY DEF MemoryInv, MemoryType
<1>3. old \in Table
  BY <1>2, DataRowsAre
<1>4. \A i \in DOMAIN old : Fits(old[i]) /\ old[i].by \in {0, p}
  BY <1>2, DataRowsAre DEF MemoryInv, LinesFit, FilesApart
<1>5. ASSUME NEW i \in DOMAIN old
      PROVE  /\ Memory!TotalOfDirectory(p, old[i]) \in Totals
             /\ Offers(old[i], Memory!TotalOfDirectory(p, old[i]))
             /\ old[i].by # 0 =>
                  Memory!TotalOfDirectory(p, old[i]) = Memory!Total(old[i].by, old[i].launch)
  BY <1>3, <1>4, TableLines, OwnOffers
<1>6. t \in [DOMAIN old -> Totals]
  BY <1>5
<1>7. \A i \in DOMAIN old : t[i] = Memory!TotalOfDirectory(p, old[i])
  OBVIOUS
<1>. HIDE DEF old, t, new
<1>8. /\ new \in Table /\ DOMAIN new = DOMAIN old
      /\ \A i \in DOMAIN new : /\ Fits(new[i]) /\ new[i].by = old[i].by
                               /\ new[i].launch = old[i].launch
      /\ \A i \in DOMAIN new :
           workload = 1 /\ new[i].by # 0 /\ t[i] = Memory!Total(old[i].by, old[i].launch) =>
             new[i].bytes = t[i]
  BY <1>1, <1>3, <1>4, <1>5, <1>6, <1>7, MergedTable
<1>9. \A i \in DOMAIN new : workload = 1 /\ new[i].by # 0 =>
        new[i].bytes = Memory!Total(new[i].by, new[i].launch)
  BY <1>5, <1>7, <1>8
<1>. QED  BY <1>4, <1>8, <1>9 DEF old, new

\* What the files told, the merged rows tell.
LEMMA RootTells ==
  ASSUME MemoryInv, NEW p \in Processes, Tell(p, csv[Memory!Root])
  PROVE  Tell(p, Memory!RootRows)
<1>1. Memory!Root \in DOMAIN csv /\ appended[p] \in Nat
  BY DEF MemoryInv, MemoryType
<1>2. Tell(p, Memory!DataRows(Memory!Root))
  <2>1. CASE csv[Memory!Root] = <<>>
    BY <1>1, <2>1, DataRowsAre
  <2>2. CASE csv[Memory!Root] # <<>>
    BY <1>1, <2>2, DataRowsAre, TellTail DEF Tell, MemoryInv, FilesApart
  <2>. QED  BY <2>1, <2>2
<1>. QED  BY <1>1, <1>2, RootMerged, DataRowsAre, TellSame DEF Tell

LEMMA DirectoryTells ==
  ASSUME MemoryInv, ~shared, NEW p \in Processes
  PROVE  Tell(p, Memory!RowsOf(p))
<1>1. p \in DOMAIN csv /\ appended[p] \in Nat /\ Tell(p, csv[p])
  BY DEF MemoryInv, MemoryType, FilesTell
<1>2. Tell(p, Memory!DataRows(p))
  <2>1. CASE csv[p] = <<>>
    BY <1>1, <2>1, DataRowsAre
  <2>2. CASE csv[p] # <<>>
    BY <1>1, <2>2, DataRowsAre, TellTail DEF Tell, MemoryInv, FilesApart
  <2>. QED  BY <2>1, <2>2
<1>. QED  BY <1>1, <1>2, DirectoryMerged, DataRowsAre, TellSame DEF Tell

------------------------------------------------------------------------------
(***************************************************************************)
(* The steps.  An analysis leaves what the processes wrote; a step that    *)
(* only reads leaves the files too.                                        *)
(***************************************************************************)
CsvFits == \A f \in DOMAIN csv : \A i \in DOMAIN csv[f] : Fits(csv[f][i])
OwnTell == ~shared => \A p \in Processes : Tell(p, csv[p])
RootTell ==
  ~cut /\ (shared \/ Memory!DataRows(Memory!Root) # <<>>) =>
    \A p \in Claimed : Tell(p, csv[Memory!Root])

LEMMA ReadingKeeps ==
  ASSUME MemoryInv, UNCHANGED <<shared, workload, open, appended, counted, csv>>,
         stage' # "workload"
  PROVE  Opened' /\ FilesApart' /\ CsvFits' /\ OwnTell'
<1>1. Opened'
  BY DEF MemoryInv, Opened, Memory!FileOf
<1>2. FilesApart'
  BY DEF MemoryInv, FilesApart, Headed
<1>3. CsvFits'
  BY DEF MemoryInv, LinesFit, CsvFits, Fits
<1>4. OwnTell'
  BY DEF MemoryInv, FilesTell, OwnTell, Tell, TellRows
<1>. QED  BY <1>1, <1>2, <1>3, <1>4

LEMMA MergedKept ==
  ASSUME MemoryInv, UNCHANGED <<workload, appended, counted, merged>>
  PROVE  (\A i \in DOMAIN merged : Fits(merged[i]))' /\ Exact'
<1>1. (\A i \in DOMAIN merged : Fits(merged[i]))'
  BY DEF MemoryInv, LinesFit, Fits
<1>2. Exact'
  BY DEF MemoryInv, Exact, Memory!Total
<1>. QED  BY <1>1, <1>2

LEMMA RootKept ==
  ASSUME MemoryInv, UNCHANGED <<shared, appended, csv, cut>>
  PROVE  RootTell'
BY DEF MemoryInv, FilesTell, RootTell, Claimed, Tell, TellRows, Memory!DataRows

LEMMA AnalyzeStep == ASSUME MemoryInv, Memory!Analyze PROVE MemoryInv'
<1>1. /\ UNCHANGED <<shared, workload, open, appended, counted, csv, todo, merged, cut>>
      /\ stage' = "read" /\ status' = "none"
  BY DEF Memory!Analyze, Memory!written
<1>2. MemoryType'
  BY <1>1 DEF MemoryInv, MemoryType, Stages
<1>3. Opened' /\ FilesApart' /\ CsvFits' /\ OwnTell'
  BY <1>1, ReadingKeeps
<1>4. (\A i \in DOMAIN merged : Fits(merged[i]))' /\ Exact'
  BY <1>1, MergedKept
<1>5. RootTell'
  BY <1>1, RootKept
<1>6. MergedTell' /\ Done'
  BY <1>1 DEF MergedTell, Done
<1>. QED
  BY <1>2, <1>3, <1>4, <1>5, <1>6 DEF MemoryInv, LinesFit, FilesTell, CsvFits, OwnTell, RootTell

LEMMA RefuseStep == ASSUME MemoryInv, Memory!Refuse PROVE MemoryInv'
<1>1. /\ UNCHANGED <<shared, workload, open, appended, counted, csv, merged, cut>>
      /\ stage' = "end" /\ status' = "failed" /\ todo' = {}
  BY DEF Memory!Refuse, Memory!Go, Memory!written
<1>2. MemoryType'
  BY <1>1 DEF MemoryInv, MemoryType, Stages
<1>3. Opened' /\ FilesApart' /\ CsvFits' /\ OwnTell'
  BY <1>1, ReadingKeeps
<1>4. (\A i \in DOMAIN merged : Fits(merged[i]))' /\ Exact'
  BY <1>1, MergedKept
<1>5. RootTell'
  BY <1>1, RootKept
<1>6. MergedTell' /\ Done'
  BY <1>1 DEF MergedTell, Done
<1>. QED
  BY <1>2, <1>3, <1>4, <1>5, <1>6 DEF MemoryInv, LinesFit, FilesTell, CsvFits, OwnTell, RootTell

LEMMA ReadRootStep == ASSUME MemoryInv, Memory!ReadRoot PROVE MemoryInv'
<1>1. /\ UNCHANGED <<shared, workload, open, appended, counted, csv, todo, status, cut>>
      /\ stage = "read" /\ stage' = "wide" /\ merged' = Memory!RootRows
      /\ Memory!DataRows(Memory!Root) # <<>>
  BY DEF Memory!ReadRoot, Memory!Go, Memory!written
<1>2. MemoryType'
  BY <1>1, RootMerged DEF MemoryInv, MemoryType, Stages
<1>3. Opened' /\ FilesApart' /\ CsvFits' /\ OwnTell'
  BY <1>1, ReadingKeeps
<1>4. (\A i \in DOMAIN merged : Fits(merged[i]))'
  BY <1>1, RootMerged DEF Fits
<1>5. Exact'
  BY <1>1, RootMerged DEF Exact, Memory!Total
<1>6. RootTell'
  BY <1>1, RootKept
<1>7. MergedTell'
  <2>1. merged' # <<>>
    <3>1. DOMAIN Memory!DataRows(Memory!Root) # {}
      <4>1. Memory!DataRows(Memory!Root) \in Table
        BY DataRowsAre DEF MemoryInv, MemoryType
      <4>2. Len(Memory!DataRows(Memory!Root)) \in Nat \ {0}
        BY <1>1, <4>1, EmptySeq DEF Table
      <4>3. DOMAIN Memory!DataRows(Memory!Root) = 1..Len(Memory!DataRows(Memory!Root))
        BY <4>1, LenProperties DEF Table
      <4>. QED  BY <4>2, <4>3
    <3>2. DOMAIN merged' # {}
      BY <1>1, <3>1, RootMerged
    <3>3. DOMAIN <<>> = {}
      OBVIOUS
    <3>. QED  BY <3>2, <3>3
  <2>2. ASSUME ~cut', NEW p \in Claimed'
        PROVE  Tell(p, merged)'
    <3>1. p \in Claimed /\ ~cut
      BY <1>1, <2>2 DEF Claimed
    <3>2. p \in Processes /\ Tell(p, csv[Memory!Root])
      BY <1>1, <3>1 DEF MemoryInv, FilesTell, Claimed
    <3>3. Tell(p, Memory!RootRows)
      BY <3>2, RootTells
    <3>. QED  BY <1>1, <3>3 DEF Tell
  <2>. QED  BY <1>1, <2>1, <2>2 DEF MergedTell
<1>8. Done'
  BY <1>1 DEF MemoryInv, Done
<1>. QED  BY <1>2, <1>3, <1>4, <1>5, <1>6, <1>7, <1>8
          DEF MemoryInv, LinesFit, FilesTell, CsvFits, OwnTell, RootTell

LEMMA FindNoRowsStep == ASSUME MemoryInv, Memory!FindNoRows PROVE MemoryInv'
<1>1. /\ UNCHANGED <<shared, workload, open, appended, counted, csv, status, cut>>
      /\ stage = "read" /\ stage' = "directories" /\ merged' = <<>> /\ todo' = Processes
      /\ Memory!DataRows(Memory!Root) = <<>>
  BY DEF Memory!FindNoRows, Memory!Go, Memory!written
<1>2. merged' \in Table /\ DOMAIN merged' = {}
  BY <1>1 DEF Table
<1>3. MemoryType'
  BY <1>1, <1>2 DEF MemoryInv, MemoryType, Stages
<1>4. Opened' /\ FilesApart' /\ CsvFits' /\ OwnTell'
  BY <1>1, ReadingKeeps
<1>5. (\A i \in DOMAIN merged : Fits(merged[i]))' /\ Exact'
  BY <1>2 DEF Exact
<1>6. RootTell'
  BY <1>1, RootKept
<1>7. MergedTell'
  BY <1>1, <1>2 DEF MergedTell, Memory!DataRows
<1>8. Done'
  BY <1>1 DEF MemoryInv, Done
<1>. QED  BY <1>3, <1>4, <1>5, <1>6, <1>7, <1>8
          DEF MemoryInv, LinesFit, FilesTell, CsvFits, OwnTell, RootTell

LEMMA ReadDirectoryStep ==
  ASSUME MemoryInv, NEW p \in Processes, Memory!ReadDirectory(p) PROVE MemoryInv'
<1> DEFINE new == Memory!RowsOf(p)  old == merged
<1>1. /\ UNCHANGED <<shared, workload, open, appended, counted, csv, status, cut>>
      /\ stage = "directories" /\ stage' = "directories" /\ merged' = old \o new
      /\ p \in todo /\ todo' = todo \ {p}
  BY DEF Memory!ReadDirectory, Memory!Go, Memory!written
<1>2. Opened' /\ FilesApart' /\ CsvFits' /\ OwnTell'
  BY <1>1, ReadingKeeps
<1>3. RootTell'
  BY <1>1, RootKept
<1>4. Done'
  BY <1>1 DEF MemoryInv, Done
<1>5. old \in Table
  BY DEF MemoryInv, MemoryType
<1>6. CASE shared
  <2>1. old = <<>> /\ csv[p] = <<>>
    BY <1>1, <1>6 DEF MemoryInv, MergedTell, FilesApart
  <2>2. new = <<>>
    <3>1. Memory!DataRows(p) = <<>>
      BY <2>1 DEF Memory!DataRows
    <3>2. new = [i \in DOMAIN <<>> |->
                   Memory!Merge(Memory!DataRows(p)[i],
                                Memory!TotalOfDirectory(p, Memory!DataRows(p)[i]))]
      BY <3>1 DEF Memory!RowsOf
    <3>3. DOMAIN new = 1..0
      BY <3>2
    <3>. HIDE DEF new
    <3>4. new \in [1..0 -> Line]
      BY <3>2, <3>3
    <3>5. new \in Seq(Line) /\ Len(new) = 0
      BY <3>4
    <3>. QED  BY <3>5, EmptySeq
  <2>3. merged' = <<>>
    <3>. HIDE DEF old, new
    <3>1. <<>> \o <<>> = <<>>
      OBVIOUS
    <3>. QED  BY <1>1, <2>1, <2>2, <3>1
  <2>4. merged' \in Table /\ DOMAIN merged' = {}
    BY <2>3 DEF Table
  <2>5. MemoryType'
    BY <1>1, <2>4 DEF MemoryInv, MemoryType, Stages
  <2>6. (\A i \in DOMAIN merged : Fits(merged[i]))' /\ Exact'
    BY <2>4 DEF Exact
  <2>7. MergedTell'
    BY <1>1, <1>6, <2>3 DEF MemoryInv, MergedTell, Memory!DataRows
  <2>. QED  BY <1>2, <1>3, <1>4, <2>5, <2>6, <2>7
            DEF MemoryInv, LinesFit, FilesTell, CsvFits, OwnTell, RootTell
<1>7. CASE ~shared
  <2>1. /\ new \in Table
        /\ \A i \in DOMAIN new : Fits(new[i]) /\ new[i].by \in {0, p}
        /\ \A i \in DOMAIN new : workload = 1 /\ new[i].by # 0 =>
             new[i].bytes = Memory!Total(new[i].by, new[i].launch)
    BY <1>7, DirectoryMerged
  <2>2. Tell(p, new)
    BY <1>7, DirectoryTells
  <2>3. /\ \A q \in Processes \ todo : Tell(q, old)
        /\ \A q \in todo : \A i \in DOMAIN old : old[i].by # q
        /\ \A i \in DOMAIN old : Fits(old[i])
        /\ \A i \in DOMAIN old : workload = 1 /\ old[i].by # 0 =>
             old[i].bytes = Memory!Total(old[i].by, old[i].launch)
    BY <1>1, <1>7 DEF MemoryInv, MergedTell, LinesFit, Exact
  <2>. HIDE DEF old, new
  <2> DEFINE all == old \o new  N == Len(old)  M == Len(new)
  <2>4. /\ all \in Table
        /\ N \in Nat /\ DOMAIN old = 1..N /\ M \in Nat /\ DOMAIN new = 1..M
        /\ DOMAIN all = 1..(N + M)
        /\ \A i \in 1..N : all[i] = old[i]
        /\ \A i \in 1..M : all[N + i] = new[i]
    BY <1>5, <2>1, JoinedLines DEF Table
  <2>. HIDE DEF all, N, M
  <2>5. \A i \in DOMAIN all : \/ i \in DOMAIN old /\ all[i] = old[i]
                              \/ \E j \in DOMAIN new : all[i] = new[j]
    <3>. SUFFICES ASSUME NEW i \in DOMAIN all, i \notin DOMAIN old
                  PROVE  \E j \in DOMAIN new : all[i] = new[j]
      BY <2>4
    <3>1. i - N \in 1..M /\ N + (i - N) = i
      BY <2>4
    <3>. QED  BY <2>4, <3>1
  <2>6. merged' = all
    BY <1>1 DEF all
  <2>7. MemoryType'
    BY <1>1, <2>4, <2>6 DEF MemoryInv, MemoryType, Stages
  <2>8. \A i \in DOMAIN all : Fits(all[i])
    BY <2>1, <2>3, <2>5
  <2>9. (\A i \in DOMAIN merged : Fits(merged[i]))'
    BY <1>1, <2>6, <2>8 DEF Fits
  <2>10. \A i \in DOMAIN all : workload = 1 /\ all[i].by # 0 =>
           all[i].bytes = Memory!Total(all[i].by, all[i].launch)
    BY <2>1, <2>3, <2>5
  <2>11. Exact'
    BY <1>1, <2>6, <2>10 DEF Exact, Memory!Total
  <2>12. ASSUME NEW q \in Processes \ todo'
         PROVE  Tell(q, all)
    <3>1. appended[q] \in Nat
      BY DEF MemoryInv, MemoryType
    <3>2. CASE q = p
      <4>1. \A i \in DOMAIN old : old[i].by # p
        BY <1>1, <2>3
      <4>. QED  BY <1>5, <2>1, <2>2, <3>1, <3>2, <4>1, TellAfter DEF Tell, all
    <3>3. CASE q # p
      <4>1. q \in Processes \ todo
        BY <1>1, <3>3
      <4>2. \A i \in DOMAIN new : new[i].by # q
        BY <2>1, <3>3, Processes0
      <4>. QED  BY <1>5, <2>1, <2>3, <3>1, <4>1, <4>2, TellBefore DEF Tell, all
    <3>. QED  BY <3>2, <3>3
  <2>13. ASSUME NEW q \in todo', NEW i \in DOMAIN all
         PROVE  all[i].by # q
    <3>1. q \in todo /\ q # p /\ q # 0
      BY <1>1, Processes0 DEF MemoryInv, MemoryType
    <3>. QED  BY <2>1, <2>3, <2>5, <3>1
  <2>14. MergedTell'
    <3>1. Memory!DataRows(Memory!Root)' = <<>>
      BY <1>1 DEF MemoryInv, MergedTell, Memory!DataRows
    <3>2. \A q \in Processes : Tell(q, all) => Tell(q, merged)'
      BY <1>1, <2>6 DEF Tell
    <3>. QED  BY <1>1, <1>7, <2>6, <2>12, <2>13, <3>1, <3>2 DEF MergedTell
  <2>. QED  BY <1>2, <1>3, <1>4, <2>7, <2>9, <2>11, <2>14
            DEF MemoryInv, LinesFit, FilesTell, CsvFits, OwnTell, RootTell
<1>. QED  BY <1>6, <1>7

LEMMA ReadAllStep == ASSUME MemoryInv, Memory!ReadAll PROVE MemoryInv'
<1>1. /\ UNCHANGED <<shared, workload, open, appended, counted, csv, todo, merged, status>>
      /\ stage = "directories" /\ stage' = "wide" /\ todo = {} /\ merged # <<>> /\ cut' = FALSE
  BY DEF Memory!ReadAll, Memory!Go, Memory!written
<1>2. ~shared /\ Memory!DataRows(Memory!Root) = <<>>
  BY <1>1 DEF MemoryInv, MemoryType, MergedTell
<1>3. MemoryType'
  BY <1>1 DEF MemoryInv, MemoryType, Stages
<1>4. Opened' /\ FilesApart' /\ CsvFits' /\ OwnTell'
  BY <1>1, ReadingKeeps
<1>5. (\A i \in DOMAIN merged : Fits(merged[i]))' /\ Exact'
  BY <1>1, MergedKept
<1>6. RootTell'
  BY <1>1, <1>2 DEF RootTell, Memory!DataRows
<1>7. MergedTell'
  <2>1. \A p \in Processes : Tell(p, merged)
    BY <1>1, <1>2 DEF MemoryInv, MergedTell
  <2>2. \A p \in Processes : Tell(p, merged)'
    BY <1>1, <2>1 DEF Tell
  <2>. QED  BY <1>1, <2>2 DEF MergedTell, Claimed
<1>8. Done'
  BY <1>1 DEF MemoryInv, Done
<1>. QED  BY <1>3, <1>4, <1>5, <1>6, <1>7, <1>8
          DEF MemoryInv, LinesFit, FilesTell, CsvFits, OwnTell, RootTell

------------------------------------------------------------------------------
(***************************************************************************)
(* The steps that write: the analysis to the file of the root, a process   *)
(* to its own.                                                             *)
(***************************************************************************)
LEMMA HeaderIsLine == Memory!Header \in Line /\ Memory!Header.by = 0 /\ Fits(Memory!Header)
BY DEF Memory!Header, Memory!Nothing, Line, Totals, Fits

LEMMA WideIs ==
  ASSUME MemoryInv
  PROVE  /\ Memory!Wide \in Table /\ Memory!Wide # <<>> /\ Memory!Wide[1].by = 0
         /\ DOMAIN Memory!Wide = 1..(Len(merged) + 1) /\ Len(merged) \in Nat
         /\ Tail(Memory!Wide) = merged
         /\ \A i \in DOMAIN Memory!Wide : Fits(Memory!Wide[i])
         /\ \A p \in Processes : Tell(p, merged) => Tell(p, Memory!Wide)
<1> DEFINE h == <<Memory!Header>>  w == Memory!Wide
<1>1. merged \in Seq(Line) /\ h \in Seq(Line) /\ Len(h) = 1 /\ h[1] = Memory!Header
  BY HeaderIsLine DEF MemoryInv, MemoryType, Table
<1>2. w = h \o merged
  BY DEF Memory!Wide
<1>. HIDE DEF h, w
<1>3. /\ w \in Seq(Line) /\ Len(merged) \in Nat /\ DOMAIN merged = 1..Len(merged)
      /\ DOMAIN w = 1..(1 + Len(merged)) /\ w[1] = Memory!Header
      /\ \A i \in 1..Len(merged) : w[1 + i] = merged[i]
      /\ Len(w) = 1 + Len(merged)
  <2> DEFINE m == merged
  <2>0. h \in Seq(Line) /\ m \in Seq(Line)
    BY <1>1
  <2>. HIDE DEF m
  <2>1. /\ h \o m \in Seq(Line)
        /\ Len(h) \in Nat /\ DOMAIN h = 1..Len(h)
        /\ Len(m) \in Nat /\ DOMAIN m = 1..Len(m)
        /\ DOMAIN (h \o m) = 1..(Len(h) + Len(m))
        /\ \A i \in 1..Len(h) : (h \o m)[i] = h[i]
        /\ \A i \in 1..Len(m) : (h \o m)[Len(h) + i] = m[i]
    BY <2>0, JoinedLines
  <2>. USE DEF m
  <2>2. w \in Seq(Line) /\ DOMAIN w = 1..(1 + Len(merged)) /\ w[1] = h[1]
    BY <1>1, <1>2, <2>1
  <2>3. \A i \in 1..Len(merged) : w[1 + i] = merged[i]
    BY <1>1, <1>2, <2>1
  <2>4. Len(w) = 1 + Len(merged)
    BY <2>1, <2>2, LenProperties
  <2>. QED  BY <1>1, <2>1, <2>2, <2>3, <2>4
<1>4. w # <<>>
  BY <1>3
<1>5. Tail(w) = merged
  BY <1>1, <1>3, <1>4
<1>6. \A i \in DOMAIN w : Fits(w[i])
  <2>. SUFFICES ASSUME NEW i \in DOMAIN w PROVE Fits(w[i])
    OBVIOUS
  <2>1. CASE i = 1
    BY <1>3, <2>1, HeaderIsLine
  <2>2. CASE i # 1
    <3>1. i - 1 \in 1..Len(merged) /\ 1 + (i - 1) = i
      BY <1>3, <2>2
    <3>2. w[i] = merged[i - 1] /\ i - 1 \in DOMAIN merged
      BY <1>3, <3>1
    <3>. QED  BY <3>2 DEF MemoryInv, LinesFit
  <2>. QED  BY <2>1, <2>2
<1>7. ASSUME NEW p \in Processes, Tell(p, merged)
      PROVE  Tell(p, w)
  <2>1. DOMAIN h = 1..1
    BY <1>1
  <2>2. \A i \in DOMAIN h : h[i].by # p
    BY <1>1, <2>1, HeaderIsLine, Processes0
  <2>3. appended[p] \in Nat
    BY DEF MemoryInv, MemoryType
  <2>. QED  BY <1>1, <1>2, <1>7, <2>2, <2>3, TellAfter DEF Tell, Table
<1>8. DOMAIN w = 1..(Len(merged) + 1)
  BY <1>3
<1>. QED  BY <1>3, <1>4, <1>5, <1>6, <1>7, <1>8, HeaderIsLine DEF w, Table

\* What is left of an analysis whose write of the root's file ended anywhere.
LEMMA RootWritten ==
  ASSUME MemoryInv, NEW lines \in Table, Headed(lines), \A i \in DOMAIN lines : Fits(lines[i]),
         csv' = [csv EXCEPT ![Memory!Root] = lines],
         UNCHANGED <<shared, workload, open, appended, counted>>, stage' # "workload"
  PROVE  /\ csv' \in [Processes \cup {Memory!Root} -> Table] /\ csv'[Memory!Root] = lines
         /\ Opened' /\ CsvFits' /\ OwnTell' /\ FilesApart'
<1>1. csv \in [Processes \cup {Memory!Root} -> Table] /\ Memory!Root = 0
  BY DEF MemoryInv, MemoryType, Memory!Root
<1>2. /\ csv' \in [Processes \cup {Memory!Root} -> Table] /\ csv'[Memory!Root] = lines
      /\ \A p \in Processes : csv'[p] = csv[p]
  BY <1>1, Processes0
<1>3. Opened'
  BY DEF MemoryInv, Opened
<1>4. CsvFits'
  <2>1. \A f \in DOMAIN csv' : \A i \in DOMAIN csv'[f] : Fits(csv'[f][i])
    BY <1>1, <1>2 DEF MemoryInv, LinesFit
  <2>. QED  BY <2>1 DEF CsvFits, Fits
<1>5. OwnTell'
  BY <1>2 DEF MemoryInv, FilesTell, OwnTell, Tell, TellRows
<1>6. FilesApart'
  <2>1. \A f \in DOMAIN csv' : Headed(csv'[f])
    BY <1>1, <1>2 DEF MemoryInv, FilesApart
  <2>2. \A f \in DOMAIN csv' : Headed(csv[f])'
    BY <2>1 DEF Headed
  <2>. QED  BY <1>2, <2>2 DEF MemoryInv, FilesApart
<1>. QED  BY <1>2, <1>3, <1>4, <1>5, <1>6

LEMMA WriteWideStep == ASSUME MemoryInv, Memory!WriteWide PROVE MemoryInv'
<1>1. /\ UNCHANGED <<shared, workload, open, appended, counted, todo, merged, status, cut>>
      /\ stage = "wide" /\ stage' = "long"
      /\ csv' = [csv EXCEPT ![Memory!Root] = Memory!Wide]
  BY DEF Memory!WriteWide, Memory!Go, Memory!written
<1>2. /\ csv' \in [Processes \cup {Memory!Root} -> Table] /\ csv'[Memory!Root] = Memory!Wide
      /\ Opened' /\ CsvFits' /\ OwnTell' /\ FilesApart'
  BY <1>1, WideIs, RootWritten DEF Headed
<1>3. MemoryType'
  BY <1>1, <1>2 DEF MemoryInv, MemoryType, Stages
<1>4. (\A i \in DOMAIN merged : Fits(merged[i]))' /\ Exact'
  BY <1>1, MergedKept
<1>5. RootTell'
  <2>. SUFFICES ASSUME ~cut', NEW p \in Claimed' PROVE Tell(p, csv[Memory!Root])'
    BY DEF RootTell
  <2>1. p \in Processes /\ Tell(p, merged)
    BY <1>1 DEF MemoryInv, MergedTell, Claimed
  <2>2. Tell(p, Memory!Wide)
    BY <2>1, WideIs
  <2>. QED  BY <1>1, <1>2, <2>2 DEF Tell
<1>6. MergedTell'
  <2>1. merged # <<>> /\ Memory!Wide' = Memory!Wide
    BY <1>1 DEF MemoryInv, MergedTell, Memory!Wide
  <2>. QED  BY <1>1, <1>2, <2>1 DEF MergedTell
<1>7. Done'
  BY <1>1 DEF MemoryInv, Done
<1>. QED  BY <1>2, <1>3, <1>4, <1>5, <1>6, <1>7
          DEF MemoryInv, LinesFit, FilesTell, CsvFits, OwnTell, RootTell

LEMMA WriteLongStep == ASSUME MemoryInv, Memory!WriteLong PROVE MemoryInv'
<1>1. /\ UNCHANGED <<shared, workload, open, appended, counted, csv, todo, merged, cut>>
      /\ stage = "long" /\ stage' = "end" /\ long' = merged /\ status' = "ok"
  BY DEF Memory!WriteLong, Memory!written
<1>2. MemoryType'
  BY <1>1 DEF MemoryInv, MemoryType, Stages
<1>3. Opened' /\ FilesApart' /\ CsvFits' /\ OwnTell'
  BY <1>1, ReadingKeeps
<1>4. (\A i \in DOMAIN merged : Fits(merged[i]))' /\ Exact'
  BY <1>1, MergedKept
<1>5. RootTell'
  BY <1>1, RootKept
<1>6. MergedTell'
  BY <1>1 DEF MergedTell
<1>7. Done'
  <2>1. merged # <<>> /\ csv[Memory!Root] = Memory!Wide /\ Memory!Wide' = Memory!Wide
    BY <1>1 DEF MemoryInv, MergedTell, Memory!Wide
  <2>. QED  BY <1>1, <2>1 DEF Done
<1>. QED  BY <1>2, <1>3, <1>4, <1>5, <1>6, <1>7
          DEF MemoryInv, LinesFit, FilesTell, CsvFits, OwnTell, RootTell

LEMMA WriteFailsStep == ASSUME MemoryInv, Memory!WriteFails PROVE MemoryInv'
<1>1. /\ UNCHANGED <<shared, workload, open, appended, counted, todo, merged>>
      /\ stage \in {"wide", "long"} /\ stage' = "end" /\ status' = "failed"
  BY DEF Memory!WriteFails, Memory!Go, Memory!written
<1>2. (\A i \in DOMAIN merged : Fits(merged[i]))' /\ Exact'
  BY <1>1, MergedKept
<1>3. MergedTell' /\ Done'
  BY <1>1 DEF MergedTell, Done
<1>4. CASE stage = "long"
  <2>1. csv' = csv /\ cut' = cut
    BY <1>4 DEF Memory!WriteFails
  <2>2. MemoryType'
    BY <1>1, <2>1 DEF MemoryInv, MemoryType, Stages
  <2>3. Opened' /\ FilesApart' /\ CsvFits' /\ OwnTell'
    BY <1>1, <2>1, ReadingKeeps
  <2>4. RootTell'
    BY <1>1, <2>1, RootKept
  <2>. QED  BY <1>2, <1>3, <2>2, <2>3, <2>4
            DEF MemoryInv, LinesFit, FilesTell, CsvFits, OwnTell, RootTell
<1>5. CASE stage = "wide"
  <2>1. PICK n \in 0..Len(merged) :
          cut' = TRUE /\ csv' = [csv EXCEPT ![Memory!Root] = SubSeq(Memory!Wide, 1, n)]
    BY <1>5 DEF Memory!WriteFails
  <2> DEFINE w == Memory!Wide  lines == SubSeq(w, 1, n)
  <2>2. /\ w \in Table /\ w[1].by = 0 /\ Len(merged) \in Nat
        /\ DOMAIN w = 1..(Len(merged) + 1) /\ \A i \in DOMAIN w : Fits(w[i])
    BY WideIs
  <2>. HIDE DEF w
  <2>3. /\ lines \in Table /\ DOMAIN lines = 1..n /\ \A i \in 1..n : lines[i] = w[i]
    <3>1. Len(w) = Len(merged) + 1 /\ n \in Nat
      BY <2>2, LenProperties DEF Table
    <3>2. \A i \in 1..n : w[i] \in Line
      BY <2>2, <3>1, TableLines
    <3>. QED  BY <2>2, <3>1, <3>2 DEF Table
  <2>. HIDE DEF lines
  <2>4. \A i \in DOMAIN lines : Fits(lines[i])
    BY <2>2, <2>3
  <2>5. Headed(lines)
    <3>1. CASE n = 0
      <4>1. DOMAIN lines = {}
        BY <2>3, <3>1
      <4>2. lines = <<>>
        <5>1. Len(lines) = 0
          BY <2>3, <4>1, LenProperties DEF Table
        <5>. QED  BY <2>3, <5>1, EmptySeq DEF Table
      <4>. QED  BY <4>2 DEF Headed
    <3>2. CASE n # 0
      BY <2>2, <2>3, <3>2 DEF Headed
    <3>. QED  BY <3>1, <3>2
  <2>6. /\ csv' \in [Processes \cup {Memory!Root} -> Table]
        /\ Opened' /\ CsvFits' /\ OwnTell' /\ FilesApart'
    <3>1. csv' = [csv EXCEPT ![Memory!Root] = lines]
      BY <2>1 DEF lines, w
    <3>. QED  BY <1>1, <2>3, <2>4, <2>5, <3>1, RootWritten
  <2>7. MemoryType'
    BY <1>1, <2>1, <2>6 DEF MemoryInv, MemoryType, Stages
  <2>8. RootTell'
    BY <2>1 DEF RootTell
  <2>. QED  BY <1>2, <1>3, <2>6, <2>7, <2>8
            DEF MemoryInv, LinesFit, FilesTell, CsvFits, OwnTell, RootTell
<1>. QED  BY <1>1, <1>4, <1>5

LEMMA ReuseStep == ASSUME MemoryInv, Memory!Reuse PROVE MemoryInv'
<1>1. /\ UNCHANGED <<shared, open, appended, counted, csv, todo, merged, cut, status>>
      /\ stage = "end" /\ stage' = "workload" /\ workload' = workload + 1
  BY DEF Memory!Reuse, Memory!written
<1>2. workload \in Nat \ {0} /\ workload' \in Nat \ {0, 1}
  BY <1>1 DEF MemoryInv, MemoryType
<1>3. MemoryType'
  BY <1>1, <1>2 DEF MemoryInv, MemoryType, Stages
<1>4. Opened'
  <2>1. \A p \in Processes : WorkloadOf[p] \in Nat
    BY MergeAssumption DEF Memory!MergeConstants
  <2>2. \A p \in Processes : WorkloadOf[p] >= workload' => open[p] = "closed"
    BY <1>1, <1>2, <2>1 DEF MemoryInv, Opened
  <2>. QED  BY <1>1, <1>2, <2>1, <2>2 DEF MemoryInv, Opened
<1>5. LinesFit'
  BY <1>1, <1>2 DEF MemoryInv, LinesFit, Fits
<1>6. FilesApart'
  BY <1>1, <1>2 DEF MemoryInv, FilesApart, Headed
<1>7. FilesTell'
  BY <1>1 DEF MemoryInv, FilesTell, Tell, TellRows, Claimed, Memory!DataRows
<1>8. MergedTell' /\ Exact' /\ Done'
  BY <1>1, <1>2 DEF MemoryInv, MergedTell, Exact, Done
<1>. QED  BY <1>3, <1>4, <1>5, <1>6, <1>7, <1>8 DEF MemoryInv

\* A process appends a line to its file.
LEMMA FileTyped ==
  ASSUME MemoryInv, NEW p \in Processes
  PROVE  /\ Memory!FileOf(p) \in DOMAIN csv /\ csv[Memory!FileOf(p)] \in Table
         /\ Memory!FileOf(p) = IF shared THEN Memory!Root ELSE p
         /\ p # Memory!Root
BY Processes0 DEF MemoryInv, MemoryType, Memory!FileOf, Memory!Root

LEMMA OpenStep ==
  ASSUME MemoryInv, NEW p \in Processes, Memory!OpenCsv(p),
         UNCHANGED <<shared, workload, long, analyses, stage, todo, merged, status, cut, finished>>
  PROVE  MemoryInv'
<1>1. /\ UNCHANGED <<csv, appended, counted>>
      /\ stage = "workload" /\ WorkloadOf[p] = workload
      /\ open' = [open EXCEPT ![p] = IF csv[Memory!FileOf(p)] = <<>> THEN "header" ELSE "open"]
  BY DEF Memory!OpenCsv, Memory!Runs
<1>2. MemoryType'
  BY <1>1 DEF MemoryInv, MemoryType
<1>3. Opened'
  <2>1. workload \in Nat /\ open \in [Processes -> {"closed", "header", "open"}]
    BY DEF MemoryInv, MemoryType
  <2>2. \A q \in Processes : open'[q] = IF q = p THEN IF csv[Memory!FileOf(p)] = <<>>
                                                      THEN "header" ELSE "open"
                                        ELSE open[q]
    BY <1>1, <2>1
  <2>. QED  BY <1>1, <2>1, <2>2 DEF MemoryInv, Opened, Memory!FileOf
<1>4. LinesFit'
  BY <1>1 DEF MemoryInv, LinesFit, Fits
<1>5. FilesApart'
  BY <1>1 DEF MemoryInv, FilesApart, Headed
<1>6. FilesTell'
  BY <1>1 DEF MemoryInv, FilesTell, Tell, TellRows, Claimed, Memory!DataRows
<1>7. MergedTell' /\ Exact' /\ Done'
  BY <1>1 DEF MemoryInv, MergedTell, Exact, Done, Memory!Total
<1>. QED  BY <1>2, <1>3, <1>4, <1>5, <1>6, <1>7 DEF MemoryInv

LEMMA LineAppended ==
  ASSUME MemoryInv, NEW p \in Processes, NEW x \in Line,
         csv' = [csv EXCEPT ![Memory!FileOf(p)] = Append(@, x)]
  PROVE  /\ csv' \in [Processes \cup {Memory!Root} -> Table]
         /\ csv'[Memory!FileOf(p)] = Append(csv[Memory!FileOf(p)], x)
         /\ csv'[Memory!FileOf(p)] # <<>>
         /\ \A f \in DOMAIN csv : f # Memory!FileOf(p) => csv'[f] = csv[f]
         /\ \A f \in DOMAIN csv : \A i \in DOMAIN csv'[f] :
              \/ i \in DOMAIN csv[f] /\ csv'[f][i] = csv[f][i]
              \/ f = Memory!FileOf(p) /\ csv'[f][i] = x
<1> DEFINE F == Memory!FileOf(p)  a == csv[F]
<1>1. F \in DOMAIN csv /\ a \in Seq(Line)
  BY FileTyped DEF Table
<1>2. csv \in [Processes \cup {Memory!Root} -> Table]
  BY DEF MemoryInv, MemoryType
<1>3. csv' = [csv EXCEPT ![F] = Append(a, x)]
  OBVIOUS
<1>. HIDE DEF F, a
<1>4. /\ Append(a, x) \in Seq(Line) /\ Append(a, x) # <<>>
      /\ Len(a) \in Nat /\ DOMAIN a = 1..Len(a)
      /\ DOMAIN Append(a, x) = 1..(Len(a) + 1)
      /\ \A i \in 1..Len(a) : Append(a, x)[i] = a[i]
      /\ Append(a, x)[Len(a) + 1] = x
  BY <1>1, AppendedLine
<1>5. \A i \in DOMAIN Append(a, x) :
        (i \in DOMAIN a /\ Append(a, x)[i] = a[i]) \/ Append(a, x)[i] = x
  BY <1>4
<1>6. csv' \in [Processes \cup {Memory!Root} -> Table] /\ csv'[F] = Append(a, x)
  BY <1>1, <1>2, <1>3, <1>4 DEF Table
<1>7. \A f \in DOMAIN csv : f # F => csv'[f] = csv[f]
  BY <1>2, <1>3
<1>8. a = csv[F]
  BY DEF a
<1>. QED  BY <1>1, <1>4, <1>5, <1>6, <1>7, <1>8 DEF F

\* A file whose first line is a header keeps it.
LEMMA FirstLine ==
  ASSUME NEW a \in Table, NEW x \in Line, Headed(a), a = <<>> => x.by = 0
  PROVE  Headed(Append(a, x))
<1>1. /\ Len(a) \in Nat /\ \A i \in 1..Len(a) : Append(a, x)[i] = a[i]
      /\ Append(a, x)[Len(a) + 1] = x
  BY AppendedLine DEF Table
<1>2. CASE a = <<>>
  BY <1>1, <1>2 DEF Headed
<1>3. CASE a # <<>>
  <2>1. Len(a) \in Nat \ {0}
    BY <1>3, EmptySeq DEF Table
  <2>. QED  BY <1>1, <1>3, <2>1 DEF Headed
<1>. QED  BY <1>2, <1>3

\* Who is through with its header finds its file with lines, whoever wrote.
LEMMA OpenedByLine ==
  ASSUME MemoryInv, NEW p \in Processes, NEW x \in Line, stage = "workload",
         WorkloadOf[p] = workload, open[p] # "closed",
         csv' = [csv EXCEPT ![Memory!FileOf(p)] = Append(@, x)],
         open' = [open EXCEPT ![p] = "open"],
         \A q \in Processes \ {p} : appended'[q] = appended[q] /\ counted'[q] = counted[q],
         UNCHANGED <<shared, workload, stage>>
  PROVE  Opened'
<1>1. workload \in Nat /\ open \in [Processes -> {"closed", "header", "open"}]
  BY DEF MemoryInv, MemoryType
<1>2. \A f \in DOMAIN csv : csv[f] # <<>> => csv'[f] # <<>>
  BY LineAppended
<1>3. \A q \in Processes : Memory!FileOf(q) \in DOMAIN csv /\ Memory!FileOf(q)' = Memory!FileOf(q)
  BY FileTyped DEF Memory!FileOf
<1>4. csv'[Memory!FileOf(p)] # <<>>
  BY LineAppended
<1>5. ASSUME NEW q \in Processes
      PROVE  /\ open'[q] = "closed" => appended'[q] = 0 /\ counted'[q] = {}
             /\ WorkloadOf[q] > workload => open'[q] = "closed"
             /\ WorkloadOf[q] = workload /\ open'[q] = "open" => csv'[Memory!FileOf(q)] # <<>>
  <2>1. CASE q = p
    BY <1>1, <1>4, <2>1
  <2>2. CASE q # p
    <3>1. open'[q] = open[q] /\ appended'[q] = appended[q] /\ counted'[q] = counted[q]
      BY <1>1, <2>2
    <3>. QED  BY <1>2, <1>3, <3>1 DEF MemoryInv, Opened
  <2>. QED  BY <2>1, <2>2
<1>. QED  BY <1>3, <1>5 DEF Opened

LEMMA HeaderStep ==
  ASSUME MemoryInv, NEW p \in Processes, Memory!WriteHeader(p),
         UNCHANGED <<shared, workload, long, analyses, stage, todo, merged, status, cut, finished>>
  PROVE  MemoryInv'
<1> DEFINE x == Memory!Header  F == Memory!FileOf(p)
<1>1. /\ UNCHANGED <<appended, counted>>
      /\ stage = "workload" /\ WorkloadOf[p] = workload /\ open[p] = "header"
      /\ open' = [open EXCEPT ![p] = "open"]
      /\ csv' = [csv EXCEPT ![Memory!FileOf(p)] = Append(@, x)]
  BY DEF Memory!WriteHeader, Memory!Runs
<1>2. x \in Line /\ x.by = 0 /\ Fits(x)
  BY HeaderIsLine
<1>3. /\ csv' \in [Processes \cup {Memory!Root} -> Table]
      /\ csv'[F] = Append(csv[F], x)
      /\ csv'[F] # <<>>
      /\ \A f \in DOMAIN csv : f # F => csv'[f] = csv[f]
      /\ \A f \in DOMAIN csv : \A i \in DOMAIN csv'[f] :
           \/ i \in DOMAIN csv[f] /\ csv'[f][i] = csv[f][i]
           \/ f = F /\ csv'[f][i] = x
  <2>1. csv' = [csv EXCEPT ![Memory!FileOf(p)] = Append(@, x)] /\ x \in Line
    BY <1>1, <1>2
  <2>. HIDE DEF x
  <2>2. QED  BY <2>1, LineAppended
<1>4. /\ F \in DOMAIN csv /\ csv[F] \in Table /\ F = (IF shared THEN Memory!Root ELSE p)
      /\ p # Memory!Root /\ DOMAIN csv = Processes \cup {Memory!Root} /\ DOMAIN csv' = DOMAIN csv
  BY <1>3, FileTyped DEF MemoryInv, MemoryType
<1>. HIDE DEF x, F
<1>5. MemoryType'
  BY <1>1, <1>3 DEF MemoryInv, MemoryType
<1>6. Opened'
  BY <1>1, <1>2, OpenedByLine
<1>7. LinesFit'
  <2>1. \A f \in DOMAIN csv' : \A i \in DOMAIN csv'[f] : Fits(csv'[f][i])
    BY <1>2, <1>3, <1>4 DEF MemoryInv, LinesFit
  <2>. QED  BY <1>1, <2>1 DEF MemoryInv, LinesFit, Fits
<1>8. FilesApart'
  <2>1. ASSUME NEW f \in DOMAIN csv'
        PROVE  Headed(csv'[f])
    BY <1>2, <1>3, <1>4, <2>1, FirstLine DEF MemoryInv, FilesApart
  <2>2. shared => \A q \in Processes : csv'[q] = <<>>
    BY <1>3, <1>4, Processes0 DEF MemoryInv, FilesApart, Memory!Root
  <2>3. ~shared => \A q \in Processes : \A i \in DOMAIN csv'[q] : csv'[q][i].by \in {0, q}
    BY <1>2, <1>3, <1>4 DEF MemoryInv, FilesApart
  <2>4. ~shared => csv'[Memory!Root] = csv[Memory!Root]
    BY <1>3, <1>4
  <2>5. \A f \in DOMAIN csv' : Headed(csv[f])'
    BY <2>1 DEF Headed
  <2>. QED  BY <1>1, <2>2, <2>3, <2>4, <2>5 DEF MemoryInv, FilesApart
<1>9. \A q \in Processes : Tell(q, csv[F]) => Tell(q, csv'[F])
  <2>. SUFFICES ASSUME NEW q \in Processes, Tell(q, csv[F]) PROVE Tell(q, csv'[F])
    OBVIOUS
  <2>1. appended[q] \in Nat /\ x.by # q
    BY <1>2, Processes0 DEF MemoryInv, MemoryType
  <2>. QED  BY <1>2, <1>3, <1>4, <2>1, TellOther DEF Tell
<1>10. FilesTell'
  <2>1. ~shared => \A q \in Processes : Tell(q, csv'[q])
    BY <1>3, <1>4, <1>9 DEF MemoryInv, FilesTell
  <2>2. ASSUME ~cut, shared \/ Memory!DataRows(Memory!Root)' # <<>>, NEW q \in Claimed
        PROVE  Tell(q, csv'[Memory!Root])
    <3>1. q \in Processes
      BY DEF Claimed
    <3>2. CASE shared
      BY <1>4, <1>9, <2>2, <3>1, <3>2 DEF MemoryInv, FilesTell
    <3>3. CASE ~shared
      <4>1. csv'[Memory!Root] = csv[Memory!Root]
        BY <1>3, <1>4, <3>3
      <4>2. Memory!DataRows(Memory!Root) # <<>>
        BY <2>2, <3>3, <4>1 DEF Memory!DataRows
      <4>. QED  BY <2>2, <4>1, <4>2 DEF MemoryInv, FilesTell
    <3>. QED  BY <3>2, <3>3
  <2>4. /\ \A q \in Processes : Tell(q, csv'[q]) => Tell(q, csv[q])'
        /\ \A q \in Processes : Tell(q, csv'[Memory!Root]) => Tell(q, csv[Memory!Root])'
    BY <1>1 DEF Tell
  <2>5. Claimed' = Claimed
    BY DEF Claimed
  <2>. QED  BY <2>1, <2>2, <2>4, <2>5 DEF FilesTell, Claimed
<1>11. MergedTell' /\ Exact' /\ Done'
  BY <1>1 DEF MemoryInv, MergedTell, Exact, Done, Memory!Total
<1>. QED  BY <1>5, <1>6, <1>7, <1>8, <1>10, <1>11 DEF MemoryInv

LEMMA RowStep ==
  ASSUME MemoryInv, NEW p \in Processes, Memory!WriteRow(p),
         UNCHANGED <<shared, workload, long, analyses, stage, todo, merged, status, cut, finished>>
  PROVE  MemoryInv'
<1> DEFINE F == Memory!FileOf(p)  n == appended[p]
<1>1. /\ stage = "workload" /\ WorkloadOf[p] = workload /\ open[p] = "open" /\ open' = open
      /\ appended' = [appended EXCEPT ![p] = @ + 1]
  BY DEF Memory!WriteRow, Memory!Runs
<1>2. PICK timed \in BOOLEAN, kept \in BOOLEAN :
        /\ csv' = [csv EXCEPT ![Memory!FileOf(p)] =
                     Append(@, [Memory!Header EXCEPT !.by = p, !.launch = appended[p],
                                                     !.timed = timed])]
        /\ counted' = [counted EXCEPT ![p] = IF kept THEN @ \cup {appended[p]} ELSE @]
  BY DEF Memory!WriteRow
<1> DEFINE x == [Memory!Header EXCEPT !.by = p, !.launch = appended[p], !.timed = timed]
<1>3. /\ appended \in [Processes -> Nat] /\ counted \in [Processes -> SUBSET Nat]
      /\ open \in [Processes -> {"closed", "header", "open"}] /\ n \in Nat
  BY DEF MemoryInv, MemoryType
<1>4. /\ x \in Line /\ x.by = p /\ x.launch = n /\ x.bytes = {} /\ x.rate = {}
  <2> DEFINE h == Memory!Header
  <2>1. h \in Line /\ h.bytes = {} /\ h.rate = {}
    BY HeaderIsLine DEF Memory!Header, Memory!Nothing
  <2>2. x = [h EXCEPT !.by = p, !.launch = n, !.timed = timed]
    OBVIOUS
  <2>. HIDE DEF h, x, n
  <2>3. x \in Line /\ x.by = p /\ x.launch = n /\ x.bytes = h.bytes /\ x.rate = h.rate
    BY <1>3, <2>1, <2>2 DEF Line
  <2>. QED  BY <2>1, <2>3
<1>5. csv' = [csv EXCEPT ![Memory!FileOf(p)] = Append(@, x)]
  BY <1>2
<1>. HIDE DEF x
<1>6. /\ csv' \in [Processes \cup {Memory!Root} -> Table]
      /\ csv'[F] = Append(csv[F], x)
      /\ csv'[F] # <<>>
      /\ \A f \in DOMAIN csv : f # F => csv'[f] = csv[f]
      /\ \A f \in DOMAIN csv : \A i \in DOMAIN csv'[f] :
           \/ i \in DOMAIN csv[f] /\ csv'[f][i] = csv[f][i]
           \/ f = F /\ csv'[f][i] = x
  <2>1. x \in Line
    BY <1>4
  <2>. QED  BY <1>5, <2>1, LineAppended
<1>7. /\ F \in DOMAIN csv /\ csv[F] \in Table /\ F = (IF shared THEN Memory!Root ELSE p)
      /\ p # Memory!Root /\ DOMAIN csv = Processes \cup {Memory!Root} /\ DOMAIN csv' = DOMAIN csv
  BY <1>6, FileTyped DEF MemoryInv, MemoryType
<1>8. csv[F] # <<>>
  BY <1>1 DEF MemoryInv, Opened
<1>. HIDE DEF F
<1>9. /\ appended' \in [Processes -> Nat] /\ counted' \in [Processes -> SUBSET Nat]
      /\ appended'[p] = n + 1
      /\ \A q \in Processes : appended[q] <= appended'[q] /\ counted[q] \subseteq counted'[q]
      /\ \A q \in Processes \ {p} : appended'[q] = appended[q] /\ counted'[q] = counted[q]
  <2>1. appended' \in [Processes -> Nat] /\ appended'[p] = n + 1
    BY <1>1, <1>3
  <2>2. \A q \in Processes \ {p} : appended'[q] = appended[q] /\ counted'[q] = counted[q]
    BY <1>1, <1>2, <1>3
  <2>3. counted' \in [Processes -> SUBSET Nat] /\ counted[p] \subseteq counted'[p]
    BY <1>2, <1>3
  <2>. QED  BY <1>3, <2>1, <2>2, <2>3
<1>10. MemoryType'
  BY <1>1, <1>6, <1>9 DEF MemoryInv, MemoryType
<1>11. Opened'
  <2>1. open[p] # "closed" /\ open' = [open EXCEPT ![p] = "open"]
    BY <1>1, <1>3
  <2>. QED  BY <1>1, <1>4, <1>5, <1>9, <2>1, OpenedByLine
<1> DEFINE FitsLater(line) ==
  line.by # 0 =>
    /\ line.launch < appended'[line.by]
    /\ \A b \in line.bytes : /\ RankOf[b[1]] = RankOf[line.by]
                             /\ b[2] = line.launch /\ b[2] \in counted'[b[1]]
                             /\ workload = 1 => b[1] = line.by
    /\ line.rate # {} => line.timed /\ line.rate = line.bytes
<1>12. ASSUME NEW line \in Line, Fits(line)
       PROVE  FitsLater(line)
  <2>. SUFFICES ASSUME line.by # 0
                PROVE  /\ line.launch < appended'[line.by]
                       /\ \A b \in line.bytes : /\ RankOf[b[1]] = RankOf[line.by]
                                                /\ b[2] = line.launch /\ b[2] \in counted'[b[1]]
                                                /\ workload = 1 => b[1] = line.by
                       /\ line.rate # {} => line.timed /\ line.rate = line.bytes
    OBVIOUS
  <2>1. line.by \in Processes /\ line.launch \in Nat /\ \A b \in line.bytes : b[1] \in Processes
    BY DEF Line, Totals
  <2>2. line.launch < appended'[line.by]
    <3>1. line.launch < appended[line.by]
      BY <1>12 DEF Fits
    <3>2. /\ appended[line.by] \in Nat /\ appended'[line.by] \in Nat
          /\ appended[line.by] <= appended'[line.by]
      BY <1>3, <1>9, <2>1
    <3>. QED  BY <2>1, <3>1, <3>2
  <2>3. ASSUME NEW b \in line.bytes
        PROVE  /\ RankOf[b[1]] = RankOf[line.by]
               /\ b[2] = line.launch /\ b[2] \in counted'[b[1]]
               /\ workload = 1 => b[1] = line.by
    <3>1. /\ RankOf[b[1]] = RankOf[line.by] /\ b[2] = line.launch /\ b[2] \in counted[b[1]]
          /\ workload = 1 => b[1] = line.by
      BY <1>12, <2>3 DEF Fits
    <3>. QED  BY <1>9, <2>1, <3>1
  <2>4. line.rate # {} => line.timed /\ line.rate = line.bytes
    BY <1>12 DEF Fits
  <2>. QED  BY <2>2, <2>3, <2>4
<1>13. FitsLater(x)
  BY <1>4, <1>3, <1>9
<1>14. LinesFit'
  <2>1. ASSUME NEW f \in DOMAIN csv', NEW i \in DOMAIN csv'[f]
        PROVE  FitsLater(csv'[f][i])
    <3>. HIDE DEF FitsLater
    <3>1. CASE i \in DOMAIN csv[f] /\ csv'[f][i] = csv[f][i]
      <4>1. csv[f][i] \in Line /\ Fits(csv[f][i])
        BY <1>7, <3>1, TableLines DEF MemoryInv, MemoryType, LinesFit
      <4>. QED  BY <1>12, <4>1, <3>1
    <3>2. CASE csv'[f][i] = x
      BY <1>13, <3>2
    <3>. QED  BY <1>6, <1>7, <3>1, <3>2
  <2>2. \A i \in DOMAIN merged : FitsLater(merged[i])
    <3>. HIDE DEF FitsLater
    <3>. QED  BY <1>12, TableLines DEF MemoryInv, MemoryType, LinesFit
  <2>. QED  BY <2>1, <2>2 DEF LinesFit, Fits
<1>. HIDE DEF FitsLater
<1>15. FilesApart'
  <2>1. ASSUME NEW f \in DOMAIN csv'
        PROVE  Headed(csv'[f])
    <3>1. Headed(csv[f])
      BY <1>7 DEF MemoryInv, FilesApart
    <3>2. CASE f = F
      <4>1. Headed(Append(csv[F], x))
        BY <1>4, <1>7, <1>8, <3>1, <3>2, FirstLine
      <4>. QED  BY <1>6, <3>2, <4>1
    <3>3. CASE f # F
      BY <1>6, <1>7, <3>1, <3>3
    <3>. QED  BY <3>2, <3>3
  <2>2. shared => \A q \in Processes : csv'[q] = <<>>
    BY <1>6, <1>7, Processes0 DEF MemoryInv, FilesApart, Memory!Root
  <2>3. ~shared => \A q \in Processes : \A i \in DOMAIN csv'[q] : csv'[q][i].by \in {0, q}
    BY <1>4, <1>6, <1>7 DEF MemoryInv, FilesApart
  <2>4. ~shared => csv'[Memory!Root] = csv[Memory!Root]
    BY <1>6, <1>7
  <2>5. \A f \in DOMAIN csv' : Headed(csv[f])'
    BY <2>1 DEF Headed
  <2>. QED  BY <1>1, <2>2, <2>3, <2>4, <2>5 DEF MemoryInv, FilesApart
<1>16. ASSUME NEW q \in Processes, Tell(q, csv[F])
       PROVE  TellRows(q, appended'[q], csv'[F])
  <2>1. CASE q = p
    BY <1>3, <1>4, <1>6, <1>7, <1>9, <1>16, <2>1, TellOwn DEF Tell
  <2>2. CASE q # p
    <3>1. appended[q] \in Nat /\ appended'[q] = appended[q] /\ x.by # q
      BY <1>3, <1>4, <1>9, <2>2
    <3>. QED  BY <1>4, <1>6, <1>7, <1>16, <3>1, TellOther DEF Tell
  <2>. QED  BY <2>1, <2>2
<1>17. FilesTell'
  <2>1. ASSUME ~shared, NEW q \in Processes
        PROVE  TellRows(q, appended'[q], csv'[q])
    <3>1. Tell(q, csv[q]) /\ F = p
      BY <1>7, <2>1 DEF MemoryInv, FilesTell
    <3>2. CASE q = p
      BY <1>16, <3>1, <3>2
    <3>3. CASE q # p
      BY <1>6, <1>7, <1>9, <3>1, <3>3 DEF Tell
    <3>. QED  BY <3>2, <3>3
  <2>2. ASSUME ~cut, shared \/ Memory!DataRows(Memory!Root)' # <<>>, NEW q \in Claimed
        PROVE  TellRows(q, appended'[q], csv'[Memory!Root])
    <3>1. q \in Processes
      BY DEF Claimed
    <3>2. CASE shared
      BY <1>7, <1>16, <2>2, <3>1, <3>2 DEF MemoryInv, FilesTell
    <3>3. CASE ~shared
      <4>1. csv'[Memory!Root] = csv[Memory!Root]
        BY <1>6, <1>7, <3>3
      <4>2. Memory!DataRows(Memory!Root) # <<>>
        BY <2>2, <3>3, <4>1 DEF Memory!DataRows
      <4>3. Tell(q, csv[Memory!Root])
        BY <2>2, <4>2 DEF MemoryInv, FilesTell
      <4>4. q # p
        <5>1. csv[Memory!Root] # <<>>
          BY <4>2 DEF Memory!DataRows
        <5>2. workload # 1
          BY <1>1, <3>3, <5>1 DEF MemoryInv, FilesApart
        <5>. QED  BY <1>1, <2>2, <3>3, <5>2 DEF Claimed
      <4>. QED  BY <1>9, <3>1, <4>1, <4>3, <4>4 DEF Tell
    <3>. QED  BY <3>2, <3>3
  <2>3. Claimed' = Claimed
    BY DEF Claimed
  <2>. QED  BY <2>1, <2>2, <2>3 DEF FilesTell, Tell
<1>18. MergedTell' /\ Exact' /\ Done'
  <2>1. workload = 1 => merged = <<>>
    BY <1>1 DEF MemoryInv, FilesApart
  <2>2. DOMAIN <<>> = {}
    OBVIOUS
  <2>3. Exact'
    BY <2>1, <2>2 DEF Exact
  <2>. QED  BY <1>1, <2>3 DEF MemoryInv, MergedTell, Done
<1>. QED  BY <1>10, <1>11, <1>14, <1>15, <1>17, <1>18 DEF MemoryInv

LEMMA MemoryInitial == Memory!MergeInit => MemoryInv
<1>. SUFFICES ASSUME Memory!MergeInit PROVE MemoryInv
  OBVIOUS
<1>1. /\ shared \in BOOLEAN /\ workload = 1 /\ stage = "workload" /\ todo = {} /\ merged = <<>>
      /\ status = "none" /\ cut = FALSE
      /\ open = [p \in Processes |-> "closed"] /\ appended = [p \in Processes |-> 0]
      /\ counted = [p \in Processes |-> {}]
      /\ csv = [f \in Processes \cup {Memory!Root} |-> <<>>]
  BY DEF Memory!MergeInit
<1>2. <<>> \in Table /\ DOMAIN <<>> = {}
  BY DEF Table
<1>3. MemoryType
  <2>1. csv \in [Processes \cup {Memory!Root} -> Table]
    BY <1>1, <1>2
  <2>2. /\ open \in [Processes -> {"closed", "header", "open"}]
        /\ appended \in [Processes -> Nat] /\ counted \in [Processes -> SUBSET Nat]
    BY <1>1
  <2>3. shared \in BOOLEAN /\ cut \in BOOLEAN
    BY <1>1
  <2>4. workload \in Nat \ {0} /\ stage \in Stages /\ todo \in SUBSET Processes
    BY <1>1 DEF Stages
  <2>5. merged \in Table
    BY <1>1, <1>2
  <2>. QED  BY <2>1, <2>2, <2>3, <2>4, <2>5 DEF MemoryType
<1>4. Opened
  BY <1>1 DEF Opened
<1>5. LinesFit
  BY <1>1, <1>2 DEF LinesFit
<1>6. FilesApart
  <2>1. \A f \in DOMAIN csv : csv[f] = <<>>
    BY <1>1
  <2>2. Memory!Root \in DOMAIN csv /\ Processes \subseteq DOMAIN csv
    BY <1>1
  <2>. QED  BY <1>1, <1>2, <2>1, <2>2 DEF FilesApart, Headed
<1>7. FilesTell
  <2>1. \A p \in Processes : TellRows(p, 0, <<>>)
    BY TellNone
  <2>. QED  BY <1>1, <2>1 DEF FilesTell, Tell, Claimed
<1>8. MergedTell /\ Exact /\ Done
  BY <1>1, <1>2 DEF MergedTell, Exact, Done
<1>. QED  BY <1>3, <1>4, <1>5, <1>6, <1>7, <1>8 DEF MemoryInv

LEMMA MemoryIdle ==
  ASSUME MemoryInv, UNCHANGED memoryFiles
  PROVE  MemoryInv'
<1>1. UNCHANGED <<shared, workload, open, appended, counted, csv, long, stage, todo, merged,
                  status, cut>>
  BY DEF memoryFiles
<1>2. MemoryType' /\ Opened'
  BY <1>1 DEF MemoryInv, MemoryType, Opened, Memory!FileOf
<1>3. LinesFit' /\ FilesApart'
  BY <1>1 DEF MemoryInv, LinesFit, Fits, FilesApart, Headed
<1>4. FilesTell'
  BY <1>1 DEF MemoryInv, FilesTell, Tell, TellRows, Claimed, Memory!DataRows
<1>5. MergedTell'
  BY <1>1 DEF MemoryInv, MergedTell, Tell, TellRows, Claimed, Memory!DataRows, Memory!Wide
<1>6. Exact' /\ Done'
  BY <1>1 DEF MemoryInv, Exact, Done, Memory!Total, Memory!Wide
<1>. QED  BY <1>2, <1>3, <1>4, <1>5, <1>6 DEF MemoryInv

LEMMA MemoryStep == ASSUME MemoryInv, Memory!MergeNext PROVE MemoryInv'
<1>1. CASE Memory!Profile
  <2>1. UNCHANGED <<shared, workload, long, analyses, stage, todo, merged, status, cut, finished>>
    BY <1>1 DEF Memory!Profile
  <2>2. PICK p \in Processes : Memory!OpenCsv(p) \/ Memory!WriteHeader(p) \/ Memory!WriteRow(p)
    BY <1>1 DEF Memory!Profile
  <2>. QED  BY <2>1, <2>2, OpenStep, HeaderStep, RowStep
<1>2. CASE Memory!Analyze
  BY <1>2, AnalyzeStep
<1>3. CASE Memory!Refuse
  BY <1>3, RefuseStep
<1>4. CASE Memory!ReadRoot
  BY <1>4, ReadRootStep
<1>5. CASE Memory!FindNoRows
  BY <1>5, FindNoRowsStep
<1>6. ASSUME NEW p \in Processes, Memory!ReadDirectory(p) PROVE MemoryInv'
  BY <1>6, ReadDirectoryStep
<1>7. CASE Memory!ReadAll
  BY <1>7, ReadAllStep
<1>8. CASE Memory!WriteWide
  BY <1>8, WriteWideStep
<1>9. CASE Memory!WriteLong
  BY <1>9, WriteLongStep
<1>10. CASE Memory!WriteFails
  BY <1>10, WriteFailsStep
<1>11. CASE Memory!Reuse
  BY <1>11, ReuseStep
<1>. QED
  BY <1>1, <1>2, <1>3, <1>4, <1>5, <1>6, <1>7, <1>8, <1>9, <1>10, <1>11 DEF Memory!MergeNext

(***************************************************************************)
(* The inductive invariant of the CSV files: whoever appends, whatever the *)
(* stage of the analysis, and wherever a write of it failed.               *)
(***************************************************************************)
THEOREM MemoryInductive == AnalyzeSpec => []MemoryInv
<1>1. AnalyzeInit => MemoryInv
  BY MemoryInitial DEF AnalyzeInit
<1>2. MemoryInv /\ [AnalyzeNext]_analyzeVars => MemoryInv'
  <2>. SUFFICES ASSUME MemoryInv, [AnalyzeNext]_analyzeVars PROVE MemoryInv'
    OBVIOUS
  <2>1. CASE LatencyRun
    BY <2>1, MemoryIdle DEF LatencyRun
  <2>2. CASE MemoryRun
    BY <2>2, MemoryStep DEF MemoryRun
  <2>3. CASE ThroughputRun
    BY <2>3, MemoryIdle DEF ThroughputRun
  <2>4. CASE UNCHANGED analyzeVars
    BY <2>4, MemoryIdle DEF analyzeVars
  <2>. QED  BY <2>1, <2>2, <2>3, <2>4 DEF AnalyzeNext
<1>. QED  BY <1>1, <1>2, PTL DEF AnalyzeSpec

(***************************************************************************)
(* memory.py: whatever analyses failed or were repeated, a row of a CSV    *)
(* file has bytes only of its own launch, of a process of its own rank,    *)
(* its own unless the trace root was used again, and a rate only where it  *)
(* has a duration.                                                         *)
(***************************************************************************)
THEOREM BytesAreOfTheRowHolds == AnalyzeSpec => []BytesAreOfTheRow
<1>1. MemoryInv => BytesAreOfTheRow
  BY DEF MemoryInv, LinesFit, Fits, BytesAreOfTheRow, Memory!BytesAreOfTheRow, Memory!Nothing
<1>. QED  BY <1>1, MemoryInductive, PTL

\* MemoryMerge has its own instance of FiniteSets.
LEMMA SameCardinality == \A S : Memory!Cardinality(S) = Cardinality(S)
BY DEF Memory!Cardinality, Cardinality

(***************************************************************************)
(* memory.py: an analysis that finishes leaves every row that was written  *)
(* once, with the bytes that were saved for it, and the long-form files    *)
(* are made of the same rows.                                              *)
(***************************************************************************)
THEOREM NothingIsLostHolds == AnalyzeSpec => []NothingIsLost
<1>1. MemoryInv => NothingIsLost
  <2>. SUFFICES ASSUME MemoryInv, stage = "end" /\ status = "ok" /\ ~cut PROVE NothingIsLost
    BY DEF NothingIsLost, Memory!NothingIsLost
  <2>1. merged # <<>> /\ csv[Memory!Root] = Memory!Wide /\ long = merged
    BY DEF MemoryInv, Done
  <2>2. /\ Memory!Wide \in Table /\ Memory!Wide # <<>> /\ Memory!Wide[1].by = 0
        /\ DOMAIN Memory!Wide = 1..(Len(merged) + 1) /\ Len(merged) \in Nat
        /\ Tail(Memory!Wide) = merged
    BY WideIs
  <2>3. Memory!DataRows(Memory!Root) = merged
    BY <2>1, <2>2 DEF Memory!DataRows
  <2>4. ASSUME NEW p \in Processes, shared \/ WorkloadOf[p] = 1
        PROVE  Cardinality(Memory!RowsIn(p, csv[Memory!Root])) = appended[p]
    <3>1. Tell(p, csv[Memory!Root])
      BY <2>1, <2>3, <2>4 DEF MemoryInv, FilesTell, Claimed
    <3>2. appended[p] \in Nat
      BY DEF MemoryInv, MemoryType
    <3>. QED  BY <2>1, <2>2, <3>1, <3>2, TellCount DEF Tell
  <2>5. ASSUME NEW p \in Processes, NEW i \in Memory!RowsIn(p, csv[Memory!Root]), workload = 1
        PROVE  csv[Memory!Root][i].bytes = Memory!Total(p, csv[Memory!Root][i].launch)
    <3>1. i \in DOMAIN Memory!Wide /\ Memory!Wide[i].by = p /\ p # 0
      BY <2>1, Processes0 DEF Memory!RowsIn
    <3>2. i \in 1..(Len(merged) + 1) /\ i # 1
      BY <2>2, <3>1
    <3>3. i - 1 \in DOMAIN merged /\ Memory!Wide[i] = merged[i - 1]
      <4>1. Memory!Root \in DOMAIN csv
        BY DEF MemoryInv, MemoryType
      <4>2. merged \in Table
        BY DEF MemoryInv, MemoryType
      <4>3. DOMAIN merged = 1..Len(merged)
        BY <4>2, LenProperties DEF Table
      <4>4. i - 1 \in 1..Len(merged) /\ (i - 1) + 1 = i
        BY <2>2, <3>2
      <4>5. merged[i - 1] = csv[Memory!Root][(i - 1) + 1]
        BY <2>3, <4>1, <4>3, <4>4, DataRowsAre
      <4>. QED  BY <2>1, <4>3, <4>4, <4>5
    <3>. QED  BY <2>1, <2>5, <3>1, <3>3 DEF MemoryInv, Exact
  <2>6. long = Memory!DataRows(Memory!Root)
    BY <2>1, <2>3
  <2>7. \A p \in Processes : \A i \in Memory!RowsIn(p, csv[Memory!Root]) :
          workload = 1 =>
            csv[Memory!Root][i].bytes = Memory!Total(p, csv[Memory!Root][i].launch)
    BY <2>5
  <2>8. \A p \in Processes : shared \/ WorkloadOf[p] = 1 =>
          /\ Cardinality(Memory!RowsIn(p, csv[Memory!Root])) = appended[p]
          /\ \A i \in Memory!RowsIn(p, csv[Memory!Root]) :
               workload = 1 =>
                 csv[Memory!Root][i].bytes = Memory!Total(p, csv[Memory!Root][i].launch)
    BY <2>4, <2>7
  <2>. QED  BY <2>6, <2>8, SameCardinality DEF NothingIsLost, Memory!NothingIsLost
<1>. QED  BY <1>1, MemoryInductive, PTL

------------------------------------------------------------------------------
(***************************************************************************)
(* Analyzing again.  The rows in the files of the processes are numbered   *)
(* as they were appended, and an analysis of these files lists them by     *)
(* process and number: there is one such list (OneListing), so that every  *)
(* analysis that starts from them ends with the same.  An analysis of a    *)
(* file that was made finds the bytes it would merge already there.        *)
(***************************************************************************)
Earlier(x, y) == x.by < y.by \/ (x.by = y.by /\ x.launch < y.launch)

RowsOfAll(S) == UNION {Range(Memory!RowsOf(p)) : p \in S}
Sorted(m) == \A i, j \in DOMAIN m : i < j => Earlier(m[i], m[j])
Listing(m, S) == Sorted(m) /\ Range(m) = RowsOfAll(S)

\* Merging once more leaves the lines as they are.
Settled(m) == \A i \in DOMAIN m : Memory!Merge(m[i], Memory!TotalByRank(m[i])) = m[i]

\* In files of their own, processes number their rows.
OwnFiles ==
  ~shared => \A p \in Processes :
    /\ open[p] = "header" => csv[p] = <<>>
    /\ csv[p] = <<>> => appended[p] = 0
    /\ csv[p] # <<>> => Len(csv[p]) = appended[p] + 1
    /\ \A i \in 2..Len(csv[p]) : csv[p][i].by = p /\ csv[p][i].launch = i - 2

\* What is merged, and the rows of the root's file, are the list of all rows.
Listed ==
  ~shared =>
    /\ stage = "directories" =>
         /\ Listing(merged, Processes \ todo)
         /\ \A p \in Processes \ todo : \A q \in todo : p < q
    /\ stage = "wide" /\ ~cut => Listing(merged, Processes)
    /\ ~cut /\ Memory!DataRows(Memory!Root) # <<>> =>
         Listing(Memory!DataRows(Memory!Root), Processes)

Finished ==
  /\ stage = "workload" => finished = <<>>
  /\ shared /\ stage \in {"wide", "long"} => Settled(merged)
  /\ finished # <<>> =>
       /\ finished \in Table /\ finished[1] = Memory!Header
       /\ ~shared => Listing(Tail(finished), Processes)
       /\ shared /\ ~cut => /\ csv[Memory!Root] = finished
                            /\ Settled(Tail(finished))
                            /\ stage = "wide" => merged = Tail(finished)

RepeatInv == OwnFiles /\ (workload = 1 => Listed /\ Finished)

LEMMA EarlierOnce ==
  ASSUME NEW x \in Line, NEW y \in Line, Earlier(x, y)
  PROVE  ~ Earlier(y, x)
<1>1. \A z \in Line : z.by \in Nat /\ z.launch \in Nat
  <2>1. \A z \in Line : z.by \in Processes \cup {0} /\ z.launch \in Nat
    BY DEF Line
  <2>2. Processes \cup {0} \subseteq Nat
    BY Processes0
  <2>. QED  BY <2>1, <2>2
<1>. QED  BY <1>1 DEF Earlier

LEMMA ListedOnce ==
  ASSUME NEW S, NEW a \in Table, NEW b \in Table, Listing(a, S), Listing(b, S)
  PROVE  a = b
<1> DEFINE R == {ss \in Line \X Line : Earlier(ss[1], ss[2])}
<1>1. \A x, y \in Line : <<x, y>> \in R <=> Earlier(x, y)
  OBVIOUS
<1>. HIDE DEF R
<1>2. \A x, y \in Line : <<x, y>> \in R => <<y, x>> \notin R
  BY <1>1, EarlierOnce
<1>3. a \in Seq(Line) /\ b \in Seq(Line) /\ Range(a) = Range(b)
  BY DEF Listing, Table
<1>4. /\ \A i, j \in DOMAIN a : i < j => <<a[i], a[j]>> \in R
      /\ \A i, j \in DOMAIN b : i < j => <<b[i], b[j]>> \in R
  BY <1>1, TableLines DEF Listing, Sorted
<1>. QED  BY <1>2, <1>3, <1>4, OneListing

LEMMA MergeTwice ==
  ASSUME NEW line \in Line, NEW total \in Totals
  PROVE  LET m == Memory!Merge(line, total)
         IN  /\ Memory!Merge(m, total) = m
             /\ Memory!TotalByRank(m) = Memory!TotalByRank(line)
             /\ m.by = line.by /\ m.launch = line.launch
<1> DEFINE m == Memory!Merge(line, total)
<1>1. CASE total = {}
  <2>1. m = line /\ Memory!Merge(m, total) = m
    BY <1>1 DEF Memory!Merge, Memory!Nothing
  <2>. QED  BY <2>1
<1>2. CASE total # {}
  <2>1. m = [by |-> line.by, launch |-> line.launch, timed |-> line.timed, bytes |-> total,
             rate |-> IF line.timed THEN total ELSE {}]
    BY <1>2 DEF Memory!Merge, Memory!Nothing, Line
  <2>2. Memory!Merge(m, total) = m
    <3>. HIDE DEF m
    <3>1. Memory!Merge(m, total)
            = [m EXCEPT !.bytes = total, !.rate = IF m.timed THEN total ELSE {}]
      BY <1>2 DEF Memory!Merge, Memory!Nothing
    <3>. QED  BY <2>1, <3>1
  <2>3. m.by = line.by /\ m.launch = line.launch
    BY <2>1
  <2>4. Memory!TotalByRank(m) = Memory!TotalByRank(line)
    <3>. HIDE DEF m
    <3>. QED  BY <2>3 DEF Memory!TotalByRank, Memory!Candidates, Memory!RankOfLine
  <2>. QED  BY <2>2, <2>3, <2>4
<1>. QED  BY <1>1, <1>2

LEMMA RootSettles ==
  ASSUME MemoryInv
  PROVE  Settled(Memory!RootRows)
<1> DEFINE old == Memory!DataRows(Memory!Root)
<1>1. Memory!RootRows = [i \in DOMAIN old |-> Memory!Merge(old[i], Memory!TotalByRank(old[i]))]
  BY DEF Memory!RootRows
<1>2. Memory!Root \in DOMAIN csv
  BY DEF MemoryInv, MemoryType
<1>3. old \in Table
  BY <1>2, DataRowsAre
<1>4. \A i \in DOMAIN old : Fits(old[i])
  BY <1>2, DataRowsAre DEF MemoryInv, LinesFit
<1>. HIDE DEF old
<1>5. ASSUME NEW i \in DOMAIN old
      PROVE  LET m == Memory!RootRows[i] IN Memory!Merge(m, Memory!TotalByRank(m)) = m
  <2>1. old[i] \in Line /\ Memory!TotalByRank(old[i]) \in Totals
    BY <1>3, <1>4, TableLines, ByRankOffers
  <2>2. Memory!RootRows[i] = Memory!Merge(old[i], Memory!TotalByRank(old[i]))
    BY <1>1
  <2>. QED  BY <2>1, <2>2, MergeTwice
<1>6. DOMAIN Memory!RootRows = DOMAIN old
  BY <1>1
<1>. QED  BY <1>5, <1>6 DEF Settled

\* A settled file is read as it is.
LEMMA SettledRead ==
  ASSUME MemoryInv, Settled(Memory!DataRows(Memory!Root))
  PROVE  Memory!RootRows = Memory!DataRows(Memory!Root)
<1> DEFINE old == Memory!DataRows(Memory!Root)
<1>1. Memory!RootRows = [i \in DOMAIN old |-> Memory!Merge(old[i], Memory!TotalByRank(old[i]))]
  BY DEF Memory!RootRows
<1>2. Memory!Root \in DOMAIN csv
  BY DEF MemoryInv, MemoryType
<1>3. old \in Seq(Line)
  BY <1>2, DataRowsAre DEF Table
<1>4. Settled(old)
  OBVIOUS
<1>. HIDE DEF old
<1>5. Memory!RootRows = [i \in DOMAIN old |-> old[i]]
  BY <1>1, <1>4 DEF Settled
<1>6. old = [i \in DOMAIN old |-> old[i]]
  BY <1>3
<1>. QED  BY <1>5, <1>6 DEF old

\* The rows of a directory, in the order of its launches, have all their bytes.
LEMMA DirectoryRows ==
  ASSUME MemoryInv, OwnFiles, ~shared, NEW p \in Processes
  PROVE  /\ Memory!RowsOf(p) \in Table
         /\ \A i \in DOMAIN Memory!RowsOf(p) :
              Memory!RowsOf(p)[i].by = p /\ Memory!RowsOf(p)[i].launch = i - 1
         /\ workload = 1 => Settled(Memory!RowsOf(p))
<1> DEFINE old == Memory!DataRows(p)  new == Memory!RowsOf(p)
<1>1. new = [i \in DOMAIN old |-> Memory!Merge(old[i], Memory!TotalOfDirectory(p, old[i]))]
  BY DEF Memory!RowsOf
<1>2. p \in DOMAIN csv
  BY DEF MemoryInv, MemoryType
<1>3. old \in Table /\ \A i \in DOMAIN old : i + 1 \in DOMAIN csv[p] /\ old[i] = csv[p][i + 1]
  BY <1>2, DataRowsAre
<1>4. new \in Table /\ DOMAIN new = DOMAIN old
      /\ \A i \in DOMAIN new : new[i].by = old[i].by /\ new[i].launch = old[i].launch
  BY DirectoryMerged
<1>5. ASSUME NEW i \in DOMAIN old
      PROVE  old[i].by = p /\ old[i].launch = i - 1 /\ Fits(old[i]) /\ old[i] \in Line
  <2>1. csv[p] \in Table /\ DOMAIN csv[p] = 1..Len(csv[p]) /\ Len(csv[p]) \in Nat
    BY <1>2, DataRowsAre, LenProperties DEF Table
  <2>2. i \in Nat \ {0}
    BY <1>3, LenProperties DEF Table
  <2>3. i + 1 \in 2..Len(csv[p]) /\ (i + 1) - 2 = i - 1
    BY <1>3, <2>1, <2>2
  <2>4. csv[p][i + 1].by = p /\ csv[p][i + 1].launch = (i + 1) - 2
    BY <2>3 DEF OwnFiles
  <2>5. Fits(csv[p][i + 1]) /\ csv[p][i + 1] \in Line
    BY <1>2, <1>3, <2>1, TableLines DEF MemoryInv, LinesFit
  <2>. QED  BY <1>3, <2>3, <2>4, <2>5
<1>6. ASSUME workload = 1, NEW i \in DOMAIN new
      PROVE  Memory!Merge(new[i], Memory!TotalByRank(new[i])) = new[i]
  <2> DEFINE total == Memory!TotalOfDirectory(p, old[i])
  <2>1. old[i] \in Line /\ Fits(old[i]) /\ old[i].by = p /\ p # 0
    BY <1>4, <1>5, Processes0
  <2>2. total \in Totals /\ total = Memory!Total(p, old[i].launch)
    BY <2>1, OwnOffers
  <2>3. Memory!TotalByRank(old[i]) = total
    BY <1>6, <2>1, <2>2, ByRankOffers
  <2>4. new[i] = Memory!Merge(old[i], total)
    BY <1>1, <1>4
  <2>. HIDE DEF total, old, new
  <2>. QED  BY <2>1, <2>2, <2>3, <2>4, MergeTwice
<1>7. workload = 1 => Settled(new)
  <2>. HIDE DEF new
  <2>. QED  BY <1>6 DEF Settled
<1>. QED  BY <1>4, <1>5, <1>7

LEMMA ListSettles ==
  ASSUME MemoryInv, OwnFiles, ~shared, workload = 1, NEW m, Listing(m, Processes)
  PROVE  Settled(m)
<1>. SUFFICES ASSUME NEW i \in DOMAIN m
              PROVE  Memory!Merge(m[i], Memory!TotalByRank(m[i])) = m[i]
  BY DEF Settled
<1>1. m[i] \in RowsOfAll(Processes)
  BY DEF Listing, Range
<1>2. PICK p \in Processes : m[i] \in Range(Memory!RowsOf(p))
  BY <1>1 DEF RowsOfAll
<1>3. PICK k \in DOMAIN Memory!RowsOf(p) : m[i] = Memory!RowsOf(p)[k]
  BY <1>2 DEF Range
<1>. QED  BY <1>3, DirectoryRows DEF Settled

\* One more directory, after all that have been read.
LEMMA ListMore ==
  ASSUME MemoryInv, OwnFiles, ~shared, NEW S \in SUBSET Processes, NEW p \in Processes \ S,
         \A q \in S : q < p, NEW m \in Table, Listing(m, S)
  PROVE  Listing(m \o Memory!RowsOf(p), S \cup {p})
<1> DEFINE a == m  b == Memory!RowsOf(p)  c == a \o b
<1>1. /\ a \in Seq(Line) /\ b \in Seq(Line)
      /\ \A i \in DOMAIN b : b[i].by = p /\ b[i].launch = i - 1
  BY DirectoryRows DEF Table
<1>2. /\ Len(a) \in Nat /\ DOMAIN a = 1..Len(a)
      /\ Len(b) \in Nat /\ DOMAIN b = 1..Len(b)
      /\ DOMAIN c = 1..(Len(a) + Len(b))
      /\ \A i \in 1..Len(a) : c[i] = a[i]
      /\ \A i \in 1..Len(b) : c[Len(a) + i] = b[i]
  <2>. HIDE DEF a, b
  <2>. QED  BY <1>1, JoinedLines
<1>3. \A i \in DOMAIN a : a[i].by < p
  <2>. SUFFICES ASSUME NEW i \in DOMAIN a PROVE a[i].by < p
    OBVIOUS
  <2>1. a[i] \in RowsOfAll(S)
    BY DEF Listing, Range
  <2>2. PICK q \in S : a[i] \in Range(Memory!RowsOf(q))
    BY <2>1 DEF RowsOfAll
  <2>3. PICK k \in DOMAIN Memory!RowsOf(q) : a[i] = Memory!RowsOf(q)[k]
    BY <2>2 DEF Range
  <2>. QED  BY <2>2, <2>3, DirectoryRows
<1>4. \A i, j \in DOMAIN a : i < j => Earlier(a[i], a[j])
  BY DEF Listing, Sorted
<1>5. Range(a) = RowsOfAll(S)
  BY DEF Listing
<1>. HIDE DEF a, b, c
<1>6. ASSUME NEW i \in DOMAIN c, NEW j \in DOMAIN c, i < j
      PROVE  Earlier(c[i], c[j])
  <2>1. CASE j <= Len(a)
    <3>1. i \in DOMAIN a /\ j \in DOMAIN a
      BY <1>2, <1>6, <2>1
    <3>. QED  BY <1>2, <1>4, <1>6, <3>1
  <2>2. CASE Len(a) < i
    <3>1. i - Len(a) \in DOMAIN b /\ j - Len(a) \in DOMAIN b
      BY <1>2, <1>6, <2>2
    <3>2. Len(a) + (i - Len(a)) = i /\ Len(a) + (j - Len(a)) = j
      BY <1>2, <1>6
    <3>3. c[i] = b[i - Len(a)] /\ c[j] = b[j - Len(a)]
      BY <1>2, <3>1, <3>2
    <3>4. c[i].by = p /\ c[j].by = p
      BY <1>1, <3>1, <3>3
    <3>5. c[i].launch = (i - Len(a)) - 1 /\ c[j].launch = (j - Len(a)) - 1
      BY <1>1, <3>1, <3>3
    <3>6. c[i].launch < c[j].launch
      BY <1>2, <1>6, <3>5
    <3>. QED  BY <3>4, <3>6 DEF Earlier
  <2>3. CASE i <= Len(a) /\ Len(a) < j
    <3>1. i \in DOMAIN a /\ j - Len(a) \in DOMAIN b
      BY <1>2, <1>6, <2>3
    <3>2. Len(a) + (j - Len(a)) = j
      BY <1>2, <1>6
    <3>3. c[i] = a[i] /\ c[j] = b[j - Len(a)]
      BY <1>2, <3>1, <3>2
    <3>4. c[i].by < p /\ c[j].by = p
      BY <1>1, <1>3, <3>1, <3>3
    <3>. QED  BY <3>4 DEF Earlier
  <2>. QED  BY <1>2, <1>6, <2>1, <2>2, <2>3
<1>7. Range(c) = Range(a) \cup Range(b)
  <2>1. ASSUME NEW i \in DOMAIN c
        PROVE  c[i] \in Range(a) \cup Range(b)
    <3>1. CASE i <= Len(a)
      BY <1>2, <3>1 DEF Range
    <3>2. CASE Len(a) < i
      <4>1. i - Len(a) \in DOMAIN b /\ Len(a) + (i - Len(a)) = i
        BY <1>2, <3>2
      <4>2. c[i] = b[i - Len(a)]
        BY <1>2, <4>1
      <4>. QED  BY <4>1, <4>2 DEF Range
    <3>. QED  BY <1>2, <3>1, <3>2
  <2>2. ASSUME NEW i \in DOMAIN a
        PROVE  a[i] \in Range(c)
    <3>1. i \in DOMAIN c /\ c[i] = a[i]
      BY <1>2
    <3>. QED  BY <3>1 DEF Range
  <2>3. ASSUME NEW i \in DOMAIN b
        PROVE  b[i] \in Range(c)
    <3>1. Len(a) + i \in DOMAIN c /\ c[Len(a) + i] = b[i]
      BY <1>2
    <3>. QED  BY <3>1 DEF Range
  <2>. QED  BY <2>1, <2>2, <2>3 DEF Range
<1>8. RowsOfAll(S \cup {p}) = RowsOfAll(S) \cup Range(b)
  BY DEF RowsOfAll, b
<1>9. Listing(c, S \cup {p})
  BY <1>5, <1>6, <1>7, <1>8 DEF Listing, Sorted
<1>. QED  BY <1>9 DEF a, b, c

------------------------------------------------------------------------------
\* Without a launch, the rows and bytes of the processes are what they were.
LEMMA RowsKept ==
  ASSUME UNCHANGED counted, \A p \in Processes : csv'[p] = csv[p]
  PROVE  /\ \A p \in Processes : Memory!RowsOf(p)' = Memory!RowsOf(p)
         /\ \A m : Settled(m)' <=> Settled(m)
         /\ \A m : \A S \in SUBSET Processes : Listing(m, S)' <=> Listing(m, S)
<1>1. ASSUME NEW p \in Processes
      PROVE  Memory!RowsOf(p)' = Memory!RowsOf(p)
  BY DEF Memory!RowsOf, Memory!DataRows, Memory!TotalOfDirectory, Memory!Total
<1>2. \A line : Memory!TotalByRank(line)' = Memory!TotalByRank(line)
  BY DEF Memory!TotalByRank, Memory!Candidates, Memory!Total, Memory!LastOf
<1>3. ASSUME NEW m
      PROVE  Settled(m)' <=> Settled(m)
  BY <1>2 DEF Settled
<1>4. ASSUME NEW m, NEW S \in SUBSET Processes
      PROVE  Listing(m, S)' <=> Listing(m, S)
  <2>1. RowsOfAll(S)' = RowsOfAll(S)
    BY <1>1 DEF RowsOfAll
  <2>. QED  BY <2>1 DEF Listing, Sorted
<1>. QED  BY <1>1, <1>3, <1>4

LEMMA OwnKept ==
  ASSUME OwnFiles, UNCHANGED <<shared, open, appended>>, \A p \in Processes : csv'[p] = csv[p]
  PROVE  OwnFiles'
BY DEF OwnFiles

------------------------------------------------------------------------------
\* The steps of an analysis, of the first workload.
Idle == UNCHANGED <<shared, workload, open, appended, counted>>

LEMMA RootNotProcess ==
  ASSUME MemoryInv
  PROVE  /\ Memory!Root \in DOMAIN csv /\ \A p \in Processes : p # Memory!Root
         /\ \A lines : csv' = [csv EXCEPT ![Memory!Root] = lines] =>
              /\ csv'[Memory!Root] = lines
              /\ \A p \in Processes : csv'[p] = csv[p]
<1>1. csv \in [Processes \cup {Memory!Root} -> Table] /\ Memory!Root = 0
  BY DEF MemoryInv, MemoryType, Memory!Root
<1>. QED  BY <1>1, Processes0

\* Reading: an analysis begins, or is refused.
LEMMA RepeatRead ==
  ASSUME MemoryInv, RepeatInv,
         UNCHANGED <<shared, workload, open, appended, counted, csv, merged, finished, cut>>,
         stage' \in {"read", "end"}
  PROVE  RepeatInv'
<1>1. OwnFiles'
  BY OwnKept DEF RepeatInv
<1>2. ASSUME workload' = 1
      PROVE  Listed' /\ Finished'
  <2>1. workload = 1 /\ Listed /\ Finished
    BY <1>2 DEF RepeatInv
  <2>2. Memory!DataRows(Memory!Root)' = Memory!DataRows(Memory!Root)
    BY DEF Memory!DataRows
  <2>3. Listed'
    BY <2>1, <2>2, RowsKept DEF Listed
  <2>4. Finished'
    BY <2>1, RowsKept DEF Finished
  <2>. QED  BY <2>3, <2>4
<1>. QED  BY <1>1, <1>2 DEF RepeatInv

LEMMA RepeatReadRoot ==
  ASSUME MemoryInv, RepeatInv, Memory!ReadRoot
  PROVE  RepeatInv'
<1>1. /\ UNCHANGED <<shared, workload, open, appended, counted, csv, finished, cut>>
      /\ stage = "read" /\ stage' = "wide" /\ merged' = Memory!RootRows
      /\ Memory!DataRows(Memory!Root) # <<>>
  BY DEF Memory!ReadRoot, Memory!Go, Memory!written
<1>2. OwnFiles'
  BY <1>1, OwnKept DEF RepeatInv
<1>3. ASSUME workload' = 1
      PROVE  Listed' /\ Finished'
  <2>1. workload = 1 /\ OwnFiles /\ Listed /\ Finished
    BY <1>1, <1>3 DEF RepeatInv
  <2>2. Memory!DataRows(Memory!Root)' = Memory!DataRows(Memory!Root)
    BY <1>1 DEF Memory!DataRows
  <2>3. ASSUME ~shared, ~cut
        PROVE  Listing(merged', Processes)
    <3>1. Listing(Memory!DataRows(Memory!Root), Processes)
      BY <1>1, <2>1, <2>3 DEF Listed
    <3>2. Memory!RootRows = Memory!DataRows(Memory!Root)
      BY <2>1, <2>3, <3>1, ListSettles, SettledRead
    <3>. QED  BY <1>1, <3>1, <3>2
  <2>4. Listed'
    BY <1>1, <2>1, <2>2, <2>3, RowsKept DEF Listed
  <2>5. Settled(merged')
    BY <1>1, RootSettles
  <2>6. ASSUME finished # <<>>, shared, ~cut
        PROVE  merged' = Tail(finished)
    <3>1. csv[Memory!Root] = finished /\ Settled(Tail(finished))
      BY <2>1, <2>6 DEF Finished
    <3>2. Memory!DataRows(Memory!Root) = Tail(finished)
      BY <2>6, <3>1 DEF Memory!DataRows
    <3>. QED  BY <1>1, <3>1, <3>2, SettledRead
  <2>7. Finished'
    BY <1>1, <2>1, <2>5, <2>6, RowsKept DEF Finished
  <2>. QED  BY <2>4, <2>7
<1>. QED  BY <1>2, <1>3 DEF RepeatInv

LEMMA RepeatFindNoRows ==
  ASSUME MemoryInv, RepeatInv, Memory!FindNoRows
  PROVE  RepeatInv'
<1>1. /\ UNCHANGED <<shared, workload, open, appended, counted, csv, finished, cut>>
      /\ stage = "read" /\ stage' = "directories" /\ merged' = <<>> /\ todo' = Processes
      /\ Memory!DataRows(Memory!Root) = <<>>
  BY DEF Memory!FindNoRows, Memory!Go, Memory!written
<1>2. OwnFiles'
  BY <1>1, OwnKept DEF RepeatInv
<1>3. ASSUME workload' = 1
      PROVE  Listed' /\ Finished'
  <2>1. workload = 1 /\ Listed /\ Finished
    BY <1>1, <1>3 DEF RepeatInv
  <2>2. Memory!DataRows(Memory!Root)' = Memory!DataRows(Memory!Root)
    BY <1>1 DEF Memory!DataRows
  <2>3. Listing(<<>>, {})
    <3>1. DOMAIN <<>> = {} /\ Range(<<>>) = {}
      BY DEF Range
    <3>. QED  BY <3>1 DEF Listing, Sorted, RowsOfAll
  <2>4. Processes \ todo' = {}
    BY <1>1
  <2>5. Listing(merged', Processes \ todo')
    BY <1>1, <2>3, <2>4
  <2>6. Listing(merged, Processes \ todo)'
    BY <2>3, <2>4, <1>1 DEF Listing, Sorted, RowsOfAll
  <2>7. Listed'
    BY <1>1, <2>1, <2>2, <2>4, <2>6, RowsKept DEF Listed
  <2>8. Finished'
    BY <1>1, <2>1, RowsKept DEF Finished
  <2>. QED  BY <2>7, <2>8
<1>. QED  BY <1>2, <1>3 DEF RepeatInv

LEMMA RepeatReadDirectory ==
  ASSUME MemoryInv, RepeatInv, NEW p \in Processes, Memory!ReadDirectory(p)
  PROVE  RepeatInv'
<1>1. /\ UNCHANGED <<shared, workload, open, appended, counted, csv, finished, cut>>
      /\ stage = "directories" /\ stage' = "directories" /\ p \in todo /\ \A q \in todo : p <= q
      /\ merged' = merged \o Memory!RowsOf(p) /\ todo' = todo \ {p}
  BY DEF Memory!ReadDirectory, Memory!Go, Memory!written
<1>2. OwnFiles'
  BY <1>1, OwnKept DEF RepeatInv
<1>3. todo \in SUBSET Processes /\ merged \in Table
  BY DEF MemoryInv, MemoryType
<1>4. ASSUME workload' = 1
      PROVE  Listed' /\ Finished'
  <2>1. workload = 1 /\ OwnFiles /\ Listed /\ Finished
    BY <1>1, <1>4 DEF RepeatInv
  <2>2. Memory!DataRows(Memory!Root)' = Memory!DataRows(Memory!Root)
    BY <1>1 DEF Memory!DataRows
  <2>3. ASSUME ~shared
        PROVE  /\ Listing(merged, Processes \ todo)'
               /\ \A r \in Processes \ todo' : \A q \in todo' : r < q
    <3>1. Listing(merged, Processes \ todo) /\ \A r \in Processes \ todo : \A q \in todo : r < q
      BY <1>1, <2>1, <2>3 DEF Listed
    <3>2. Listing(merged \o Memory!RowsOf(p), (Processes \ todo) \cup {p})
      BY <1>1, <1>3, <2>1, <2>3, <3>1, ListMore
    <3>3. Processes \ todo' = (Processes \ todo) \cup {p}
      BY <1>1
    <3>4. Listing(merged', Processes \ todo')
      BY <1>1, <3>2, <3>3
    <3>5. RowsOfAll(Processes \ todo)' = RowsOfAll(Processes \ todo')
      BY <1>1, RowsKept DEF RowsOfAll
    <3>6. Listing(merged, Processes \ todo)'
      BY <3>4, <3>5 DEF Listing, Sorted
    <3>7. ASSUME NEW r \in Processes \ todo', NEW q \in todo'
          PROVE  r < q
      <4>1. p \in Nat /\ q \in Nat /\ p <= q /\ p # q
        BY <1>1, <1>3, Processes0
      <4>2. r \in Processes \ todo \/ r = p
        BY <1>1
      <4>. QED  BY <1>1, <3>1, <4>1, <4>2
    <3>. QED  BY <3>6, <3>7
  <2>4. Listed'
    BY <1>1, <2>1, <2>2, <2>3, RowsKept DEF Listed
  <2>5. Finished'
    BY <1>1, <2>1, RowsKept DEF Finished
  <2>. QED  BY <2>4, <2>5
<1>. QED  BY <1>2, <1>4 DEF RepeatInv

LEMMA RepeatReadAll ==
  ASSUME MemoryInv, RepeatInv, Memory!ReadAll
  PROVE  RepeatInv'
<1>1. /\ UNCHANGED <<shared, workload, open, appended, counted, csv, merged, todo, finished>>
      /\ stage = "directories" /\ stage' = "wide" /\ todo = {} /\ merged # <<>>
  BY DEF Memory!ReadAll, Memory!Go, Memory!written
<1>2. OwnFiles'
  BY <1>1, OwnKept DEF RepeatInv
<1>3. ~shared /\ Memory!DataRows(Memory!Root) = <<>>
  BY <1>1 DEF MemoryInv, MergedTell
<1>4. ASSUME workload' = 1
      PROVE  Listed' /\ Finished'
  <2>1. workload = 1 /\ Listed /\ Finished
    BY <1>1, <1>4 DEF RepeatInv
  <2>2. Memory!DataRows(Memory!Root)' = <<>>
    BY <1>1, <1>3 DEF Memory!DataRows
  <2>3. Listing(merged, Processes)
    <3>1. Processes \ todo = Processes
      BY <1>1
    <3>2. Listing(merged, Processes \ todo)
      BY <1>1, <1>3, <2>1 DEF Listed
    <3>. QED  BY <3>1, <3>2
  <2>5. Listed'
    BY <1>1, <2>2, <2>3, RowsKept DEF Listed
  <2>6. Finished'
    BY <1>1, <1>3, <2>1, RowsKept DEF Finished
  <2>. QED  BY <2>5, <2>6
<1>. QED  BY <1>2, <1>4 DEF RepeatInv

\* The file of the root that is made of the merged rows.
LEMMA WideStarts ==
  ASSUME MemoryInv
  PROVE  /\ Memory!Wide \in Table /\ Memory!Wide # <<>> /\ Memory!Wide[1] = Memory!Header
         /\ Tail(Memory!Wide) = merged
         /\ \A s \in Table : s # <<>> /\ s[1] = Memory!Header /\ Tail(s) = merged =>
              s = Memory!Wide
<1>1. Memory!Wide = <<Memory!Header>> \o merged /\ merged \in Seq(Line)
  BY DEF Memory!Wide, MemoryInv, MemoryType, Table
<1>2. /\ Memory!Wide \in Table /\ Memory!Wide # <<>> /\ Tail(Memory!Wide) = merged
  BY WideIs
<1>3. Memory!Wide[1] = Memory!Header
  BY <1>1, HeaderIsLine
<1>4. ASSUME NEW s \in Table, s # <<>>, s[1] = Memory!Header, Tail(s) = merged
      PROVE  s = Memory!Wide
  <2>1. s \in Seq(Line) /\ s # <<>>
    BY <1>4 DEF Table
  <2>2. s = <<s[1]>> \o Tail(s)
    <3>1. s = <<Head(s)>> \o Tail(s)
      BY <2>1
    <3>. QED  BY <2>1, <3>1
  <2>. QED  BY <1>1, <1>4, <2>2
<1>. QED  BY <1>2, <1>3, <1>4

LEMMA RepeatWriteWide ==
  ASSUME MemoryInv, RepeatInv, Memory!WriteWide
  PROVE  RepeatInv'
<1>1. /\ UNCHANGED <<shared, workload, open, appended, counted, merged, todo, finished, cut>>
      /\ stage = "wide" /\ stage' = "long"
      /\ csv' = [csv EXCEPT ![Memory!Root] = Memory!Wide]
  BY DEF Memory!WriteWide, Memory!Go, Memory!written
<1>2. csv'[Memory!Root] = Memory!Wide /\ \A p \in Processes : csv'[p] = csv[p]
  BY <1>1, RootNotProcess
<1>3. OwnFiles'
  BY <1>1, <1>2, OwnKept DEF RepeatInv
<1>4. ASSUME workload' = 1
      PROVE  Listed' /\ Finished'
  <2>1. workload = 1 /\ Listed /\ Finished
    BY <1>1, <1>4 DEF RepeatInv
  <2>2. Memory!DataRows(Memory!Root)' = merged
    BY <1>2, WideStarts DEF Memory!DataRows
  <2>3. Listed'
    <3>1. ~shared /\ ~cut => Listing(merged, Processes)
      BY <1>1, <2>1 DEF Listed
    <3>2. ~shared /\ ~cut => Listing(merged, Processes)'
      BY <1>1, <1>2, <3>1, RowsKept
    <3>3. ~shared /\ ~cut => Listing(Memory!DataRows(Memory!Root), Processes)'
      BY <1>1, <2>2, <3>2 DEF Listing, Sorted
    <3>. QED  BY <1>1, <3>3 DEF Listed
  <2>4. ASSUME finished # <<>>, shared, ~cut
        PROVE  csv'[Memory!Root] = finished
    <3>1. finished \in Table /\ finished[1] = Memory!Header /\ merged = Tail(finished)
      BY <1>1, <2>1, <2>4 DEF Finished
    <3>. QED  BY <1>2, <2>4, <3>1, WideStarts
  <2>5. Finished'
    BY <1>1, <1>2, <2>1, <2>4, RowsKept DEF Finished
  <2>. QED  BY <2>3, <2>5
<1>. QED  BY <1>3, <1>4 DEF RepeatInv

LEMMA RepeatWriteLong ==
  ASSUME MemoryInv, RepeatInv, Memory!WriteLong
  PROVE  RepeatInv'
<1>1. /\ UNCHANGED <<shared, workload, open, appended, counted, csv, merged, todo, cut>>
      /\ stage = "long" /\ stage' = "end"
      /\ finished' = IF cut THEN finished ELSE csv[Memory!Root]
  BY DEF Memory!WriteLong, Memory!written
<1>2. OwnFiles'
  BY <1>1, OwnKept DEF RepeatInv
<1>3. csv[Memory!Root] = Memory!Wide
  BY <1>1 DEF MemoryInv, MergedTell
<1>4. ASSUME workload' = 1
      PROVE  Listed' /\ Finished'
  <2>1. workload = 1 /\ Listed /\ Finished
    BY <1>1, <1>4 DEF RepeatInv
  <2>2. Memory!DataRows(Memory!Root)' = Memory!DataRows(Memory!Root)
    BY <1>1 DEF Memory!DataRows
  <2>3. Listed'
    BY <1>1, <2>1, <2>2, RowsKept DEF Listed
  <2>4. CASE cut
    <3>1. finished' = finished
      BY <1>1, <2>4
    <3>. QED  BY <1>1, <2>1, <2>3, <2>4, <3>1, RowsKept DEF Finished
  <2>5. CASE ~cut
    <3>1. /\ finished' = Memory!Wide /\ Memory!Wide \in Table /\ Memory!Wide[1] = Memory!Header
          /\ Tail(Memory!Wide) = merged
      BY <1>1, <1>3, <2>5, WideStarts
    <3>2. ~shared => Listing(merged, Processes)
      <4>1. Memory!DataRows(Memory!Root) = merged /\ merged # <<>>
        BY <1>1, <1>3, WideStarts DEF Memory!DataRows, MemoryInv, MergedTell
      <4>. QED  BY <2>1, <2>5, <4>1 DEF Listed
    <3>3. shared => Settled(merged)
      BY <1>1, <2>1 DEF Finished
    <3>4. ~shared => Listing(Tail(finished'), Processes)
      BY <3>1, <3>2
    <3>5. shared => Settled(Tail(finished'))
      BY <3>1, <3>3
    <3>6. finished' = csv'[Memory!Root] /\ finished' \in Table /\ finished'[1] = Memory!Header
      BY <1>1, <1>3, <3>1
    <3>7. UNCHANGED counted /\ \A p \in Processes : csv'[p] = csv[p]
      BY <1>1
    <3>8. Finished'
      <4>1. ~shared => Listing(Tail(finished), Processes)'
        BY <3>4, <3>7, RowsKept DEF Listing, Sorted, RowsOfAll
      <4>2. shared => Settled(Tail(finished))'
        BY <1>1, <3>5, <3>7, RowsKept DEF Settled
      <4>. QED  BY <1>1, <3>6, <4>1, <4>2 DEF Finished
    <3>. QED  BY <2>3, <3>8
  <2>. QED  BY <2>4, <2>5
<1>. QED  BY <1>2, <1>4 DEF RepeatInv

LEMMA RepeatWriteFails ==
  ASSUME MemoryInv, RepeatInv, Memory!WriteFails
  PROVE  RepeatInv'
<1>1. /\ UNCHANGED <<shared, workload, open, appended, counted, merged, todo, finished>>
      /\ stage' = "end"
  BY DEF Memory!WriteFails, Memory!Go, Memory!written
<1>2. \/ cut' = cut /\ csv' = csv
      \/ cut' /\ \E lines : csv' = [csv EXCEPT ![Memory!Root] = lines]
  BY DEF Memory!WriteFails
<1>3. \A p \in Processes : csv'[p] = csv[p]
  BY <1>2, RootNotProcess
<1>4. OwnFiles'
  BY <1>1, <1>3, OwnKept DEF RepeatInv
<1>5. ASSUME workload' = 1
      PROVE  Listed' /\ Finished'
  <2>1. workload = 1 /\ Listed /\ Finished
    BY <1>1, <1>5 DEF RepeatInv
  <2>2. cut' = cut /\ csv' = csv =>
          Memory!DataRows(Memory!Root)' = Memory!DataRows(Memory!Root)
    BY DEF Memory!DataRows
  <2>3. Listed'
    BY <1>1, <1>2, <1>3, <2>1, <2>2, RowsKept DEF Listed
  <2>4. Finished'
    BY <1>1, <1>2, <1>3, <2>1, RowsKept DEF Finished
  <2>. QED  BY <2>3, <2>4
<1>. QED  BY <1>4, <1>5 DEF RepeatInv

LEMMA RepeatReuse ==
  ASSUME MemoryInv, RepeatInv, Memory!Reuse
  PROVE  RepeatInv'
<1>1. UNCHANGED <<shared, open, appended, csv>> /\ workload' = workload + 1
  BY DEF Memory!Reuse, Memory!written
<1>2. workload' # 1
  BY <1>1 DEF MemoryInv, MemoryType
<1>3. OwnFiles'
  BY <1>1, OwnKept DEF RepeatInv
<1>. QED  BY <1>2, <1>3 DEF RepeatInv

\* While the first workload runs nothing has been merged or finished.
LEMMA RepeatProfile ==
  ASSUME MemoryInv, RepeatInv, OwnFiles', stage = "workload",
         UNCHANGED <<shared, workload, long, analyses, stage, todo, merged, status, cut, finished>>,
         ~shared => csv'[Memory!Root] = csv[Memory!Root]
  PROVE  RepeatInv'
<1>1. ASSUME workload' = 1
      PROVE  Listed' /\ Finished'
  <2>1. workload = 1 /\ Finished /\ finished = <<>>
    BY <1>1 DEF RepeatInv, Finished
  <2>2. ~shared => Memory!DataRows(Memory!Root)' = <<>>
    BY <2>1 DEF MemoryInv, FilesApart, Memory!DataRows
  <2>3. Listed'
    BY <2>2 DEF Listed
  <2>4. Finished'
    BY <2>1 DEF Finished
  <2>. QED  BY <2>3, <2>4
<1>. QED  BY <1>1 DEF RepeatInv

LEMMA RepeatOpen ==
  ASSUME MemoryInv, RepeatInv, NEW p \in Processes, Memory!OpenCsv(p),
         UNCHANGED <<shared, workload, long, analyses, stage, todo, merged, status, cut, finished>>
  PROVE  RepeatInv'
<1>1. /\ UNCHANGED <<csv, appended, counted>> /\ stage = "workload"
      /\ open' = [open EXCEPT ![p] = IF csv[Memory!FileOf(p)] = <<>> THEN "header" ELSE "open"]
  BY DEF Memory!OpenCsv, Memory!Runs
<1>2. open \in [Processes -> {"closed", "header", "open"}]
  BY DEF MemoryInv, MemoryType
<1>3. ASSUME ~shared, NEW q \in Processes
      PROVE  open'[q] = "header" => csv'[q] = <<>>
  <2>1. Memory!FileOf(p) = p
    BY <1>3 DEF Memory!FileOf
  <2>2. CASE q = p
    BY <1>1, <1>2, <2>1, <2>2
  <2>3. CASE q # p
    BY <1>1, <1>2, <1>3, <2>3 DEF RepeatInv, OwnFiles
  <2>. QED  BY <2>2, <2>3
<1>4. OwnFiles'
  BY <1>1, <1>3 DEF RepeatInv, OwnFiles
<1>. QED  BY <1>1, <1>4, RepeatProfile

\* One more line in the file of a process that has its own.
LEMMA OwnLine ==
  ASSUME MemoryInv, ~shared, NEW p \in Processes, NEW x \in Line,
         csv' = [csv EXCEPT ![Memory!FileOf(p)] = Append(@, x)]
  PROVE  /\ csv[p] \in Seq(Line) /\ csv'[p] = Append(csv[p], x)
         /\ \A q \in Processes \ {p} : csv'[q] = csv[q]
         /\ csv'[Memory!Root] = csv[Memory!Root]
         /\ Len(csv[p]) \in Nat /\ Len(csv'[p]) = Len(csv[p]) + 1 /\ csv'[p] # <<>>
         /\ \A i \in 1..Len(csv[p]) : csv'[p][i] = csv[p][i]
         /\ csv'[p][Len(csv[p]) + 1] = x
<1>1. Memory!FileOf(p) = p
  BY DEF Memory!FileOf
<1>2. csv \in [Processes \cup {Memory!Root} -> Table] /\ Memory!Root = 0
  BY DEF MemoryInv, MemoryType, Memory!Root
<1>3. csv[p] \in Seq(Line)
  BY <1>2 DEF Table
<1>4. /\ csv'[p] = Append(csv[p], x)
      /\ \A q \in Processes \ {p} : csv'[q] = csv[q]
      /\ csv'[Memory!Root] = csv[Memory!Root]
  BY <1>1, <1>2, Processes0
<1> DEFINE a == csv[p]
<1>5. a \in Seq(Line)
  BY <1>3
<1>. HIDE DEF a
<1>6. /\ Len(a) \in Nat /\ Len(Append(a, x)) = Len(a) + 1 /\ Append(a, x) # <<>>
      /\ \A i \in 1..Len(a) : Append(a, x)[i] = a[i]
      /\ Append(a, x)[Len(a) + 1] = x
  BY <1>5, AppendedLine
<1>. QED  BY <1>3, <1>4, <1>6 DEF a

LEMMA RepeatHeader ==
  ASSUME MemoryInv, RepeatInv, NEW p \in Processes, Memory!WriteHeader(p),
         UNCHANGED <<shared, workload, long, analyses, stage, todo, merged, status, cut, finished>>
  PROVE  RepeatInv'
<1>1. /\ UNCHANGED <<appended, counted>> /\ stage = "workload" /\ open[p] = "header"
      /\ open' = [open EXCEPT ![p] = "open"]
      /\ csv' = [csv EXCEPT ![Memory!FileOf(p)] = Append(@, Memory!Header)]
  BY DEF Memory!WriteHeader, Memory!Runs
<1>2. open \in [Processes -> {"closed", "header", "open"}]
  BY DEF MemoryInv, MemoryType
<1>3. ASSUME ~shared
      PROVE  OwnFiles' /\ csv'[Memory!Root] = csv[Memory!Root]
  <2>1. /\ csv'[p] # <<>> /\ Len(csv[p]) \in Nat /\ Len(csv'[p]) = Len(csv[p]) + 1
        /\ \A q \in Processes \ {p} : csv'[q] = csv[q]
        /\ csv'[Memory!Root] = csv[Memory!Root]
    BY <1>1, <1>3, HeaderIsLine, OwnLine
  <2>2. csv[p] = <<>> /\ appended[p] = 0
    BY <1>1, <1>3 DEF RepeatInv, OwnFiles
  <2>3. Len(csv'[p]) = 1
    BY <2>1, <2>2, EmptySeq
  <2>4. open'[p] = "open" /\ \A q \in Processes \ {p} : open'[q] = open[q]
    BY <1>1, <1>2
  <2>5. ASSUME NEW q \in Processes
        PROVE  /\ open'[q] = "header" => csv'[q] = <<>>
               /\ csv'[q] = <<>> => appended'[q] = 0
               /\ csv'[q] # <<>> => Len(csv'[q]) = appended'[q] + 1
               /\ \A i \in 2..Len(csv'[q]) : csv'[q][i].by = q /\ csv'[q][i].launch = i - 2
    <3>1. CASE q = p
      BY <1>1, <2>1, <2>2, <2>3, <2>4, <3>1
    <3>2. CASE q # p
      BY <1>1, <1>3, <2>1, <2>4, <3>2 DEF RepeatInv, OwnFiles
    <3>. QED  BY <3>1, <3>2
  <2>. QED  BY <2>1, <2>5 DEF OwnFiles
<1>4. OwnFiles'
  BY <1>3 DEF OwnFiles
<1>. QED  BY <1>1, <1>3, <1>4, RepeatProfile

LEMMA RepeatRow ==
  ASSUME MemoryInv, RepeatInv, NEW p \in Processes, Memory!WriteRow(p),
         UNCHANGED <<shared, workload, long, analyses, stage, todo, merged, status, cut, finished>>
  PROVE  RepeatInv'
<1>1. /\ open' = open /\ stage = "workload" /\ WorkloadOf[p] = workload /\ open[p] = "open"
      /\ appended' = [appended EXCEPT ![p] = @ + 1]
  BY DEF Memory!WriteRow, Memory!Runs
<1>2. PICK timed \in BOOLEAN :
        csv' = [csv EXCEPT ![Memory!FileOf(p)] =
                  Append(@, [Memory!Header EXCEPT !.by = p, !.launch = appended[p],
                                                  !.timed = timed])]
  BY DEF Memory!WriteRow
<1>3. appended \in [Processes -> Nat]
  BY DEF MemoryInv, MemoryType
<1> DEFINE x == [Memory!Header EXCEPT !.by = p, !.launch = appended[p], !.timed = timed]
<1>4. x \in Line /\ x.by = p /\ x.launch = appended[p]
  BY <1>3 DEF Line, Memory!Header, Memory!Nothing, Totals
<1>5. csv' = [csv EXCEPT ![Memory!FileOf(p)] = Append(@, x)]
  BY <1>2
<1>. HIDE DEF x
<1>6. ASSUME ~shared
      PROVE  OwnFiles' /\ csv'[Memory!Root] = csv[Memory!Root]
  <2>1. /\ csv[p] \in Seq(Line) /\ csv'[p] = Append(csv[p], x)
        /\ \A q \in Processes \ {p} : csv'[q] = csv[q]
        /\ csv'[Memory!Root] = csv[Memory!Root]
        /\ Len(csv[p]) \in Nat /\ Len(csv'[p]) = Len(csv[p]) + 1 /\ csv'[p] # <<>>
        /\ \A i \in 1..Len(csv[p]) : csv'[p][i] = csv[p][i]
        /\ csv'[p][Len(csv[p]) + 1] = x
    <3>1. x \in Line
      BY <1>4
    <3>. QED  BY <1>5, <1>6, <3>1, OwnLine
  <2>2. csv[p] # <<>>
    BY <1>1, <1>6 DEF MemoryInv, Opened, Memory!FileOf
  <2>3. Len(csv[p]) = appended[p] + 1
    BY <1>6, <2>2 DEF RepeatInv, OwnFiles
  <2>4. appended'[p] = appended[p] + 1 /\ \A q \in Processes \ {p} : appended'[q] = appended[q]
    BY <1>1, <1>3
  <2>5. ASSUME NEW i \in 2..Len(csv'[p])
        PROVE  csv'[p][i].by = p /\ csv'[p][i].launch = i - 2
    <3>1. CASE i \in 1..Len(csv[p])
      <4>1. i \in 2..Len(csv[p])
        BY <2>5, <3>1
      <4>. QED  BY <1>6, <2>1, <3>1, <4>1 DEF RepeatInv, OwnFiles
    <3>2. CASE i \notin 1..Len(csv[p])
      <4>1. i = Len(csv[p]) + 1
        <5>1. i \in Int /\ 2 <= i /\ i <= Len(csv[p]) + 1
          BY <2>1, <2>5
        <5>. QED  BY <2>1, <3>2, <5>1
      <4>2. i - 2 = appended[p]
        BY <1>3, <2>3, <4>1
      <4>. QED  BY <1>4, <2>1, <4>1, <4>2
    <3>. QED  BY <3>1, <3>2
  <2>6. ASSUME NEW q \in Processes
        PROVE  /\ open'[q] = "header" => csv'[q] = <<>>
               /\ csv'[q] = <<>> => appended'[q] = 0
               /\ csv'[q] # <<>> => Len(csv'[q]) = appended'[q] + 1
               /\ \A i \in 2..Len(csv'[q]) : csv'[q][i].by = q /\ csv'[q][i].launch = i - 2
    <3>1. CASE q = p
      BY <1>1, <2>1, <2>3, <2>4, <2>5, <3>1
    <3>2. CASE q # p
      BY <1>1, <1>6, <2>1, <2>4, <3>2 DEF RepeatInv, OwnFiles
    <3>. QED  BY <3>1, <3>2
  <2>. QED  BY <2>1, <2>6 DEF OwnFiles
<1>7. OwnFiles'
  BY <1>6 DEF OwnFiles
<1>. QED  BY <1>1, <1>6, <1>7, RepeatProfile

LEMMA RepeatInitial == Memory!MergeInit => RepeatInv
<1>. SUFFICES ASSUME Memory!MergeInit PROVE RepeatInv
  OBVIOUS
<1>1. /\ stage = "workload" /\ finished = <<>> /\ \A p \in Processes : csv[p] = <<>>
      /\ csv[Memory!Root] = <<>> /\ \A p \in Processes : appended[p] = 0
  BY DEF Memory!MergeInit
<1>2. OwnFiles
  <2>1. Len(<<>>) = 0 /\ 2..0 = {}
    BY EmptySeq
  <2>. QED  BY <1>1, <2>1 DEF OwnFiles
<1>3. Memory!DataRows(Memory!Root) = <<>>
  BY <1>1 DEF Memory!DataRows
<1>. QED  BY <1>1, <1>2, <1>3 DEF RepeatInv, Listed, Finished

LEMMA RepeatIdle ==
  ASSUME RepeatInv, UNCHANGED memoryFiles
  PROVE  RepeatInv'
<1>1. /\ UNCHANGED <<shared, workload, open, appended, counted, csv, stage, todo, merged, cut,
                     finished>>
  BY DEF memoryFiles
<1>2. OwnFiles'
  BY <1>1, OwnKept DEF RepeatInv
<1>3. Memory!DataRows(Memory!Root)' = Memory!DataRows(Memory!Root)
  BY <1>1 DEF Memory!DataRows
<1>4. RowsOfAll(Processes \ todo)' = RowsOfAll(Processes \ todo)
  BY <1>1, RowsKept DEF RowsOfAll
<1>5. ASSUME workload' = 1 PROVE Listed'
  BY <1>1, <1>3, <1>4, <1>5, RowsKept DEF RepeatInv, Listed, Listing, Sorted
<1>6. ASSUME workload' = 1 PROVE Finished'
  BY <1>1, <1>6, RowsKept DEF RepeatInv, Finished
<1>. QED  BY <1>2, <1>5, <1>6 DEF RepeatInv

LEMMA RepeatStep == ASSUME MemoryInv, RepeatInv, Memory!MergeNext PROVE RepeatInv'
<1>1. CASE Memory!Profile
  <2>1. UNCHANGED <<shared, workload, long, analyses, stage, todo, merged, status, cut, finished>>
    BY <1>1 DEF Memory!Profile
  <2>2. PICK p \in Processes : Memory!OpenCsv(p) \/ Memory!WriteHeader(p) \/ Memory!WriteRow(p)
    BY <1>1 DEF Memory!Profile
  <2>. QED  BY <2>1, <2>2, RepeatOpen, RepeatHeader, RepeatRow
<1>2. CASE Memory!Analyze
  BY <1>2, RepeatRead DEF Memory!Analyze, Memory!written
<1>3. CASE Memory!Refuse
  BY <1>3, RepeatRead DEF Memory!Refuse, Memory!Go, Memory!written
<1>4. CASE Memory!ReadRoot
  BY <1>4, RepeatReadRoot
<1>5. CASE Memory!FindNoRows
  BY <1>5, RepeatFindNoRows
<1>6. ASSUME NEW p \in Processes, Memory!ReadDirectory(p) PROVE RepeatInv'
  BY <1>6, RepeatReadDirectory
<1>7. CASE Memory!ReadAll
  BY <1>7, RepeatReadAll
<1>8. CASE Memory!WriteWide
  BY <1>8, RepeatWriteWide
<1>9. CASE Memory!WriteLong
  BY <1>9, RepeatWriteLong
<1>10. CASE Memory!WriteFails
  BY <1>10, RepeatWriteFails
<1>11. CASE Memory!Reuse
  BY <1>11, RepeatReuse
<1>. QED
  BY <1>1, <1>2, <1>3, <1>4, <1>5, <1>6, <1>7, <1>8, <1>9, <1>10, <1>11 DEF Memory!MergeNext

(***************************************************************************)
(* memory.py: the second and every later analysis of one workload gives    *)
(* the root's file the lines the first gave it, also when the file was cut *)
(* in between and made again.                                              *)
(***************************************************************************)
THEOREM AnalysisIsRepeatableHolds == AnalyzeSpec => AnalysisIsRepeatable
<1>1. AnalyzeInit => RepeatInv
  BY RepeatInitial DEF AnalyzeInit
<1>2. MemoryInv /\ RepeatInv /\ [AnalyzeNext]_analyzeVars => RepeatInv'
  <2>. SUFFICES ASSUME MemoryInv, RepeatInv, [AnalyzeNext]_analyzeVars PROVE RepeatInv'
    OBVIOUS
  <2>1. CASE LatencyRun
    BY <2>1, RepeatIdle DEF LatencyRun
  <2>2. CASE MemoryRun
    BY <2>2, RepeatStep DEF MemoryRun
  <2>3. CASE ThroughputRun
    BY <2>3, RepeatIdle DEF ThroughputRun
  <2>4. CASE UNCHANGED analyzeVars
    BY <2>4, RepeatIdle DEF analyzeVars
  <2>. QED  BY <2>1, <2>2, <2>3, <2>4 DEF AnalyzeNext
<1>3. MemoryInv /\ RepeatInv /\ Memory!WriteLong /\ workload = 1 /\ finished # <<>> /\ ~cut =>
        csv[Memory!Root] = finished
  <2>. SUFFICES ASSUME MemoryInv, RepeatInv, Memory!WriteLong, workload = 1, finished # <<>>, ~cut
                PROVE  csv[Memory!Root] = finished
    OBVIOUS
  <2>1. stage = "long" /\ Listed /\ Finished
    BY DEF Memory!WriteLong, RepeatInv
  <2>2. CASE shared
    BY <2>1, <2>2 DEF Finished
  <2>3. CASE ~shared
    <3>1. csv[Memory!Root] = Memory!Wide /\ merged # <<>> /\ merged \in Table
      BY <2>1 DEF MemoryInv, MergedTell, MemoryType
    <3>2. Memory!DataRows(Memory!Root) = merged
      BY <3>1, WideStarts DEF Memory!DataRows
    <3>3. Listing(merged, Processes)
      BY <2>1, <2>3, <3>1, <3>2 DEF Listed
    <3>4. finished \in Table /\ finished[1] = Memory!Header /\ Listing(Tail(finished), Processes)
      BY <2>1, <2>3 DEF Finished
    <3>5. Tail(finished) \in Table
      BY <3>4 DEF Table
    <3>6. Tail(finished) = merged
      BY <3>1, <3>3, <3>4, <3>5, ListedOnce
    <3>. QED  BY <3>1, <3>4, <3>6, WideStarts
  <2>. QED  BY <2>2, <2>3
<1>4. MemoryInv /\ RepeatInv /\ [AnalyzeNext]_analyzeVars =>
        [Memory!WriteLong /\ workload = 1 /\ finished # <<>> /\ ~cut =>
           csv[Memory!Root] = finished]_(Memory!mergeVars)
  BY <1>3
<1>. QED
  BY <1>1, <1>2, <1>4, MemoryInductive, PTL
     DEF AnalyzeSpec, AnalysisIsRepeatable, Memory!AnalysisIsRepeatable

------------------------------------------------------------------------------
(***************************************************************************)
(* The alignment of offsets.  The slot of a sample tells its pair and its  *)
(* number (SlotDecoded), so that a map shows what was logged, sample by    *)
(* sample, but for those a copy may have missed (Shows).  The rows of a pair have distinct launches and samples; *)
(* a list that lost none has all of them, and there is one such order.     *)
(***************************************************************************)
DiagnosticRow == [offset : Int, latency : Nat]
Entry == [src : Rank, dst : Rank, sample : Sample, offset : Int, latency : Nat]

SlotOfEntry(x) == SlotOf(x.src, x.dst, x.sample)

\* Who writes a row: the follower that of its offset to the root, the root the other.
OfSide(r, x) ==
  \E f \in Follower : \/ r = f /\ x.src = Root /\ x.dst = f
                      \/ r = Root /\ x.src = f /\ x.dst = Root

RowOfEntry(x) == [offset |-> x.offset, latency |-> x.latency]

\* The map of a rank that logged these entries, of which some are sure to be in it.
Shows(m, sure, entries, r) ==
  /\ m \in [Slot -> DiagnosticRow]
  /\ sure \subseteq entries
  /\ \A x \in entries : /\ x \in Entry /\ OfSide(r, x)
                        /\ m[SlotOfEntry(x)] \in {RowOfEntry(x), Unwritten}
  /\ \A x \in sure : m[SlotOfEntry(x)] = RowOfEntry(x)
  /\ \A s \in Slot : m[s] # Unwritten => \E x \in entries : s = SlotOfEntry(x)
  /\ \A x, y \in entries : x.src = y.src /\ x.dst = y.dst /\ x.sample = y.sample => x = y

\* The two rows of a sample say the same.
Opposite(direct, inverse) ==
  \A x \in direct, y \in inverse :
    x.src = y.dst /\ x.dst = y.src /\ x.sample = y.sample => y.offset = -x.offset

Launches == 1..Len(files[Root])

CertainNow(r) == IF r = Root /\ Copying THEN early ELSE log[r]

LaunchShows ==
  /\ \A r \in Rank : Shows(map[r], CertainNow(r), log[r], r)
  /\ \A f \in Follower : Opposite(log[f], log[Root])
  /\ \A r \in Rank : \A x \in log[r] : \A f \in Follower :
       f \in {x.src, x.dst} => x.sample < taken[f]

FilesShow ==
  /\ \A r \in Rank : Len(files[r]) = Len(files[Root]) /\ Len(logs[r]) = Len(files[Root])
  /\ Len(earlies) = Len(files[Root])
  /\ \A i \in Launches : /\ \A r \in Rank : Shows(files[r][i], Certain(r, i), logs[r][i], r)
                         /\ \A f \in Follower : Opposite(logs[f][i], logs[Root][i])

AlignType ==
  /\ shape \in Shapes
  /\ taken \in [Follower -> 0..Samples]
  /\ map \in [Rank -> [Slot -> DiagnosticRow]] /\ log \in [Rank -> SUBSET Entry]
  /\ files \in [Rank -> Seq([Slot -> DiagnosticRow])] /\ logs \in [Rank -> Seq(SUBSET Entry)]
  /\ early \in SUBSET Entry /\ earlies \in Seq(SUBSET Entry)

AlignInv == AlignType /\ LaunchShows /\ FilesShow

LEMMA Ranks ==
  ASSUME shape \in Shapes
  PROVE  /\ shape.ranks \in Nat \ {0} /\ Root \in Rank /\ Rank \subseteq Nat
         /\ Follower \subseteq Rank /\ Root \notin Follower
         /\ Samples \in Nat \ {0} /\ CompactDsts \in Nat \ {0}
         /\ \A f \in Follower : f # Root /\ f \in 1..CompactDsts
<1>1. shape.ranks \in Nat \ {0} /\ Samples \in Nat \ {0} /\ CompactDsts \in Nat \ {0}
  BY AlignmentAssumption DEF AlignmentAssumption
<1>. QED  BY <1>1 DEF Root, Rank, Follower, MaxRanks

(***************************************************************************)
(* The layout: of two different ranks the slots have room for.             *)
(***************************************************************************)
LEMMA SlotDecoded ==
  ASSUME shape \in Shapes, NEW src \in 0..CompactDsts, NEW dst \in 0..CompactDsts, src # dst,
         NEW k \in Sample
  PROVE  /\ SlotOf(src, dst, k) \in Slot
         /\ SrcOf(SlotOf(src, dst, k)) = src /\ DstOf(SlotOf(src, dst, k)) = dst
         /\ SampleOf(SlotOf(src, dst, k)) = k
<1> DEFINE C == CompactDsts  c == Compact(src, dst)  q == src * C + c  s == q * Samples + k
<1>1. C \in Nat \ {0} /\ Samples \in Nat \ {0}
  BY Ranks
<1>2. c \in 0..(C - 1) /\ (c < src <=> dst < src) /\ (c < src => c = dst) /\ (c >= src => c + 1 = dst)
  BY <1>1 DEF Compact
<1>3. k \in 0..(Samples - 1)
  BY DEF Sample
<1>4. s = SlotOf(src, dst, k)
  BY DEF SlotOf
<1>5. q \in Nat /\ q \div C = src /\ q % C = c
  <2>. HIDE DEF c, C
  <2>1. src \in Nat
    OBVIOUS
  <2>. QED  BY <1>1, <1>2, <2>1, Pack
<1>6. q < (C + 1) * C
  <2>1. src \in Nat /\ C + 1 \in Nat /\ src < C + 1
    BY <1>1
  <2>. HIDE DEF c, C
  <2>. QED  BY <1>1, <1>2, <2>1, Below
<1>. HIDE DEF q, c
<1>7. s \in Nat /\ s \div Samples = q /\ s % Samples = k
  BY <1>1, <1>3, <1>5, Pack
<1>8. s < ((C + 1) * C) * Samples
  <2>1. (C + 1) * C \in Nat
    BY <1>1
  <2>. QED  BY <1>1, <1>3, <1>5, <1>6, <2>1, Below
<1>. HIDE DEF s
<1>9. s \in Slot
  <2>1. (C + 1) * C * Samples \in Nat
    BY <1>1
  <2>. QED  BY <1>7, <1>8, <2>1 DEF Slot
<1>10. SrcOf(s) = src
  BY <1>5, <1>7 DEF SrcOf
<1>11. DstOf(s) = dst
  BY <1>2, <1>5, <1>7, <1>10 DEF DstOf
<1>12. SampleOf(s) = k
  BY <1>7 DEF SampleOf
<1>. QED  BY <1>4, <1>9, <1>10, <1>11, <1>12

LEMMA EntryDecoded ==
  ASSUME shape \in Shapes, NEW r, NEW x \in Entry, OfSide(r, x)
  PROVE  /\ SlotOfEntry(x) \in Slot
         /\ SrcOf(SlotOfEntry(x)) = x.src /\ DstOf(SlotOfEntry(x)) = x.dst
         /\ SampleOf(SlotOfEntry(x)) = x.sample
         /\ x.src \in Device /\ x.dst \in Device /\ x.src # x.dst
<1>1. PICK f \in Follower : {x.src, x.dst} = {Root, f} /\ x.src # x.dst
  BY Ranks DEF OfSide
<1>2. Root \in 0..CompactDsts /\ f \in 0..CompactDsts /\ f \in Rank /\ Root \in Rank
  BY Ranks DEF Root
<1>3. x.src \in 0..CompactDsts /\ x.dst \in 0..CompactDsts /\ x.src \in Rank /\ x.dst \in Rank
  BY <1>1, <1>2
<1>4. x.sample \in Sample
  BY DEF Entry
<1>5. x.src \in Device /\ x.dst \in Device
  BY <1>3, Ranks DEF Device, MaxRanks
<1>. QED  BY <1>1, <1>3, <1>4, <1>5, SlotDecoded DEF SlotOfEntry

LEMMA SameSlot ==
  ASSUME shape \in Shapes, NEW r, NEW x \in Entry, OfSide(r, x), NEW y \in Entry, OfSide(r, y)
  PROVE  SlotOfEntry(x) = SlotOfEntry(y) <=>
           x.src = y.src /\ x.dst = y.dst /\ x.sample = y.sample
BY EntryDecoded DEF SlotOfEntry

\* The map with the row of one more sample.
LEMMA ShowsMore ==
  ASSUME shape \in Shapes, NEW r, NEW m, NEW sure, NEW entries, Shows(m, sure, entries, r),
         NEW x \in Entry, OfSide(r, x),
         \A y \in entries : x.src = y.src /\ x.dst = y.dst => x.sample # y.sample
  PROVE  Shows(Put(m, x.src, x.dst, x.sample, x.offset, x.latency),
               sure \cup {x}, entries \cup {x}, r)
<1> DEFINE new == Put(m, x.src, x.dst, x.sample, x.offset, x.latency)
<1>1. new = [m EXCEPT ![SlotOfEntry(x)] = RowOfEntry(x)]
  BY DEF Put, SlotOfEntry, RowOfEntry
<1>2. m \in [Slot -> DiagnosticRow] /\ RowOfEntry(x) \in DiagnosticRow /\ SlotOfEntry(x) \in Slot
  BY EntryDecoded DEF Shows, Entry, DiagnosticRow, RowOfEntry
<1>. HIDE DEF new
<1>3. /\ new \in [Slot -> DiagnosticRow] /\ new[SlotOfEntry(x)] = RowOfEntry(x)
      /\ \A s \in Slot : s # SlotOfEntry(x) => new[s] = m[s]
  BY <1>1, <1>2
<1>4. ASSUME NEW y \in entries
      PROVE  y \in Entry /\ OfSide(r, y) /\ new[SlotOfEntry(y)] = m[SlotOfEntry(y)]
  <2>1. y \in Entry /\ OfSide(r, y)
    BY DEF Shows
  <2>2. SlotOfEntry(y) # SlotOfEntry(x) /\ SlotOfEntry(y) \in Slot
    BY <2>1, SameSlot, EntryDecoded
  <2>. QED  BY <1>3, <2>1, <2>2
<1>5. \A y \in entries : m[SlotOfEntry(y)] \in {RowOfEntry(y), Unwritten}
  BY DEF Shows
<1>6. sure \subseteq entries /\ \A y \in sure : m[SlotOfEntry(y)] = RowOfEntry(y)
  BY DEF Shows
<1>7. \A s \in Slot : new[s] # Unwritten => \E y \in entries \cup {x} : s = SlotOfEntry(y)
  BY <1>3 DEF Shows
<1>8. \A y, z \in entries \cup {x} :
        y.src = z.src /\ y.dst = z.dst /\ y.sample = z.sample => y = z
  BY DEF Shows
<1>9. Shows(new, sure \cup {x}, entries \cup {x}, r)
  BY <1>3, <1>4, <1>5, <1>6, <1>7, <1>8 DEF Shows
<1>. QED  BY <1>9 DEF new

\* The map of a rank that completed one more sample, which its copy misses.
LEMMA ShowsLate ==
  ASSUME shape \in Shapes, NEW r, NEW m, NEW sure, NEW entries, Shows(m, sure, entries, r),
         NEW x \in Entry, OfSide(r, x),
         \A y \in entries : x.src = y.src /\ x.dst = y.dst => x.sample # y.sample
  PROVE  Shows(m, sure, entries \cup {x}, r)
<1>1. m[SlotOfEntry(x)] = Unwritten
  <2>1. SlotOfEntry(x) \in Slot
    BY EntryDecoded
  <2>2. ASSUME NEW y \in entries, SlotOfEntry(x) = SlotOfEntry(y) PROVE FALSE
    <3>1. y \in Entry /\ OfSide(r, y)
      BY DEF Shows
    <3>. QED  BY <2>2, <3>1, SameSlot
  <2>. QED  BY <2>1, <2>2 DEF Shows
<1>2. \A y, z \in entries \cup {x} :
        y.src = z.src /\ y.dst = z.dst /\ y.sample = z.sample => y = z
  BY DEF Shows
<1>. QED  BY <1>1, <1>2 DEF Shows

LEMMA ShowsLess ==
  ASSUME NEW r, NEW m, NEW sure, NEW entries, Shows(m, sure, entries, r), NEW less \in SUBSET sure
  PROVE  Shows(m, less, entries, r)
BY DEF Shows

LEMMA NothingShown == \A r : Shows(Zeroed, {}, {}, r)
<1>1. Unwritten \in DiagnosticRow
  BY DEF Unwritten, DiagnosticRow
<1>2. Zeroed \in [Slot -> DiagnosticRow] /\ \A s \in Slot : Zeroed[s] = Unwritten
  BY <1>1 DEF Zeroed
<1>. QED  BY <1>2 DEF Shows

\* What a map shows depends on the shape of the run alone.
LEMMA ShapeKept ==
  ASSUME shape' = shape
  PROVE  /\ Entry' = Entry
         /\ \A m, sure, entries, r :
              Shows(m, sure, entries, r)' <=> Shows(m, sure, entries, r)
<1>1. Rank' = Rank /\ Follower' = Follower
  BY DEF Rank, Follower
<1>2. Entry' = Entry
  BY <1>1 DEF Entry
<1>. QED  BY <1>1, <1>2 DEF Shows, OfSide

LEMMA AlignInitial == RecordsInit => AlignInv
<1>. SUFFICES ASSUME RecordsInit PROVE AlignInv
  OBVIOUS
<1>1. shape \in Shapes
  BY DEF RecordsInit, Init
<1>2. /\ Samples \in Nat \ {0} /\ Follower \subseteq Rank /\ Root \in Rank
  BY <1>1, Ranks
<1>3. taken = [f \in Follower |-> 0] /\ map = [r \in Rank |-> Zeroed] /\ log = [r \in Rank |-> {}]
      /\ files = [r \in Rank |-> <<>>] /\ logs = [r \in Rank |-> <<>>]
      /\ copied = Waiting /\ early = {} /\ earlies = <<>>
  BY DEF RecordsInit, Init
<1>4. Zeroed \in [Slot -> DiagnosticRow]
  BY NothingShown DEF Shows
<1>5. AlignType
  <2>1. taken \in [Follower -> 0..Samples]
    BY <1>2, <1>3
  <2>2. map \in [Rank -> [Slot -> DiagnosticRow]] /\ log \in [Rank -> SUBSET Entry]
    BY <1>3, <1>4
  <2>3. files \in [Rank -> Seq([Slot -> DiagnosticRow])] /\ logs \in [Rank -> Seq(SUBSET Entry)]
    BY <1>3
  <2>4. early \in SUBSET Entry /\ earlies \in Seq(SUBSET Entry)
    BY <1>3
  <2>. QED  BY <1>1, <2>1, <2>2, <2>3, <2>4 DEF AlignType
<1>6. LaunchShows
  <2>1. \A r \in Rank : map[r] = Zeroed /\ log[r] = {} /\ CertainNow(r) = {}
    BY <1>3 DEF CertainNow
  <2>. QED  BY <1>2, <2>1, NothingShown DEF LaunchShows, Opposite
<1>7. FilesShow
  <2>1. \A r \in Rank : files[r] = <<>> /\ logs[r] = <<>>
    BY <1>3
  <2>. QED  BY <1>2, <1>3, <2>1 DEF FilesShow, Launches
<1>. QED  BY <1>5, <1>6, <1>7 DEF AlignInv

\* Nothing a map shows is lost by the copy of what is in the buffer.
LEMMA BarrierLeft == ASSUME AlignInv, LeaveBarrier PROVE AlignInv'
<1>1. /\ shape \in Shapes /\ ~Copying /\ copied' = 0 /\ early' = log[Root]
      /\ UNCHANGED <<shape, taken, map, log, files, logs, earlies>>
  BY DEF LeaveBarrier, AlignInv, AlignType
<1>2. Rank' = Rank /\ Follower' = Follower /\ Launches' = Launches
  BY <1>1 DEF Rank, Follower, Launches
<1>3. log[Root] \in SUBSET Entry
  BY <1>1, Ranks DEF AlignInv, AlignType
<1>4. AlignType'
  BY <1>1, <1>2, <1>3, ShapeKept DEF AlignInv, AlignType
<1>5. \A r \in Rank : CertainNow(r)' = CertainNow(r)
  BY <1>1 DEF CertainNow, Copying
<1>6. LaunchShows'
  BY <1>1, <1>2, <1>5, ShapeKept DEF AlignInv, LaunchShows
<1>7. FilesShow'
  BY <1>1, <1>2, ShapeKept DEF AlignInv, FilesShow, Certain
<1>. QED  BY <1>4, <1>6, <1>7 DEF AlignInv

LEMMA SampleTaken ==
  ASSUME AlignInv, NEW f \in Follower, TakeSample(f)
  PROVE  AlignInv'
<1> DEFINE k == taken[f]
<1>1. /\ shape \in Shapes /\ shape' = shape /\ files' = files /\ logs' = logs
      /\ early' = early /\ earlies' = earlies
  BY DEF TakeSample, AlignInv, AlignType
<1>2. Rank' = Rank /\ Follower' = Follower /\ Launches' = Launches
  BY <1>1 DEF Rank, Follower, Launches
<1>3. /\ Samples \in Nat \ {0} /\ Follower \subseteq Rank /\ Root \in Rank /\ Root \notin Follower
  BY <1>1, Ranks
<1>4. k \in Sample /\ taken \in [Follower -> 0..Samples]
  BY <1>3 DEF TakeSample, MoreSamples, AlignInv, AlignType, Sample
<1>5. /\ taken' \in [Follower -> 0..Samples] /\ taken'[f] = k + 1
      /\ \A g \in Follower : taken'[g] >= taken[g]
  <2>1. taken' = [taken EXCEPT ![f] = @ + 1]
    BY DEF TakeSample
  <2>2. k + 1 \in 0..Samples
    BY <1>3, <1>4 DEF Sample
  <2>3. \A g \in Follower : taken[g] \in Int
    BY <1>4
  <2>4. \A g \in Follower : g # f => taken'[g] = taken[g]
    BY <1>4, <2>1
  <2>5. taken'[f] = k + 1 /\ k \in Int
    BY <1>3, <1>4, <2>1 DEF Sample
  <2>. QED  BY <1>4, <2>1, <2>2, <2>3, <2>4, <2>5
<1>6. FilesShow'
  BY <1>1, <1>2, ShapeKept DEF FilesShow, AlignInv, Certain
<1>7. SUFFICES /\ map' \in [Rank -> [Slot -> DiagnosticRow]] /\ log' \in [Rank -> SUBSET Entry]
               /\ \A r \in Rank : Shows(map'[r], CertainNow(r)', log'[r], r)
               /\ \A g \in Follower : Opposite(log'[g], log'[Root])
               /\ \A r \in Rank : \A x \in log'[r] : \A g \in Follower :
                    g \in {x.src, x.dst} => x.sample < taken'[g]
  BY <1>1, <1>2, <1>5, <1>6, ShapeKept DEF AlignInv, AlignType, LaunchShows
<1>8. /\ map \in [Rank -> [Slot -> DiagnosticRow]] /\ log \in [Rank -> SUBSET Entry]
      /\ \A r \in Rank : Shows(map[r], CertainNow(r), log[r], r)
      /\ \A g \in Follower : Opposite(log[g], log[Root])
      /\ \A r \in Rank : \A x \in log[r] : \A g \in Follower :
           g \in {x.src, x.dst} => x.sample < taken[g]
  BY DEF AlignInv, AlignType, LaunchShows
<1>9. \A r \in Rank : \A x \in log[r] : x.sample \in Int
  <2>1. \A r \in Rank : \A x \in log[r] : x \in Entry
    BY <1>8
  <2>. QED  BY <2>1, <1>3 DEF Entry, Sample
<1>10. \A r \in Rank : \A x \in log[r] : \A g \in Follower :
         g \in {x.src, x.dst} => x.sample < taken'[g]
  <2>1. \A g \in Follower : taken[g] \in Int /\ taken'[g] \in Int
    BY <1>4, <1>5
  <2>. QED  BY <2>1, <1>5, <1>8, <1>9
<1>11. CASE UNCHANGED <<map, copied, log>>
  <2>1. \A r \in Rank : CertainNow(r)' = CertainNow(r)
    BY <1>1, <1>11 DEF CertainNow, Copying
  <2>. QED  BY <1>8, <1>10, <1>11, <2>1
<1>12. CASE \E x \in Results, root \in Outcome :
          LET o == x.offset
              l == x.latency
              slot == SlotOf(f, Root, k)
              inMap == IF root = "stored" THEN {f, Root} ELSE {f}
              inLog == IF root = "missed" THEN {f} ELSE {f, Root}
              mapOf(r) == IF r = f THEN Put(map[r], Root, f, k, o, l)
                                   ELSE Put(map[r], f, Root, k, Negated(o), l)
              logOf(r) == IF r = f THEN Sampled(Root, f, k, o, l)
                                   ELSE Sampled(f, Root, k, -o, l)
          IN  /\ root = "stored" => copied <= slot
              /\ root = "late" => Copying
              /\ copied' = IF root = "late" THEN CopiedWithout(slot) ELSE copied
              /\ map' = [r \in Rank |-> IF r \in inMap THEN mapOf(r) ELSE map[r]]
              /\ log' = [r \in Rank |-> IF r \in inLog THEN log[r] \cup {logOf(r)} ELSE log[r]]
  <2> DEFINE row(x, r) == IF r = f THEN Put(map[r], Root, f, k, x.offset, x.latency)
                                   ELSE Put(map[r], f, Root, k, Negated(x.offset), x.latency)
             sample(x, r) == IF r = f THEN Sampled(Root, f, k, x.offset, x.latency)
                                      ELSE Sampled(f, Root, k, -x.offset, x.latency)
  <2>1. PICK x \in Results, root \in Outcome :
          LET inMap == IF root = "stored" THEN {f, Root} ELSE {f}
              inLog == IF root = "missed" THEN {f} ELSE {f, Root}
          IN  /\ root = "late" => Copying
              /\ copied' = IF root = "late" THEN CopiedWithout(SlotOf(f, Root, k)) ELSE copied
              /\ map' = [r \in Rank |-> IF r \in inMap THEN row(x, r) ELSE map[r]]
              /\ log' = [r \in Rank |-> IF r \in inLog THEN log[r] \cup {sample(x, r)} ELSE log[r]]
    BY <1>12
  <2> DEFINE o == x.offset  l == x.latency
             inMap == IF root = "stored" THEN {f, Root} ELSE {f}
             sides == IF root = "missed" THEN {f} ELSE {f, Root}
             a == Sampled(Root, f, k, o, l)
             b == Sampled(f, Root, k, -o, l)
             new(r) == IF r = f THEN a ELSE b
  <2>2. o \in Int /\ l \in Nat /\ -o \in Int
    <3>1. x \in [offset : Int, latency : Nat]
      BY AlignmentAssumption DEF AlignmentAssumption
    <3>. QED  BY <3>1
  <2>3. /\ a \in Entry /\ a.src = Root /\ a.dst = f /\ a.sample = k /\ a.offset = o /\ a.latency = l
        /\ b \in Entry /\ b.src = f /\ b.dst = Root /\ b.sample = k /\ b.offset = -o /\ b.latency = l
    BY <1>3, <1>4, <2>2 DEF Sampled, Entry
  <2>. HIDE DEF a, b
  <2>4. f # Root /\ f \in Rank /\ sides \subseteq Rank /\ f \in sides
    BY <1>3
  <2>5. OfSide(f, a) /\ OfSide(Root, b)
    BY <2>3 DEF OfSide
  <2>6. \A r \in Rank : log'[r] = IF r \in sides THEN log[r] \cup {new(r)} ELSE log[r]
    BY <2>1 DEF a, b
  <2>7. /\ map'[f] = Put(map[f], a.src, a.dst, a.sample, a.offset, a.latency)
        /\ root = "stored" =>
             map'[Root] = Put(map[Root], b.src, b.dst, b.sample, b.offset, b.latency)
        /\ \A r \in Rank : r \notin inMap => map'[r] = map[r]
    BY <1>3, <2>1, <2>3, <2>4 DEF Negated
  <2>8. \A r \in sides : new(r) \in Entry /\ OfSide(r, new(r))
    BY <2>3, <2>4, <2>5
  <2>9. \A r \in Rank : \A z \in log[r] : f \in {z.src, z.dst} => z.sample # k
    BY <1>4, <1>8, <1>9
  <2>10. \A r \in Rank : Shows(map'[r], CertainNow(r)', log'[r], r)
    <3>1. Shows(map'[f], CertainNow(f)', log'[f], f)
      <4>1. \A y \in log[f] : a.src = y.src /\ a.dst = y.dst => a.sample # y.sample
        BY <2>3, <2>4, <2>9
      <4>2. CertainNow(f) = log[f] /\ CertainNow(f)' = log'[f]
        BY <2>4 DEF CertainNow
      <4>3. Shows(map[f], log[f], log[f], f)
        BY <1>8, <2>4, <4>2
      <4>4. log'[f] = log[f] \cup {a}
        BY <2>4, <2>6
      <4>. QED  BY <1>1, <2>3, <2>5, <2>7, <4>1, <4>2, <4>3, <4>4, ShowsMore
    <3>2. Shows(map'[Root], CertainNow(Root)', log'[Root], Root)
      <4>1. \A y \in log[Root] : b.src = y.src /\ b.dst = y.dst => b.sample # y.sample
        BY <1>3, <2>3, <2>9
      <4>2. Shows(map[Root], CertainNow(Root), log[Root], Root)
        BY <1>3, <1>8
      <4>3. /\ root # "missed" => log'[Root] = log[Root] \cup {b}
            /\ root = "missed" => log'[Root] = log[Root]
        BY <1>3, <2>4, <2>6
      <4>4. root # "stored" => map'[Root] = map[Root]
        BY <1>3, <2>4, <2>7
      <4>5. CertainNow(Root)' = IF Copying THEN CertainNow(Root) ELSE log'[Root]
        <5>1. SlotOf(f, Root, k) \in Nat
          <6>1. SlotOf(b.src, b.dst, b.sample) \in Slot
            BY <1>1, <2>3, <2>5, EntryDecoded DEF SlotOfEntry
          <6>. QED  BY <2>3, <6>1 DEF Slot
        <5>2. Copying' = Copying
          BY <2>1, <5>1 DEF Copying, CopiedWithout, Waiting
        <5>. QED  BY <1>1, <5>2 DEF CertainNow
      <4>6. ~Copying => CertainNow(Root) = log[Root]
        BY DEF CertainNow
      <4>7. CASE root = "stored"
        <5>1. /\ map'[Root] = Put(map[Root], b.src, b.dst, b.sample, b.offset, b.latency)
              /\ log'[Root] = log[Root] \cup {b}
          BY <2>7, <4>3, <4>7
        <5>2. Shows(map'[Root], CertainNow(Root) \cup {b}, log'[Root], Root)
          <6> DEFINE m == map[Root]  sure == CertainNow(Root)  entries == log[Root]
          <6>1. Shows(m, sure, entries, Root)
            BY <4>2
          <6>2. \A y \in entries : b.src = y.src /\ b.dst = y.dst => b.sample # y.sample
            BY <4>1
          <6>. HIDE DEF m, sure, entries
          <6>3. Shows(Put(m, b.src, b.dst, b.sample, b.offset, b.latency),
                      sure \cup {b}, entries \cup {b}, Root)
            BY <1>1, <2>3, <2>5, <6>1, <6>2, ShowsMore
          <6>. QED  BY <5>1, <6>3 DEF m, sure, entries
        <5>3. CertainNow(Root)' \in SUBSET (CertainNow(Root) \cup {b})
          BY <4>5, <4>6, <5>1
        <5>. QED  BY <5>2, <5>3, ShowsLess
      <4>8. CASE root = "late"
        <5>1. Copying /\ CertainNow(Root)' = CertainNow(Root)
          BY <2>1, <4>5, <4>8
        <5>. QED  BY <1>1, <2>3, <2>5, <4>1, <4>2, <4>3, <4>4, <4>8, <5>1, ShowsLate
      <4>9. CASE root = "missed"
        BY <4>2, <4>3, <4>4, <4>5, <4>6, <4>9
      <4>. QED  BY <4>7, <4>8, <4>9 DEF Outcome
    <3>3. \A r \in Rank : r \notin {f, Root} => Shows(map'[r], CertainNow(r)', log'[r], r)
      BY <1>8, <2>6, <2>7 DEF CertainNow
    <3>. QED  BY <3>1, <3>2, <3>3
  <2>11. ASSUME NEW g \in Follower PROVE Opposite(log'[g], log'[Root])
    <3>1. g \in Rank /\ g # Root
      BY <1>3
    <3>. SUFFICES ASSUME NEW z \in log'[g], NEW y \in log'[Root],
                         z.src = y.dst, z.dst = y.src, z.sample = y.sample
                  PROVE  y.offset = -z.offset
      BY DEF Opposite
    <3>2. z \in log[g] \/ (z = a /\ g = f)
      BY <2>1, <2>6, <3>1
    <3>3. y \in log[Root] \/ y = b
      BY <1>3, <2>4, <2>6
    <3>4. CASE z \in log[g] /\ y \in log[Root]
      BY <1>8, <3>4 DEF Opposite
    <3>5. CASE z = a /\ y = b
      BY <2>2, <2>3, <3>5
    <3>6. CASE z \in log[g] /\ y = b
      BY <2>3, <2>9, <3>1, <3>6
    <3>7. CASE z = a /\ y \in log[Root]
      BY <1>3, <2>3, <2>9, <3>7
    <3>. QED  BY <3>2, <3>3, <3>4, <3>5, <3>6, <3>7
  <2>12. \A r \in Rank : \A z \in log'[r] : \A g \in Follower :
           g \in {z.src, z.dst} => z.sample < taken'[g]
    <3>. SUFFICES ASSUME NEW r \in Rank, NEW z \in log'[r], NEW g \in Follower,
                         g \in {z.src, z.dst}
                  PROVE  z.sample < taken'[g]
      OBVIOUS
    <3>1. z \in log[r] \/ z \in {a, b}
      BY <2>6
    <3>2. CASE z \in {a, b}
      <4>1. g = f /\ z.sample = k
        BY <1>3, <2>3, <3>2
      <4>2. k \in Int
        BY <1>3, <1>4 DEF Sample
      <4>. QED  BY <1>5, <4>1, <4>2
    <3>. QED  BY <1>10, <3>1, <3>2
  <2>13. log' \in [Rank -> SUBSET Entry]
    <3>1. \A r \in Rank : log'[r] \subseteq Entry
      BY <1>8, <2>6, <2>8
    <3>2. log' = [r \in Rank |-> log'[r]]
      BY <2>1
    <3>. QED  BY <3>1, <3>2
  <2>14. map' \in [Rank -> [Slot -> DiagnosticRow]]
    <3>1. \A r \in Rank : map'[r] \in [Slot -> DiagnosticRow]
      BY <2>10 DEF Shows
    <3>2. map' = [r \in Rank |-> map'[r]]
      BY <2>1
    <3>. QED  BY <3>1, <3>2
  <2>. QED  BY <2>10, <2>11, <2>12, <2>13, <2>14
<1>. QED  BY <1>11, <1>12 DEF TakeSample

LEMMA LaunchSaved == ASSUME AlignInv, Save PROVE AlignInv'
<1>1. /\ shape \in Shapes /\ shape' = shape
      /\ files' = [r \in Rank |-> Append(files[r], map[r])]
      /\ logs' = [r \in Rank |-> Append(logs[r], log[r])]
      /\ taken' = [f \in Follower |-> 0]
      /\ map' = [r \in Rank |-> Zeroed] /\ log' = [r \in Rank |-> {}]
      /\ earlies' = Append(earlies, CertainNow(Root))
      /\ copied' = Waiting /\ early' = {}
  BY DEF Save, AlignInv, AlignType, CertainNow
<1>2. Rank' = Rank /\ Follower' = Follower
  BY <1>1 DEF Rank, Follower
<1>3. Samples \in Nat \ {0} /\ Follower \subseteq Rank /\ Root \in Rank
  BY <1>1, Ranks
<1>4. /\ map \in [Rank -> [Slot -> DiagnosticRow]] /\ log \in [Rank -> SUBSET Entry]
      /\ files \in [Rank -> Seq([Slot -> DiagnosticRow])] /\ logs \in [Rank -> Seq(SUBSET Entry)]
      /\ earlies \in Seq(SUBSET Entry) /\ CertainNow(Root) \in SUBSET Entry
  BY <1>3 DEF AlignInv, AlignType, CertainNow
<1>5. Zeroed \in [Slot -> DiagnosticRow]
  BY NothingShown DEF Shows
<1>6. AlignType'
  <2>1. \A r \in Rank : /\ Append(files[r], map[r]) \in Seq([Slot -> DiagnosticRow])
                        /\ Append(logs[r], log[r]) \in Seq(SUBSET Entry)
    BY <1>4
  <2>2. taken' \in [Follower -> 0..Samples]
    BY <1>1, <1>3
  <2>3. map' \in [Rank -> [Slot -> DiagnosticRow]] /\ log' \in [Rank -> SUBSET Entry]
    BY <1>1, <1>5
  <2>4. files' \in [Rank -> Seq([Slot -> DiagnosticRow])] /\ logs' \in [Rank -> Seq(SUBSET Entry)]
    BY <1>1, <2>1
  <2>5. early' \in SUBSET Entry /\ earlies' \in Seq(SUBSET Entry)
    BY <1>1, <1>4
  <2>. QED  BY <1>1, <1>2, <2>2, <2>3, <2>4, <2>5, ShapeKept DEF AlignType
<1>7. LaunchShows'
  <2>1. \A r \in Rank : map'[r] = Zeroed /\ log'[r] = {} /\ CertainNow(r)' = {}
    BY <1>1 DEF CertainNow, Copying
  <2>2. \A r \in Rank : Shows(map'[r], CertainNow(r)', log'[r], r)
    BY <2>1, NothingShown
  <2>3. \A f \in Follower : Opposite(log'[f], log'[Root])
    BY <1>3, <2>1 DEF Opposite
  <2>4. \A r \in Rank : \A x \in log'[r] : \A f \in Follower :
          f \in {x.src, x.dst} => x.sample < taken'[f]
    BY <2>1
  <2>. QED  BY <1>1, <1>2, <2>2, <2>3, <2>4, ShapeKept DEF LaunchShows
<1>8. FilesShow'
  <2> DEFINE n == Len(files[Root])
  <2>1. n \in Nat /\ Len(earlies) = n /\ \A r \in Rank : Len(files[r]) = n /\ Len(logs[r]) = n
    BY <1>3, <1>4 DEF AlignInv, FilesShow
  <2>. HIDE DEF n
  <2>2. \A r \in Rank : /\ Len(files'[r]) = n + 1 /\ Len(logs'[r]) = n + 1
                        /\ files'[r][n + 1] = map[r] /\ logs'[r][n + 1] = log[r]
                        /\ \A i \in 1..n : files'[r][i] = files[r][i] /\ logs'[r][i] = logs[r][i]
    <3>. SUFFICES ASSUME NEW r \in Rank
                  PROVE  /\ Len(files'[r]) = n + 1 /\ Len(logs'[r]) = n + 1
                         /\ files'[r][n + 1] = map[r] /\ logs'[r][n + 1] = log[r]
                         /\ \A i \in 1..n : files'[r][i] = files[r][i] /\ logs'[r][i] = logs[r][i]
      OBVIOUS
    <3>1. files'[r] = Append(files[r], map[r]) /\ logs'[r] = Append(logs[r], log[r])
      BY <1>1
    <3>2. files[r] \in Seq([Slot -> DiagnosticRow]) /\ logs[r] \in Seq(SUBSET Entry)
      BY <1>4
    <3>3. Len(files[r]) = n /\ Len(logs[r]) = n
      BY <2>1
    <3>. QED  BY <2>1, <3>1, <3>2, <3>3
  <2>3. Launches' = 1..(n + 1) /\ Launches = 1..n
    BY <1>3, <2>2 DEF Launches, n
  <2>4. \A i \in 1..(n + 1) : i \in 1..n \/ i = n + 1
    BY <2>1
  <2>5. /\ Len(earlies') = n + 1 /\ earlies'[n + 1] = CertainNow(Root)
        /\ \A i \in 1..n : earlies'[i] = earlies[i]
    BY <1>1, <1>4, <2>1
  <2> DEFINE sure(r, i) == IF r = Root THEN earlies'[i] ELSE logs'[r][i]
  <2>6. \A r \in Rank : sure(r, n + 1) = CertainNow(r)
    BY <2>2, <2>5 DEF CertainNow
  <2>7. \A i \in 1..(n + 1) : \A r \in Rank : Shows(files'[r][i], Certain(r, i)', logs'[r][i], r)
    <3>1. ASSUME NEW i \in 1..n, NEW r \in Rank
          PROVE  Shows(files'[r][i], sure(r, i), logs'[r][i], r)
      <4>1. Shows(files[r][i], Certain(r, i), logs[r][i], r)
        BY <2>3 DEF AlignInv, FilesShow
      <4>2. sure(r, i) = Certain(r, i)
        BY <2>2, <2>5 DEF Certain
      <4>. HIDE DEF sure
      <4>. QED  BY <2>2, <4>1, <4>2
    <3>2. ASSUME NEW r \in Rank
          PROVE  Shows(files'[r][n + 1], sure(r, n + 1), logs'[r][n + 1], r)
      <4>1. Shows(map[r], CertainNow(r), log[r], r)
        BY DEF AlignInv, LaunchShows
      <4>. HIDE DEF sure
      <4>. QED  BY <2>2, <2>6, <4>1
    <3>3. ASSUME NEW i \in 1..(n + 1), NEW r \in Rank
          PROVE  Shows(files'[r][i], sure(r, i), logs'[r][i], r)
      <4>. HIDE DEF sure
      <4>. QED  BY <2>4, <3>1, <3>2
    <3>. QED  BY <3>3 DEF Certain
  <2>8. \A i \in 1..(n + 1) : \A f \in Follower : Opposite(logs'[f][i], logs'[Root][i])
    <3>1. \A i \in 1..n : \A f \in Follower : Opposite(logs[f][i], logs[Root][i])
      BY <2>3 DEF AlignInv, FilesShow
    <3>2. \A f \in Follower : Opposite(log[f], log[Root])
      BY DEF AlignInv, LaunchShows
    <3>. QED  BY <1>3, <2>2, <2>4, <3>1, <3>2
  <2>. QED  BY <1>1, <1>2, <1>3, <2>2, <2>3, <2>5, <2>7, <2>8, ShapeKept DEF FilesShow
<1>. QED  BY <1>6, <1>7, <1>8 DEF AlignInv

LEMMA AlignIdle == ASSUME AlignInv, UNCHANGED vars PROVE AlignInv'
BY ShapeKept DEF AlignInv, AlignType, LaunchShows, FilesShow, Launches, vars, Rank, Follower,
                Certain, CertainNow, Copying

LEMMA AlignStep == AlignInv /\ [RecordsNext]_allVars => AlignInv'
<1>. SUFFICES ASSUME AlignInv, [RecordsNext]_allVars PROVE AlignInv'
  OBVIOUS
<1>1. CASE CalibrationStep
  BY <1>1, SampleTaken, BarrierLeft DEF CalibrationStep, Calibrate
<1>2. ASSUME NEW r \in Receiver, HookSaves(r) \/ LocalSaves(r) PROVE AlignInv'
  BY <1>2, AlignIdle DEF HookSaves, LocalSaves
<1>3. CASE SaveAll
  BY <1>3, LaunchSaved DEF SaveAll
<1>4. CASE UNCHANGED allVars
  BY <1>4, AlignIdle DEF allVars
<1>. QED  BY <1>1, <1>2, <1>3, <1>4 DEF RecordsNext

(***************************************************************************)
(* What the maps and the files show was logged, and what rank 0 had logged *)
(* before its copy began, or a follower at all, they show, in any run.     *)
(***************************************************************************)
THEOREM AlignInductive == AnalyzeSpec => []AlignInv
<1>1. AnalyzeInit => AlignInv
  BY AlignInitial DEF AnalyzeInit
<1>2. AlignInv /\ [AnalyzeNext]_analyzeVars => AlignInv'
  BY AlignStep, AlignIdle
     DEF AnalyzeNext, LatencyRun, MemoryRun, ThroughputRun, analyzeVars, allVars
<1>. QED  BY <1>1, <1>2, PTL DEF AnalyzeSpec

(***************************************************************************)
(* The decoder reads the rows it can tell from unwritten slots.            *)
(***************************************************************************)
LEMMA DecodesTheLog == AlignInv => DecodedIsLogged
<1>. SUFFICES ASSUME AlignInv, NEW r \in Rank, NEW i \in 1..Len(files[r])
              PROVE  /\ Decoded(r, i) \subseteq logs[r][i]
                     /\ {x \in Certain(r, i) : ~Blank(x)} \subseteq Decoded(r, i)
  BY DEF DecodedIsLogged
<1> DEFINE m == files[r][i]  entries == logs[r][i]
<1>1. shape \in Shapes /\ Shows(m, Certain(r, i), entries, r)
  BY DEF AlignInv, AlignType, FilesShow, Launches
<1>2. m \in [Slot -> DiagnosticRow]
  BY <1>1 DEF Shows
<1>3. Decoded(r, i) = {Sampled(SrcOf(s), DstOf(s), SampleOf(s), m[s].offset, m[s].latency)
                         : s \in Kept(r, i)}
  BY DEF Decoded
<1>4. ASSUME NEW s \in Kept(r, i)
      PROVE  Sampled(SrcOf(s), DstOf(s), SampleOf(s), m[s].offset, m[s].latency) \in entries
  <2>1. s \in Slot /\ ~IsUnwritten(m[s])
    BY DEF Kept
  <2>2. m[s] # Unwritten
    BY <2>1 DEF Unwritten, IsUnwritten
  <2>3. PICK x \in entries : s = SlotOfEntry(x)
    BY <1>1, <2>1, <2>2 DEF Shows
  <2>4. x \in Entry /\ OfSide(r, x) /\ m[s] = RowOfEntry(x)
    BY <1>1, <2>2, <2>3 DEF Shows
  <2>5. SrcOf(s) = x.src /\ DstOf(s) = x.dst /\ SampleOf(s) = x.sample
    BY <1>1, <2>3, <2>4, EntryDecoded
  <2>6. m[s].offset = x.offset /\ m[s].latency = x.latency
    BY <2>4 DEF RowOfEntry
  <2>7. Sampled(SrcOf(s), DstOf(s), SampleOf(s), m[s].offset, m[s].latency) = x
    BY <2>4, <2>5, <2>6 DEF Sampled, Entry
  <2>. QED  BY <2>7
<1>5. ASSUME NEW x \in Certain(r, i), ~Blank(x)
      PROVE  x \in {Sampled(SrcOf(s), DstOf(s), SampleOf(s), m[s].offset, m[s].latency)
                      : s \in Kept(r, i)}
  <2> DEFINE s == SlotOfEntry(x)
  <2>1. x \in Entry /\ OfSide(r, x) /\ m[s] = RowOfEntry(x)
    BY <1>1 DEF Shows
  <2>2. /\ s \in Slot /\ SrcOf(s) = x.src /\ DstOf(s) = x.dst /\ SampleOf(s) = x.sample
        /\ x.src \in Device /\ x.dst \in Device
    BY <1>1, <2>1, EntryDecoded
  <2>. HIDE DEF s
  <2>3. m[s].offset = x.offset /\ m[s].latency = x.latency
    BY <2>1 DEF RowOfEntry
  <2>4. s \in Kept(r, i)
    BY <1>5, <2>2, <2>3 DEF Kept, IsUnwritten, Blank
  <2>5. Sampled(SrcOf(s), DstOf(s), SampleOf(s), m[s].offset, m[s].latency) = x
    BY <2>1, <2>2, <2>3 DEF Sampled, Entry
  <2>. QED  BY <2>4, <2>5
<1>. QED  BY <1>3, <1>4, <1>5

(***************************************************************************)
(* The rank of a row among rows of distinct launches and samples is its    *)
(* place: every place up to their number is taken by one of them, and the  *)
(* list made by place is in order.                                         *)
(***************************************************************************)
Keyed(kept) ==
  /\ \A a \in kept : a.file \in Int /\ a.sample \in Int
  /\ \A a, b \in kept : a.file = b.file /\ a.sample = b.sample => a = b

ByPlace(kept) ==
  [n \in 1..Cardinality(kept) |->
     CHOOSE a \in kept : Cardinality({b \in kept : Before(b, a)}) = n - 1]

LEMMA Places ==
  ASSUME NEW kept, IsFiniteSet(kept), Keyed(kept)
  PROVE  /\ ByPlace(kept) \in Seq(kept) /\ Len(ByPlace(kept)) = Cardinality(kept)
         /\ Range(ByPlace(kept)) = kept
         /\ \A i, j \in DOMAIN ByPlace(kept) : i < j => Before(ByPlace(kept)[i], ByPlace(kept)[j])
<1> DEFINE N == Cardinality(kept)
           earlier(a) == {b \in kept : Before(b, a)}
           place == [a \in kept |-> Cardinality(earlier(a))]
           list == ByPlace(kept)
<1>1. N \in Nat
  BY FS_CardinalityType
<1>2. \A a \in kept : IsFiniteSet(earlier(a)) /\ place[a] \in Nat
  <2>1. ASSUME NEW a \in kept PROVE IsFiniteSet(earlier(a)) /\ Cardinality(earlier(a)) \in Nat
    <3>1. earlier(a) \in SUBSET kept
      OBVIOUS
    <3>. HIDE DEF earlier
    <3>2. IsFiniteSet(earlier(a))
      BY <3>1, FS_Subset
    <3>. QED  BY <3>2, FS_CardinalityType
  <2>. QED  BY <2>1
<1>3. \A a \in kept : place[a] \in 0..(N - 1)
  <2>. SUFFICES ASSUME NEW a \in kept PROVE place[a] \in 0..(N - 1)
    OBVIOUS
  <2>1. earlier(a) \in SUBSET (kept \ {a})
    BY DEF Keyed, Before
  <2>2. IsFiniteSet(kept \ {a}) /\ Cardinality(kept \ {a}) = N - 1
    BY FS_RemoveElement
  <2>3. Cardinality(earlier(a)) <= N - 1
    <3>. HIDE DEF earlier, N
    <3>. QED  BY <2>1, <2>2, FS_Subset
  <2>4. place[a] = Cardinality(earlier(a)) /\ place[a] \in Nat
    BY <1>2
  <2>. HIDE DEF place, earlier, N
  <2>. QED  BY <1>1, <2>3, <2>4
<1>4. ASSUME NEW a \in kept, NEW b \in kept, Before(a, b)
      PROVE  place[a] < place[b]
  <2>1. earlier(a) \cup {a} \in SUBSET earlier(b)
    BY <1>4 DEF Keyed, Before
  <2>2. a \notin earlier(a)
    BY DEF Keyed, Before
  <2>3. IsFiniteSet(earlier(a)) /\ IsFiniteSet(earlier(b)) /\ place[a] \in Nat /\ place[b] \in Nat
    BY <1>2
  <2>4. place[a] = Cardinality(earlier(a)) /\ place[b] = Cardinality(earlier(b))
    OBVIOUS
  <2>5. Cardinality(earlier(a) \cup {a}) = Cardinality(earlier(a)) + 1
    <3>. HIDE DEF earlier
    <3>. QED  BY <2>2, <2>3, FS_AddElement
  <2>6. Cardinality(earlier(a) \cup {a}) <= Cardinality(earlier(b))
    <3>. HIDE DEF earlier
    <3>. QED  BY <2>1, <2>3, FS_Subset
  <2>. HIDE DEF earlier, place
  <2>. QED  BY <2>3, <2>4, <2>5, <2>6
<1>5. \A a, b \in kept : a = b \/ Before(a, b) \/ Before(b, a)
  BY DEF Keyed, Before
<1>6. \A a, b \in kept : place[a] = place[b] => a = b
  <2>. SUFFICES ASSUME NEW a \in kept, NEW b \in kept, place[a] = place[b] PROVE a = b
    OBVIOUS
  <2>. HIDE DEF place, earlier
  <2>1. place[a] \in Int /\ place[b] \in Int
    BY <1>2
  <2>2. ~ Before(a, b) /\ ~ Before(b, a)
    BY <1>4, <2>1
  <2>. QED  BY <1>5, <2>2
<1>7. \A k \in 0..(N - 1) : \E a \in kept : place[a] = k
  <2> DEFINE P == {place[a] : a \in kept}
  <2>1. place \in Surjection(kept, P) /\ place \in Injection(kept, P)
    <3>1. place \in [kept -> P]
      OBVIOUS
    <3>. HIDE DEF place
    <3>2. \A k \in P : \E a \in kept : place[a] = k
      OBVIOUS
    <3>. HIDE DEF P
    <3>. QED  BY <1>6, <3>1, <3>2 DEF Surjection, Injection, IsInjective
  <2>2. Cardinality(P) = N
    <3>. HIDE DEF place, P
    <3>. QED  BY <2>1, FS_Surjection
  <2>3. P \in SUBSET (0..(N - 1))
    <3>. HIDE DEF place
    <3>. QED  BY <1>3
  <2>4. IsFiniteSet(0..(N - 1)) /\ Cardinality(0..(N - 1)) = N
    <3>. HIDE DEF N
    <3>. QED  BY <1>1, FS_Interval
  <2>5. P = 0..(N - 1)
    <3>. HIDE DEF P, N
    <3>. QED  BY <2>2, <2>3, <2>4, FS_Subset
  <2>. HIDE DEF place, N
  <2>. QED  BY <2>5
<1>8. /\ list = [n \in 1..N |-> CHOOSE a \in kept : Cardinality(earlier(a)) = n - 1]
      /\ \A n \in 1..N : list[n] \in kept /\ place[list[n]] = n - 1
  <2>1. list = [n \in 1..N |-> CHOOSE a \in kept : Cardinality(earlier(a)) = n - 1]
    BY DEF ByPlace
  <2>2. ASSUME NEW n \in 1..N PROVE list[n] \in kept /\ place[list[n]] = n - 1
    <3>1. list[n] = CHOOSE a \in kept : Cardinality(earlier(a)) = n - 1
      <4>. HIDE DEF list, N, earlier
      <4>. QED  BY <2>1
    <3>2. n - 1 \in 0..(N - 1)
      <4>. HIDE DEF N
      <4>. QED  BY <1>1
    <3>3. \E a \in kept : Cardinality(earlier(a)) = n - 1
      <4>1. \A a \in kept : place[a] = Cardinality(earlier(a))
        OBVIOUS
      <4>. HIDE DEF place, N, earlier
      <4>. QED  BY <1>7, <3>2, <4>1
    <3>4. list[n] \in kept /\ Cardinality(earlier(list[n])) = n - 1
      <4>. HIDE DEF list, earlier
      <4>. QED  BY <3>1, <3>3
    <3>5. place[list[n]] = Cardinality(earlier(list[n]))
      <4>. HIDE DEF list, earlier
      <4>. QED  BY <3>4
    <3>. QED  BY <3>4, <3>5
  <2>. QED  BY <2>1, <2>2
<1>. HIDE DEF list, place, earlier, N
<1>9. list \in Seq(kept) /\ Len(list) = N /\ DOMAIN list = 1..N
  BY <1>1, <1>8
<1>10. Range(list) = kept
  <2>1. \A a \in kept : \E n \in 1..N : list[n] = a
    <3>. SUFFICES ASSUME NEW a \in kept PROVE \E n \in 1..N : list[n] = a
      OBVIOUS
    <3>1. PICK n \in 1..N : n - 1 = place[a]
      <4>1. place[a] \in 0..(N - 1)
        BY <1>3
      <4>. QED  BY <1>1, <4>1
    <3>2. place[list[n]] = place[a] /\ list[n] \in kept
      BY <1>8, <3>1
    <3>. QED  BY <1>6, <3>2
  <2>. QED  BY <1>8, <1>9, <2>1 DEF Range
<1>11. \A i, j \in 1..N : i < j => Before(list[i], list[j])
  <2>. SUFFICES ASSUME NEW i \in 1..N, NEW j \in 1..N, i < j PROVE Before(list[i], list[j])
    OBVIOUS
  <2>1. place[list[i]] < place[list[j]] /\ list[i] \in kept /\ list[j] \in kept
    BY <1>1, <1>8
  <2>2. place[list[i]] \in Int /\ place[list[j]] \in Int
    BY <1>2, <1>8
  <2>. QED  BY <1>4, <1>5, <2>1, <2>2
<1>. QED  BY <1>9, <1>10, <1>11 DEF list, N

------------------------------------------------------------------------------
\* A row of a pair is of one entry, which only one of the two ranks can have logged.
IsOf(a, src, dst, r, x) ==
  /\ r \in Rank /\ a.file \in Launches /\ x \in logs[r][a.file] /\ x \in Entry /\ OfSide(r, x)
  /\ x.src = src /\ x.dst = dst
  /\ a = [file |-> a.file, sample |-> x.sample, offset |-> x.offset]

LEMMA RowsAreLogged ==
  ASSUME AlignInv, NEW src, NEW dst, NEW a \in RowsOfPair(src, dst)
  PROVE  \E r, x : IsOf(a, src, dst, r, x)
<1>1. PICK r \in Rank, i \in Launches : a \in RowsOf(r, i, src, dst)
  BY DEF RowsOfPair, Launches
<1>2. PICK x \in Decoded(r, i) :
        /\ x.src = src /\ x.dst = dst
        /\ a = [file |-> i, sample |-> x.sample, offset |-> x.offset]
  BY <1>1 DEF RowsOf
<1>3. i \in 1..Len(files[r])
  BY DEF AlignInv, FilesShow, Launches
<1>4. x \in logs[r][i]
  BY <1>2, <1>3, DecodesTheLog DEF DecodedIsLogged
<1>5. x \in Entry /\ OfSide(r, x)
  BY <1>4 DEF AlignInv, FilesShow, Shows
<1>6. a.file = i
  BY <1>2
<1>7. IsOf(a, src, dst, r, x)
  BY <1>2, <1>4, <1>5, <1>6 DEF IsOf
<1>. QED  BY <1>7

LEMMA OneSide ==
  ASSUME shape \in Shapes, NEW x, NEW y, NEW r, NEW q, OfSide(r, x), OfSide(q, y),
         x.src = y.src, x.dst = y.dst
  PROVE  r = q
BY Ranks DEF OfSide

LEMMA RowKeys ==
  ASSUME AlignInv, NEW src, NEW dst
  PROVE  /\ Keyed(RowsOfPair(src, dst))
         /\ \A a \in RowsOfPair(src, dst) : a.file \in Launches /\ a.sample \in Sample
         /\ IsFiniteSet(RowsOfPair(src, dst))
         /\ Cardinality(RowsOfPair(src, dst)) = Samples * Len(files[Root]) =>
              \A i \in Launches, k \in Sample :
                \E a \in RowsOfPair(src, dst) : a.file = i /\ a.sample = k
<1> DEFINE kept == RowsOfPair(src, dst)  n == Len(files[Root])
           key == [a \in kept |-> <<a.file, a.sample>>]
<1>1. shape \in Shapes /\ n \in Nat /\ Samples \in Nat \ {0}
  <2>1. shape \in Shapes /\ files \in [Rank -> Seq([Slot -> DiagnosticRow])]
    BY DEF AlignInv, AlignType
  <2>2. Root \in Rank
    BY <2>1, Ranks
  <2>. QED  BY <2>1, <2>2, Ranks
<1>2. \A a \in kept : a.file \in Launches /\ a.sample \in Sample
  <2>. SUFFICES ASSUME NEW a \in kept PROVE a.file \in Launches /\ a.sample \in Sample
    OBVIOUS
  <2>1. PICK r, x : IsOf(a, src, dst, r, x)
    BY RowsAreLogged
  <2>2. a.sample = x.sample /\ x \in Entry
    BY <2>1 DEF IsOf
  <2>. QED  BY <2>1, <2>2 DEF IsOf, Entry
<1>3. ASSUME NEW a \in kept, NEW b \in kept, a.file = b.file, a.sample = b.sample
      PROVE  a = b
  <2>1. PICK r, x : IsOf(a, src, dst, r, x)
    BY RowsAreLogged
  <2>2. PICK q, y : IsOf(b, src, dst, q, y)
    BY RowsAreLogged
  <2>3. r = q
    BY <1>1, <2>1, <2>2, OneSide DEF IsOf
  <2>4. x.sample = y.sample
    <3>1. a.sample = x.sample /\ b.sample = y.sample
      BY <2>1, <2>2 DEF IsOf
    <3>. QED  BY <1>3, <3>1
  <2>5. Shows(files[r][a.file], Certain(r, a.file), logs[r][a.file], r)
    BY <2>1 DEF IsOf, AlignInv, FilesShow
  <2>6. x = y
    BY <1>3, <2>1, <2>2, <2>3, <2>4, <2>5 DEF IsOf, Shows
  <2>. QED  BY <1>3, <2>1, <2>2, <2>6 DEF IsOf
<1>4. Keyed(kept)
  <2>1. \A a \in kept : a.file \in Int /\ a.sample \in Int
    BY <1>1, <1>2 DEF Launches, Sample
  <2>. QED  BY <1>3, <2>1 DEF Keyed
<1>5. key \in Injection(kept, Launches \X Sample)
  <2>1. key \in [kept -> Launches \X Sample]
    BY <1>2
  <2>2. \A a, b \in kept : key[a] = key[b] => a = b
    <3>. SUFFICES ASSUME NEW a \in kept, NEW b \in kept, key[a] = key[b] PROVE a = b
      OBVIOUS
    <3>1. a.file = b.file /\ a.sample = b.sample
      OBVIOUS
    <3>. QED  BY <1>3, <3>1
  <2>. HIDE DEF key, kept
  <2>. QED  BY <2>1, <2>2 DEF Injection, IsInjective
<1>6. IsFiniteSet(Launches \X Sample) /\ Cardinality(Launches \X Sample) = Samples * n
  <2>1. IsFiniteSet(Launches) /\ Cardinality(Launches) = n
    <3>1. Launches = 1..n
      BY DEF Launches
    <3>. HIDE DEF n
    <3>. QED  BY <1>1, <3>1, FS_Interval
  <2>2. IsFiniteSet(Sample) /\ Cardinality(Sample) = Samples
    <3>1. Samples - 1 \in Int /\ 0 \in Int
      BY <1>1
    <3>. QED  BY <1>1, <3>1, FS_Interval DEF Sample
  <2>3. IsFiniteSet(Launches \X Sample) /\ Cardinality(Launches \X Sample) = n * Samples
    <3>. HIDE DEF n
    <3>. QED  BY <2>1, <2>2, FS_Product
  <2>. HIDE DEF n
  <2>. QED  BY <1>1, <2>3
<1>7. /\ IsFiniteSet(kept)
      /\ Cardinality(kept) = Samples * n => key \in Surjection(kept, Launches \X Sample)
  <2>. HIDE DEF kept, key, n
  <2>. QED  BY <1>5, <1>6, FS_Injection
<1>8. ASSUME Cardinality(kept) = Samples * n, NEW i \in Launches, NEW k \in Sample
      PROVE  \E a \in kept : a.file = i /\ a.sample = k
  <2>1. <<i, k>> \in Launches \X Sample
    OBVIOUS
  <2>2. PICK a \in kept : key[a] = <<i, k>>
    <3>. HIDE DEF kept, key, n
    <3>. QED  BY <1>7, <1>8, <2>1 DEF Surjection
  <2>. QED  BY <2>2
<1>. QED  BY <1>2, <1>4, <1>7, <1>8

(***************************************************************************)
(* Lists that lost nothing have the same launch and sample at a place.     *)
(***************************************************************************)
KeyBefore == {xy \in (Nat \X Nat) \X (Nat \X Nat) :
                \/ xy[1][1] < xy[2][1]
                \/ xy[1][1] = xy[2][1] /\ xy[1][2] < xy[2][2]}

KeysOf(list) == [i \in DOMAIN list |-> <<list[i].file, list[i].sample>>]

LEMMA KeysOfList ==
  ASSUME AlignInv, NEW src, NEW dst, NEW list, list = Rows(src, dst), NEW keys, keys = KeysOf(list)
  PROVE  /\ list \in Seq(RowsOfPair(src, dst)) /\ Len(list) = Cardinality(RowsOfPair(src, dst))
         /\ keys \in Seq(Nat \X Nat) /\ DOMAIN keys = DOMAIN list
         /\ \A i, j \in DOMAIN keys : i < j => <<keys[i], keys[j]>> \in KeyBefore
         /\ Complete(list) => Range(keys) = Launches \X Sample
<1> DEFINE kept == RowsOfPair(src, dst)
<1>1. Rows(src, dst) = ByPlace(kept)
  BY DEF Rows, ByPlace
<1>2. Keyed(kept) /\ IsFiniteSet(kept)
  BY RowKeys
<1>3. /\ \A a \in kept : a.file \in Launches /\ a.sample \in Sample
      /\ Cardinality(kept) = Samples * Len(files[Root]) =>
           \A i \in Launches, k \in Sample : \E a \in kept : a.file = i /\ a.sample = k
  BY RowKeys
<1>. HIDE DEF kept
<1>4. /\ list \in Seq(kept) /\ Len(list) = Cardinality(kept) /\ Range(list) = kept
      /\ \A i, j \in DOMAIN list : i < j => Before(list[i], list[j])
  BY <1>1, <1>2, Places
<1>5. Launches \subseteq Nat /\ Sample \subseteq Nat
  BY DEF Launches, Sample
<1>6. /\ DOMAIN list = 1..Len(list) /\ Len(list) \in Nat
      /\ \A i \in DOMAIN list : list[i] \in kept
  BY <1>4
<1>7. \A i \in DOMAIN list : keys[i] = <<list[i].file, list[i].sample>>
                             /\ keys[i] \in Launches \X Sample
  BY <1>3, <1>6 DEF KeysOf
<1>8. keys \in Seq(Nat \X Nat) /\ DOMAIN keys = DOMAIN list
  <2>1. \A i \in 1..Len(list) : <<list[i].file, list[i].sample>> \in Nat \X Nat
    BY <1>3, <1>5, <1>6
  <2>. QED  BY <1>6, <2>1 DEF KeysOf
<1>9. \A i, j \in DOMAIN keys : i < j => <<keys[i], keys[j]>> \in KeyBefore
  <2>. SUFFICES ASSUME NEW i \in DOMAIN list, NEW j \in DOMAIN list, i < j
                PROVE  <<keys[i], keys[j]>> \in KeyBefore
    BY <1>8
  <2>1. Before(list[i], list[j])
    BY <1>4
  <2>2. /\ keys[i] \in Nat \X Nat /\ keys[j] \in Nat \X Nat
        /\ keys[i][1] = list[i].file /\ keys[i][2] = list[i].sample
        /\ keys[j][1] = list[j].file /\ keys[j][2] = list[j].sample
    <3>1. keys[i] = <<list[i].file, list[i].sample>> /\ keys[j] = <<list[j].file, list[j].sample>>
      BY <1>7
    <3>2. keys[i] \in Nat \X Nat /\ keys[j] \in Nat \X Nat
      BY <1>5, <1>7
    <3>. QED  BY <3>1, <3>2
  <2>. QED  BY <2>1, <2>2 DEF KeyBefore, Before
<1>10. ASSUME Complete(list) PROVE Range(keys) = Launches \X Sample
  <2>1. ASSUME NEW i \in Launches, NEW k \in Sample
        PROVE  \E j \in DOMAIN keys : keys[j] = <<i, k>>
    <3>1. PICK a \in kept : a.file = i /\ a.sample = k
      BY <1>3, <1>4, <1>10 DEF Complete
    <3>2. PICK j \in DOMAIN list : list[j] = a
      BY <1>4 DEF Range
    <3>. QED  BY <1>7, <1>8, <3>1, <3>2
  <2>2. \A j \in DOMAIN keys : keys[j] \in Launches \X Sample
    BY <1>7, <1>8
  <2>3. \A z \in Launches \X Sample : \E i \in Launches, k \in Sample : z = <<i, k>>
    OBVIOUS
  <2>4. ASSUME NEW z \in Launches \X Sample PROVE \E j \in DOMAIN keys : z = keys[j]
    <3>1. PICK i \in Launches, k \in Sample : z = <<i, k>>
      BY <2>3
    <3>2. PICK j \in DOMAIN keys : keys[j] = <<i, k>>
      BY <2>1
    <3>. QED  BY <3>1, <3>2
  <2>. QED  BY <2>2, <2>4 DEF Range
<1>. QED  BY <1>4, <1>8, <1>9, <1>10 DEF kept

LEMMA SamePlaces ==
  ASSUME AlignInv, NEW p \in Pair, NEW q \in Pair, Complete(Lists[p]), Complete(Lists[q])
  PROVE  /\ Len(Lists[p]) = Len(Lists[q])
         /\ \A i \in DOMAIN Lists[p] : /\ Lists[p][i].file = Lists[q][i].file
                                       /\ Lists[p][i].sample = Lists[q][i].sample
<1> DEFINE a == Lists[p]  b == Lists[q]
           ka == KeysOf(a)
           kb == KeysOf(b)
<1>1. a = Rows(p[1], p[2]) /\ b = Rows(q[1], q[2])
  BY DEF Lists
<1>. HIDE DEF a, b
<1>2. /\ a \in Seq(RowsOfPair(p[1], p[2])) /\ ka \in Seq(Nat \X Nat) /\ DOMAIN ka = DOMAIN a
      /\ \A i, j \in DOMAIN ka : i < j => <<ka[i], ka[j]>> \in KeyBefore
      /\ Complete(a) => Range(ka) = Launches \X Sample
  BY <1>1, KeysOfList
<1>3. /\ b \in Seq(RowsOfPair(q[1], q[2])) /\ kb \in Seq(Nat \X Nat) /\ DOMAIN kb = DOMAIN b
      /\ \A i, j \in DOMAIN kb : i < j => <<kb[i], kb[j]>> \in KeyBefore
      /\ Complete(b) => Range(kb) = Launches \X Sample
  BY <1>1, KeysOfList
<1>4. \A x, y \in Nat \X Nat : <<x, y>> \in KeyBefore => <<y, x>> \notin KeyBefore
  BY DEF KeyBefore
<1>5. Range(ka) = Range(kb)
  <2>1. Complete(a) /\ Complete(b)
    BY DEF a, b
  <2>. QED  BY <1>2, <1>3, <2>1
<1>6. ka = kb
  <2>. HIDE DEF ka, kb
  <2>. QED  BY <1>2, <1>3, <1>4, <1>5, OneListing
<1>7. DOMAIN a = DOMAIN b /\ Len(a) = Len(b)
  <2>. HIDE DEF ka, kb
  <2>1. DOMAIN a = DOMAIN b
    BY <1>2, <1>3, <1>6
  <2>2. Len(a) \in Nat /\ Len(b) \in Nat /\ DOMAIN a = 1..Len(a) /\ DOMAIN b = 1..Len(b)
    BY <1>2, <1>3
  <2>3. \A m, n \in Nat : 1..m = 1..n => m = n
    <3>. SUFFICES ASSUME NEW m \in Nat, NEW n \in Nat, m < n PROVE 1..m # 1..n
      OBVIOUS
    <3>1. n \in 1..n /\ n \notin 1..m
      OBVIOUS
    <3>. QED  BY <3>1
  <2>. QED  BY <2>1, <2>2, <2>3
<1>8. \A i \in DOMAIN a : a[i].file = b[i].file /\ a[i].sample = b[i].sample
  <2>. SUFFICES ASSUME NEW i \in DOMAIN a PROVE a[i].file = b[i].file /\ a[i].sample = b[i].sample
    OBVIOUS
  <2>1. <<a[i].file, a[i].sample>> = <<b[i].file, b[i].sample>>
    <3>1. ka[i] = <<a[i].file, a[i].sample>>
      BY DEF KeysOf
    <3>2. kb[i] = <<b[i].file, b[i].sample>>
      BY <1>7 DEF KeysOf
    <3>. HIDE DEF ka, kb
    <3>. QED  BY <1>6, <3>1, <3>2
  <2>. QED  BY <2>1
<1>. QED  BY <1>7, <1>8 DEF a, b

LEMMA Tabled ==
  ASSUME NEW n \in Nat, NEW s, s = [i \in 1..n |-> s[i]]
  PROVE  Len(s) = n
<1>1. s \in Seq({s[i] : i \in 1..n})
  <2>1. [i \in 1..n |-> s[i]] \in Seq({s[i] : i \in 1..n})
    OBVIOUS
  <2>. QED  BY <2>1
<1>2. DOMAIN s = 1..n /\ DOMAIN s = 1..Len(s) /\ Len(s) \in Nat
  BY <1>1
<1>3. Len(s) <= n /\ n <= Len(s)
  <2>1. Len(s) \in 1..n \/ Len(s) = 0
    BY <1>2
  <2>2. n \in 1..Len(s) \/ n = 0
    BY <1>2
  <2>. QED  BY <1>2, <2>1, <2>2
<1>. QED  BY <1>2, <1>3

(***************************************************************************)
(* The offsets at a place of a complete list and those derived from them.  *)
(***************************************************************************)
LEMMA ListIs ==
  ASSUME AlignInv, NEW p \in Pair
  PROVE  /\ Lists[p] \in Seq(RowsOfPair(p[1], p[2])) /\ Len(Lists[p]) \in Nat
         /\ DOMAIN Lists[p] = 1..Len(Lists[p])
         /\ \A i \in DOMAIN Lists[p] : \E r, x : IsOf(Lists[p][i], p[1], p[2], r, x)
<1> DEFINE kept == RowsOfPair(p[1], p[2])  list == Lists[p]
<1>1. list = Rows(p[1], p[2])
  BY DEF Lists
<1>. HIDE DEF list
<1>2. list \in Seq(kept)
  BY <1>1, KeysOfList
<1>3. \A i \in DOMAIN list : list[i] \in kept
  <2>. HIDE DEF kept
  <2>. QED  BY <1>2
<1>4. Len(list) \in Nat /\ DOMAIN list = 1..Len(list)
  <2>. HIDE DEF kept
  <2>. QED  BY <1>2
<1>5. \A i \in DOMAIN list : \E r, x : IsOf(list[i], p[1], p[2], r, x)
  BY <1>3, RowsAreLogged
<1>. QED  BY <1>2, <1>4, <1>5 DEF list

LEMMA RootPairs ==
  ASSUME AlignInv, NEW f \in Follower
  PROVE  <<Root, f>> \in Pair /\ <<f, Root>> \in Pair
<1>1. shape \in Shapes
  BY DEF AlignInv, AlignType
<1>2. f \in Rank /\ f # Root /\ f \in 1..CompactDsts /\ Root \in Rank /\ CompactDsts \in Nat \ {0}
  BY <1>1, Ranks
<1>3. Root \in Device /\ f \in Device
  BY <1>2 DEF Device, MaxRanks, Root
<1>. QED  BY <1>2, <1>3 DEF Pair

\* A row of a pair of the root is in the log of the follower or of the root.
LEMMA RootRows ==
  ASSUME AlignInv, NEW f \in Follower
  PROVE  /\ \A a, r, x : IsOf(a, Root, f, r, x) => r = f
         /\ \A a, r, x : IsOf(a, f, Root, r, x) => r = Root
<1>1. shape \in Shapes
  BY DEF AlignInv, AlignType
<1>. QED  BY <1>1, Ranks DEF IsOf, OfSide

LEMMA PairCancels ==
  ASSUME AlignInv, NEW f \in Follower,
         Complete(Lists[<<Root, f>>]), Complete(Lists[<<f, Root>>]),
         NEW i \in Common(Lists[<<Root, f>>], Lists[<<f, Root>>])
  PROVE  Reciprocal(Lists[<<Root, f>>], Lists[<<f, Root>>])[i] = 0
<1> DEFINE a == Lists[<<Root, f>>]  b == Lists[<<f, Root>>]
<1>1. <<Root, f>> \in Pair /\ <<f, Root>> \in Pair
  BY RootPairs
<1>2. /\ Len(a) = Len(b) /\ Len(a) \in Nat /\ DOMAIN a = 1..Len(a) /\ DOMAIN b = 1..Len(b)
      /\ \A j \in DOMAIN a : a[j].file = b[j].file /\ a[j].sample = b[j].sample
  BY <1>1, ListIs, SamePlaces
<1>3. i \in DOMAIN a /\ i \in DOMAIN b
  BY <1>2 DEF Common
<1>4. PICK r, x : IsOf(a[i], Root, f, r, x)
  BY <1>1, <1>3, ListIs
<1>5. PICK q, y : IsOf(b[i], f, Root, q, y)
  BY <1>1, <1>3, ListIs
<1>6. a[i].file = b[i].file /\ a[i].sample = b[i].sample
  BY <1>2, <1>3
<1>7. r = f /\ q = Root
  BY <1>4, <1>5, RootRows
<1>. HIDE DEF a, b
<1>8. /\ a[i].file \in Launches /\ x \in logs[f][a[i].file] /\ y \in logs[Root][a[i].file]
      /\ x \in Entry /\ x.src = Root /\ x.dst = f /\ y.src = f /\ y.dst = Root
  BY <1>4, <1>5, <1>6, <1>7 DEF IsOf
<1>9. /\ a[i].sample = x.sample /\ a[i].offset = x.offset
      /\ b[i].sample = y.sample /\ b[i].offset = y.offset
  BY <1>4, <1>5 DEF IsOf
<1>10. y.offset = -x.offset
  <2>1. Opposite(logs[f][a[i].file], logs[Root][a[i].file])
    BY <1>8 DEF AlignInv, FilesShow
  <2>. QED  BY <1>6, <1>8, <1>9, <2>1 DEF Opposite
<1>11. x.offset \in Int
  BY <1>8 DEF Entry
<1>12. Reciprocal(a, b)[i] = a[i].offset + b[i].offset
  BY DEF Reciprocal, a, b
<1>13. Reciprocal(a, b)[i] = 0
  BY <1>9, <1>10, <1>11, <1>12
<1>. QED  BY <1>13 DEF a, b

LEMMA OffsetsDerived ==
  ASSUME AlignInv, NEW f \in Follower, NEW g \in Follower, f # g,
         Complete(Lists[<<Root, f>>]), Complete(Lists[<<Root, g>>]),
         NEW i \in DOMAIN Derived(Lists, f, g)
  PROVE  \E x \in logs[f][Lists[<<Root, f>>][i].file], y \in logs[g][Lists[<<Root, f>>][i].file] :
           /\ SameSample(x, y, Lists[<<Root, f>>][i])
           /\ Derived(Lists, f, g)[i] = y.offset - x.offset
<1> DEFINE a == Lists[<<Root, f>>]  b == Lists[<<Root, g>>]
           sa == RootSeries(Lists, f)  sb == RootSeries(Lists, g)
<1>1. <<Root, f>> \in Pair /\ <<Root, g>> \in Pair /\ <<f, Root>> \in Pair
  BY RootPairs
<1>2. /\ Len(a) = Len(b) /\ Len(a) \in Nat /\ DOMAIN a = 1..Len(a) /\ DOMAIN b = 1..Len(b)
      /\ \A j \in DOMAIN a : a[j].file = b[j].file /\ a[j].sample = b[j].sample
  BY <1>1, ListIs, SamePlaces
<1>3. /\ \A j \in DOMAIN a : \E r, x : IsOf(a[j], Root, f, r, x)
      /\ \A j \in DOMAIN b : \E r, x : IsOf(b[j], Root, g, r, x)
  BY <1>1, ListIs
<1>. HIDE DEF a, b
<1>4. /\ sa = IF OffsetsOf(a) # <<>> THEN OffsetsOf(a)
              ELSE [j \in DOMAIN OffsetsOf(Lists[<<f, Root>>]) |->
                      Negated(OffsetsOf(Lists[<<f, Root>>])[j])]
      /\ sb = IF OffsetsOf(b) # <<>> THEN OffsetsOf(b)
              ELSE [j \in DOMAIN OffsetsOf(Lists[<<g, Root>>]) |->
                      Negated(OffsetsOf(Lists[<<g, Root>>])[j])]
  BY DEF RootSeries, a, b
<1>5. Derived(Lists, f, g) = [j \in Common(sa, sb) |-> sb[j] - sa[j]]
  BY DEF Derived
<1>6. i \in Common(sa, sb) /\ Derived(Lists, f, g)[i] = sb[i] - sa[i]
  <2>. HIDE DEF sa, sb
  <2>. QED  BY <1>5
<1>. HIDE DEF sa, sb
<1>7. Len(a) # 0
  <2>. SUFFICES ASSUME Len(a) = 0 PROVE FALSE
    OBVIOUS
  <2>1. Launches = {}
    <3>1. Samples * Len(files[Root]) = 0
      BY DEF Complete, a
    <3>2. shape \in Shapes /\ files \in [Rank -> Seq([Slot -> DiagnosticRow])]
      BY DEF AlignInv, AlignType
    <3>3. Len(files[Root]) \in Nat /\ Samples \in Nat \ {0}
      BY <3>2, Ranks
    <3>4. Len(files[Root]) = 0
      BY <3>1, <3>3
    <3>. QED  BY <3>4 DEF Launches
  <2>2. \A p \in Pair : DOMAIN Lists[p] = {}
    <3>. SUFFICES ASSUME NEW p \in Pair, NEW j \in DOMAIN Lists[p] PROVE FALSE
      OBVIOUS
    <3>1. PICK r, x : IsOf(Lists[p][j], p[1], p[2], r, x)
      BY ListIs
    <3>. QED  BY <2>1, <3>1 DEF IsOf
  <2>3. DOMAIN OffsetsOf(Lists[<<f, Root>>]) = {} /\ DOMAIN OffsetsOf(a) = {}
    BY <1>1, <2>2 DEF OffsetsOf, a
  <2>4. sa = [j \in {} |-> sa[j]]
    BY <1>4, <2>3 DEF OffsetsOf
  <2>5. DOMAIN OffsetsOf(Lists[<<g, Root>>]) = {} /\ DOMAIN OffsetsOf(b) = {}
    BY <1>1, <2>2, RootPairs DEF OffsetsOf, b
  <2>6. sb = [j \in {} |-> sb[j]]
    BY <1>4, <2>5 DEF OffsetsOf
  <2>7. Len(sa) = 0 /\ Len(sb) = 0
    <3>1. 1..0 = {}
      OBVIOUS
    <3>. QED  BY <2>4, <2>6, <3>1, Tabled
  <2>. QED  BY <1>6, <2>7 DEF Common
<1>8. OffsetsOf(a) # <<>> /\ OffsetsOf(b) # <<>>
  <2>1. 1 \in DOMAIN OffsetsOf(a) /\ 1 \in DOMAIN OffsetsOf(b)
    BY <1>2, <1>7 DEF OffsetsOf
  <2>. QED  BY <2>1
<1>9. sa = [j \in 1..Len(a) |-> a[j].offset] /\ sb = [j \in 1..Len(a) |-> b[j].offset]
  BY <1>2, <1>4, <1>8 DEF OffsetsOf
<1>10. Common(sa, sb) = 1..Len(a)
  <2>1. Len(sa) = Len(a) /\ Len(sb) = Len(a)
    <3>1. sa = [j \in 1..Len(a) |-> sa[j]] /\ sb = [j \in 1..Len(a) |-> sb[j]]
      BY <1>9
    <3>. QED  BY <1>2, <3>1, Tabled
  <2>. QED  BY <1>2, <2>1 DEF Common
<1>11. i \in DOMAIN a /\ i \in DOMAIN b /\ sa[i] = a[i].offset /\ sb[i] = b[i].offset
  BY <1>2, <1>6, <1>9, <1>10
<1>12. PICK r, x : IsOf(a[i], Root, f, r, x)
  BY <1>3, <1>11
<1>13. PICK q, y : IsOf(b[i], Root, g, q, y)
  BY <1>3, <1>11
<1>14. r = f /\ q = g
  BY <1>12, <1>13, RootRows
<1>15. a[i].file = b[i].file /\ a[i].sample = b[i].sample
  BY <1>2, <1>11
<1>16. x \in logs[f][a[i].file] /\ y \in logs[g][a[i].file]
  BY <1>12, <1>13, <1>14, <1>15 DEF IsOf
<1>17. /\ a[i].sample = x.sample /\ a[i].offset = x.offset
       /\ b[i].sample = y.sample /\ b[i].offset = y.offset
  BY <1>12, <1>13 DEF IsOf
<1>18. SameSample(x, y, a[i]) /\ Derived(Lists, f, g)[i] = y.offset - x.offset
  BY <1>6, <1>11, <1>15, <1>17 DEF SameSample
<1>. QED  BY <1>16, <1>18 DEF a

LEMMA ListsAlign == AlignInv => CompleteListsAlign
<1>. SUFFICES ASSUME AlignInv PROVE CompleteListsAlign
  OBVIOUS
<1> DEFINE whole == {p \in Pair : Complete(Lists[p])}
           known == {f \in Follower : <<Root, f>> \in whole}
<1>1. ASSUME NEW p \in whole, NEW q \in whole, NEW i \in Common(Lists[p], Lists[q])
      PROVE  Lists[p][i].file = Lists[q][i].file /\ Lists[p][i].sample = Lists[q][i].sample
  <2>1. Len(Lists[p]) = Len(Lists[q]) /\ i \in DOMAIN Lists[p]
    BY SamePlaces, ListIs DEF Common
  <2>. QED  BY <2>1, SamePlaces
<1>2. ASSUME NEW f \in known, <<f, Root>> \in whole
      PROVE  LET sums == Reciprocal(Lists[<<Root, f>>], Lists[<<f, Root>>])
             IN  \A i \in DOMAIN sums : sums[i] = 0
  <2>1. DOMAIN Reciprocal(Lists[<<Root, f>>], Lists[<<f, Root>>])
          = Common(Lists[<<Root, f>>], Lists[<<f, Root>>])
    BY DEF Reciprocal
  <2>2. Complete(Lists[<<Root, f>>]) /\ Complete(Lists[<<f, Root>>]) /\ f \in Follower
    BY <1>2
  <2>. QED  BY <2>1, <2>2, PairCancels
<1>3. ASSUME NEW f \in known, NEW g \in known, f # g, NEW i \in DOMAIN Derived(Lists, f, g)
      PROVE  LET row == Lists[<<Root, f>>][i] IN
             \E x \in logs[f][row.file], y \in logs[g][row.file] :
               /\ SameSample(x, y, row)
               /\ Derived(Lists, f, g)[i] = y.offset - x.offset
  <2>1. /\ Complete(Lists[<<Root, f>>]) /\ Complete(Lists[<<Root, g>>])
        /\ f \in Follower /\ g \in Follower
    OBVIOUS
  <2>. QED  BY <1>3, <2>1, OffsetsDerived
<1>. QED  BY <1>1, <1>2, <1>3 DEF CompleteListsAlign

(***************************************************************************)
(* The analyzer works with the offsets the probes computed, each at the    *)
(* place of its pair, launch and sample, for any number of ranks, samples  *)
(* and launches, whichever samples either side gave up on and however      *)
(* early rank 0 copied its rows.                                           *)
(***************************************************************************)
THEOREM OffsetsAlignHolds == AnalyzeSpec => []OffsetsAlign
<1>1. AlignInv => OffsetsAlign
  BY DecodesTheLog, ListsAlign DEF OffsetsAlign
<1>. QED  BY <1>1, AlignInductive, PTL

------------------------------------------------------------------------------
(***************************************************************************)
(* The slices of the throughput map.  The cells of a slice are written by  *)
(* its owners only: its header is all zero or of an owner that was flushed *)
(* after it saw something, and each of its other cells is of an owner that *)
(* saw so many arrivals, unless none did.                                  *)
(***************************************************************************)
TGroup == Throughput!Group
TSlice == Throughput!Slice
TCell == Throughput!Cell
Owner(s) == Throughput!Owners(s)
HeaderOf(s) == Throughput!Base(s)
ArrivalCell(s, i) == Throughput!Base(s) + 1 + i

Sees(lg, rn, g) == rn[g] # Throughput!None /\ lg[g] # <<>>

HeaderTells(m, lg, rn, s) ==
  \/ \E g \in Owner(s) : /\ Sees(lg, rn, g)
                         /\ m[HeaderOf(s)] = Throughput!Word(rn[g])
                         /\ m[HeaderOf(s) + 1] = Throughput!Word(Len(lg[g]))
  \/ m[HeaderOf(s) + 1] = 0 /\ \A g \in Owner(s) : ~Sees(lg, rn, g)

ArrivalTells(m, lg, s, i) ==
  \/ \E g \in Owner(s) : i <= Len(lg[g]) /\ m[ArrivalCell(s, i)] = Throughput!Word(lg[g][i])
  \/ \A g \in Owner(s) : Len(lg[g]) < i

Captures(m, lg, rn) ==
  /\ m \in [TCell -> Nat] /\ lg \in [TGroup -> Seq(Nat)]
  /\ rn \in [TGroup -> Nat \cup {Throughput!None}]
  /\ \A s \in TSlice : /\ HeaderTells(m, lg, rn, s)
                       /\ \A i \in 1..Capacity : ArrivalTells(m, lg, s, i)

CaptureFile ==
  [map : [TCell -> Nat], log : [TGroup -> Seq(Nat)],
   ran : [TGroup -> Nat \cup {Throughput!None}]]

LeaderInv ==
  /\ grid \in Grids /\ now \in Nat
  /\ at \in [TGroup -> {"queued", "running", "returned"}]
  /\ start \in [TGroup -> Nat] /\ count \in [TGroup -> Nat]
  /\ \A g \in TGroup : /\ start[g] <= now
                       /\ count[g] = Len(stream[g])
                       /\ at[g] = "queued" => stream[g] = <<>>
                       /\ at[g] # "returned" => ran[g] = Throughput!None

CaptureInv ==
  /\ LeaderInv
  /\ Captures(cells, stream, ran)
  /\ results \in Seq(CaptureFile)
  /\ \A k \in DOMAIN results : Captures(results[k].map, results[k].log, results[k].ran)

LEMMA GridKept ==
  ASSUME grid' = grid
  PROVE  /\ TGroup' = TGroup /\ CaptureFile' = CaptureFile
         /\ \A m, lg, rn : Captures(m, lg, rn)' <=> Captures(m, lg, rn)
<1>1. TGroup' = TGroup
  BY DEF TGroup, Throughput!Group
<1>2. Throughput!Group' = Throughput!Group
  BY DEF Throughput!Group
<1>3. CaptureFile' = CaptureFile
  BY <1>1 DEF CaptureFile, TCell, Throughput!Cell, Throughput!SliceCells, Throughput!HeaderCells,
              Throughput!None
<1>. QED
  BY <1>1, <1>2, <1>3
     DEF Captures, HeaderTells, ArrivalTells, Sees, Owner, Throughput!Owners, Throughput!SliceOf,
         TCell, Throughput!Cell, TSlice, Throughput!Slice, HeaderOf, ArrivalCell, Throughput!Base,
         Throughput!Word, Throughput!None

LEMMA CaptureConstants ==
  ASSUME grid \in Grids
  PROVE  /\ TGroup \subseteq Nat /\ grid.groups \in Nat \ {0}
         /\ Slices \in Nat \ {0} /\ Capacity \in Nat \ {0} /\ WordRange \in Nat \ {0}
         /\ Throughput!SliceCells = Capacity + 2 /\ Throughput!None = -1
         /\ TSlice = 0..(Slices - 1)
<1>1. /\ grid.groups \in Nat \ {0}
      /\ Slices \in Nat \ {0} /\ Capacity \in Nat \ {0} /\ WordRange \in Nat \ {0}
  BY CaptureAssumption DEF Throughput!ThroughputConstants
<1>. QED
  BY <1>1 DEF TGroup, Throughput!Group, TSlice, Throughput!Slice, Throughput!SliceCells,
              Throughput!HeaderCells, Throughput!None

LEMMA WordIs ==
  ASSUME NEW n \in Nat
  PROVE  Throughput!Word(n) \in Nat /\ Throughput!Word(n) <= n
         /\ (n < WordRange => Throughput!Word(n) = n)
<1>1. WordRange \in Nat \ {0}
  BY CaptureAssumption DEF Throughput!ThroughputConstants
<1>. QED  BY <1>1 DEF Throughput!Word

LEMMA LesserOf ==
  ASSUME NEW a \in Int, NEW b \in Int
  PROVE  Throughput!Min({a, b}) = IF a <= b THEN a ELSE b
BY DEF Throughput!Min

LEMMA OwnsOne ==
  ASSUME grid \in Grids, NEW g \in TGroup
  PROVE  /\ Throughput!SliceOf(g) \in TSlice /\ g \in Owner(Throughput!SliceOf(g))
         /\ \A s : g \in Owner(s) => s = Throughput!SliceOf(g)
<1>1. g \in Nat /\ Slices \in Nat \ {0} /\ TSlice = 0..(Slices - 1)
  BY CaptureConstants
<1>2. Throughput!SliceOf(g) \in TSlice
  BY <1>1, LesserOf DEF Throughput!SliceOf
<1>. QED  BY <1>2 DEF Owner, Throughput!Owners, TGroup

(***************************************************************************)
(* No cell is of two slices, or of two places in one.                      *)
(***************************************************************************)
LEMMA CellsApart ==
  ASSUME grid \in Grids, NEW s \in TSlice, NEW i \in 0..(Capacity + 1)
  PROVE  /\ Throughput!Base(s) + i \in TCell
         /\ \A t \in TSlice, j \in 0..(Capacity + 1) :
              Throughput!Base(s) + i = Throughput!Base(t) + j => s = t /\ i = j
<1> DEFINE W == Capacity + 2
<1>1. /\ W \in Nat \ {0} /\ Slices \in Nat \ {0} /\ TSlice = 0..(Slices - 1)
      /\ Throughput!SliceCells = W /\ Capacity \in Nat
  BY CaptureConstants
<1>2. 0..(Capacity + 1) = 0..(W - 1)
  BY <1>1
<1>. HIDE DEF W
<1>3. \A t \in TSlice, j \in 0..(W - 1) :
        LET c == Throughput!Base(t) + j IN c \in Nat /\ c \div W = t /\ c % W = j /\ c < Slices * W
  <2>. SUFFICES ASSUME NEW t \in TSlice, NEW j \in 0..(W - 1)
                PROVE  LET c == t * W + j IN c \in Nat /\ c \div W = t /\ c % W = j /\ c < Slices * W
    BY <1>1 DEF Throughput!Base
  <2>1. t \in Nat /\ t < Slices /\ Slices \in Nat
    BY <1>1
  <2>. QED  BY <1>1, <2>1, Pack, Below
<1>4. \A c \in Nat : c < Slices * W => c \in TCell
  <2>1. Slices * W \in Nat
    BY <1>1
  <2>. QED  BY <1>1, <2>1 DEF TCell, Throughput!Cell
<1>5. Throughput!Base(s) + i \in TCell
  BY <1>2, <1>3, <1>4
<1>6. ASSUME NEW t \in TSlice, NEW j \in 0..(Capacity + 1),
             Throughput!Base(s) + i = Throughput!Base(t) + j
      PROVE  s = t /\ i = j
  <2> DEFINE c == Throughput!Base(s) + i  d == Throughput!Base(t) + j
  <2>1. c \div W = s /\ c % W = i
    BY <1>2, <1>3
  <2>2. d \div W = t /\ d % W = j
    BY <1>2, <1>3
  <2>3. c = d
    BY <1>6
  <2>. HIDE DEF c, d
  <2>. QED  BY <2>1, <2>2, <2>3
<1>. QED  BY <1>5, <1>6

LEMMA HeaderCell ==
  ASSUME grid \in Grids, NEW s \in TSlice
  PROVE  /\ HeaderOf(s) \in TCell /\ HeaderOf(s) + 1 \in TCell /\ HeaderOf(s) # HeaderOf(s) + 1
         /\ \A t \in TSlice : s # t => /\ HeaderOf(t) \notin {HeaderOf(s), HeaderOf(s) + 1}
                                       /\ HeaderOf(t) + 1 \notin {HeaderOf(s), HeaderOf(s) + 1}
         /\ \A t \in TSlice, i \in 1..Capacity :
              ArrivalCell(t, i) \notin {HeaderOf(s), HeaderOf(s) + 1}
<1>1. Capacity \in Nat \ {0}
  BY CaptureConstants
<1>2. \A t \in TSlice : Throughput!Base(t) \in Int
  BY CaptureConstants DEF Throughput!Base
<1>3. \A t \in TSlice : \A i \in 0..(Capacity + 1) : Throughput!Base(t) + i \in TCell
  BY CellsApart
<1>4. \A t \in TSlice, i \in 0..(Capacity + 1), j \in 0..(Capacity + 1) :
        Throughput!Base(s) + i = Throughput!Base(t) + j => s = t /\ i = j
  BY CellsApart
<1>5. 0 \in 0..(Capacity + 1) /\ 1 \in 0..(Capacity + 1)
      /\ \A i \in 1..Capacity : 1 + i \in 0..(Capacity + 1) /\ i \in Int /\ 1 + i # 0 /\ 1 + i # 1
  BY <1>1
<1>6. \A t \in TSlice : HeaderOf(t) = Throughput!Base(t) + 0 /\ HeaderOf(t) + 1 = Throughput!Base(t) + 1
  BY <1>2 DEF HeaderOf
<1>7. \A t \in TSlice, i \in 1..Capacity : ArrivalCell(t, i) = Throughput!Base(t) + (1 + i)
  BY <1>2, <1>5 DEF ArrivalCell
<1>8. HeaderOf(s) \in TCell /\ HeaderOf(s) + 1 \in TCell /\ HeaderOf(s) # HeaderOf(s) + 1
  BY <1>3, <1>5, <1>6, <1>2
<1>9. \A t \in TSlice : s # t => /\ HeaderOf(t) \notin {HeaderOf(s), HeaderOf(s) + 1}
                                 /\ HeaderOf(t) + 1 \notin {HeaderOf(s), HeaderOf(s) + 1}
  BY <1>4, <1>5, <1>6
<1>10. \A t \in TSlice, i \in 1..Capacity : ArrivalCell(t, i) \notin {HeaderOf(s), HeaderOf(s) + 1}
  BY <1>4, <1>5, <1>6, <1>7
<1>. QED  BY <1>8, <1>9, <1>10

LEMMA ArrivalCellsApart ==
  ASSUME grid \in Grids, NEW s \in TSlice, NEW i \in 1..Capacity
  PROVE  /\ ArrivalCell(s, i) \in TCell
         /\ \A t \in TSlice : ArrivalCell(s, i) \notin {HeaderOf(t), HeaderOf(t) + 1}
         /\ \A t \in TSlice, j \in 1..Capacity :
              ArrivalCell(s, i) = ArrivalCell(t, j) => s = t /\ i = j
<1>1. Capacity \in Nat \ {0}
  BY CaptureConstants
<1>2. \A t \in TSlice : Throughput!Base(t) \in Int
  BY CaptureConstants DEF Throughput!Base
<1>3. \A t \in TSlice, j \in 1..Capacity : /\ ArrivalCell(t, j) = Throughput!Base(t) + (1 + j)
                                           /\ 1 + j \in 0..(Capacity + 1) /\ j \in Int
  BY <1>1, <1>2 DEF ArrivalCell
<1>4. ArrivalCell(s, i) \in TCell
  BY <1>3, CellsApart
<1>5. ASSUME NEW t \in TSlice, NEW j \in 1..Capacity, ArrivalCell(s, i) = ArrivalCell(t, j)
      PROVE  s = t /\ i = j
  <2>1. s = t /\ 1 + i = 1 + j
    BY <1>3, <1>5, CellsApart
  <2>. QED  BY <1>3, <2>1
<1>. QED  BY <1>4, <1>5, HeaderCell

\* A header or a place is told by a map and logs that agree with it there.
LEMMA HeaderStays ==
  ASSUME NEW s, NEW m, NEW lg, NEW rn, HeaderTells(m, lg, rn, s), NEW n, NEW lh, NEW ro,
         n[HeaderOf(s)] = m[HeaderOf(s)], n[HeaderOf(s) + 1] = m[HeaderOf(s) + 1],
         \A g \in Owner(s) : \/ ro[g] = rn[g] /\ lh[g] = lg[g]
                             \/ ~Sees(lg, rn, g) /\ ~Sees(lh, ro, g)
  PROVE  HeaderTells(n, lh, ro, s)
<1>1. \A g \in Owner(s) : /\ Sees(lh, ro, g) <=> Sees(lg, rn, g)
                          /\ Sees(lg, rn, g) => ro[g] = rn[g] /\ lh[g] = lg[g]
  BY DEF Sees
<1>. QED  BY <1>1 DEF HeaderTells

LEMMA ArrivalStays ==
  ASSUME NEW s, NEW i, NEW m, NEW lg, ArrivalTells(m, lg, s, i), NEW n, NEW lh,
         n[ArrivalCell(s, i)] = m[ArrivalCell(s, i)],
         \A g \in Owner(s) : i <= Len(lg[g]) => i <= Len(lh[g]) /\ lh[g][i] = lg[g][i],
         \A g \in Owner(s) : Len(lg[g]) < i => Len(lh[g]) < i
  PROVE  ArrivalTells(n, lh, s, i)
BY DEF ArrivalTells

LEMMA EmptyCaptures ==
  ASSUME grid \in Grids
  PROVE  Captures(Throughput!Zeroed, [g \in TGroup |-> <<>>], [g \in TGroup |-> Throughput!None])
<1> DEFINE m == Throughput!Zeroed  lg == [g \in TGroup |-> <<>>]
           rn == [g \in TGroup |-> Throughput!None]
<1>1. m \in [TCell -> Nat] /\ \A c \in TCell : m[c] = 0
  BY DEF Throughput!Zeroed, TCell
<1>2. lg \in [TGroup -> Seq(Nat)] /\ rn \in [TGroup -> Nat \cup {Throughput!None}]
  OBVIOUS
<1>3. \A s \in TSlice : \A g \in Owner(s) : g \in TGroup
  BY DEF Owner, Throughput!Owners, TGroup
<1>4. \A g \in TGroup : lg[g] = <<>> /\ rn[g] = Throughput!None
  OBVIOUS
<1>. HIDE DEF lg, rn, m
<1>5. \A s \in TSlice : HeaderTells(m, lg, rn, s)
  BY <1>1, <1>3, <1>4, HeaderCell DEF HeaderTells, Sees
<1>6. \A s \in TSlice : \A i \in 1..Capacity : ArrivalTells(m, lg, s, i)
  BY <1>3, <1>4 DEF ArrivalTells
<1>7. Captures(m, lg, rn)
  BY <1>1, <1>2, <1>5, <1>6 DEF Captures
<1>. QED  BY <1>7 DEF m, lg, rn

LEMMA CaptureInitial == Throughput!Init => CaptureInv
<1>. SUFFICES ASSUME Throughput!Init PROVE CaptureInv
  OBVIOUS
<1>1. grid \in Grids /\ TGroup = Throughput!Group
  BY DEF Throughput!Init, TGroup
<1>2. /\ now = 0 /\ at = [g \in TGroup |-> "queued"]
      /\ start = [g \in TGroup |-> 0] /\ count = [g \in TGroup |-> 0]
      /\ cells = Throughput!Zeroed /\ stream = [g \in TGroup |-> <<>>]
      /\ ran = [g \in TGroup |-> Throughput!None] /\ results = <<>>
  BY <1>1 DEF Throughput!Init
<1>3. LeaderInv
  BY <1>1, <1>2 DEF LeaderInv
<1>4. Captures(cells, stream, ran)
  BY <1>1, <1>2, EmptyCaptures
<1>5. results \in Seq(CaptureFile) /\ DOMAIN results = {}
  BY <1>2
<1>. QED  BY <1>3, <1>4, <1>5 DEF CaptureInv

\* What a step leaves alone of the result files stays true of them.
LEMMA FilesKept ==
  ASSUME CaptureInv, grid' = grid, results' = results,
         LeaderInv', Captures(cells', stream', ran')
  PROVE  CaptureInv'
<1>1. /\ results \in Seq(CaptureFile)
      /\ \A k \in DOMAIN results : Captures(results[k].map, results[k].log, results[k].ran)
  BY DEF CaptureInv
<1>2. results' \in Seq(CaptureFile')
  BY <1>1, GridKept
<1>3. Captures(cells, stream, ran)'
  BY GridKept
<1>. QED  BY <1>1, <1>2, <1>3, GridKept DEF CaptureInv

LEMMA LeaderIs ==
  ASSUME CaptureInv
  PROVE  /\ grid \in Grids /\ now \in Nat /\ TGroup = Throughput!Group
         /\ at \in [TGroup -> {"queued", "running", "returned"}]
         /\ start \in [TGroup -> Nat] /\ count \in [TGroup -> Nat]
         /\ stream \in [TGroup -> Seq(Nat)] /\ ran \in [TGroup -> Nat \cup {Throughput!None}]
         /\ cells \in [TCell -> Nat] /\ results \in Seq(CaptureFile)
         /\ Captures(cells, stream, ran)
         /\ \A g \in TGroup : /\ start[g] <= now
                              /\ count[g] = Len(stream[g])
                              /\ at[g] = "queued" => stream[g] = <<>>
                              /\ at[g] # "returned" => ran[g] = Throughput!None
BY DEF CaptureInv, LeaderInv, Captures, TGroup

LEMMA TickStep == ASSUME CaptureInv, Throughput!Tick, grid' = grid PROVE CaptureInv'
<1>1. now' = now + 1 /\ UNCHANGED <<at, start, count, cells, stream, ran, results>>
  BY DEF Throughput!Tick
<1>2. now' \in Nat /\ \A g \in TGroup : start[g] <= now'
  <2>1. now \in Nat /\ \A g \in TGroup : start[g] \in Nat /\ start[g] <= now
    BY LeaderIs
  <2>. QED  BY <1>1, <2>1
<1>3. LeaderInv'
  BY <1>1, <1>2, LeaderIs, GridKept DEF LeaderInv
<1>. QED  BY <1>1, <1>3, LeaderIs, FilesKept

LEMMA StartStep ==
  ASSUME CaptureInv, NEW g \in TGroup, Throughput!Start(g), grid' = grid
  PROVE  CaptureInv'
<1>1. /\ at[g] = "queued" /\ at' = [at EXCEPT ![g] = "running"]
      /\ start' = [start EXCEPT ![g] = now] /\ count' = [count EXCEPT ![g] = 0]
      /\ UNCHANGED <<now, cells, stream, ran, results>>
  BY DEF Throughput!Start
<1>2. /\ at' \in [TGroup -> {"queued", "running", "returned"}]
      /\ start' \in [TGroup -> Nat] /\ count' \in [TGroup -> Nat]
  BY <1>1, LeaderIs
<1>3. \A h \in TGroup : /\ start'[h] <= now
                        /\ count'[h] = Len(stream[h])
                        /\ at'[h] = "queued" => stream[h] = <<>>
                        /\ at'[h] # "returned" => ran[h] = Throughput!None
  <2>. SUFFICES ASSUME NEW h \in TGroup
                PROVE  /\ start'[h] <= now
                       /\ count'[h] = Len(stream[h])
                       /\ at'[h] = "queued" => stream[h] = <<>>
                       /\ at'[h] # "returned" => ran[h] = Throughput!None
    OBVIOUS
  <2>1. CASE h = g
    BY <1>1, <2>1, LeaderIs
  <2>2. CASE h # g
    BY <1>1, <2>2, LeaderIs
  <2>. QED  BY <2>1, <2>2
<1>4. LeaderInv'
  BY <1>1, <1>2, <1>3, LeaderIs, GridKept DEF LeaderInv
<1>. QED  BY <1>1, <1>4, LeaderIs, FilesKept

LEMMA LeaveStep ==
  ASSUME CaptureInv, NEW g \in TGroup, Throughput!Leave(g), grid' = grid
  PROVE  CaptureInv'
<1>1. at' = [at EXCEPT ![g] = "returned"]
      /\ UNCHANGED <<now, start, count, cells, stream, ran, results>>
  BY DEF Throughput!Leave
<1>2. /\ at' \in [TGroup -> {"queued", "running", "returned"}]
      /\ \A h \in TGroup : at'[h] = at[h] \/ at'[h] = "returned"
  BY <1>1, LeaderIs
<1>3. LeaderInv'
  BY <1>1, <1>2, LeaderIs, GridKept DEF LeaderInv
<1>. QED  BY <1>1, <1>3, LeaderIs, FilesKept

LEMMA RecvStep ==
  ASSUME CaptureInv, NEW g \in TGroup, Throughput!Recv(g), grid' = grid
  PROVE  CaptureInv'
<1> DEFINE s == Throughput!SliceOf(g)  n == Len(stream[g])  delta == now - start[g]
           cell == ArrivalCell(s, n + 1)
<1>1. /\ grid \in Grids /\ g \in TGroup /\ n \in Nat /\ count[g] = n /\ delta \in Nat
      /\ at[g] = "running" /\ ran[g] = Throughput!None /\ Capacity \in Nat
  <2>1. at[g] = "running"
    BY DEF Throughput!Recv
  <2>2. start[g] \in Nat /\ now \in Nat /\ start[g] <= now /\ stream[g] \in Seq(Nat)
    BY LeaderIs
  <2>. QED  BY <2>1, <2>2, LeaderIs, CaptureConstants
<1>2. s \in TSlice /\ Throughput!Base(s) \in Int
  BY <1>1, OwnsOne, CaptureConstants DEF Throughput!Base
<1>3. Throughput!Base(s) + Throughput!Position(n) = cell
  BY <1>1, <1>2 DEF ArrivalCell, Throughput!Position, Throughput!HeaderCells
<1>4. /\ cells' = IF n < Capacity THEN [cells EXCEPT ![cell] = Throughput!Word(delta)] ELSE cells
      /\ stream' = [stream EXCEPT ![g] = Append(@, delta)]
      /\ count' = [count EXCEPT ![g] = n + 1]
      /\ UNCHANGED <<now, at, start, ran, results>>
  BY <1>1, <1>3 DEF Throughput!Recv, Throughput!Fits, Throughput!Counted
<1>5. n < Capacity => n + 1 \in 1..Capacity /\ cell \in TCell
  BY <1>1, <1>2, ArrivalCellsApart
<1>6. Throughput!Word(delta) \in Nat
  BY <1>1, WordIs
<1>. HIDE DEF s, delta, cell
<1>7. /\ stream'[g] \in Seq(Nat) /\ Len(stream'[g]) = n + 1 /\ stream'[g][n + 1] = delta
      /\ \A i \in 1..n : stream'[g][i] = stream[g][i]
      /\ \A h \in TGroup : h # g => stream'[h] = stream[h]
      /\ stream' \in [TGroup -> Seq(Nat)]
  <2>1. stream[g] \in Seq(Nat) /\ stream \in [TGroup -> Seq(Nat)] /\ delta \in Nat
    BY <1>1, LeaderIs
  <2>2. stream'[g] = Append(stream[g], delta)
    BY <1>4, <2>1
  <2>3. Append(stream[g], delta) \in Seq(Nat)
    BY <2>1
  <2>. QED  BY <1>4, <2>1, <2>2, <2>3
<1>8. /\ cells' \in [TCell -> Nat]
      /\ \A c \in TCell : c # cell => cells'[c] = cells[c]
      /\ n < Capacity => cells'[cell] = Throughput!Word(delta)
      /\ n >= Capacity => cells' = cells
  BY <1>1, <1>4, <1>5, <1>6, LeaderIs
<1>9. LeaderInv'
  <2>1. count' \in [TGroup -> Nat]
    BY <1>1, <1>4, LeaderIs
  <2>2. \A h \in TGroup : count'[h] = Len(stream'[h])
    BY <1>1, <1>4, <1>7, LeaderIs
  <2>3. \A h \in TGroup : at'[h] = "queued" => stream'[h] = <<>>
    BY <1>1, <1>4, <1>7, LeaderIs
  <2>. QED  BY <1>4, <2>1, <2>2, <2>3, LeaderIs, GridKept DEF LeaderInv
<1>10. ASSUME NEW t \in TSlice PROVE HeaderTells(cells', stream', ran', t)
  <2>1. HeaderTells(cells, stream, ran, t)
    BY LeaderIs DEF Captures
  <2>2. cells'[HeaderOf(t)] = cells[HeaderOf(t)] /\ cells'[HeaderOf(t) + 1] = cells[HeaderOf(t) + 1]
    <3>1. HeaderOf(t) \in TCell /\ HeaderOf(t) + 1 \in TCell
      BY <1>1, HeaderCell
    <3>2. n < Capacity => cell \notin {HeaderOf(t), HeaderOf(t) + 1}
      BY <1>1, <1>2, <1>5, ArrivalCellsApart DEF cell
    <3>. QED  BY <1>1, <1>8, <3>1, <3>2
  <2>3. \A h \in Owner(t) : \/ ran'[h] = ran[h] /\ stream'[h] = stream[h]
                            \/ ~Sees(stream, ran, h) /\ ~Sees(stream', ran', h)
    <3>1. \A h \in Owner(t) : h \in TGroup
      BY DEF Owner, Throughput!Owners, TGroup
    <3>2. ~Sees(stream, ran, g) /\ ~Sees(stream', ran', g)
      BY <1>1, <1>4 DEF Sees
    <3>3. ran' = ran
      BY <1>4
    <3>4. \A h \in Owner(t) : h # g => stream'[h] = stream[h]
      BY <1>7, <3>1
    <3>. QED  BY <3>2, <3>3, <3>4
  <2>. QED  BY <2>1, <2>2, <2>3, HeaderStays
<1>11. ASSUME NEW t \in TSlice, NEW i \in 1..Capacity PROVE ArrivalTells(cells', stream', t, i)
  <2>1. ArrivalTells(cells, stream, t, i)
    BY LeaderIs DEF Captures
  <2>2. i \in Nat /\ ArrivalCell(t, i) \in TCell
    BY <1>1, ArrivalCellsApart
  <2>3. \A h \in Owner(t) : h \in TGroup /\ (h = g => t = s)
    BY <1>1, OwnsOne DEF Owner, Throughput!Owners, TGroup, s
  <2>4. \A h \in TGroup : stream[h] \in Seq(Nat) /\ Len(stream[h]) \in Nat
    BY LeaderIs
  <2>5. CASE t = s /\ i = n + 1
    <3>1. n < Capacity /\ g \in Owner(t) /\ cell = ArrivalCell(t, i)
      BY <1>1, <2>5, OwnsOne DEF s, cell
    <3>2. i <= Len(stream'[g]) /\ stream'[g][i] = delta
      BY <1>1, <1>7, <2>5
    <3>. QED  BY <1>8, <3>1, <3>2 DEF ArrivalTells
  <2>6. CASE ~(t = s /\ i = n + 1)
    <3>1. cells'[ArrivalCell(t, i)] = cells[ArrivalCell(t, i)]
      <4>1. n < Capacity => cell # ArrivalCell(t, i)
        BY <1>1, <1>2, <1>5, <2>6, ArrivalCellsApart DEF cell
      <4>. QED  BY <1>1, <1>8, <2>2, <4>1
    <3>2. \A h \in Owner(t) : i <= Len(stream[h]) =>
                                i <= Len(stream'[h]) /\ stream'[h][i] = stream[h][i]
      <4>. SUFFICES ASSUME NEW h \in Owner(t), i <= Len(stream[h])
                    PROVE  i <= Len(stream'[h]) /\ stream'[h][i] = stream[h][i]
        OBVIOUS
      <4>1. CASE h = g
        BY <1>1, <1>7, <2>2, <4>1
      <4>2. CASE h # g
        BY <1>7, <2>3, <4>2
      <4>. QED  BY <4>1, <4>2
    <3>3. \A h \in Owner(t) : Len(stream[h]) < i => Len(stream'[h]) < i
      <4>. SUFFICES ASSUME NEW h \in Owner(t), Len(stream[h]) < i PROVE Len(stream'[h]) < i
        OBVIOUS
      <4>1. CASE h = g
        <5>1. i # n + 1 /\ n < i
          BY <2>3, <2>6, <4>1
        <5>. QED  BY <1>1, <1>7, <2>2, <4>1, <5>1
      <4>2. CASE h # g
        BY <1>7, <2>3, <4>2
      <4>. QED  BY <4>1, <4>2
    <3>. QED  BY <2>1, <3>1, <3>2, <3>3, ArrivalStays
  <2>. QED  BY <2>5, <2>6
<1>12. Captures(cells', stream', ran')
  BY <1>4, <1>7, <1>8, <1>10, <1>11, LeaderIs DEF Captures
<1>. QED  BY <1>4, <1>9, <1>12, FilesKept

LEMMA FlushStep ==
  ASSUME CaptureInv, NEW g \in TGroup, Throughput!Flush(g), grid' = grid
  PROVE  CaptureInv'
<1> DEFINE s == Throughput!SliceOf(g)  n == Len(stream[g])  d == now - start[g]
<1>1. /\ grid \in Grids /\ g \in TGroup /\ n \in Nat /\ count[g] = n /\ d \in Nat
      /\ at[g] = "running" /\ ran[g] = Throughput!None /\ stream[g] \in Seq(Nat)
      /\ Throughput!None = -1
  <2>1. at[g] = "running"
    BY DEF Throughput!Flush
  <2>2. start[g] \in Nat /\ now \in Nat /\ start[g] <= now /\ stream[g] \in Seq(Nat)
    BY LeaderIs
  <2>. QED  BY <2>1, <2>2, LeaderIs, CaptureConstants
<1>2. s \in TSlice /\ g \in Owner(s)
  BY <1>1, OwnsOne
<1>3. /\ at' = [at EXCEPT ![g] = "returned"] /\ ran' = [ran EXCEPT ![g] = d]
      /\ cells' = IF n = 0 THEN cells
                  ELSE [cells EXCEPT ![HeaderOf(s)] = Throughput!Word(d),
                                     ![HeaderOf(s) + 1] = Throughput!Word(n)]
      /\ UNCHANGED <<now, start, count, stream, results>>
  BY <1>1 DEF Throughput!Flush, HeaderOf
<1>4. Throughput!Word(d) \in Nat /\ Throughput!Word(n) \in Nat
  BY <1>1, WordIs
<1>5. /\ HeaderOf(s) \in TCell /\ HeaderOf(s) + 1 \in TCell /\ HeaderOf(s) # HeaderOf(s) + 1
      /\ \A t \in TSlice : s # t => /\ HeaderOf(t) \notin {HeaderOf(s), HeaderOf(s) + 1}
                                    /\ HeaderOf(t) + 1 \notin {HeaderOf(s), HeaderOf(s) + 1}
  BY <1>1, <1>2, HeaderCell
<1>. HIDE DEF s, d, n
<1>6. /\ ran' \in [TGroup -> Nat \cup {Throughput!None}] /\ ran'[g] = d
      /\ \A h \in TGroup : h # g => ran'[h] = ran[h]
  BY <1>1, <1>3, LeaderIs
<1>7. /\ cells' \in [TCell -> Nat]
      /\ \A c \in TCell : c \notin {HeaderOf(s), HeaderOf(s) + 1} => cells'[c] = cells[c]
      /\ n # 0 => /\ cells'[HeaderOf(s)] = Throughput!Word(d)
                  /\ cells'[HeaderOf(s) + 1] = Throughput!Word(n)
      /\ n = 0 => cells' = cells
  BY <1>3, <1>4, <1>5, LeaderIs
<1>8. LeaderInv'
  <2>1. /\ at' \in [TGroup -> {"queued", "running", "returned"}] /\ at'[g] = "returned"
        /\ \A h \in TGroup : h # g => at'[h] = at[h]
    BY <1>1, <1>3, LeaderIs
  <2>2. \A h \in TGroup : /\ at'[h] = "queued" => stream[h] = <<>>
                          /\ at'[h] # "returned" => ran'[h] = Throughput!None
    BY <1>6, <2>1, LeaderIs
  <2>. QED  BY <1>3, <2>1, <2>2, LeaderIs, GridKept DEF LeaderInv
<1>9. \A t \in TSlice : \A h \in Owner(t) : h \in TGroup /\ (h = g => t = s)
  BY <1>1, OwnsOne DEF Owner, Throughput!Owners, TGroup, s
<1>10. ASSUME NEW t \in TSlice PROVE HeaderTells(cells', stream, ran', t)
  <2>1. HeaderTells(cells, stream, ran, t)
    BY LeaderIs DEF Captures
  <2>2. CASE t # s \/ n = 0
    <3>1. cells'[HeaderOf(t)] = cells[HeaderOf(t)] /\ cells'[HeaderOf(t) + 1] = cells[HeaderOf(t) + 1]
      <4>1. HeaderOf(t) \in TCell /\ HeaderOf(t) + 1 \in TCell
        BY <1>1, HeaderCell
      <4>. QED  BY <1>5, <1>7, <2>2, <4>1
    <3>2. ASSUME NEW h \in Owner(t)
          PROVE  \/ ran'[h] = ran[h]
                 \/ ~Sees(stream, ran, h) /\ ~Sees(stream, ran', h)
      <4>1. CASE h # g
        <5>1. h \in TGroup
          BY <1>9
        <5>. QED  BY <1>6, <4>1, <5>1
      <4>2. CASE h = g
        <5>1. n = 0
          BY <1>9, <2>2, <4>2
        <5>2. stream[g] = <<>>
          BY <1>1, <5>1 DEF n
        <5>. QED  BY <4>2, <5>2 DEF Sees
      <4>. QED  BY <4>1, <4>2
    <3>. QED  BY <2>1, <3>1, <3>2, HeaderStays
  <2>3. CASE t = s /\ n # 0
    <3>1. stream[g] # <<>> /\ ran'[g] # Throughput!None
      <4>1. stream[g] # <<>>
        BY <2>3 DEF n
      <4>. QED  BY <1>1, <1>6, <4>1
    <3>. QED  BY <1>2, <1>6, <1>7, <2>3, <3>1 DEF HeaderTells, Sees, n
  <2>. QED  BY <2>2, <2>3
<1>11. ASSUME NEW t \in TSlice, NEW i \in 1..Capacity PROVE ArrivalTells(cells', stream, t, i)
  <2>1. ArrivalTells(cells, stream, t, i)
    BY LeaderIs DEF Captures
  <2>2. cells'[ArrivalCell(t, i)] = cells[ArrivalCell(t, i)]
    BY <1>1, <1>2, <1>7, ArrivalCellsApart
  <2>. QED  BY <2>1, <2>2 DEF ArrivalTells
<1>12. Captures(cells', stream', ran')
  BY <1>3, <1>6, <1>7, <1>10, <1>11, LeaderIs DEF Captures
<1>. QED  BY <1>3, <1>8, <1>12, FilesKept

LEMMA ResultsStep == ASSUME CaptureInv, Throughput!Save, grid' = grid PROVE CaptureInv'
<1> DEFINE file == [map |-> cells, log |-> stream, ran |-> ran]
<1>1. /\ results' = Append(results, file) /\ cells' = Throughput!Zeroed /\ now' = 0
      /\ at' = [g \in TGroup |-> "queued"]
      /\ start' = [g \in TGroup |-> 0] /\ count' = [g \in TGroup |-> 0]
      /\ stream' = [g \in TGroup |-> <<>>] /\ ran' = [g \in TGroup |-> Throughput!None]
  BY LeaderIs DEF Throughput!Save
<1>2. /\ grid \in Grids /\ results \in Seq(CaptureFile) /\ file \in CaptureFile
      /\ Captures(file.map, file.log, file.ran)
  BY LeaderIs DEF CaptureFile
<1>. HIDE DEF file
<1>3. LeaderInv'
  BY <1>1, <1>2, GridKept DEF LeaderInv
<1>4. Captures(cells', stream', ran')
  BY <1>1, <1>2, EmptyCaptures
<1>5. results' \in Seq(CaptureFile)
      /\ \A k \in DOMAIN results' : \/ k \in DOMAIN results /\ results'[k] = results[k]
                                    \/ results'[k] = file
  BY <1>1, <1>2
<1>6. \A k \in DOMAIN results' : Captures(results'[k].map, results'[k].log, results'[k].ran)
  BY <1>2, <1>5 DEF CaptureInv
<1>. QED  BY <1>3, <1>4, <1>5, <1>6, GridKept DEF CaptureInv

LEMMA CaptureIdle == ASSUME CaptureInv, UNCHANGED throughputFiles PROVE CaptureInv'
<1>1. LeaderInv'
  BY LeaderIs, GridKept DEF LeaderInv, throughputFiles
<1>. QED  BY <1>1, LeaderIs, FilesKept DEF throughputFiles

LEMMA CaptureStep == ASSUME CaptureInv, Throughput!Next PROVE CaptureInv'
<1>1. grid' = grid
  BY DEF Throughput!Next
<1>2. CASE Throughput!Tick
  BY <1>1, <1>2, TickStep
<1>3. ASSUME NEW g \in Throughput!Group,
             Throughput!Start(g) \/ Throughput!Recv(g) \/ Throughput!Flush(g) \/ Throughput!Leave(g)
      PROVE  CaptureInv'
  BY <1>1, <1>3, StartStep, RecvStep, FlushStep, LeaveStep DEF TGroup
<1>4. CASE Throughput!Save
  BY <1>1, <1>4, ResultsStep
<1>. QED  BY <1>2, <1>3, <1>4 DEF Throughput!Next

(***************************************************************************)
(* The inductive invariant of the throughput map: whenever the groups      *)
(* start, log and return, the slices tell what their owners saw.           *)
(***************************************************************************)
THEOREM CaptureInductive == Throughput!Spec => []CaptureInv
<1>1. Throughput!Init => CaptureInv
  BY CaptureInitial
<1>2. CaptureInv /\ [Throughput!Next]_(Throughput!vars) => CaptureInv'
  BY CaptureStep, CaptureIdle DEF Throughput!vars, throughputFiles
<1>. QED  BY <1>1, <1>2, PTL DEF Throughput!Spec

(***************************************************************************)
(* analyze.py: in throughput mode a run is one of the throughput probe,    *)
(* and in the others its files do not change, so what is proved of         *)
(* ThroughputProbe holds whatever the mode.                                *)
(***************************************************************************)
THEOREM ThroughputInAnalyze == AnalyzeSpec => Throughput!Spec
<1>1. AnalyzeInit => Throughput!Init
  BY DEF AnalyzeInit
<1>2. [AnalyzeNext]_analyzeVars => [Throughput!Next]_(Throughput!vars)
  BY DEF AnalyzeNext, LatencyRun, MemoryRun, ThroughputRun, analyzeVars, throughputFiles,
         Throughput!vars
<1>. QED  BY <1>1, <1>2, PTL DEF AnalyzeSpec, Throughput!Spec

(***************************************************************************)
(* What is decoded of a slice of a result file.                            *)
(***************************************************************************)
LEMMA SliceRead ==
  ASSUME grid \in Grids, NEW r \in CaptureFile, NEW s \in TSlice
  PROVE  /\ Throughput!Total(r, s) = r.map[HeaderOf(s) + 1]
         /\ Throughput!Duration(r, s) = r.map[HeaderOf(s)]
         /\ Throughput!Total(r, s) \in Nat
         /\ LET n == IF Throughput!Total(r, s) <= Capacity THEN Throughput!Total(r, s)
                                                           ELSE Capacity
            IN  /\ n \in Nat /\ Len(Throughput!Deltas(r, s)) = n
                /\ DOMAIN Throughput!Deltas(r, s) = 1..n
                /\ \A i \in 1..n : Throughput!Deltas(r, s)[i] = r.map[ArrivalCell(s, i)]
                /\ n = 0 => Throughput!Deltas(r, s) = <<>>
<1> DEFINE total == Throughput!Total(r, s)
           n == IF total <= Capacity THEN total ELSE Capacity
           deltas == Throughput!Deltas(r, s)
<1>1. total = r.map[HeaderOf(s) + 1] /\ Throughput!Duration(r, s) = r.map[HeaderOf(s)]
  BY DEF Throughput!Total, Throughput!Duration, HeaderOf
<1>2. HeaderOf(s) + 1 \in TCell /\ r.map \in [TCell -> Nat] /\ Capacity \in Nat
  BY HeaderCell, CaptureConstants DEF CaptureFile
<1>3. total \in Nat /\ n \in Nat
  BY <1>1, <1>2
<1>4. Throughput!Min({total, Capacity}) = n
  BY <1>2, <1>3, LesserOf
<1>5. deltas = [i \in 1..n |-> r.map[Throughput!Base(s) + Throughput!HeaderCells + i - 1]]
  BY <1>4 DEF Throughput!Deltas
<1>. HIDE DEF total, n, deltas
<1>6. Throughput!Base(s) \in Int
  BY CaptureConstants DEF Throughput!Base
<1>7. \A i \in 1..n : Throughput!Base(s) + Throughput!HeaderCells + i - 1 = ArrivalCell(s, i)
  BY <1>3, <1>6 DEF ArrivalCell, Throughput!HeaderCells
<1>8. DOMAIN deltas = 1..n /\ \A i \in 1..n : deltas[i] = r.map[ArrivalCell(s, i)]
  BY <1>5, <1>7
<1>9. Len(deltas) = n
  <2>1. deltas = [i \in 1..n |-> deltas[i]]
    BY <1>5
  <2>. QED  BY <1>3, <2>1, Tabled
<1>10. ASSUME n = 0 PROVE deltas = <<>>
  <2>1. deltas \in Seq({deltas[i] : i \in 1..n})
    <3>1. [i \in 1..n |-> deltas[i]] \in Seq({deltas[i] : i \in 1..n})
      BY <1>3
    <3>2. deltas = [i \in 1..n |-> deltas[i]]
      BY <1>5
    <3>. QED  BY <3>1, <3>2
  <2>. QED  BY <1>9, <1>10, <2>1
<1>11. /\ total = r.map[HeaderOf(s) + 1] /\ Throughput!Duration(r, s) = r.map[HeaderOf(s)]
       /\ total \in Nat /\ n \in Nat /\ Len(deltas) = n /\ DOMAIN deltas = 1..n
       /\ \A i \in 1..n : deltas[i] = r.map[ArrivalCell(s, i)]
       /\ n = 0 => deltas = <<>>
  BY <1>1, <1>3, <1>8, <1>9, <1>10
<1>. QED  BY <1>11 DEF total, n, deltas

LEMMA SlicesTell ==
  ASSUME grid \in Grids, NEW r \in CaptureFile, Captures(r.map, r.log, r.ran), NEW s \in TSlice
  PROVE  Throughput!IsOfOwners(r, s)
<1> DEFINE total == Throughput!Total(r, s)
           n == IF total <= Capacity THEN total ELSE Capacity
<1>1. /\ total = r.map[HeaderOf(s) + 1] /\ total \in Nat /\ n \in Nat
      /\ Len(Throughput!Deltas(r, s)) = n /\ Capacity \in Nat
      /\ \A i \in 1..n : Throughput!Deltas(r, s)[i] = r.map[ArrivalCell(s, i)]
  BY SliceRead, CaptureConstants
<1>2. HeaderTells(r.map, r.log, r.ran, s) /\ \A i \in 1..Capacity : ArrivalTells(r.map, r.log, s, i)
  BY DEF Captures
<1>3. \A g \in Owner(s) : r.log[g] \in Seq(Nat)
  BY DEF Owner, Throughput!Owners, TGroup, CaptureFile
<1>. SUFFICES ASSUME NEW i \in 1..n
              PROVE  \E g \in Owner(s) : /\ i <= Len(r.log[g])
                                         /\ r.map[ArrivalCell(s, i)] = Throughput!Word(r.log[g][i])
  BY <1>1 DEF Throughput!IsOfOwners, Owner
<1>4. i \in 1..Capacity /\ i <= total /\ total # 0 /\ i \in Int
  BY <1>1
<1>5. PICK g \in Owner(s) : total = Throughput!Word(Len(r.log[g]))
  BY <1>1, <1>2, <1>4 DEF HeaderTells
<1>6. i <= Len(r.log[g]) /\ Len(r.log[g]) \in Nat
  <2>1. Len(r.log[g]) \in Nat
    BY <1>3
  <2>2. total <= Len(r.log[g])
    BY <1>5, <2>1, WordIs
  <2>. QED  BY <1>1, <1>4, <2>1, <2>2
<1>. QED  BY <1>2, <1>4, <1>6 DEF ArrivalTells

LEMMA AloneExact ==
  ASSUME grid \in Grids, NEW r \in CaptureFile, Captures(r.map, r.log, r.ran),
         NEW g \in TGroup, Throughput!Alone(g)
  PROVE  Throughput!IsExact(r, g)
<1> DEFINE s == Throughput!SliceOf(g)  seen == Len(r.log[g])
           total == Throughput!Total(r, s)
           n == IF total <= Capacity THEN total ELSE Capacity
<1>1. s \in TSlice /\ Owner(s) = {g}
  BY OwnsOne DEF Throughput!Alone, Owner
<1>2. /\ total = r.map[HeaderOf(s) + 1] /\ Throughput!Duration(r, s) = r.map[HeaderOf(s)]
      /\ total \in Nat /\ n \in Nat /\ Capacity \in Nat
      /\ \A i \in 1..n : Throughput!Deltas(r, s)[i] = r.map[ArrivalCell(s, i)]
      /\ n = 0 => Throughput!Deltas(r, s) = <<>>
  BY <1>1, SliceRead, CaptureConstants
<1>3. HeaderTells(r.map, r.log, r.ran, s) /\ \A i \in 1..Capacity : ArrivalTells(r.map, r.log, s, i)
  BY <1>1 DEF Captures
<1>4. r.log[g] \in Seq(Nat) /\ seen \in Nat /\ (r.log[g] = <<>> <=> seen = 0)
  <2>1. r.log[g] \in Seq(Nat)
    BY DEF CaptureFile
  <2>. QED  BY <2>1
<1>5. Throughput!IsExact(r, g) <=>
        IF ~Sees(r.log, r.ran, g) THEN Throughput!Deltas(r, s) = <<>>
        ELSE /\ Throughput!Duration(r, s) = Throughput!Word(r.ran[g])
             /\ total = Throughput!Word(seen)
             /\ seen < WordRange =>
                  \A i \in 1..Throughput!Min({seen, Capacity}) :
                    Throughput!Deltas(r, s)[i] = Throughput!Word(r.log[g][i])
  BY <1>4 DEF Throughput!IsExact, Throughput!Flushed, Sees
<1>. HIDE DEF s, total, seen, n
<1>6. CASE ~Sees(r.log, r.ran, g)
  <2>1. total = 0
    BY <1>1, <1>2, <1>3, <1>6 DEF HeaderTells
  <2>2. n = 0
    BY <1>2, <2>1 DEF n
  <2>. QED  BY <1>2, <1>5, <1>6, <2>2
<1>7. CASE Sees(r.log, r.ran, g)
  <2>1. /\ r.map[HeaderOf(s)] = Throughput!Word(r.ran[g])
        /\ r.map[HeaderOf(s) + 1] = Throughput!Word(seen)
    BY <1>1, <1>3, <1>7 DEF HeaderTells, seen
  <2>2. ASSUME seen < WordRange, NEW i \in 1..Throughput!Min({seen, Capacity})
        PROVE  Throughput!Deltas(r, s)[i] = Throughput!Word(r.log[g][i])
    <3>1. total = seen
      BY <1>2, <1>4, <2>1, <2>2, WordIs
    <3>2. Throughput!Min({seen, Capacity}) = n
      BY <1>2, <1>4, <3>1, LesserOf DEF n
    <3>3. i \in 1..n /\ i \in 1..Capacity /\ i <= seen /\ i \in Int
      BY <1>2, <1>4, <2>2, <3>1, <3>2 DEF n
    <3>4. r.map[ArrivalCell(s, i)] = Throughput!Word(r.log[g][i])
      <4>1. ~(Len(r.log[g]) < i)
        BY <1>4, <3>3 DEF seen
      <4>. QED  BY <1>1, <1>3, <3>3, <4>1 DEF ArrivalTells
    <3>. QED  BY <1>2, <3>3, <3>4
  <2>. QED  BY <1>2, <1>5, <1>7, <2>1, <2>2
<1>. QED  BY <1>6, <1>7

(***************************************************************************)
(* A slice of one group says exactly what it saw, and one that is shared   *)
(* only what an owner saw, for any number of groups, slices, cells and     *)
(* arrivals, any width of a word, and groups that return anywhere.         *)
(***************************************************************************)
THEOREM StreamsExactHolds == AnalyzeSpec => []StreamsExact
<1>1. CaptureInv => StreamsExact
  <2>. SUFFICES ASSUME CaptureInv, NEW r \in Throughput!Range(results)
                PROVE  /\ \A g \in TGroup : Throughput!Alone(g) => Throughput!IsExact(r, g)
                       /\ \A s \in TSlice : Throughput!IsOfOwners(r, s)
    BY DEF StreamsExact, Throughput!StreamsExact, TGroup, TSlice
  <2>1. PICK k \in DOMAIN results : r = results[k]
    BY DEF Throughput!Range
  <2>2. grid \in Grids /\ r \in CaptureFile /\ Captures(r.map, r.log, r.ran)
    BY <2>1, LeaderIs DEF CaptureInv
  <2>. QED  BY <2>2, AloneExact, SlicesTell
<1>. QED  BY <1>1, CaptureInductive, ThroughputInAnalyze, PTL

(***************************************************************************)
(* Sums over the result files.  The fold of the library is a function on   *)
(* the subsets of the domain that is defined by recursion; it exists as    *)
(* far as their cardinality goes (Sums), and adds up pointwise.            *)
(***************************************************************************)
First(s) == CHOOSE x \in s : TRUE
IsSum(it, f, S) ==
  it = [s \in S |-> IF s = {} THEN 0 ELSE f[First(s)] + it[s \ {First(s)}]]

LEMMA SumIs ==
  ASSUME NEW f, NEW D, D = DOMAIN f
  PROVE  Throughput!SumOf(f) = (CHOOSE it : IsSum(it, f, SUBSET D))[D]
BY DEF Throughput!SumOf, Throughput!FoldFunction, Throughput!FoldFunctionOnSet,
       Throughput!MapThenFoldSet, IsSum, First

Small(D, n) == {s \in SUBSET D : Cardinality(s) <= n}

LEMMA SmallSubset ==
  ASSUME NEW D, IsFiniteSet(D), NEW n \in Nat, NEW s \in Small(D, n + 1), s # {}
  PROVE  First(s) \in s /\ First(s) \in D /\ s \ {First(s)} \in Small(D, n)
<1>1. First(s) \in s
  BY DEF First
<1>2. s \in SUBSET D /\ Cardinality(s) <= n + 1
  BY DEF Small
<1>3. IsFiniteSet(s) /\ Cardinality(s) \in Nat
  BY <1>2, FS_Subset, FS_CardinalityType
<1>4. Cardinality(s \ {First(s)}) = Cardinality(s) - 1
  BY <1>1, <1>3, FS_RemoveElement
<1>. QED  BY <1>1, <1>2, <1>3, <1>4 DEF Small

LEMMA Sums ==
  ASSUME NEW f, NEW D, IsFiniteSet(D)
  PROVE  \E it : IsSum(it, f, SUBSET D)
<1> DEFINE Has(n) == \E it : IsSum(it, f, Small(D, n))
           Lacks == {n \in Nat : ~Has(n)}
<1>1. Has(0)
  <2> DEFINE it == [s \in Small(D, 0) |-> 0]
  <2>1. \A s \in Small(D, 0) : s = {}
    <3>. SUFFICES ASSUME NEW s \in Small(D, 0) PROVE s = {}
      OBVIOUS
    <3>1. s \in SUBSET D /\ Cardinality(s) <= 0
      BY DEF Small
    <3>2. IsFiniteSet(s) /\ Cardinality(s) \in Nat
      BY <3>1, FS_Subset, FS_CardinalityType
    <3>. QED  BY <3>1, <3>2, FS_EmptySet
  <2>2. it = [s \in Small(D, 0) |-> IF s = {} THEN 0 ELSE f[First(s)] + it[s \ {First(s)}]]
    BY <2>1
  <2>. QED  BY <2>2 DEF IsSum
<1>2. ASSUME NEW n \in Nat, Has(n) PROVE Has(n + 1)
  <2>1. PICK it : IsSum(it, f, Small(D, n))
    BY <1>2
  <2> DEFINE more == [s \in Small(D, n + 1) |->
                        IF s = {} THEN 0 ELSE f[First(s)] + it[s \ {First(s)}]]
  <2>2. Small(D, n) \subseteq Small(D, n + 1)
    <3>. SUFFICES ASSUME NEW s \in Small(D, n) PROVE s \in Small(D, n + 1)
      OBVIOUS
    <3>1. s \in SUBSET D /\ Cardinality(s) <= n
      BY DEF Small
    <3>2. Cardinality(s) \in Nat
      BY <3>1, FS_Subset, FS_CardinalityType
    <3>. QED  BY <3>1, <3>2 DEF Small
  <2>3. \A s \in Small(D, n) : more[s] = it[s]
    <3>1. \A s \in Small(D, n) :
            it[s] = IF s = {} THEN 0 ELSE f[First(s)] + it[s \ {First(s)}]
      BY <2>1 DEF IsSum
    <3>. QED  BY <2>2, <3>1
  <2>4. \A s \in Small(D, n + 1) : s # {} => s \ {First(s)} \in Small(D, n)
    BY SmallSubset
  <2>5. more = [s \in Small(D, n + 1) |->
                  IF s = {} THEN 0 ELSE f[First(s)] + more[s \ {First(s)}]]
    <3>1. \A s \in Small(D, n + 1) :
            s # {} => more[s \ {First(s)}] = it[s \ {First(s)}]
      BY <2>3, <2>4
    <3>. QED  BY <3>1
  <2>. QED  BY <2>5 DEF IsSum
<1>3. Lacks = {}
  <2>. SUFFICES ASSUME Lacks # {} PROVE FALSE
    OBVIOUS
  <2>1. PICK n \in Lacks : \A m \in Lacks : n <= m
    <3>. HIDE DEF Has
    <3>. QED  BY Least
  <2>2. n \in Nat /\ ~Has(n)
    OBVIOUS
  <2>. HIDE DEF Has
  <2>3. n # 0
    BY <1>1, <2>2
  <2>4. n - 1 \in Nat /\ (n - 1) + 1 = n
    BY <2>2, <2>3
  <2>5. Has(n - 1)
    BY <2>1, <2>4
  <2>. QED  BY <1>2, <2>2, <2>4, <2>5
<1>4. Small(D, Cardinality(D)) = SUBSET D
  <2>1. \A s \in SUBSET D : Cardinality(s) <= Cardinality(D)
    BY FS_Subset
  <2>. QED  BY <2>1 DEF Small
<1>5. Cardinality(D) \in Nat
  BY FS_CardinalityType
<1>6. Has(Cardinality(D))
  <2>. HIDE DEF Has
  <2>. QED  BY <1>3, <1>5
<1>. QED  BY <1>4, <1>6

LEMMA SumUnfolds ==
  ASSUME NEW f, NEW D, D = DOMAIN f, IsFiniteSet(D)
  PROVE  \E it : IsSum(it, f, SUBSET D) /\ Throughput!SumOf(f) = it[D]
<1>1. IsSum(CHOOSE it : IsSum(it, f, SUBSET D), f, SUBSET D)
  BY Sums
<1>. QED  BY <1>1, SumIs

LEMMA SumsAdd ==
  ASSUME NEW D, IsFiniteSet(D), NEW a \in [D -> Int], NEW b \in [D -> Int], NEW c,
         c = [i \in D |-> a[i] + b[i]]
  PROVE  Throughput!SumOf(a) + Throughput!SumOf(b) = Throughput!SumOf(c)
<1>1. PICK sa : IsSum(sa, a, SUBSET D) /\ Throughput!SumOf(a) = sa[D]
  BY SumUnfolds
<1>2. PICK sb : IsSum(sb, b, SUBSET D) /\ Throughput!SumOf(b) = sb[D]
  BY SumUnfolds
<1>3. PICK sc : IsSum(sc, c, SUBSET D) /\ Throughput!SumOf(c) = sc[D]
  BY SumUnfolds
<1> DEFINE Good(s) == sa[s] \in Int /\ sb[s] \in Int /\ sa[s] + sb[s] = sc[s]
           Bad == {Cardinality(s) : s \in {t \in SUBSET D : ~Good(t)}}
<1>4. \A s \in SUBSET D :
        /\ s = {} => sa[s] = 0 /\ sb[s] = 0 /\ sc[s] = 0
        /\ s # {} => /\ sa[s] = a[First(s)] + sa[s \ {First(s)}]
                     /\ sb[s] = b[First(s)] + sb[s \ {First(s)}]
                     /\ sc[s] = c[First(s)] + sc[s \ {First(s)}]
  BY <1>1, <1>2, <1>3 DEF IsSum
<1>5. Good({})
  <2>1. {} \in SUBSET D
    OBVIOUS
  <2>2. sa[{}] = 0 /\ sb[{}] = 0 /\ sc[{}] = 0
    BY <1>4, <2>1
  <2>. QED  BY <2>2
<1>6. ASSUME NEW s \in SUBSET D, s # {}, Good(s \ {First(s)}) PROVE Good(s)
  <2>1. First(s) \in D
    BY <1>6 DEF First
  <2>2. a[First(s)] \in Int /\ b[First(s)] \in Int /\ c[First(s)] = a[First(s)] + b[First(s)]
    BY <2>1
  <2>3. /\ sa[s] = a[First(s)] + sa[s \ {First(s)}]
        /\ sb[s] = b[First(s)] + sb[s \ {First(s)}]
        /\ sc[s] = c[First(s)] + sc[s \ {First(s)}]
    BY <1>4, <1>6
  <2>4. /\ sa[s \ {First(s)}] \in Int /\ sb[s \ {First(s)}] \in Int
        /\ sa[s \ {First(s)}] + sb[s \ {First(s)}] = sc[s \ {First(s)}]
    BY <1>6
  <2>. QED  BY <2>2, <2>3, <2>4
<1>. HIDE DEF Good
<1>7. \A s \in SUBSET D : IsFiniteSet(s) /\ Cardinality(s) \in Nat
  BY FS_Subset, FS_CardinalityType
<1>8. Bad = {}
  <2>. SUFFICES ASSUME Bad # {} PROVE FALSE
    OBVIOUS
  <2>1. Bad \subseteq Nat
    BY <1>7
  <2>2. PICK n \in Bad : \A m \in Bad : n <= m
    <3>. HIDE DEF Bad
    <3>. QED  BY <2>1, Least
  <2>3. PICK s \in SUBSET D : n = Cardinality(s) /\ ~Good(s)
    OBVIOUS
  <2>4. s # {} /\ First(s) \in s
    BY <1>5, <2>3 DEF First
  <2>5. Cardinality(s \ {First(s)}) = n - 1 /\ n \in Nat
    BY <1>7, <2>3, <2>4, FS_RemoveElement
  <2>6. s \ {First(s)} \in SUBSET D /\ ~Good(s \ {First(s)})
    BY <1>6, <2>3, <2>4
  <2>7. n - 1 \in Bad
    BY <2>5, <2>6
  <2>. QED  BY <2>2, <2>5, <2>7
<1>9. Good(D)
  BY <1>8
<1>. QED  BY <1>1, <1>2, <1>3, <1>9 DEF Good

(***************************************************************************)
(* What the summary calls captured and dropped are the arrivals the group  *)
(* saw in the launches it was flushed in, however many there were.         *)
(***************************************************************************)
THEOREM SummaryAddsUpHolds == AnalyzeSpec => []SummaryAddsUp
<1>1. CaptureInv => SummaryAddsUp
  <2>. SUFFICES ASSUME CaptureInv, NEW g \in TGroup, Throughput!Alone(g)
                PROVE  Throughput!Captured(Throughput!SliceOf(g))
                         + Throughput!Dropped(Throughput!SliceOf(g))
                       = Throughput!SumOf(
                           [i \in DOMAIN results |->
                              IF Throughput!Flushed(results[i], g)
                              THEN Throughput!Word(Len(results[i].log[g])) ELSE 0])
    BY DEF SummaryAddsUp, Throughput!SummaryAddsUp, TGroup
  <2> DEFINE s == Throughput!SliceOf(g)  D == DOMAIN results
             a == [i \in D |-> Len(Throughput!Deltas(results[i], s))]
             b == [i \in D |-> Throughput!Lost(Throughput!Total(results[i], s))]
             c == [i \in D |-> IF Throughput!Flushed(results[i], g)
                               THEN Throughput!Word(Len(results[i].log[g])) ELSE 0]
  <2>1. IsFiniteSet(D)
    <3>1. D = 1..Len(results) /\ Len(results) \in Nat
      BY LeaderIs
    <3>. QED  BY <3>1, FS_Interval
  <2>2. grid \in Grids /\ s \in TSlice
    BY LeaderIs, OwnsOne
  <2>3. ASSUME NEW i \in D
        PROVE  /\ Len(Throughput!Deltas(results[i], s)) \in Int
               /\ Throughput!Lost(Throughput!Total(results[i], s)) \in Int
               /\ Len(Throughput!Deltas(results[i], s))
                    + Throughput!Lost(Throughput!Total(results[i], s))
                  = IF Throughput!Flushed(results[i], g)
                    THEN Throughput!Word(Len(results[i].log[g])) ELSE 0
    <3> DEFINE r == results[i]  total == Throughput!Total(r, s)
    <3>1. r \in CaptureFile /\ Captures(r.map, r.log, r.ran)
      BY LeaderIs DEF CaptureInv
    <3>. HIDE DEF r, s
    <3>2. /\ total \in Nat /\ Capacity \in Nat /\ total = r.map[HeaderOf(s) + 1]
          /\ Len(Throughput!Deltas(r, s)) = IF total <= Capacity THEN total ELSE Capacity
      BY <2>2, <3>1, SliceRead, CaptureConstants
    <3>3. Throughput!Lost(total) = total - (IF total <= Capacity THEN total ELSE Capacity)
      BY <3>2, LesserOf DEF Throughput!Lost
    <3>4. total = IF Throughput!Flushed(r, g) THEN Throughput!Word(Len(r.log[g])) ELSE 0
      <4>1. Owner(s) = {g}
        BY DEF Throughput!Alone, Owner, s
      <4>2. HeaderTells(r.map, r.log, r.ran, s) /\ r.log[g] \in Seq(Nat)
        BY <2>2, <3>1 DEF Captures
      <4>3. Throughput!Word(0) = 0
        BY WordIs
      <4>4. r.log[g] = <<>> => Len(r.log[g]) = 0
        OBVIOUS
      <4>5. CASE Sees(r.log, r.ran, g)
        BY <3>2, <4>1, <4>2, <4>5 DEF HeaderTells, Sees, Throughput!Flushed
      <4>6. CASE ~Sees(r.log, r.ran, g)
        BY <3>2, <4>1, <4>2, <4>3, <4>4, <4>6 DEF HeaderTells, Sees, Throughput!Flushed
      <4>. QED  BY <4>5, <4>6
    <3>5. /\ Len(Throughput!Deltas(r, s)) \in Int /\ Throughput!Lost(total) \in Int
          /\ Len(Throughput!Deltas(r, s)) + Throughput!Lost(total) = total
      BY <3>2, <3>3
    <3>. QED  BY <3>4, <3>5 DEF r, s
  <2>4. a \in [D -> Int] /\ b \in [D -> Int] /\ c = [i \in D |-> a[i] + b[i]]
    <3>. HIDE DEF s
    <3>. QED  BY <2>3
  <2>5. Throughput!SumOf(a) + Throughput!SumOf(b) = Throughput!SumOf(c)
    <3>. HIDE DEF a, b, c, D
    <3>. QED  BY <2>1, <2>4, SumsAdd
  <2>. QED  BY <2>5 DEF Throughput!Captured, Throughput!Dropped
<1>. QED  BY <1>1, CaptureInductive, ThroughputInAnalyze, PTL
==============================================================================
