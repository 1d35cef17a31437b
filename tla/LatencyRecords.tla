--------------------------- MODULE LatencyRecords ---------------------------
(***************************************************************************)
(* The latency records, from the receive hook to the two analyzers that    *)
(* read them, analysis/latency.py and analysis/mailbox_debug.py.  A hook   *)
(* that found its message saves a row in the map sr_latency and one in     *)
(* sr_latency_debug; source, channel and the invalid mark are packed in    *)
(* one word, which the debug row shares with the number of polls.  The     *)
(* result file of a launch holds these maps beside ptp_metrics, so this    *)
(* module extends the one of those rows; a CTA that gave up in the grid    *)
(* barrier is at its hooks while others still calibrate.                   *)
(*                                                                         *)
(* Where no fabric memory is to be had, the NCCL prober replaces the probe *)
(* by a local one that has only the map sr_latency (compact): each warp    *)
(* saves a row at every receive load, with the time since the kernel began *)
(* and the number of its CTA, and neither source nor mark.  From a file    *)
(* with one map the analyzer reads the first slot of each stream.          *)
(*                                                                         *)
(* External: the stream of a warp, and a result file left torn by a        *)
(* process that dies while it is written, the last file of the rank.       *)
(***************************************************************************)
EXTENDS PtpAlignment

CONSTANTS
  Receivers,     \* ranks whose hooks are looked at
  Streams,       \* warps that save records
  CtaOf,         \* CtaOf[w]: the CTA of warp w
  ReceiveLoads,  \* receive loads in a kernel the local probe is put into
  VBlocks,       \* channels the mailbox has slots for (4096)
  SourceShift,   \* weight of the source in the word (2^16)
  InvalidFlag,   \* weight of the invalid mark (2^31)
  WordSize,      \* weight of the poll count in the debug word (2^32)
  Measured,      \* latencies a hook can measure, of either sign
  Polls          \* polls a hook can need before it finds its message

ASSUME RecordsAssumption ==
  /\ \A s \in Shapes : s.hooks \in Nat
  /\ {ReceiveLoads, VBlocks, SourceShift, InvalidFlag, WordSize} \subseteq Nat \ {0}
  /\ CtaOf \in [Streams -> 0..(VBlocks - 1)]
  /\ VBlocks <= SourceShift
  /\ \A s \in Shapes : (s.ranks + 1) * SourceShift <= InvalidFlag
  /\ 2 * InvalidFlag <= WordSize
  /\ Measured \subseteq Int /\ Polls \subseteq Nat

VARIABLES
  rows,      \* rows[r][w]: the rows of the stream of warp w in this launch
  hooked,    \* hooked[r]: the records its hooks meant to save (history)
  saved,     \* saved[r]: for each result file, its streams
  meant,     \* meant[r]: what they were meant to say (history)
  torn       \* torn[r]: result files that cannot be read to their end

recordVars == <<rows, hooked, saved, meant, torn>>
allVars == <<vars, recordVars>>

Receiver == Receivers \cap Rank
NoRows == [r \in Receiver |-> [w \in Streams |-> <<>>]]

RecordsInit ==
  /\ Init
  /\ rows = NoRows
  /\ hooked = [r \in Receiver |-> {}]
  /\ saved = [r \in Receiver |-> <<>>]
  /\ meant = [r \in Receiver |-> <<>>]
  /\ torn = [r \in Receiver |-> {}]

(***************************************************************************)
(* recv_latency: the word of a record.  Source 0 is packed as 1, so that   *)
(* no row that was written is all zeros.  The local probe's word has no    *)
(* source.                                                                 *)
(***************************************************************************)
Unknown == -1
PlainSource(q) == q                      \* mutant: source 0 is no source
SourceField(q) == q + 1

Marked(word, invalid) == word + (IF invalid THEN InvalidFlag ELSE 0)
Word(x) == Marked(SourceField(x.src) * SourceShift + x.vblock, x.invalid)

Row(x) == [latency |-> x.latency, word |-> Word(x), step |-> x.step,
           meta |-> x.polls * WordSize + Word(x)]

\* A hit by the first or second poll, or without a time, is marked invalid.
Invalid(polls, timed) == polls <= 1 \/ ~timed

Saves(r) == Cardinality(hooked[r])

HookSaves(r) ==
  /\ Launched /\ ~shape.compact
  /\ Saves(r) < shape.hooks
  /\ \E q \in Rank \ {r}, v \in 0..(VBlocks - 1), l \in Measured, n \in Polls,
        timed \in BOOLEAN, w \in Streams :
       LET x == [src |-> q, vblock |-> v, latency |-> l, step |-> Saves(r),
                 polls |-> n, invalid |-> Invalid(n, timed),
                 stream |-> w, at |-> Len(rows[r][w]) + 1]
       IN  /\ rows' = [rows EXCEPT ![r][w] = Append(@, Row(x))]
           /\ hooked' = [hooked EXCEPT ![r] = @ \cup {x}]
  /\ UNCHANGED <<vars, saved, meant, torn>>

\* Each receive load has a hook of its own, and its number is the step.
ReceiveLoad == 0..(ReceiveLoads - 1)

\* latency_local_arrival_snippet, at receive load k.
LocalSaves(r) ==
  /\ Launched /\ shape.compact
  /\ Saves(r) < shape.hooks
  /\ \E l \in Measured \cap Nat, k \in ReceiveLoad, w \in Streams :
       LET x == [src |-> Unknown, vblock |-> CtaOf[w], latency |-> l, step |-> k,
                 polls |-> 0, invalid |-> FALSE,
                 stream |-> w, at |-> Len(rows[r][w]) + 1]
       IN  /\ rows' = [rows EXCEPT ![r][w] = Append(@, Row(x))]
           /\ hooked' = [hooked EXCEPT ![r] = @ \cup {x}]
  /\ UNCHANGED <<vars, saved, meant, torn>>

\* External: the launch is over, or the run with it.
SaveAll ==
  /\ Save
  /\ saved' = [r \in Receiver |-> Append(saved[r], rows[r])]
  /\ meant' = [r \in Receiver |-> Append(meant[r], hooked[r])]
  /\ torn' \in [Receiver -> {{}, {Len(files'[Root])}}]
  /\ (\E r \in Receiver : torn'[r] # {}) => Len(files'[Root]) = shape.launches
  /\ rows' = NoRows
  /\ hooked' = [r \in Receiver |-> {}]

CalibrationStep == Calibrate /\ UNCHANGED recordVars

RecordsNext ==
  \/ CalibrationStep
  \/ \E r \in Receiver : HookSaves(r) \/ LocalSaves(r)
  \/ SaveAll

RecordsSpec == RecordsInit /\ [][RecordsNext]_allVars

------------------------------------------------------------------------------
(***************************************************************************)
(* analysis/latency.py.  Slots of the fixed-size streams that were never   *)
(* written are zero; a row that is all zeros counts as unwritten.          *)
(***************************************************************************)
File(r) == 1..Len(saved[r])
Readable(r) == File(r) \ torn[r]

FirstSlots(s) == IF s = <<>> THEN {} ELSE {1}
AllSlots(s) == DOMAIN s
SlotsRead(s) == IF shape.compact THEN FirstSlots(s) ELSE AllSlots(s)

IsUnwrittenRecord(row) == row.latency = 0 /\ row.step = 0 /\ row.word = 0

RowsRead(r, i) ==
  {x \in UNION {{saved[r][i][w][k] : k \in SlotsRead(saved[r][i][w])} : w \in Streams} :
     ~IsUnwrittenRecord(x)}

IsInvalidRecord(row) == row.word >= InvalidFlag
Unflagged(word) == word % InvalidFlag

SplitChannel(word) ==
  IF Unflagged(word) >= SourceShift
  THEN <<Unflagged(word) \div SourceShift - 1, Unflagged(word) % SourceShift>>
  ELSE <<Unknown, Unflagged(word)>>

(***************************************************************************)
(* read_trace: what goes into the statistics of each channel, out of the   *)
(* files that can be read; the others are counted and skipped.             *)
(***************************************************************************)
Collected(r) ==
  UNION {{[file |-> i, src |-> SplitChannel(x.word)[1], vblock |-> SplitChannel(x.word)[2],
           latency |-> x.latency, step |-> x.step, invalid |-> IsInvalidRecord(x)]
            : x \in RowsRead(r, i)} : i \in Readable(r)}

\* analyze_latency_roots: a rank is in the tables if it has any sample.
Reported == {r \in Receiver : Collected(r) # {}}

(***************************************************************************)
(* analysis/mailbox_debug.py.  It reads whole files only, through the      *)
(* reader of the full layout.                                              *)
(***************************************************************************)
AnyHighBit(meta) == meta >= InvalidFlag  \* mutant: the polls are not masked
DebugInvalid(meta) == meta % WordSize >= InvalidFlag

DebugPolls(meta) == meta \div WordSize
DebugPacked(meta) == (meta % WordSize) % InvalidFlag
DebugSource(meta) ==
  LET field == DebugPacked(meta) \div SourceShift IN IF field > 0 THEN field - 1 ELSE Unknown

IsUnwrittenDebug(row) == row.latency = 0 /\ row.step = 0 /\ row.meta = 0

DebugRecords(r) ==
  UNION {{[file |-> i, src |-> DebugSource(x.meta), vblock |-> DebugPacked(x.meta) % SourceShift,
           latency |-> x.latency, step |-> x.step, polls |-> DebugPolls(x.meta),
           invalid |-> DebugInvalid(x.meta)]
            : x \in {y \in UNION {Range(saved[r][i][w]) : w \in Streams} : ~IsUnwrittenDebug(y)}}
           : i \in File(r)}

------------------------------------------------------------------------------
\* What the record x of launch i was meant to say.
Said(x, i) == [file |-> i, src |-> x.src, vblock |-> x.vblock, latency |-> x.latency,
               step |-> x.step, polls |-> x.polls, invalid |-> x.invalid]

WithoutPolls(x) == [file |-> x.file, src |-> x.src, vblock |-> x.vblock, latency |-> x.latency,
                    step |-> x.step, invalid |-> x.invalid]

\* What the hooks of rank r measured in the launches of the files in F.
MeantIn(r, F) == UNION {{Said(x, i) : x \in meant[r][i]} : i \in F}

\* The records of the local probe whose row is not all zeros, and those of them
\* that came first in their stream.
Visible(r, i) == {x \in meant[r][i] : ~IsUnwrittenRecord(Row(x))}
FirstArrivals(r, i) == {x \in Visible(r, i) : x.at = 1}

(***************************************************************************)
(* The statistics of the latency analyzer are made of exactly the samples  *)
(* the hooks measured in the launches whose files can be read, each under  *)
(* its source and channel and valid only if the hook said so: no capacity  *)
(* of a stream is taken for a sample, and no sample for capacity.  A rank  *)
(* that is left out of the tables has measured nothing that can be read.   *)
(* Of the local probe's arrivals they have the first of each warp, unless  *)
(* it came at once at load 0 of CTA 0, whose row looks unwritten; they     *)
(* have no source, and are under their CTA.                                *)
(***************************************************************************)
CollectedIsMeasured ==
  \A r \in Receiver :
    IF shape.compact
    THEN Collected(r) = UNION {{WithoutPolls(Said(x, i)) : x \in FirstArrivals(r, i)} : i \in Readable(r)}
    ELSE /\ Collected(r) = {WithoutPolls(x) : x \in MeantIn(r, Readable(r))}
         /\ r \notin Reported => \A i \in Readable(r) : meant[r][i] = {}

(***************************************************************************)
(* Every arrival the local probe saved is read, unless it looks unwritten. *)
(* So prober.py describes the probe, and latency.py its own reader.        *)
(***************************************************************************)
ArrivalsAreRead ==
  \A r \in Receiver : \A i \in Readable(r) :
    {WithoutPolls(Said(x, i)) : x \in Visible(r, i)} \subseteq Collected(r)

(***************************************************************************)
(* Where both analyzers can read all files, the debug rows are of the same *)
(* samples with the same source, channel and validity, and a sample whose  *)
(* message was there at once is valid in neither.                          *)
(***************************************************************************)
AnalyzersAgree ==
  \A r \in Receiver : torn[r] = {} /\ ~shape.compact =>
    /\ DebugRecords(r) = MeantIn(r, File(r))
    /\ {WithoutPolls(x) : x \in DebugRecords(r)} = Collected(r)
    /\ \A x \in DebugRecords(r) : x.polls <= 1 => x.invalid
==============================================================================
