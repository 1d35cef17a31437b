---------------------------- MODULE PtpAlignment ----------------------------
(***************************************************************************)
(* From the PTP probes' diagnostic rows to the offset lists of             *)
(* analysis/ptp_alignment.py.  In every launch the leader (rank 0) and     *)
(* each follower take a series of samples; a completed one leaves a row on *)
(* either rank, in a slot of the result buffer computed from the pair and  *)
(* the sample.  A side that gives up on a sample leaves none.  At its end  *)
(* CTA 0 of each rank copies the buffer, slot after slot, to the           *)
(* ptp_metrics map; the analyzer decodes the slots of all result files and *)
(* lists the offsets of every ordered pair.                                *)
(*                                                                         *)
(* A follower's CTA 0 takes its samples itself and copies them after the   *)
(* last.  That of rank 0 takes none: it waits in the bounded grid barrier  *)
(* (GridBarrier), and when it gives up it copies beside the CTAs that are  *)
(* still at their samples.  Of a row they store then it copies the slot    *)
(* with the row or without it; a slot is copied once, in one access.       *)
(*                                                                         *)
(* A follower that gives up sends no report, so that the leader gives up   *)
(* too; the leader may give up alone, as its polls are bounded.            *)
(* What messages left over from such a sample do is in PtpHandshake.       *)
(*                                                                         *)
(* External: Neutrino resolves the module's symbols for a launch, which    *)
(* clears the buffer, and saves the map to a result file when the kernel   *)
(* is over.                                                                *)
(***************************************************************************)
EXTENDS Integers, Sequences, SequencesExt, FiniteSets

CONSTANTS
  Shapes,        \* runs of the model: ranks, launches and probe
  Samples,       \* samples of a pair in a launch
  CompactDsts,   \* destinations of a source in the slot layout
  Results        \* offsets and latencies a follower can compute

ASSUME AlignmentAssumption ==
  /\ \A s \in Shapes : {s.ranks, s.launches} \subseteq Nat \ {0} /\ s.compact \in BOOLEAN
  /\ {Samples, CompactDsts} \subseteq Nat \ {0}
  /\ Results \subseteq [offset : Int, latency : Nat]

Root == 0
Slot == 0..((CompactDsts + 1) * CompactDsts * Samples - 1)
Sample == 0..(Samples - 1)

VARIABLES
  shape,    \* the run: it has shape.launches launches of shape.ranks ranks
  taken,    \* taken[f]: samples of this launch the follower is through with
  map,      \* map[r]: the rows that are, or will be, in ptp_metrics
  copied,   \* slots CTA 0 of rank 0 has copied since it gave up, or Waiting
  log,      \* log[r]: the samples completed on r (history)
  early,    \* log[Root] when that CTA gave up (history)
  files,    \* files[r]: the result files, one for each launch
  logs,     \* logs[r]: the log of each of them (history)
  earlies   \* what rank 0 had completed when it began to copy each (history)

vars == <<shape, taken, map, copied, log, early, files, logs, earlies>>

Rank == 0..(shape.ranks - 1)

\* The slots have room for this many ranks; with more of them, or with one, the
\* probe calibrates nothing and the offsets stay zero.  A probe reduced to the
\* map of the latencies (shape.compact) has no calibration.
MaxRanks == CompactDsts + 1
Follower == IF shape.ranks <= MaxRanks /\ ~shape.compact THEN Rank \ {Root} ELSE {}

Unwritten == [offset |-> 0, latency |-> 0]
Zeroed == [s \in Slot |-> Unwritten]
Waiting == -1

Init ==
  /\ shape \in Shapes
  /\ taken = [f \in Follower |-> 0]
  /\ map = [r \in Rank |-> Zeroed]
  /\ copied = Waiting
  /\ log = [r \in Rank |-> {}]
  /\ early = {}
  /\ files = [r \in Rank |-> <<>>]
  /\ logs = [r \in Rank |-> <<>>]
  /\ earlies = <<>>

(***************************************************************************)
(* Where the probes put the row of a sample.                               *)
(***************************************************************************)
Compact(src, dst) == IF dst < src THEN dst ELSE dst - 1
SlotOf(src, dst, k) == (src * CompactDsts + Compact(src, dst)) * Samples + k

Put(m, src, dst, k, o, l) == [m EXCEPT ![SlotOf(src, dst, k)] = [offset |-> o, latency |-> l]]
Sampled(src, dst, k, o, l) == [src |-> src, dst |-> dst, sample |-> k, offset |-> o, latency |-> l]

SameSign(o) == o                       \* mutant: not inverted
Negated(o) == -o

MoreSamples(f) == taken[f] < Samples
Launched == Len(files[Root]) < shape.launches
Calibrated == \A f \in Follower : ~MoreSamples(f)

Copying == copied # Waiting

\* CTA 0 of rank 0 gives up in the grid barrier.
LeaveBarrier ==
  /\ Launched /\ ~Calibrated /\ ~Copying
  /\ copied' = 0
  /\ early' = log[Root]
  /\ UNCHANGED <<taken, map, log, files, logs, earlies, shape>>

\* The row of rank 0 is stored before CTA 0 copies its slot, or after it.
Outcome == {"missed", "stored", "late"}

CopiedWithout(slot) == IF copied <= slot THEN slot + 1 ELSE copied

TakeSample(f) ==
  /\ MoreSamples(f) /\ Launched
  /\ taken' = [taken EXCEPT ![f] = @ + 1]
  /\ \/ UNCHANGED <<map, copied, log>>
     \/ \E x \in Results, root \in Outcome :
          LET o == x.offset
              l == x.latency
              k == taken[f]
              slot == SlotOf(f, Root, k)
              inMap == IF root = "stored" THEN {f, Root} ELSE {f}
              inLog == IF root = "missed" THEN {f} ELSE {f, Root}
              mapOf(r) == IF r = f THEN Put(map[r], Root, f, k, o, l)
                                   ELSE Put(map[r], f, Root, k, Negated(o), l)
              logOf(r) == IF r = f THEN Sampled(Root, f, k, o, l)
                                   ELSE Sampled(f, Root, k, -o, l)
          IN  /\ root = "stored" => copied <= slot
              /\ root = "late" => Copying
              /\ copied' = IF root = "late" THEN CopiedWithout(slot) ELSE copied
              /\ map' = [r \in Rank |-> IF r \in inMap THEN mapOf(r) ELSE map[r]]
              /\ log' = [r \in Rank |-> IF r \in inLog THEN log[r] \cup {logOf(r)} ELSE log[r]]
  /\ UNCHANGED <<early, files, logs, earlies, shape>>

\* External: the kernels of the launch are over.
Save ==
  /\ Calibrated /\ Launched
  /\ files' = [r \in Rank |-> Append(files[r], map[r])]
  /\ logs' = [r \in Rank |-> Append(logs[r], log[r])]
  /\ earlies' = Append(earlies, IF Copying THEN early ELSE log[Root])
  /\ taken' = [f \in Follower |-> 0]
  /\ map' = [r \in Rank |-> Zeroed]
  /\ copied' = Waiting
  /\ log' = [r \in Rank |-> {}]
  /\ early' = {}
  /\ UNCHANGED shape

Calibrate == LeaveBarrier \/ \E f \in Follower : TakeSample(f)

Next == Calibrate \/ Save

Spec == Init /\ [][Next]_vars

------------------------------------------------------------------------------
(***************************************************************************)
(* decode_ptp_slot and read_ptp_records.                                   *)
(***************************************************************************)
SrcOf(s) == (s \div Samples) \div CompactDsts
DstOf(s) == LET c == (s \div Samples) % CompactDsts IN IF c < SrcOf(s) THEN c ELSE c + 1
SampleOf(s) == s % Samples

IsUnwritten(row) == row.offset = 0 /\ row.latency = 0
Device == Rank \cap 0..(MaxRanks - 1)
Kept(r, i) == {s \in Slot : /\ ~IsUnwritten(files[r][i][s])
                            /\ SrcOf(s) \in Device /\ DstOf(s) \in Device}
Decoded(r, i) ==
  {Sampled(SrcOf(s), DstOf(s), SampleOf(s), files[r][i][s].offset, files[r][i][s].latency)
     : s \in Kept(r, i)}

(***************************************************************************)
(* read_pair_offsets: the rows of a pair in the order of their files and   *)
(* samples; the list of their offsets is what the analyzer goes on with.   *)
(***************************************************************************)
Before(a, b) == a.file < b.file \/ (a.file = b.file /\ a.sample < b.sample)

RowsOf(r, i, src, dst) ==
  {[file |-> i, sample |-> x.sample, offset |-> x.offset]
     : x \in {y \in Decoded(r, i) : y.src = src /\ y.dst = dst}}

RowsOfPair(src, dst) ==
  UNION {RowsOf(r, i, src, dst) : r \in Rank, i \in 1..Len(files[Root])}

Rows(src, dst) ==
  LET rows == RowsOfPair(src, dst)
  IN  [n \in 1..Cardinality(rows) |->
         CHOOSE a \in rows : Cardinality({b \in rows : Before(b, a)}) = n - 1]

Pair == {p \in Device \X Device : p[1] # p[2]}
Lists == [p \in Pair |-> Rows(p[1], p[2])]

(***************************************************************************)
(* reciprocal_residuals, as closure_residuals and                          *)
(* derive_root_relative_offsets: lists are combined element by element.    *)
(***************************************************************************)
Common(a, b) == 1..(IF Len(a) < Len(b) THEN Len(a) ELSE Len(b))
Reciprocal(a, b) == [i \in Common(a, b) |-> a[i].offset + b[i].offset]

\* derive_root_relative_offsets: the offsets of a rank to the root, measured by
\* either of the two, and from them those of any pair.
OffsetsOf(rows) == [i \in DOMAIN rows |-> rows[i].offset]
RootSeries(list, r) ==
  LET direct == OffsetsOf(list[<<Root, r>>])
      inverse == OffsetsOf(list[<<r, Root>>])
  IN  IF direct # <<>> THEN direct ELSE [i \in DOMAIN inverse |-> Negated(inverse[i])]

Derived(list, src, dst) ==
  LET a == RootSeries(list, src)  b == RootSeries(list, dst)
  IN  [i \in Common(a, b) |-> b[i] - a[i]]

------------------------------------------------------------------------------
Blank(x) == x.offset = 0 /\ x.latency = 0

\* The samples of a launch whose rows are sure to be in the file of rank r.
Certain(r, i) == IF r = Root THEN earlies[i] ELSE logs[r][i]

(***************************************************************************)
(* What the analyzer decodes from the files of a rank are samples that     *)
(* rank completed, each for its pair and with its number.  A follower's    *)
(* are there without exception; of those of rank 0 there are at least all  *)
(* that were complete when CTA 0 began to copy.  A sample whose offset and *)
(* latency are both zero looks unwritten and is lost.                      *)
(***************************************************************************)
DecodedIsLogged ==
  \A r \in Rank : \A i \in 1..Len(files[r]) :
    /\ Decoded(r, i) \subseteq logs[r][i]
    /\ {x \in Certain(r, i) : ~Blank(x)} \subseteq Decoded(r, i)

Complete(rows) == Len(rows) = Samples * Len(files[Root])

(***************************************************************************)
(* Where no row of either pair was lost, the lists are aligned: equal      *)
(* places are of the same launch and sample.  So the two directions of the *)
(* leader and a follower cancel out, and the offset derived for two        *)
(* followers is the difference of what both computed in one sample.        *)
(***************************************************************************)
SameSample(x, y, row) == x.sample = row.sample /\ y.sample = row.sample

CompleteListsAlign ==
  LET list == Lists
      whole == {p \in Pair : Complete(list[p])}
      known == {f \in Follower : <<Root, f>> \in whole}
  IN  /\ \A p, q \in whole :
           LET a == list[p]  b == list[q]
           IN  \A i \in Common(a, b) : a[i].file = b[i].file /\ a[i].sample = b[i].sample
      /\ \A f \in known : <<f, Root>> \in whole =>
           LET sums == Reciprocal(list[<<Root, f>>], list[<<f, Root>>])
           IN  \A i \in DOMAIN sums : sums[i] = 0
      /\ \A f, g \in known : f # g =>
           LET derived == Derived(list, f, g)  rows == list[<<Root, f>>]
           IN  \A i \in DOMAIN derived :
                 \E x \in logs[f][rows[i].file], y \in logs[g][rows[i].file] :
                   /\ SameSample(x, y, rows[i])
                   /\ derived[i] = y.offset - x.offset

(***************************************************************************)
(* The offsets the analyzer works with are those the probes computed, each *)
(* at the place of its pair, launch and sample.                            *)
(***************************************************************************)
OffsetsAlign == DecodedIsLogged /\ CompleteListsAlign
==============================================================================
