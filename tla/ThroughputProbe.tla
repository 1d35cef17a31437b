--------------------------- MODULE ThroughputProbe ---------------------------
(***************************************************************************)
(* The throughput probe in one CTA, and how analysis/throughput.py reads   *)
(* what it leaves.  The leader thread of every workgroup logs the time of  *)
(* each arrival since the kernel began into the slice of its group, and    *)
(* writes the slice's two header cells when it returns.  Groups from the   *)
(* last slice on share it.  The four slices of u32 cells lie one after the *)
(* other in the map of the CTA's first warp.                               *)
(*                                                                         *)
(* External: Neutrino gives every launch a zeroed map and saves it to a    *)
(* result file of its own.  The leaders start at times of their own, and   *)
(* may return by a ret the flush hook is not at.                           *)
(***************************************************************************)
EXTENDS Integers, Sequences, SequencesExt, FiniteSetsExt, Functions

CONSTANTS
  Shapes,        \* runs of the model: workgroups of the CTA, and launches, with their
                 \* bounds: ticks of a launch, arrivals of the run
  Slices,        \* THROUGHPUT_WORKGROUPS
  Capacity,      \* THROUGHPUT_CAPTURE_CAPACITY
  WordRange,     \* 2^32
  BinNs          \* THROUGHPUT_BIN_NS

\* What a module that instantiates this one assumes of the constants.
ThroughputConstants ==
  /\ Shapes \subseteq [groups : Nat \ {0}, launches : Nat \ {0}, ticks : Nat, arrivals : Nat]
  /\ {Slices, Capacity, WordRange, BinNs} \subseteq Nat \ {0}

Slice == 0..(Slices - 1)
HeaderCells == 2
SliceCells == HeaderCells + Capacity
Cell == 0..(Slices * SliceCells - 1)

VARIABLES
  shape,    \* the run: it has shape.launches launches of shape.groups groups
  now,      \* ticks since the launch
  at,       \* at[g]: where the leader of g is
  start,    \* %NR0
  count,    \* %NR1
  map,      \* the u32 cells
  log,      \* log[g]: deltas of all arrivals g saw, 64 bit (history)
  ran,      \* ran[g]: how long g ran when it was flushed, else None (history)
  results   \* the result files, each with the truth it was made from

vars == <<shape, now, at, start, count, map, log, ran, results>>

Group == 0..(shape.groups - 1)
MoreLaunches == Len(results) < shape.launches

None == -1
Zeroed == [c \in Cell |-> 0]

Init ==
  /\ shape \in Shapes
  /\ now = 0
  /\ at = [g \in Group |-> "queued"]
  /\ start = [g \in Group |-> 0]
  /\ count = [g \in Group |-> 0]
  /\ map = Zeroed
  /\ log = [g \in Group |-> <<>>]
  /\ ran = [g \in Group |-> None]
  /\ results = <<>>

\* Stores are 32 bits wide.
Word(n) == n % WordRange

SliceOf(g) == Min({g, Slices - 1})
Base(s) == s * SliceCells

Position(i) == HeaderCells + i

FitsOneMore(i) == i <= Capacity              \* mutant: off by one
Fits(i) == i < Capacity

Tick ==
  /\ now < shape.ticks /\ MoreLaunches
  /\ now' = now + 1
  /\ UNCHANGED <<at, start, count, map, log, ran, results>>

Start(g) ==
  /\ at[g] = "queued" /\ MoreLaunches
  /\ at' = [at EXCEPT ![g] = "running"]
  /\ start' = [start EXCEPT ![g] = now]
  /\ count' = [count EXCEPT ![g] = 0]
  /\ UNCHANGED <<now, map, log, ran, results>>

(***************************************************************************)
(* fabricperf_throughput_recv: every arrival is counted, the first ones    *)
(* are stored.                                                             *)
(***************************************************************************)
Counted(i) == i + 1

Logged(logs) == FoldFunction(LAMBDA l, n : Len(l) + n, 0, logs)
Arrivals == FoldLeft(LAMBDA n, r : n + Logged(r.log), Logged(log), results)

Recv(g) ==
  /\ at[g] = "running" /\ Arrivals < shape.arrivals
  /\ LET delta == now - start[g]
         cell == Base(SliceOf(g)) + Position(count[g])
     IN  /\ map' = IF Fits(count[g]) THEN [map EXCEPT ![cell] = Word(delta)] ELSE map
         /\ log' = [log EXCEPT ![g] = Append(@, delta)]
  /\ count' = [count EXCEPT ![g] = Counted(@)]
  /\ UNCHANGED <<now, at, start, ran, results>>

(***************************************************************************)
(* fabricperf_throughput_flush: duration and total, unless nothing came.   *)
(***************************************************************************)
Flush(g) ==
  /\ at[g] = "running"
  /\ at' = [at EXCEPT ![g] = "returned"]
  /\ ran' = [ran EXCEPT ![g] = now - start[g]]
  /\ LET base == Base(SliceOf(g)) IN
     map' = IF count[g] = 0 THEN map
            ELSE [map EXCEPT ![base] = Word(now - start[g]),
                             ![base + 1] = Word(count[g])]
  /\ UNCHANGED <<now, start, count, log, results>>

\* External: another ret.
Leave(g) ==
  /\ at[g] = "running"
  /\ at' = [at EXCEPT ![g] = "returned"]
  /\ UNCHANGED <<now, start, count, map, log, ran, results>>

\* External: the kernel is over; Neutrino saves its map and zeroes the next.
Save ==
  /\ \A g \in Group : at[g] = "returned"
  /\ results' = Append(results, [map |-> map, log |-> log, ran |-> ran])
  /\ map' = Zeroed
  /\ now' = 0
  /\ at' = [g \in Group |-> "queued"]
  /\ start' = [g \in Group |-> 0]
  /\ count' = [g \in Group |-> 0]
  /\ log' = [g \in Group |-> <<>>]
  /\ ran' = [g \in Group |-> None]

Next ==
  /\ \/ Tick
     \/ \E g \in Group : Start(g) \/ Recv(g) \/ Flush(g) \/ Leave(g)
     \/ Save
  /\ UNCHANGED shape

Spec == Init /\ [][Next]_vars

------------------------------------------------------------------------------
(***************************************************************************)
(* throughput_workgroup_cell_records: a slice of a result file r.          *)
(***************************************************************************)
Duration(r, s) == r.map[Base(s)]
Total(r, s) == r.map[Base(s) + 1]
Deltas(r, s) ==
  [i \in 1..Min({Total(r, s), Capacity}) |-> r.map[Base(s) + HeaderCells + i - 1]]

(***************************************************************************)
(* ThroughputAggregate: the summary of slice s over all result files.      *)
(***************************************************************************)
SumOf(counts) == FoldFunction(+, 0, counts)

Captured(s) == SumOf([i \in DOMAIN results |-> Len(Deltas(results[i], s))])

Excess(total) == total - Capacity            \* mutant: may be negative
Lost(total) == total - Min({total, Capacity})
Dropped(s) == SumOf([i \in DOMAIN results |-> Lost(Total(results[i], s))])

InBin(deltas, b) == Len(SelectSeq(deltas, LAMBDA d : d \div BinNs = b))
Bin == 0..((WordRange - 1) \div BinNs)
Peak(s) == Max({SumOf([i \in DOMAIN results |-> InBin(Deltas(results[i], s), b)]) : b \in Bin})

------------------------------------------------------------------------------
Owners(s) == {g \in Group : SliceOf(g) = s}
Alone(g) == Owners(SliceOf(g)) = {g}
Flushed(r, g) == r.ran[g] # None

(***************************************************************************)
(* The slice of a group that shares it with no other says exactly what the *)
(* group saw: how long it ran, the number of arrivals and the times of the *)
(* first of them, all as words.  A group that saw none or returned         *)
(* elsewhere leaves no stream at all.  Of a slice that groups share, every *)
(* arrival that is read is one that one of them logged at that place.      *)
(***************************************************************************)
IsExact(r, g) ==
  LET s == SliceOf(g)  n == Len(r.log[g]) IN
  IF ~Flushed(r, g) \/ n = 0 THEN Deltas(r, s) = <<>>
  ELSE /\ Duration(r, s) = Word(r.ran[g])
       /\ Total(r, s) = Word(n)
       /\ n < WordRange => \A i \in 1..Min({n, Capacity}) : Deltas(r, s)[i] = Word(r.log[g][i])

IsOfOwners(r, s) ==
  \A i \in 1..Len(Deltas(r, s)) :
    \E g \in Owners(s) : i <= Len(r.log[g]) /\ Deltas(r, s)[i] = Word(r.log[g][i])

StreamsExact ==
  \A r \in Range(results) : /\ \A g \in Group : Alone(g) => IsExact(r, g)
                            /\ \A s \in Slice : IsOfOwners(r, s)

(***************************************************************************)
(* Over all launches, what the summary calls captured and dropped are the  *)
(* arrivals the group saw in the launches it was flushed in.               *)
(***************************************************************************)
SummaryAddsUp ==
  \A g \in Group : Alone(g) =>
    Captured(SliceOf(g)) + Dropped(SliceOf(g))
      = SumOf([i \in DOMAIN results |->
                 IF Flushed(results[i], g) THEN Word(Len(results[i].log[g])) ELSE 0])

(***************************************************************************)
(* peak_bin_pps is a rate: in some launch that many arrivals were captured *)
(* in one bin.                                                             *)
(***************************************************************************)
PeakWasReached ==
  \A s \in Slice :
    Peak(s) > 0 => \E r \in Range(results), b \in Bin : InBin(Deltas(r, s), b) >= Peak(s)
==============================================================================
