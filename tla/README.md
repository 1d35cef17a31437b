# FabricPerf in TLA+

FabricPerf measures the scale-up fabric of a multi-GPU node from inside the
communication kernels. Neutrino instruments a kernel with a *probe* (PTX hooks,
`*.probe`), and a *plugin* (a shared library, `latency.c`, `memory.cc`,
`throughput.c`) gives the probe its memory and symbols. Python analyzers
(`analysis/`) read the traces.

This directory is a verification project for it: TLA+ modules, TLC configurations,
and proofs for the TLA+ proof system. `PROJECT.json` maps every definition to the
lines it models and lists the runs, the mutants each property must catch, the
hazards of the code and the theorems.

    tlc -workers 2 -config MCGridBarrier.cfg MCGridBarrier     # a run
    tlapm GridBarrier_proofs.tla                               # a proof

## 1. Inventory

### Components

| component | state | operations | modelled by |
|---|---|---|---|
| grid barrier (`latency.probe` 323-366) | arrival counter and sense in global memory, two registers per CTA | arrive, release, bounded spin, give up; reset by symbol resolution | `GridBarrier`, `LaunchBarrier` |
| PTP calibration (`latency.probe` 60-327) | message slots in the fabric buffers of leader and follower, offset table, diagnostic rows | store, bounded poll, compute, publish, clear, per sample | `PtpHandshake` (messages), `PtpClock` (numbers), `PtpAlignment` (rows) |
| mailbox hooks (`latency.probe` 402-569) | one 16-byte slot per channel: time and tag | sender stores, receiver polls, marks, clears, saves | `LatencyMailbox` |
| handle exchange (`latency.c` 264-531, 662-737) | the choice of MPI or files, one attempt counter, published handle files or collective calls | choose, publish, read, sleep, time out, gather, import | `HandleExchange` |
| fabric resources (`latency.c` 319-418, 548-903; `memory.cc` 414-707) | VMM handles, mappings, allocations and the references to them | some forty driver calls in a fixed order, each of which can fail; fini | `FabricResources`, `MemoryFabric` |
| launch session (`memory.cc` 963-1608) | `state.mutex` held across a kernel, CUPTI and event objects per context, counter data, one CSV row | begin, end, set up, tear down, fini | `MemorySession`, `MemoryPlugin` |
| throughput probe and summary (`throughput.probe`, `analysis/throughput.py`) | two registers per group leader, a map of u32 cells per CTA; bins, captured, dropped | start, record, flush; decode, aggregate | `ThroughputProbe` |
| diagnostic rows and alignment analyzer (`latency.probe` 172-200, 277-300, 348-396, `analysis/ptp_alignment.py`) | result buffer of a launch and its copy in a map; offset lists per pair of ranks | store, give up waiting, copy, save; decode, group, sort, combine | `PtpAlignment` |
| latency records and their analyzers (`latency.probe` 467-505, the local probe of `nccl/prober.py` 145-222 and 747-779, `analysis/latency.py`, `analysis/mailbox_debug.py`) | rows in two maps or one, result files; samples per source and channel | pack, save; read, skip, unpack, collect | `LatencyRecords` |
| memory CSV and its analyzer (`memory.cc` 740-800, `analysis/memory.py`) | CSV files of the trace root and of the processes, result files with byte counts, two long-form files | open, write a header, append; choose rows, total, merge, rewrite in place | `MemoryMerge` |
| dispatch (`analyze.py`) | the mode of the run, an exit status | select an analyzer, refuse | `Analyze` |
| NCCL prober (`nccl/prober.py`, `nccl/table.py`) | the files of a work directory: shell, probed and pruned module, two binaries, `probe.json` | run the core prober, select the target and its id, instrument bodies, rewrite the dispatch, report, assemble | `NcclProber` |
| CLI, build, `throughput.c`, benchmarks | none that changes | | not modelled, see section 7 |

### How they interact

* All CTAs of a grid, on one device, share the barrier words. CTA *c* of rank 0 is the
  leader for rank *c*, whose CTA 0 is the follower; the two write into each other's
  fabric buffer over NVLink and meet the other CTAs only in the barrier.
* CTA 0 of each rank, when it leaves the barrier, copies the diagnostic rows of its rank to the
  map Neutrino saves. On rank 0 the rows are stored by other CTAs, which it may have given up on.
* The hooks of a kernel run after the barrier. The send hook of one rank writes into
  the mailbox of another while the receive hook polls there; both use the offsets the
  calibration of the same launch published.
* Plugins of different ranks interact while they exchange fabric handles, over MPI or
  through files, from inside the first symbol resolution that needs the buffers.
* Neutrino calls the plugin: it resolves symbols before a launch, and brackets a launch with
  `begin_launch` and `end_launch`; it zeroes the probe maps of a launch and saves them
  to a result file.
* Before that, for an NCCL kernel, Neutrino calls the prober, a process of its own, which leaves
  two binaries and a json file that says what was done to them; Neutrino reads these.
* Processes that profile memory may append to one CSV file; the analyzer later rewrites that
  file in place with what it finds in the trace directory of each process.

### What is hard

*Interleaving without locks* (barrier, calibration, mailbox); *bounded polls*, so that
each party may give up at any time and what it leaves is found later; *state that
outlives a launch* (slots, offsets, mailbox, barrier words, CUPTI objects); *failure at
any of many calls without roll-back*, followed by a retry in a later launch; *a mutex
held between two calls of the host*; *32-bit words and packed indexes* written by PTX and
read by Python; *files that outlive their writer* (handles, CSV rows, half-finished binaries)
and are read by the next run. `PROJECT.json` lists each as a hazard at the line where it bites.

### What makes each component correct

* Barrier: a hook runs only after every CTA has arrived, unless its CTA gave up; nobody
  is left behind; the words are clean for the next launch; every launch finishes even
  when the grid does not fit on the device.
* Calibration: offsets come from stamps of one launch and one sample; no message is lost
  or taken for another; the offset is close to the real skew; every probe leaves.
* Mailbox: a record marked valid is of the message it names, or how far it can be off is
  known; the hooks do not stop the communication.
* Exchange: prepared ranks have mapped each other's current buffers; attempts end; ranks that
  chose differently do not take each other for prepared.
* Resources: references never dangle; what is published is whole; leaks are limited.
* Session: the mutex belongs to the thread in a session; a row never mixes launches.
* Recording and analysis: what is decoded is what was logged.
* Memory merge: bytes get to the row of their own rank and launch; no row is lost or doubled;
  analyzing twice changes nothing.
* Prober: a binary that is handed over calls the function NCCL would have called, counts the calls it
  is meant to, and is the one the json file speaks of, wherever earlier runs were killed.

## 2. Modules

**`GridBarrier`** is one CTA grid over several launches. `count` and `sense` are
`ptpGlobalBarrier` and `ptpGlobalBarrierSense`; `mySense` and `polls` are the registers
of thread 0. A CTA is `queued`, `calibrating` (the loop of samples), then reads the
sense (`ReadSense`), adds one to the counter and sees whether it was the last (`Arrive`),
which resets the counter (`ResetCount`) and moves the sense (`FlipSense`); the others
poll (`SeeRelease`, `PollMiss`) and may give up (`GiveUp`). `Start` is the device: at
most `room` CTAs are on it, since the launch is not a cooperative one. **`LaunchBarrier`**
is the abstract barrier it implements: who has arrived, who passed, who abandoned.

**`PtpHandshake`** is the message side of the calibration of one pair. The programs of
the two sides are data (`LeaderProgram`, `FollowerProgram`: a sequence of *store, await,
publish, clear*), executed by one action per operation; `GiveUp` is the poll bound, which
skips the rest of the sample. A slot holds a kind of message, and a timestamp is represented by
the set of clock readings that led to it, each named by the side that took it and that side's own
launch. The ranks count their launches independently, so a side's readings are compared with its
own launches only: an offset is stale when one of the readings it was computed from, or was asked
for with, is of an earlier launch *of the same side*. Nothing else tells messages apart, as in
the code.

**`PtpClock`** is the numbers of one sample per follower: clocks with a skew, a bound `Delay` on a
timed store's way to its reader and to the clock read that stamps it, the halving with shifts and
sign bit, the unsigned shift of the latency on the leader's side, and the correction in the hooks.

**`LatencyMailbox`** is one slot between the send and the receive hook of a channel. The
FIFO of the communication kernel is external: the sender is at most `Depth` steps ahead.
Time and tag are separate stores of the sender; the receiver polls, validates, clears and
saves. Run ids wrap at `RunIds`.

**`HandleExchange`** is the exchange between ranks. `exchange[r]` is `undecided` until the first
attempt of *r* begins, since it depends on whether MPI is initialized by then. `directory` says
whether the exchange directory is fresh or holds the files of an earlier run
(`Earlier`). Buffers are named by the attempt of a rank that created them; `view[r][k][q]` is
the buffer of *q* that *r* has received a handle of. An attempt may fail where the code
returns -1, and the next launch starts over.

**`FabricResources`** is the other half of the same function, within one process: the
driver calls of an attempt in order, each with every partial outcome it can have, and fini. An
attempt is at a call (`call`: which operation, which kind of buffer, which peer), and the numbers
of kinds and ranks are parameters. `handles`, `maps`
and `memory` are what exists in the driver, named by place and attempt; `hRef`, `vRef`, `local`
and `mRef` are the fields of `runtime_state`. **`MemoryFabric`** is the copy of this code in
`memory.cc`, the same steps with numbers of its own; a process loads one of the two plugins.

**`MemorySession`** is `memory.cc` between `begin_launch` and `end_launch`. `owner` is who
has `state.mutex`; every driver or CUPTI call may fail; objects are named by the setup that
made them, and measurements by the launches in which they were taken, so that a row that
mixes two launches shows. Whether `pm_disable_on_teardown` is set, which threads launch
kernels and whether Neutrino ends a launch whose begin failed are chosen initially; the
last is considered for a single thread only (section 6). **`MemoryPlugin`** composes
it with `MemoryFabric`: one process, one plugin, and one fini that ends sessions and buffers alike.

**`ThroughputProbe`** is one CTA, its groups and the map of cells they write, with stores
reduced to 32 bits, and the operators of `analysis/throughput.py` on the saved result
files: decoding of a slice, captured, dropped, peak.

**`PtpAlignment`** is the diagnostic rows: the probe's slot index (`SlotOf`), what each side
writes for a completed sample (`TakeSample`), and the analyzer's inverse (`SrcOf`, `DstOf`,
`SampleOf`), filter, grouping and combination of lists; a list of a pair has its rows in the order
of file and sample, each at the place that its rank in that order gives it. With more ranks than
the slots have room for nothing is calibrated (`Follower` is empty). CTA 0 of rank 0 takes no
samples; it waits in the bounded barrier and may give up there (`LeaveBarrier`), after which it
copies the slots, in order, while other CTAs still complete samples. A row of rank 0 is then
*stored* before its slot is copied, or comes too *late* for it (`Outcome`, `CopiedWithout`):
`copied` is how far the copy must have got. `earlies` remembers what rank 0 had completed when each
copy began; these rows are in the file, the later ones may be.

**`LatencyRecords`** extends it with the other maps of the same result files: a receive hook
packs a record into the rows of `sr_latency` and `sr_latency_debug` (`HookSaves`, `Row`); the
local probe, which the prober puts in its place where there is no fabric memory, saves a row at
every receive load of a warp, with neither source nor mark (`LocalSaves`). `SaveAll` is the
launch's result file, which may be torn if it is the last, and `Collected` and `DebugRecords`
are what the two analyzers make of the files. Of a file with one map (`shape.compact`) the
latency analyzer reads the first slot of each stream. Such a file has no calibration rows; it is one
whose slots are all unwritten here. Hooks may run beside the calibration, as
their CTAs may have given up in the barrier. `hooked` and `meant` remember what the hooks
measured. Whether the message was found early is `Polls` here, and what that means for
the latency is in `LatencyMailbox`.

**`MemoryMerge`** is the CSV of memory mode from the first process that finds the file empty to
the last analysis. A process opens, may write a header, and appends; its result files count bytes
per launch. An analysis takes the rows of the root's file, if it has any (`ReadRoot`), else
(`FindNoRows`) those of the directories one after the other (`ReadDirectory`, `ReadAll`), totals
and merges bytes, rewrites the root's file (`WriteWide`) and then the two long-form files
(`WriteLong`); a write may fail part-way (`WriteFails`), and until it writes the analysis may end
with an error (`Refuse`). The trace root may be used by a second workload (`Reuse`); within one
workload the ranks are distinct, as the launcher makes them. A file that does not exist is an
empty one: nothing in the code tells them apart. `finished` remembers the root's file after the
last analysis that finished on a file no write had cut. A total is
represented by the launches it was counted in.

**`Analyze`** is the dispatcher: the mode of a run selects what the files are and which
analyzer reads them, for each of the three; it composes `LatencyRecords`, `MemoryMerge` and
`ThroughputProbe`.

**`NcclProber`** is one work directory over several runs of the prober, whole or the second stage
alone. `dir` holds the files and `kernel` what is true of the NCCL kernel: its table, which bodies
are in the module, what the comparisons in its entry look like (for equality or for inequality, with
the function id or with something unrelated), where the target can be read from.
A module is represented by what the prober changes in it: how often each body is instrumented,
which paths are diverted, what its calls lead to, which declarations come first. Each step writes
one file, and the process can die between any two (`Crash`). The core prober, its table and the
assembler are external.

`MC*` modules give the constants for TLC; `*_proofs` modules hold the proofs.

## 3. Runs

| run | properties | what it shows |
|---|---|---|
| `grid_barrier` | `IInv`, `PassedAfterAll`, `NoLostWakeup`, `CleanAfterLaunch`, `LaunchFinishes`, `ImplementsBarrier` | The barrier for three CTAs with room for one, two or three, two launches. |
| `ptp_handshake` | `CleanSampleIsCurrent`, `NoLostMessage`, `CalibrationEnds` | Two samples, two launches of each rank at its own pace, giving up anywhere: a sample nobody gave up on is calibrated from its own launch and leaves clear slots, and none of its messages is overwritten. |
| `ptp_stale_offset` (violation) | `OffsetIsOfThisLaunch` | The follower gives up on the answer to its DelayReq and launches again. The late answer, to the DelayReq of its earlier launch, ends a sample of the new one: the offset mixes stamps of two of the follower's own launches. |
| `latency_mailbox` | `IInv`, `TimestampWindow`, `ValidOnlyIfAwaited`, `RunCompletes` | What a valid record can say, and that the hooks never stop the communication. |
| `ptp_clock` | `IInv`, `OffsetWithinDelay`, `LatencyWithinDelay`, `ReportsAgree`, `HooksWithinTwiceDelay` | Error bounds of offset, path latency and corrected latency. |
| `handle_exchange` | `SameAllocationOverMpi`, `OneSideSees`, `AttemptEnds`, `AllPrepare` | Two ranks that choose MPI or files each for itself, a fresh or a used directory, two kinds of buffers, three attempts. |
| `exchange_retry` (violation) | `SameAllocation` | Over files, a retry can leave two prepared ranks with different allocations. |
| `memory_session` | `LockMatchesSession`, `RowIsOfItsLaunch`, `ObjectsAreOwned`, `ReferencesLive`, `OnlyFailedLeak`, `LockReleased` | Either plugin preparing its buffers in three attempts, a failure at any call; the sessions of one or two threads, two contexts, three launches, any call failing; fini at any time. |
| `throughput_peak` (violation) | `PeakWasReached` | The peak bin adds up launches. |
| `local_latency` (violation) | `ArrivalsAreRead` | Two receive loads of one warp under the local probe: both rows are in the result file, and the analyzer reads the first alone. |
| `analyzers` | `OffsetsAlign`, `CollectedIsMeasured`, `AnalyzersAgree`, `BytesAreOfTheRow`, `NothingIsLost`, `AnalysisIsRepeatable`, `StreamsExact`, `SummaryAddsUp` | A latency run: layout round trip of slots and words, a copy of rows beside samples that still complete, alignment of lists that lost nothing, two analyzers of the same records, the local probe's streams of several arrivals, torn files. Or a memory run: either layout of the CSV files, two analyses that fail at any write, a trace root used again. Or a throughput run: slices that overflow, that are shared, words that wrap, several result files. |
| `nccl_prober` | `NoFunctionIsLost`, `WhatIsCalledIsCounted`, `StatusIsTrue`, `SecondStageIsIdempotent` | Two runs in one work directory, killed anywhere, for every way a target and its id are found or not. |

Every property of a passing run comes with a mutant in `PROJECT.json`, a plausible slip in
the modelled code (a forgotten reset, an off-by-one, a result not looked at) that makes
it fail under the same configuration.

The four violations are disagreements between the code and its comments (`PROJECT.json`,
"findings"). Two more are noted under the hazards: `fini` can release the handle of a
buffer whose mapping it leaves in place, because an attempt that failed between
mapping and publishing has recorded only the handle (`OnlyFailedLeak` states what does
hold); and the alignment analyzer drops file and sample numbers after sorting, so that one
lost sample shifts a list against the others (`OffsetsAlign` claims alignment for lists that
lost none).

### Bounds, and why they are enough

* Grid barrier: three CTAs are the fewest for which one can be last, one spinning and one queued;
  two launches show state carried over; two polls let a CTA miss and then give up or see the
  release. The proofs remove all four bounds.
* Handshake: with one sample per launch the protocol differs from the real one (the follower can
  still be clearing when the leader starts over), with two the loop goes on and comes back to the
  first slot in the next launch. Two launches let what one leaves be read by another. The proofs
  remove the bounds, except those of liveness.
* Mailbox: depth two with three steps lets the sender overwrite a message within a launch, two
  launches let it do so across launches; four polls cover a miss, a hit and giving up. The proofs
  remove the bounds.
* Clock: skews 3 and -2 make sums and differences of both signs and parities; all transit times up
  to 2 are interleaved until time 4. The proofs remove the bounds.
* Exchange: three attempts let a rank retry after its peer has retried; two kinds let a reader
  fall between two publications of one rank. The proofs remove the bounds. One nap of the wait
  loop is a nap that helps or does not.
* Resources: rank 2 of 3 has peers before and after it; three attempts let an attempt find
  references left by two that failed at different calls. The proofs remove the bounds.
* Session: two contexts and three launches let a context be left and come back to. The proofs
  remove the bounds.
* Throughput: capacity 2, words of three values and four arrivals let a slice overflow into the
  next one's header, and counts and times wrap; with three groups on two slices the bounds are two
  ticks and three arrivals, enough for the sharing. The proofs remove the bounds.
* Alignment: two followers have pairs on both sides of the missing diagonal, and let rank 0 give up
  between the samples of one and the other; two launches of one follower order result files against
  samples. `Results` has an offset that is zero with a latency that is not, and the one pair that
  looks unwritten. The proofs remove the bounds.
* Records: source, channel, latency and step can each be zero, and the weights leave hardly a
  spare value between the fields of a word; two records share a stream or not, and a launch or
  not; the local probe has two arrivals at two loads in each of two launches, in one stream or
  two. In `local_latency` its times are 1 and 2, so that no row looks unwritten. The proofs remove
  the bounds.
* Memory files: two processes can both find the shared file empty; one of them launches twice, so
  that launches have to be told apart; the third has the rank of the first and comes later, as a
  second workload; two analyses are a first and a repeated one, and the first may have failed.
  The proofs remove the bounds.
* Prober: three functions are the target, another local one and one that is not in the module;
  three ids are that of the direct path, a second one compared, and one only in the table; unrelated
  comparisons are for equality or for inequality, not both at a time; two
  runs let a run read what a killed one left. The proofs remove the bounds.

### Fairness

`FairSpec` asks for weak fairness of each CTA, hook, rank or thread that is inside the code:
whoever has begun keeps executing. It never asks for a launch, an attempt or a begin, and never
for a poll to hit. GPU threads that are resident keep being scheduled, processes
of a job keep running, and every wait in the probes and in the file exchange counts down.
In `LatencyMailbox` sender and receiver belong to two kernels that both run, as the
communication library requires of its users. In
`MemorySession` it includes that a kernel ends by itself while the mutex is held (section 6).

`LaunchFinishes` is the property for which the spin bound matters: the CTAs on the device
may wait for one that cannot start before they leave. `CalibrationEnds` holds although the
other rank may never launch. `AllPrepare` needs its premises: when a rank fails, the
others can wait in MPI for ever, and the run allows deadlock there because the code does.

## 4. Proofs

Checked by tlapm with SMT, Zenon and (temporal steps) LS4; for all values of the constants
that satisfy the named assumptions.

**`GridBarrier_proofs`** (`GridAssumption`: a finite, non-empty set of CTAs, positive rooms,
polls and launches). `Inductive` shows `Spec => []IInv`, where `IInv` says that the
counter equals the number of arrivals until the last one resets it, that at most one CTA
releases, and that a spinning CTA holds the old sense exactly when the barrier is open.
None of the properties is inductive by itself: `PassedAfterAll` needs to know which sense a
waiter holds, and that needs the single releaser. From it follow `TypeCorrect`,
`PassedAfterAllHolds`, `NoLostWakeupHolds`, `CleanAfterLaunchHolds`, and `Refinement`:
every step is a step or a stutter of `LaunchBarrier`. `PartsStep` has one step per action;
the cardinality facts it needs are lemmas (`SubsetCount`, `OneMoreArrival`).

**`LatencyMailbox_proofs`** (`MailboxAssumption`: positive depth and polls, fewer launches than
run ids). `IInv` adds to the two properties what the sender may have stored for its credit, that a
time in the slot is of the message of the tag beside it or of a later one, and that a hook whose
message was early has either hit at its first poll or will never hit. `TimestampWindowHolds` and
`ValidOnlyIfAwaitedHolds` follow. Tags are unique because launches do not wrap around the run ids
(`TagNamesMessage`); without that assumption an old message could be taken for a new one.

**`PtpClock_proofs`** (`ClockAssumption`: any integer skews, any `Delay`). `IInv` bounds the
distance of each stamp from the store it times, per place of leader and follower;
`HalfBounds` carries the bounds through the rounding. `OffsetWithinDelayHolds`,
`LatencyWithinDelayHolds`, `ReportsAgreeHolds` and `HooksWithinTwiceDelayHolds` follow.

**`PtpHandshake_proofs`** (`PtpAssumption`: at least one sample and one launch). A sample is
visited once in every launch, so in a sample nobody gave up on, the number of the visit in which a
message was stored is the number of times its slot was written: `SlotsOK` gives the content of
each slot as a function of how often it was stored and cleared, and `InStep` says how far one side
can be ahead of the other. The one exception is `Lost`: the leader, having given up on some other
sample, may be back before the follower has cleared ConnReq, and that message is erased; nobody
then gets further with the sample. `LeaderStep` and `FollowerStep` go through the two programs,
one case per step. `CleanSampleIsCurrentHolds` follows, and with two samples or more also the
action property `NoLostMessageHolds`: the leader cannot be ahead in one sample without being out
of step in another.

**`HandleExchange_proofs`** (`ExchangeAssumption`: any number of ranks, any sequence of kinds).
For files, a rank reads only after it has published, so of two ranks that get through the one
that published last has read the other's current files (`PairOK`); a file of a fresh directory is of an
attempt of this run (`FreshOK`). For MPI, who has left the *n*-th Allgather knows that all have
entered it (`Entered`, `Left`, `Before`), so two ranks past their last one have called it equally
often and have each other's last buffers. `SameAllocationOverMpiHolds` and `OneSideSeesHolds` follow.

**`MemoryPlugin_proofs`** (`SessionAssumption`: nobody is a thread, no context a context, at least
one launch; `FabricAssumption`: any number of ranks, kinds of buffers, allocations and attempts).
The mutex belongs to the thread in a session, so what is known at a place is known
because of the places passed before: `PlacesOK` (who is where), `ObjectsOK` (references are to objects of
the last setup), `LaunchOK` and `MeasureOK` (what was measured, and when). None of the
properties is inductive: that a row does not mix launches needs to know that no sampler runs
when a session starts, which needs the objects. `LockMatchesSessionHolds`, `RowIsOfItsLaunchHolds` and
`ObjectsAreOwnedHolds` follow for `MemorySession` alone and, since the buffers share no state with
it, for the whole process (`SessionsInPlugin`). Then the buffers: `PluginInv` says that everything behind
the call an attempt is at has been made and is referred to by it, that a reference is to something
that exists, and that whatever exists is of the running attempt, of the one that prepared, or of one
that failed. `ReferencesLiveHolds` and `OnlyFailedLeakHolds` follow, for either plugin.

**`Analyze_proofs`** covers the three modes of the dispatcher, for any sizes; a fact about one mode
is kept by the other two, which leave its files alone.

* *Records* (`RecordsAssumption`: the weights of the fields of a word leave them apart, as the
  constants of the probe do). Packing can be undone (`Pack`, `PackedFits`, `RowDecoded`,
  `DebugDecoded`). `RecordsInv` says that the streams of a launch, and of each file, hold the rows of
  exactly the records the probe meant to save, each at the place it was saved at, of either probe and
  any number in a stream. With the local probe the analyzer therefore has the rows at the first
  places and no others: `CollectedIsMeasuredHolds` says which samples these are.
  `AnalyzersAgreeHolds` follows, too.
* *Memory files* (`MergeAssumption`: finitely many processes, ranks distinct within a workload).
  `MemoryInv` says whose bytes a line may have and which rows a file has, each once, through the
  stages of an analysis; `BytesAreOfTheRowHolds` and `NothingIsLostHolds` follow. `RepeatInv` adds the
  order of the file and what a finished analysis has settled, for the action property
  `AnalysisIsRepeatableHolds`. This property had been stated of *any* two analyses that finish.
  The run agreed, with its two analyses, but the proof did not go through: with four, one may
  finish on a file that an earlier one cut, and then a failing one makes the next start over from the
  directories, which restores what was cut. It now compares files that no write has cut.
* *Alignment* (`AlignmentAssumption`: at least one sample, rank and launch). `AlignInv` says that a
  slot shows a sample its rank has logged or nothing (`Shows`), and shows it for sure on a follower,
  and on rank 0 if it was complete when the copy began; and that the two rows of a sample are
  opposite. Nothing is assumed of when CTA 0 gives up, nor of how far its copy has got. A
  list that lost no sample then has one row for every launch and sample, in the only order there is, so
  equal places are of one sample; `OffsetsAlignHolds` follows.
* *Throughput* (`CaptureAssumption`: at least one group, slice and cell, any width of a word). `CaptureInv`
  says that each slice has the header of an owner that was flushed, or none, and in every other cell an
  arrival that an owner saw. That no store reaches another slice is arithmetic (`CellsApart`).
  `StreamsExactHolds` follows, and with sums unfolded file by file (`SumsAdd`) `SummaryAddsUpHolds`.
  The invariant is of `ThroughputProbe`'s own specification, which the dispatcher implements
  (`ThroughputInAnalyze`).

Where these proofs need induction (the first difference of two lists, a sum over a set) they take a
least counterexample instead (`Least`), which needs no theorem with an operator parameter.

**`NcclProber_proofs`** (`ProberAssumption`: types of the kernels and probes). Whatever happened
before, a module that has its declarations hoisted has been through the whole second stage
(`Done`), and every module calls either NCCL's table or the local functions (`Sound`); a status in the
json file is believed only with what `PlacesOK` and `StatusOK` say of the files. All four
properties of the run follow, among them the action property `SecondStageIsIdempotentHolds`.

All safety properties of the passing runs are proved, invariants and action properties alike. Only
model-checked: liveness (`LaunchFinishes`, `CalibrationEnds`, `RunCompletes`, `AttemptEnds`,
`AllPrepare`, `LockReleased`), as it rests on fairness and so on ENABLED, which tlapm does not
support. The four violations are TLC's counterexamples. What is proved is proved of the models:
what each takes for granted of the outside is in section 6.

## 5. What the results say about the code

* Within one launch the barrier is right for every grid size and also when CTAs give up; a launch
  leaves it clean without any help from the host.
* The calibration is right as long as nobody gives up. After a sample has been given up on, its
  slots are not cleared, and answers that come late are taken for those of the next launch; the offset
  of that launch is then silently computed with a stamp of an earlier one. Other samples of the
  same launches are not affected.
* What the alignment analyzer decodes was computed by the probes, each row for its pair and sample.
  It need not have all of them: rows that the leader completes after CTA 0 of rank 0 has given up in
  the barrier may be missing from the file, without a trace. A list that lost a row is shifted
  against the others from there on.
* With the local latency probe the tables have the first arrival of each warp in a launch and none of
  the later ones, though all are in the result file (`local_latency`); and not even the first when it
  came in the same tick as the kernel began, at load 0 of CTA 0.
* The send and receive hooks never report a latency that is too long because of the mailbox; a
  valid one may be too short, as the time can be that of a later message of the launch, less than
  a FIFO depth ahead.
* Offset and path latency are each within one `Delay` and corrected latencies within two; a
  negative path latency is seen correctly on the follower's side and as a huge number on the
  leader's.
* Over MPI, prepared ranks agree. Over files they agree as long as nobody retries; after retries
  one of the two can hold buffers that nobody uses. The same can happen without a retry in a
  directory that an earlier run has used: only one of two prepared ranks is sure to have the
  other's current buffers (`bench/common.sh` keeps the exchange directory in the trace directory,
  new for each run unless it is set). Ranks that chose differently do not prepare in a fresh
  directory: those on files time out, those in MPI wait.
* The memory plugin gives its mutex back on every path, and no row mixes two launches, whatever
  CUPTI or driver call fails.
* Bytes reach the row of their rank and launch in either CSV layout, and a second analysis changes
  nothing. The code has no copy of what it rewrites: a write of the root's file that fails after
  the header loses rows for good when it was the only file. Two processes that find the file empty
  write two headers, and the second stays as a row of launch 0. In a trace root that is used
  again, the bytes of the later process of a rank are written to the rows of the earlier one, too.
* A binary of the prober that is handed over never takes a function for another, and its json file
  is true wherever runs were killed. Two kinds of calls are not counted, and
  `WhatIsCalledIsCounted` names them: of a function inlined by a path of another id, and when the
  id taken for the target's is that of an unrelated comparison.
* The probes' compact layouts and the analyzers' decoders fit together: for slots, cells and
  packed words. `CollectedIsMeasured` allows one silence: a rank whose result files are all torn
  is missing from the tables, and so is the count of its skipped files.

## 6. Assumptions about what is outside

* A 16-byte vector access to a slot is not torn; stores of one thread to one peer with the fences
  of the probe become visible in order. A diagnostic row is one such access, when it is stored and when
  it is copied, and the loads of the copy are made in the order of the slots.
* The communication kernel returns a credit only after the receive hook of that step, and calls
  the send hook after it has published it.
* Launches of one instrumented module do not overlap on a device.
* All ranks of a run have the same run id, and the same ranks use a directory again.
* MPI errors are fatal, so `MPI_Allgather` completes or is never left.
* An attempt that failed is retried by a later launch only.
* GPU clocks run at the same rate during one calibration.
* CUPTI refuses to start a sampler that runs.
* Neutrino calls `end_launch` from the thread that called `begin_launch`. Whether it also does so
  after a failed `begin_launch` is unknown here: with one thread the session survives it
  (`memory_session`), with several the unlock in `end_launch` can be of a mutex another thread
  holds.
* The kernels of one process do not wait for each other, as `state.mutex` is held while one runs.
* Neutrino zeroes the maps of a launch and saves each launch to a result file of its own.
* No process of a workload still appends to a CSV file that is being analyzed.
* A write of a CSV file that fails has written whole lines (a cut within a line is not modelled).
* One prober at a time works in a work directory, and what the core prober writes to `kernel.info`
  is true of the kernel.

## 7. Not modelled

* `throughput.c`: loads the driver and answers with constants; nothing changes after init.
* `memory.probe`: the counting, per thread and without sharing; what it saved is in `MemoryMerge`.
* The rewriting of registers and labels in PTX text (`nccl/prober.py`, `nccl/table.py`): text
  in, text out. What it does to the calls, paths and declarations of a module is in `NcclProber`.
* `cli.py`, `build.py`, `toml.py`, `bench/`: options, compiler calls, workloads.
* `analysis/*.py` beyond the samples and rows they collect: averages, percentiles, outliers, tables,
  number formats, the headers of result files, the layouts of older traces. (Where
  the generated reader fails on a file of more than two maps, `analysis/latency.py` 157 calls
  `parse_single_section_sr_latency`, which nothing defines; the analysis then ends with an error.)
* A stream that is full: what Neutrino does with one row more than its capacity.
* The symbol lookup of `latency.c` except what it resets; the format of the CSV fields.
* Launches of one module that overlap on a device (`latency.c` 1087): planned, below.

## 8. Plan

Written in this order, the most important behaviour first: `GridBarrier` with `LaunchBarrier`
(checked, proved); `PtpHandshake` (checked, proved); `LatencyMailbox` (checked, proved);
`PtpClock` (checked, proved); `HandleExchange` (checked, proved); `FabricResources`,
`MemoryFabric`, `MemorySession` and `MemoryPlugin` (checked, proved); `ThroughputProbe` (checked,
proved); `PtpAlignment`, `LatencyRecords`, `MemoryMerge` and `Analyze` (checked, proved);
`NcclProber` (checked, proved).

Next models:

1. Overlapping launches of one module on two streams: what the clearing of result buffer and offsets
   does to a kernel that still writes them.
2. Composition of calibration, barrier and hooks in one launch: which hooks may read which
   offsets.
3. The workgroups of several CTAs in the throughput summary.

Next theorems: those of the next models, of which the first needs `PtpHandshake` with several
launches at a time; and a refinement for the exchange over MPI (an abstract agreement on buffers,
of which `SameAllocationOverMpi` is the invariant).
