------------------------------- MODULE Analyze -------------------------------
(***************************************************************************)
(* analyze.py: FABRICPERF_MODE selects the analyzer.  The mode of a run    *)
(* selects its probe and its plugin too, so the files under a trace root   *)
(* are of one mode.  The files of latency and of throughput mode are read  *)
(* only, and what is printed of them is a function of the files            *)
(* (LatencyRecords, ThroughputProbe); memory files are rewritten           *)
(* (MemoryMerge).                                                          *)
(*                                                                         *)
(* An analyzer started in another mode finds no records of its own; that,  *)
(* an invalid mode and any other exception end it with status 1 (Refuse).  *)
(***************************************************************************)
EXTENDS LatencyRecords

CONSTANTS
  Processes, RankOf, WorkloadOf, RowsEach, Analyses,                   \* of MemoryMerge
  Grids, Slices, Capacity, WordRange, BinNs                            \* of ThroughputProbe

VARIABLES
  mode,          \* the FABRICPERF_MODE of the run
  shared, workload, open, appended, counted, csv, long, analyses, stage, todo, merged,
  status, cut, finished,                                               \* of MemoryMerge
  grid, now, at, start, count, cells, stream, ran, results             \* of ThroughputProbe

Memory == INSTANCE MemoryMerge
Throughput == INSTANCE ThroughputProbe
                WITH Shapes <- Grids, shape <- grid, map <- cells, log <- stream

ASSUME MergeAssumption == Memory!MergeConstants
ASSUME CaptureAssumption == Throughput!ThroughputConstants

AnalyzedModes == {"latency", "memory", "throughput"}
memoryFiles == <<shared, workload, open, appended, counted, csv, long, analyses, stage, todo,
                 merged, status, cut, finished>>
throughputFiles == <<grid, now, at, start, count, cells, stream, ran, results>>
analyzeVars == <<allVars, mode, memoryFiles, throughputFiles>>

\* Of a run in one mode there are no files of the other.
AnalyzeInit ==
  /\ mode \in AnalyzedModes
  /\ RecordsInit
  /\ Memory!MergeInit
  /\ Throughput!Init
  /\ mode # "latency" => shape = CHOOSE s \in Shapes : TRUE
  /\ mode # "memory" => shared
  /\ mode # "throughput" => grid = CHOOSE g \in Grids : TRUE

LatencyRun ==
  /\ mode = "latency" /\ RecordsNext
  /\ UNCHANGED <<memoryFiles, throughputFiles>>

MemoryRun ==
  /\ mode = "memory" /\ Memory!MergeNext
  /\ UNCHANGED <<allVars, throughputFiles>>

ThroughputRun ==
  /\ mode = "throughput" /\ Throughput!Next
  /\ UNCHANGED <<allVars, memoryFiles>>

AnalyzeNext == (LatencyRun \/ MemoryRun \/ ThroughputRun) /\ UNCHANGED mode

AnalyzeSpec == AnalyzeInit /\ [][AnalyzeNext]_analyzeVars

------------------------------------------------------------------------------
\* The properties of the files of memory mode: see MemoryMerge; of throughput
\* mode: see ThroughputProbe; of latency mode: see PtpAlignment, LatencyRecords.

\* A row has the bytes of its own rank and launch, whatever analyses failed.
BytesAreOfTheRow == Memory!BytesAreOfTheRow

\* An analysis that finishes leaves every row once, with its bytes.
NothingIsLost == Memory!NothingIsLost

\* Analyzing again leaves the file as it is.
AnalysisIsRepeatable == Memory!AnalysisIsRepeatable

\* A stream says what its groups saw: all of it where it is of one group.
StreamsExact == Throughput!StreamsExact

\* Captured and dropped are all arrivals of the launches that were flushed.
SummaryAddsUp == Throughput!SummaryAddsUp
==============================================================================
