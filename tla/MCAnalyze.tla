----------------------------- MODULE MCAnalyze -----------------------------
(***************************************************************************)
(* The files of latency, memory and throughput runs, and their analyzers,  *)
(* for TLC.                                                                *)
(*                                                                         *)
(* The offsets: one follower over two launches, or two followers over one, *)
(* two samples each, with offsets and latencies that may be zero.          *)
(*                                                                         *)
(* The records: four ranks, one more than the slots have room for, so that *)
(* there is no calibration; two records in one launch or one in each of    *)
(* two; one record beside a calibration; and two arrivals in each of two   *)
(* launches of the local probe.  Source, channel, latency and step may all *)
(* be zero, and a record may be found by the first, the second or a later  *)
(* poll.                                                                   *)
(*                                                                         *)
(* The CSV files: two processes of one workload, one of which launches     *)
(* twice, then a third of the rank of the first in the same trace root,    *)
(* and two analyses at any time, each of which may fail.                   *)
(*                                                                         *)
(* The streams: groups with a slice each, which they can overflow, and     *)
(* words of three ticks that wrap around; three groups on two slices; and  *)
(* one group over two launches, for the summary.                           *)
(***************************************************************************)
EXTENDS Analyze

Run(r, l, h, c) == [ranks |-> r, launches |-> l, hooks |-> h, compact |-> c]

MCShapes == {Run(2, 2, 0, FALSE), Run(3, 1, 0, FALSE), Run(2, 1, 1, FALSE)}
            \cup {Run(4, 1, 2, FALSE), Run(4, 2, 1, FALSE), Run(2, 2, 2, TRUE)}
MCLocalShapes == {Run(2, 2, 2, TRUE)}
MCCtaOf == <<0, 1>>

Result(o, l) == [offset |-> o, latency |-> l]

MCResults == {Result(0, 0), Result(0, 1), Result(2, 1)}
MCMeasured == {-1, 0}
MCLocalMeasured == {1, 2}

MCRankOf     == <<0, 1, 0>>
MCWorkloadOf == <<1, 1, 2>>
MCRowsEach   == <<2, 1, 1>>

Grid(g, l, t, a) == [groups |-> g, launches |-> l, ticks |-> t, arrivals |-> a]

MCGrids == {Grid(1, 2, 3, 4), Grid(2, 1, 3, 4), Grid(3, 1, 2, 3)}
============================================================================
