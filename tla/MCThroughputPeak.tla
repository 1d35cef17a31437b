-------------------------- MODULE MCThroughputPeak --------------------------
(***************************************************************************)
(* ThroughputProbe for TLC: one group over two launches, for the peak of   *)
(* the summary.  MCAnalyze has the other runs of the probe.                *)
(***************************************************************************)
EXTENDS ThroughputProbe

MCTwoLaunches == {[groups |-> 1, launches |-> 2, ticks |-> 3, arrivals |-> 3]}
=============================================================================
