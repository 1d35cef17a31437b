---------------------------- MODULE MCGridBarrier ----------------------------
(***************************************************************************)
(* GridBarrier for TLC: a grid of three CTAs on a device that holds all of *)
(* them, two, or only one, so that a CTA may spin for one that cannot      *)
(* start before it leaves.                                                 *)
(***************************************************************************)
EXTENDS GridBarrier

MCRooms == 1..3
==============================================================================
