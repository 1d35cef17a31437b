-------------------------- MODULE MCLatencyMailbox --------------------------
(***************************************************************************)
(* LatencyMailbox for TLC: a FIFO of two slots lets the sender overwrite a *)
(* message the receiver has not read, more steps than slots let it do so   *)
(* in the middle of a launch, and two launches let it do so across one.    *)
(* Four polls are enough for every kind of record and for giving up.       *)
(***************************************************************************)
EXTENDS LatencyMailbox
==============================================================================
