-------------------------- MODULE MCHandleExchange --------------------------
(***************************************************************************)
(* HandleExchange for TLC: two ranks exchange two of the kinds of buffers  *)
(* of latency.c, so that a reader can fall between two publications.  Two  *)
(* attempts are one retry of every rank, three let a rank retry after its  *)
(* peer has.                                                               *)
(***************************************************************************)
EXTENDS HandleExchange

MCKinds == <<"leader", "mailbox">>
=============================================================================
