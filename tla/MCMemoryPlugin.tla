---------------------------- MODULE MCMemoryPlugin ----------------------------
(***************************************************************************)
(* Both plugins for TLC.  Rank 2 of three ranks has peers before and after *)
(* it, and three attempts let an attempt find the references of two that   *)
(* failed at different calls.  One or two threads and two contexts launch  *)
(* three times, so that a context can be left and come back to.            *)
(***************************************************************************)
EXTENDS MemoryPlugin

MCKinds == [latency |-> 3, memory |-> 2]    \* leader, follower, mailbox
MCScratch == [latency |-> 2, memory |-> 1]  \* result, offset
===============================================================================
