--------------------------- MODULE MCPtpHandshake ---------------------------
(***************************************************************************)
(* PtpHandshake for TLC.  Two samples per launch are the fewest for which  *)
(* the protocol is right; two or three launches let a message left by one  *)
(* launch be read in the next and its consequences in the one after.       *)
(***************************************************************************)
EXTENDS PtpHandshake
==============================================================================
