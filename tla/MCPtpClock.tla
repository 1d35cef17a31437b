----------------------------- MODULE MCPtpClock -----------------------------
(***************************************************************************)
(* PtpClock for TLC: two followers, one ahead of the root and one behind   *)
(* it, odd and even, so that the rounding has both signs to deal with.     *)
(***************************************************************************)
EXTENDS PtpClock

CONSTANTS f1, f2

MCFollower == {f1, f2}
MCSkew == [f \in MCFollower |-> IF f = f1 THEN 3 ELSE -2]
=============================================================================
