---------------------------- MODULE LaunchBarrier ----------------------------
(***************************************************************************)
(* What the grid barrier of the ptp_metrics probe promises to the hooks    *)
(* that run after it, one kernel launch at a time: a CTA that passes does  *)
(* so only after every CTA of the launch has arrived.  A CTA may also      *)
(* abandon the barrier (the probe bounds its spin), which promises nothing *)
(* about the others.  GridBarrier refines this specification.              *)
(***************************************************************************)
CONSTANT Cta   \* the CTAs of one launch

VARIABLES
  arrived,     \* CTAs that have reached the barrier in this launch
  passed,      \* CTAs that left because the barrier opened
  abandoned    \* CTAs that left because their poll budget ran out

vars == <<arrived, passed, abandoned>>

Left == passed \cup abandoned

Init ==
  /\ arrived = {}
  /\ passed = {}
  /\ abandoned = {}

Arrive(c) ==
  /\ c \notin arrived
  /\ arrived' = arrived \cup {c}
  /\ UNCHANGED <<passed, abandoned>>

Pass(c) ==
  /\ c \notin Left
  /\ arrived = Cta
  /\ passed' = passed \cup {c}
  /\ UNCHANGED <<arrived, abandoned>>

Abandon(c) ==
  /\ c \in arrived \ Left
  /\ abandoned' = abandoned \cup {c}
  /\ UNCHANGED <<arrived, passed>>

Relaunch ==
  /\ Left = Cta
  /\ arrived' = {}
  /\ passed' = {}
  /\ abandoned' = {}

Next ==
  \/ \E c \in Cta : Arrive(c) \/ Pass(c) \/ Abandon(c)
  \/ Relaunch

Spec == Init /\ [][Next]_vars
==============================================================================
