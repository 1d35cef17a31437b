--------------------------- MODULE PtpClock_proofs ---------------------------
(***************************************************************************)
(* The error bounds of PtpClock, for any number of followers, any skews    *)
(* and any bound on the delays.                                            *)
(***************************************************************************)
EXTENDS PtpClock, TLAPS

(***************************************************************************)
(* Half rounds towards zero, so it commutes with the change of sign: root  *)
(* and follower would compute the same offset up to its sign.              *)
(***************************************************************************)
LEMMA HalfIsInt == \A x \in Int : Half(x) \in Int
BY DEF Half, SignBit

LEMMA HalfIsOdd == \A x \in Int : Half(0 - x) = 0 - Half(x)
BY DEF Half, SignBit

LEMMA HalfBounds ==
  ASSUME NEW x \in Int, NEW s \in Int, NEW d \in Nat, Within(x - 2 * s, 2 * d)
  PROVE  Within(Half(x) - s, d)
BY DEF Half, SignBit, Within

LEMMA InitInv == Init => IInv
BY ClockAssumption DEF Init, IInv, TypeOK, Part, PlacesOK, Recent, SyncTimed, DelayTimed,
     Published, Zero, Stamps, InTransit

LEMMA TypeStep ==
  ASSUME TypeOK, [Next]_vars
  PROVE  TypeOK'
<1> USE ClockAssumption
<1>1. CASE Tick
  BY <1>1 DEF Tick, TypeOK
<1>2. CASE UNCHANGED vars
  BY <1>2 DEF vars, TypeOK
<1>3. ASSUME NEW f \in Follower, Handshake(f) PROVE TypeOK'
  <2>0. now \in Int
    BY DEF TypeOK
  <2>1. CASE StoreSync(f)
    BY <2>0, <2>1 DEF StoreSync, TypeOK
  <2>8. CASE StoreDelayReq(f)
    BY <2>0, <2>8 DEF StoreDelayReq, TypeOK
  <2>2. CASE StoreFollowUp(f)
    BY <2>2 DEF StoreFollowUp, TypeOK, Stamps
  <2>3. CASE SeeSync(f)
    BY <2>3 DEF SeeSync, TypeOK, Stamps
  <2>4. CASE StampDelayReq(f)
    BY <2>4 DEF StampDelayReq, TypeOK, Stamps
  <2>5. CASE SeeDelayReq(f)
    BY <2>5 DEF SeeDelayReq, TypeOK, Stamps
  <2>6. CASE Report(f)
    <3>1. Forward(f) \in Int /\ Backward(f) \in Int
      BY DEF TypeOK, Forward, Backward, Stamps
    <3>2. ClockOffset(f) \in Int /\ PathLatency(f) \in Int
      BY <3>1, HalfIsInt DEF ClockOffset, PathLatency
    <3>. QED  BY <2>6, <3>2 DEF Report, TypeOK
  <2>7. CASE TakeReport(f)
    <3>1. latency[f] \in Int /\ offset[f] \in Int
      BY DEF TypeOK
    <3>2. LatencyRange \in Nat \ {0}
      OBVIOUS
    <3>3. ReportedLatency(f) \in 0..(LatencyRange - 1)
      BY <3>1, <3>2 DEF ReportedLatency
    <3>4. Inverse(f) \in Int
      BY <3>1 DEF Inverse
    <3>. QED  BY <2>7, <3>3, <3>4 DEF TakeReport, TypeOK
  <2>. QED  BY <1>3, <2>1, <2>2, <2>3, <2>4, <2>5, <2>6, <2>7, <2>8 DEF Handshake
<1>. QED  BY <1>1, <1>2, <1>3 DEF Next

(***************************************************************************)
(* A handshake with one follower leaves the part of the others alone, and  *)
(* time only disturbs what is said of recent stores.                       *)
(***************************************************************************)
LEMMA OthersKept ==
  ASSUME NEW f \in Follower, Part(f), now' = now,
         lpc'[f] = lpc[f], fpc'[f] = fpc[f], storedAt'[f] = storedAt[f],
         stamp'[f] = stamp[f], offset'[f] = offset[f], latency'[f] = latency[f],
         rootOffset'[f] = rootOffset[f], rootLatency'[f] = rootLatency[f]
  PROVE  Part(f)'
BY DEF Part, PlacesOK, Recent, SyncTimed, DelayTimed, Published, InTransit,
       Forward, Backward, ReportedLatency

LEMMA TickStep ==
  ASSUME IInv, Tick, NEW f \in Follower
  PROVE  Part(f)'
<1>1. Part(f) /\ now \in Int /\ storedAt[f] \in Int
  BY DEF IInv, TypeOK
<1>2. Recent(f)'
  BY <1>1, ClockAssumption DEF Part, Recent, Tick, InTransit
<1>3. (PlacesOK(f) /\ SyncTimed(f) /\ DelayTimed(f) /\ Published(f))'
  BY <1>1 DEF Part, PlacesOK, SyncTimed, DelayTimed, Published, Tick,
       Forward, Backward, ReportedLatency
<1>. QED  BY <1>2, <1>3 DEF Part

(***************************************************************************)
(* The step of the handshake with f.                                       *)
(***************************************************************************)
LEMMA HandshakeStep ==
  ASSUME IInv, NEW f \in Follower, Handshake(f)
  PROVE  Part(f)'
<1> USE ClockAssumption
<1>1. Part(f) /\ TypeOK
  BY DEF IInv
<1>2. /\ now \in Int /\ storedAt[f] \in Int /\ Skew[f] \in Int
      /\ stamp[f]["sent"] \in Int /\ stamp[f]["seen"] \in Int
      /\ stamp[f]["back"] \in Int /\ stamp[f]["arrived"] \in Int
      /\ offset[f] \in Int /\ latency[f] \in Int
  BY <1>1 DEF TypeOK, Stamps
<1>3. CASE StoreSync(f)
  BY <1>1, <1>2, <1>3 DEF StoreSync, TypeOK, Part, PlacesOK, Recent, SyncTimed,
     DelayTimed, Published, InTransit
<1>4. CASE StoreFollowUp(f)
  BY <1>1, <1>2, <1>4 DEF StoreFollowUp, TypeOK, Part, PlacesOK, Recent, SyncTimed,
     DelayTimed, Published, InTransit, Forward, Within, Stamps
<1>5. CASE SeeSync(f)
  BY <1>1, <1>2, <1>5 DEF SeeSync, TypeOK, Part, PlacesOK, Recent, SyncTimed,
     DelayTimed, Published, InTransit, Forward, Within, Stamps
<1>6. CASE StoreDelayReq(f)
  BY <1>1, <1>2, <1>6 DEF StoreDelayReq, TypeOK, Part, PlacesOK, Recent, SyncTimed,
     DelayTimed, Published, InTransit, Forward, Within, Stamps
<1>7. CASE StampDelayReq(f)
  BY <1>1, <1>2, <1>7 DEF StampDelayReq, TypeOK, Part, PlacesOK, Recent, SyncTimed,
     DelayTimed, Published, InTransit, Forward, Backward, Within, Stamps
<1>8. CASE SeeDelayReq(f)
  BY <1>1, <1>2, <1>8 DEF SeeDelayReq, TypeOK, Part, PlacesOK, Recent, SyncTimed,
     DelayTimed, Published, InTransit, Forward, Backward, Within, Stamps
<1>9. CASE Report(f)
  <2>1. Within(Forward(f) - Skew[f], Delay) /\ Within(Backward(f) + Skew[f], Delay)
    BY <1>1, <1>9 DEF Report, Part, SyncTimed, DelayTimed
  <2>2. Forward(f) \in Int /\ Backward(f) \in Int
    BY <1>2 DEF Forward, Backward
  <2>3. Within((Forward(f) - Backward(f)) - 2 * Skew[f], 2 * Delay)
        /\ Within((Forward(f) + Backward(f)) - 2 * 0, 2 * Delay)
    BY <1>2, <2>1, <2>2 DEF Within
  <2>4. Within(ClockOffset(f) - Skew[f], Delay)
    BY <1>2, <2>2, <2>3, HalfBounds DEF ClockOffset
  <2>5. Within(PathLatency(f) - 0, Delay)
    BY <1>2, <2>2, <2>3, HalfBounds DEF PathLatency
  <2>6. PathLatency(f) \in Int
    BY <2>2, HalfIsInt DEF PathLatency
  <2>7. /\ offset'[f] = ClockOffset(f) /\ latency'[f] = PathLatency(f)
        /\ lpc' = lpc /\ lpc[f] = "report" /\ fpc'[f] = "done" /\ now' = now
        /\ storedAt' = storedAt /\ stamp' = stamp
    BY <1>1, <1>9 DEF Report, TypeOK
  <2>8. Published(f)'
    BY <2>4, <2>5, <2>6, <2>7 DEF Published, Within
  <2>9. (PlacesOK(f) /\ Recent(f) /\ SyncTimed(f) /\ DelayTimed(f))'
    BY <1>1, <1>9, <2>1, <2>7 DEF Part, PlacesOK, Recent, SyncTimed, DelayTimed,
       InTransit, Forward, Backward
  <2>. QED  BY <2>8, <2>9 DEF Part
<1>10. CASE TakeReport(f)
  <2>1. /\ rootOffset'[f] = 0 - offset[f] /\ rootLatency'[f] = latency[f] % LatencyRange
        /\ lpc'[f] = "done" /\ fpc[f] = "done" /\ fpc' = fpc /\ now' = now
        /\ storedAt' = storedAt /\ stamp' = stamp /\ offset' = offset /\ latency' = latency
        /\ lpc[f] = "report"
    BY <1>1, <1>10 DEF TakeReport, TypeOK, Inverse, ReportedLatency
  <2>2. Published(f)'
    BY <1>1, <1>2, <2>1 DEF Part, Published, ReportedLatency
  <2>3. (PlacesOK(f) /\ Recent(f) /\ SyncTimed(f) /\ DelayTimed(f))'
    BY <1>1, <2>1 DEF Part, PlacesOK, Recent, SyncTimed, DelayTimed,
       InTransit, Forward, Backward
  <2>. QED  BY <2>2, <2>3 DEF Part
<1>. QED  BY <1>3, <1>4, <1>5, <1>6, <1>7, <1>8, <1>9, <1>10 DEF Handshake

LEMMA PartStep ==
  ASSUME IInv, [Next]_vars, NEW f \in Follower
  PROVE  Part(f)'
<1>1. CASE Tick
  BY <1>1, TickStep
<1>2. CASE UNCHANGED vars
  BY <1>2, OthersKept DEF IInv, vars
<1>3. ASSUME NEW g \in Follower, Handshake(g) PROVE Part(f)'
  <2>1. CASE g = f
    BY <1>3, <2>1, HandshakeStep
  <2>2. CASE g # f
    <3>1. /\ now' = now /\ lpc'[f] = lpc[f] /\ fpc'[f] = fpc[f]
          /\ storedAt'[f] = storedAt[f] /\ stamp'[f] = stamp[f]
          /\ offset'[f] = offset[f] /\ latency'[f] = latency[f]
          /\ rootOffset'[f] = rootOffset[f] /\ rootLatency'[f] = rootLatency[f]
      BY <1>3, <2>2 DEF IInv, TypeOK, Handshake, StoreSync, StoreFollowUp, SeeSync,
         StoreDelayReq, StampDelayReq, SeeDelayReq, Report, TakeReport
    <3>. QED  BY <3>1, OthersKept DEF IInv
  <2>. QED  BY <2>1, <2>2
<1>. QED  BY <1>1, <1>2, <1>3 DEF Next

(***************************************************************************)
(* The strengthened invariant holds in every reachable state.              *)
(***************************************************************************)
THEOREM Inductive == Spec => []IInv
<1>1. IInv /\ [Next]_vars => IInv'
  BY TypeStep, PartStep DEF IInv
<1>. QED  BY InitInv, <1>1, PTL DEF Spec

(***************************************************************************)
(* Type correctness of stamps, offsets and latencies.                      *)
(***************************************************************************)
THEOREM TypeCorrect == Spec => []TypeOK
<1>1. IInv => TypeOK
  BY DEF IInv
<1>. QED  BY Inductive, <1>1, PTL

(***************************************************************************)
(* A calibrated offset is off by at most the longest delay.                *)
(***************************************************************************)
THEOREM OffsetWithinDelayHolds == Spec => []OffsetWithinDelay
<1>1. IInv => OffsetWithinDelay
  BY DEF IInv, Part, Published, OffsetWithinDelay
<1>. QED  BY Inductive, <1>1, PTL

(***************************************************************************)
(* The path latency a follower saves is at most the longest delay.         *)
(***************************************************************************)
THEOREM LatencyWithinDelayHolds == Spec => []LatencyWithinDelay
<1>1. IInv => LatencyWithinDelay
  BY DEF IInv, Part, Published, LatencyWithinDelay
<1>. QED  BY Inductive, <1>1, PTL

(***************************************************************************)
(* The two ranks of a pair publish inverse offsets, and one latency unless *)
(* it is negative.                                                         *)
(***************************************************************************)
THEOREM ReportsAgreeHolds == Spec => []ReportsAgree
<1>1. ASSUME NEW x \in Int, Within(x, Delay)
      PROVE  x % LatencyRange = x + (IF x < 0 THEN LatencyRange ELSE 0)
  <2>1. x < LatencyRange /\ 0 - x < LatencyRange /\ LatencyRange \in Nat \ {0} /\ Delay \in Nat
    BY <1>1, ClockAssumption DEF Within
  <2>2. CASE x >= 0
    BY <2>1, <2>2
  <2>3. CASE x < 0
    BY <2>1, <2>3
  <2>. QED  BY <2>2, <2>3
<1>2. IInv => ReportsAgree
  <2> SUFFICES ASSUME IInv, NEW f \in Follower, lpc[f] = "done"
               PROVE  /\ rootOffset[f] + offset[f] = 0
                      /\ rootLatency[f] = latency[f] + (IF latency[f] < 0 THEN LatencyRange ELSE 0)
    BY DEF ReportsAgree
  <2>1. latency[f] \in Int /\ Part(f)
    BY DEF IInv, TypeOK
  <2>2. Within(latency[f], Delay) /\ rootOffset[f] + offset[f] = 0
        /\ rootLatency[f] = latency[f] % LatencyRange
    BY <2>1 DEF Part, PlacesOK, Published, ReportedLatency
  <2>. QED  BY <1>1, <2>1, <2>2
<1>. QED  BY Inductive, <1>2, PTL

(***************************************************************************)
(* A corrected send/receive latency is off by at most twice the longest    *)
(* delay, between any two calibrated ranks.                                *)
(***************************************************************************)
THEOREM HooksWithinTwiceDelayHolds == Spec => []HooksWithinTwiceDelay
<1>1. IInv => HooksWithinTwiceDelay
  <2> SUFFICES ASSUME IInv, NEW a \in Follower, NEW b \in Follower,
                      fpc[a] = "done", fpc[b] = "done", NEW s \in 0..now, NEW r \in 0..now
               PROVE  Within(LatencyOf(a, b, s, r) - (r - s), 2 * Delay)
    BY DEF HooksWithinTwiceDelay
  <2>1. offset[a] \in Int /\ offset[b] \in Int /\ Skew[a] \in Int /\ Skew[b] \in Int
        /\ s \in Int /\ r \in Int /\ Delay \in Nat
    BY ClockAssumption DEF IInv, TypeOK
  <2>2. Within(offset[a] - Skew[a], Delay) /\ Within(offset[b] - Skew[b], Delay)
    BY DEF IInv, Part, Published
  <2>. QED  BY <2>1, <2>2 DEF Within, LatencyOf, CorrectedLatency, RootStamp
<1>. QED  BY Inductive, <1>1, PTL
=============================================================================
