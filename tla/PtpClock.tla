------------------------------ MODULE PtpClock ------------------------------
(***************************************************************************)
(* The numbers of the calibration whose messages PtpHandshake models: the  *)
(* timestamps of one sample between rank 0 (the root) and each follower,   *)
(* the offset and path latency computed from them, and the latency that    *)
(* the send and receive hooks derive from two ranks' offsets.              *)
(*                                                                         *)
(* Time is real time; a rank's %globaltimer runs at the same speed and is  *)
(* Skew ahead of the root's.  A timestamp is read after the store it times *)
(* (before the next message is stored), so a peer may see the message      *)
(* before its sender has read the clock.  The one assumption about speed   *)
(* is Delay: a timed store is seen by its polling peer, and the clock read *)
(* that follows it is executed, within Delay.  All other steps may take    *)
(* any time.  The handshake before Sync ensures that the peer is polling.  *)
(***************************************************************************)
EXTENDS Integers

CONSTANTS
  Follower,      \* the ranks calibrated against the root
  Skew,          \* Skew[f]: how far f's clock is ahead of the root's
  Delay,         \* bound on a timed store's way to the peer and to its stamp
  LatencyRange,  \* latencies the leader's copy can tell apart (2^56)
  Horizon        \* bound of the model: the time at which it stops

ASSUME ClockAssumption ==
  /\ Skew \in [Follower -> Int]
  /\ Delay \in Nat
  /\ LatencyRange \in Nat /\ LatencyRange > Delay
  /\ Horizon \in Nat

Stamps == {"sent", "seen", "back", "arrived"}

VARIABLES
  now,           \* real time, and the root's clock
  lpc,           \* lpc[f]: the leader's CTA for follower f
  fpc,           \* fpc[f]: CTA 0 of follower f
  storedAt,      \* storedAt[f]: when the last timed message was stored
  stamp,         \* stamp[f]: %ptp_rd62, rd59, rd69 and rd71
  offset,        \* offset[f]: what f stores for the root
  latency,       \* latency[f]: what f saves as path latency
  rootOffset,    \* rootOffset[f]: what the root stores for f
  rootLatency    \* rootLatency[f]: what the root saves as path latency

vars == <<now, lpc, fpc, storedAt, stamp, offset, latency, rootOffset, rootLatency>>

Zero == [f \in Follower |-> 0]

Init ==
  /\ now = 0
  /\ lpc = [f \in Follower |-> "sync"]
  /\ fpc = [f \in Follower |-> "await"]
  /\ storedAt = Zero
  /\ stamp = [f \in Follower |-> [k \in Stamps |-> 0]]
  /\ offset = Zero
  /\ latency = Zero
  /\ rootOffset = Zero
  /\ rootLatency = Zero

(***************************************************************************)
(* The arithmetic.  Adding the sign bit before the arithmetic shift rounds *)
(* towards zero.                                                           *)
(***************************************************************************)
SignBit(x) == IF x < 0 THEN 1 ELSE 0
Half(x) == (x + SignBit(x)) \div 2

Forward(f)  == stamp[f]["seen"] - stamp[f]["sent"]       \* %ptp_rd90
Backward(f) == stamp[f]["arrived"] - stamp[f]["back"]    \* %ptp_rd89

OffsetOfSum(f) == Half(Forward(f) + Backward(f))         \* mutant: wrong sign
ClockOffset(f) == Half(Forward(f) - Backward(f))

LatencyNotHalved(f) == Forward(f) + Backward(f)          \* mutant
PathLatency(f) == Half(Forward(f) + Backward(f))

(***************************************************************************)
(* The leader takes the latency out of the report's type word with an      *)
(* unsigned shift: a negative latency arrives modulo 2^56.                 *)
(***************************************************************************)
LatencyShiftedArithmetically(f) == latency[f]            \* mutant: shr.s64
ReportedLatency(f) == latency[f] % LatencyRange

SameOffset(f) == offset[f]                               \* mutant: not negated
Inverse(f) == 0 - offset[f]

(***************************************************************************)
(* Sync and its timestamp, which FollowUp carries.                         *)
(***************************************************************************)
StoreSync(f) ==
  /\ lpc[f] = "sync"
  /\ storedAt' = [storedAt EXCEPT ![f] = now]
  /\ lpc' = [lpc EXCEPT ![f] = "stamp"]
  /\ UNCHANGED <<now, fpc, stamp, offset, latency, rootOffset, rootLatency>>

StoreFollowUp(f) ==
  /\ lpc[f] = "stamp"
  /\ stamp' = [stamp EXCEPT ![f]["sent"] = now]
  /\ lpc' = [lpc EXCEPT ![f] = "await"]
  /\ UNCHANGED <<now, fpc, storedAt, offset, latency, rootOffset, rootLatency>>

SeeSync(f) ==
  /\ fpc[f] = "await"
  /\ lpc[f] # "sync"
  /\ stamp' = [stamp EXCEPT ![f]["seen"] = now + Skew[f]]
  /\ fpc' = [fpc EXCEPT ![f] = "answer"]
  /\ UNCHANGED <<now, lpc, storedAt, offset, latency, rootOffset, rootLatency>>

(***************************************************************************)
(* DelayReq, stored once FollowUp is there, and the follower's time of it. *)
(***************************************************************************)
StoreDelayReq(f) ==
  /\ fpc[f] = "answer"
  /\ lpc[f] = "await"
  /\ storedAt' = [storedAt EXCEPT ![f] = now]
  /\ fpc' = [fpc EXCEPT ![f] = "stamp"]
  /\ UNCHANGED <<now, lpc, stamp, offset, latency, rootOffset, rootLatency>>

StampDelayReq(f) ==
  /\ fpc[f] = "stamp"
  /\ stamp' = [stamp EXCEPT ![f]["back"] = now + Skew[f]]
  /\ fpc' = [fpc EXCEPT ![f] = "compute"]
  /\ UNCHANGED <<now, lpc, storedAt, offset, latency, rootOffset, rootLatency>>

\* The leader's time of arrival travels in DelayResp.
SeeDelayReq(f) ==
  /\ lpc[f] = "await"
  /\ fpc[f] \in {"stamp", "compute"}
  /\ stamp' = [stamp EXCEPT ![f]["arrived"] = now]
  /\ lpc' = [lpc EXCEPT ![f] = "report"]
  /\ UNCHANGED <<now, fpc, storedAt, offset, latency, rootOffset, rootLatency>>

(***************************************************************************)
(* The follower computes, reports and publishes; the root publishes the    *)
(* inverse.                                                                *)
(***************************************************************************)
Report(f) ==
  /\ fpc[f] = "compute"
  /\ lpc[f] = "report"
  /\ offset' = [offset EXCEPT ![f] = ClockOffset(f)]
  /\ latency' = [latency EXCEPT ![f] = PathLatency(f)]
  /\ fpc' = [fpc EXCEPT ![f] = "done"]
  /\ UNCHANGED <<now, lpc, storedAt, stamp, rootOffset, rootLatency>>

TakeReport(f) ==
  /\ lpc[f] = "report"
  /\ fpc[f] = "done"
  /\ rootOffset' = [rootOffset EXCEPT ![f] = Inverse(f)]
  /\ rootLatency' = [rootLatency EXCEPT ![f] = ReportedLatency(f)]
  /\ lpc' = [lpc EXCEPT ![f] = "done"]
  /\ UNCHANGED <<now, fpc, storedAt, stamp, offset, latency>>

(***************************************************************************)
(* Time passes, but not beyond Delay after a timed store that has not been *)
(* both stamped and seen.                                                  *)
(***************************************************************************)
InTransit(f) ==
  \/ lpc[f] = "stamp"
  \/ lpc[f] = "await" /\ fpc[f] # "answer"
  \/ fpc[f] = "stamp"

Tick ==
  /\ now < Horizon
  /\ \A f \in Follower : InTransit(f) => now < storedAt[f] + Delay
  /\ now' = now + 1
  /\ UNCHANGED <<lpc, fpc, storedAt, stamp, offset, latency, rootOffset, rootLatency>>

Handshake(f) ==
  \/ StoreSync(f)
  \/ StoreFollowUp(f)
  \/ SeeSync(f)
  \/ StoreDelayReq(f)
  \/ StampDelayReq(f)
  \/ SeeDelayReq(f)
  \/ Report(f)
  \/ TakeReport(f)

Next ==
  \/ \E f \in Follower : Handshake(f)
  \/ Tick

Spec == Init /\ [][Next]_vars

(***************************************************************************)
(* The hooks: a message stamped when the sender's clock shows sent, taken  *)
(* when the receiver's shows received, each with its offset to the root.   *)
(***************************************************************************)
LocalStamp(sent, off) == sent                            \* mutant: uncorrected
RootStamp(sent, off) == sent - off
CorrectedLatency(received, rootStamp, off) == received - (rootStamp + off)

------------------------------------------------------------------------------
TypeOK ==
  /\ now \in 0..Horizon
  /\ lpc \in [Follower -> {"sync", "stamp", "await", "report", "done"}]
  /\ fpc \in [Follower -> {"await", "answer", "stamp", "compute", "done"}]
  /\ storedAt \in [Follower -> Int]
  /\ stamp \in [Follower -> [Stamps -> Int]]
  /\ offset \in [Follower -> Int]
  /\ latency \in [Follower -> Int]
  /\ rootOffset \in [Follower -> Int]
  /\ rootLatency \in [Follower -> 0..(LatencyRange - 1)]

Within(x, bound) == x <= bound /\ 0 - x <= bound

(***************************************************************************)
(* The calibrated offset is within Delay of the real one, whichever of the *)
(* two ends was slow and whatever the skew, in spite of the rounding and   *)
(* of stamps read after their stores.                                      *)
(***************************************************************************)
OffsetWithinDelay ==
  \A f \in Follower :
    fpc[f] = "done" => Within(offset[f] - Skew[f], Delay)

(***************************************************************************)
(* The path latency does not depend on the skew.  It can be negative.      *)
(***************************************************************************)
LatencyWithinDelay ==
  \A f \in Follower : fpc[f] = "done" => Within(latency[f], Delay)

(***************************************************************************)
(* The two ranks of a pair save inverse offsets, and the same latency,     *)
(* except that a negative one reaches the root as a huge positive one.     *)
(***************************************************************************)
ReportsAgree ==
  \A f \in Follower : lpc[f] = "done" =>
    /\ rootOffset[f] + offset[f] = 0
    /\ rootLatency[f] = latency[f] + (IF latency[f] < 0 THEN LatencyRange ELSE 0)

(***************************************************************************)
(* The corrected latency of a message between any two calibrated ranks is  *)
(* within twice Delay of the real one.                                     *)
(***************************************************************************)
LatencyOf(a, b, s, r) ==
  CorrectedLatency(r + Skew[b], RootStamp(s + Skew[a], offset[a]), offset[b])

HooksWithinTwiceDelay ==
  \A a, b \in Follower : fpc[a] = "done" /\ fpc[b] = "done" =>
    \A s, r \in 0..now : Within(LatencyOf(a, b, s, r) - (r - s), 2 * Delay)

(***************************************************************************)
(* The inductive invariant: how far each stamp is from the store it times. *)
(***************************************************************************)
PlacesOK(f) ==
  /\ lpc[f] = "sync" => fpc[f] = "await"
  /\ lpc[f] = "stamp" => fpc[f] \in {"await", "answer"}
  /\ lpc[f] = "report" => fpc[f] \in {"stamp", "compute", "done"}
  /\ lpc[f] = "done" => fpc[f] = "done"
  /\ fpc[f] = "done" => lpc[f] \in {"report", "done"}

\* A store that has not been both stamped and seen is at most Delay old.
Recent(f) ==
  /\ storedAt[f] <= now
  /\ lpc[f] # "sync" /\ InTransit(f) => now <= storedAt[f] + Delay

SyncTimed(f) ==
  /\ lpc[f] = "await" /\ fpc[f] = "await" =>
       0 <= stamp[f]["sent"] - storedAt[f] /\ stamp[f]["sent"] - storedAt[f] <= Delay
  /\ lpc[f] = "stamp" /\ fpc[f] = "answer" =>
       /\ 0 <= stamp[f]["seen"] - Skew[f] - storedAt[f]
       /\ stamp[f]["seen"] - Skew[f] - storedAt[f] <= Delay
  /\ lpc[f] \notin {"sync", "stamp"} /\ fpc[f] # "await" =>
       Within(Forward(f) - Skew[f], Delay)

DelayTimed(f) ==
  /\ lpc[f] = "await" /\ fpc[f] = "compute" =>
       /\ 0 <= stamp[f]["back"] - Skew[f] - storedAt[f]
       /\ stamp[f]["back"] - Skew[f] - storedAt[f] <= Delay
  /\ lpc[f] = "report" /\ fpc[f] = "stamp" =>
       0 <= stamp[f]["arrived"] - storedAt[f] /\ stamp[f]["arrived"] - storedAt[f] <= Delay
  /\ lpc[f] \in {"report", "done"} /\ fpc[f] \in {"compute", "done"} =>
       Within(Backward(f) + Skew[f], Delay)

Published(f) ==
  /\ fpc[f] = "done" => Within(offset[f] - Skew[f], Delay) /\ Within(latency[f], Delay)
  /\ lpc[f] = "done" => rootOffset[f] + offset[f] = 0 /\ rootLatency[f] = ReportedLatency(f)

Part(f) == PlacesOK(f) /\ Recent(f) /\ SyncTimed(f) /\ DelayTimed(f) /\ Published(f)

IInv == TypeOK /\ \A f \in Follower : Part(f)
=============================================================================
