---------------------------- MODULE PtpHandshake ----------------------------
(***************************************************************************)
(* The clock calibration of latency.probe's ptp_metrics probe, between CTA *)
(* c of rank 0 (the leader) and CTA 0 of rank c (the follower).  In every  *)
(* launch the two go through the same samples; each sample has slots of    *)
(* its own in the leader's and the follower's fabric buffer, and every     *)
(* slot is used for one kind of message, so a slot is either clear or      *)
(* holds a message of that kind.  A side that polls a slot too often       *)
(* skips the rest of the sample and clears nothing.                        *)
(*                                                                         *)
(* A timestamp is represented by its lineage: the set of readings of a     *)
(* clock it was computed from, each named by the side that read its clock  *)
(* and by that side's launch (each rank counts its own).  A clear slot (and*)
(* a zeroed offset) is the empty set.  Nothing in a message names a launch:*)
(* a receiver tests its kind only, so it cannot tell a fresh message from  *)
(* one left behind.                                                        *)
(*                                                                         *)
(* The pairs of a run share no slot and no offset entry; they meet only in *)
(* the grid barrier that follows (GridBarrier).                            *)
(***************************************************************************)
EXTENDS Naturals, Sequences

CONSTANTS
  Samples,    \* samples per launch (20)
  Launches    \* bound of the model: calibrated launches per rank

ASSUME PtpAssumption ==
  /\ Samples \in Nat \ {0}
  /\ Launches \in Nat \ {0}

Side   == {"leader", "follower"}
Sample == 1..Samples
Launch == 1..Launches
Reading == Side \X Launch

LeaderBuffer   == {"ConnResp", "DelayReq", "Report"}             \* rank 0's slots
FollowerBuffer == {"ConnReq", "Sync", "FollowUp", "DelayResp"}   \* rank c's slots
Msg == LeaderBuffer \cup FollowerBuffer

(***************************************************************************)
(* One sample as each side executes it.  "store" writes a message, "await" *)
(* polls for one, "publish" writes the offset table and the diagnostic     *)
(* slot, "clear" zeroes a slot of the side's own buffer.                   *)
(***************************************************************************)
Do(op, msg) == [op |-> op, msg |-> msg]

\* Mutant: the leader forgets the last of its own slots.
LeaderKeepsReport ==
  << Do("store", "ConnReq"), Do("await", "ConnResp"),
     Do("store", "Sync"), Do("store", "FollowUp"),
     Do("await", "DelayReq"), Do("store", "DelayResp"),
     Do("await", "Report"), Do("publish", "Report"),
     Do("clear", "ConnResp"), Do("clear", "DelayReq") >>

LeaderProgram ==
  << Do("store", "ConnReq"), Do("await", "ConnResp"),
     Do("store", "Sync"), Do("store", "FollowUp"),
     Do("await", "DelayReq"), Do("store", "DelayResp"),
     Do("await", "Report"), Do("publish", "Report"),
     Do("clear", "ConnResp"), Do("clear", "DelayReq"), Do("clear", "Report") >>

\* Mutant: the follower clears its slots too early, before the answer comes.
FollowerClearsEarly ==
  << Do("await", "ConnReq"), Do("store", "ConnResp"),
     Do("await", "Sync"), Do("await", "FollowUp"),
     Do("clear", "ConnReq"), Do("clear", "Sync"), Do("clear", "FollowUp"),
     Do("store", "DelayReq"), Do("await", "DelayResp"),
     Do("store", "Report"), Do("publish", "Report") >>

FollowerProgram ==
  << Do("await", "ConnReq"), Do("store", "ConnResp"),
     Do("await", "Sync"), Do("await", "FollowUp"),
     Do("store", "DelayReq"), Do("await", "DelayResp"),
     Do("store", "Report"), Do("publish", "Report"),
     Do("clear", "ConnReq"), Do("clear", "Sync"),
     Do("clear", "FollowUp"), Do("clear", "DelayResp") >>

Program(side) == IF side = "leader" THEN LeaderProgram ELSE FollowerProgram

(***************************************************************************)
(* The received messages whose timestamps, or times of arrival, enter the  *)
(* timestamp of a message: the leader stamps the arrival of DelayReq, the  *)
(* follower's offset is ((sync arrival - FollowUp) - (DelayResp - now))/2. *)
(***************************************************************************)
DerivedFrom(m) ==
  CASE m = "DelayResp" -> {"DelayReq"}
    [] m = "Report"    -> {"Sync", "FollowUp", "DelayResp"}
    [] OTHER           -> {}

VARIABLES
  launch,     \* launch[side]: launches the rank has started
  pc,         \* pc[side]: next step of its program, 0 when no launch runs
  sample,     \* sample[side]: %ptp_r31
  seen,       \* seen[side][m]: what the side loaded in this sample
  slot,       \* slot[s][m]: the slot of message m of sample s
  offset,     \* offset[side]: the pair's entry in globalLatencyOffsetBuff
  missed      \* samples some side has ever given up on (history)

vars == <<launch, pc, sample, seen, slot, offset, missed>>

Running(side) == pc[side] # 0
Doing(side)   == Program(side)[pc[side]]
Here(side)    == slot[sample[side]]

NothingSeen == [m \in Msg |-> {}]

\* The lineage of a message the side stores now.
Stamp(side, m) ==
  {<<side, launch[side]>>} \cup UNION {seen[side][d] : d \in DerivedFrom(m)}

\* What the side publishes: the follower's own report, or the one it received.
Result(side) ==
  IF side = "leader" THEN seen[side]["Report"] ELSE Stamp(side, "Report")

Init ==
  /\ launch = [side \in Side |-> 0]
  /\ pc = [side \in Side |-> 0]
  /\ sample = [side \in Side |-> 1]
  /\ seen = [side \in Side |-> NothingSeen]
  /\ slot = [s \in Sample |-> NothingSeen]
  /\ offset = [side \in Side |-> {}]
  /\ missed = {}

(***************************************************************************)
(* A launch of the kernel on one rank.  Resolving globalLatencyOffsetBuff  *)
(* zeroes the offset table first.  The host of one rank does not wait for  *)
(* the other, and may never launch again.                                  *)
(***************************************************************************)
OffsetsAtLaunch(side) == [offset EXCEPT ![side] = {}]

StartLaunch(side) ==
  /\ ~Running(side)
  /\ launch[side] < Launches
  /\ launch' = [launch EXCEPT ![side] = @ + 1]
  /\ offset' = OffsetsAtLaunch(side)
  /\ sample' = [sample EXCEPT ![side] = 1]
  /\ seen' = [seen EXCEPT ![side] = NothingSeen]
  /\ pc' = [pc EXCEPT ![side] = 1]
  /\ UNCHANGED <<slot, missed>>

(***************************************************************************)
(* The step after this one: the next of the program, or sync_local, which  *)
(* starts the next sample or leaves the sample loop.                       *)
(***************************************************************************)
MoreSamples(side) == sample[side] < Samples

SyncLocal(side) ==
  /\ seen' = [seen EXCEPT ![side] = NothingSeen]
  /\ IF MoreSamples(side)
     THEN /\ sample' = [sample EXCEPT ![side] = @ + 1]
          /\ pc' = [pc EXCEPT ![side] = 1]
     ELSE /\ sample' = sample
          /\ pc' = [pc EXCEPT ![side] = 0]

Advance(side) ==
  IF pc[side] < Len(Program(side))
  THEN pc' = [pc EXCEPT ![side] = @ + 1] /\ UNCHANGED <<sample, seen>>
  ELSE SyncLocal(side)

Store(side) ==
  /\ Running(side) /\ Doing(side).op = "store"
  /\ slot' = [slot EXCEPT ![sample[side]][Doing(side).msg] = Stamp(side, Doing(side).msg)]
  /\ Advance(side)
  /\ UNCHANGED <<launch, offset, missed>>

Await(side) ==
  /\ Running(side) /\ Doing(side).op = "await"
  /\ Here(side)[Doing(side).msg] # {}
  /\ seen' = [seen EXCEPT ![side][Doing(side).msg] = Here(side)[Doing(side).msg]]
  /\ pc' = [pc EXCEPT ![side] = @ + 1]
  /\ UNCHANGED <<launch, sample, slot, offset, missed>>

(***************************************************************************)
(* 1048576 polls missed.  How long that takes is not related to anything   *)
(* the other side does, so it may happen on any poll that misses.          *)
(***************************************************************************)
PollOn(side) ==                   \* mutant: the old, unbounded poll loop
  /\ Running(side) /\ Doing(side).op = "await"
  /\ Here(side)[Doing(side).msg] = {}
  /\ UNCHANGED vars

GiveUp(side) ==
  /\ Running(side) /\ Doing(side).op = "await"
  /\ Here(side)[Doing(side).msg] = {}
  /\ missed' = missed \cup {sample[side]}
  /\ SyncLocal(side)
  /\ UNCHANGED <<launch, slot, offset>>

Publish(side) ==
  /\ Running(side) /\ Doing(side).op = "publish"
  /\ offset' = [offset EXCEPT ![side] = Result(side)]
  /\ Advance(side)
  /\ UNCHANGED <<launch, slot, missed>>

Clear(side) ==
  /\ Running(side) /\ Doing(side).op = "clear"
  /\ slot' = [slot EXCEPT ![sample[side]][Doing(side).msg] = {}]
  /\ Advance(side)
  /\ UNCHANGED <<launch, offset, missed>>

ProbeStep(side) ==
  \/ Store(side)
  \/ Await(side)
  \/ GiveUp(side)
  \/ Publish(side)
  \/ Clear(side)

Next == \E side \in Side : StartLaunch(side) \/ ProbeStep(side)

Spec == Init /\ [][Next]_vars

(***************************************************************************)
(* A launched CTA keeps executing; the host owes no launch.                *)
(***************************************************************************)
FairSpec == Spec /\ \A side \in Side : WF_vars(ProbeStep(side))

------------------------------------------------------------------------------
TypeOK ==
  /\ launch \in [Side -> 0..Launches]
  /\ pc \in [Side -> 0..12]
  /\ sample \in [Side -> Sample]
  /\ seen \in [Side -> [Msg -> SUBSET Reading]]
  /\ slot \in [Sample -> [Msg -> SUBSET Reading]]
  /\ offset \in [Side -> SUBSET Reading]
  /\ missed \subseteq Sample

AtPublish(side) == Running(side) /\ Doing(side).op = "publish"

(***************************************************************************)
(* A sample nobody ever gave up on is calibrated on both sides from the    *)
(* stamps both ranks took in one launch, the same for both, whatever was   *)
(* given up on in the other samples and however far the two ranks' launches*)
(* have drifted apart; and between launches its slots are clear, so that   *)
(* the next launch cannot pick up a message of this one.  (And the state is*)
(* well typed.)                                                            *)
(***************************************************************************)
CleanSampleIsCurrent ==
  /\ TypeOK
  /\ \A side \in Side :
       AtPublish(side) /\ sample[side] \notin missed => Result(side) = Side \X {launch[side]}
  /\ (\A side \in Side : ~Running(side)) =>
       \A s \in Sample \ missed : \A m \in Msg : slot[s][m] = {}

(***************************************************************************)
(* As long as nobody gives up, no message is overwritten: a slot is only   *)
(* written when clear.  (With a single sample per launch this fails: the   *)
(* follower may still be clearing when the leader's next launch begins.)   *)
(***************************************************************************)
NoLostMessage ==
  [][missed' = {} =>
       \A s \in Sample, m \in Msg :
         slot[s][m] # {} => slot'[s][m] \in {slot[s][m], {}}]_slot

(***************************************************************************)
(* A launched probe leaves its sample loop, even when the other rank never *)
(* launches or stops half-way.                                             *)
(***************************************************************************)
CalibrationEnds == \A side \in Side : Running(side) ~> ~Running(side)

(***************************************************************************)
(* What latency.c says of the offsets, which it zeroes at every launch so  *)
(* that the hooks do not go on "reusing stale values from a previous       *)
(* launch": of the stamps a rank's entry was computed from, those the rank *)
(* took itself it took in this launch.  (Its peer's launches have numbers  *)
(* of their own; they are not compared.)                                   *)
(***************************************************************************)
OffsetIsOfThisLaunch ==
  \A side \in Side : \A l \in Launch : <<side, l>> \in offset[side] => l = launch[side]
==============================================================================
