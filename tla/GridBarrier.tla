----------------------------- MODULE GridBarrier -----------------------------
(***************************************************************************)
(* The inter-CTA barrier that ends the ptp_metrics probe of latency.probe. *)
(* Thread 0 of every CTA reads ptpGlobalBarrierSense, increments           *)
(* ptpGlobalBarrier, and either releases the grid (it was the last one) or *)
(* spins until the sense moves, at most MaxPolls times.  The instrumented  *)
(* kernel, with its send and receive hooks, runs after the barrier.        *)
(*                                                                         *)
(* The grid is an ordinary launch, not a cooperative one: only room CTAs   *)
(* occupy the device at a time, and a queued CTA starts when one of them   *)
(* exits.  Launches of one module run one after the other.                 *)
(***************************************************************************)
EXTENDS Naturals, FiniteSets

CONSTANTS
  Cta,        \* the CTAs of the grid
  Rooms,      \* how many CTAs the device may hold at once in a launch
  MaxPolls,   \* polls of the sense word before a CTA gives up (1048576)
  Launches    \* bound of the model: kernel launches of the module

ASSUME GridAssumption ==
  /\ IsFiniteSet(Cta)
  /\ Cta # {}
  /\ Rooms # {} /\ Rooms \subseteq Nat \ {0}
  /\ MaxPolls \in Nat \ {0}
  /\ Launches \in Nat \ {0}

VARIABLES
  launch,     \* index of the running launch
  room,       \* how many CTAs of this launch the device holds at once
  count,      \* ptpGlobalBarrier
  sense,      \* ptpGlobalBarrierSense
  pc,         \* where thread 0 of each CTA is
  mySense,    \* %ptp_r13: the sense a CTA read before it arrived
  polls,      \* %ptp_r6: polls of the sense word so far
  outcome     \* how a CTA left the barrier in this launch (history)

vars == <<launch, room, count, sense, pc, mySense, polls, outcome>>

NCta == Cardinality(Cta)   \* %nctaid.x

(***************************************************************************)
(* Where a CTA can be, in the order it goes through them.                  *)
(***************************************************************************)
BeforeBarrier == {"queued", "calibrating", "arriving"}
AtBarrier     == {"releasing", "flipping", "spinning"}
AfterBarrier  == {"hooks", "exited"}
Place         == BeforeBarrier \cup AtBarrier \cup AfterBarrier

OnDevice  == {c \in Cta : pc[c] \notin {"queued", "exited"}}
Arrived   == {c \in Cta : pc[c] \notin BeforeBarrier}
Releasers == {c \in Cta : pc[c] \in {"releasing", "flipping"}}

\* The last arrival has reset the count and moved the sense.
Released == Arrived = Cta /\ Releasers = {}

Init ==
  /\ launch = 1
  /\ room \in Rooms
  /\ count = 0
  /\ sense = 0
  /\ pc = [c \in Cta |-> "queued"]
  /\ mySense = [c \in Cta |-> 0]
  /\ polls = [c \in Cta |-> 0]
  /\ outcome = [c \in Cta |-> "none"]

(***************************************************************************)
(* The device starts a queued CTA when there is room for it.               *)
(***************************************************************************)
Start(c) ==
  /\ pc[c] = "queued"
  /\ Cardinality(OnDevice) < room
  /\ pc' = [pc EXCEPT ![c] = "calibrating"]
  /\ UNCHANGED <<launch, room, count, sense, mySense, polls, outcome>>

(***************************************************************************)
(* The sample loop is over (module PtpHandshake); remember the sense       *)
(* before arriving.                                                        *)
(***************************************************************************)
ReadSenseForgotten(c) ==                 \* mutant: keeps the last launch's
  /\ pc[c] = "calibrating"
  /\ pc' = [pc EXCEPT ![c] = "arriving"]
  /\ UNCHANGED <<launch, room, count, sense, mySense, polls, outcome>>

ReadSense(c) ==
  /\ pc[c] = "calibrating"
  /\ mySense' = [mySense EXCEPT ![c] = sense]
  /\ pc' = [pc EXCEPT ![c] = "arriving"]
  /\ UNCHANGED <<launch, room, count, sense, polls, outcome>>

(***************************************************************************)
(* atom.global.add of the count: the CTA that finds NCta-1 releases.       *)
(***************************************************************************)
IsLastOffByOne == count + 1 = NCta - 1   \* mutant: compares the new count
IsLast == count = NCta - 1

Arrive(c) ==
  /\ pc[c] = "arriving"
  /\ count' = count + 1
  /\ pc' = [pc EXCEPT ![c] = IF IsLast THEN "releasing" ELSE "spinning"]
  /\ polls' = [polls EXCEPT ![c] = 0]
  /\ UNCHANGED <<launch, room, sense, mySense, outcome>>

CountKept == count                       \* mutant: the reset is forgotten
CountAfterRelease == 0

ResetCount(c) ==
  /\ pc[c] = "releasing"
  /\ count' = CountAfterRelease
  /\ pc' = [pc EXCEPT ![c] = "flipping"]
  /\ UNCHANGED <<launch, room, sense, mySense, polls, outcome>>

SenseRaised == 1                         \* mutant: set, not incremented
NextSense == sense + 1

FlipSense(c) ==
  /\ pc[c] = "flipping"
  /\ sense' = NextSense
  /\ pc' = [pc EXCEPT ![c] = "hooks"]
  /\ outcome' = [outcome EXCEPT ![c] = "passed"]
  /\ UNCHANGED <<launch, room, count, mySense, polls>>

SeeRelease(c) ==
  /\ pc[c] = "spinning"
  /\ sense # mySense[c]
  /\ pc' = [pc EXCEPT ![c] = "hooks"]
  /\ outcome' = [outcome EXCEPT ![c] = "passed"]
  /\ UNCHANGED <<launch, room, count, sense, mySense, polls>>

PollMiss(c) ==
  /\ pc[c] = "spinning"
  /\ sense = mySense[c]
  /\ polls[c] + 1 < MaxPolls
  /\ polls' = [polls EXCEPT ![c] = @ + 1]
  /\ UNCHANGED <<launch, room, count, sense, pc, mySense, outcome>>

SpinAgain(c) ==                          \* mutant: the spin has no bound
  /\ pc[c] = "spinning"
  /\ UNCHANGED vars

GiveUp(c) ==
  /\ pc[c] = "spinning"
  /\ sense = mySense[c]
  /\ polls[c] + 1 >= MaxPolls
  /\ pc' = [pc EXCEPT ![c] = "hooks"]
  /\ outcome' = [outcome EXCEPT ![c] = "abandoned"]
  /\ UNCHANGED <<launch, room, count, sense, mySense, polls>>

(***************************************************************************)
(* The kernel body and its hooks run, and the CTA leaves the device.       *)
(***************************************************************************)
Exit(c) ==
  /\ pc[c] = "hooks"
  /\ pc' = [pc EXCEPT ![c] = "exited"]
  /\ UNCHANGED <<launch, room, count, sense, mySense, polls, outcome>>

(***************************************************************************)
(* The next launch.  The two barrier words live in the module's global     *)
(* memory: resolve_symbol zeroes them when Neutrino resolves the symbols   *)
(* (always for a new module), and a launch that reuses the module without  *)
(* resolving them again finds what the previous one left.                  *)
(***************************************************************************)
Relaunch ==
  /\ \A c \in Cta : pc[c] = "exited"
  /\ launch < Launches
  /\ launch' = launch + 1
  /\ room' \in Rooms
  /\ \/ count' = 0 /\ sense' = 0
     \/ UNCHANGED <<count, sense>>
  /\ pc' = [c \in Cta |-> "queued"]
  /\ outcome' = [c \in Cta |-> "none"]
  /\ UNCHANGED <<mySense, polls>>

CtaStep(c) ==
  \/ Start(c)
  \/ ReadSense(c)
  \/ Arrive(c)
  \/ ResetCount(c)
  \/ FlipSense(c)
  \/ SeeRelease(c)
  \/ PollMiss(c)
  \/ GiveUp(c)
  \/ Exit(c)

Next ==
  \/ \E c \in Cta : CtaStep(c)
  \/ Relaunch

Spec == Init /\ [][Next]_vars

(***************************************************************************)
(* A resident thread keeps executing, and the device starts a queued CTA   *)
(* once there is room.  Nothing is assumed about relative speeds.          *)
(***************************************************************************)
FairSpec == Spec /\ \A c \in Cta : WF_vars(CtaStep(c))

------------------------------------------------------------------------------
TypeOK ==
  /\ launch \in 1..Launches
  /\ room \in Rooms
  /\ count \in 0..NCta
  /\ sense \in Nat
  /\ pc \in [Cta -> Place]
  /\ mySense \in [Cta -> Nat]
  /\ polls \in [Cta -> 0..MaxPolls]
  /\ outcome \in [Cta -> {"none", "passed", "abandoned"}]

(***************************************************************************)
(* A CTA whose hooks run because it passed the barrier runs them after     *)
(* every CTA of this launch, the calibrating CTA 0 included, has arrived.  *)
(***************************************************************************)
PassedAfterAll ==
  (\E c \in Cta : outcome[c] = "passed") => Arrived = Cta

(***************************************************************************)
(* No lost wakeup: once the barrier is open, every CTA still spinning      *)
(* holds an old sense, so its next poll lets it pass whatever its budget.  *)
(***************************************************************************)
NoLostWakeup ==
  Released => \A c \in Cta : pc[c] = "spinning" => mySense[c] # sense

(***************************************************************************)
(* A finished launch leaves the count at zero however many of its CTAs     *)
(* gave up, so a launch that reuses the module starts from a clean barrier *)
(* even when its symbols are not resolved again.                           *)
(***************************************************************************)
CleanAfterLaunch ==
  (\A c \in Cta : pc[c] = "exited") => count = 0

(***************************************************************************)
(* The inductive invariant behind the three: the count is the number of    *)
(* arrivals until the last one, who alone resets it and moves the sense.   *)
(***************************************************************************)
CountsArrivals ==
  /\ Arrived # Cta => count = Cardinality(Arrived)
  /\ \A c \in Cta : pc[c] = "releasing" => count = NCta
  /\ \A c \in Cta : pc[c] = "flipping" => count = 0
  /\ Released => count = 0

OneReleaser ==
  /\ Releasers # {} => Arrived = Cta
  /\ \A c, d \in Releasers : c = d

SenseOfWaiters ==
  \A c \in Cta :
    /\ pc[c] = "arriving" => mySense[c] = sense
    /\ pc[c] = "spinning" => (mySense[c] = sense <=> ~Released)

OutcomeOfPlace ==
  \A c \in Cta :
    /\ outcome[c] = "none" <=> pc[c] \notin AfterBarrier
    /\ outcome[c] = "passed" => Released

IInv ==
  /\ TypeOK
  /\ CountsArrivals
  /\ OneReleaser
  /\ SenseOfWaiters
  /\ OutcomeOfPlace

(***************************************************************************)
(* Every launch finishes: each queued CTA gets to run its hooks and exits, *)
(* although the CTAs it waits for may not fit on the device with it.  The  *)
(* bound on the spin is what makes this true.                              *)
(***************************************************************************)
LaunchFinishes ==
  \A c \in Cta : pc[c] = "queued" ~> pc[c] = "exited"

(***************************************************************************)
(* GridBarrier implements LaunchBarrier.                                   *)
(***************************************************************************)
Barrier == INSTANCE LaunchBarrier WITH
  arrived   <- Arrived,
  passed    <- {c \in Cta : outcome[c] = "passed"},
  abandoned <- {c \in Cta : outcome[c] = "abandoned"}

ImplementsBarrier == Barrier!Spec
==============================================================================
