------------------------- MODULE GridBarrier_proofs -------------------------
(***************************************************************************)
(* The safety properties of GridBarrier for every grid, every device and   *)
(* every poll budget, and the step simulation into LaunchBarrier.          *)
(***************************************************************************)
EXTENDS GridBarrier, FiniteSetTheorems, TLAPS

(***************************************************************************)
(* The grid is finite and not empty, so its size is a positive number.     *)
(***************************************************************************)
LEMMA GridSize == NCta \in Nat \ {0}
<1>1. IsFiniteSet(Cta) /\ Cta # {}
  BY GridAssumption
<1>2. NCta \in Nat
  BY <1>1, FS_CardinalityType DEF NCta
<1>3. NCta # 0
  BY <1>1, FS_EmptySet DEF NCta
<1>. QED  BY <1>2, <1>3

(***************************************************************************)
(* Counting: a set of CTAs is finite and no larger than the grid, and as   *)
(* large only when it is the whole grid.                                   *)
(***************************************************************************)
LEMMA SubsetCount ==
  ASSUME NEW S \in SUBSET Cta
  PROVE  /\ IsFiniteSet(S)
         /\ Cardinality(S) \in 0..NCta
         /\ Cardinality(S) = NCta <=> S = Cta
<1>1. /\ IsFiniteSet(S)
      /\ Cardinality(S) <= NCta
      /\ NCta = Cardinality(S) => Cta = S
  BY GridAssumption, FS_Subset DEF NCta
<1>2. Cardinality(S) \in Nat
  BY <1>1, FS_CardinalityType
<1>. QED  BY <1>1, <1>2, GridSize DEF NCta

(***************************************************************************)
(* The arrival of one more CTA raises the number of arrivals by one, and   *)
(* it is the last one when it finds NCta-1 others.                         *)
(***************************************************************************)
LEMMA OneMoreArrival ==
  ASSUME NEW S \in SUBSET Cta, NEW c \in Cta \ S
  PROVE  /\ Cardinality(S \cup {c}) = Cardinality(S) + 1
         /\ S # Cta
         /\ Cardinality(S) = NCta - 1 <=> S \cup {c} = Cta
<1>1. Cardinality(S \cup {c}) = Cardinality(S) + 1
  BY SubsetCount, FS_AddElement
<1>2. S \cup {c} \in SUBSET Cta
  OBVIOUS
<1>3. Cardinality(S \cup {c}) = NCta <=> S \cup {c} = Cta
  BY <1>2, SubsetCount
<1>4. Cardinality(S) \in Nat
  BY SubsetCount
<1>. QED  BY <1>1, <1>3, <1>4, GridSize

(***************************************************************************)
(* The invariant holds initially.                                          *)
(***************************************************************************)
LEMMA InitInv == Init => IInv
<1> SUFFICES ASSUME Init PROVE IInv
  OBVIOUS
<1>1. TypeOK
  BY GridAssumption, GridSize
     DEF Init, TypeOK, Place, BeforeBarrier, AtBarrier, AfterBarrier
<1>2. Arrived = {} /\ Releasers = {}
  BY DEF Init, Arrived, Releasers, BeforeBarrier
<1>3. ~Released
  BY <1>2, GridAssumption DEF Released
<1>4. CountsArrivals
  BY <1>2, <1>3, FS_EmptySet DEF Init, CountsArrivals
<1>5. OneReleaser
  BY <1>2 DEF OneReleaser
<1>6. SenseOfWaiters /\ OutcomeOfPlace
  BY <1>3 DEF Init, SenseOfWaiters, OutcomeOfPlace, AfterBarrier
<1>. QED  BY <1>1, <1>4, <1>5, <1>6 DEF IInv

(***************************************************************************)
(* Every step keeps the types.                                             *)
(***************************************************************************)
LEMMA TypeStep == IInv /\ [Next]_vars => TypeOK'
<1> SUFFICES ASSUME IInv, [Next]_vars PROVE TypeOK'
  OBVIOUS
<1> USE DEF IInv, TypeOK, Place, BeforeBarrier, AtBarrier, AfterBarrier
<1>1. ASSUME NEW c \in Cta, Start(c) PROVE TypeOK'
  BY <1>1 DEF Start
<1>2. ASSUME NEW c \in Cta, ReadSense(c) PROVE TypeOK'
  BY <1>2 DEF ReadSense
<1>3. ASSUME NEW c \in Cta, Arrive(c) PROVE TypeOK'
  <2>1. c \notin Arrived /\ Arrived \in SUBSET Cta
    BY <1>3 DEF Arrive, Arrived
  <2>2. count = Cardinality(Arrived) /\ count < NCta
    BY <2>1, OneMoreArrival, SubsetCount, GridSize DEF CountsArrivals
  <2>3. count + 1 \in 0..NCta
    BY <2>2, GridSize
  <2>. QED  BY <1>3, <2>3, GridAssumption DEF Arrive
<1>4. ASSUME NEW c \in Cta, ResetCount(c) PROVE TypeOK'
  BY <1>4, GridSize DEF ResetCount, CountAfterRelease
<1>5. ASSUME NEW c \in Cta, FlipSense(c) PROVE TypeOK'
  BY <1>5 DEF FlipSense, NextSense
<1>6. ASSUME NEW c \in Cta, SeeRelease(c) PROVE TypeOK'
  BY <1>6 DEF SeeRelease
<1>7. ASSUME NEW c \in Cta, PollMiss(c) PROVE TypeOK'
  BY <1>7, GridAssumption DEF PollMiss
<1>8. ASSUME NEW c \in Cta, GiveUp(c) PROVE TypeOK'
  BY <1>8 DEF GiveUp
<1>9. ASSUME NEW c \in Cta, Exit(c) PROVE TypeOK'
  BY <1>9 DEF Exit
<1>10. CASE Relaunch
  BY <1>10, GridAssumption, GridSize DEF Relaunch
<1>11. CASE UNCHANGED vars
  BY <1>11 DEF vars
<1>. QED
  BY <1>1, <1>2, <1>3, <1>4, <1>5, <1>6, <1>7, <1>8, <1>9, <1>10, <1>11
     DEF Next, CtaStep

(***************************************************************************)
(* The four parts of the invariant that say something about behaviour.     *)
(***************************************************************************)
Parts == CountsArrivals /\ OneReleaser /\ SenseOfWaiters /\ OutcomeOfPlace

(***************************************************************************)
(* A step that moves one CTA without crossing the barrier, and touches     *)
(* neither barrier word, keeps the four parts as long as the moved CTA     *)
(* satisfies its own clauses afterwards.                                   *)
(***************************************************************************)
LEMMA QuietStep ==
  ASSUME IInv, NEW c \in Cta, NEW p \in Place,
         pc' = [pc EXCEPT ![c] = p],
         p \in BeforeBarrier <=> pc[c] \in BeforeBarrier,
         pc[c] \notin {"releasing", "flipping"},
         p \notin {"releasing", "flipping"},
         UNCHANGED <<count, sense>>,
         \A d \in Cta \ {c} : mySense'[d] = mySense[d] /\ outcome'[d] = outcome[d],
         p = "arriving" => mySense'[c] = sense,
         p = "spinning" => pc[c] = "spinning" /\ mySense'[c] = mySense[c],
         outcome'[c] = "none" <=> p \notin AfterBarrier,
         outcome'[c] = "passed" => Released
  PROVE  Parts'
<1> USE DEF IInv, TypeOK, Place, BeforeBarrier, AtBarrier, AfterBarrier
<1>1. /\ pc'[c] = p
      /\ \A d \in Cta \ {c} : pc'[d] = pc[d]
  OBVIOUS
<1>2. Arrived' = Arrived
  BY <1>1 DEF Arrived
<1>3. Releasers' = Releasers
  BY <1>1 DEF Releasers
<1>4. Released' <=> Released
  BY <1>2, <1>3 DEF Released
<1>5. CountsArrivals'
  BY <1>1, <1>2, <1>4 DEF CountsArrivals, NCta
<1>6. OneReleaser'
  BY <1>2, <1>3 DEF OneReleaser
<1>7. SenseOfWaiters'
  BY <1>1, <1>4 DEF SenseOfWaiters
<1>8. OutcomeOfPlace'
  BY <1>1, <1>4 DEF OutcomeOfPlace
<1>. QED  BY <1>5, <1>6, <1>7, <1>8 DEF Parts

(***************************************************************************)
(* Every step keeps the four parts.                                        *)
(***************************************************************************)
LEMMA PartsStep == IInv /\ [Next]_vars => Parts'
<1> SUFFICES ASSUME IInv, [Next]_vars PROVE Parts'
  OBVIOUS
<1> USE DEF IInv, TypeOK, Place, BeforeBarrier, AtBarrier, AfterBarrier
<1>1. ASSUME NEW c \in Cta, Start(c) PROVE Parts'
  <2>1. outcome[c] = "none"
    BY <1>1 DEF Start, OutcomeOfPlace
  <2>2. /\ pc[c] = "queued"
        /\ pc' = [pc EXCEPT ![c] = "calibrating"]
        /\ UNCHANGED <<count, sense, mySense, outcome>>
    BY <1>1 DEF Start
  <2>3. /\ pc[c] \in BeforeBarrier
        /\ "calibrating" \in Place \cap BeforeBarrier
        /\ "calibrating" \notin AfterBarrier
    BY <2>2
  <2>. HIDE DEF IInv, TypeOK, Place, BeforeBarrier, AtBarrier, AfterBarrier
  <2>. QED  BY <2>1, <2>2, <2>3, QuietStep
<1>2. ASSUME NEW c \in Cta, ReadSense(c) PROVE Parts'
  <2>1. outcome[c] = "none"
    BY <1>2 DEF ReadSense, OutcomeOfPlace
  <2>. QED  BY <1>2, <2>1, QuietStep DEF ReadSense
<1>3. ASSUME NEW c \in Cta, Arrive(c) PROVE Parts'
  <2> DEFINE p == IF IsLast THEN "releasing" ELSE "spinning"
  <2>1. /\ pc[c] = "arriving"
        /\ pc'[c] = p
        /\ \A d \in Cta \ {c} : pc'[d] = pc[d]
        /\ count' = count + 1
        /\ UNCHANGED <<sense, mySense, outcome>>
    BY <1>3 DEF Arrive
  <2>2. /\ Arrived \in SUBSET Cta
        /\ c \in Cta \ Arrived
        /\ Arrived' = Arrived \cup {c}
    BY <2>1 DEF Arrived
  <2>3. /\ count = Cardinality(Arrived)
        /\ Cardinality(Arrived') = count + 1
        /\ Arrived # Cta
        /\ IsLast <=> Arrived' = Cta
    BY <2>2, OneMoreArrival DEF CountsArrivals, IsLast
  <2>4. Releasers = {} /\ ~Released
    BY <2>3 DEF OneReleaser, Released
  <2>5. Releasers' = IF IsLast THEN {c} ELSE {}
    BY <2>1, <2>4 DEF Releasers
  <2>6. ~Released'
    BY <2>3, <2>5 DEF Released
  <2>7. CountsArrivals'
    <3>1. ASSUME NEW d \in Cta, pc'[d] = "releasing" PROVE count' = NCta'
      <4>1. IsLast
        BY <2>1, <2>4, <3>1 DEF Releasers
      <4>. QED  BY <2>1, <4>1, GridSize DEF IsLast, NCta
    <3>2. ASSUME NEW d \in Cta PROVE pc'[d] # "flipping"
      BY <2>1, <2>4 DEF Releasers
    <3>. QED  BY <2>1, <2>3, <2>6, <3>1, <3>2 DEF CountsArrivals
  <2>8. OneReleaser'
    BY <2>3, <2>5 DEF OneReleaser
  <2>9. SenseOfWaiters'
    BY <2>1, <2>4, <2>6 DEF SenseOfWaiters
  <2>10. OutcomeOfPlace'
    BY <2>1, <2>4, <2>6 DEF OutcomeOfPlace
  <2>. QED  BY <2>7, <2>8, <2>9, <2>10 DEF Parts
<1>4. ASSUME NEW c \in Cta, ResetCount(c) PROVE Parts'
  <2>1. /\ pc[c] = "releasing"
        /\ pc'[c] = "flipping"
        /\ \A d \in Cta \ {c} : pc'[d] = pc[d]
        /\ count' = 0
        /\ UNCHANGED <<sense, mySense, outcome>>
    BY <1>4 DEF ResetCount, CountAfterRelease
  <2>2. Arrived' = Arrived /\ Releasers' = Releasers /\ c \in Releasers
    BY <2>1 DEF Arrived, Releasers
  <2>3. Arrived = Cta /\ ~Released /\ ~Released'
    BY <2>2 DEF OneReleaser, Released
  <2>4. \A d \in Cta \ {c} : pc[d] \notin {"releasing", "flipping"}
    BY <2>2 DEF OneReleaser, Releasers
  <2>5. CountsArrivals'
    BY <2>1, <2>2, <2>3, <2>4 DEF CountsArrivals
  <2>6. OneReleaser'
    BY <2>2 DEF OneReleaser
  <2>7. SenseOfWaiters'
    BY <2>1, <2>3 DEF SenseOfWaiters
  <2>8. OutcomeOfPlace'
    BY <2>1, <2>3 DEF OutcomeOfPlace
  <2>. QED  BY <2>5, <2>6, <2>7, <2>8 DEF Parts
<1>5. ASSUME NEW c \in Cta, FlipSense(c) PROVE Parts'
  <2>1. /\ pc[c] = "flipping"
        /\ pc'[c] = "hooks"
        /\ \A d \in Cta \ {c} : pc'[d] = pc[d] /\ outcome'[d] = outcome[d]
        /\ sense' = sense + 1
        /\ outcome'[c] = "passed"
        /\ UNCHANGED <<count, mySense>>
    BY <1>5 DEF FlipSense, NextSense
  <2>2. Arrived' = Arrived /\ c \in Releasers
    BY <2>1 DEF Arrived, Releasers
  <2>3. Arrived = Cta /\ ~Released /\ count = 0
    BY <2>1, <2>2 DEF OneReleaser, Released, CountsArrivals
  <2>4. Releasers' = {}
    BY <2>1, <2>2 DEF OneReleaser, Releasers
  <2>5. Released'
    BY <2>2, <2>3, <2>4 DEF Released
  <2>6. CountsArrivals'
    BY <2>1, <2>2, <2>3, <2>4 DEF CountsArrivals, Releasers
  <2>7. OneReleaser'
    BY <2>4 DEF OneReleaser
  <2>8. SenseOfWaiters'
    <3>1. \A d \in Cta : pc'[d] # "arriving"
      BY <2>2, <2>3 DEF Arrived
    <3>2. \A d \in Cta : pc'[d] = "spinning" => mySense'[d] # sense'
      BY <2>1, <2>3 DEF SenseOfWaiters
    <3>. QED  BY <2>5, <3>1, <3>2 DEF SenseOfWaiters
  <2>9. OutcomeOfPlace'
    BY <2>1, <2>5 DEF OutcomeOfPlace
  <2>. QED  BY <2>6, <2>7, <2>8, <2>9 DEF Parts
<1>6. ASSUME NEW c \in Cta, SeeRelease(c) PROVE Parts'
  <2>1. Released
    BY <1>6 DEF SeeRelease, SenseOfWaiters
  <2>. QED  BY <1>6, <2>1, QuietStep DEF SeeRelease
<1>7. ASSUME NEW c \in Cta, PollMiss(c) PROVE Parts'
  <2>1. UNCHANGED <<count, sense, pc, mySense, outcome>>
    BY <1>7 DEF PollMiss
  <2>. QED
    BY <2>1 DEF Parts, CountsArrivals, OneReleaser, SenseOfWaiters,
                OutcomeOfPlace, Released, Arrived, Releasers, NCta
<1>8. ASSUME NEW c \in Cta, GiveUp(c) PROVE Parts'
  BY <1>8, QuietStep DEF GiveUp
<1>9. ASSUME NEW c \in Cta, Exit(c) PROVE Parts'
  <2>1. /\ outcome[c] # "none"
        /\ outcome[c] = "passed" => Released
    BY <1>9 DEF Exit, OutcomeOfPlace
  <2>2. /\ pc[c] = "hooks"
        /\ pc' = [pc EXCEPT ![c] = "exited"]
        /\ UNCHANGED <<count, sense, mySense, outcome>>
    BY <1>9 DEF Exit
  <2>3. /\ pc[c] \notin BeforeBarrier
        /\ "exited" \in Place \cap AfterBarrier
        /\ "exited" \notin BeforeBarrier
    BY <2>2
  <2>. HIDE DEF IInv, TypeOK, Place, BeforeBarrier, AtBarrier, AfterBarrier
  <2>. QED  BY <2>1, <2>2, <2>3, QuietStep
<1>10. CASE Relaunch
  <2>1. /\ \A c \in Cta : pc[c] = "exited"
        /\ pc' = [c \in Cta |-> "queued"]
        /\ outcome' = [c \in Cta |-> "none"]
        /\ count' \in {0, count}
    BY <1>10 DEF Relaunch
  <2>2. Arrived = Cta /\ Releasers = {}
    BY <2>1 DEF Arrived, Releasers
  <2>3. count' = 0
    BY <2>1, <2>2 DEF CountsArrivals, Released
  <2>4. Arrived' = {} /\ Releasers' = {}
    BY <2>1 DEF Arrived, Releasers
  <2>5. ~Released'
    BY <2>4, GridAssumption DEF Released
  <2>. QED
    BY <2>1, <2>3, <2>4, <2>5, FS_EmptySet
       DEF Parts, CountsArrivals, OneReleaser, SenseOfWaiters, OutcomeOfPlace
<1>11. CASE UNCHANGED vars
  BY <1>11 DEF vars, Parts, CountsArrivals, OneReleaser, SenseOfWaiters,
               OutcomeOfPlace, Released, Arrived, Releasers, NCta
<1>. QED
  BY <1>1, <1>2, <1>3, <1>4, <1>5, <1>6, <1>7, <1>8, <1>9, <1>10, <1>11
     DEF Next, CtaStep

(***************************************************************************)
(* The inductive invariant: the barrier word counts the arrivals, one CTA  *)
(* releases, and a waiting CTA's sense is old exactly when it did.         *)
(***************************************************************************)
THEOREM Inductive == Spec => []IInv
<1>1. IInv /\ [Next]_vars => IInv'
  BY TypeStep, PartsStep DEF IInv, Parts
<1>. QED  BY InitInv, <1>1, PTL DEF Spec

(***************************************************************************)
(* Type correctness.                                                       *)
(***************************************************************************)
THEOREM TypeCorrect == Spec => []TypeOK
<1>1. IInv => TypeOK
  BY DEF IInv
<1>. QED  BY Inductive, <1>1, PTL

(***************************************************************************)
(* A CTA that passed the barrier runs its hooks after every CTA arrived.   *)
(***************************************************************************)
THEOREM PassedAfterAllHolds == Spec => []PassedAfterAll
<1>1. IInv => PassedAfterAll
  BY DEF IInv, OutcomeOfPlace, Released, PassedAfterAll
<1>. QED  BY Inductive, <1>1, PTL

(***************************************************************************)
(* No CTA misses the release: an open barrier shows every spinner a sense  *)
(* other than its own.                                                     *)
(***************************************************************************)
THEOREM NoLostWakeupHolds == Spec => []NoLostWakeup
<1>1. IInv => NoLostWakeup
  BY DEF IInv, SenseOfWaiters, NoLostWakeup
<1>. QED  BY Inductive, <1>1, PTL

(***************************************************************************)
(* A finished launch leaves the barrier word at zero.                      *)
(***************************************************************************)
THEOREM CleanAfterLaunchHolds == Spec => []CleanAfterLaunch
<1>1. ASSUME IInv, \A c \in Cta : pc[c] = "exited" PROVE count = 0
  <2>1. Arrived = Cta /\ Releasers = {}
    BY <1>1 DEF Arrived, Releasers, BeforeBarrier
  <2>. QED  BY <1>1, <2>1 DEF IInv, CountsArrivals, Released
<1>2. IInv => CleanAfterLaunch
  BY <1>1 DEF CleanAfterLaunch
<1>. QED  BY Inductive, <1>2, PTL

(***************************************************************************)
(* GridBarrier refines LaunchBarrier: its initial states and its steps map *)
(* to those of the abstract barrier, or to stuttering steps.               *)
(***************************************************************************)
THEOREM Refinement == Spec => ImplementsBarrier
<1> USE DEF Barrier!Init, Barrier!Next, Barrier!Arrive, Barrier!Pass,
            Barrier!Abandon, Barrier!Relaunch, Barrier!Left, Barrier!vars
<1> DEFINE Passed == {c \in Cta : outcome[c] = "passed"}
           Abandoned == {c \in Cta : outcome[c] = "abandoned"}
<1>1. Init => Barrier!Init
  BY DEF Init, Arrived, BeforeBarrier
<1>2. IInv /\ [Next]_vars => [Barrier!Next]_(Barrier!vars)
  <2> SUFFICES ASSUME IInv, [Next]_vars
               PROVE  [Barrier!Next]_(Barrier!vars)
    OBVIOUS
  <2> USE DEF IInv, TypeOK, Place, BeforeBarrier, AtBarrier, AfterBarrier
  <2>1. ASSUME NEW c \in Cta,
               \/ Start(c) \/ ReadSense(c) \/ ResetCount(c)
               \/ PollMiss(c) \/ Exit(c)
        PROVE  UNCHANGED Barrier!vars
    <3>1. Arrived' = Arrived /\ outcome' = outcome
      BY <2>1 DEF Start, ReadSense, ResetCount, PollMiss, Exit, Arrived
    <3>. QED  BY <3>1
  <2>2. ASSUME NEW c \in Cta, Arrive(c) PROVE Barrier!Arrive(c)
    <3>1. c \notin Arrived /\ Arrived' = Arrived \cup {c} /\ outcome' = outcome
      BY <2>2 DEF Arrive, Arrived
    <3>. QED  BY <3>1
  <2>3. ASSUME NEW c \in Cta, FlipSense(c) \/ SeeRelease(c) PROVE Barrier!Pass(c)
    <3>1. Arrived = Cta
      BY <2>3 DEF FlipSense, SeeRelease, OneReleaser, Releasers,
                  SenseOfWaiters, Released
    <3>2. outcome[c] = "none"
      BY <2>3 DEF FlipSense, SeeRelease, OutcomeOfPlace
    <3>3. Arrived' = Arrived /\ outcome' = [outcome EXCEPT ![c] = "passed"]
      BY <2>3 DEF FlipSense, SeeRelease, Arrived
    <3>4. Passed' = Passed \cup {c} /\ Abandoned' = Abandoned
      BY <3>2, <3>3
    <3>. QED  BY <3>1, <3>2, <3>3, <3>4
  <2>4. ASSUME NEW c \in Cta, GiveUp(c) PROVE Barrier!Abandon(c)
    <3>1. c \in Arrived /\ outcome[c] = "none"
      BY <2>4 DEF GiveUp, Arrived, OutcomeOfPlace
    <3>2. Arrived' = Arrived /\ outcome' = [outcome EXCEPT ![c] = "abandoned"]
      BY <2>4 DEF GiveUp, Arrived
    <3>3. Abandoned' = Abandoned \cup {c} /\ Passed' = Passed
      BY <3>1, <3>2
    <3>. QED  BY <3>1, <3>2, <3>3
  <2>5. ASSUME Relaunch PROVE Barrier!Relaunch
    <3>1. \A c \in Cta : outcome[c] \in {"passed", "abandoned"}
      BY <2>5 DEF Relaunch, OutcomeOfPlace
    <3>2. Arrived' = {} /\ Passed' = {} /\ Abandoned' = {}
      BY <2>5 DEF Relaunch, Arrived
    <3>. QED  BY <3>1, <3>2
  <2>6. ASSUME UNCHANGED vars PROVE UNCHANGED Barrier!vars
    BY <2>6 DEF vars, Arrived
  <2>. QED
    BY <2>1, <2>2, <2>3, <2>4, <2>5, <2>6 DEF Next, CtaStep
<1>. QED
  BY Inductive, <1>1, <1>2, PTL DEF Spec, ImplementsBarrier, Barrier!Spec
=============================================================================
