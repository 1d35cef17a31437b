------------------------ MODULE HandleExchange_proofs ------------------------
(***************************************************************************)
(* The safety of the handle exchange of latency.c, for any number of       *)
(* ranks, kinds of buffers, naps and attempts, with either exchange and    *)
(* with a directory that an earlier run may have used.                     *)
(*                                                                         *)
(* The argument for files: a rank reads only after it has published, so of *)
(* two ranks that get through, the one that published last has read the    *)
(* current files of the other.  For MPI: who leaves the n-th Allgather     *)
(* knows that all have entered it, so two ranks that have left their last  *)
(* one have called it equally often.                                       *)
(***************************************************************************)
EXTENDS HandleExchange, TLAPS

NumKinds == Len(Kinds)

(***************************************************************************)
(* Where a rank can be, with what it has chosen.                           *)
(***************************************************************************)
PlaceOK(r) ==
  /\ exchange[r] = "undecided" => pc[r] = "idle" /\ attempt[r] = None
  /\ pc[r] \in {"publish", "read"} => exchange[r] = "files"
  /\ pc[r] = "publish" => peer[r] = 1
  /\ pc[r] \in {"gather", "gathering"} => exchange[r] = "mpi"
  /\ pc[r] # "idle" => attempt[r] # None
  /\ gathered[r] # <<>> => exchange[r] = "mpi"
  /\ r \notin failed => attempt[r] \in 0..1 /\ (pc[r] = "idle" => attempt[r] = None)

(***************************************************************************)
(* Files: r has published; it has read the file of q's buffer of kind k.   *)
(***************************************************************************)
InFiles(r) == exchange[r] = "files" /\ pc[r] \in {"read", "import", "prepared"}

Got(r, k, q) ==
  pc[r] = "read" => q < peer[r] \/ (q = peer[r] /\ k < kind[r])

PublishedOK(r) ==
  \A k \in Kind :
    InFiles(r) \/ (pc[r] = "publish" /\ k < kind[r]) => file[k][r] = attempt[r]

HasCurrent(r, q) == \A k \in Kind : Got(r, k, q) => view[r][k][q] = attempt[q]

PairOK(r, q) == InFiles(r) /\ InFiles(q) => HasCurrent(r, q) \/ HasCurrent(q, r)

IsOf(q, buffer) == exchange[q] = "files" /\ buffer \in 1..attempt[q]

FreshOK(r, q) ==
  directory = "fresh" =>
    \A k \in Kind : /\ file[k][q] # None => IsOf(q, file[k][q])
                    /\ InFiles(r) /\ Got(r, k, q) => IsOf(q, view[r][k][q])

(***************************************************************************)
(* MPI: the calls of MPI_Allgather that the attempt of r has entered, and  *)
(* has left, after those of its earlier attempts.                          *)
(***************************************************************************)
Entered(r) ==
  IF pc[r] = "gather" THEN kind[r] - 1 ELSE IF pc[r] = "gathering" THEN kind[r] ELSE NumKinds
Left(r) == IF pc[r] \in {"gather", "gathering"} THEN kind[r] - 1 ELSE NumKinds
Before(r) == Len(gathered[r]) - Entered(r)

GatherOK(r) ==
  exchange[r] = "mpi" /\ pc[r] # "idle" =>
    /\ Before(r) >= 0
    /\ \A i \in 1..Entered(r) : gathered[r][Before(r) + i] = attempt[r]
    /\ \A k \in 1..Left(r) : \A q \in Rank :
         Before(r) + k <= Len(gathered[q]) /\ view[r][k][q] = gathered[q][Before(r) + k]

\* The inductive invariant.
IInv ==
  /\ TypeOK
  /\ \A r \in Rank : PlaceOK(r) /\ PublishedOK(r) /\ GatherOK(r)
  /\ \A r, q \in Rank : PairOK(r, q) /\ FreshOK(r, q)

------------------------------------------------------------------------------
LEMMA KindFacts == NumKinds \in Nat /\ NumKinds >= 1 /\ NumKinds = Len(Kinds) /\ Kind = 1..NumKinds
BY ExchangeAssumption DEF NumKinds, Kind

LEMMA InitInv == Init => IInv
<1> SUFFICES ASSUME Init PROVE IInv
  OBVIOUS
<1>1. 1 \in Rank /\ 1 \in Kind /\ MaxAttempts \in Nat
  BY ExchangeAssumption, KindFacts DEF Rank
<1>2. TypeOK
  BY <1>1, ExchangeAssumption DEF Init, TypeOK, Place, None, Earlier, Attempt
<1>3. ASSUME NEW r \in Rank PROVE PlaceOK(r) /\ PublishedOK(r) /\ GatherOK(r)
  BY <1>1 DEF Init, PlaceOK, PublishedOK, GatherOK, InFiles, None
<1>4. ASSUME NEW r \in Rank, NEW q \in Rank PROVE PairOK(r, q) /\ FreshOK(r, q)
  BY DEF Init, PairOK, FreshOK, InFiles, None
<1>. QED  BY <1>2, <1>3, <1>4 DEF IInv

(***************************************************************************)
(* A step of rank s that changes only s's own entries, and no file,        *)
(* contribution or exchange, keeps what is known of the other ranks.       *)
(***************************************************************************)
LEMMA LocalStep ==
  ASSUME IInv, NEW s \in Rank, UNCHANGED <<directory, exchange, file, gathered, attempt>>,
         failed \subseteq failed', TypeOK',
         \A r \in Rank \ {s} : UNCHANGED <<pc[r], peer[r], kind[r], view[r]>>,
         s \in failed \/ pc'[s] # "idle" \/ s \in failed',
         PlaceOK(s)', PublishedOK(s)', GatherOK(s)',
         InFiles(s)' => /\ InFiles(s)
                        /\ \A q \in Rank, k \in Kind :
                             Got(s, k, q)' => \/ Got(s, k, q) /\ view'[s][k][q] = view[s][k][q]
                                              \/ file[k][q] # None /\ view'[s][k][q] = file[k][q]
  PROVE  IInv'
<1>1. ASSUME NEW r \in Rank PROVE PlaceOK(r)' /\ PublishedOK(r)' /\ GatherOK(r)'
  <2>1. CASE r = s
    BY <2>1
  <2>2. CASE r # s
    <3>1. PlaceOK(r) /\ PublishedOK(r) /\ GatherOK(r)
      BY DEF IInv
    <3>2. UNCHANGED <<pc[r], peer[r], kind[r], view[r]>>
      BY <2>2
    <3>3. PlaceOK(r)'
      BY <3>1, <3>2 DEF PlaceOK
    <3>4. PublishedOK(r)'
      BY <3>1, <3>2 DEF PublishedOK, InFiles
    <3>5. GatherOK(r)'
      BY <3>1, <3>2 DEF GatherOK, Before, Entered, Left
    <3>. QED  BY <3>3, <3>4, <3>5
  <2>. QED  BY <2>1, <2>2
<1>2. ASSUME NEW r \in Rank PROVE InFiles(r)' => InFiles(r)
  BY DEF InFiles
<1>3. ASSUME NEW r \in Rank, NEW q \in Rank, InFiles(r)', NEW k \in Kind, Got(r, k, q)'
      PROVE  \/ Got(r, k, q) /\ view'[r][k][q] = view[r][k][q]
             \/ file[k][q] # None /\ view'[r][k][q] = file[k][q]
  BY <1>3 DEF Got
<1>4. ASSUME NEW r \in Rank, NEW q \in Rank PROVE PairOK(r, q)'
  <2> SUFFICES ASSUME InFiles(r)', InFiles(q)' PROVE HasCurrent(r, q)' \/ HasCurrent(q, r)'
    BY DEF PairOK
  <2>1. InFiles(r) /\ InFiles(q)
    BY <1>2
  <2>2. \A k \in Kind : file[k][r] = attempt[r] /\ file[k][q] = attempt[q]
    BY <2>1 DEF IInv, PublishedOK
  <2>3. HasCurrent(r, q) => HasCurrent(r, q)'
    BY <1>3, <2>2 DEF HasCurrent
  <2>4. HasCurrent(q, r) => HasCurrent(q, r)'
    BY <1>3, <2>2 DEF HasCurrent
  <2>. QED  BY <2>1, <2>3, <2>4 DEF IInv, PairOK
<1>5. ASSUME NEW r \in Rank, NEW q \in Rank PROVE FreshOK(r, q)'
  BY <1>2, <1>3 DEF IInv, FreshOK, IsOf
<1>. QED  BY <1>1, <1>4, <1>5 DEF IInv

(***************************************************************************)
(* A failing attempt.                                                      *)
(***************************************************************************)
LEMMA FailStep ==
  ASSUME IInv, NEW s \in Rank, Fail(s), pc[s] # "idle",
         UNCHANGED <<directory, exchange, attempt, peer, kind, sleeps, file, gathered, view>>
  PROVE  IInv'
<1>1. pc' = [pc EXCEPT ![s] = "idle"] /\ failed' = failed \cup {s} /\ pc \in [Rank -> Place]
  BY DEF Fail, IInv, TypeOK
<1>2. TypeOK'
  BY <1>1 DEF IInv, TypeOK, Place
<1>3. pc'[s] = "idle" /\ s \in failed' /\ \A r \in Rank \ {s} : pc'[r] = pc[r]
  BY <1>1
<1>4. PlaceOK(s)' /\ PublishedOK(s)' /\ GatherOK(s)' /\ ~InFiles(s)'
  BY <1>3 DEF IInv, PlaceOK, PublishedOK, GatherOK, InFiles
<1>. QED  BY <1>1, <1>2, <1>3, <1>4, LocalStep

LEMMA SleepStep ==
  ASSUME IInv, NEW s \in Rank, Sleep(s), UNCHANGED <<directory, exchange>>
  PROVE  IInv'
<1>1. /\ pc[s] = "read" /\ peer' = [peer EXCEPT ![s] = 1] /\ kind' = [kind EXCEPT ![s] = 1]
      /\ pc' = pc /\ view' = view /\ file' = file /\ gathered' = gathered /\ attempt' = attempt
      /\ failed' = failed /\ sleeps' = [sleeps EXCEPT ![s] = @ + 1] /\ sleeps[s] < MaxSleeps
      /\ peer \in [Rank -> Rank] /\ kind \in [Rank -> Kind] /\ sleeps \in [Rank -> 0..MaxSleeps]
  BY DEF Sleep, IInv, TypeOK
<1>2. 1 \in Rank /\ 1 \in Kind /\ MaxSleeps \in Nat
  BY ExchangeAssumption, KindFacts DEF Rank
<1>3. TypeOK'
  <2>1. sleeps' \in [Rank -> 0..MaxSleeps]
    BY <1>1, <1>2
  <2>2. peer' \in [Rank -> Rank] /\ kind' \in [Rank -> Kind]
    BY <1>1, <1>2
  <2>. QED  BY <1>1, <2>1, <2>2 DEF IInv, TypeOK
<1>4. PlaceOK(s)' /\ PublishedOK(s)' /\ GatherOK(s)' /\ InFiles(s)
  BY <1>1 DEF IInv, PlaceOK, PublishedOK, GatherOK, InFiles
<1>5. ASSUME NEW q \in Rank, NEW k \in Kind PROVE ~Got(s, k, q)'
  BY <1>1, KindFacts, ExchangeAssumption DEF Got, Rank
<1>6. \A r \in Rank \ {s} : peer'[r] = peer[r] /\ kind'[r] = kind[r]
  BY <1>1
<1>. QED  BY <1>1, <1>3, <1>4, <1>5, <1>6, LocalStep

LEMMA ReadFileStep ==
  ASSUME IInv, NEW s \in Rank, ReadFile(s), UNCHANGED <<directory, exchange>>
  PROVE  IInv'
<1> DEFINE k0 == kind[s]
           q0 == peer[s]
<1>1. /\ pc[s] = "read" /\ file[k0][q0] # None /\ NextFile(s)
      /\ view' = [view EXCEPT ![s][k0][q0] = file[k0][q0]]
      /\ file' = file /\ gathered' = gathered /\ attempt' = attempt /\ failed' = failed
      /\ sleeps' = sleeps /\ k0 \in Kind /\ q0 \in Rank
  BY DEF ReadFile, Wanted, IInv, TypeOK
<1>2. /\ peer \in [Rank -> Rank] /\ kind \in [Rank -> Kind] /\ pc \in [Rank -> Place]
      /\ view \in [Rank -> [Kind -> [Rank -> 0..Earlier]]]
      /\ file \in [Kind -> [Rank -> 0..Earlier]] /\ Ranks \in Nat /\ Ranks >= 1
  BY ExchangeAssumption DEF IInv, TypeOK
<1>10. q0 \in 1..Ranks /\ k0 \in 1..NumKinds /\ Ranks \in Nat /\ NumKinds \in Nat
  BY <1>1, KindFacts, ExchangeAssumption DEF Rank
<1>3. /\ view' \in [Rank -> [Kind -> [Rank -> 0..Earlier]]]
      /\ \A r \in Rank \ {s} : view'[r] = view[r]
      /\ view'[s][k0][q0] = file[k0][q0]
      /\ \A k \in Kind, q \in Rank : k # k0 \/ q # q0 => view'[s][k][q] = view[s][k][q]
  BY <1>1, <1>2
<1>4. /\ peer' \in [Rank -> Rank] /\ kind' \in [Rank -> Kind] /\ pc' \in [Rank -> Place]
      /\ \A r \in Rank \ {s} : peer'[r] = peer[r] /\ kind'[r] = kind[r] /\ pc'[r] = pc[r]
      /\ \/ /\ k0 < NumKinds /\ pc'[s] = "read" /\ peer'[s] = q0 /\ kind'[s] = k0 + 1
         \/ /\ k0 = NumKinds /\ pc'[s] = "read" /\ peer'[s] = q0 + 1 /\ kind'[s] = 1
         \/ /\ k0 = NumKinds /\ q0 = Ranks /\ pc'[s] = "import"
  <2>1. CASE k0 < NumKinds
    <3>1. kind' = [kind EXCEPT ![s] = k0 + 1] /\ peer' = peer /\ pc' = pc /\ k0 + 1 \in Kind
      BY <1>1, <2>1, KindFacts DEF NextFile, MoreKinds
    <3>. QED  BY <1>1, <1>2, <2>1, <3>1
  <2>2. CASE ~(k0 < NumKinds) /\ q0 < Ranks
    <3>1. kind' = [kind EXCEPT ![s] = 1] /\ peer' = [peer EXCEPT ![s] = q0 + 1] /\ pc' = pc
      BY <1>1, <2>2, KindFacts DEF NextFile, MoreKinds
    <3>2. 1 \in Kind /\ q0 + 1 \in Rank /\ k0 = NumKinds
      BY <1>10, <2>2, KindFacts DEF Rank
    <3>. QED  BY <1>1, <1>2, <3>1, <3>2
  <2>3. CASE ~(k0 < NumKinds) /\ ~(q0 < Ranks)
    <3>1. kind' = [kind EXCEPT ![s] = 1] /\ peer' = peer /\ pc' = [pc EXCEPT ![s] = "import"]
      BY <1>1, <2>3, KindFacts DEF NextFile, MoreKinds
    <3>2. 1 \in Kind /\ q0 = Ranks /\ k0 = NumKinds
      BY <1>10, <2>3, KindFacts DEF Rank
    <3>. QED  BY <1>1, <1>2, <3>1, <3>2 DEF Place
  <2>. QED  BY <2>1, <2>2, <2>3
<1>5. TypeOK'
  BY <1>1, <1>3, <1>4 DEF IInv, TypeOK
<1>6. InFiles(s) /\ exchange[s] = "files"
  BY <1>1 DEF IInv, PlaceOK, InFiles
<1>7. PlaceOK(s)' /\ PublishedOK(s)' /\ GatherOK(s)'
  BY <1>1, <1>4, <1>6 DEF IInv, PlaceOK, PublishedOK, GatherOK, InFiles
<1>8. ASSUME NEW q \in Rank, NEW k \in Kind, Got(s, k, q)', k # k0 \/ q # q0
      PROVE  Got(s, k, q)
  <2>1. q \in 1..Ranks /\ k \in 1..NumKinds
    BY KindFacts DEF Rank
  <2>2. pc'[s] = "read" => q < peer'[s] \/ (q = peer'[s] /\ k < kind'[s])
    BY <1>8 DEF Got
  <2>3. q < q0 \/ (q = q0 /\ k < k0)
    BY <1>4, <1>8, <1>10, <2>1, <2>2
  <2>. QED  BY <2>3 DEF Got
<1>9. \A q \in Rank, k \in Kind :
        Got(s, k, q)' => \/ Got(s, k, q) /\ view'[s][k][q] = view[s][k][q]
                         \/ file[k][q] # None /\ view'[s][k][q] = file[k][q]
  BY <1>1, <1>3, <1>8
<1>. QED  BY <1>1, <1>3, <1>4, <1>5, <1>6, <1>7, <1>9, LocalStep

LEMMA ImportStep ==
  ASSUME IInv, NEW s \in Rank, Import(s), UNCHANGED <<directory, exchange>>
  PROVE  IInv'
<1>1. /\ pc[s] = "import" /\ pc' = [pc EXCEPT ![s] = "prepared"] /\ pc \in [Rank -> Place]
      /\ peer' = peer /\ kind' = kind /\ view' = view /\ sleeps' = sleeps /\ file' = file
      /\ gathered' = gathered /\ attempt' = attempt /\ failed' = failed
  BY DEF Import, IInv, TypeOK
<1>2. TypeOK'
  BY <1>1 DEF IInv, TypeOK, Place
<1>3. pc'[s] = "prepared" /\ \A r \in Rank \ {s} : pc'[r] = pc[r]
  BY <1>1
<1>4. PlaceOK(s)' /\ PublishedOK(s)'
  BY <1>1, <1>3 DEF IInv, PlaceOK, PublishedOK, InFiles
<1>5. GatherOK(s)'
  BY <1>1, <1>3 DEF IInv, GatherOK, Before, Entered, Left
<1>6. InFiles(s)' => InFiles(s)
  BY <1>1 DEF InFiles
<1>7. \A q \in Rank, k \in Kind : Got(s, k, q)
  BY <1>1 DEF Got
<1>. QED  BY <1>1, <1>2, <1>3, <1>4, <1>5, <1>6, <1>7, LocalStep

(***************************************************************************)
(* The steps that change what others can see.                              *)
(***************************************************************************)
LEMMA DecideFailsStep ==
  ASSUME IInv, NEW s \in Rank, DecideFails(s), UNCHANGED directory
  PROVE  IInv'
<1>1. failed' = failed \cup {s}
      /\ UNCHANGED <<directory, exchange, attempt, pc, peer, kind, sleeps, file, gathered, view>>
  BY DEF DecideFails
<1>2. TypeOK'
  BY <1>1 DEF IInv, TypeOK
<1>3. PlaceOK(s)' /\ PublishedOK(s)' /\ GatherOK(s)'
  BY <1>1 DEF IInv, PlaceOK, PublishedOK, GatherOK, InFiles, Before, Entered, Left
<1>4. InFiles(s)' => InFiles(s)
  BY <1>1 DEF InFiles
<1>5. \A q \in Rank, k \in Kind : Got(s, k, q)' => Got(s, k, q)
  BY <1>1 DEF Got
<1>. QED  BY <1>1, <1>2, <1>3, <1>4, <1>5, LocalStep

LEMMA BeginStep ==
  ASSUME IInv, NEW s \in Rank, Begin(s), UNCHANGED directory
  PROVE  IInv'
<1>1. /\ pc[s] = "idle" /\ attempt[s] < MaxAttempts
      /\ attempt' = [attempt EXCEPT ![s] = @ + 1]
      /\ pc' = [pc EXCEPT ![s] = FirstStep(s)]
      /\ peer' = [peer EXCEPT ![s] = 1] /\ kind' = [kind EXCEPT ![s] = 1]
      /\ sleeps' = [sleeps EXCEPT ![s] = 0]
      /\ file' = file /\ gathered' = gathered /\ view' = view /\ failed' = failed
      /\ directory' = directory
  BY DEF Begin
<1>2. PICK e \in Exchanges : exchange[s] \in {"undecided", e} /\ exchange' = [exchange EXCEPT ![s] = e]
  BY DEF Begin, Decide
<1>3. /\ attempt \in [Rank -> 0..MaxAttempts] /\ pc \in [Rank -> Place] /\ peer \in [Rank -> Rank]
      /\ kind \in [Rank -> Kind] /\ sleeps \in [Rank -> 0..MaxSleeps]
      /\ exchange \in [Rank -> Exchanges \cup {"undecided"}] /\ e \in {"mpi", "files"}
      /\ MaxAttempts \in Nat /\ MaxSleeps \in Nat /\ 1 \in Rank /\ 1 \in Kind
  <2>1. 1 \in Rank /\ 1 \in Kind /\ MaxAttempts \in Nat /\ MaxSleeps \in Nat
    BY ExchangeAssumption, KindFacts DEF Rank
  <2>2. e \in {"mpi", "files"}
    BY ExchangeAssumption
  <2>. QED  BY <2>1, <2>2 DEF IInv, TypeOK
<1>4. /\ exchange'[s] = e /\ attempt'[s] = attempt[s] + 1 /\ kind'[s] = 1 /\ peer'[s] = 1
      /\ pc'[s] = IF e = "files" THEN "publish" ELSE "gather"
  BY <1>1, <1>2, <1>3 DEF FirstStep
<1>5. \A r \in Rank \ {s} : UNCHANGED <<exchange[r], attempt[r], pc[r], peer[r], kind[r]>>
  BY <1>1, <1>2, <1>3
<1>6. TypeOK'
  <2>1. attempt' \in [Rank -> 0..MaxAttempts]
    BY <1>1, <1>3
  <2>2. pc' \in [Rank -> Place]
    BY <1>1, <1>3, <1>4 DEF Place, FirstStep
  <2>3. exchange' \in [Rank -> Exchanges \cup {"undecided"}]
    BY <1>2, <1>3
  <2>4. peer' \in [Rank -> Rank] /\ kind' \in [Rank -> Kind] /\ sleeps' \in [Rank -> 0..MaxSleeps]
    BY <1>1, <1>3
  <2>. QED  BY <1>1, <2>1, <2>2, <2>3, <2>4 DEF IInv, TypeOK
<1>7. ~InFiles(s)' /\ \A r \in Rank : InFiles(r)' => r # s /\ InFiles(r)
  BY <1>4, <1>5 DEF InFiles
<1>8. ASSUME NEW r \in Rank PROVE PlaceOK(r)' /\ PublishedOK(r)' /\ GatherOK(r)'
  <2>1. CASE r = s
    <3>1. PlaceOK(s)'
      BY <1>1, <1>2, <1>3, <1>4 DEF IInv, PlaceOK, None
    <3>2. PublishedOK(s)'
      BY <1>4, <1>7, KindFacts DEF PublishedOK
    <3>3. GatherOK(s)'
      <4>1. ASSUME pc'[s] = "gather"
            PROVE  Entered(s)' = 0 /\ Left(s)' = 0 /\ Before(s)' \in Nat
        BY <1>1, <1>4, <4>1 DEF Entered, Left, Before, IInv, TypeOK
      <4>. QED  BY <1>4, <4>1 DEF GatherOK
    <3>. QED  BY <2>1, <3>1, <3>2, <3>3
  <2>2. CASE r # s
    <3>1. UNCHANGED <<exchange[r], attempt[r], pc[r], peer[r], kind[r]>>
      BY <1>5, <2>2
    <3>2. PlaceOK(r) /\ PublishedOK(r) /\ GatherOK(r)
      BY DEF IInv
    <3>3. PlaceOK(r)' /\ PublishedOK(r)'
      BY <1>1, <3>1, <3>2 DEF PlaceOK, PublishedOK, InFiles
    <3>4. GatherOK(r)'
      BY <1>1, <3>1, <3>2 DEF GatherOK, Before, Entered, Left
    <3>. QED  BY <3>3, <3>4
  <2>. QED  BY <2>1, <2>2
<1>9. ASSUME NEW r \in Rank, NEW q \in Rank PROVE PairOK(r, q)'
  <2> SUFFICES ASSUME InFiles(r)', InFiles(q)' PROVE HasCurrent(r, q)' \/ HasCurrent(q, r)'
    BY DEF PairOK
  <2>1. InFiles(r) /\ InFiles(q) /\ r # s /\ q # s
    BY <1>7
  <2>2. UNCHANGED <<attempt[r], attempt[q], pc[r], pc[q], peer[r], peer[q], kind[r], kind[q], view>>
    BY <1>1, <1>5, <2>1
  <2>3. (HasCurrent(r, q) => HasCurrent(r, q)') /\ (HasCurrent(q, r) => HasCurrent(q, r)')
    BY <2>2 DEF HasCurrent, Got
  <2>. QED  BY <2>1, <2>3 DEF IInv, PairOK
<1>10. ASSUME NEW r \in Rank, NEW q \in Rank PROVE FreshOK(r, q)'
  <2>1. \A buffer : IsOf(q, buffer) => IsOf(q, buffer)'
    <3>1. exchange[q] = "files" => exchange'[q] = "files"
      BY <1>2, <1>4, <1>5
    <3>2. attempt[q] \in Nat /\ attempt'[q] \in Nat /\ attempt[q] <= attempt'[q]
      BY <1>3, <1>4, <1>5
    <3>. QED  BY <3>1, <3>2 DEF IsOf
  <2>2. InFiles(r)' => InFiles(r) /\ \A k \in Kind : Got(r, k, q)' => Got(r, k, q)
    BY <1>5, <1>7 DEF Got
  <2>. QED  BY <1>1, <2>1, <2>2 DEF IInv, FreshOK
<1>. QED  BY <1>6, <1>8, <1>9, <1>10 DEF IInv

LEMMA PublishStep ==
  ASSUME IInv, NEW s \in Rank, Publish(s), UNCHANGED <<directory, exchange>>
  PROVE  IInv'
<1> DEFINE k0 == kind[s]
<1>1. /\ pc[s] = "publish" /\ exchange[s] = "files" /\ peer[s] = 1 /\ k0 \in Kind
      /\ file' = [file EXCEPT ![k0][s] = attempt[s]]
      /\ attempt' = attempt /\ peer' = peer /\ sleeps' = sleeps /\ gathered' = gathered
      /\ view' = view /\ failed' = failed
  BY DEF Publish, Published, IInv, PlaceOK, TypeOK
<1>2. /\ file \in [Kind -> [Rank -> 0..Earlier]] /\ kind \in [Rank -> Kind] /\ pc \in [Rank -> Place]
      /\ attempt[s] \in 0..Earlier /\ attempt[s] \in Nat \ {0}
  <2>1. attempt[s] \in 0..MaxAttempts /\ attempt[s] # 0
    BY <1>1 DEF IInv, TypeOK, PlaceOK, None
  <2>. QED  BY <2>1, ExchangeAssumption DEF IInv, TypeOK, Earlier
<1>3. /\ file' \in [Kind -> [Rank -> 0..Earlier]] /\ file'[k0][s] = attempt[s]
      /\ \A k \in Kind, r \in Rank : k # k0 \/ r # s => file'[k][r] = file[k][r]
  BY <1>1, <1>2
<1>4. /\ kind' \in [Rank -> Kind] /\ pc' \in [Rank -> Place]
      /\ \A r \in Rank \ {s} : kind'[r] = kind[r] /\ pc'[r] = pc[r]
      /\ \/ k0 < NumKinds /\ kind'[s] = k0 + 1 /\ pc'[s] = "publish"
         \/ k0 = NumKinds /\ kind'[s] = 1 /\ pc'[s] = "read"
  <2>1. CASE k0 < NumKinds
    <3>1. kind' = [kind EXCEPT ![s] = k0 + 1] /\ pc' = pc /\ k0 + 1 \in Kind
      BY <1>1, <2>1, KindFacts DEF Publish, MoreKinds
    <3>. QED  BY <1>1, <1>2, <2>1, <3>1
  <2>2. CASE ~(k0 < NumKinds)
    <3>1. kind' = [kind EXCEPT ![s] = 1] /\ pc' = [pc EXCEPT ![s] = "read"]
      BY <1>1, <2>2, KindFacts DEF Publish, MoreKinds
    <3>2. k0 = NumKinds /\ 1 \in Kind
      BY <1>1, <2>2, KindFacts
    <3>. QED  BY <1>1, <1>2, <3>1, <3>2 DEF Place
  <2>. QED  BY <2>1, <2>2
<1>5. TypeOK'
  BY <1>1, <1>3, <1>4 DEF IInv, TypeOK
<1>6. ASSUME NEW r \in Rank PROVE PlaceOK(r)' /\ PublishedOK(r)' /\ GatherOK(r)'
  <2>1. CASE r = s
    <3>1. PlaceOK(s)'
      BY <1>1, <1>4 DEF IInv, PlaceOK
    <3>2. GatherOK(s)'
      BY <1>1 DEF GatherOK
    <3>3. ASSUME NEW k \in Kind, InFiles(s)' \/ (pc'[s] = "publish" /\ k < kind'[s])
          PROVE  file'[k][s] = attempt[s]
      <4>1. k \in 1..NumKinds /\ k0 \in 1..NumKinds /\ NumKinds \in Nat
        BY <1>1, KindFacts
      <4>2. k = k0 \/ k < k0
        BY <1>4, <3>3, <4>1 DEF InFiles
      <4>. QED  BY <1>1, <1>3, <4>1, <4>2 DEF IInv, PublishedOK
    <3>. QED  BY <1>1, <2>1, <3>1, <3>2, <3>3 DEF PublishedOK
  <2>2. CASE r # s
    <3>1. pc'[r] = pc[r] /\ kind'[r] = kind[r] /\ \A k \in Kind : file'[k][r] = file[k][r]
      BY <1>3, <1>4, <2>2
    <3>2. PlaceOK(r) /\ PublishedOK(r) /\ GatherOK(r)
      BY DEF IInv
    <3>3. PlaceOK(r)' /\ PublishedOK(r)'
      BY <1>1, <3>1, <3>2 DEF PlaceOK, PublishedOK, InFiles
    <3>4. GatherOK(r)'
      BY <1>1, <3>1, <3>2 DEF GatherOK, Before, Entered, Left
    <3>. QED  BY <3>3, <3>4
  <2>. QED  BY <2>1, <2>2
<1>7. ASSUME InFiles(s)', NEW k \in Kind, NEW q \in Rank PROVE ~Got(s, k, q)'
  <2>1. pc'[s] = "read" /\ kind'[s] = 1 /\ peer'[s] = 1
    BY <1>1, <1>4, <1>7 DEF InFiles
  <2>2. q \in 1..Ranks /\ k \in 1..NumKinds /\ Ranks \in Nat /\ NumKinds \in Nat
    BY ExchangeAssumption, KindFacts DEF Rank
  <2>. QED  BY <2>1, <2>2 DEF Got
<1>8. ASSUME NEW r \in Rank, r # s
      PROVE  /\ InFiles(r)' => InFiles(r)
             /\ \A k \in Kind, q \in Rank : Got(r, k, q)' => Got(r, k, q)
  BY <1>1, <1>4, <1>8 DEF InFiles, Got
<1>9. ASSUME NEW r \in Rank, NEW q \in Rank PROVE PairOK(r, q)'
  <2> SUFFICES ASSUME InFiles(r)', InFiles(q)' PROVE HasCurrent(r, q)' \/ HasCurrent(q, r)'
    BY DEF PairOK
  <2>1. CASE r = s
    BY <1>7, <2>1 DEF HasCurrent
  <2>2. CASE q = s
    BY <1>7, <2>2 DEF HasCurrent
  <2>3. CASE r # s /\ q # s
    <3>1. (HasCurrent(r, q) => HasCurrent(r, q)') /\ (HasCurrent(q, r) => HasCurrent(q, r)')
      BY <1>1, <1>8, <2>3 DEF HasCurrent
    <3>. QED  BY <1>8, <2>3, <3>1 DEF IInv, PairOK
  <2>. QED  BY <2>1, <2>2, <2>3
<1>10. ASSUME NEW r \in Rank, NEW q \in Rank PROVE FreshOK(r, q)'
  <2> SUFFICES ASSUME directory = "fresh", NEW k \in Kind
               PROVE  /\ (file[k][q] # None => IsOf(q, file[k][q]))'
                      /\ (InFiles(r) /\ Got(r, k, q) => IsOf(q, view[r][k][q]))'
    BY <1>1 DEF FreshOK
  <2>2. (file[k][q] # None => IsOf(q, file[k][q]))'
    <3>1. CASE k = k0 /\ q = s
      BY <1>1, <1>2, <1>3, <3>1 DEF IsOf
    <3>2. CASE k # k0 \/ q # s
      BY <1>1, <1>3, <3>2 DEF IInv, FreshOK, IsOf
    <3>. QED  BY <3>1, <3>2
  <2>3. (InFiles(r) /\ Got(r, k, q) => IsOf(q, view[r][k][q]))'
    BY <1>1, <1>7, <1>8 DEF IInv, FreshOK, IsOf
  <2>. QED  BY <2>2, <2>3
<1>. QED  BY <1>5, <1>6, <1>9, <1>10 DEF IInv

LEMMA EnterAllgatherStep ==
  ASSUME IInv, NEW s \in Rank, EnterAllgather(s), UNCHANGED <<directory, exchange>>
  PROVE  IInv'
<1>1. /\ pc[s] = "gather" /\ exchange[s] = "mpi"
      /\ pc' = [pc EXCEPT ![s] = "gathering"]
      /\ gathered' = [gathered EXCEPT ![s] = Append(@, attempt[s])]
      /\ attempt' = attempt /\ peer' = peer /\ kind' = kind /\ sleeps' = sleeps
      /\ file' = file /\ view' = view /\ failed' = failed
  BY DEF EnterAllgather, IInv, PlaceOK
<1>2. /\ pc \in [Rank -> Place] /\ gathered \in [Rank -> Seq(Attempt)] /\ attempt[s] \in Attempt
  <2>1. attempt[s] \in 0..MaxAttempts /\ attempt[s] # 0
    BY <1>1 DEF IInv, TypeOK, PlaceOK, None
  <2>2. attempt[s] \in Attempt
    BY <2>1, ExchangeAssumption DEF Attempt
  <2>. QED  BY <2>2 DEF IInv, TypeOK
<1>3. /\ pc'[s] = "gathering" /\ gathered'[s] = Append(gathered[s], attempt[s])
      /\ \A r \in Rank \ {s} : pc'[r] = pc[r] /\ gathered'[r] = gathered[r]
  BY <1>1, <1>2
<1>4. TypeOK'
  <2>1. gathered' \in [Rank -> Seq(Attempt)]
    BY <1>1, <1>2
  <2>2. pc' \in [Rank -> Place]
    BY <1>1, <1>2 DEF Place
  <2>. QED  BY <1>1, <2>1, <2>2 DEF IInv, TypeOK
<1>5. ASSUME NEW q \in Rank
      PROVE  /\ Len(gathered[q]) \in Nat /\ Len(gathered'[q]) \in Nat
             /\ Len(gathered[q]) <= Len(gathered'[q])
             /\ \A i \in 1..Len(gathered[q]) : gathered'[q][i] = gathered[q][i]
  <2>1. CASE q = s
    BY <1>2, <1>3, <2>1
  <2>2. CASE q # s
    BY <1>2, <1>3, <2>2
  <2>. QED  BY <2>1, <2>2
<1>6. ASSUME NEW r \in Rank PROVE PlaceOK(r)' /\ PublishedOK(r)'
  <2>1. CASE r = s
    BY <1>1, <1>3, <2>1 DEF IInv, PlaceOK, PublishedOK, InFiles
  <2>2. CASE r # s
    BY <1>1, <1>3, <2>2 DEF IInv, PlaceOK, PublishedOK, InFiles
  <2>. QED  BY <2>1, <2>2
<1>7. ASSUME NEW r \in Rank PROVE GatherOK(r)'
  <2> SUFFICES ASSUME exchange[r] = "mpi", pc'[r] # "idle" PROVE GatherOK(r)'
    BY <1>1 DEF GatherOK
  <2>1. pc[r] # "idle" /\ GatherOK(r)
    BY <1>1, <1>3 DEF IInv
  <2>2. kind[r] \in 1..NumKinds /\ NumKinds \in Nat
    BY KindFacts DEF IInv, TypeOK
  <2>3. /\ Left(r)' = Left(r) /\ Before(r)' = Before(r) /\ Before(r) \in Nat
        /\ Left(r) \in 0..NumKinds
    <3>1. CASE r = s
      <4>1. Entered(s) = kind[s] - 1 /\ Entered(s)' = kind[s]
            /\ Left(s) = kind[s] - 1 /\ Left(s)' = kind[s] - 1
        BY <1>1, <1>3 DEF Entered, Left
      <4>2. Len(gathered'[s]) = Len(gathered[s]) + 1
        BY <1>2, <1>3
      <4>3. Before(s) >= 0
        BY <2>1, <3>1, <1>1 DEF GatherOK
      <4>4. Before(s) = Len(gathered[s]) - (kind[s] - 1) /\ Len(gathered[s]) \in Nat
        BY <1>5, <4>1 DEF Before
      <4>5. Before(s)' = Len(gathered[s]) + 1 - kind[s]
        <5>1. Before(s)' = Len(gathered'[s]) - Entered(s)'
          BY DEF Before
        <5>2. kind[s] \in Nat /\ Len(gathered[s]) \in Nat
          BY <1>5, <2>2, <3>1
        <5>. QED  BY <4>1, <4>2, <5>1, <5>2
      <4>6. Before(s)' = Before(s) /\ Before(s) \in Nat
        BY <2>2, <3>1, <4>3, <4>4, <4>5
      <4>. QED  BY <2>2, <3>1, <4>1, <4>6
    <3>2. CASE r # s
      <4>1. Entered(r)' = Entered(r) /\ Left(r)' = Left(r) /\ gathered'[r] = gathered[r]
        BY <1>1, <1>3, <3>2 DEF Entered, Left
      <4>2. Before(r) >= 0
        BY <1>1, <2>1 DEF GatherOK
      <4>3. Entered(r) \in 0..NumKinds /\ Left(r) \in 0..NumKinds
        BY <2>2 DEF Entered, Left
      <4>. QED  BY <1>5, <4>1, <4>2, <4>3 DEF Before
    <3>. QED  BY <3>1, <3>2
  <2>4. \A i \in 1..Entered(r)' : gathered'[r][Before(r) + i] = attempt[r]
    <3>1. CASE r = s
      <4> SUFFICES ASSUME NEW i \in 1..kind[s] PROVE gathered'[s][Before(s) + i] = attempt[s]
        BY <1>3, <1>1, <3>1 DEF Entered
      <4>1. Before(s) = Len(gathered[s]) - (kind[s] - 1) /\ Entered(s) = kind[s] - 1
            /\ Before(s) >= 0
        BY <1>1, <2>1, <3>1 DEF Before, Entered, GatherOK
      <4>2. CASE i = kind[s]
        BY <1>2, <1>3, <1>5, <2>2, <3>1, <4>1, <4>2
      <4>3. CASE i < kind[s]
        <5>1. gathered[s][Before(s) + i] = attempt[s]
          <6>1. i \in 1..Entered(s)
            BY <2>2, <3>1, <4>1, <4>3
          <6>. QED  BY <1>1, <2>1, <3>1, <6>1 DEF GatherOK
        <5>2. Before(s) + i \in 1..Len(gathered[s])
          BY <1>5, <2>2, <3>1, <4>1, <4>3
        <5>. QED  BY <1>5, <5>1, <5>2
      <4>. QED  BY <2>2, <3>1, <4>2, <4>3
    <3>2. CASE r # s
      BY <1>1, <1>3, <2>1, <3>2 DEF GatherOK, Entered
    <3>. QED  BY <3>1, <3>2
  <2>5. ASSUME NEW k \in 1..Left(r), NEW q \in Rank
        PROVE  /\ Before(r) + k <= Len(gathered'[q])
               /\ view[r][k][q] = gathered'[q][Before(r) + k]
    <3>1. Before(r) >= 0 /\ Before(r) + k <= Len(gathered[q])
          /\ view[r][k][q] = gathered[q][Before(r) + k]
      BY <2>1 DEF GatherOK
    <3>2. Before(r) + k \in 1..Len(gathered[q])
      BY <1>5, <2>2, <2>3, <3>1
    <3>. QED  BY <1>5, <2>2, <2>3, <3>1, <3>2
  <2>. QED  BY <1>1, <2>1, <2>3, <2>4, <2>5 DEF GatherOK
<1>8. ASSUME NEW r \in Rank
      PROVE  /\ InFiles(r)' => InFiles(r) /\ r # s
             /\ \A k \in Kind, q \in Rank : r # s => (Got(r, k, q)' <=> Got(r, k, q))
  BY <1>1, <1>3 DEF InFiles, Got
<1>9. ASSUME NEW r \in Rank, NEW q \in Rank PROVE PairOK(r, q)' /\ FreshOK(r, q)'
  <2>1. PairOK(r, q)'
    BY <1>1, <1>8 DEF IInv, PairOK, HasCurrent
  <2>2. FreshOK(r, q)'
    BY <1>1, <1>8 DEF IInv, FreshOK, IsOf
  <2>. QED  BY <2>1, <2>2
<1>. QED  BY <1>4, <1>6, <1>7, <1>9 DEF IInv

LEMMA LeaveAllgatherStep ==
  ASSUME IInv, NEW s \in Rank, LeaveAllgather(s), UNCHANGED <<directory, exchange>>
  PROVE  IInv'
<1> DEFINE k0 == kind[s]
           received == [q \in Rank |-> gathered[q][Len(gathered[s])]]
<1>1. /\ pc[s] = "gathering" /\ exchange[s] = "mpi" /\ k0 \in Kind
      /\ \A q \in Rank : Len(gathered[q]) >= Len(gathered[s])
      /\ view' = [view EXCEPT ![s][k0] = received]
      /\ attempt' = attempt /\ peer' = peer /\ sleeps' = sleeps /\ file' = file
      /\ gathered' = gathered /\ failed' = failed
  BY DEF LeaveAllgather, Contribution, IInv, PlaceOK, TypeOK
<1>2. k0 \in 1..NumKinds /\ NumKinds \in Nat /\ GatherOK(s) /\ pc[s] # "idle"
  BY <1>1, KindFacts DEF IInv
<1>3. /\ Entered(s) = k0 /\ Left(s) = k0 - 1 /\ Before(s) \in Nat
      /\ Len(gathered[s]) = Before(s) + k0
      /\ \A q \in Rank : Len(gathered[q]) \in Nat
  <2>1. \A q \in Rank : Len(gathered[q]) \in Nat
    BY DEF IInv, TypeOK
  <2>. QED  BY <1>1, <1>2, <2>1 DEF Entered, Left, Before, GatherOK
<1>4. received \in [Rank -> 0..Earlier]
  <2>1. ASSUME NEW q \in Rank PROVE gathered[q][Len(gathered[s])] \in Attempt
    <3>1. Len(gathered[s]) \in 1..Len(gathered[q]) /\ gathered[q] \in Seq(Attempt)
      BY <1>1, <1>2, <1>3 DEF IInv, TypeOK
    <3>. QED  BY <3>1
  <2>. QED  BY <2>1, ExchangeAssumption DEF Attempt, Earlier
<1>5. /\ view' \in [Rank -> [Kind -> [Rank -> 0..Earlier]]]
      /\ \A r \in Rank \ {s} : view'[r] = view[r]
      /\ view'[s][k0] = received
      /\ \A k \in Kind : k # k0 => view'[s][k] = view[s][k]
  BY <1>1, <1>4 DEF IInv, TypeOK
<1>6. /\ kind' \in [Rank -> Kind] /\ pc' \in [Rank -> Place]
      /\ \A r \in Rank \ {s} : kind'[r] = kind[r] /\ pc'[r] = pc[r]
      /\ \/ k0 < NumKinds /\ kind'[s] = k0 + 1 /\ pc'[s] = "gather"
         \/ k0 = NumKinds /\ pc'[s] = "import"
  <2>1. kind \in [Rank -> Kind] /\ pc \in [Rank -> Place]
    BY DEF IInv, TypeOK
  <2>2. CASE k0 < NumKinds
    <3>1. /\ kind' = [kind EXCEPT ![s] = k0 + 1] /\ pc' = [pc EXCEPT ![s] = "gather"]
          /\ k0 + 1 \in Kind
      BY <1>1, <2>2, KindFacts DEF LeaveAllgather, MoreKinds
    <3>. QED  BY <1>1, <2>1, <2>2, <3>1 DEF Place
  <2>3. CASE ~(k0 < NumKinds)
    <3>1. kind' = kind /\ pc' = [pc EXCEPT ![s] = "import"] /\ k0 = NumKinds
      BY <1>1, <1>2, <2>3, KindFacts DEF LeaveAllgather, MoreKinds
    <3>. QED  BY <1>1, <2>1, <3>1 DEF Place
  <2>. QED  BY <2>2, <2>3
<1>7. TypeOK'
  BY <1>1, <1>5, <1>6 DEF IInv, TypeOK
<1>8. PlaceOK(s)' /\ PublishedOK(s)' /\ ~InFiles(s)'
  BY <1>1, <1>6 DEF IInv, PlaceOK, PublishedOK, InFiles
<1>9. GatherOK(s)'
  <2>1. Entered(s)' = k0 /\ Left(s)' = k0
    BY <1>2, <1>6 DEF Entered, Left
  <2>2. Before(s)' = Before(s)
    BY <1>1, <1>3, <2>1 DEF Before
  <2>3. \A i \in 1..k0 : gathered[s][Before(s) + i] = attempt[s]
    BY <1>1, <1>2, <1>3 DEF GatherOK
  <2>4. ASSUME NEW k \in 1..k0, NEW q \in Rank
        PROVE  Before(s) + k <= Len(gathered[q]) /\ view'[s][k][q] = gathered[q][Before(s) + k]
    <3>1. CASE k = k0
      BY <1>1, <1>3, <1>5, <3>1
    <3>2. CASE k # k0
      <4>1. k \in 1..Left(s) /\ k \in Kind
        BY <1>2, <1>3, <3>2, KindFacts
      <4>. QED  BY <1>1, <1>2, <1>5, <3>2, <4>1 DEF GatherOK
    <3>. QED  BY <3>1, <3>2
  <2>. QED  BY <1>1, <1>3, <2>1, <2>2, <2>3, <2>4 DEF GatherOK
<1>10. s \in failed \/ pc'[s] # "idle"
  BY <1>6
<1>. QED  BY <1>1, <1>5, <1>6, <1>7, <1>8, <1>9, <1>10, LocalStep

LEMMA StutterStep ==
  ASSUME IInv, UNCHANGED vars
  PROVE  IInv'
<1>1. TypeOK'
  BY DEF vars, IInv, TypeOK
<1>2. ASSUME NEW r \in Rank PROVE PlaceOK(r)' /\ PublishedOK(r)' /\ GatherOK(r)'
  BY DEF vars, IInv, PlaceOK, PublishedOK, GatherOK, InFiles, Before, Entered, Left
<1>3. ASSUME NEW r \in Rank, NEW q \in Rank PROVE PairOK(r, q)' /\ FreshOK(r, q)'
  BY DEF vars, IInv, PairOK, FreshOK, HasCurrent, Got, InFiles, IsOf
<1>. QED  BY <1>1, <1>2, <1>3 DEF IInv

(***************************************************************************)
(* Every step of a rank keeps the invariant.                               *)
(***************************************************************************)
LEMMA Step ==
  ASSUME IInv, [Next]_vars
  PROVE  IInv'
<1>1. CASE UNCHANGED vars
  BY <1>1, StutterStep
<1>2. ASSUME NEW s \in Rank, Start(s) PROVE IInv'
  BY <1>2, BeginStep, DecideFailsStep DEF Start
<1>3. ASSUME NEW s \in Rank, RankStep(s) PROVE IInv'
  <2>1. UNCHANGED <<directory, exchange>> /\ Exchange(s)
    BY <1>3 DEF RankStep
  <2>2. CASE PublishFails(s)
    BY <2>1, <2>2, FailStep DEF PublishFails
  <2>3. CASE TimeOut(s)
    BY <2>1, <2>3, FailStep DEF TimeOut
  <2>4. CASE ImportFails(s)
    BY <2>1, <2>4, FailStep DEF ImportFails
  <2>. QED  BY <2>1, <2>2, <2>3, <2>4, PublishStep, ReadFileStep, SleepStep, EnterAllgatherStep,
               LeaveAllgatherStep, ImportStep DEF Exchange
<1>. QED  BY <1>1, <1>2, <1>3 DEF Next

(***************************************************************************)
(* The invariant holds for any number of ranks and kinds, whichever        *)
(* exchange each rank of latency.c has chosen and whatever fails.          *)
(***************************************************************************)
THEOREM Inductive == Spec => []IInv
<1>1. Init => IInv
  BY InitInv
<1>2. IInv /\ [Next]_vars => IInv'
  BY Step
<1>. QED  BY <1>1, <1>2, PTL DEF Spec

(***************************************************************************)
(* Ranks that have left their last Allgather have called it equally often, *)
(* so they have each other's last contributions.                           *)
(***************************************************************************)
LEMMA Gathered ==
  ASSUME IInv, NEW r \in Rank, pc[r] = "prepared", exchange[r] = "mpi", NEW q \in Rank
  PROVE  exchange[q] = "mpi" /\ (pc[q] = "prepared" => SeesCurrent(r, q))
<1>1. /\ Entered(r) = NumKinds /\ Left(r) = NumKinds
      /\ NumKinds \in Nat /\ NumKinds >= 1 /\ Kind = 1..NumKinds
  BY KindFacts DEF Entered, Left
<1>10. \A u \in Rank : Len(gathered[u]) \in Nat
  BY DEF IInv, TypeOK
<1>2. /\ Len(gathered[r]) = Before(r) + NumKinds /\ Before(r) \in Nat
      /\ \A k \in 1..NumKinds : \A u \in Rank :
           Before(r) + k <= Len(gathered[u]) /\ view[r][k][u] = gathered[u][Before(r) + k]
  <2>1. GatherOK(r) /\ pc[r] # "idle"
    BY DEF IInv
  <2>2. Before(r) = Len(gathered[r]) - NumKinds
    BY <1>1 DEF Before
  <2>3. Before(r) >= 0
    BY <2>1 DEF GatherOK
  <2>4. Len(gathered[r]) = Before(r) + NumKinds /\ Before(r) \in Nat
    BY <1>1, <1>10, <2>2, <2>3
  <2>. QED  BY <1>1, <2>1, <2>4 DEF GatherOK
<1>3. \A u \in Rank : Len(gathered[r]) <= Len(gathered[u])
  <2>1. NumKinds \in 1..NumKinds
    BY <1>1
  <2>. QED  BY <1>2, <2>1
<1>4. exchange[q] = "mpi"
  <2>1. Len(gathered[q]) # 0
    BY <1>1, <1>2, <1>3, <1>10
  <2>2. gathered[q] # <<>>
    BY <2>1
  <2>. QED  BY <2>2 DEF IInv, PlaceOK
<1>5. ASSUME pc[q] = "prepared" PROVE SeesCurrent(r, q)
  <2>1. GatherOK(q) /\ pc[q] # "idle" /\ Entered(q) = NumKinds /\ Left(q) = NumKinds
    BY <1>5 DEF IInv, Entered, Left
  <2>2. \A k \in 1..NumKinds : gathered[q][Before(q) + k] = attempt[q]
    BY <1>4, <2>1 DEF GatherOK
  <2>3. Len(gathered[q]) <= Len(gathered[r])
    <3>1. Before(q) = Len(gathered[q]) - NumKinds /\ NumKinds \in 1..NumKinds
      BY <1>1, <2>1 DEF Before
    <3>2. Before(q) + NumKinds <= Len(gathered[r])
      BY <1>4, <2>1, <3>1 DEF GatherOK
    <3>. QED  BY <1>1, <1>10, <3>1, <3>2
  <2>4. Len(gathered[q]) = Len(gathered[r])
    BY <1>3, <1>10, <2>3
  <2>5. Before(q) = Before(r)
    BY <1>1, <2>1, <2>4 DEF Before
  <2>. QED  BY <1>1, <1>2, <2>2, <2>5 DEF SeesCurrent
<1>. QED  BY <1>4, <1>5

(***************************************************************************)
(* Over MPI, prepared ranks have mapped each other's current buffers, and  *)
(* none is prepared unless every rank has chosen MPI: the n-th Allgather   *)
(* of prepare_buffers_locked waits for the n-th of everyone.               *)
(***************************************************************************)
THEOREM SameAllocationOverMpiHolds == Spec => []SameAllocationOverMpi
<1>1. IInv => SameAllocationOverMpi
  BY Gathered DEF SameAllocationOverMpi, Prepared
<1>. QED  BY <1>1, Inductive, PTL

(***************************************************************************)
(* Over files, of two prepared ranks one at least has mapped the other's   *)
(* current buffers, even in a directory that an earlier run has used; in a *)
(* fresh one a rank that never failed is seen by all.                      *)
(***************************************************************************)
THEOREM OneSideSeesHolds == Spec => []OneSideSees
<1>1. IInv => OneSideSees
  <2> SUFFICES ASSUME IInv PROVE OneSideSees
    OBVIOUS
  <2>1. \A r \in Prepared : r \in Rank /\ exchange[r] \in {"mpi", "files"}
    BY ExchangeAssumption DEF IInv, TypeOK, PlaceOK, Prepared
  <2>2. \A r \in Prepared, q \in Rank, k \in Kind : Got(r, k, q)
    BY DEF Prepared, Got
  <2>3. ASSUME NEW r \in Prepared, NEW q \in Prepared
        PROVE  SeesCurrent(r, q) \/ SeesCurrent(q, r)
    <3>1. CASE exchange[r] = "mpi" \/ exchange[q] = "mpi"
      BY <2>1, <3>1, Gathered DEF Prepared
    <3>2. CASE exchange[r] = "files" /\ exchange[q] = "files"
      <4>1. HasCurrent(r, q) \/ HasCurrent(q, r)
        BY <2>1, <3>2 DEF IInv, PairOK, InFiles, Prepared
      <4>. QED  BY <2>1, <2>2, <4>1 DEF HasCurrent, SeesCurrent
    <3>. QED  BY <2>1, <3>1, <3>2
  <2>4. ASSUME directory = "fresh", NEW r \in Prepared, exchange[r] = "files", NEW q \in Rank,
               NEW k \in Kind
        PROVE  exchange[q] = "files" /\ view[r][k][q] \in 1..attempt[q]
    BY <2>1, <2>2, <2>4 DEF IInv, FreshOK, IsOf, InFiles, Prepared
  <2>5. ASSUME directory = "fresh", NEW r \in Prepared
        PROVE  /\ \A q \in Rank : exchange[q] = exchange[r]
               /\ \A q \in Prepared \ failed : SeesCurrent(r, q)
    <3>1. CASE exchange[r] = "mpi"
      BY <2>1, <3>1, Gathered DEF Prepared
    <3>2. CASE exchange[r] = "files"
      <4>1. 1 \in Kind
        BY KindFacts
      <4>2. \A q \in Prepared \ failed : attempt[q] \in 0..1
        BY <2>1 DEF IInv, PlaceOK
      <4>3. \A q \in Prepared \ failed : \A k \in Kind : view[r][k][q] = attempt[q]
        BY <2>1, <2>4, <2>5, <3>2, <4>2
      <4>. QED  BY <2>4, <2>5, <3>2, <4>1, <4>3 DEF SeesCurrent
    <3>. QED  BY <2>1, <3>1, <3>2
  <2>. QED  BY <2>3, <2>5 DEF IInv, OneSideSees
<1>. QED  BY <1>1, Inductive, PTL

===============================================================================
