-------------------------- MODULE MemoryPlugin_proofs --------------------------
(***************************************************************************)
(* The safety properties of a process that has loaded latency.c or         *)
(* memory.cc, for any number of threads, contexts, launches, ranks, kinds  *)
(* of buffers and attempts, whichever calls fail.                          *)
(*                                                                         *)
(* The launch sessions come first.  The mutex belongs to the thread in a   *)
(* session, so a session is not disturbed, and what is known at one of its *)
(* places is known because of the places it passed before.  The objects    *)
(* referred to are always those of the last setup.                         *)
(*                                                                         *)
(* Then the buffers: everything behind the running attempt is referred to  *)
(* by it, and everything that exists is of this attempt or of a failed one.*)
(***************************************************************************)
EXTENDS MemoryPlugin, TLAPS

InLaunch(t)  == at[t] \in {"launched", "end", "stop", "write"}
IsSetUp(t)   == at[t] \in {"counters", "events", "start", "launched", "end", "stop", "write"}

(***************************************************************************)
(* Who is where.                                                           *)
(***************************************************************************)
PlacesOK ==
  /\ \A t \in Thread : InSession(t) <=> owner = t
  /\ \A t \in Thread : at[t] # "idle" => t \in users
  /\ \A t \in Thread : at[t] = "failed" => endsFailed
  /\ endsFailed => \A t, u \in users : t = u
  /\ active => \E t \in Thread : InLaunch(t)
  /\ \A t \in Thread : InLaunch(t) => active

(***************************************************************************)
(* What the last setup made.                                               *)
(***************************************************************************)
ObjectsOK ==
  /\ \A k \in Object : ref[k] # None => ref[k] = setups /\ <<k, ref[k]>> \in live
  /\ ready => ref["start"] # None /\ ref["end"] # None
  /\ ready /\ metrics => Sampler # None
  /\ NothingLeaked

(***************************************************************************)
(* What was measured, and when.                                            *)
(***************************************************************************)
LaunchOK(t) ==
  /\ InSession(t) => launch \in Launch
  /\ at[t] = "setup" => setups < launches
  /\ IsSetUp(t) => ready /\ context = mine[t]
  /\ at[t] \in {"setup", "counters", "events", "start"} => ~sampling
  /\ at[t] \in {"events", "start", "launched", "end", "stop"} => data \subseteq {launch}
  /\ at[t] \in {"start", "launched", "end"} => begun = launch
  /\ at[t] \in {"launched", "end", "stop"} /\ sampling => <<Sampler, launch>> \in running

MeasureOK ==
  /\ launch = launches
  /\ values \subseteq {launch} /\ duration \subseteq {launch}
  /\ RowIsOfItsLaunch

\* The inductive invariant.
IInv ==
  /\ TypeOK /\ PlacesOK /\ ObjectsOK /\ MeasureOK
  /\ \A t \in Thread : LaunchOK(t)

------------------------------------------------------------------------------
LEMMA InitInv == Init => IInv
<1> SUFFICES ASSUME Init PROVE IInv
  OBVIOUS
<1> USE SessionAssumption
<1>1. ref = [k \in Object |-> 0] /\ row = [launch |-> 0, values |-> {}, duration |-> {}]
  BY DEF Init, NoRefs, NoRow, None
<1>2. disables \in BOOLEAN /\ endsFailed \in BOOLEAN /\ over \in BOOLEAN
      /\ active \in BOOLEAN /\ sampling \in BOOLEAN /\ ready \in BOOLEAN /\ metrics \in BOOLEAN
  BY DEF Init
<1>3. TypeOK
  BY <1>1, <1>2 DEF Init, TypeOK, Place, None
<1>4. PlacesOK
  BY DEF Init, PlacesOK, InSession, InLaunch
<1>5. ObjectsOK
  BY <1>1 DEF Init, ObjectsOK, NothingLeaked, Sampler, None
<1>6. MeasureOK
  BY <1>1 DEF Init, MeasureOK, RowIsOfItsLaunch, None
<1>7. \A t \in Thread : LaunchOK(t)
  BY DEF Init, LaunchOK, InSession, IsSetUp
<1>. QED  BY <1>3, <1>4, <1>5, <1>6, <1>7 DEF IInv

(***************************************************************************)
(* One session at a time.                                                  *)
(***************************************************************************)
LEMMA OnlyOne ==
  ASSUME IInv, NEW t \in Thread, InSession(t), NEW u \in Thread, u # t
  PROVE  at[u] \in {"idle", "failed"}
BY DEF IInv, PlacesOK, InSession

LEMMA NotYetActive ==
  ASSUME IInv, NEW t \in Thread, InSession(t), ~InLaunch(t)
  PROVE  ~active
BY DEF IInv, PlacesOK, InSession, InLaunch

LEMMA OthersIdle ==
  ASSUME IInv, NEW t \in Thread, InSession(t), NEW u \in Thread, u # t, at'[u] = at[u]
  PROVE  LaunchOK(u)'
<1>1. at'[u] \in {"idle", "failed"}
  BY OnlyOne
<1>. QED  BY <1>1 DEF LaunchOK, InSession, IsSetUp

\* A session goes on, or ends with an error.
LEMMA GoPlaces ==
  ASSUME IInv, NEW t \in Thread, InSession(t), NEW place, Go(t, place), UNCHANGED settings,
         place \in Place \ {"idle", "failed"},
         active' <=> place \in {"launched", "end", "stop", "write"}
  PROVE  PlacesOK' /\ at' \in [Thread -> Place] /\ at'[t] = place
         /\ \A u \in Thread : u # t => at'[u] = at[u]
<1>1. at' = [at EXCEPT ![t] = place] /\ at \in [Thread -> Place] /\ owner' = owner /\ owner = t
  BY DEF IInv, TypeOK, PlacesOK, Go
<1>2. at' \in [Thread -> Place] /\ at'[t] = place /\ \A u \in Thread : u # t => at'[u] = at[u]
  BY <1>1
<1>3. \A u \in Thread : u # t => at[u] \in {"idle", "failed"}
  BY OnlyOne
<1>. QED  BY <1>1, <1>2, <1>3 DEF IInv, PlacesOK, InSession, InLaunch, Place, settings

LEMMA FailPlaces ==
  ASSUME IInv, NEW t \in Thread, InSession(t), FailBegin(t), UNCHANGED settings, ~active'
  PROVE  PlacesOK' /\ at' \in [Thread -> Place] /\ owner' = Nobody
         /\ \A u \in Thread : at'[u] \in {"idle", "failed"}
<1> DEFINE place == IF endsFailed THEN "failed" ELSE "idle"
<1>1. at' = [at EXCEPT ![t] = place] /\ at \in [Thread -> Place] /\ owner' = Nobody
  BY DEF IInv, TypeOK, FailBegin, Unlocked
<1>2. /\ at' \in [Thread -> Place] /\ at'[t] = place
      /\ \A u \in Thread : u # t => at'[u] = at[u] /\ at[u] \in {"idle", "failed"}
  BY <1>1, OnlyOne DEF Place
<1>3. \A u \in Thread : ~InSession(u)' /\ ~InLaunch(u)'
  BY <1>2 DEF InSession, InLaunch
<1>. QED  BY <1>1, <1>2, <1>3, SessionAssumption DEF IInv, PlacesOK, InSession, settings

LEMMA FailedLaunch ==
  ASSUME \A u \in Thread : at'[u] \in {"idle", "failed"}
  PROVE  \A u \in Thread : LaunchOK(u)'
BY DEF LaunchOK, InSession, IsSetUp

(***************************************************************************)
(* begin_launch, step by step.                                             *)
(***************************************************************************)
LEMMA BeginStep ==
  ASSUME IInv, NEW t \in users, Begin(t), UNCHANGED settings
  PROVE  IInv'
<1>1. /\ t \in Thread /\ at \in [Thread -> Place] /\ mine \in [Thread -> Context \cup {NoContext}]
      /\ launches \in 0..Launches /\ Launches \in Nat
  BY SessionAssumption DEF IInv, TypeOK
<1>2. /\ at' = [at EXCEPT ![t] = "setup"] /\ at'[t] = "setup"
      /\ \A u \in Thread : u # t => at'[u] = at[u] /\ ~InSession(u)
  BY <1>1, SessionAssumption DEF Begin, IInv, PlacesOK
<1>3. launches' \in 0..Launches /\ launch' = launches' /\ launches' = launches + 1 /\ launch' \in Launch
  BY <1>1 DEF Begin, Launch
<1>4. mine' \in [Thread -> Context \cup {NoContext}]
  BY <1>1 DEF Begin
<1>5. TypeOK'
  <2>1. setups' \in 0..launches' /\ launch' \in 0..Launches
    BY <1>1, <1>3 DEF Begin, IInv, TypeOK, objects
  <2>2. at' \in [Thread -> Place] /\ owner' \in Thread \cup {Nobody}
    BY <1>1, <1>2 DEF Begin, Place
  <2>3. active' \in BOOLEAN /\ sampling' \in BOOLEAN /\ values' = {} /\ duration' = {}
    BY DEF Begin, DurationAtBegin
  <2>. QED  BY <1>3, <1>4, <2>1, <2>2, <2>3 DEF Begin, IInv, TypeOK, objects, settings
<1>6. PlacesOK'
  BY <1>1, <1>2 DEF Begin, IInv, PlacesOK, InSession, InLaunch, settings
<1>7. ObjectsOK'
  BY DEF Begin, IInv, ObjectsOK, NothingLeaked, Sampler, objects, settings
<1>8. MeasureOK'
  BY <1>3 DEF Begin, IInv, MeasureOK, RowIsOfItsLaunch, DurationAtBegin
<1>9. LaunchOK(t)'
  BY <1>2, <1>3 DEF Begin, IInv, TypeOK, LaunchOK, InSession, IsSetUp, objects
<1>10. ASSUME NEW u \in Thread, u # t PROVE LaunchOK(u)'
  BY <1>2, <1>10 DEF LaunchOK, InSession, IsSetUp
<1>. QED  BY <1>5, <1>6, <1>7, <1>8, <1>9, <1>10 DEF IInv

LEMMA BeginFailsStep ==
  ASSUME IInv, NEW t \in Thread, BeginFails(t), UNCHANGED settings
  PROVE  IInv'
<1>1. InSession(t) /\ ~active /\ ~active'
  BY NotYetActive DEF BeginFails, InSession, InLaunch, session
<1>2. /\ PlacesOK' /\ at' \in [Thread -> Place] /\ owner' = Nobody
      /\ \A u \in Thread : at'[u] \in {"idle", "failed"}
  BY <1>1, FailPlaces DEF BeginFails
<1>3. TypeOK'
  BY <1>2 DEF BeginFails, IInv, TypeOK, neutrino, session, objects, measure, settings
<1>4. ObjectsOK' /\ MeasureOK'
  BY DEF BeginFails, IInv, ObjectsOK, NothingLeaked, Sampler, MeasureOK, RowIsOfItsLaunch,
     neutrino, session, objects, measure, settings
<1>. QED  BY <1>2, <1>3, <1>4, FailedLaunch DEF IInv

LEMMA AlreadySetUpStep ==
  ASSUME IInv, NEW t \in Thread, AlreadySetUp(t), UNCHANGED settings
  PROVE  IInv'
<1>1. InSession(t) /\ ~active /\ ~active' /\ at[t] = "setup" /\ ready /\ context = mine[t]
  BY NotYetActive DEF AlreadySetUp, ReadyFor, InSession, InLaunch, session
<1>2. /\ PlacesOK' /\ at' \in [Thread -> Place] /\ at'[t] = "counters" /\ owner' = owner
      /\ \A u \in Thread : u # t => at'[u] = at[u]
  BY <1>1, GoPlaces DEF AlreadySetUp, Go, Place
<1>3. TypeOK'
  BY <1>2 DEF AlreadySetUp, IInv, TypeOK, neutrino, session, objects, measure, settings
<1>4. ObjectsOK' /\ MeasureOK'
  BY DEF AlreadySetUp, IInv, ObjectsOK, NothingLeaked, Sampler, MeasureOK, RowIsOfItsLaunch,
     neutrino, session, objects, measure, settings
<1>5. LaunchOK(t)'
  BY <1>1, <1>2 DEF AlreadySetUp, IInv, LaunchOK, InSession, IsSetUp, neutrino, session, objects
<1>. QED  BY <1>1, <1>2, <1>3, <1>4, <1>5, OthersIdle DEF IInv

(***************************************************************************)
(* The objects that a setup creates: all of them if it succeeds.           *)
(***************************************************************************)
LEMMA Creation ==
  ASSUME NEW m \in BOOLEAN, NEW n \in 0..Len(Wanted(m))
  PROVE  /\ Range(SubSeq(Wanted(m), 1, n)) \subseteq Object
         /\ n = Len(Wanted(m)) =>
              /\ {"start", "end"} \subseteq Range(SubSeq(Wanted(m), 1, n))
              /\ m => "sampler" \in Range(SubSeq(Wanted(m), 1, n))
<1> DEFINE s == SubSeq(Wanted(m), 1, n)
<1>1. CASE m
  <2>1. Wanted(m) = <<"host", "sampler", "start", "end">> /\ n \in 0..4 /\ Len(Wanted(m)) = 4
    BY <1>1 DEF Wanted
  <2>2. Len(s) = n /\ \A i \in 1..n : s[i] = Wanted(m)[i]
    BY <2>1
  <2>3. \A i \in 1..n : s[i] \in Object
    BY <2>1, <2>2 DEF Object
  <2>4. DOMAIN s = 1..n
    BY <2>1
  <2>5. n = 4 => s[2] = "sampler" /\ s[3] = "start" /\ s[4] = "end"
    BY <2>1, <2>2
  <2>6. Range(s) = {s[i] : i \in 1..n}
    BY <2>4 DEF Range
  <2>. HIDE DEF s
  <2>7. Range(s) \subseteq Object
    BY <2>3, <2>6
  <2>8. n = 4 => "start" \in Range(s) /\ "end" \in Range(s) /\ "sampler" \in Range(s)
    <3>1. n = 4 => 4 \in 1..n /\ 3 \in 1..n /\ 2 \in 1..n
      OBVIOUS
    <3>. QED  BY <2>5, <2>6, <3>1
  <2>. QED  BY <1>1, <2>1, <2>7, <2>8 DEF s
<1>2. CASE ~m
  <2>1. Wanted(m) = <<"start", "end">> /\ n \in 0..2 /\ Len(Wanted(m)) = 2
    BY <1>2 DEF Wanted
  <2>2. Len(s) = n /\ \A i \in 1..n : s[i] = Wanted(m)[i]
    BY <2>1
  <2>3. \A i \in 1..n : s[i] \in Object
    BY <2>1, <2>2 DEF Object
  <2>4. DOMAIN s = 1..n
    BY <2>1
  <2>5. n = 2 => s[1] = "start" /\ s[2] = "end"
    BY <2>1, <2>2
  <2>6. Range(s) = {s[i] : i \in 1..n}
    BY <2>4 DEF Range
  <2>. HIDE DEF s
  <2>7. Range(s) \subseteq Object
    BY <2>3, <2>6
  <2>8. n = 2 => "start" \in Range(s) /\ "end" \in Range(s)
    <3>1. n = 2 => 2 \in 1..n /\ 1 \in 1..n /\ 2 \in 1..n
      OBVIOUS
    <3>. QED  BY <2>5, <2>6, <3>1
  <2>. QED  BY <1>2, <2>1, <2>7, <2>8 DEF s
<1>. QED  BY <1>1, <1>2

LEMMA SetUpStep ==
  ASSUME IInv, NEW t \in Thread, SetUp(t), UNCHANGED settings
  PROVE  IInv'
<1>1. InSession(t) /\ ~active /\ ~active' /\ at[t] = "setup" /\ active' = active
  BY NotYetActive DEF SetUp, InSession, InLaunch
<1>20. PICK m \in BOOLEAN : \E n \in 0..Len(Wanted(m)) :
        LET created == Range(SubSeq(Wanted(m), 1, n))
            done == n = Len(Wanted(m))
        IN  /\ metrics' = m
            /\ ref' = [k \in Object |-> IF k \in created THEN setups + 1 ELSE None]
            /\ live' = (live \ Destroyed) \cup (created \X {setups + 1})
            /\ ready' = done
            /\ IF done THEN Go(t, "counters") ELSE FailBegin(t)
  BY DEF SetUp
<1>2. PICK n \in 0..Len(Wanted(m)) :
        LET created == Range(SubSeq(Wanted(m), 1, n))
            done == n = Len(Wanted(m))
        IN  /\ metrics' = m
            /\ ref' = [k \in Object |-> IF k \in created THEN setups + 1 ELSE None]
            /\ live' = (live \ Destroyed) \cup (created \X {setups + 1})
            /\ ready' = done
            /\ IF done THEN Go(t, "counters") ELSE FailBegin(t)
  BY <1>20
<1> DEFINE created == Range(SubSeq(Wanted(m), 1, n))
           done == n = Len(Wanted(m))
<1>3. /\ created \subseteq Object
      /\ done => {"start", "end"} \subseteq created /\ (m => "sampler" \in created)
  BY Creation
<1>4. /\ metrics' = m /\ ready' = done
      /\ ref' = [k \in Object |-> IF k \in created THEN setups + 1 ELSE None]
      /\ live' = (live \ Destroyed) \cup (created \X {setups + 1})
      /\ done => Go(t, "counters")
      /\ ~done => FailBegin(t)
      /\ done \in BOOLEAN
  BY <1>2
<1>. HIDE DEF created, done
<1>5. /\ context' = mine[t] /\ setups' = setups + 1 /\ sampling' = FALSE /\ data' = {}
      /\ running' \subseteq running
      /\ mine' = mine /\ launches' = launches /\ over' = over /\ launch' = launch
      /\ begun' = begun /\ values' = values /\ duration' = duration /\ row' = row
      /\ disables' = disables /\ endsFailed' = endsFailed /\ users' = users
  BY DEF SetUp, neutrino, settings
<1>6. setups < launches /\ setups \in Nat /\ launches \in Nat /\ launch \in Launch
  BY <1>1, SessionAssumption DEF IInv, TypeOK, LaunchOK
<1>7. /\ PlacesOK' /\ at' \in [Thread -> Place] /\ owner' \in Thread \cup {Nobody}
      /\ \A u \in Thread : LaunchOK(u)'
  <2>1. CASE done
    <3>1. /\ PlacesOK' /\ at' \in [Thread -> Place] /\ at'[t] = "counters"
          /\ \A u \in Thread : u # t => at'[u] = at[u]
      BY <1>1, <1>4, <2>1, GoPlaces DEF Place
    <3>2. LaunchOK(t)'
      BY <1>4, <1>5, <1>6, <2>1, <3>1 DEF LaunchOK, InSession, IsSetUp
    <3>3. owner' = owner
      BY <1>4, <2>1 DEF Go
    <3>. QED  BY <1>1, <3>1, <3>2, <3>3, OthersIdle DEF IInv, TypeOK
  <2>2. CASE ~done
    BY <1>1, <1>4, <2>2, FailPlaces, FailedLaunch
  <2>. QED  BY <2>1, <2>2
<1>8. TypeOK'
  <2>1. ref' \in [Object -> 0..setups']
    BY <1>4, <1>5, <1>6 DEF None
  <2>2. live' \subseteq Object \X (1..setups')
    <3>1. live \subseteq Object \X (1..setups)
      BY DEF IInv, TypeOK
    <3>2. 1..setups \subseteq 1..setups' /\ setups + 1 \in 1..setups'
      BY <1>5, <1>6
    <3>. QED  BY <1>3, <1>4, <3>1, <3>2
  <2>3. running' \subseteq (1..setups') \X Launch
    <3>1. running \subseteq (1..setups) \X Launch /\ 1..setups \subseteq 1..setups'
      BY <1>5, <1>6 DEF IInv, TypeOK
    <3>. QED  BY <1>5, <3>1
  <2>4. setups' \in 0..launches' /\ context' \in Context \cup {NoContext}
    BY <1>5, <1>6 DEF IInv, TypeOK
  <2>5. active' \in BOOLEAN /\ sampling' \in BOOLEAN /\ ready' \in BOOLEAN /\ metrics' \in BOOLEAN
    BY <1>1, <1>4, <1>5 DEF IInv, TypeOK
  <2>. QED  BY <1>5, <1>7, <2>1, <2>2, <2>3, <2>4, <2>5 DEF IInv, TypeOK
<1>9. ObjectsOK'
  <2>1. ASSUME NEW k \in Object, ref'[k] # None
        PROVE  ref'[k] = setups' /\ <<k, ref'[k]>> \in live'
    BY <1>4, <1>5, <2>1
  <2>2. ready' => ref'["start"] # None /\ ref'["end"] # None
    BY <1>3, <1>4, <1>6 DEF Object, None
  <2>3. ready' /\ metrics' => ref'["sampler"] # None
    BY <1>3, <1>4, <1>6 DEF Object, None
  <2>4. ASSUME NEW o \in live' PROVE o[2] = ref'[o[1]] \/ (o[1] = "sampler" /\ ~disables')
    <3>1. CASE o \in created \X {setups + 1}
      BY <1>3, <1>4, <3>1
    <3>2. CASE o \in live \ Destroyed
      <4>1. o \in Object \X (1..setups)
        BY <3>2 DEF IInv, TypeOK
      <4>2. o = <<o[1], o[2]>> /\ o[1] \in Object
        BY <4>1
      <4>3. o[2] = ref[o[1]] => o[1] = "sampler" /\ ~disables
        BY <3>2, <4>2 DEF Destroyed
      <4>. QED  BY <1>5, <3>2, <4>3 DEF IInv, ObjectsOK, NothingLeaked
    <3>. QED  BY <1>4, <2>4, <3>1, <3>2
  <2>. QED  BY <2>1, <2>2, <2>3, <2>4 DEF ObjectsOK, NothingLeaked, Sampler
<1>10. MeasureOK'
  BY <1>5 DEF IInv, MeasureOK, RowIsOfItsLaunch
<1>. QED  BY <1>7, <1>8, <1>9, <1>10 DEF IInv

LEMMA PrepareCounterDataStep ==
  ASSUME IInv, NEW t \in Thread, PrepareCounterData(t), UNCHANGED settings
  PROVE  IInv'
<1>1. InSession(t) /\ ~active /\ ~active' /\ at[t] = "counters"
  BY NotYetActive DEF PrepareCounterData, InSession, InLaunch, session
<1>2. ObjectsOK' /\ MeasureOK'
  BY DEF PrepareCounterData, IInv, ObjectsOK, NothingLeaked, Sampler, MeasureOK, RowIsOfItsLaunch,
     neutrino, session, objects, settings
<1>3. CASE Go(t, "events")
  <2>1. /\ PlacesOK' /\ at' \in [Thread -> Place] /\ at'[t] = "events" /\ owner' = owner
        /\ \A u \in Thread : u # t => at'[u] = at[u]
    BY <1>1, <1>3, GoPlaces DEF Go, PrepareCounterData, Place
  <2>2. TypeOK'
    BY <2>1 DEF PrepareCounterData, IInv, TypeOK, neutrino, session, objects, settings
  <2>3. LaunchOK(t)'
    BY <1>1, <2>1 DEF PrepareCounterData, IInv, LaunchOK, InSession, IsSetUp, neutrino, session, objects
  <2>. QED  BY <1>1, <1>2, <2>1, <2>2, <2>3, OthersIdle DEF IInv
<1>4. CASE FailBegin(t)
  <2>1. /\ PlacesOK' /\ at' \in [Thread -> Place] /\ owner' = Nobody
        /\ \A u \in Thread : at'[u] \in {"idle", "failed"}
    BY <1>1, <1>4, FailPlaces
  <2>2. TypeOK'
    BY <2>1 DEF PrepareCounterData, IInv, TypeOK, neutrino, session, objects, settings
  <2>. QED  BY <1>2, <2>1, <2>2, FailedLaunch DEF IInv
<1>. QED  BY <1>3, <1>4 DEF PrepareCounterData

LEMMA RecordStartStep ==
  ASSUME IInv, NEW t \in Thread, RecordStart(t), UNCHANGED settings
  PROVE  IInv'
<1>1. InSession(t) /\ ~active /\ ~active' /\ at[t] = "events"
  BY NotYetActive DEF RecordStart, InSession, InLaunch, session
<1>2. ObjectsOK' /\ MeasureOK'
  BY DEF RecordStart, IInv, ObjectsOK, NothingLeaked, Sampler, MeasureOK, RowIsOfItsLaunch,
     neutrino, session, objects, settings
<1>3. CASE Go(t, "start") /\ begun' = launch
  <2>1. /\ PlacesOK' /\ at' \in [Thread -> Place] /\ at'[t] = "start" /\ owner' = owner
        /\ \A u \in Thread : u # t => at'[u] = at[u]
    BY <1>1, <1>3, GoPlaces DEF Go, Place
  <2>2. TypeOK'
    BY <1>3, <2>1 DEF RecordStart, IInv, TypeOK, neutrino, session, objects, settings
  <2>3. LaunchOK(t)'
    BY <1>1, <1>3, <2>1 DEF RecordStart, IInv, LaunchOK, InSession, IsSetUp, neutrino, session, objects
  <2>. QED  BY <1>1, <1>2, <2>1, <2>2, <2>3, OthersIdle DEF IInv
<1>4. CASE FailBegin(t) /\ begun' = begun
  <2>1. /\ PlacesOK' /\ at' \in [Thread -> Place] /\ owner' = Nobody
        /\ \A u \in Thread : at'[u] \in {"idle", "failed"}
    BY <1>1, <1>4, FailPlaces
  <2>2. TypeOK'
    BY <1>4, <2>1 DEF RecordStart, IInv, TypeOK, neutrino, session, objects, settings
  <2>. QED  BY <1>2, <2>1, <2>2, FailedLaunch DEF IInv
<1>. QED  BY <1>3, <1>4 DEF RecordStart

LEMMA StartSamplingStep ==
  ASSUME IInv, NEW t \in Thread, StartSampling(t), UNCHANGED settings
  PROVE  IInv'
<1>1. InSession(t) /\ ~active /\ at[t] = "start" /\ metrics
  BY NotYetActive DEF StartSampling, InSession, InLaunch
<1>2. PICK ok \in BOOLEAN :
        /\ ok => ~IsRunning(Sampler)
        /\ running' = IF ok THEN running \cup {<<Sampler, launch>>} ELSE running
        /\ data' = IF ok THEN data \cup {launch} ELSE data
        /\ sampling' = ok
        /\ active' = ok
        /\ IF ok THEN Go(t, "launched") ELSE FailBegin(t)
  BY DEF StartSampling
<1>3. ObjectsOK' /\ MeasureOK'
  BY DEF StartSampling, IInv, ObjectsOK, NothingLeaked, Sampler, MeasureOK, RowIsOfItsLaunch,
     neutrino, objects, settings
<1>4. /\ ready /\ context = mine[t] /\ launch \in Launch /\ data \subseteq {launch}
      /\ begun = launch /\ Sampler # None
  BY <1>1 DEF IInv, LaunchOK, ObjectsOK, InSession, IsSetUp
<1>5. running' \subseteq (1..setups) \X Launch /\ data' \subseteq Launch
  <2>1. Sampler \in 1..setups
    BY <1>4 DEF IInv, TypeOK, Sampler, Object, None
  <2>. QED  BY <1>2, <1>4, <2>1 DEF IInv, TypeOK
<1>6. CASE ok
  <2>1. /\ PlacesOK' /\ at' \in [Thread -> Place] /\ at'[t] = "launched" /\ owner' = owner
        /\ \A u \in Thread : u # t => at'[u] = at[u]
    BY <1>1, <1>2, <1>6, GoPlaces DEF Go, Place
  <2>2. TypeOK'
    BY <1>2, <1>5, <2>1 DEF StartSampling, IInv, TypeOK, neutrino, objects, settings
  <2>3. LaunchOK(t)'
    <3>1. <<Sampler, launch>> \in running' /\ Sampler' = Sampler /\ launch' = launch
      BY <1>2, <1>6 DEF StartSampling, Sampler, objects
    <3>2. data' \subseteq {launch}
      BY <1>2, <1>4
    <3>. QED  BY <1>4, <2>1, <3>1, <3>2
              DEF StartSampling, LaunchOK, InSession, IsSetUp, neutrino, objects
  <2>. QED  BY <1>1, <1>3, <2>1, <2>2, <2>3, OthersIdle DEF IInv
<1>7. CASE ~ok
  <2>1. /\ PlacesOK' /\ at' \in [Thread -> Place] /\ owner' = Nobody
        /\ \A u \in Thread : at'[u] \in {"idle", "failed"}
    BY <1>1, <1>2, <1>7, FailPlaces
  <2>2. TypeOK'
    BY <1>2, <1>5, <2>1 DEF StartSampling, IInv, TypeOK, neutrino, objects, settings
  <2>. QED  BY <1>3, <2>1, <2>2, FailedLaunch DEF IInv
<1>. QED  BY <1>6, <1>7

LEMMA StartWithoutStep ==
  ASSUME IInv, NEW t \in Thread, StartWithout(t), UNCHANGED settings
  PROVE  IInv'
<1>1. InSession(t) /\ at[t] = "start" /\ active'
  BY DEF StartWithout, InSession
<1>2. ~sampling
  BY <1>1 DEF IInv, LaunchOK
<1>3. /\ PlacesOK' /\ at' \in [Thread -> Place] /\ at'[t] = "launched" /\ owner' = owner
      /\ \A u \in Thread : u # t => at'[u] = at[u]
  BY <1>1, GoPlaces DEF StartWithout, Go, Place
<1>4. TypeOK'
  BY <1>1, <1>3 DEF StartWithout, IInv, TypeOK, neutrino, objects, measure, settings
<1>5. ObjectsOK' /\ MeasureOK'
  BY DEF StartWithout, IInv, ObjectsOK, NothingLeaked, Sampler, MeasureOK, RowIsOfItsLaunch,
     neutrino, objects, measure, settings
<1>6. LaunchOK(t)'
  BY <1>1, <1>2, <1>3
     DEF StartWithout, IInv, LaunchOK, InSession, IsSetUp, neutrino, objects, measure
<1>. QED  BY <1>1, <1>3, <1>4, <1>5, <1>6, OthersIdle DEF IInv

(***************************************************************************)
(* The kernel, and end_launch.                                             *)
(***************************************************************************)
LEMMA LaunchedStep ==
  ASSUME IInv, NEW t \in Thread, Launched(t), UNCHANGED settings
  PROVE  IInv'
<1>1. InSession(t) /\ at[t] = "launched" /\ InLaunch(t) /\ active /\ active'
  BY DEF Launched, IInv, PlacesOK, InSession, InLaunch, session
<1>2. /\ PlacesOK' /\ at' \in [Thread -> Place] /\ at'[t] = "end" /\ owner' = owner
      /\ \A u \in Thread : u # t => at'[u] = at[u]
  BY <1>1, GoPlaces DEF Launched, Go, Place
<1>3. TypeOK'
  BY <1>2 DEF Launched, IInv, TypeOK, neutrino, session, objects, measure, settings
<1>4. ObjectsOK' /\ MeasureOK'
  BY DEF Launched, IInv, ObjectsOK, NothingLeaked, Sampler, MeasureOK, RowIsOfItsLaunch,
     neutrino, session, objects, measure, settings
<1>5. LaunchOK(t)'
  BY <1>1, <1>2 DEF Launched, IInv, LaunchOK, InSession, IsSetUp, Sampler,
     neutrino, session, objects, measure
<1>. QED  BY <1>1, <1>2, <1>3, <1>4, <1>5, OthersIdle DEF IInv

\* With the only launching thread after a failed begin, no session is active.
LEMMA StrayEndStep ==
  ASSUME IInv, NEW t \in Thread, StrayEnd(t), UNCHANGED settings
  PROVE  IInv'
<1>1. \A u \in Thread : at[u] # "idle" => u = t
  BY DEF StrayEnd, IInv, PlacesOK
<1>2. ~active /\ owner = Nobody /\ \A u \in Thread : at[u] \in {"idle", "failed"}
  BY <1>1 DEF StrayEnd, IInv, TypeOK, PlacesOK, InSession, InLaunch
<1>3. owner' = Nobody /\ at' = [at EXCEPT ![t] = "idle"] /\ ~active'
  BY <1>2 DEF StrayEnd, session
<1>4. at' \in [Thread -> Place] /\ \A u \in Thread : at'[u] \in {"idle", "failed"}
      /\ (at'[u] # "idle" => at[u] = at'[u])
  BY <1>2, <1>3 DEF IInv, TypeOK, Place
<1>5. PlacesOK'
  BY <1>3, <1>4, SessionAssumption DEF IInv, PlacesOK, InSession, InLaunch, settings
<1>6. TypeOK'
  BY <1>3, <1>4 DEF StrayEnd, IInv, TypeOK, neutrino, session, objects, measure, settings
<1>7. ObjectsOK' /\ MeasureOK'
  BY DEF StrayEnd, IInv, ObjectsOK, NothingLeaked, Sampler, MeasureOK, RowIsOfItsLaunch,
     neutrino, session, objects, measure, settings
<1>. QED  BY <1>4, <1>5, <1>6, <1>7, FailedLaunch DEF IInv

LEMMA MeasureDurationStep ==
  ASSUME IInv, NEW t \in Thread, MeasureDuration(t), UNCHANGED settings
  PROVE  IInv'
<1> DEFINE place == IF sampling THEN "stop" ELSE "write"
<1>1. InSession(t) /\ at[t] = "end" /\ InLaunch(t) /\ active /\ active'
  BY DEF MeasureDuration, IInv, PlacesOK, InSession, InLaunch, session
<1>2. /\ PlacesOK' /\ at' \in [Thread -> Place] /\ at'[t] = place /\ owner' = owner
      /\ \A u \in Thread : u # t => at'[u] = at[u]
  BY <1>1, GoPlaces DEF MeasureDuration, Go, Place
<1>3. duration' \subseteq {launch} /\ launch \in Launch
  BY <1>1 DEF MeasureDuration, IInv, LaunchOK, MeasureOK, InSession
<1>4. TypeOK'
  BY <1>2, <1>3 DEF MeasureDuration, IInv, TypeOK, neutrino, session, objects, settings
<1>5. ObjectsOK' /\ MeasureOK'
  BY <1>3 DEF MeasureDuration, IInv, ObjectsOK, NothingLeaked, Sampler, MeasureOK, RowIsOfItsLaunch,
     neutrino, session, objects, settings
<1>6. LaunchOK(t)'
  BY <1>1, <1>2, <1>3 DEF MeasureDuration, IInv, LaunchOK, InSession, IsSetUp, Sampler,
     neutrino, session, objects
<1>. QED  BY <1>1, <1>2, <1>4, <1>5, <1>6, OthersIdle DEF IInv

LEMMA StopSamplingStep ==
  ASSUME IInv, NEW t \in Thread, StopSampling(t), UNCHANGED settings
  PROVE  IInv'
<1>1. InSession(t) /\ at[t] = "stop" /\ InLaunch(t) /\ active /\ active'
  BY DEF StopSampling, IInv, PlacesOK, InSession, InLaunch, session
<1>2. /\ PlacesOK' /\ at' \in [Thread -> Place] /\ at'[t] = "write" /\ owner' = owner
      /\ \A u \in Thread : u # t => at'[u] = at[u]
  BY <1>1, GoPlaces DEF StopSampling, Go, Place
<1>3. values' \subseteq {launch} /\ launch \in Launch /\ running' \subseteq running
  BY <1>1 DEF StopSampling, Evaluated, IInv, LaunchOK, MeasureOK, InSession
<1>4. TypeOK'
  BY <1>2, <1>3 DEF StopSampling, IInv, TypeOK, neutrino, session, objects, settings
<1>5. ObjectsOK' /\ MeasureOK'
  BY <1>3 DEF StopSampling, IInv, ObjectsOK, NothingLeaked, Sampler, MeasureOK, RowIsOfItsLaunch,
     neutrino, session, objects, settings
<1>6. LaunchOK(t)'
  BY <1>1, <1>2, <1>3 DEF StopSampling, IInv, LaunchOK, InSession, IsSetUp,
     neutrino, session, objects
<1>. QED  BY <1>1, <1>2, <1>4, <1>5, <1>6, OthersIdle DEF IInv

LEMMA WriteRowStep ==
  ASSUME IInv, NEW t \in Thread, WriteRow(t), UNCHANGED settings
  PROVE  IInv'
<1>1. InSession(t)
  BY DEF WriteRow, InSession
<1>2. owner' = Nobody /\ at' = [at EXCEPT ![t] = "idle"] /\ ~active' /\ sampling' = FALSE
  BY DEF WriteRow
<1>3. /\ at' \in [Thread -> Place]
      /\ \A u \in Thread : at'[u] \in {"idle", "failed"} /\ (at'[u] # "idle" => at[u] = at'[u])
  BY <1>1, <1>2, OnlyOne DEF IInv, TypeOK, Place
<1>4. PlacesOK'
  BY <1>2, <1>3, SessionAssumption DEF IInv, PlacesOK, InSession, InLaunch, settings
<1>5. row' = [launch |-> launch, values |-> values, duration |-> duration]
  BY DEF WriteRow, Row
<1>6. TypeOK'
  <2>1. row' \in [launch : 0..Launches, values : SUBSET Launch, duration : SUBSET Launch]
    BY <1>5 DEF IInv, TypeOK
  <2>. QED  BY <1>2, <1>3, <2>1 DEF WriteRow, IInv, TypeOK, neutrino, objects, measure, settings
<1>7. MeasureOK'
  BY <1>5 DEF WriteRow, IInv, MeasureOK, RowIsOfItsLaunch, neutrino, measure
<1>8. ObjectsOK'
  BY DEF WriteRow, IInv, ObjectsOK, NothingLeaked, Sampler, objects, settings
<1>. QED  BY <1>3, <1>4, <1>6, <1>7, <1>8, FailedLaunch DEF IInv

LEMMA FiniStep ==
  ASSUME IInv, Fini, UNCHANGED settings
  PROVE  IInv'
<1>1. ref' = [k \in Object |-> None] /\ \A k \in Object : ref'[k] = None
  BY DEF Fini, NoRefs
<1>2. /\ at' = at /\ owner' = owner /\ mine' = mine /\ launches' = launches /\ over' = TRUE
      /\ live' \subseteq live \ Destroyed /\ running' \subseteq running
      /\ ready' = FALSE /\ context' = NoContext /\ metrics' = FALSE /\ sampling' = FALSE /\ data' = {}
      /\ launch' = launch /\ active' = active /\ setups' = setups /\ begun' = begun
      /\ values' = values /\ duration' = duration /\ row' = row
      /\ disables' = disables /\ endsFailed' = endsFailed /\ users' = users
  BY DEF Fini, lock, settings
<1>3. TypeOK'
  <2>1. ref' \in [Object -> 0..setups']
    BY <1>1, <1>2 DEF IInv, TypeOK, None
  <2>2. live' \subseteq Object \X (1..setups') /\ running' \subseteq (1..setups') \X Launch
    BY <1>2 DEF IInv, TypeOK
  <2>. QED  BY <1>2, <2>1, <2>2 DEF IInv, TypeOK
<1>4. PlacesOK'
  BY <1>2 DEF IInv, PlacesOK, InSession, InLaunch
<1>5. ObjectsOK'
  <2>1. ASSUME NEW o \in live' PROVE o[1] = "sampler" /\ ~disables'
    <3>1. o \in live /\ o \notin Destroyed /\ o \in Object \X (1..setups)
      BY <1>2 DEF IInv, TypeOK
    <3>2. o = <<o[1], o[2]>> /\ o[1] \in Object
      BY <3>1
    <3>3. o[2] = ref[o[1]] => o[1] = "sampler" /\ ~disables
      BY <3>1, <3>2 DEF Destroyed
    <3>. QED  BY <1>2, <3>1, <3>3 DEF IInv, ObjectsOK, NothingLeaked
  <2>. QED  BY <1>1, <1>2, <2>1 DEF ObjectsOK, NothingLeaked
<1>6. MeasureOK'
  BY <1>2 DEF IInv, MeasureOK, RowIsOfItsLaunch
<1>7. \A u \in Thread : at'[u] \in {"idle", "failed"}
  BY <1>2 DEF Fini
<1>. QED  BY <1>3, <1>4, <1>5, <1>6, <1>7, FailedLaunch DEF IInv

LEMMA StutterStep ==
  ASSUME IInv, UNCHANGED vars
  PROVE  IInv'
<1>1. TypeOK'
  BY DEF vars, settings, lock, neutrino, session, objects, measure, IInv, TypeOK
<1>2. PlacesOK'
  BY DEF vars, settings, lock, neutrino, session, objects, measure,
     IInv, PlacesOK, InSession, InLaunch
<1>3. ObjectsOK' /\ MeasureOK'
  BY DEF vars, settings, lock, neutrino, session, objects, measure,
     IInv, ObjectsOK, NothingLeaked, Sampler, MeasureOK, RowIsOfItsLaunch
<1>4. \A t \in Thread : LaunchOK(t)'
  BY DEF vars, settings, lock, neutrino, session, objects, measure,
     IInv, LaunchOK, InSession, IsSetUp, Sampler
<1>. QED  BY <1>1, <1>2, <1>3, <1>4 DEF IInv

(***************************************************************************)
(* Every step of the plugin keeps the invariant.                           *)
(***************************************************************************)
LEMMA Step ==
  ASSUME IInv, [Next]_vars
  PROVE  IInv'
<1>1. CASE UNCHANGED vars
  BY <1>1, StutterStep
<1>2. ASSUME NEW t \in users, Begin(t), UNCHANGED settings PROVE IInv'
  BY <1>2, BeginStep
<1>3. ASSUME NEW t \in users, ThreadStep(t), UNCHANGED settings PROVE IInv'
  <2>1. t \in Thread
    BY DEF IInv, TypeOK
  <2>. QED  BY <1>3, <2>1, BeginFailsStep, AlreadySetUpStep, SetUpStep, PrepareCounterDataStep,
               RecordStartStep, StartSamplingStep, StartWithoutStep, LaunchedStep, StrayEndStep,
               MeasureDurationStep, StopSamplingStep, WriteRowStep DEF ThreadStep
<1>4. ASSUME Fini, UNCHANGED settings PROVE IInv'
  BY <1>4, FiniStep
<1>. QED  BY <1>1, <1>2, <1>3, <1>4 DEF Next

(***************************************************************************)
(* The invariant holds for any threads, contexts and number of launches    *)
(* of memory.cc, whichever driver and CUPTI calls fail.                    *)
(***************************************************************************)
THEOREM Inductive == Spec => []IInv
<1>1. Init => IInv
  BY InitInv
<1>2. IInv /\ [Next]_vars => IInv'
  BY Step
<1>. QED  BY <1>1, <1>2, PTL DEF Spec

LEMMA LockMatchesSessionOf == IInv => LockMatchesSession
<1> SUFFICES ASSUME IInv PROVE LockMatchesSession
  OBVIOUS
<1>1. ASSUME NEW t \in Thread, InSession(t), active PROVE ready /\ context = mine[t]
  <2>1. PICK u \in Thread : InLaunch(u)
    BY <1>1 DEF IInv, PlacesOK
  <2>2. u = t
    BY <1>1, <2>1 DEF IInv, PlacesOK, InSession, InLaunch
  <2>. QED  BY <2>1, <2>2 DEF IInv, LaunchOK, InLaunch, IsSetUp
<1>. QED  BY <1>1 DEF IInv, PlacesOK, LockMatchesSession

LEMMA ObjectsAreOwnedOf == IInv => ObjectsAreOwned
<1> SUFFICES ASSUME IInv PROVE ObjectsAreOwned
  OBVIOUS
<1>1. NothingLeaked
  BY DEF IInv, ObjectsOK
<1>2. ASSUME active PROVE ready
  BY <1>2 DEF IInv, PlacesOK, LaunchOK, InLaunch, IsSetUp
<1>3. SessionUsesItsObjects
  <2>1. ASSUME active, NEW k \in Object, ref[k] # None
        PROVE  <<k, ref[k]>> \in live /\ ref[k] = ref["start"]
    BY <1>2, <2>1 DEF IInv, ObjectsOK, Object
  <2>2. active => ref["end"] # None
    BY <1>2 DEF IInv, ObjectsOK
  <2>3. ASSUME NEW t \in Thread, at[t] \in {"launched", "end"}, sampling
        PROVE  <<Sampler, launch>> \in running
    BY <2>3 DEF IInv, LaunchOK
  <2>. QED  BY <2>1, <2>2, <2>3 DEF SessionUsesItsObjects
<1>. QED  BY <1>1, <1>3 DEF ObjectsAreOwned

(***************************************************************************)
(* The mutex is with the thread that is in a session, from the lock of     *)
(* begin_launch to the unlock of end_launch or of a failing call, and an   *)
(* active session is of the context that is set up.                        *)
(***************************************************************************)
THEOREM LockMatchesSessionHolds == Spec => []LockMatchesSession
BY LockMatchesSessionOf, Inductive, PTL

(***************************************************************************)
(* A row of the CSV that memory.cc writes never mixes two launches.        *)
(***************************************************************************)
THEOREM RowIsOfItsLaunchHolds == Spec => []RowIsOfItsLaunch
<1>1. IInv => RowIsOfItsLaunch
  BY DEF IInv, MeasureOK
<1>. QED  BY <1>1, Inductive, PTL

(***************************************************************************)
(* A session of memory.cc uses objects of one setup that still exist, and  *)
(* only samplers that teardown leaves alone are ever leaked.               *)
(***************************************************************************)
THEOREM ObjectsAreOwnedHolds == Spec => []ObjectsAreOwned
BY ObjectsAreOwnedOf, Inductive, PTL

------------------------------------------------------------------------------
(***************************************************************************)
(* The buffers of either plugin.                                           *)
(***************************************************************************)
InAttempt == call # Fabric!NoCall

\* What the running attempt has behind it, or the one that succeeded.
Created(k) ==
  \/ prepared
  \/ call.op \in {"exchange", "view", "alloc"}
  \/ call.op = "create" /\ k < call.what

Viewed(k, r) ==
  \/ prepared
  \/ call.op = "alloc"
  \/ call.op = "view" /\ (r < call.who \/ (r = call.who /\ k < call.what))

Filled(m) == prepared \/ (call.op = "alloc" /\ m < call.what)

AttemptOK ==
  /\ InAttempt => attempt # 0 /\ ~prepared /\ ~over
  /\ prepared => attempt # 0 /\ ~over
  /\ ~InAttempt /\ ~prepared /\ ~over => attempt = 0 \/ attempt \in failed

BehindOK ==
  /\ \A k \in Fabric!Kind : Created(k) =>
       /\ local[k] = attempt
       /\ hRef[k][Me] = attempt
  /\ \A k \in Fabric!Kind, r \in Fabric!Rank : Viewed(k, r) =>
       /\ vRef[k][r] = attempt
       /\ hRef[k][r] = attempt
  /\ \A m \in Fabric!Memory : Filled(m) => mRef[m] = attempt

\* What was made is of a failed attempt, or of this one and referred to.
HeldOK ==
  /\ \A k \in Fabric!Kind, r \in Fabric!Rank, a \in Fabric!Attempt :
       /\ <<k, r, a>> \in handles =>
            a \in failed \/ (a = attempt /\ (InAttempt \/ prepared))
       /\ <<k, r, a>> \in maps =>
            a \in failed \/ (a = attempt /\ (InAttempt \/ prepared))
  /\ \A m \in Fabric!Memory, a \in Fabric!Attempt :
       <<m, a>> \in memory =>
            a \in failed \/ (a = attempt /\ (InAttempt \/ prepared))

BuffersInv == Fabric!TypeOK /\ Fabric!NoDanglingReference /\ AttemptOK /\ BehindOK /\ HeldOK

LEMMA FabricTypes ==
  ASSUME Fabric!TypeOK
  PROVE  /\ Kinds[plugin] \in Nat \ {0} /\ Scratch[plugin] \in Nat \ {0}
         /\ Ranks \in Nat \ {0} /\ Me \in Fabric!Rank /\ MaxAttempts \in Nat
BY FabricAssumption DEF Fabric!TypeOK, Fabric!FabricConstants, Fabric!Rank

\* An attempt that has not returned is at one of its calls.
LEMMA Calls ==
  ASSUME Fabric!TypeOK
  PROVE  /\ ~InAttempt <=> call.op = "none"
         /\ call.op = "create" => call.what \in Fabric!Kind
         /\ call.op = "view" => call.what \in Fabric!Kind /\ call.who \in Fabric!Rank
         /\ call.op = "alloc" => call.what \in Fabric!Memory
BY DEF Fabric!TypeOK, InAttempt, Fabric!NoCall, Fabric!Call

LEMMA BuffersInit == Fabric!Init => BuffersInv
<1> SUFFICES ASSUME Fabric!Init PROVE BuffersInv
  OBVIOUS
<1> USE FabricAssumption DEF Fabric!Init, Fabric!NoRefs, Fabric!NoLocal, Fabric!NoMemory, Fabric!None
<1>1. Fabric!TypeOK
  <2>1. prepared \in BOOLEAN /\ over \in BOOLEAN
    OBVIOUS
  <2>2. 0 \in 0..MaxAttempts
    BY DEF Fabric!FabricConstants
  <2>3. /\ hRef \in [Fabric!Kind -> [Fabric!Rank -> 0..MaxAttempts]]
        /\ vRef \in [Fabric!Kind -> [Fabric!Rank -> 0..MaxAttempts]]
        /\ local \in [Fabric!Kind -> 0..MaxAttempts]
        /\ mRef \in [Fabric!Memory -> 0..MaxAttempts]
    BY <2>2
  <2>. QED  BY <2>1, <2>2, <2>3 DEF Fabric!TypeOK
<1>2. Fabric!NoDanglingReference
  BY DEF Fabric!NoDanglingReference
<1>3. AttemptOK
  BY DEF AttemptOK, InAttempt
<1>4. BehindOK
  BY DEF BehindOK, Created, Viewed, Filled, Fabric!NoCall, Fabric!Call
<1>5. HeldOK
  BY DEF HeldOK
<1>. QED  BY <1>1, <1>2, <1>3, <1>4, <1>5 DEF BuffersInv

(***************************************************************************)
(* A call that succeeds goes on, one that fails ends the attempt: in both  *)
(* cases what the attempt made stays accounted for.                        *)
(***************************************************************************)
CallReturned ==
  /\ plugin' = plugin /\ attempt' = attempt /\ over' = over
  /\ \/ prepared' = (call' = Fabric!NoCall) /\ failed' = failed
     \/ call' = Fabric!NoCall /\ prepared' = prepared /\ failed' = failed \cup {attempt}

LEMMA Running ==
  ASSUME BuffersInv, InAttempt
  PROVE  attempt \in Fabric!Attempt /\ prepared = FALSE /\ ~over
<1>1. attempt # 0 /\ prepared = FALSE /\ ~over /\ attempt \in 0..MaxAttempts /\ MaxAttempts \in Nat
  BY FabricTypes DEF BuffersInv, AttemptOK, Fabric!TypeOK
<1>. QED  BY <1>1 DEF Fabric!Attempt

LEMMA AttemptAfterCall ==
  ASSUME BuffersInv, InAttempt, CallReturned
  PROVE  /\ AttemptOK'
         /\ failed \subseteq failed' /\ failed' \subseteq Fabric!Attempt
         /\ prepared' \in BOOLEAN
         /\ InAttempt' \/ prepared' \/ attempt \in failed'
<1>1. attempt # 0 /\ ~prepared /\ ~over /\ attempt \in Fabric!Attempt /\ failed \subseteq Fabric!Attempt
  BY Running DEF BuffersInv, AttemptOK, Fabric!TypeOK
<1>2. CASE prepared' = (call' = Fabric!NoCall) /\ failed' = failed
  BY <1>1, <1>2 DEF CallReturned, AttemptOK, InAttempt
<1>3. CASE call' = Fabric!NoCall /\ prepared' = prepared /\ failed' = failed \cup {attempt}
  <2>1. prepared' = FALSE
    BY <1>1, <1>3 DEF BuffersInv, Fabric!TypeOK
  <2>. QED  BY <1>1, <1>3, <2>1 DEF CallReturned, AttemptOK, InAttempt
<1>. QED  BY <1>2, <1>3 DEF CallReturned

LEMMA HeldAfterCall ==
  ASSUME BuffersInv, InAttempt, CallReturned,
         \A k, r, a : <<k, r, a>> \in handles' => <<k, r, a>> \in handles \/ a = attempt,
         \A k, r, a : <<k, r, a>> \in maps' => <<k, r, a>> \in maps \/ a = attempt,
         \A m, a : <<m, a>> \in memory' => <<m, a>> \in memory \/ a = attempt
  PROVE  HeldOK'
<1>1. /\ failed \subseteq failed'
      /\ InAttempt' \/ prepared' \/ attempt \in failed'
      /\ attempt' = attempt
      /\ Fabric!Kind' = Fabric!Kind /\ Fabric!Memory' = Fabric!Memory
  BY AttemptAfterCall DEF CallReturned, Fabric!Kind, Fabric!Memory
<1>2. \A a : a \in failed \/ a = attempt =>
        a \in failed' \/ (a = attempt' /\ (InAttempt' \/ prepared'))
  BY <1>1
<1>3. ASSUME NEW k \in Fabric!Kind, NEW r \in Fabric!Rank, NEW a \in Fabric!Attempt
      PROVE  /\ <<k, r, a>> \in handles' => a \in failed \/ a = attempt
             /\ <<k, r, a>> \in maps' => a \in failed \/ a = attempt
  BY <1>3 DEF BuffersInv, HeldOK
<1>4. ASSUME NEW m \in Fabric!Memory, NEW a \in Fabric!Attempt
      PROVE  <<m, a>> \in memory' => a \in failed \/ a = attempt
  BY <1>4 DEF BuffersInv, HeldOK
<1>5. \A k \in Fabric!Kind, r \in Fabric!Rank, a \in Fabric!Attempt :
       /\ <<k, r, a>> \in handles' =>
            a \in failed' \/ (a = attempt' /\ (InAttempt' \/ prepared'))
       /\ <<k, r, a>> \in maps' =>
            a \in failed' \/ (a = attempt' /\ (InAttempt' \/ prepared'))
  BY <1>2, <1>3
<1>6. \A m \in Fabric!Memory, a \in Fabric!Attempt : <<m, a>> \in memory' =>
            a \in failed' \/ (a = attempt' /\ (InAttempt' \/ prepared'))
  BY <1>2, <1>4
<1>. QED  BY <1>1, <1>5, <1>6 DEF HeldOK

\* References stay live when nothing is released and each new one is to
\* something that exists.
LEMMA LiveAfterCall ==
  ASSUME Fabric!NoDanglingReference, plugin' = plugin,
         handles \subseteq handles', maps \subseteq maps', memory \subseteq memory',
         \A k \in Fabric!Kind, r \in Fabric!Rank :
           /\ hRef'[k][r] \in {hRef[k][r], 0} \/ <<k, r, hRef'[k][r]>> \in handles'
           /\ vRef'[k][r] \in {vRef[k][r], 0} \/ <<k, r, vRef'[k][r]>> \in maps',
         \A k \in Fabric!Kind : local'[k] = local[k] \/ <<k, Me, local'[k]>> \in maps',
         \A m \in Fabric!Memory : mRef'[m] = mRef[m] \/ <<m, mRef'[m]>> \in memory'
  PROVE  Fabric!NoDanglingReference'
<1>1. Fabric!Kind' = Fabric!Kind /\ Fabric!Memory' = Fabric!Memory
  BY DEF Fabric!Kind, Fabric!Memory
<1>2. ASSUME NEW k \in Fabric!Kind, NEW r \in Fabric!Rank
      PROVE  /\ hRef'[k][r] # 0 => <<k, r, hRef'[k][r]>> \in handles'
             /\ vRef'[k][r] # 0 => <<k, r, vRef'[k][r]>> \in maps'
  <2>1. /\ hRef[k][r] # 0 => <<k, r, hRef[k][r]>> \in handles
        /\ vRef[k][r] # 0 => <<k, r, vRef[k][r]>> \in maps
    BY DEF Fabric!NoDanglingReference, Fabric!None
  <2>. QED  BY <2>1
<1>3. ASSUME NEW k \in Fabric!Kind PROVE local'[k] # 0 => <<k, Me, local'[k]>> \in maps'
  BY DEF Fabric!NoDanglingReference, Fabric!None
<1>4. ASSUME NEW m \in Fabric!Memory PROVE mRef'[m] # 0 => <<m, mRef'[m]>> \in memory'
  BY DEF Fabric!NoDanglingReference, Fabric!None
<1>. QED  BY <1>1, <1>2, <1>3, <1>4 DEF Fabric!NoDanglingReference, Fabric!None

LEMMA BeginAttemptStep ==
  ASSUME BuffersInv, Fabric!BeginAttempt
  PROVE  BuffersInv'
<1> USE DEF Fabric!BeginAttempt, Fabric!driver
<1>1. /\ plugin' = plugin /\ Fabric!Kind' = Fabric!Kind /\ Fabric!Memory' = Fabric!Memory
      /\ call' = [op |-> "create", what |-> 1, who |-> 1]
      /\ call'.op = "create" /\ call'.what = 1
      /\ attempt' = attempt + 1
  BY DEF Fabric!Kind, Fabric!Memory, Fabric!Call
<1>2. /\ attempt \in Nat /\ MaxAttempts \in Nat /\ attempt < MaxAttempts
      /\ 1 \in Fabric!Kind
  BY FabricTypes DEF BuffersInv, Fabric!TypeOK, Fabric!Kind
<1>3. Fabric!NoRefs \in [Fabric!Kind -> [Fabric!Rank -> 0..MaxAttempts]]
  BY <1>2 DEF Fabric!NoRefs, Fabric!None
<1>4. Fabric!TypeOK'
  <2>1. call' \in [op : {"create"}, what : Fabric!Kind, who : {1}]
    BY <1>1, <1>2
  <2>2. attempt' \in 0..MaxAttempts
    BY <1>2
  <2>. QED  BY <1>1, <1>3, <2>1, <2>2 DEF BuffersInv, Fabric!TypeOK
<1>5. Fabric!NoDanglingReference'
  BY <1>1, LiveAfterCall DEF BuffersInv, Fabric!NoRefs, Fabric!None
<1>6. AttemptOK'
  <2>1. InAttempt' /\ attempt' # 0
    BY <1>1, <1>2 DEF InAttempt, Fabric!NoCall, Fabric!Call
  <2>. QED  BY <2>1 DEF AttemptOK
<1>7. BehindOK'
  <2>1. \A k \in Fabric!Kind : ~Created(k)'
    BY <1>1 DEF Created, Fabric!Kind
  <2>2. \A k, r : ~Viewed(k, r)'
    BY <1>1 DEF Viewed
  <2>3. \A m : ~Filled(m)'
    BY <1>1 DEF Filled
  <2>. QED  BY <1>1, <2>1, <2>2, <2>3 DEF BehindOK
<1>8. HeldOK'
  <2>1. attempt = 0 \/ attempt \in failed
    BY DEF BuffersInv, AttemptOK, InAttempt
  <2>2. \A a \in Fabric!Attempt : a = attempt => a \in failed
    BY <2>1 DEF Fabric!Attempt
  <2>3. /\ \A k \in Fabric!Kind, r \in Fabric!Rank, a \in Fabric!Attempt :
             <<k, r, a>> \in handles \/ <<k, r, a>> \in maps => a \in failed
        /\ \A m \in Fabric!Memory, a \in Fabric!Attempt : <<m, a>> \in memory => a \in failed
    BY <2>2 DEF BuffersInv, HeldOK
  <2>. QED  BY <1>1, <2>3 DEF HeldOK
<1>. QED  BY <1>4, <1>5, <1>6, <1>7, <1>8 DEF BuffersInv

\* After an abort nothing is known to be behind the next attempt.
LEMMA BehindAfterAbort ==
  ASSUME call' = Fabric!NoCall, ~prepared'
  PROVE  BehindOK'
<1>1. call'.op = "none"
  BY DEF Fabric!NoCall, Fabric!Call
<1>. QED  BY <1>1 DEF BehindOK, Created, Viewed, Filled

LEMMA CreateStep ==
  ASSUME BuffersInv, Fabric!Create
  PROVE  BuffersInv'
<1> DEFINE K == call.what
<1>1. PICK done \in 0..4 :
        /\ IF done >= 1
           THEN /\ handles' = handles \cup {<<K, Me, attempt>>}
                /\ hRef' = [hRef EXCEPT ![K][Me] = attempt]
           ELSE UNCHANGED <<handles, hRef>>
        /\ maps' = IF done >= 2 THEN maps \cup {<<K, Me, attempt>>} ELSE maps
        /\ local' = IF done >= 3 THEN [local EXCEPT ![K] = attempt] ELSE local
        /\ Fabric!Outcome(done = 4, Fabric!AfterCreate)
  BY DEF Fabric!Create
<1>2. call.op = "create" /\ UNCHANGED <<plugin, attempt, over, memory, vRef, mRef>>
  BY DEF Fabric!Create
<1>3. /\ InAttempt /\ K \in Fabric!Kind /\ K \in Nat /\ Me \in Fabric!Rank
      /\ attempt \in Fabric!Attempt /\ attempt \in 0..MaxAttempts
      /\ Fabric!Kind' = Fabric!Kind /\ Fabric!Memory' = Fabric!Memory
      /\ Kinds[plugin] \in Nat \ {0}
  <2>1. InAttempt /\ K \in Fabric!Kind
    BY <1>2, Calls DEF BuffersInv
  <2>2. attempt \in 0..MaxAttempts /\ Me \in Fabric!Rank /\ Kinds[plugin] \in Nat \ {0}
    BY FabricTypes DEF BuffersInv, Fabric!TypeOK
  <2>3. K \in Nat
    BY <2>1, <2>2 DEF Fabric!Kind
  <2>4. attempt \in Fabric!Attempt
    BY <2>1, Running
  <2>5. Fabric!Kind' = Fabric!Kind /\ Fabric!Memory' = Fabric!Memory
    BY <1>2 DEF Fabric!Kind, Fabric!Memory
  <2>. QED  BY <2>1, <2>2, <2>3, <2>4, <2>5
<1>4. \/ /\ done = 4
         /\ call' = Fabric!AfterCreate
         /\ call' # Fabric!NoCall /\ prepared' = FALSE /\ failed' = failed
      \/ /\ done < 4
         /\ call' = Fabric!NoCall
         /\ prepared' = FALSE /\ prepared' = prepared /\ failed' = failed \cup {attempt}
  <2>1. CASE done = 4
    <3>1. Fabric!Proceed(Fabric!AfterCreate)
      BY <1>1, <2>1 DEF Fabric!Outcome
    <3>2. Fabric!AfterCreate # Fabric!NoCall
      BY DEF Fabric!AfterCreate, Fabric!NoCall, Fabric!Call
    <3>3. call' = Fabric!AfterCreate /\ prepared' = FALSE /\ failed' = failed
      BY <3>1, <3>2 DEF Fabric!Proceed
    <3>. QED  BY <2>1, <3>2, <3>3
  <2>2. CASE done < 4
    <3>1. Fabric!Abort
      BY <1>1, <2>2 DEF Fabric!Outcome
    <3>2. prepared = FALSE
      BY <1>3, Running
    <3>. QED  BY <2>2, <3>1, <3>2 DEF Fabric!Abort
  <2>3. done = 4 \/ done < 4
    OBVIOUS
  <2>. QED  BY <2>1, <2>2, <2>3
<1>5. CallReturned
  BY <1>2, <1>4 DEF CallReturned
<1>6. \A k \in Fabric!Kind, r \in Fabric!Rank :
        hRef'[k][r] = IF k = K /\ r = Me /\ done >= 1 THEN attempt ELSE hRef[k][r]
  BY <1>1, <1>3 DEF BuffersInv, Fabric!TypeOK
<1>7. \A k \in Fabric!Kind : local'[k] = IF k = K /\ done >= 3 THEN attempt ELSE local[k]
  BY <1>1, <1>3 DEF BuffersInv, Fabric!TypeOK
<1>8. /\ handles' = handles \/ handles' = handles \cup {<<K, Me, attempt>>}
      /\ maps' = maps \/ maps' = maps \cup {<<K, Me, attempt>>}
      /\ done >= 1 => <<K, Me, attempt>> \in handles'
      /\ done >= 3 => <<K, Me, attempt>> \in maps'
  BY <1>1
<1>9. Fabric!TypeOK'
  <2>1. /\ hRef' \in [Fabric!Kind -> [Fabric!Rank -> 0..MaxAttempts]]
        /\ local' \in [Fabric!Kind -> 0..MaxAttempts]
    <3>1. /\ hRef \in [Fabric!Kind -> [Fabric!Rank -> 0..MaxAttempts]]
          /\ local \in [Fabric!Kind -> 0..MaxAttempts]
      BY DEF BuffersInv, Fabric!TypeOK
    <3>2. [hRef EXCEPT ![K][Me] = attempt] \in [Fabric!Kind -> [Fabric!Rank -> 0..MaxAttempts]]
      BY <1>3, <3>1
    <3>3. [local EXCEPT ![K] = attempt] \in [Fabric!Kind -> 0..MaxAttempts]
      BY <1>3, <3>1
    <3>. QED  BY <1>1, <3>1, <3>2, <3>3
  <2>2. /\ handles' \subseteq Fabric!Kind \X Fabric!Rank \X Fabric!Attempt
        /\ maps' \subseteq Fabric!Kind \X Fabric!Rank \X Fabric!Attempt
    BY <1>8, <1>3 DEF BuffersInv, Fabric!TypeOK
  <2>3. call' = Fabric!NoCall \/ call' \in [op : {"create"}, what : Fabric!Kind, who : {1}]
        \/ call' = Fabric!Call("exchange", 1, 1)
    BY <1>3, <1>4 DEF Fabric!AfterCreate, Fabric!Call, Fabric!Kind
  <2>4. failed' \subseteq Fabric!Attempt /\ prepared' \in BOOLEAN
    BY <1>3, <1>5, AttemptAfterCall
  <2>. QED  BY <1>2, <1>3, <2>1, <2>2, <2>3, <2>4 DEF BuffersInv, Fabric!TypeOK
<1>10. Fabric!NoDanglingReference'
  BY <1>2, <1>6, <1>7, <1>8, LiveAfterCall DEF BuffersInv
<1>11. AttemptOK'
  BY <1>3, <1>5, AttemptAfterCall
<1>12. BehindOK'
  <2>1. CASE done < 4
    BY <1>4, <2>1, BehindAfterAbort
  <2>2. CASE done = 4
    <3>1. \A k \in Fabric!Kind : Created(k)' => k < K \/ k = K
      BY <1>3, <1>4, <2>2 DEF Created, Fabric!AfterCreate, Fabric!Call, Fabric!Kind
    <3>2. \A k \in Fabric!Kind : k < K => local[k] = attempt /\ hRef[k][Me] = attempt
      BY <1>2 DEF BuffersInv, BehindOK, Created
    <3>3. \A k, r : ~Viewed(k, r)'
      BY <1>4, <2>2 DEF Viewed, Fabric!AfterCreate, Fabric!Call
    <3>4. \A m : ~Filled(m)'
      BY <1>4, <2>2 DEF Filled, Fabric!AfterCreate, Fabric!Call
    <3>. QED  BY <1>2, <1>3, <1>6, <1>7, <2>2, <3>1, <3>2, <3>3, <3>4 DEF BehindOK
  <2>3. done = 4 \/ done < 4
    OBVIOUS
  <2>. QED  BY <2>1, <2>2, <2>3
<1>13. HeldOK'
  BY <1>2, <1>3, <1>5, <1>8, HeldAfterCall
<1>. QED  BY <1>9, <1>10, <1>11, <1>12, <1>13 DEF BuffersInv

LEMMA ExchangeStep ==
  ASSUME BuffersInv, Fabric!Exchange
  PROVE  BuffersInv'
<1>1. /\ call.op = "exchange"
      /\ UNCHANGED <<plugin, attempt, over, handles, maps, memory, hRef, vRef, local, mRef>>
  BY DEF Fabric!Exchange, Fabric!driver, Fabric!refs
<1>2. PICK ok \in BOOLEAN : Fabric!Outcome(ok, Fabric!Call("view", 1, 1))
  BY DEF Fabric!Exchange
<1>3. InAttempt /\ Fabric!Kind' = Fabric!Kind /\ Fabric!Memory' = Fabric!Memory
  BY <1>1, Calls DEF BuffersInv, Fabric!Kind, Fabric!Memory
<1>4. 1 \in Fabric!Kind /\ 1 \in Fabric!Rank
  BY FabricTypes DEF BuffersInv, Fabric!Kind, Fabric!Rank
<1>5. \/ call' = Fabric!Call("view", 1, 1) /\ prepared' = FALSE /\ failed' = failed
      \/ call' = Fabric!NoCall /\ prepared' = FALSE /\ prepared' = prepared
         /\ failed' = failed \cup {attempt}
  <2>1. CASE ok
    <3>1. Fabric!Proceed(Fabric!Call("view", 1, 1))
      BY <1>2, <2>1 DEF Fabric!Outcome
    <3>2. Fabric!Call("view", 1, 1) # Fabric!NoCall
      BY DEF Fabric!NoCall, Fabric!Call
    <3>. QED  BY <3>1, <3>2 DEF Fabric!Proceed
  <2>2. CASE ~ok
    <3>1. Fabric!Abort
      BY <1>2, <2>2 DEF Fabric!Outcome
    <3>2. prepared = FALSE
      BY <1>3, Running
    <3>. QED  BY <3>1, <3>2 DEF Fabric!Abort
  <2>. QED  BY <2>1, <2>2
<1>6. CallReturned
  <2>1. Fabric!Call("view", 1, 1) # Fabric!NoCall
    BY DEF Fabric!NoCall, Fabric!Call
  <2>. QED  BY <1>1, <1>5, <2>1 DEF CallReturned
<1>7. Fabric!TypeOK'
  <2>1. call' = Fabric!NoCall \/ call' \in [op : {"view"}, what : Fabric!Kind, who : Fabric!Rank]
    BY <1>4, <1>5 DEF Fabric!Call
  <2>2. failed' \subseteq Fabric!Attempt /\ prepared' \in BOOLEAN
    BY <1>3, <1>6, AttemptAfterCall
  <2>. QED  BY <1>1, <1>3, <2>1, <2>2 DEF BuffersInv, Fabric!TypeOK
<1>8. Fabric!NoDanglingReference'
  BY <1>1, LiveAfterCall DEF BuffersInv
<1>9. AttemptOK'
  BY <1>3, <1>6, AttemptAfterCall
<1>10. BehindOK'
  <2>1. CASE call' = Fabric!NoCall
    BY <1>5, <2>1, BehindAfterAbort
  <2>2. CASE call' = Fabric!Call("view", 1, 1) /\ prepared' = FALSE
    <3>1. \A k \in Fabric!Kind : Created(k)
      BY <1>1 DEF Created
    <3>2. \A k \in Fabric!Kind, r \in Fabric!Rank : ~Viewed(k, r)'
      BY <2>2 DEF Viewed, Fabric!Call, Fabric!Kind, Fabric!Rank
    <3>3. \A m : ~Filled(m)'
      BY <2>2 DEF Filled, Fabric!Call
    <3>. QED  BY <1>1, <1>3, <3>1, <3>2, <3>3 DEF BuffersInv, BehindOK
  <2>. QED  BY <1>5, <2>1, <2>2
<1>11. HeldOK'
  BY <1>1, <1>3, <1>6, HeldAfterCall
<1>. QED  BY <1>7, <1>8, <1>9, <1>10, <1>11 DEF BuffersInv

\* The loop over the ranks and, for each of them, over the kinds.
LEMMA NextView ==
  ASSUME BuffersInv, call.op = "view", plugin' = plugin,
         call' = Fabric!AfterView, prepared' = FALSE
  PROVE  /\ call' # Fabric!NoCall
         /\ \/ call' \in [op : {"view"}, what : Fabric!Kind, who : Fabric!Rank]
            \/ call' \in [op : {"alloc"}, what : Fabric!Memory, who : {1}]
         /\ \A k \in Fabric!Kind, r \in Fabric!Rank :
              Viewed(k, r)' => Viewed(k, r) \/ (k = call.what /\ r = call.who)
         /\ \A k \in Fabric!Kind : Created(k)
         /\ \A m \in Fabric!Memory : ~Filled(m)'
<1> DEFINE K == call.what
           R == call.who
<1>1. /\ Kinds[plugin] \in Nat \ {0} /\ Ranks \in Nat \ {0} /\ Scratch[plugin] \in Nat \ {0}
      /\ K \in 1..Kinds[plugin] /\ R \in 1..Ranks
  BY FabricTypes, Calls DEF BuffersInv, Fabric!Kind, Fabric!Rank
<1>2. \A k \in Fabric!Kind : Created(k)
  BY DEF Created
<1>3. CASE K < Kinds[plugin]
  <2>1. call' = [op |-> "view", what |-> K + 1, who |-> R]
    BY <1>3 DEF Fabric!AfterView, Fabric!Call
  <2>2. K + 1 \in Fabric!Kind /\ R \in Fabric!Rank
    BY <1>1, <1>3 DEF Fabric!Kind, Fabric!Rank
  <2>3. call'.op = "view" /\ call'.what = K + 1 /\ call'.who = R
    BY <2>1
  <2>4. call' # Fabric!NoCall
    BY <2>3 DEF Fabric!NoCall, Fabric!Call
  <2>5. ASSUME NEW k \in Fabric!Kind, NEW r \in Fabric!Rank, Viewed(k, r)'
        PROVE  Viewed(k, r) \/ (k = K /\ r = R)
    <3>1. r < R \/ (r = R /\ k < K + 1)
      BY <2>3, <2>5 DEF Viewed
    <3>2. k \in Nat /\ K \in Nat
      BY <1>1 DEF Fabric!Kind
    <3>. QED  BY <3>1, <3>2 DEF Viewed
  <2>. QED  BY <1>2, <2>1, <2>2, <2>3, <2>4, <2>5 DEF Filled
<1>4. CASE ~(K < Kinds[plugin]) /\ R < Ranks
  <2>1. call' = [op |-> "view", what |-> 1, who |-> R + 1]
    BY <1>4 DEF Fabric!AfterView, Fabric!Call
  <2>2. 1 \in Fabric!Kind /\ R + 1 \in Fabric!Rank
    BY <1>1, <1>4 DEF Fabric!Kind, Fabric!Rank
  <2>3. call'.op = "view" /\ call'.what = 1 /\ call'.who = R + 1
    BY <2>1
  <2>4. call' # Fabric!NoCall
    BY <2>3 DEF Fabric!NoCall, Fabric!Call
  <2>5. ASSUME NEW k \in Fabric!Kind, NEW r \in Fabric!Rank, Viewed(k, r)'
        PROVE  Viewed(k, r) \/ (k = K /\ r = R)
    <3>1. r < R + 1 \/ (r = R + 1 /\ k < 1)
      BY <2>3, <2>5 DEF Viewed
    <3>2. k \in 1..Kinds[plugin] /\ r \in 1..Ranks
      BY DEF Fabric!Kind, Fabric!Rank
    <3>3. r < R \/ (r = R /\ (k < K \/ k = K))
      BY <1>1, <1>4, <3>1, <3>2
    <3>. QED  BY <3>3 DEF Viewed
  <2>. QED  BY <1>2, <2>1, <2>2, <2>3, <2>4, <2>5 DEF Filled
<1>5. CASE ~(K < Kinds[plugin]) /\ ~(R < Ranks)
  <2>1. call' = [op |-> "alloc", what |-> 1, who |-> 1]
    BY <1>5 DEF Fabric!AfterView, Fabric!Call
  <2>2. 1 \in Fabric!Memory
    BY <1>1 DEF Fabric!Memory
  <2>3. call'.op = "alloc" /\ call'.what = 1
    BY <2>1
  <2>4. call' # Fabric!NoCall
    BY <2>3 DEF Fabric!NoCall, Fabric!Call
  <2>5. ASSUME NEW k \in Fabric!Kind, NEW r \in Fabric!Rank
        PROVE  Viewed(k, r) \/ (k = K /\ r = R)
    <3>1. k \in 1..Kinds[plugin] /\ r \in 1..Ranks
      BY DEF Fabric!Kind, Fabric!Rank
    <3>2. r < R \/ (r = R /\ (k < K \/ k = K))
      BY <1>1, <1>5, <3>1
    <3>. QED  BY <3>2 DEF Viewed
  <2>6. \A m \in Fabric!Memory : ~Filled(m)'
    BY <2>3 DEF Filled, Fabric!Memory
  <2>. QED  BY <1>2, <2>1, <2>2, <2>4, <2>5, <2>6
<1>. QED  BY <1>3, <1>4, <1>5

LEMMA AdoptStep ==
  ASSUME BuffersInv, Fabric!Adopt
  PROVE  BuffersInv'
<1> DEFINE K == call.what
<1>1. /\ call.op = "view" /\ call.who = Me
      /\ vRef' = [vRef EXCEPT ![K][Me] = local[K]]
      /\ UNCHANGED <<plugin, attempt, over, handles, maps, memory, hRef, local, mRef>>
  BY DEF Fabric!Adopt, Fabric!driver
<1>2. /\ InAttempt /\ K \in Fabric!Kind /\ Me \in Fabric!Rank
      /\ Fabric!Kind' = Fabric!Kind /\ Fabric!Memory' = Fabric!Memory
  BY <1>1, Calls DEF BuffersInv, Fabric!Kind, Fabric!Memory
<1>3. call' = Fabric!AfterView /\ prepared' = (Fabric!AfterView = Fabric!NoCall) /\ failed' = failed
  BY DEF Fabric!Adopt, Fabric!Proceed
<1>4. prepared' = FALSE
  <2>1. Fabric!AfterView # Fabric!NoCall
    BY DEF Fabric!AfterView, Fabric!NoCall, Fabric!Call
  <2>. QED  BY <1>3, <2>1
<1>5. CallReturned
  BY <1>1, <1>3 DEF CallReturned
<1>6. local[K] = attempt /\ hRef[K][Me] = attempt /\ attempt # 0 /\ local[K] \in 0..MaxAttempts
  BY <1>1, <1>2, Running DEF BuffersInv, BehindOK, Created, AttemptOK, Fabric!TypeOK
<1>7. <<K, Me, local[K]>> \in maps
  BY <1>2, <1>6 DEF BuffersInv, Fabric!NoDanglingReference, Fabric!None
<1>8. \A k \in Fabric!Kind, r \in Fabric!Rank :
        vRef'[k][r] = IF k = K /\ r = Me THEN attempt ELSE vRef[k][r]
  BY <1>1, <1>2, <1>6 DEF BuffersInv, Fabric!TypeOK
<1>9. Fabric!TypeOK'
  <2>1. vRef \in [Fabric!Kind -> [Fabric!Rank -> 0..MaxAttempts]]
    BY DEF BuffersInv, Fabric!TypeOK
  <2>2. vRef' \in [Fabric!Kind -> [Fabric!Rank -> 0..MaxAttempts]]
    BY <1>1, <1>2, <1>6, <2>1
  <2>3. failed' \subseteq Fabric!Attempt /\ prepared' \in BOOLEAN
    BY <1>2, <1>5, AttemptAfterCall
  <2>4. \/ call' \in [op : {"view"}, what : Fabric!Kind, who : Fabric!Rank]
        \/ call' \in [op : {"alloc"}, what : Fabric!Memory, who : {1}]
    BY <1>1, <1>3, <1>4, NextView
  <2>. QED  BY <1>1, <1>2, <2>2, <2>3, <2>4 DEF BuffersInv, Fabric!TypeOK
<1>10. Fabric!NoDanglingReference'
  BY <1>1, <1>6, <1>7, <1>8, LiveAfterCall DEF BuffersInv
<1>11. AttemptOK'
  BY <1>2, <1>5, AttemptAfterCall
<1>12. BehindOK'
  <2>1. /\ \A k \in Fabric!Kind, r \in Fabric!Rank :
             Viewed(k, r)' => Viewed(k, r) \/ (k = K /\ r = Me)
        /\ \A k \in Fabric!Kind : Created(k)
        /\ \A m \in Fabric!Memory : ~Filled(m)'
    BY <1>1, <1>3, <1>4, NextView
  <2>2. /\ \A k \in Fabric!Kind : local[k] = attempt /\ hRef[k][Me] = attempt
        /\ \A k \in Fabric!Kind, r \in Fabric!Rank :
             Viewed(k, r) => vRef[k][r] = attempt /\ hRef[k][r] = attempt
    BY <2>1 DEF BuffersInv, BehindOK
  <2>. QED  BY <1>1, <1>2, <1>6, <1>8, <2>1, <2>2 DEF BehindOK
<1>13. HeldOK'
  BY <1>1, <1>2, <1>5, HeldAfterCall
<1>. QED  BY <1>9, <1>10, <1>11, <1>12, <1>13 DEF BuffersInv

LEMMA ImportStep ==
  ASSUME BuffersInv, Fabric!Import
  PROVE  BuffersInv'
<1> DEFINE K == call.what
           R == call.who
<1>1. PICK done \in 0..3 :
        /\ IF done >= 1
           THEN /\ handles' = handles \cup {<<K, R, attempt>>}
                /\ hRef' = [hRef EXCEPT ![K][R] = attempt]
           ELSE UNCHANGED <<handles, hRef>>
        /\ maps' = IF done >= 2 THEN maps \cup {<<K, R, attempt>>} ELSE maps
        /\ vRef' = IF done = 3 THEN [vRef EXCEPT ![K][R] = attempt] ELSE vRef
        /\ Fabric!Outcome(done = 3, Fabric!AfterView)
  BY DEF Fabric!Import
<1>2. /\ call.op = "view" /\ R # Me
      /\ UNCHANGED <<plugin, attempt, over, memory, local, mRef>>
  BY DEF Fabric!Import
<1>3. /\ InAttempt /\ K \in Fabric!Kind /\ R \in Fabric!Rank
      /\ attempt \in Fabric!Attempt /\ attempt \in 0..MaxAttempts
      /\ Fabric!Kind' = Fabric!Kind /\ Fabric!Memory' = Fabric!Memory
  <2>1. InAttempt /\ K \in Fabric!Kind /\ R \in Fabric!Rank
    BY <1>2, Calls DEF BuffersInv
  <2>2. attempt \in 0..MaxAttempts
    BY DEF BuffersInv, Fabric!TypeOK
  <2>3. attempt \in Fabric!Attempt
    BY <2>1, Running
  <2>4. Fabric!Kind' = Fabric!Kind /\ Fabric!Memory' = Fabric!Memory
    BY <1>2 DEF Fabric!Kind, Fabric!Memory
  <2>. QED  BY <2>1, <2>2, <2>3, <2>4
<1>4. \/ /\ done = 3
         /\ call' = Fabric!AfterView
         /\ call' # Fabric!NoCall /\ prepared' = FALSE /\ failed' = failed
      \/ /\ done < 3
         /\ call' = Fabric!NoCall
         /\ prepared' = FALSE /\ prepared' = prepared /\ failed' = failed \cup {attempt}
  <2>1. CASE done = 3
    <3>1. Fabric!Proceed(Fabric!AfterView)
      BY <1>1, <2>1 DEF Fabric!Outcome
    <3>2. Fabric!AfterView # Fabric!NoCall
      BY DEF Fabric!AfterView, Fabric!NoCall, Fabric!Call
    <3>3. call' = Fabric!AfterView /\ prepared' = FALSE /\ failed' = failed
      BY <3>1, <3>2 DEF Fabric!Proceed
    <3>. QED  BY <2>1, <3>2, <3>3
  <2>2. CASE done < 3
    <3>1. Fabric!Abort
      BY <1>1, <2>2 DEF Fabric!Outcome
    <3>2. prepared = FALSE
      BY <1>3, Running
    <3>. QED  BY <2>2, <3>1, <3>2 DEF Fabric!Abort
  <2>3. done = 3 \/ done < 3
    OBVIOUS
  <2>. QED  BY <2>1, <2>2, <2>3
<1>5. CallReturned
  BY <1>2, <1>4 DEF CallReturned
<1>6. \A k \in Fabric!Kind, r \in Fabric!Rank :
        /\ hRef'[k][r] = IF k = K /\ r = R /\ done >= 1 THEN attempt ELSE hRef[k][r]
        /\ vRef'[k][r] = IF k = K /\ r = R /\ done = 3 THEN attempt ELSE vRef[k][r]
  BY <1>1, <1>3 DEF BuffersInv, Fabric!TypeOK
<1>7. /\ handles' = handles \/ handles' = handles \cup {<<K, R, attempt>>}
      /\ maps' = maps \/ maps' = maps \cup {<<K, R, attempt>>}
      /\ done >= 1 => <<K, R, attempt>> \in handles'
      /\ done = 3 => <<K, R, attempt>> \in maps'
  BY <1>1
<1>8. Fabric!TypeOK'
  <2>1. /\ hRef' \in [Fabric!Kind -> [Fabric!Rank -> 0..MaxAttempts]]
        /\ vRef' \in [Fabric!Kind -> [Fabric!Rank -> 0..MaxAttempts]]
    <3>1. /\ hRef \in [Fabric!Kind -> [Fabric!Rank -> 0..MaxAttempts]]
          /\ vRef \in [Fabric!Kind -> [Fabric!Rank -> 0..MaxAttempts]]
      BY DEF BuffersInv, Fabric!TypeOK
    <3>2. [hRef EXCEPT ![K][R] = attempt] \in [Fabric!Kind -> [Fabric!Rank -> 0..MaxAttempts]]
      BY <1>3, <3>1
    <3>3. [vRef EXCEPT ![K][R] = attempt] \in [Fabric!Kind -> [Fabric!Rank -> 0..MaxAttempts]]
      BY <1>3, <3>1
    <3>. QED  BY <1>1, <3>1, <3>2, <3>3
  <2>2. /\ handles' \subseteq Fabric!Kind \X Fabric!Rank \X Fabric!Attempt
        /\ maps' \subseteq Fabric!Kind \X Fabric!Rank \X Fabric!Attempt
    BY <1>7, <1>3 DEF BuffersInv, Fabric!TypeOK
  <2>3. \/ call' = Fabric!NoCall
        \/ call' \in [op : {"view"}, what : Fabric!Kind, who : Fabric!Rank]
        \/ call' \in [op : {"alloc"}, what : Fabric!Memory, who : {1}]
    BY <1>2, <1>4, NextView
  <2>4. failed' \subseteq Fabric!Attempt /\ prepared' \in BOOLEAN
    BY <1>3, <1>5, AttemptAfterCall
  <2>. QED  BY <1>2, <1>3, <2>1, <2>2, <2>3, <2>4 DEF BuffersInv, Fabric!TypeOK
<1>9. Fabric!NoDanglingReference'
  BY <1>2, <1>6, <1>7, LiveAfterCall DEF BuffersInv
<1>10. AttemptOK'
  BY <1>3, <1>5, AttemptAfterCall
<1>11. BehindOK'
  <2>1. CASE call' = Fabric!NoCall
    BY <1>4, <2>1, BehindAfterAbort
  <2>2. CASE done = 3 /\ call' = Fabric!AfterView /\ prepared' = FALSE
    <3>1. /\ \A k \in Fabric!Kind, r \in Fabric!Rank :
               Viewed(k, r)' => Viewed(k, r) \/ (k = K /\ r = R)
          /\ \A k \in Fabric!Kind : Created(k)
          /\ \A m \in Fabric!Memory : ~Filled(m)'
      BY <1>2, <2>2, NextView
    <3>2. /\ \A k \in Fabric!Kind : local[k] = attempt /\ hRef[k][Me] = attempt
          /\ \A k \in Fabric!Kind, r \in Fabric!Rank :
               Viewed(k, r) => vRef[k][r] = attempt /\ hRef[k][r] = attempt
      BY <3>1 DEF BuffersInv, BehindOK
    <3>3. Me \in Fabric!Rank
      BY FabricTypes DEF BuffersInv
    <3>4. \A k \in Fabric!Kind : local'[k] = attempt' /\ hRef'[k][Me] = attempt'
      BY <1>2, <1>6, <3>2, <3>3
    <3>5. \A k \in Fabric!Kind, r \in Fabric!Rank :
            Viewed(k, r)' => vRef'[k][r] = attempt' /\ hRef'[k][r] = attempt'
      BY <1>2, <1>6, <2>2, <3>1, <3>2
    <3>. QED  BY <1>3, <3>1, <3>4, <3>5 DEF BehindOK
  <2>. QED  BY <1>4, <2>1, <2>2
<1>12. HeldOK'
  BY <1>2, <1>3, <1>5, <1>7, HeldAfterCall
<1>. QED  BY <1>8, <1>9, <1>10, <1>11, <1>12 DEF BuffersInv

LEMMA AllocStep ==
  ASSUME BuffersInv, Fabric!Alloc
  PROVE  BuffersInv'
<1> DEFINE M == call.what
           Last == Kinds[plugin] + Scratch[plugin]
<1>1. PICK done \in 0..2 :
        /\ IF done >= 1
           THEN /\ memory' = memory \cup {<<M, attempt>>}
                /\ mRef' = [mRef EXCEPT ![M] = attempt]
           ELSE UNCHANGED <<memory, mRef>>
        /\ Fabric!Outcome(done = 2, Fabric!AfterAlloc)
  BY DEF Fabric!Alloc
<1>2. /\ call.op = "alloc"
      /\ UNCHANGED <<plugin, attempt, over, handles, maps, hRef, vRef, local>>
  BY DEF Fabric!Alloc
<1>3. /\ InAttempt /\ M \in Fabric!Memory
      /\ attempt \in Fabric!Attempt /\ attempt \in 0..MaxAttempts
      /\ Fabric!Kind' = Fabric!Kind /\ Fabric!Memory' = Fabric!Memory
      /\ M \in 1..Last /\ Last \in Nat
  <2>1. InAttempt /\ M \in Fabric!Memory
    BY <1>2, Calls DEF BuffersInv
  <2>2. attempt \in 0..MaxAttempts
    BY DEF BuffersInv, Fabric!TypeOK
  <2>3. attempt \in Fabric!Attempt
    BY <2>1, Running
  <2>4. Fabric!Kind' = Fabric!Kind /\ Fabric!Memory' = Fabric!Memory
    BY <1>2 DEF Fabric!Kind, Fabric!Memory
  <2>5. Last \in Nat
    BY FabricTypes DEF BuffersInv
  <2>. QED  BY <2>1, <2>2, <2>3, <2>4, <2>5 DEF Fabric!Memory
<1>4. \/ /\ done = 2 /\ M < Last
         /\ call' = Fabric!Call("alloc", M + 1, 1)
         /\ call' # Fabric!NoCall /\ prepared' = FALSE /\ failed' = failed
      \/ /\ done = 2 /\ ~(M < Last)
         /\ call' = Fabric!NoCall /\ prepared' = TRUE /\ failed' = failed
      \/ /\ done < 2
         /\ call' = Fabric!NoCall
         /\ prepared' = FALSE /\ prepared' = prepared /\ failed' = failed \cup {attempt}
  <2>1. CASE done = 2
    <3>1. Fabric!Proceed(Fabric!AfterAlloc)
      BY <1>1, <2>1 DEF Fabric!Outcome
    <3>2. CASE M < Last
      <4>1. Fabric!AfterAlloc = Fabric!Call("alloc", M + 1, 1)
        BY <3>2 DEF Fabric!AfterAlloc
      <4>2. Fabric!AfterAlloc # Fabric!NoCall
        BY <4>1 DEF Fabric!NoCall, Fabric!Call
      <4>3. call' = Fabric!AfterAlloc /\ prepared' = FALSE /\ failed' = failed
        BY <3>1, <4>2 DEF Fabric!Proceed
      <4>. QED  BY <2>1, <3>2, <4>1, <4>2, <4>3
    <3>3. CASE ~(M < Last)
      <4>1. Fabric!AfterAlloc = Fabric!NoCall
        BY <3>3 DEF Fabric!AfterAlloc
      <4>2. call' = Fabric!AfterAlloc /\ prepared' = TRUE /\ failed' = failed
        BY <3>1, <4>1 DEF Fabric!Proceed
      <4>. QED  BY <2>1, <3>3, <4>1, <4>2
    <3>. QED  BY <3>2, <3>3
  <2>2. CASE done < 2
    <3>1. Fabric!Abort
      BY <1>1, <2>2 DEF Fabric!Outcome
    <3>2. prepared = FALSE
      BY <1>3, Running
    <3>. QED  BY <2>2, <3>1, <3>2 DEF Fabric!Abort
  <2>3. done = 2 \/ done < 2
    OBVIOUS
  <2>. QED  BY <2>1, <2>2, <2>3
<1>5. CallReturned
  BY <1>2, <1>4 DEF CallReturned
<1>6. \A m \in Fabric!Memory : mRef'[m] = IF m = M /\ done >= 1 THEN attempt ELSE mRef[m]
  BY <1>1, <1>3 DEF BuffersInv, Fabric!TypeOK
<1>7. /\ memory' = memory \/ memory' = memory \cup {<<M, attempt>>}
      /\ done >= 1 => <<M, attempt>> \in memory'
  BY <1>1
<1>8. Fabric!TypeOK'
  <2>1. mRef' \in [Fabric!Memory -> 0..MaxAttempts]
    <3>1. mRef \in [Fabric!Memory -> 0..MaxAttempts]
      BY DEF BuffersInv, Fabric!TypeOK
    <3>2. [mRef EXCEPT ![M] = attempt] \in [Fabric!Memory -> 0..MaxAttempts]
      BY <1>3, <3>1
    <3>. QED  BY <1>1, <3>1, <3>2
  <2>2. memory' \subseteq Fabric!Memory \X Fabric!Attempt
    BY <1>7, <1>3 DEF BuffersInv, Fabric!TypeOK
  <2>3. \/ call' = Fabric!NoCall
        \/ call' \in [op : {"alloc"}, what : Fabric!Memory, who : {1}]
    BY <1>3, <1>4 DEF Fabric!Call, Fabric!Memory
  <2>4. failed' \subseteq Fabric!Attempt /\ prepared' \in BOOLEAN
    BY <1>3, <1>5, AttemptAfterCall
  <2>. QED  BY <1>2, <1>3, <2>1, <2>2, <2>3, <2>4 DEF BuffersInv, Fabric!TypeOK
<1>9. Fabric!NoDanglingReference'
  BY <1>2, <1>6, <1>7, LiveAfterCall DEF BuffersInv
<1>10. AttemptOK'
  BY <1>3, <1>5, AttemptAfterCall
<1>11. BehindOK'
  <2>1. CASE done < 2
    BY <1>4, <2>1, BehindAfterAbort
  <2>2. CASE done = 2
    <3>1. /\ \A k \in Fabric!Kind : Created(k)
          /\ \A k \in Fabric!Kind, r \in Fabric!Rank : Viewed(k, r)
          /\ \A m \in Fabric!Memory : m < M => Filled(m)
      BY <1>2 DEF Created, Viewed, Filled
    <3>2. \A m \in Fabric!Memory : Filled(m)' => m < M \/ m = M
      <4>1. CASE call' = Fabric!Call("alloc", M + 1, 1) /\ prepared' = FALSE
        BY <1>3, <4>1 DEF Filled, Fabric!Call, Fabric!Memory
      <4>2. CASE ~(M < Last)
        BY <1>3, <4>2 DEF Fabric!Memory
      <4>3. ~(done < 2)
        BY <2>2
      <4>4. \/ M < Last /\ call' = Fabric!Call("alloc", M + 1, 1) /\ prepared' = FALSE
            \/ ~(M < Last)
        BY <1>4, <4>3
      <4>. QED  BY <4>1, <4>2, <4>4
    <3>3. /\ \A k \in Fabric!Kind : local[k] = attempt /\ hRef[k][Me] = attempt
          /\ \A k \in Fabric!Kind, r \in Fabric!Rank : vRef[k][r] = attempt /\ hRef[k][r] = attempt
          /\ \A m \in Fabric!Memory : m < M => mRef[m] = attempt
      BY <3>1 DEF BuffersInv, BehindOK
    <3>4. \A m \in Fabric!Memory : Filled(m)' => mRef'[m] = attempt'
      BY <1>2, <1>6, <2>2, <3>2, <3>3
    <3>. QED  BY <1>2, <1>3, <3>3, <3>4 DEF BehindOK
  <2>3. done = 2 \/ done < 2
    OBVIOUS
  <2>. QED  BY <2>1, <2>2, <2>3
<1>12. HeldOK'
  BY <1>2, <1>3, <1>5, <1>7, HeldAfterCall
<1>. QED  BY <1>8, <1>9, <1>10, <1>11, <1>12 DEF BuffersInv

(***************************************************************************)
(* fini: what a prepared attempt made is referred to, so it is released.   *)
(***************************************************************************)
LEMMA TeardownStep ==
  ASSUME BuffersInv, Fabric!Fini
  PROVE  BuffersInv'
<1> USE DEF Fabric!Fini
<1>1. /\ call = Fabric!NoCall /\ call' = call /\ prepared' = FALSE /\ over' = TRUE
      /\ plugin' = plugin /\ attempt' = attempt /\ failed' = failed
      /\ Fabric!Kind' = Fabric!Kind /\ Fabric!Memory' = Fabric!Memory
      /\ handles' \subseteq handles /\ maps' \subseteq maps /\ memory' \subseteq memory
      /\ hRef' = Fabric!NoRefs /\ vRef' = Fabric!NoRefs
      /\ local' = Fabric!NoLocal /\ mRef' = Fabric!NoMemory
  BY DEF Fabric!Kind, Fabric!Memory, Fabric!HandlesAfterFini
<1>2. Fabric!TypeOK'
  <2>1. 0 \in 0..MaxAttempts
    BY FabricTypes DEF BuffersInv
  <2>2. /\ Fabric!NoRefs \in [Fabric!Kind -> [Fabric!Rank -> 0..MaxAttempts]]
        /\ Fabric!NoLocal \in [Fabric!Kind -> 0..MaxAttempts]
        /\ Fabric!NoMemory \in [Fabric!Memory -> 0..MaxAttempts]
    BY <2>1 DEF Fabric!NoRefs, Fabric!NoLocal, Fabric!NoMemory, Fabric!None
  <2>3. prepared' \in BOOLEAN /\ over' \in BOOLEAN
    BY <1>1
  <2>. QED  BY <1>1, <2>2, <2>3 DEF BuffersInv, Fabric!TypeOK
<1>3. Fabric!NoDanglingReference'
  BY <1>1 DEF Fabric!NoDanglingReference, Fabric!NoRefs, Fabric!NoLocal, Fabric!NoMemory, Fabric!None
<1>4. AttemptOK'
  BY <1>1 DEF AttemptOK, InAttempt
<1>5. BehindOK'
  BY <1>1, BehindAfterAbort
<1>6. HeldOK'
  <2>1. ASSUME NEW k \in Fabric!Kind, NEW r \in Fabric!Rank, NEW a \in Fabric!Attempt
        PROVE  <<k, r, a>> \in handles' \/ <<k, r, a>> \in maps' => a \in failed
    <3>1. <<k, r, a>> \in handles \/ <<k, r, a>> \in maps =>
            a \in failed \/ (a = attempt /\ prepared)
      BY <1>1 DEF BuffersInv, HeldOK, InAttempt
    <3>2. prepared => vRef[k][r] = attempt /\ hRef[k][r] = attempt
      BY DEF BuffersInv, BehindOK, Viewed
    <3>3. /\ <<k, r, hRef[k][r]>> \notin handles'
          /\ <<k, r, vRef[k][r]>> \notin maps'
      BY DEF Fabric!Released, Fabric!Unmapped, Fabric!Referred
    <3>. QED  BY <1>1, <3>1, <3>2, <3>3
  <2>2. ASSUME NEW m \in Fabric!Memory, NEW a \in Fabric!Attempt, <<m, a>> \in memory'
        PROVE  a \in failed
    <3>1. a \in failed \/ (a = attempt /\ prepared)
      BY <1>1, <2>2 DEF BuffersInv, HeldOK, InAttempt
    <3>2. prepared => mRef[m] = attempt
      BY DEF BuffersInv, BehindOK, Filled
    <3>3. <<m, mRef[m]>> \notin memory'
      BY DEF Fabric!Allocated
    <3>. QED  BY <2>2, <3>1, <3>2, <3>3
  <2>. QED  BY <1>1, <2>1, <2>2 DEF HeldOK
<1>. QED  BY <1>2, <1>3, <1>4, <1>5, <1>6 DEF BuffersInv

LEMMA BuffersStutter ==
  ASSUME BuffersInv, UNCHANGED <<plugin, buffers, over>>
  PROVE  BuffersInv'
<1>1. Fabric!Kind' = Fabric!Kind /\ Fabric!Memory' = Fabric!Memory
  BY DEF Fabric!Kind, Fabric!Memory
<1>. USE DEF buffers, BuffersInv
<1>2. Fabric!TypeOK'
  BY <1>1 DEF Fabric!TypeOK
<1>3. Fabric!NoDanglingReference'
  BY <1>1 DEF Fabric!NoDanglingReference
<1>4. AttemptOK'
  BY DEF AttemptOK, InAttempt
<1>5. BehindOK'
  BY <1>1 DEF BehindOK, Created, Viewed, Filled
<1>6. HeldOK'
  BY <1>1 DEF HeldOK, InAttempt
<1>. QED  BY <1>2, <1>3, <1>4, <1>5, <1>6

LEMMA PrepareStep ==
  ASSUME BuffersInv, Fabric!Prepare
  PROVE  BuffersInv'
BY BeginAttemptStep, CreateStep, ExchangeStep, AdoptStep, ImportStep, AllocStep DEF Fabric!Prepare

------------------------------------------------------------------------------
(***************************************************************************)
(* The process: either plugin, and for memory.cc the sessions as well.     *)
(***************************************************************************)
PluginInv == IInv /\ BuffersInv

\* Preparing buffers, or ending latency.c, leaves the sessions alone.
LEMMA SessionsLeftAlone ==
  ASSUME IInv, UNCHANGED launching, UNCHANGED settings, over' \in BOOLEAN
  PROVE  IInv'
<1>1. /\ TypeOK'
      /\ PlacesOK'
      /\ ObjectsOK'
      /\ MeasureOK'
      /\ \A t \in Thread : LaunchOK(t)'
  <2> USE DEF launching, settings, session, objects, measure, IInv
  <2>1. TypeOK'
    BY DEF TypeOK
  <2>2. PlacesOK'
    BY DEF PlacesOK, InSession, InLaunch
  <2>3. ObjectsOK'
    BY DEF ObjectsOK, NothingLeaked, Sampler
  <2>4. MeasureOK'
    BY DEF MeasureOK, RowIsOfItsLaunch
  <2>5. \A t \in Thread : LaunchOK(t)'
    BY DEF LaunchOK, InSession, IsSetUp, Sampler
  <2>. QED  BY <2>1, <2>2, <2>3, <2>4, <2>5
<1>. QED  BY <1>1 DEF IInv

LEMMA SessionKeepsOver ==
  ASSUME NEW t, Begin(t) \/ ThreadStep(t)
  PROVE  over' = over
BY DEF Begin, ThreadStep, BeginFails, AlreadySetUp, SetUp, PrepareCounterData, RecordStart,
       StartSampling, StartWithout, Launched, StrayEnd, MeasureDuration, StopSampling, WriteRow,
       neutrino

LEMMA PluginStep == PluginInv /\ [PluginNext]_pluginVars => PluginInv'
<1> SUFFICES ASSUME PluginInv, [PluginNext]_pluginVars PROVE PluginInv'
  OBVIOUS
<1>0. IInv /\ BuffersInv /\ over \in BOOLEAN
  BY DEF PluginInv, IInv, TypeOK
<1>1. ASSUME Fabric!Prepare \/ Fabric!Fini, UNCHANGED launching, UNCHANGED settings
      PROVE  PluginInv'
  <2>1. BuffersInv'
    BY <1>0, <1>1, PrepareStep, TeardownStep
  <2>2. over' \in BOOLEAN
    BY <2>1 DEF BuffersInv, Fabric!TypeOK
  <2>. QED  BY <1>0, <1>1, <2>1, <2>2, SessionsLeftAlone DEF PluginInv
<1>2. CASE LatencyPlugin /\ UNCHANGED settings
  BY <1>1, <1>2 DEF LatencyPlugin, Fabric!Next
<1>3. CASE PrepareBuffers /\ UNCHANGED settings
  <2>1. Fabric!Prepare
    BY <1>3 DEF PrepareBuffers, Fabric!MemoryPrepare, Fabric!Prepare, Fabric!MemoryBegin,
                Fabric!MemoryCreate, Fabric!MemoryExchange, Fabric!MemoryAdopt,
                Fabric!MemoryImport, Fabric!MemoryAlloc
  <2>. QED  BY <1>1, <1>3, <2>1 DEF PrepareBuffers
<1>4. ASSUME NEW t \in users, BeginSession(t) \/ Session(t), UNCHANGED <<plugin, settings>>
      PROVE  PluginInv'
  <2>1. Begin(t) \/ ThreadStep(t)
    BY <1>4 DEF BeginSession, Session
  <2>2. IInv'
    BY <1>0, <1>4, <2>1, Step DEF Next
  <2>3. over' = over
    BY <2>1, SessionKeepsOver
  <2>4. BuffersInv'
    BY <1>0, <1>4, <2>3, BuffersStutter DEF BeginSession, Session
  <2>. QED  BY <2>2, <2>4 DEF PluginInv
<1>5. CASE FiniPlugin /\ UNCHANGED settings
  <2>1. IInv'
    BY <1>0, <1>5, Step DEF FiniPlugin, Next
  <2>2. BuffersInv'
    BY <1>0, <1>5, TeardownStep DEF FiniPlugin, Fabric!MemoryTeardown
  <2>. QED  BY <2>1, <2>2 DEF PluginInv
<1>6. CASE UNCHANGED pluginVars
  <2>1. UNCHANGED vars /\ UNCHANGED <<plugin, buffers, over>>
    BY <1>6 DEF pluginVars, vars, neutrino
  <2>. QED  BY <1>0, <2>1, Step, BuffersStutter DEF PluginInv
<1>. QED  BY <1>2, <1>3, <1>4, <1>5, <1>6 DEF PluginNext

(***************************************************************************)
(* The invariant of a process, whichever plugin it loads, however many     *)
(* ranks and kinds of buffers there are and whatever fails.                *)
(***************************************************************************)
THEOREM PluginInductive == PluginSpec => []PluginInv
<1>1. PluginInit => PluginInv
  BY InitInv, BuffersInit DEF PluginInit, PluginInv
<1>2. PluginInv /\ [PluginNext]_pluginVars => PluginInv'
  BY PluginStep
<1>. QED  BY <1>1, <1>2, PTL DEF PluginSpec

(***************************************************************************)
(* Neither prepare_buffers_locked ever leaves a reference in its runtime   *)
(* state to something that does not exist, so neither teardown frees a     *)
(* thing twice; and prepared buffers are whole, all of one attempt.        *)
(***************************************************************************)
THEOREM ReferencesLiveHolds == PluginSpec => []ReferencesLive
<1>1. PluginInv => ReferencesLive
  <2> SUFFICES ASSUME BuffersInv PROVE Fabric!ReferencesLive
    BY DEF PluginInv, ReferencesLive
  <2>1. ASSUME prepared PROVE attempt # 0
    BY <2>1 DEF BuffersInv, AttemptOK
  <2>2. ASSUME prepared, NEW k \in Fabric!Kind, NEW r \in Fabric!Rank
        PROVE  vRef[k][r] = attempt /\ <<k, r, attempt>> \in maps \cap handles
    <3>1. vRef[k][r] = attempt /\ hRef[k][r] = attempt
      BY <2>2 DEF BuffersInv, BehindOK, Viewed
    <3>. QED  BY <2>1, <2>2, <3>1 DEF BuffersInv, Fabric!NoDanglingReference, Fabric!None
  <2>3. ASSUME prepared, NEW m \in Fabric!Memory
        PROVE  mRef[m] = attempt /\ <<m, attempt>> \in memory
    <3>1. mRef[m] = attempt
      BY <2>3 DEF BuffersInv, BehindOK, Filled
    <3>. QED  BY <2>1, <2>3, <3>1 DEF BuffersInv, Fabric!NoDanglingReference, Fabric!None
  <2>. QED  BY <2>2, <2>3 DEF BuffersInv, Fabric!ReferencesLive, Fabric!PublishedIsWhole
<1>. QED  BY <1>1, PluginInductive, PTL

(***************************************************************************)
(* After neutrino_plugin_fini_v1 of either plugin, all that still exists   *)
(* in the driver was made by an attempt that failed.                       *)
(***************************************************************************)
THEOREM OnlyFailedLeakHolds == PluginSpec => []OnlyFailedLeak
<1>1. PluginInv => OnlyFailedLeak
  <2> SUFFICES ASSUME BuffersInv, over
               PROVE  /\ \A h \in handles \cup maps : h[3] \in failed
                      /\ \A m \in memory : m[2] \in failed
    BY DEF PluginInv, OnlyFailedLeak, Fabric!OnlyFailedLeak
  <2>1. ~InAttempt /\ ~prepared
    BY DEF BuffersInv, AttemptOK
  <2>2. /\ handles \cup maps \subseteq Fabric!Kind \X Fabric!Rank \X Fabric!Attempt
        /\ memory \subseteq Fabric!Memory \X Fabric!Attempt
    BY DEF BuffersInv, Fabric!TypeOK
  <2>3. ASSUME NEW h \in handles \cup maps PROVE h[3] \in failed
    <3>1. h = <<h[1], h[2], h[3]>> /\ h[1] \in Fabric!Kind /\ h[2] \in Fabric!Rank /\ h[3] \in Fabric!Attempt
      BY <2>2
    <3>2. <<h[1], h[2], h[3]>> \in handles \/ <<h[1], h[2], h[3]>> \in maps
      BY <3>1
    <3>. QED  BY <2>1, <3>1, <3>2 DEF BuffersInv, HeldOK
  <2>4. ASSUME NEW m \in memory PROVE m[2] \in failed
    <3>1. m = <<m[1], m[2]>> /\ m[1] \in Fabric!Memory /\ m[2] \in Fabric!Attempt
      BY <2>2
    <3>. QED  BY <2>1, <3>1 DEF BuffersInv, HeldOK
  <2>. QED  BY <2>3, <2>4
<1>. QED  BY <1>1, PluginInductive, PTL

(***************************************************************************)
(* In the process as well: the mutex is with the thread in a session, a    *)
(* CSV row is of one launch, and the CUPTI objects have one owner.         *)
(***************************************************************************)
THEOREM SessionsInPlugin ==
  PluginSpec => [](LockMatchesSession /\ RowIsOfItsLaunch /\ ObjectsAreOwned)
<1>1. PluginInv => LockMatchesSession /\ RowIsOfItsLaunch /\ ObjectsAreOwned
  BY LockMatchesSessionOf, ObjectsAreOwnedOf DEF PluginInv, IInv, MeasureOK
<1>. QED  BY <1>1, PluginInductive, PTL
===============================================================================
