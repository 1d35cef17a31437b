---------------------------- MODULE MemorySession ----------------------------
(***************************************************************************)
(* The profiling session that memory.cc wraps around every probed launch:  *)
(* begin_launch takes state.mutex and keeps it while the kernel runs,      *)
(* end_launch measures, writes one CSV row and gives it back.  The CUPTI   *)
(* and event objects of a CUDA context are set up by the first launch in   *)
(* it and torn down when a launch comes from another context.  Any driver  *)
(* or CUPTI call may fail.                                                 *)
(*                                                                         *)
(* A measurement is represented by the launches in whose sessions it was   *)
(* taken.  An object is named by its kind and by the setup that made it.   *)
(*                                                                         *)
(* External: Neutrino calls begin and end around each launch.  Its source  *)
(* decides whether it also calls end for a launch whose begin returned -1; *)
(* that is looked at for processes with one launching thread.  CUPTI       *)
(* refuses to start a sampler that is running.                             *)
(***************************************************************************)
EXTENDS Naturals, Sequences, Functions

CONSTANTS
  Thread,              \* host threads
  Context,             \* CUDA contexts
  Nobody, NoContext,   \* no thread, no context
  Launches             \* bound of the model: launches

ASSUME SessionAssumption ==
  /\ Nobody \notin Thread
  /\ NoContext \notin Context
  /\ Launches \in Nat \ {0}

None == 0

Object == {"host", "sampler", "start", "end"}
Launch == 1..Launches

VARIABLES
  disables,   \* the developer option pm_disable_on_teardown
  endsFailed, \* end_launch is called for a failed begin_launch too
  users,      \* the threads that launch probed kernels
  owner,      \* the thread that has state.mutex
  at,         \* at[t]: where thread t is
  mine,       \* mine[t]: the current CUDA context of t
  launches,   \* launches so far
  over,       \* neutrino_plugin_fini_v1 has run
  launch,     \* state.launch.launch_index
  active,     \* state.active
  sampling,   \* state.active_pm_sampling
  ready,      \* state.ready
  context,    \* state.context
  metrics,    \* state.supported_metrics is not empty
  ref,        \* host_object, pm_sampling, start_event, end_event
  setups,     \* setups so far
  live,       \* objects that exist: <<kind, setup>>
  running,    \* running samplers: <<setup, launch that started it>>
  begun,      \* the launch that recorded start_event
  data,       \* state.counter_data
  values,     \* state.values
  duration,   \* state.event_duration_s
  row         \* the last row of the CSV file

lock    == <<owner, at>>
settings == <<disables, endsFailed, users>>
neutrino == <<mine, launches, over>>
session == <<launch, active, sampling>>
objects == <<ready, context, metrics, ref, setups, live>>
measure == <<begun, data, values, duration>>
vars    == <<settings, lock, neutrino, session, objects, running, measure, row>>

NoRefs == [k \in Object |-> None]
NoRow  == [launch |-> None, values |-> {}, duration |-> {}]

Init ==
  /\ disables \in BOOLEAN
  /\ endsFailed \in BOOLEAN
  /\ users \in SUBSET Thread
  /\ endsFailed => \E t \in Thread : users = {t}
  /\ owner = Nobody
  /\ at = [t \in Thread |-> "idle"]
  /\ mine = [t \in Thread |-> NoContext]
  /\ launches = 0
  /\ over = FALSE
  /\ launch = None /\ active = FALSE /\ sampling = FALSE
  /\ ready = FALSE /\ context = NoContext /\ metrics = FALSE
  /\ ref = NoRefs
  /\ setups = 0
  /\ live = {}
  /\ running = {}
  /\ begun = None /\ data = {} /\ values = {} /\ duration = {}
  /\ row = NoRow

(***************************************************************************)
(* begin_launch: lock, and forget the previous launch.                     *)
(***************************************************************************)
DurationKept == duration               \* mutant: not reset
DurationAtBegin == {}

Begin(t) ==
  /\ at[t] = "idle" /\ ~over
  /\ launches < Launches
  /\ owner = Nobody
  /\ owner' = t
  /\ launches' = launches + 1
  /\ launch' = launches + 1
  /\ active' = FALSE
  /\ sampling' = FALSE
  /\ values' = {}
  /\ duration' = DurationAtBegin
  /\ \E c \in Context : mine' = [mine EXCEPT ![t] = c]
  /\ at' = [at EXCEPT ![t] = "setup"]
  /\ UNCHANGED <<over, objects, running, begun, data, row>>

(***************************************************************************)
(* Every failing call unlocks and returns -1.                              *)
(***************************************************************************)
LockKept == owner                      \* mutant: a return without unlock
Unlocked == Nobody

FailBegin(t) ==
  /\ owner' = Unlocked
  /\ at' = [at EXCEPT ![t] = IF endsFailed THEN "failed" ELSE "idle"]

Go(t, place) ==
  /\ at' = [at EXCEPT ![t] = place]
  /\ owner' = owner

\* No context is current, or the CSV file cannot be opened.
BeginFails(t) ==
  /\ at[t] = "setup"
  /\ FailBegin(t)
  /\ UNCHANGED <<neutrino, session, objects, running, measure, row>>

(***************************************************************************)
(* setup_context_locked: nothing to do for the context it is ready for,    *)
(* otherwise tear the old one down and create this one's objects.  Without *)
(* metrics (none available or supported) there are only the events.        *)
(***************************************************************************)
ReadyForAny(t) == ready                \* mutant: the context is not compared
ReadyFor(t) == ready /\ context = mine[t]

AlreadySetUp(t) ==
  /\ at[t] = "setup"
  /\ ReadyFor(t)
  /\ Go(t, "counters")
  /\ UNCHANGED <<neutrino, session, objects, running, measure, row>>

Wanted(m) == IF m THEN <<"host", "sampler", "start", "end">> ELSE <<"start", "end">>

\* Mutant: a setup that failed half-way is not torn down.
DestroyedIfReady ==
  IF ready THEN {<<k, ref[k]>> : k \in Object \ {"sampler"}} ELSE {}

Destroyed ==
  {<<k, ref[k]>> : k \in IF disables THEN Object ELSE Object \ {"sampler"}}

SetUp(t) ==
  /\ at[t] = "setup"
  /\ ~ReadyFor(t)
  /\ context' = mine[t]
  /\ setups' = setups + 1
  /\ \E m \in BOOLEAN : \E n \in 0..Len(Wanted(m)) :
       LET created == Range(SubSeq(Wanted(m), 1, n))
           done == n = Len(Wanted(m))
       IN  /\ metrics' = m
           /\ ref' = [k \in Object |-> IF k \in created THEN setups + 1 ELSE None]
           /\ live' = (live \ Destroyed) \cup (created \X {setups + 1})
           /\ ready' = done
           /\ IF done THEN Go(t, "counters") ELSE FailBegin(t)
  /\ running' = {r \in running : <<"sampler", r[1]>> \in live \ Destroyed}
  /\ sampling' = FALSE
  /\ data' = {}
  /\ UNCHANGED <<neutrino, launch, active, begun, values, duration, row>>

(***************************************************************************)
(* prepare_counter_data_locked: a fresh image for this launch.             *)
(***************************************************************************)
PrepareCounterData(t) ==
  /\ at[t] = "counters"
  /\ data' = {}
  /\ \/ Go(t, "events")
     \/ metrics /\ FailBegin(t)
  /\ UNCHANGED <<neutrino, session, objects, running, begun, values, duration, row>>

RecordStart(t) ==
  /\ at[t] = "events"
  /\ \/ Go(t, "start") /\ begun' = launch
     \/ FailBegin(t) /\ begun' = begun
  /\ UNCHANGED <<neutrino, session, objects, running, data, values, duration, row>>

(***************************************************************************)
(* Start the sampler, if there is one; the mutex stays locked.             *)
(***************************************************************************)
Sampler == ref["sampler"]
IsRunning(s) == \E l \in Launch : <<s, l>> \in running

StartSampling(t) ==
  /\ at[t] = "start" /\ metrics
  /\ \E ok \in BOOLEAN :
       /\ ok => ~IsRunning(Sampler)
       /\ running' = IF ok THEN running \cup {<<Sampler, launch>>} ELSE running
       /\ data' = IF ok THEN data \cup {launch} ELSE data
       /\ sampling' = ok
       /\ active' = ok
       /\ IF ok THEN Go(t, "launched") ELSE FailBegin(t)
  /\ UNCHANGED <<neutrino, launch, objects, begun, values, duration, row>>

StartWithout(t) ==
  /\ at[t] = "start" /\ ~metrics
  /\ active' = TRUE
  /\ Go(t, "launched")
  /\ UNCHANGED <<neutrino, launch, sampling, objects, running, measure, row>>

(***************************************************************************)
(* External: the kernel is launched and Neutrino calls end_launch.  After  *)
(* a failed begin the call finds no active session and unlocks (whoever    *)
(* has the mutex), or finds another thread's and ends that.                *)
(***************************************************************************)
Launched(t) ==
  /\ at[t] = "launched"
  /\ Go(t, "end")
  /\ UNCHANGED <<neutrino, session, objects, running, measure, row>>

StrayEnd(t) ==
  /\ at[t] = "failed"
  /\ IF active
     THEN Go(t, "end")
     ELSE owner' = Nobody /\ at' = [at EXCEPT ![t] = "idle"]
  /\ UNCHANGED <<neutrino, session, objects, running, measure, row>>

(***************************************************************************)
(* end_launch: the duration between the two events, if none of its calls   *)
(* fails, then the samples, then the row.                                  *)
(***************************************************************************)
MeasureDuration(t) ==
  /\ at[t] = "end"
  /\ \/ duration' = {begun, launch}
     \/ duration' = duration
  /\ Go(t, IF sampling THEN "stop" ELSE "write")
  /\ UNCHANGED <<neutrino, session, objects, running, begun, data, values, row>>

Evaluated == {data, {}}                \* {}: a decode that failed or was empty

StopSampling(t) ==
  /\ at[t] = "stop"
  /\ \/ /\ running' = {r \in running : r[1] # Sampler}
        /\ values' \in Evaluated
     \/ UNCHANGED <<running, values>>
  /\ Go(t, "write")
  /\ UNCHANGED <<neutrino, session, objects, begun, data, duration, row>>

Row == [launch |-> launch, values |-> values, duration |-> duration]

WriteRow(t) ==
  /\ at[t] = "write"
  /\ row' = Row
  /\ active' = FALSE
  /\ sampling' = FALSE
  /\ owner' = Nobody
  /\ at' = [at EXCEPT ![t] = "idle"]
  /\ UNCHANGED <<neutrino, launch, objects, running, measure>>

(***************************************************************************)
(* neutrino_plugin_fini_v1, when no thread is in a session.                *)
(***************************************************************************)
Fini ==
  /\ owner = Nobody /\ ~over
  /\ \A t \in Thread : at[t] = "idle"
  /\ over' = TRUE
  /\ live' = live \ Destroyed
  /\ running' = {r \in running : <<"sampler", r[1]>> \in live \ Destroyed}
  /\ ref' = NoRefs
  /\ ready' = FALSE
  /\ context' = NoContext
  /\ metrics' = FALSE
  /\ sampling' = FALSE
  /\ data' = {}
  /\ UNCHANGED <<lock, mine, launches, launch, active, setups, begun, values, duration, row>>

ThreadStep(t) ==
  \/ BeginFails(t)
  \/ AlreadySetUp(t)
  \/ SetUp(t)
  \/ PrepareCounterData(t)
  \/ RecordStart(t)
  \/ StartSampling(t)
  \/ StartWithout(t)
  \/ Launched(t)
  \/ StrayEnd(t)
  \/ MeasureDuration(t)
  \/ StopSampling(t)
  \/ WriteRow(t)

Next ==
  /\ \/ \E t \in users : Begin(t) \/ ThreadStep(t)
     \/ Fini
  /\ UNCHANGED settings

Spec == Init /\ [][Next]_vars

(***************************************************************************)
(* A thread in the plugin keeps executing, and the kernels it waits for do *)
(* not wait for another launch of this process.                            *)
(***************************************************************************)
FairSpec == Spec /\ \A t \in Thread : WF_vars(ThreadStep(t) /\ UNCHANGED settings)

------------------------------------------------------------------------------
Place == {"idle", "failed", "setup", "counters", "events", "start", "launched",
          "end", "stop", "write"}

TypeOK ==
  /\ disables \in BOOLEAN /\ endsFailed \in BOOLEAN
  /\ users \subseteq Thread
  /\ owner \in Thread \cup {Nobody}
  /\ at \in [Thread -> Place]
  /\ mine \in [Thread -> Context \cup {NoContext}]
  /\ launches \in 0..Launches /\ launch \in 0..Launches
  /\ over \in BOOLEAN /\ active \in BOOLEAN /\ sampling \in BOOLEAN
  /\ ready \in BOOLEAN /\ metrics \in BOOLEAN
  /\ context \in Context \cup {NoContext}
  /\ setups \in 0..launches
  /\ ref \in [Object -> 0..setups]
  /\ live \subseteq Object \X (1..setups)
  /\ running \subseteq (1..setups) \X Launch
  /\ begun \in 0..Launches
  /\ data \subseteq Launch /\ values \subseteq Launch /\ duration \subseteq Launch
  /\ row \in [launch : 0..Launches, values : SUBSET Launch, duration : SUBSET Launch]

InSession(t) == at[t] \notin {"idle", "failed"}

(***************************************************************************)
(* Exactly the thread between the lock of a begin and the unlock of its    *)
(* end has the mutex, whichever call of the session fails, and the session *)
(* it is in is of the context that is set up.  (And the state is well      *)
(* typed.)                                                                 *)
(***************************************************************************)
LockMatchesSession ==
  /\ TypeOK
  /\ \A t \in Thread : InSession(t) <=> owner = t
  /\ \A t \in Thread : InSession(t) /\ active => ready /\ context = mine[t]

(***************************************************************************)
(* No row mixes launches: its duration and its metric values were measured *)
(* in the session of the launch it names, or are missing.                  *)
(***************************************************************************)
RowIsOfItsLaunch ==
  /\ row.values \subseteq {row.launch}
  /\ row.duration \subseteq {row.launch}

(***************************************************************************)
(* A session uses objects that exist, all of its own context's setup, and  *)
(* the sampler it stops and decodes is one it started itself.              *)
(***************************************************************************)
SessionUsesItsObjects ==
  active =>
    /\ \A k \in Object : ref[k] # None => <<k, ref[k]>> \in live /\ ref[k] = ref["start"]
    /\ ref["end"] # None
    /\ \A t \in Thread : at[t] \in {"launched", "end"} /\ sampling => <<Sampler, launch>> \in running

(***************************************************************************)
(* Whatever setups fail and however often the context changes, nothing is  *)
(* leaked but the samplers that teardown leaves alone on purpose.          *)
(***************************************************************************)
NothingLeaked ==
  \A o \in live :
    \/ o[2] = ref[o[1]]
    \/ o[1] = "sampler" /\ ~disables

(***************************************************************************)
(* The objects of CUPTI and the driver: in use by the session they were    *)
(* made and started for, and destroyed once each.                          *)
(***************************************************************************)
ObjectsAreOwned == SessionUsesItsObjects /\ NothingLeaked

(***************************************************************************)
(* The mutex is always given back.                                         *)
(***************************************************************************)
LockReleased == owner # Nobody ~> owner = Nobody
==============================================================================
