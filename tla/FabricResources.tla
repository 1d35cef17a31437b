-------------------------- MODULE FabricResources --------------------------
(***************************************************************************)
(* What one process does to the CUDA driver in latency.c: every attempt of *)
(* prepare_buffers_locked creates, exchanges, imports and allocates in one *)
(* fixed order and may fail at any call; nothing is rolled back, and the   *)
(* next attempt starts over.  neutrino_plugin_fini_v1 releases what        *)
(* runtime_state refers to.  memory.cc has a second writing of the same    *)
(* runtime with fewer buffers (see MemoryFabric); a process loads one of   *)
(* the two plugins.                                                        *)
(*                                                                         *)
(* Buffers and allocations are named by their place in the order of        *)
(* creation, a resource also by the attempt that made it; a reference of   *)
(* runtime_state holds that attempt, or None for a null pointer or handle. *)
(* runtime_mutex makes an attempt and fini exclusive.  The exchange with   *)
(* the other ranks is in HandleExchange.                                   *)
(***************************************************************************)
EXTENDS Naturals

CONSTANTS
  Kinds,         \* Kinds[p]: how many kinds of fabric buffers plugin p has
  Scratch,       \* Scratch[p]: how many other device allocations
  Ranks,         \* world_size
  Me,            \* world_rank
  MaxAttempts    \* bound of the model: attempts to prepare

Plugin == {"latency", "memory"}

\* What the modules that instantiate this one assume of the constants.
FabricConstants ==
  /\ Kinds \in [Plugin -> Nat \ {0}]
  /\ Scratch \in [Plugin -> Nat \ {0}]
  /\ Ranks \in Nat \ {0}
  /\ Me \in 1..Ranks
  /\ MaxAttempts \in Nat \ {0}

VARIABLES
  plugin,      \* the plugin the process has loaded
  attempt,     \* attempts so far
  call,        \* the next call of the running attempt
  prepared,    \* buffers_prepared
  over,        \* neutrino_plugin_fini_v1 has run
  handles,     \* VMM handles that exist in the driver: <<kind, rank, attempt>>
  maps,        \* mapped address ranges of them
  memory,      \* cuMemAlloc allocations that exist: <<name, attempt>>
  hRef,        \* hRef[k][r]: leader_handles, follower_handles, mailbox_handles
  vRef,        \* vRef[k][r]: leader_buffs, follower_buffs, mailbox_buffs
  local,       \* local[k]: local_leader_buff, ...
  mRef,        \* mRef[m]: device_leader_table, ..., device_result_buffer, ...
  failed       \* attempts that failed (history)

driver  == <<handles, maps, memory>>
refs    == <<hRef, vRef, local, mRef>>
vars    == <<plugin, attempt, call, prepared, over, driver, refs, failed>>

Rank    == 1..Ranks
Kind    == 1..Kinds[plugin]
Memory  == 1..(Kinds[plugin] + Scratch[plugin])  \* one table per kind, then scratch
Attempt == 1..MaxAttempts
None    == 0

NoRefs == [k \in Kind |-> [r \in Rank |-> None]]
NoLocal == [k \in Kind |-> None]
NoMemory == [m \in Memory |-> None]

(***************************************************************************)
(* The calls of an attempt, in order: create this rank's buffers, exchange *)
(* their handles, take or import every rank's, and allocate the device     *)
(* tables and the scratch memory.                                          *)
(***************************************************************************)
Call(op, what, who) == [op |-> op, what |-> what, who |-> who]

NoCall == Call("none", 1, 1)

AfterCreate ==
  IF call.what < Kinds[plugin] THEN Call("create", call.what + 1, 1) ELSE Call("exchange", 1, 1)

AfterView ==
  IF call.what < Kinds[plugin] THEN Call("view", call.what + 1, call.who)
  ELSE IF call.who < Ranks THEN Call("view", 1, call.who + 1)
  ELSE Call("alloc", 1, 1)

AfterAlloc ==
  IF call.what < Kinds[plugin] + Scratch[plugin] THEN Call("alloc", call.what + 1, 1) ELSE NoCall

Init ==
  /\ plugin \in Plugin
  /\ attempt = 0
  /\ call = NoCall
  /\ prepared = FALSE
  /\ over = FALSE
  /\ handles = {} /\ maps = {} /\ memory = {}
  /\ hRef = NoRefs /\ vRef = NoRefs
  /\ local = NoLocal
  /\ mRef = NoMemory
  /\ failed = {}

(***************************************************************************)
(* Fresh, zeroed bookkeeping arrays replace those of a failed attempt.     *)
(***************************************************************************)
BeginAttempt ==
  /\ call = NoCall /\ ~prepared /\ ~over
  /\ attempt < MaxAttempts
  /\ attempt' = attempt + 1
  /\ call' = Call("create", 1, 1)
  /\ hRef' = NoRefs
  /\ vRef' = NoRefs
  /\ UNCHANGED <<plugin, prepared, over, driver, local, mRef, failed>>

(***************************************************************************)
(* The outcome of a call: on to the next one, the buffers being prepared   *)
(* when there is none, or return -1.                                       *)
(***************************************************************************)
Proceed(next) ==
  /\ call' = next
  /\ prepared' = (next = NoCall)
  /\ failed' = failed

Abort ==
  /\ call' = NoCall
  /\ prepared' = prepared
  /\ failed' = failed \cup {attempt}

Outcome(ok, next) == IF ok THEN Proceed(next) ELSE Abort

(***************************************************************************)
(* create_fabric_buffer: create, map, publish the pointer, clear.  done    *)
(* counts how many of them succeed before the first that does not.         *)
(***************************************************************************)
Create ==
  /\ call.op = "create"
  /\ \E done \in 0..4 :
       /\ IF done >= 1
          THEN /\ handles' = handles \cup {<<call.what, Me, attempt>>}
               /\ hRef' = [hRef EXCEPT ![call.what][Me] = attempt]
          ELSE UNCHANGED <<handles, hRef>>
       /\ maps' = IF done >= 2 THEN maps \cup {<<call.what, Me, attempt>>} ELSE maps
       /\ local' = IF done >= 3 THEN [local EXCEPT ![call.what] = attempt] ELSE local
       /\ Outcome(done = 4, AfterCreate)
  /\ UNCHANGED <<plugin, attempt, over, memory, vRef, mRef>>

Exchange ==
  /\ call.op = "exchange"
  /\ \E ok \in BOOLEAN : Outcome(ok, Call("view", 1, 1))
  /\ UNCHANGED <<plugin, attempt, over, driver, refs>>

Adopt ==
  /\ call.op = "view" /\ call.who = Me
  /\ vRef' = [vRef EXCEPT ![call.what][Me] = local[call.what]]
  /\ Proceed(AfterView)
  /\ UNCHANGED <<plugin, attempt, over, driver, hRef, local, mRef>>

(***************************************************************************)
(* import_fabric_buffer: import, map, grant access and publish.            *)
(***************************************************************************)
Import ==
  /\ call.op = "view" /\ call.who # Me
  /\ \E done \in 0..3 :
       /\ IF done >= 1
          THEN /\ handles' = handles \cup {<<call.what, call.who, attempt>>}
               /\ hRef' = [hRef EXCEPT ![call.what][call.who] = attempt]
          ELSE UNCHANGED <<handles, hRef>>
       /\ maps' = IF done >= 2 THEN maps \cup {<<call.what, call.who, attempt>>} ELSE maps
       /\ vRef' = IF done = 3 THEN [vRef EXCEPT ![call.what][call.who] = attempt] ELSE vRef
       /\ Outcome(done = 3, AfterView)
  /\ UNCHANGED <<plugin, attempt, over, memory, local, mRef>>

\* A device table or scratch buffer: allocate it, then fill it.
Alloc ==
  /\ call.op = "alloc"
  /\ \E done \in 0..2 :
       /\ IF done >= 1
          THEN /\ memory' = memory \cup {<<call.what, attempt>>}
               /\ mRef' = [mRef EXCEPT ![call.what] = attempt]
          ELSE UNCHANGED <<memory, mRef>>
       /\ Outcome(done = 2, AfterAlloc)
  /\ UNCHANGED <<plugin, attempt, over, handles, maps, hRef, vRef, local>>

(***************************************************************************)
(* neutrino_plugin_fini_v1: free the tables and buffers, unmap the views,  *)
(* release the handles, forget everything.                                 *)
(***************************************************************************)
Referred(ref) == {<<k, r, ref[k][r]>> : k \in Kind, r \in Rank}
Allocated == {<<m, mRef[m]>> : m \in Memory}

UnmappedImports == Referred([k \in Kind |-> [vRef[k] EXCEPT ![Me] = None]])  \* mutant
Unmapped == Referred(vRef)
Released == Referred(hRef)

HandlesKept == hRef                         \* mutant: not forgotten
HandlesAfterFini == NoRefs

Fini ==
  /\ call = NoCall /\ ~over
  /\ memory' = memory \ Allocated
  /\ maps' = maps \ Unmapped
  /\ handles' = handles \ Released
  /\ hRef' = HandlesAfterFini
  /\ vRef' = NoRefs
  /\ local' = NoLocal
  /\ mRef' = NoMemory
  /\ prepared' = FALSE
  /\ over' = TRUE
  /\ UNCHANGED <<plugin, attempt, call, failed>>

Prepare ==
  \/ BeginAttempt
  \/ Create
  \/ Exchange
  \/ Adopt
  \/ Import
  \/ Alloc

Next == Prepare \/ Fini

Spec == Init /\ [][Next]_vars

------------------------------------------------------------------------------
TypeOK ==
  /\ plugin \in Plugin
  /\ attempt \in 0..MaxAttempts
  /\ call = NoCall \/ call \in [op : {"create"}, what : Kind, who : {1}]
                   \/ call = Call("exchange", 1, 1)
                   \/ call \in [op : {"view"}, what : Kind, who : Rank]
                   \/ call \in [op : {"alloc"}, what : Memory, who : {1}]
  /\ prepared \in BOOLEAN /\ over \in BOOLEAN
  /\ handles \subseteq Kind \X Rank \X Attempt
  /\ maps \subseteq Kind \X Rank \X Attempt
  /\ memory \subseteq Memory \X Attempt
  /\ hRef \in [Kind -> [Rank -> 0..MaxAttempts]]
  /\ vRef \in [Kind -> [Rank -> 0..MaxAttempts]]
  /\ local \in [Kind -> 0..MaxAttempts]
  /\ mRef \in [Memory -> 0..MaxAttempts]
  /\ failed \subseteq Attempt

(***************************************************************************)
(* Whatever fails and is retried, every reference of runtime_state is null *)
(* or to something that exists, so fini frees nothing twice.               *)
(***************************************************************************)
NoDanglingReference ==
  /\ \A k \in Kind, r \in Rank :
       /\ hRef[k][r] # None => <<k, r, hRef[k][r]>> \in handles
       /\ vRef[k][r] # None => <<k, r, vRef[k][r]>> \in maps
  /\ \A k \in Kind : local[k] # None => <<k, Me, local[k]>> \in maps
  /\ \A m \in Memory : mRef[m] # None => <<m, mRef[m]>> \in memory

(***************************************************************************)
(* What the probes are given when the buffers are prepared: for every rank *)
(* and kind a view that is mapped and whose handle exists, all of them and *)
(* the device memory from the attempt that succeeded.                      *)
(***************************************************************************)
PublishedIsWhole ==
  prepared =>
    /\ \A k \in Kind, r \in Rank :
         vRef[k][r] = attempt /\ <<k, r, attempt>> \in maps \cap handles
    /\ \A m \in Memory : mRef[m] = attempt /\ <<m, attempt>> \in memory

(***************************************************************************)
(* The state is well typed, no reference dangles, and the probes are given *)
(* views of every rank and kind, mapped, of one attempt.                   *)
(***************************************************************************)
ReferencesLive == TypeOK /\ NoDanglingReference /\ PublishedIsWhole

(***************************************************************************)
(* Only failed attempts leak: after fini, everything that still exists was *)
(* made by an attempt that failed.                                         *)
(***************************************************************************)
OnlyFailedLeak ==
  over =>
    /\ \A h \in handles \cup maps : h[3] \in failed
    /\ \A m \in memory : m[2] \in failed
=============================================================================
