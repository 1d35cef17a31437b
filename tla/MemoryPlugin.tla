----------------------------- MODULE MemoryPlugin -----------------------------
(***************************************************************************)
(* memory.cc as a whole: its fabric runtime, under fabric_mutex, and its   *)
(* launch sessions, under state.mutex.  The two share no other state, and  *)
(* neutrino_plugin_fini_v1 ends both, so a process is looked at either     *)
(* while it prepares buffers, before any launch, or while it launches.     *)
(* latency.c, which has no such sessions, prepares and ends only.          *)
(***************************************************************************)
EXTENDS MemorySession

CONSTANTS Kinds, Scratch, Ranks, Me, MaxAttempts      \* of FabricResources

VARIABLES plugin, attempt, call, prepared, handles, maps, memory, hRef, vRef, local, mRef,
          failed                                       \* of MemoryFabric

Fabric == INSTANCE MemoryFabric

ASSUME FabricAssumption == Fabric!FabricConstants

buffers     == <<attempt, call, prepared, handles, maps, memory, hRef, vRef, local, mRef, failed>>
launching   == <<owner, at, mine, launches, session, objects, measure, running, row>>
pluginVars  == <<vars, plugin, buffers>>

PluginInit ==
  /\ Init
  /\ Fabric!Init
  /\ plugin = "latency" => users = {}
  /\ users = {} => ~disables

LatencyPlugin == plugin = "latency" /\ Fabric!Next /\ UNCHANGED launching

PrepareBuffers == users = {} /\ Fabric!MemoryPrepare /\ UNCHANGED launching

Session(t) == plugin = "memory" /\ ThreadStep(t) /\ UNCHANGED buffers

BeginSession(t) == plugin = "memory" /\ Begin(t) /\ UNCHANGED buffers

FiniPlugin == Fabric!MemoryTeardown /\ Fini

PluginNext ==
  /\ \/ LatencyPlugin
     \/ PrepareBuffers
     \/ \E t \in users : BeginSession(t) \/ Session(t)
     \/ FiniPlugin
  /\ UNCHANGED <<plugin, settings>>

PluginSpec ==
  /\ PluginInit /\ [][PluginNext]_pluginVars
  /\ \A t \in Thread : WF_pluginVars(Session(t) /\ UNCHANGED <<plugin, settings>>)

------------------------------------------------------------------------------
\* The buffers of either plugin: see FabricResources.
ReferencesLive == Fabric!ReferencesLive
OnlyFailedLeak == Fabric!OnlyFailedLeak
===============================================================================
