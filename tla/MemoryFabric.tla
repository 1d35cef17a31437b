---------------------------- MODULE MemoryFabric ----------------------------
(***************************************************************************)
(* memory.cc has a fabric runtime of its own, a second writing of the one  *)
(* in latency.c: two kinds of buffers, no offset table, and MPI as the     *)
(* only exchange.  Read call by call it takes the steps of FabricResources *)
(* with those numbers; teardown_fabric_runtime is its Fini.                *)
(* MemoryPlugin adds the launches of memory.cc and the end of the process. *)
(***************************************************************************)
EXTENDS FabricResources

InMemory == plugin = "memory"

MemoryBegin    == InMemory /\ BeginAttempt
MemoryCreate   == InMemory /\ Create
MemoryExchange == InMemory /\ Exchange
MemoryAdopt    == InMemory /\ Adopt
MemoryImport   == InMemory /\ Import
MemoryAlloc    == InMemory /\ Alloc
MemoryTeardown == InMemory /\ Fini

MemoryPrepare ==
  \/ MemoryBegin
  \/ MemoryCreate
  \/ MemoryExchange
  \/ MemoryAdopt
  \/ MemoryImport
  \/ MemoryAlloc
=============================================================================
