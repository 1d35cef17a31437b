------------------------------ MODULE NcclProber ------------------------------
(***************************************************************************)
(* nccl/prober.py: the wrapper around Neutrino's CUDA prober that moves    *)
(* the probe from the entry of an NCCL kernel into the device function     *)
(* (devFunc) the kernel dispatches to.  The core prober runs first with a  *)
(* harmless shell probe and generates a module; the wrapper then           *)
(* instruments the bodies of the selected functions, sends the direct path *)
(* of the dispatch through the table fallback, turns the fallback into     *)
(* calls of local functions, and assembles the result.                     *)
(*                                                                         *)
(* A module is represented by what the wrapper changes in it.  A process   *)
(* may die at any point, and a work directory may be used again, by a      *)
(* whole run or by the second stage alone.                                 *)
(*                                                                         *)
(* External: the core prober, its table in kernel.info, its rewriting of   *)
(* the fallback (a trap for every id that is not mapped) and ptxas.        *)
(***************************************************************************)
EXTENDS Naturals, Functions

CONSTANTS
  Func,       \* device functions
  Id,         \* runtime function ids
  Probes,     \* probe configurations: [dynamic, hooks, maps]
  Kernels,    \* NCCL kernels and their modules, see KernelType
  NoFunc, NoId, NoModule,
  MaxRuns     \* bound of the model: runs in one work directory

Hook == {"ptp_metrics", "recv_latency", "latency_local_epoch", "throughput_recv",
         "memory_bytes", "shell"}
Map  == {"ptp_metrics", "sr_latency", "fabricperf_throughput", "fabricperf_probe_bytes"}

KernelType ==
  [table   : [Id -> Func],      \* the functions of NCCL's ncclDevFuncTable
   local   : SUBSET Func,       \* those whose body is in the kernel's module
   same    : SUBSET Func,       \* whose descriptor is that of the kernel
   ruled   : SUBSET Func,       \* that a rule for the kernel's name matches
   direct  : Id,                \* the id with a path of its own in the entry,
   op      : {"eq", "ne"},      \* and the comparison that leads to it
   others  : SUBSET Id,         \* ids in unrelated setp.eq.s16 comparisons
   unequal : SUBSET Id,         \* ids in unrelated setp.ne.s16 comparisons
   section : BOOLEAN,           \* kernel.info lists the local functions
   params  : SUBSET Func,       \* functions with parameters
   anchors : [Func -> SUBSET {"own", "loads"}],
               \* the probe's own anchors, and v2.b64 receive loads
   pruned  : BOOLEAN]           \* the core prober keeps a pruned module too

\* A generated module: see Generated.
Module ==
  [probed : UNION {[L -> {0, 1}] : L \in SUBSET Func}, uses : SUBSET Map, inline : BOOLEAN,
   diverted : SUBSET Id, rewritten : BOOLEAN,
   calls : UNION {[D -> Func \cup {NoFunc}] : D \in SUBSET Id},
   maps : SUBSET Map, first : BOOLEAN]

ASSUME ProberAssumption ==
  /\ Id \subseteq Nat
  /\ NoFunc \notin Func /\ NoId \notin Id /\ NoModule \notin Module
  /\ Kernels \subseteq KernelType
  /\ \A k \in Kernels : k.same \subseteq k.local /\ k.ruled \subseteq k.local
  /\ Probes \subseteq [dynamic : BOOLEAN, hooks : SUBSET Hook, maps : SUBSET Map]
  /\ MaxRuns \in Nat \ {0}

VARIABLES
  kernel,   \* the kernel of this work directory
  probe,    \* the probe configuration of the user
  alone,    \* this run is the second stage alone
  runs,     \* runs so far
  at,       \* where the run is
  rc,       \* exit status of the last run: "none" until it ends by itself
  dir       \* the work directory: modules, binaries and the json file

vars == <<kernel, probe, alone, runs, at, rc, dir>>

NoJson == [status |-> "none", target |-> NoFunc, instrumented |-> {}, skipped |-> {}]

Init ==
  /\ kernel \in Kernels
  /\ probe \in Probes
  /\ alone = FALSE
  /\ runs = 0
  /\ at = "end" /\ rc = "none"
  /\ dir = [shell |-> {}, probed |-> NoModule, pruned |-> NoModule, probedBin |-> NoModule,
            prunedBin |-> NoModule, json |-> NoJson]

------------------------------------------------------------------------------
(***************************************************************************)
(* The probe configurations.  A latency probe is replaced by one that      *)
(* needs no fabric buffers; the shell keeps the maps of the probe, and of  *)
(* its hooks the calibration only.                                         *)
(***************************************************************************)
IsLatency(p) == "recv_latency" \in p.hooks /\ "sr_latency" \in p.maps
IsMemory(p)  == "fabricperf_probe_bytes" \in p.maps

LatencyLocal ==
  [dynamic |-> FALSE, hooks |-> {"latency_local_epoch", "recv_latency"}, maps |-> {"sr_latency"}]

Active == IF IsLatency(probe) THEN LatencyLocal ELSE probe

ShellRefused(p) == p.dynamic \/ p.maps = {}

ShellHooks(p) ==
  IF IsLatency(p) /\ "ptp_metrics" \in p.hooks THEN {"ptp_metrics"} ELSE {"shell"}

Shell(p) == [dynamic |-> FALSE, hooks |-> ShellHooks(p), maps |-> p.maps]

(***************************************************************************)
(* table.py: the function id is the only nonzero immediate the entry       *)
(* compares for equality; the target is the only function with the         *)
(* kernel's descriptor, or that a rule matches, or that there is.          *)
(***************************************************************************)
Only(S, none) == IF \E x \in S : S = {x} THEN CHOOSE x \in S : TRUE ELSE none

Compared == (IF kernel.op = "eq" THEN {kernel.direct} ELSE {}) \cup kernel.others

InferredId == Only(Compared \ {0}, NoId)

SelectTarget ==
  Only(kernel.same, Only(kernel.ruled, Only(kernel.local, NoFunc)))

(***************************************************************************)
(* The local functions that kernel.info lists by id, or else only the      *)
(* target, and the id by which the target is dispatched to.                *)
(***************************************************************************)
Listed == IF kernel.section THEN {i \in Id : kernel.table[i] \in kernel.local} ELSE {}

SelectedOnly == [i \in {InferredId} \ {NoId} |-> SelectTarget]   \* mutant: the replaced rewriting
LocalMapping ==
  IF Listed # {} THEN [i \in Listed |-> kernel.table[i]]
  ELSE [i \in {InferredId} \ {NoId} |-> SelectTarget]

TargetId ==
  IF InferredId # NoId THEN InferredId
  ELSE Only({i \in DOMAIN LocalMapping : LocalMapping[i] = SelectTarget}, NoId)

------------------------------------------------------------------------------
(***************************************************************************)
(* Modules.                                                                *)
(*   probed[f]  how often the body of f was instrumented, for which maps   *)
(*   inline     the direct path is taken                                   *)
(*   diverted   ids whose unrelated branches were redirected               *)
(*   rewritten  the fallback calls local functions, else NCCL's table      *)
(*   calls      the function that the fallback calls for an id             *)
(*   maps       maps declared, and whether before every function           *)
(***************************************************************************)
Generated(maps) ==
  [probed |-> [f \in kernel.local |-> 0], uses |-> {}, inline |-> TRUE, diverted |-> {},
   rewritten |-> FALSE, calls |-> kernel.table, maps |-> maps, first |-> FALSE]

(***************************************************************************)
(* probe_function_body fails when an anchor is not found.  Latency takes   *)
(* every receive load there is, throughput falls back to two of them.      *)
(***************************************************************************)
EveryLoad(f) == "loads" \in kernel.anchors[f]
FallbackLoads(f) == "throughput_recv" \in Active.hooks /\ EveryLoad(f)

AnchorFound(f) ==
  IF IsLatency(Active) THEN EveryLoad(f)
  ELSE "own" \in kernel.anchors[f] \/ FallbackLoads(f)

\* A body that declares %NR was instrumented before.
ProbedTwice(m, f) == m.probed[f] + 1            \* mutant: not looked at
ProbedOnce(m, f)  == IF m.probed[f] > 0 THEN m.probed[f] ELSE 1

CanInstrument(m, f) ==
  f \notin kernel.params /\ (m.probed[f] > 0 \/ AnchorFound(f))

Candidates ==
  {SelectTarget} \cup (IF IsMemory(Active) THEN Range(LocalMapping) ELSE {})

InstrumentedIn(m) == {f \in Candidates : CanInstrument(m, f)}

InstrumentCandidates(m) ==
  [m EXCEPT !.probed = [f \in kernel.local |->
                          IF f \in InstrumentedIn(m) THEN ProbedOnce(m, f) ELSE m.probed[f]],
            !.uses = Active.maps]

(***************************************************************************)
(* Every comparison with the id of the target is redirected, whatever it   *)
(* is about: the branch on setp.eq to the fallback, that on setp.ne always *)
(* taken.                                                                  *)
(***************************************************************************)
Unrelated == (kernel.others \cup kernel.unequal) \ {kernel.direct}

OnlyEqualRedirected(m) ==                       \* mutant: the setp.ne shape is missed
  IF kernel.op = "eq" /\ TargetId = kernel.direct THEN [m EXCEPT !.inline = FALSE] ELSE m

RedirectDirectDispatch(m) ==
  [m EXCEPT !.inline = @ /\ TargetId # kernel.direct,
            !.diverted = @ \cup ({TargetId} \cap Unrelated)]

RewriteTableFallback(m) ==
  IF DOMAIN LocalMapping = {} \/ m.rewritten THEN m
  ELSE [m EXCEPT !.rewritten = TRUE, !.calls = LocalMapping]

HoistDeclarations(m) == [m EXCEPT !.first = TRUE]

Dispatched(m) == HoistDeclarations(RewriteTableFallback(RedirectDirectDispatch(m)))

------------------------------------------------------------------------------
(***************************************************************************)
(* A run: main, or postprocess_generated_module by itself.                 *)
(***************************************************************************)
Go(place) == at' = place /\ UNCHANGED <<kernel, probe, alone, runs, rc>>
Return(status) == at' = "end" /\ rc' = status /\ UNCHANGED <<kernel, probe, alone, runs>>

Start ==
  /\ at = "end" /\ runs < MaxRuns
  /\ runs' = runs + 1
  /\ alone' \in {FALSE, dir.probed # NoModule}
  /\ at' = IF alone' THEN "select" ELSE "shell"
  /\ rc' = "none"
  /\ UNCHANGED <<kernel, probe, dir>>

\* An exception: main reports it in the json file, beside what is there.
Failed(json) == [json EXCEPT !.status = "failed"]

Raise ==
  /\ dir' = IF alone THEN dir ELSE [dir EXCEPT !.json = Failed(@)]
  /\ Return("failed")

WriteShell ==
  /\ at = "shell"
  /\ IF ShellRefused(Active) THEN Raise
     ELSE dir' = [dir EXCEPT !.shell = Shell(Active).maps] /\ Go("core")

\* External; its status is returned as it is.
CoreProber ==
  /\ at = "core"
  /\ \/ /\ dir' = [dir EXCEPT !.probed = Generated(dir.shell), !.probedBin = Generated(dir.shell),
                              !.pruned = IF kernel.pruned THEN Generated({}) ELSE NoModule,
                              !.prunedBin = IF kernel.pruned THEN Generated({}) ELSE NoModule]
        /\ Go("select")
     \/ UNCHANGED dir /\ Return("core")

Select ==
  /\ at = "select"
  /\ IF SelectTarget = NoFunc
     THEN dir' = [dir EXCEPT !.json = [NoJson EXCEPT !.status = "no-target"]] /\ Return("ok")
     ELSE UNCHANGED dir /\ Go("instrument")

\* A target that cannot be instrumented fails the run, another candidate is skipped.
Instrument ==
  /\ at = "instrument"
  /\ IF ~CanInstrument(dir.probed, SelectTarget) THEN Raise
     ELSE dir' = [dir EXCEPT !.probed = Dispatched(InstrumentCandidates(@))] /\ Go("report")

Instrumented ==
  [status |-> "instrumented", target |-> SelectTarget,
   instrumented |-> {f \in Candidates : dir.probed.probed[f] > 0},
   skipped |-> {f \in Candidates : dir.probed.probed[f] = 0}]

Report ==
  /\ at = "report"
  /\ dir' = [dir EXCEPT !.json = Instrumented]
  /\ Go("pruned")

RewritePruned ==
  /\ at = "pruned"
  /\ dir' = IF dir.pruned = NoModule THEN dir ELSE [dir EXCEPT !.pruned = Dispatched(@)]
  /\ Go("assemble")

AssembleProbed ==
  /\ at = "assemble"
  /\ \/ dir' = [dir EXCEPT !.probedBin = dir.probed] /\ Go("assemble_pruned")
     \/ Raise

PrunedForgotten == at = "assemble_pruned" /\ UNCHANGED dir /\ Go("finish")   \* mutant
AssemblePruned ==
  /\ at = "assemble_pruned"
  /\ \/ /\ dir' = IF dir.pruned = NoModule THEN dir ELSE [dir EXCEPT !.prunedBin = dir.pruned]
        /\ Go("finish")
     \/ dir.pruned # NoModule /\ Raise

Finish ==
  /\ at = "finish"
  /\ dir' = [dir EXCEPT !.json.status = "assembled"]
  /\ Return("ok")

\* The process is killed.
Crash == at # "end" /\ UNCHANGED dir /\ Return("none")

Next ==
  \/ Start
  \/ WriteShell
  \/ CoreProber
  \/ Select
  \/ Instrument
  \/ Report
  \/ RewritePruned
  \/ AssembleProbed
  \/ AssemblePruned
  \/ Finish
  \/ Crash

Spec == Init /\ [][Next]_vars

------------------------------------------------------------------------------
(***************************************************************************)
(* What an entry does with an id.                                          *)
(***************************************************************************)
IsInline(m, i) == m.inline /\ i = kernel.direct
IsCounted(m, i) ==
  /\ m.rewritten /\ ~IsInline(m, i)
  /\ i \in DOMAIN m.calls
  /\ m.probed[m.calls[i]] = 1

HandedOver == rc = "ok" /\ dir.json.status = "assembled"

Json ==
  [status : {"none", "no-target", "instrumented", "assembled", "failed"},
   target : Func \cup {NoFunc},
   instrumented : SUBSET (Func \cup {NoFunc}), skipped : SUBSET (Func \cup {NoFunc})]

Directory ==
  [shell : SUBSET Map, probed : Module \cup {NoModule}, pruned : Module \cup {NoModule},
   probedBin : Module \cup {NoModule}, prunedBin : Module \cup {NoModule}, json : Json]

TypeOK ==
  /\ kernel \in Kernels /\ probe \in Probes /\ alone \in BOOLEAN
  /\ runs \in 0..MaxRuns
  /\ at \in {"end", "shell", "core", "select", "instrument", "report", "pruned", "assemble",
             "assemble_pruned", "finish"}
  /\ rc \in {"none", "ok", "failed", "core"}
  /\ dir \in Directory

(***************************************************************************)
(* With the table of kernel.info, no binary that a run hands over traps    *)
(* on, or takes for another, an id whose function is in the module.        *)
(***************************************************************************)
NoFunctionIsLost ==
  HandedOver /\ kernel.section =>
    \A m \in {dir.probedBin, dir.prunedBin} \ {NoModule} :
      \A i \in Id : kernel.table[i] \in kernel.local =>
        IsInline(m, i) \/ (i \in DOMAIN m.calls /\ m.calls[i] = kernel.table[i])

(***************************************************************************)
(* Then the selected function is counted whichever path the entry takes to *)
(* it, and in memory mode so is every local function that is not reported  *)
(* as skipped; except a function that is inlined by a path of another id   *)
(* than the target's, and if the target's id is that of an unrelated       *)
(* comparison.                                                             *)
(***************************************************************************)
WhatIsCalledIsCounted ==
  HandedOver /\ kernel.section /\ dir.probedBin.diverted = {} =>
    \A i \in Id :
      \/ IsCounted(dir.probedBin, i)
      \/ i = kernel.direct /\ TargetId # i
      \/ kernel.table[i] \notin kernel.local
      \/ kernel.table[i] \in dir.json.skipped
      \/ ~IsMemory(Active) /\ kernel.table[i] # SelectTarget

(***************************************************************************)
(* The json file and the exit status tell the state of the directory: what *)
(* is called assembled was assembled from the modules that are there, and  *)
(* these declare, before every function, the maps their functions use;     *)
(* and every failure of main is recorded.  (And the state is well typed.)  *)
(***************************************************************************)
DeclaredBeforeUse(m) == m.first /\ m.uses \subseteq m.maps

StatusIsTrue ==
  /\ TypeOK
  /\ rc = "ok" => dir.json.status \in {"no-target", "assembled"}
  /\ HandedOver => /\ dir.probedBin = dir.probed /\ DeclaredBeforeUse(dir.probedBin)
                   /\ dir.prunedBin = dir.pruned
  /\ rc = "failed" /\ ~alone => dir.json.status = "failed"
  /\ runs = 1 /\ dir.json.status = "assembled" => rc = "ok"

(***************************************************************************)
(* The second stage is idempotent: run again on a module it finished, it   *)
(* writes the module it has read, with every body instrumented once.       *)
(***************************************************************************)
SecondStageIsIdempotent ==
  [][at = "instrument" /\ dir.probed.first => dir'.probed = dir.probed]_vars
===============================================================================
