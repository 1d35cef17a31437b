--------------------------- MODULE NcclProber_proofs ---------------------------
(***************************************************************************)
(* The properties of NcclProber for any kernels, functions, ids and        *)
(* probes, and any number of runs in one work directory, killed anywhere.  *)
(*                                                                         *)
(* The argument: whatever happened before, a module that has its           *)
(* declarations hoisted has been through the whole second stage (Done),    *)
(* and a module that is not NoModule calls either NCCL's table or the      *)
(* local functions.                                                        *)
(***************************************************************************)
EXTENDS NcclProber, TLAPS

(***************************************************************************)
(* What a module is like, whichever stage it is at.                        *)
(***************************************************************************)
Sound(m) ==
  /\ m \in Module
  /\ DOMAIN m.probed = kernel.local
  /\ m.calls = IF m.rewritten THEN LocalMapping ELSE kernel.table

Done(m) ==
  m.first =>
    /\ TargetId = kernel.direct => ~m.inline
    /\ {TargetId} \cap Unrelated \subseteq m.diverted
    /\ DOMAIN LocalMapping # {} => m.rewritten

\* The module the core prober generated with the shell, perhaps instrumented.
Probed(m) ==
  /\ Sound(m) /\ Done(m)
  /\ m.maps = Active.maps
  /\ m.first => /\ m.uses = Active.maps
                /\ \A f \in Candidates \cap kernel.local : CanInstrument(m, f) => m.probed[f] = 1

Uncounted == {f \in Candidates : dir.probed.probed[f] = 0}

FilesOK ==
  /\ \A m \in {dir.pruned, dir.probedBin, dir.prunedBin} : m # NoModule => Sound(m)
  /\ dir.probed # NoModule => Probed(dir.probed)
  /\ dir.pruned = NoModule => dir.prunedBin = NoModule

Reported ==
  /\ Probed(dir.probed) /\ dir.probed.first
  /\ dir.json.skipped = Uncounted

PlacesOK ==
  /\ at = "core" => dir.shell = Active.maps
  /\ at \in {"select", "instrument"} => Probed(dir.probed)
  /\ at = "report" => Probed(dir.probed) /\ dir.probed.first
  /\ at \in {"pruned", "assemble", "assemble_pruned", "finish"} =>
       Reported /\ dir.json.status = "instrumented"
  /\ at \in {"assemble_pruned", "finish"} => dir.probedBin = dir.probed
  /\ at = "finish" => dir.prunedBin = dir.pruned

StatusOK ==
  /\ rc # "none" => at = "end"
  /\ rc = "ok" => dir.json.status \in {"no-target", "assembled"}
  /\ HandedOver => Reported /\ dir.probedBin = dir.probed /\ dir.prunedBin = dir.pruned
  /\ rc = "failed" /\ ~alone => dir.json.status = "failed"
  /\ runs = 0 => dir.json = NoJson /\ at = "end"
  /\ runs = 1 /\ dir.json.status = "assembled" => rc = "ok"

\* The inductive invariant.
IInv == TypeOK /\ FilesOK /\ PlacesOK /\ StatusOK

------------------------------------------------------------------------------
(***************************************************************************)
(* The operators that choose the target keep their types.                  *)
(***************************************************************************)
LEMMA OnlyType ==
  ASSUME NEW S, NEW none
  PROVE  Only(S, none) \in S \cup {none}
BY DEF Only

LEMMA SelectTargetType ==
  ASSUME kernel \in Kernels
  PROVE  SelectTarget \in Func \cup {NoFunc}
<1>1. /\ kernel.same \subseteq Func /\ kernel.ruled \subseteq Func /\ kernel.local \subseteq Func
  BY ProberAssumption DEF KernelType
<1>2. Only(kernel.local, NoFunc) \in Func \cup {NoFunc}
  BY <1>1, OnlyType
<1>3. Only(kernel.ruled, Only(kernel.local, NoFunc)) \in Func \cup {NoFunc}
  BY <1>1, <1>2, OnlyType
<1>. QED  BY <1>1, <1>3, OnlyType DEF SelectTarget

LEMMA InferredIdType ==
  ASSUME kernel \in Kernels
  PROVE  InferredId \in Id \cup {NoId}
<1>1. Compared \subseteq Id
  BY ProberAssumption DEF KernelType, Compared
<1>. QED  BY <1>1, OnlyType DEF InferredId

LEMMA LocalMappingType ==
  ASSUME kernel \in Kernels
  PROVE  /\ DOMAIN LocalMapping \subseteq Id
         /\ LocalMapping \in [DOMAIN LocalMapping -> Func \cup {NoFunc}]
<1>1. kernel.table \in [Id -> Func] /\ Listed \subseteq Id
  BY ProberAssumption DEF KernelType, Listed
<1>2. CASE Listed # {}
  BY <1>1, <1>2 DEF LocalMapping
<1>3. CASE Listed = {}
  BY <1>3, InferredIdType, SelectTargetType DEF LocalMapping
<1>. QED  BY <1>2, <1>3

LEMMA CandidatesType ==
  ASSUME kernel \in Kernels
  PROVE  Candidates \subseteq Func \cup {NoFunc}
BY LocalMappingType, SelectTargetType DEF Candidates, Range

LEMMA ActiveType ==
  ASSUME probe \in Probes
  PROVE  Active.maps \subseteq Map
BY ProberAssumption DEF Active, LatencyLocal, Map

(***************************************************************************)
(* What is called for a local id: by the table and by the local mapping    *)
(* the same function, if kernel.info lists the local functions.            *)
(***************************************************************************)
LEMMA LocalCall ==
  ASSUME kernel \in Kernels, kernel.section, NEW m, Sound(m),
         NEW i \in Id, kernel.table[i] \in kernel.local
  PROVE  i \in DOMAIN m.calls /\ m.calls[i] = kernel.table[i]
<1>1. kernel.table \in [Id -> Func]
  BY ProberAssumption DEF KernelType
<1>2. i \in Listed
  BY DEF Listed
<1>. QED  BY <1>1, <1>2 DEF Sound, LocalMapping

------------------------------------------------------------------------------
(***************************************************************************)
(* Modules.                                                                *)
(***************************************************************************)
LEMMA GeneratedIsSound ==
  ASSUME kernel \in Kernels, NEW maps \in SUBSET Map
  PROVE  Sound(Generated(maps)) /\ ~Generated(maps).first /\ Generated(maps).maps = maps
<1>1. kernel.table \in [Id -> Func] /\ kernel.local \in SUBSET Func
  BY ProberAssumption DEF KernelType
<1>2. [f \in kernel.local |-> 0] \in UNION {[L -> {0, 1}] : L \in SUBSET Func}
  BY <1>1
<1>3. kernel.table \in UNION {[D -> Func \cup {NoFunc}] : D \in SUBSET Id}
  BY <1>1
<1>4. Generated(maps) \in Module
  BY <1>2, <1>3 DEF Generated, Module
<1>. QED  BY <1>4 DEF Generated, Sound

(***************************************************************************)
(* The second stage, one rewriting after the other.                        *)
(***************************************************************************)
LEMMA RedirectIs ==
  ASSUME kernel \in Kernels, NEW m \in Module
  PROVE  /\ RedirectDirectDispatch(m) \in Module
         /\ RedirectDirectDispatch(m).probed = m.probed
         /\ RedirectDirectDispatch(m).uses = m.uses
         /\ RedirectDirectDispatch(m).inline <=> (m.inline /\ TargetId # kernel.direct)
         /\ RedirectDirectDispatch(m).diverted
              = m.diverted \cup ({TargetId} \cap Unrelated)
         /\ RedirectDirectDispatch(m).rewritten = m.rewritten
         /\ RedirectDirectDispatch(m).calls = m.calls
         /\ RedirectDirectDispatch(m).maps = m.maps
<1>1. Unrelated \subseteq Id
  BY ProberAssumption DEF KernelType, Unrelated
<1>2. RedirectDirectDispatch(m) \in Module
  BY <1>1 DEF Module, RedirectDirectDispatch
<1>. QED  BY <1>2 DEF Module, RedirectDirectDispatch

LEMMA RewriteIs ==
  ASSUME kernel \in Kernels, NEW m \in Module
  PROVE  /\ RewriteTableFallback(m) \in Module
         /\ RewriteTableFallback(m).probed = m.probed
         /\ RewriteTableFallback(m).uses = m.uses
         /\ RewriteTableFallback(m).inline = m.inline
         /\ RewriteTableFallback(m).diverted = m.diverted
         /\ RewriteTableFallback(m).maps = m.maps
         /\ DOMAIN LocalMapping = {} \/ m.rewritten => RewriteTableFallback(m) = m
         /\ ~(DOMAIN LocalMapping = {} \/ m.rewritten) =>
              /\ RewriteTableFallback(m).rewritten
              /\ RewriteTableFallback(m).calls = LocalMapping
<1>1. LocalMapping \in UNION {[D -> Func \cup {NoFunc}] : D \in SUBSET Id}
  BY LocalMappingType
<1>2. CASE DOMAIN LocalMapping = {} \/ m.rewritten
  BY <1>2 DEF RewriteTableFallback
<1>3. CASE ~(DOMAIN LocalMapping = {} \/ m.rewritten)
  <2>1. RewriteTableFallback(m) = [m EXCEPT !.rewritten = TRUE, !.calls = LocalMapping]
    BY <1>3 DEF RewriteTableFallback
  <2>2. [m EXCEPT !.rewritten = TRUE, !.calls = LocalMapping] \in Module
    BY <1>1 DEF Module
  <2>. QED  BY <1>3, <2>1, <2>2 DEF Module
<1>. QED  BY <1>2, <1>3

LEMMA HoistIs ==
  ASSUME NEW m \in Module
  PROVE  /\ HoistDeclarations(m) \in Module
         /\ HoistDeclarations(m).probed = m.probed
         /\ HoistDeclarations(m).uses = m.uses
         /\ HoistDeclarations(m).inline = m.inline
         /\ HoistDeclarations(m).diverted = m.diverted
         /\ HoistDeclarations(m).rewritten = m.rewritten
         /\ HoistDeclarations(m).calls = m.calls
         /\ HoistDeclarations(m).maps = m.maps
         /\ HoistDeclarations(m).first
BY DEF HoistDeclarations, Module

LEMMA DispatchedIs ==
  ASSUME kernel \in Kernels, NEW m, Sound(m)
  PROVE  /\ Sound(Dispatched(m)) /\ Done(Dispatched(m)) /\ Dispatched(m).first
         /\ Dispatched(m).probed = m.probed
         /\ Dispatched(m).uses = m.uses
         /\ Dispatched(m).maps = m.maps
<1> DEFINE d == RedirectDirectDispatch(m)
           w == RewriteTableFallback(d)
<1>1. m \in Module /\ d \in Module /\ w \in Module /\ Dispatched(m) = HoistDeclarations(w)
  BY RedirectIs, RewriteIs DEF Sound, Dispatched
<1>2. Dispatched(m) \in Module /\ Dispatched(m).first
  BY <1>1, HoistIs
<1>3. /\ Dispatched(m).probed = m.probed
      /\ Dispatched(m).uses = m.uses
      /\ Dispatched(m).maps = m.maps
  BY <1>1, RedirectIs, RewriteIs, HoistIs
<1>4. d.rewritten = m.rewritten /\ d.calls = m.calls
  BY <1>1, RedirectIs
<1>5. Dispatched(m).rewritten = w.rewritten /\ Dispatched(m).calls = w.calls
  BY <1>1, HoistIs
<1>6. w.calls = IF w.rewritten THEN LocalMapping ELSE kernel.table
  BY <1>1, <1>4, RewriteIs DEF Sound
<1>7. DOMAIN LocalMapping # {} => w.rewritten
  BY <1>1, RewriteIs
<1>8. /\ Dispatched(m).inline <=> (m.inline /\ TargetId # kernel.direct)
      /\ Dispatched(m).diverted = m.diverted \cup ({TargetId} \cap Unrelated)
  <2>1. /\ d.inline <=> (m.inline /\ TargetId # kernel.direct)
        /\ d.diverted = m.diverted \cup ({TargetId} \cap Unrelated)
    BY <1>1, RedirectIs
  <2>2. w.inline = d.inline /\ w.diverted = d.diverted
    BY <1>1, RewriteIs
  <2>. QED  BY <1>1, <2>1, <2>2, HoistIs
<1>9. Sound(Dispatched(m))
  BY <1>2, <1>3, <1>5, <1>6 DEF Sound
<1>10. Done(Dispatched(m))
  BY <1>5, <1>7, <1>8 DEF Done
<1>. QED  BY <1>2, <1>3, <1>9, <1>10

LEMMA InstrumentedIs ==
  ASSUME kernel \in Kernels, probe \in Probes, NEW m, Sound(m)
  PROVE  /\ Sound(InstrumentCandidates(m))
         /\ InstrumentCandidates(m).probed
              = [f \in kernel.local |->
                   IF f \in InstrumentedIn(m) THEN ProbedOnce(m, f) ELSE m.probed[f]]
         /\ InstrumentCandidates(m).uses = Active.maps
         /\ InstrumentCandidates(m).maps = m.maps
<1> DEFINE p == [f \in kernel.local |->
                   IF f \in InstrumentedIn(m) THEN ProbedOnce(m, f) ELSE m.probed[f]]
<1>1. m \in Module /\ m.probed \in [kernel.local -> {0, 1}]
  BY DEF Sound, Module
<1>2. kernel.local \in SUBSET Func
  BY ProberAssumption DEF KernelType
<1>3. p \in UNION {[L -> {0, 1}] : L \in SUBSET Func} /\ DOMAIN p = kernel.local
  BY <1>1, <1>2 DEF ProbedOnce
<1>4. InstrumentCandidates(m) = [m EXCEPT !.probed = p, !.uses = Active.maps]
  BY DEF InstrumentCandidates
<1>. HIDE DEF p
<1>5. InstrumentCandidates(m) \in Module
  BY <1>1, <1>3, <1>4, ActiveType DEF Module
<1>6. /\ InstrumentCandidates(m).probed = p
      /\ InstrumentCandidates(m).uses = Active.maps
      /\ InstrumentCandidates(m).maps = m.maps
      /\ InstrumentCandidates(m).rewritten = m.rewritten
      /\ InstrumentCandidates(m).calls = m.calls
  BY <1>1, <1>4 DEF Module
<1>7. Sound(InstrumentCandidates(m))
  BY <1>3, <1>5, <1>6 DEF Sound
<1>. QED  BY <1>6, <1>7 DEF p

(***************************************************************************)
(* The whole second stage on the module of the core prober, and on one it  *)
(* has finished.                                                           *)
(***************************************************************************)
LEMMA FinishedIsProbed ==
  ASSUME kernel \in Kernels, probe \in Probes, NEW m, Probed(m)
  PROVE  /\ Probed(Dispatched(InstrumentCandidates(m)))
         /\ Dispatched(InstrumentCandidates(m)).first
<1> DEFINE i == InstrumentCandidates(m)
           d == Dispatched(i)
<1>1. Sound(m) /\ m.maps = Active.maps /\ m.probed \in [kernel.local -> {0, 1}]
  BY DEF Probed, Sound, Module
<1>2. /\ Sound(i) /\ i.uses = Active.maps /\ i.maps = Active.maps
      /\ i.probed = [f \in kernel.local |->
                       IF f \in InstrumentedIn(m) THEN ProbedOnce(m, f) ELSE m.probed[f]]
  BY <1>1, InstrumentedIs
<1>3. /\ Sound(d) /\ Done(d) /\ d.first
      /\ d.probed = i.probed /\ d.uses = Active.maps /\ d.maps = Active.maps
  BY <1>2, DispatchedIs
<1>. HIDE DEF i, d
<1>4. ASSUME NEW f \in Candidates \cap kernel.local, CanInstrument(d, f)
      PROVE  d.probed[f] = 1
  <2>1. d.probed[f] = IF f \in InstrumentedIn(m) THEN ProbedOnce(m, f) ELSE m.probed[f]
    BY <1>2, <1>3
  <2>2. CASE f \in InstrumentedIn(m)
    BY <1>1, <2>1, <2>2 DEF ProbedOnce
  <2>3. CASE f \notin InstrumentedIn(m)
    <3>1. ~CanInstrument(m, f) /\ d.probed[f] = m.probed[f]
      BY <2>1, <2>3 DEF InstrumentedIn
    <3>. QED  BY <1>4, <3>1 DEF CanInstrument
  <2>. QED  BY <2>2, <2>3
<1>. QED  BY <1>3, <1>4 DEF Probed, i, d

LEMMA SecondStageAgain ==
  ASSUME kernel \in Kernels, probe \in Probes, NEW m, Probed(m), m.first
  PROVE  Dispatched(InstrumentCandidates(m)) = m
<1>1. m \in Module /\ Sound(m) /\ Done(m) /\ m.probed \in [kernel.local -> {0, 1}]
  BY DEF Probed, Sound, Module
<1>2. [f \in kernel.local |-> IF f \in InstrumentedIn(m) THEN ProbedOnce(m, f) ELSE m.probed[f]]
        = m.probed
  <2>1. ASSUME NEW f \in kernel.local, f \in InstrumentedIn(m)
        PROVE  ProbedOnce(m, f) = m.probed[f]
    <3>1. m.probed[f] = 1
      BY <2>1 DEF Probed, InstrumentedIn
    <3>. QED  BY <3>1 DEF ProbedOnce
  <2>. QED  BY <1>1, <2>1
<1>3. InstrumentCandidates(m) = [m EXCEPT !.probed = m.probed, !.uses = m.uses]
  BY <1>2 DEF InstrumentCandidates, Probed
<1>4. InstrumentCandidates(m) = m
  BY <1>1, <1>3 DEF Module
<1>5. RedirectDirectDispatch(m) = m
  <2>1. (m.inline /\ TargetId # kernel.direct) = m.inline
    <3>1. m.inline \in BOOLEAN
      BY <1>1 DEF Module
    <3>2. m.inline => TargetId # kernel.direct
      BY <1>1 DEF Done
    <3>. QED  BY <3>1, <3>2, Zenon
  <2>2. m.diverted \cup ({TargetId} \cap Unrelated) = m.diverted
    BY <1>1 DEF Done
  <2>3. RedirectDirectDispatch(m) = [m EXCEPT !.inline = m.inline, !.diverted = m.diverted]
    BY <2>1, <2>2 DEF RedirectDirectDispatch
  <2>. QED  BY <1>1, <2>3 DEF Module
<1>6. RewriteTableFallback(m) = m
  BY <1>1 DEF Done, RewriteTableFallback
<1>7. HoistDeclarations(m) = m
  BY <1>1 DEF HoistDeclarations, Module
<1>. QED  BY <1>4, <1>5, <1>6, <1>7 DEF Dispatched

------------------------------------------------------------------------------
(***************************************************************************)
(* The kernel and the probe of a work directory stay what they are, and so *)
(* does what is chosen for them.                                           *)
(***************************************************************************)
LEMMA Frame ==
  ASSUME kernel' = kernel, probe' = probe
  PROVE  /\ SelectTarget' = SelectTarget /\ InferredId' = InferredId
         /\ LocalMapping' = LocalMapping /\ TargetId' = TargetId
         /\ Active' = Active /\ Candidates' = Candidates
<1>1. SelectTarget' = SelectTarget /\ InferredId' = InferredId
  BY DEF SelectTarget, InferredId, Only, Compared
<1>2. LocalMapping' = LocalMapping
  BY <1>1 DEF LocalMapping, Listed
<1>3. TargetId' = TargetId
  BY <1>1, <1>2 DEF TargetId, Only
<1>4. Active' = Active
  BY DEF Active, LatencyLocal, IsLatency
<1>5. Candidates' = Candidates
  BY <1>1, <1>2, <1>4 DEF Candidates, IsMemory
<1>. QED  BY <1>1, <1>2, <1>3, <1>4, <1>5

LEMMA FrameModule ==
  ASSUME kernel' = kernel, probe' = probe, NEW m
  PROVE  /\ Sound(m)' <=> Sound(m)
         /\ Done(m)' <=> Done(m)
         /\ Probed(m)' <=> Probed(m)
<1>1. Sound(m)' <=> Sound(m)
  BY Frame DEF Sound
<1>2. Done(m)' <=> Done(m)
  BY Frame DEF Done, Unrelated
<1>3. ASSUME NEW f PROVE CanInstrument(m, f)' <=> CanInstrument(m, f)
  BY Frame DEF CanInstrument, AnchorFound, EveryLoad, FallbackLoads, IsLatency
<1>. QED  BY <1>1, <1>2, <1>3, Frame DEF Probed

(***************************************************************************)
(* Every step keeps the invariant.                                         *)
(***************************************************************************)
LEMMA RunsBound == MaxRuns \in Nat \ {0}
BY ProberAssumption

LEMMA InitInv == Init => IInv
<1> SUFFICES ASSUME Init PROVE IInv
  OBVIOUS
<1>1. NoJson \in Json
  BY DEF NoJson, Json
<1>2. dir \in Directory
  BY <1>1 DEF Init, Directory
<1>3. dir.json = NoJson /\ dir.json.status = "none"
  BY DEF Init, NoJson
<1>4. TypeOK
  <2>1. alone \in BOOLEAN
    BY Zenon DEF Init
  <2>2. runs \in 0..MaxRuns
    BY RunsBound DEF Init
  <2>. QED  BY <1>2, <2>1, <2>2 DEF Init, TypeOK
<1>5. FilesOK
  BY DEF Init, FilesOK
<1>6. PlacesOK
  BY DEF Init, PlacesOK
<1>7. StatusOK
  BY <1>3 DEF Init, StatusOK, HandedOver
<1>. QED  BY <1>4, <1>5, <1>6, <1>7 DEF IInv

LEMMA StartStep ==
  ASSUME IInv, Start
  PROVE  IInv'
<1>1. TypeOK'
  <2>1. alone' \in BOOLEAN
    BY Zenon DEF Start
  <2>2. runs' \in 0..MaxRuns
    BY RunsBound DEF IInv, TypeOK, Start
  <2>3. at' \in {"select", "shell"}
    BY DEF Start
  <2>. QED  BY <2>1, <2>2, <2>3 DEF IInv, TypeOK, Start
<1>2. FilesOK'
  BY FrameModule DEF IInv, FilesOK, Start
<1>3. PlacesOK'
  BY FrameModule DEF IInv, FilesOK, PlacesOK, Start
<1>4. StatusOK'
  <2>1. runs \in Nat /\ runs' = runs + 1 /\ rc' = "none" /\ dir' = dir
    BY RunsBound DEF IInv, TypeOK, Start
  <2>2. ~(runs' = 1 /\ dir'.json.status = "assembled")
    <3>1. NoJson.status = "none"
      BY DEF NoJson
    <3>. QED  BY <2>1, <3>1 DEF IInv, StatusOK
  <2>. QED  BY <2>1, <2>2 DEF StatusOK, HandedOver
<1>. QED  BY <1>1, <1>2, <1>3, <1>4 DEF IInv

\* What a failure leaves: the files as they are, and the word "failed".
LEMMA RaiseStep ==
  ASSUME IInv, Raise, at # "end"
  PROVE  IInv'
<1>1. Failed(dir.json) \in Json /\ Failed(dir.json).status = "failed"
  BY DEF IInv, TypeOK, Directory, Json, Failed
<1>2. /\ dir' \in Directory
      /\ dir'.probed = dir.probed /\ dir'.pruned = dir.pruned
      /\ dir'.probedBin = dir.probedBin /\ dir'.prunedBin = dir.prunedBin
      /\ ~alone => dir'.json.status = "failed"
      /\ alone => dir'.json = dir.json
  BY <1>1 DEF IInv, TypeOK, Raise, Directory
<1>3. TypeOK'
  BY <1>2 DEF IInv, TypeOK, Raise, Return
<1>4. FilesOK'
  BY <1>2, FrameModule DEF IInv, FilesOK, Raise, Return
<1>5. PlacesOK'
  BY DEF PlacesOK, Raise, Return
<1>6. StatusOK'
  BY <1>2 DEF IInv, StatusOK, Raise, Return, HandedOver
<1>. QED  BY <1>3, <1>4, <1>5, <1>6 DEF IInv

(***************************************************************************)
(* A step that goes on to another place leaves the run and its status.     *)
(***************************************************************************)
LEMMA GoKeeps ==
  ASSUME IInv, at # "end", NEW place, Go(place), place # "end", dir' \in Directory,
         place \in {"core", "select", "instrument", "report", "pruned", "assemble",
                    "assemble_pruned", "finish"},
         runs = 1 => dir'.json.status # "assembled"
  PROVE  TypeOK' /\ StatusOK'
<1>1. rc = "none" /\ rc' = "none" /\ runs' = runs /\ alone' = alone /\ at' = place /\ runs # 0
  BY DEF IInv, StatusOK, TypeOK, Go
<1>2. TypeOK'
  BY <1>1 DEF IInv, TypeOK, Go
<1>3. StatusOK'
  BY <1>1 DEF StatusOK, HandedOver
<1>. QED  BY <1>2, <1>3

LEMMA NotAssembledYet ==
  ASSUME IInv, at # "end", runs = 1
  PROVE  dir.json.status # "assembled"
BY DEF IInv, StatusOK

LEMMA WriteShellStep ==
  ASSUME IInv, WriteShell
  PROVE  IInv'
<1>1. CASE ShellRefused(Active)
  BY <1>1, RaiseStep DEF WriteShell
<1>2. CASE ~ShellRefused(Active)
  <2>1. dir' = [dir EXCEPT !.shell = Active.maps] /\ Go("core") /\ at = "shell"
    BY <1>2 DEF WriteShell, Shell
  <2>2. Active.maps \in SUBSET Map
    BY ActiveType DEF IInv, TypeOK
  <2>3. /\ dir' \in Directory /\ dir'.shell = Active.maps /\ dir'.json = dir.json
        /\ dir'.probed = dir.probed /\ dir'.pruned = dir.pruned
        /\ dir'.probedBin = dir.probedBin /\ dir'.prunedBin = dir.prunedBin
    BY <2>1, <2>2 DEF IInv, TypeOK, Directory
  <2>4. TypeOK' /\ StatusOK'
    BY <2>1, <2>3, GoKeeps, NotAssembledYet
  <2>5. FilesOK'
    BY <2>1, <2>3, FrameModule DEF IInv, FilesOK, Go
  <2>6. PlacesOK'
    BY <2>1, <2>3, Frame DEF PlacesOK, Go
  <2>. QED  BY <2>4, <2>5, <2>6 DEF IInv
<1>. QED  BY <1>1, <1>2

LEMMA CoreProberStep ==
  ASSUME IInv, CoreProber
  PROVE  IInv'
<1> DEFINE g == Generated(Active.maps)
           p == IF kernel.pruned THEN Generated({}) ELSE NoModule
<1>0. at = "core" /\ dir.shell = Active.maps /\ kernel \in Kernels /\ dir \in Directory
  BY DEF IInv, CoreProber, PlacesOK, TypeOK
<1>1. Probed(g) /\ g \in Module
  <2>1. Sound(g) /\ ~g.first /\ g.maps = Active.maps
    BY GeneratedIsSound, ActiveType DEF IInv, TypeOK
  <2>. QED  BY <2>1 DEF Probed, Done, Sound
<1>2. p # NoModule => Sound(p) /\ p \in Module
  BY <1>0, GeneratedIsSound DEF Sound
<1>. HIDE DEF g, p
<1>3. CASE /\ dir' = [dir EXCEPT !.probed = g, !.probedBin = g, !.pruned = p, !.prunedBin = p]
           /\ Go("select")
  <2>1. /\ dir' \in Directory /\ dir'.shell = dir.shell /\ dir'.json = dir.json
        /\ dir'.probed = g /\ dir'.pruned = p /\ dir'.probedBin = g /\ dir'.prunedBin = p
    BY <1>0, <1>1, <1>2, <1>3 DEF Directory
  <2>2. TypeOK' /\ StatusOK'
    BY <1>0, <1>3, <2>1, GoKeeps, NotAssembledYet
  <2>3. FilesOK'
    BY <1>1, <1>2, <1>3, <2>1, FrameModule DEF FilesOK, Go, Probed
  <2>4. PlacesOK'
    BY <1>1, <1>3, <2>1, FrameModule DEF PlacesOK, Go
  <2>. QED  BY <2>2, <2>3, <2>4 DEF IInv
<1>4. CASE UNCHANGED dir /\ Return("core")
  <2>1. TypeOK'
    BY <1>4 DEF IInv, TypeOK, Return
  <2>2. FilesOK'
    BY <1>4, FrameModule DEF IInv, FilesOK, Return
  <2>3. PlacesOK'
    BY <1>4 DEF PlacesOK, Return
  <2>4. StatusOK'
    BY <1>0, <1>4 DEF IInv, StatusOK, Return, HandedOver
  <2>. QED  BY <2>1, <2>2, <2>3, <2>4 DEF IInv
<1>. QED  BY <1>0, <1>3, <1>4 DEF CoreProber, g, p

LEMMA SelectStep ==
  ASSUME IInv, Select
  PROVE  IInv'
<1>1. at = "select" /\ dir \in Directory /\ Probed(dir.probed)
  BY DEF Select, IInv, TypeOK, PlacesOK
<1>2. CASE SelectTarget = NoFunc
  <2> DEFINE j == [NoJson EXCEPT !.status = "no-target"]
  <2>1. dir' = [dir EXCEPT !.json = j] /\ Return("ok")
    BY <1>2 DEF Select
  <2>2. j \in Json /\ j.status = "no-target"
    BY DEF NoJson, Json
  <2>. HIDE DEF j
  <2>3. /\ dir' \in Directory /\ dir'.json.status = "no-target"
        /\ dir'.probed = dir.probed /\ dir'.pruned = dir.pruned
        /\ dir'.probedBin = dir.probedBin /\ dir'.prunedBin = dir.prunedBin
    BY <1>1, <2>1, <2>2 DEF Directory
  <2>4. TypeOK'
    BY <2>1, <2>3 DEF IInv, TypeOK, Return
  <2>5. FilesOK'
    BY <2>1, <2>3, FrameModule DEF IInv, FilesOK, Return
  <2>6. PlacesOK' /\ StatusOK'
    BY <1>1, <2>1, <2>3 DEF IInv, PlacesOK, StatusOK, Return, HandedOver
  <2>. QED  BY <2>4, <2>5, <2>6 DEF IInv
<1>3. CASE SelectTarget # NoFunc
  <2>1. UNCHANGED dir /\ Go("instrument")
    BY <1>3 DEF Select
  <2>2. TypeOK' /\ StatusOK'
    BY <1>1, <2>1, GoKeeps, NotAssembledYet
  <2>3. FilesOK' /\ PlacesOK'
    BY <1>1, <2>1, FrameModule DEF IInv, FilesOK, PlacesOK, Go
  <2>. QED  BY <2>2, <2>3 DEF IInv
<1>. QED  BY <1>2, <1>3

LEMMA InstrumentStep ==
  ASSUME IInv, Instrument
  PROVE  IInv'
<1>1. at = "instrument" /\ dir \in Directory /\ Probed(dir.probed) /\ kernel \in Kernels /\ probe \in Probes
  BY DEF Instrument, IInv, TypeOK, PlacesOK
<1>2. CASE ~CanInstrument(dir.probed, SelectTarget)
  BY <1>1, <1>2, RaiseStep DEF Instrument
<1>3. CASE CanInstrument(dir.probed, SelectTarget)
  <2> DEFINE d == Dispatched(InstrumentCandidates(dir.probed))
  <2>1. dir' = [dir EXCEPT !.probed = d] /\ Go("report")
    BY <1>3 DEF Instrument
  <2>2. Probed(d) /\ d.first /\ d \in Module
    BY <1>1, FinishedIsProbed DEF Probed, Sound
  <2>. HIDE DEF d
  <2>3. /\ dir' \in Directory /\ dir'.json = dir.json /\ dir'.probed = d
        /\ dir'.pruned = dir.pruned
        /\ dir'.probedBin = dir.probedBin /\ dir'.prunedBin = dir.prunedBin
    BY <1>1, <2>1, <2>2 DEF Directory
  <2>4. TypeOK' /\ StatusOK'
    BY <1>1, <2>1, <2>3, GoKeeps, NotAssembledYet
  <2>5. FilesOK' /\ PlacesOK'
    BY <2>1, <2>2, <2>3, FrameModule DEF IInv, FilesOK, PlacesOK, Go
  <2>. QED  BY <2>4, <2>5 DEF IInv
<1>. QED  BY <1>2, <1>3

LEMMA ReportStep ==
  ASSUME IInv, Report
  PROVE  IInv'
<1>1. /\ at = "report" /\ dir \in Directory /\ kernel \in Kernels
      /\ Probed(dir.probed) /\ dir.probed.first
  BY DEF Report, IInv, TypeOK, PlacesOK
<1>2. dir' = [dir EXCEPT !.json = Instrumented] /\ Go("pruned")
  BY DEF Report
<1>3. /\ Instrumented \in Json
      /\ Instrumented.status = "instrumented" /\ Instrumented.skipped = Uncounted
  BY <1>1, SelectTargetType, CandidatesType DEF Instrumented, Json, Uncounted
<1>4. /\ dir' \in Directory /\ dir'.json = Instrumented /\ dir'.probed = dir.probed
      /\ dir'.pruned = dir.pruned
      /\ dir'.probedBin = dir.probedBin /\ dir'.prunedBin = dir.prunedBin
  BY <1>1, <1>2, <1>3 DEF Directory
<1>5. TypeOK' /\ StatusOK'
  BY <1>1, <1>2, <1>3, <1>4, GoKeeps
<1>6. FilesOK'
  BY <1>2, <1>4, FrameModule DEF IInv, FilesOK, Go
<1>7. Uncounted' = Uncounted
  BY <1>2, <1>4, Frame DEF Uncounted, Go
<1>8. PlacesOK'
  BY <1>1, <1>2, <1>3, <1>4, <1>7, FrameModule DEF PlacesOK, Reported, Go
<1>. QED  BY <1>5, <1>6, <1>8 DEF IInv

\* A report stays true as long as the instrumented module is the one it is of.
LEMMA ReportedKept ==
  ASSUME Reported, kernel' = kernel, probe' = probe,
         dir'.probed = dir.probed, dir'.json.skipped = dir.json.skipped
  PROVE  Reported'
<1>1. Uncounted' = Uncounted
  BY Frame DEF Uncounted
<1>. QED  BY <1>1, FrameModule DEF Reported

LEMMA RewritePrunedStep ==
  ASSUME IInv, RewritePruned
  PROVE  IInv'
<1>1. /\ at = "pruned" /\ dir \in Directory /\ kernel \in Kernels /\ Reported
      /\ dir.json.status = "instrumented" /\ NoModule \notin Module
  BY ProberAssumption DEF RewritePruned, IInv, TypeOK, PlacesOK
<1>2. PICK d : /\ d = NoModule <=> dir.pruned = NoModule
               /\ d # NoModule => Sound(d) /\ d \in Module
               /\ dir' = [dir EXCEPT !.pruned = d] /\ Go("assemble")
  <2>1. CASE dir.pruned = NoModule
    <3>1. dir = [dir EXCEPT !.pruned = NoModule]
      BY <1>1, <2>1 DEF Directory
    <3>. QED  BY <2>1, <3>1 DEF RewritePruned
  <2>2. CASE dir.pruned # NoModule
    <3>1. Sound(Dispatched(dir.pruned)) /\ Dispatched(dir.pruned) \in Module
      BY <1>1, <2>2, DispatchedIs DEF IInv, FilesOK, Sound
    <3>. QED  BY <1>1, <2>2, <3>1 DEF RewritePruned
  <2>. QED  BY <2>1, <2>2
<1>3. /\ dir' \in Directory /\ dir'.json = dir.json /\ dir'.probed = dir.probed
      /\ dir'.pruned = d
      /\ dir'.probedBin = dir.probedBin /\ dir'.prunedBin = dir.prunedBin
  BY <1>1, <1>2 DEF Directory
<1>4. TypeOK' /\ StatusOK'
  BY <1>1, <1>2, <1>3, GoKeeps, NotAssembledYet
<1>5. FilesOK'
  BY <1>2, <1>3, FrameModule DEF IInv, FilesOK, Go
<1>6. PlacesOK'
  BY <1>1, <1>2, <1>3, ReportedKept DEF PlacesOK, Go
<1>. QED  BY <1>4, <1>5, <1>6 DEF IInv

LEMMA AssembleProbedStep ==
  ASSUME IInv, AssembleProbed
  PROVE  IInv'
<1>1. /\ at = "assemble" /\ dir \in Directory /\ Reported /\ dir.json.status = "instrumented"
  BY DEF AssembleProbed, IInv, TypeOK, PlacesOK
<1>2. CASE dir' = [dir EXCEPT !.probedBin = dir.probed] /\ Go("assemble_pruned")
  <2>1. /\ dir' \in Directory /\ dir'.json = dir.json /\ dir'.probed = dir.probed
        /\ dir'.pruned = dir.pruned
        /\ dir'.probedBin = dir.probed /\ dir'.prunedBin = dir.prunedBin
    BY <1>1, <1>2 DEF Directory
  <2>2. TypeOK' /\ StatusOK'
    BY <1>1, <1>2, <2>1, GoKeeps, NotAssembledYet
  <2>3. FilesOK'
    BY <1>1, <1>2, <2>1, FrameModule DEF IInv, FilesOK, Go, Reported, Probed
  <2>4. PlacesOK'
    BY <1>1, <1>2, <2>1, ReportedKept DEF PlacesOK, Go
  <2>. QED  BY <2>2, <2>3, <2>4 DEF IInv
<1>3. CASE Raise
  BY <1>1, <1>3, RaiseStep
<1>. QED  BY <1>2, <1>3 DEF AssembleProbed

LEMMA AssemblePrunedStep ==
  ASSUME IInv, AssemblePruned
  PROVE  IInv'
<1>1. /\ at = "assemble_pruned" /\ dir \in Directory /\ Reported
      /\ dir.json.status = "instrumented" /\ dir.probedBin = dir.probed
  BY DEF AssemblePruned, IInv, TypeOK, PlacesOK
<1>2. CASE /\ dir' = IF dir.pruned = NoModule THEN dir ELSE [dir EXCEPT !.prunedBin = dir.pruned]
           /\ Go("finish")
  <2>1. /\ dir' \in Directory /\ dir'.json = dir.json /\ dir'.probed = dir.probed
        /\ dir'.pruned = dir.pruned
        /\ dir'.probedBin = dir.probedBin /\ dir'.prunedBin = dir.pruned
    BY <1>1, <1>2 DEF Directory, IInv, FilesOK
  <2>2. TypeOK' /\ StatusOK'
    BY <1>1, <1>2, <2>1, GoKeeps, NotAssembledYet
  <2>3. FilesOK'
    BY <1>2, <2>1, FrameModule DEF IInv, FilesOK, Go
  <2>4. PlacesOK'
    BY <1>1, <1>2, <2>1, ReportedKept DEF PlacesOK, Go
  <2>. QED  BY <2>2, <2>3, <2>4 DEF IInv
<1>3. CASE Raise
  BY <1>1, <1>3, RaiseStep
<1>. QED  BY <1>2, <1>3 DEF AssemblePruned

LEMMA FinishStep ==
  ASSUME IInv, Finish
  PROVE  IInv'
<1>1. /\ at = "finish" /\ dir \in Directory /\ Reported
      /\ dir.probedBin = dir.probed /\ dir.prunedBin = dir.pruned
  BY DEF Finish, IInv, TypeOK, PlacesOK
<1>2. dir' = [dir EXCEPT !.json.status = "assembled"] /\ Return("ok")
  BY DEF Finish
<1>3. /\ dir' \in Directory /\ dir'.json.status = "assembled"
      /\ dir'.json.skipped = dir.json.skipped
      /\ dir'.probed = dir.probed /\ dir'.pruned = dir.pruned
      /\ dir'.probedBin = dir.probedBin /\ dir'.prunedBin = dir.prunedBin
  BY <1>1, <1>2 DEF Directory, Json
<1>4. TypeOK'
  BY <1>2, <1>3 DEF IInv, TypeOK, Return
<1>5. FilesOK'
  BY <1>2, <1>3, FrameModule DEF IInv, FilesOK, Return
<1>6. PlacesOK'
  BY <1>2 DEF PlacesOK, Return
<1>7. StatusOK'
  BY <1>1, <1>2, <1>3, ReportedKept DEF IInv, StatusOK, Return, HandedOver
<1>. QED  BY <1>4, <1>5, <1>6, <1>7 DEF IInv

LEMMA CrashStep ==
  ASSUME IInv, Crash
  PROVE  IInv'
<1>1. TypeOK'
  BY DEF IInv, TypeOK, Crash, Return
<1>2. FilesOK' /\ PlacesOK'
  BY FrameModule DEF IInv, FilesOK, PlacesOK, Crash, Return
<1>3. StatusOK'
  BY DEF IInv, StatusOK, Crash, Return, HandedOver
<1>. QED  BY <1>1, <1>2, <1>3 DEF IInv

LEMMA StutterStep ==
  ASSUME IInv, UNCHANGED vars
  PROVE  IInv'
<1>1. /\ kernel' = kernel /\ probe' = probe /\ alone' = alone /\ runs' = runs /\ at' = at
      /\ rc' = rc /\ dir' = dir
  BY DEF vars
<1>2. TypeOK'
  BY <1>1 DEF IInv, TypeOK
<1>3. FilesOK'
  BY <1>1, FrameModule DEF IInv, FilesOK
<1>4. PlacesOK'
  BY <1>1, FrameModule, ReportedKept, Frame DEF IInv, PlacesOK
<1>5. StatusOK'
  BY <1>1, ReportedKept DEF IInv, StatusOK, HandedOver
<1>. QED  BY <1>2, <1>3, <1>4, <1>5 DEF IInv

LEMMA Step ==
  ASSUME IInv, [Next]_vars
  PROVE  IInv'
BY StartStep, WriteShellStep, CoreProberStep, SelectStep, InstrumentStep, ReportStep,
   RewritePrunedStep, AssembleProbedStep, AssemblePrunedStep, FinishStep, CrashStep,
   StutterStep DEF Next

(***************************************************************************)
(* The inductive invariant holds in every reachable state.                 *)
(***************************************************************************)
THEOREM Inductive == Spec => []IInv
BY InitInv, Step, PTL DEF Spec

(***************************************************************************)
(* The json file and the exit status tell the state of the directory.      *)
(***************************************************************************)
THEOREM StatusIsTrueHolds == Spec => []StatusIsTrue
<1>1. IInv => StatusIsTrue
  <2> SUFFICES ASSUME IInv PROVE StatusIsTrue
    OBVIOUS
  <2>1. HandedOver => DeclaredBeforeUse(dir.probedBin)
    BY DEF IInv, StatusOK, Reported, Probed, DeclaredBeforeUse
  <2>. QED  BY <2>1 DEF IInv, StatusOK, StatusIsTrue
<1>. QED  BY Inductive, <1>1, PTL

(***************************************************************************)
(* No binary that is handed over traps on a local function, or takes       *)
(* another one for it.                                                     *)
(***************************************************************************)
THEOREM NoFunctionIsLostHolds == Spec => []NoFunctionIsLost
<1>1. IInv => NoFunctionIsLost
  <2> SUFFICES ASSUME IInv, HandedOver, kernel.section,
                      NEW m \in {dir.probedBin, dir.prunedBin} \ {NoModule},
                      NEW i \in Id, kernel.table[i] \in kernel.local
               PROVE  i \in DOMAIN m.calls /\ m.calls[i] = kernel.table[i]
    BY DEF NoFunctionIsLost
  <2>1. Sound(m) /\ kernel \in Kernels
    BY DEF IInv, FilesOK, TypeOK
  <2>. QED  BY <2>1, LocalCall
<1>. QED  BY Inductive, <1>1, PTL

(***************************************************************************)
(* What the fallback calls is counted, whichever path led to it.           *)
(***************************************************************************)
THEOREM WhatIsCalledIsCountedHolds == Spec => []WhatIsCalledIsCounted
<1>1. IInv => WhatIsCalledIsCounted
  <2> SUFFICES ASSUME IInv, HandedOver, kernel.section, NEW i \in Id,
                      ~(i = kernel.direct /\ TargetId # i),
                      kernel.table[i] \in kernel.local,
                      kernel.table[i] \notin dir.json.skipped,
                      IsMemory(Active) \/ kernel.table[i] = SelectTarget
               PROVE  IsCounted(dir.probedBin, i)
    BY DEF WhatIsCalledIsCounted
  <2> DEFINE m == dir.probedBin
             f == kernel.table[i]
  <2>1. /\ Probed(m) /\ m.first /\ kernel \in Kernels
        /\ dir.json.skipped = {g \in Candidates : m.probed[g] = 0}
    BY DEF IInv, TypeOK, StatusOK, Reported, Uncounted
  <2>2. i \in DOMAIN m.calls /\ m.calls[i] = f
    BY <2>1, LocalCall DEF Probed
  <2>3. i \in DOMAIN LocalMapping /\ LocalMapping[i] = f
    <3>1. i \in Listed
      BY DEF Listed
    <3>. QED  BY <3>1 DEF LocalMapping
  <2>4. m.rewritten /\ ~IsInline(m, i)
    BY <2>1, <2>3 DEF Probed, Done, IsInline
  <2>5. f \in Candidates
    BY <2>3 DEF Candidates, Range
  <2>6. m.probed[f] = 1
    <3>1. m.probed \in [kernel.local -> {0, 1}]
      BY <2>1 DEF Probed, Sound, Module
    <3>. QED  BY <2>1, <2>5, <3>1
  <2>. QED  BY <2>2, <2>4, <2>6 DEF IsCounted
<1>. QED  BY Inductive, <1>1, PTL

(***************************************************************************)
(* Run on a module it has finished, the second stage writes the module it  *)
(* has read.                                                               *)
(***************************************************************************)
THEOREM SecondStageIsIdempotentHolds == Spec => SecondStageIsIdempotent
<1>1. IInv /\ [Next]_vars => [at = "instrument" /\ dir.probed.first => dir'.probed = dir.probed]_vars
  <2> SUFFICES ASSUME IInv, Next, at = "instrument", dir.probed.first
               PROVE  dir'.probed = dir.probed
    OBVIOUS
  <2>1. /\ dir \in Directory /\ Probed(dir.probed) /\ kernel \in Kernels /\ probe \in Probes
    BY DEF IInv, TypeOK, PlacesOK
  <2>2. Instrument \/ Crash
    BY DEF Next, Start, WriteShell, CoreProber, Select, Report, RewritePruned,
       AssembleProbed, AssemblePruned, Finish
  <2>3. CASE Instrument
    <3>1. CASE Raise
      BY <2>1, <3>1 DEF Raise, Directory
    <3>2. CASE dir' = [dir EXCEPT !.probed = Dispatched(InstrumentCandidates(dir.probed))]
      BY <2>1, <3>2, SecondStageAgain DEF Directory
    <3>. QED  BY <2>3, <3>1, <3>2 DEF Instrument
  <2>4. CASE Crash
    BY <2>4 DEF Crash
  <2>. QED  BY <2>2, <2>3, <2>4
<1>. QED  BY Inductive, <1>1, PTL DEF Spec, SecondStageIsIdempotent
===============================================================================
