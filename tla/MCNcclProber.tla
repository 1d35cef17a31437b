----------------------------- MODULE MCNcclProber -----------------------------
(***************************************************************************)
(* NcclProber for TLC: the three kinds of probes, a dynamic one and one    *)
(* without maps, which the shell refuses; and kernels of three functions,  *)
(* f, g and h, with three ids.  f, g or none of them have their body in    *)
(* the module, h never, and id 2 is that of h or a second one of f.  The   *)
(* target is found by descriptor, by rule, or as the only one, or is not   *)
(* found; its id is that of the direct path, of an unrelated comparison,   *)
(* that of kernel.info, or is not known.                                   *)
(***************************************************************************)
EXTENDS NcclProber

P(hooks, maps) == [dynamic |-> FALSE, hooks |-> hooks, maps |-> maps]
Latency == P({"ptp_metrics", "recv_latency"}, {"ptp_metrics", "sr_latency"})
MCProbes ==
  {Latency, [Latency EXCEPT !.dynamic = TRUE], [Latency EXCEPT !.maps = {}],
   P({"throughput_recv"}, {"fabricperf_throughput"}),
   P({"memory_bytes"}, {"fabricperf_probe_bytes"})}

MCId == 0..2
MCTable(h) == [i \in MCId |-> <<"f", "g", h>>[i + 1]]
MCKernels ==
  {k \in [table : {MCTable("h"), MCTable("f")},
          local : {{}, {"f"}, {"f", "g"}}, same : {{}, {"f"}}, ruled : {{}, {"g"}},
          direct : {0, 1, 2}, op : {"eq", "ne"}, others : {{}, {2}, {1, 2}},
          unequal : {{}, {1}}, section : BOOLEAN,
          params : {{}, {"g"}},
          anchors : {[f \in {"f", "g", "h"} |-> IF f = "f" THEN a ELSE {"own", "loads"}] :
                       a \in {{}, {"own"}, {"loads"}}},
          pruned : BOOLEAN] :
     /\ k.same \cup k.ruled \subseteq k.local
     /\ {} \in {k.others, k.unequal}}
===============================================================================
