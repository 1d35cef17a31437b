------------------------------ MODULE MemoryMerge ------------------------------
(***************************************************************************)
(* The CSV files of memory mode: the rows that the processes of a workload *)
(* append (memory.cc), and analysis/memory.py, which adds the bytes that   *)
(* the probes counted, kept in the trace directory of each process, and    *)
(* rewrites the CSV file of the trace root in place.                       *)
(*                                                                         *)
(* The processes share the file of the root, or each has one in its trace  *)
(* directory, and then the first analysis makes the file of the root.      *)
(* A total of bytes is represented by the launches it was counted in, and  *)
(* a file that does not exist by an empty one: nothing tells them apart.   *)
(* A write may fail half-way, an analysis may be repeated, and a trace     *)
(* root may be used by a second workload.                                  *)
(***************************************************************************)
EXTENDS Naturals, Sequences, FiniteSets

CONSTANTS
  Processes,    \* processes that profile, numbered in the order of their directories
  RankOf,       \* RankOf[p]: their ranks,
  WorkloadOf,   \* WorkloadOf[p]: and the workloads they belong to
  RowsEach,     \* bound of the model: RowsEach[p]: launches of a process
  Analyses      \* bound of the model: analyses

\* What a module that instantiates this one assumes of the constants.
MergeConstants ==
  /\ Processes \subseteq Nat \ {0} /\ IsFiniteSet(Processes)
  /\ RankOf \in [Processes -> Nat] /\ WorkloadOf \in [Processes -> Nat \ {0}]
  /\ \A p, q \in Processes : WorkloadOf[p] = WorkloadOf[q] /\ RankOf[p] = RankOf[q] => p = q
  /\ RowsEach \in [Processes -> Nat] /\ Analyses \in Nat \ {0}

Root   == 0
Nothing == {}              \* an empty field

(***************************************************************************)
(* A line of a CSV file: a row of a process, or a header (by = 0).  timed: *)
(* it has a duration; bytes, rate: the probe's total, and per second.      *)
(***************************************************************************)
Header == [by |-> 0, launch |-> 0, timed |-> FALSE, bytes |-> Nothing, rate |-> Nothing]

VARIABLES
  shared,     \* the processes share the file of the trace root
  workload,   \* the workload that runs or is analyzed
  open,       \* open[p]: state.csv: "closed", "header" (to be written), "open"
  appended,   \* appended[p]: rows p has written
  counted,    \* counted[p]: launches whose result file is in p's directory
  csv,        \* csv[f]: the lines of a CSV file, of the root or a process
  long,       \* the rows the two long-form files were written from
  analyses,   \* analyses so far
  stage,      \* where the analysis is
  todo,       \* the trace directories it has yet to read
  merged,     \* the rows it has merged
  status,     \* exit status of the last analysis
  cut,        \* lines of the root's file were lost by a failed write (history)
  finished    \* the root's file after the last analysis that finished on an uncut
              \* one, or <<>> (history)

written == <<open, appended, counted>>
mergeVars == <<shared, workload, written, csv, long, analyses, stage, todo, merged, status, cut,
               finished>>

MergeInit ==
  /\ shared \in BOOLEAN
  /\ workload = 1
  /\ open = [p \in Processes |-> "closed"]
  /\ appended = [p \in Processes |-> 0]
  /\ counted = [p \in Processes |-> {}]
  /\ csv = [f \in Processes \cup {Root} |-> <<>>]
  /\ long = <<>>
  /\ analyses = 0 /\ stage = "workload" /\ todo = {} /\ merged = <<>> /\ status = "none"
  /\ cut = FALSE /\ finished = <<>>

------------------------------------------------------------------------------
(***************************************************************************)
(* memory.cc: the file is opened at the first launch; who finds it empty   *)
(* writes the header.                                                      *)
(***************************************************************************)
FileOf(p) == IF shared THEN Root ELSE p
Runs(p) == stage = "workload" /\ WorkloadOf[p] = workload

OpenCsv(p) ==
  /\ Runs(p) /\ open[p] = "closed"
  /\ open' = [open EXCEPT ![p] = IF csv[FileOf(p)] = <<>> THEN "header" ELSE "open"]
  /\ UNCHANGED <<csv, appended, counted>>

WriteHeader(p) ==
  /\ Runs(p) /\ open[p] = "header"
  /\ open' = [open EXCEPT ![p] = "open"]
  /\ csv' = [csv EXCEPT ![FileOf(p)] = Append(@, Header)]
  /\ UNCHANGED <<appended, counted>>

\* External: Neutrino writes the result file of the launch, or the process dies first.
WriteRow(p) ==
  /\ Runs(p) /\ open[p] = "open" /\ appended[p] < RowsEach[p]
  /\ appended' = [appended EXCEPT ![p] = @ + 1]
  /\ \E timed, saved \in BOOLEAN :
       /\ csv' = [csv EXCEPT ![FileOf(p)] =
                    Append(@, [Header EXCEPT !.by = p, !.launch = appended[p], !.timed = timed])]
       /\ counted' = [counted EXCEPT ![p] = IF saved THEN @ \cup {appended[p]} ELSE @]
  /\ open' = open

Profile ==
  /\ \E p \in Processes : OpenCsv(p) \/ WriteHeader(p) \/ WriteRow(p)
  /\ UNCHANGED <<shared, workload, long, analyses, stage, todo, merged, status, cut,
                 finished>>

------------------------------------------------------------------------------
(***************************************************************************)
(* The totals of a trace directory, and those of all by rank and launch,   *)
(* where a later directory of a rank replaces an earlier one.  A header    *)
(* that is read as a row counts as launch 0 of rank 0.                     *)
(***************************************************************************)
Total(p, l) == IF l \in counted[p] THEN {<<p, l>>} ELSE Nothing

RankOfLine(line) == IF line.by = 0 THEN 0 ELSE RankOf[line.by]

AnyRank(line) == {p \in Processes : line.launch \in counted[p]}   \* mutant: not compared
Candidates(line) ==
  {p \in Processes : RankOf[p] = RankOfLine(line) /\ line.launch \in counted[p]}

LastOf(S) == {p \in S : \A q \in S : q <= p}
TotalByRank(line) == UNION {Total(p, line.launch) : p \in LastOf(Candidates(line))}

TotalOfDirectory(p, line) == Total(p, line.launch)

(***************************************************************************)
(* merge_probe_bytes_into_row; a row without a total is left as it is.     *)
(***************************************************************************)
Merge(line, total) ==
  IF total = Nothing THEN line
  ELSE [line EXCEPT !.bytes = total, !.rate = IF line.timed THEN total ELSE Nothing]

\* csv.DictReader: the first line is the header, whatever follows is a row.
AllLines(f) == csv[f]                      \* mutant: the header is taken for a row
DataRows(f) == IF csv[f] = <<>> THEN <<>> ELSE Tail(csv[f])

RootRows ==
  [i \in DOMAIN DataRows(Root) |-> Merge(DataRows(Root)[i], TotalByRank(DataRows(Root)[i]))]

RowsOf(p) ==
  [i \in DOMAIN DataRows(p) |-> Merge(DataRows(p)[i], TotalOfDirectory(p, DataRows(p)[i]))]

------------------------------------------------------------------------------
Go(place) == stage' = place /\ UNCHANGED <<shared, workload, written, analyses, finished>>

\* The workload has ended, in the middle of anything.
Analyze ==
  /\ stage \in {"workload", "end"} /\ analyses < Analyses
  /\ analyses' = analyses + 1
  /\ stage' = "read" /\ status' = "none"
  /\ UNCHANGED <<shared, workload, written, csv, long, todo, merged, cut, finished>>

\* A missing trace, an unreadable result file or an unknown rank end it before any write.
Refuse ==
  /\ stage \in {"read", "directories"}
  /\ status' = "failed" /\ todo' = {}
  /\ Go("end")
  /\ UNCHANGED <<csv, long, merged, cut>>

(***************************************************************************)
(* merge_one_pass_probe_output: the root's file, if it has rows, else      *)
(* those of the directories, one after the other.                          *)
(***************************************************************************)
ReadBoth ==                     \* mutant: the file that was made is merged again
  /\ stage = "read" /\ DataRows(Root) # <<>>
  /\ merged' = RootRows /\ todo' = Processes
  /\ Go("directories")
  /\ UNCHANGED <<csv, long, status, cut>>

ReadRoot ==
  /\ stage = "read" /\ DataRows(Root) # <<>>
  /\ merged' = RootRows
  /\ Go("wide")
  /\ UNCHANGED <<csv, long, todo, status, cut>>

FindNoRows ==
  /\ stage = "read" /\ DataRows(Root) = <<>>
  /\ merged' = <<>> /\ todo' = Processes
  /\ Go("directories")
  /\ UNCHANGED <<csv, long, status, cut>>

ReadDirectory(p) ==
  /\ stage = "directories" /\ p \in todo /\ \A q \in todo : p <= q
  /\ merged' = merged \o RowsOf(p) /\ todo' = todo \ {p}
  /\ Go("directories")
  /\ UNCHANGED <<csv, long, status, cut>>

ReadAll ==
  /\ stage = "directories" /\ todo = {} /\ merged # <<>>
  /\ cut' = FALSE
  /\ Go("wide")
  /\ UNCHANGED <<csv, long, todo, merged, status>>

\* A file is truncated and then written; if a write fails the lines before it stay.
Wide == <<Header>> \o merged

WriteWide ==
  /\ stage = "wide"
  /\ csv' = [csv EXCEPT ![Root] = Wide]
  /\ Go("long")
  /\ UNCHANGED <<long, todo, merged, status, cut>>

WriteLong ==
  /\ stage = "long"
  /\ long' = merged
  /\ status' = "ok"
  /\ stage' = "end"
  /\ finished' = IF cut THEN finished ELSE csv[Root]
  /\ UNCHANGED <<shared, workload, written, analyses, csv, todo, merged, cut>>

WriteFails ==
  /\ \E n \in 0..Len(merged) :
       \/ /\ stage = "wide" /\ cut' = TRUE
          /\ csv' = [csv EXCEPT ![Root] = SubSeq(Wide, 1, n)] /\ long' = long
       \/ /\ stage = "long" /\ cut' = cut
          /\ long' = SubSeq(merged, 1, n) /\ csv' = csv
  /\ status' = "failed"
  /\ Go("end")
  /\ UNCHANGED <<todo, merged>>

\* The next workload is run in the same trace root.
Reuse ==
  /\ stage = "end"
  /\ \E p \in Processes : WorkloadOf[p] = workload + 1
  /\ workload' = workload + 1
  /\ stage' = "workload"
  /\ UNCHANGED <<shared, written, csv, long, analyses, todo, merged, status, cut, finished>>

MergeNext ==
  \/ Profile
  \/ Analyze
  \/ Refuse
  \/ ReadRoot
  \/ FindNoRows
  \/ \E p \in Processes : ReadDirectory(p)
  \/ ReadAll
  \/ WriteWide
  \/ WriteLong
  \/ WriteFails
  \/ Reuse

MergeSpec == MergeInit /\ [][MergeNext]_mergeVars

------------------------------------------------------------------------------
RowsIn(p, lines) == {i \in DOMAIN lines : lines[i].by = p}

(***************************************************************************)
(* A row has the bytes of a process of its own rank and of its own launch, *)
(* or none yet: in either layout, whatever analyses failed or were         *)
(* repeated.  They are its own process's unless the trace root was used    *)
(* again.                                                                  *)
(***************************************************************************)
BytesAreOfTheRow ==
  \A f \in DOMAIN csv : \A i \in DOMAIN csv[f] :
    LET line == csv[f][i]
    IN  line.by # 0 =>
          /\ \A b \in line.bytes : /\ RankOf[b[1]] = RankOf[line.by] /\ b[2] = line.launch
                                   /\ workload = 1 => b[1] = line.by
          /\ line.rate # Nothing => line.timed /\ line.rate = line.bytes

(***************************************************************************)
(* An analysis that finishes leaves every row that was written, once, with *)
(* its bytes if they were saved, and the long-form files tell the same.    *)
(* Rows are lost only by a write of the root's file that failed after its  *)
(* header, or where it is the only one; and where each process has a file  *)
(* of its own, those of a second workload in the same root.                *)
(***************************************************************************)
NothingIsLost ==
  stage = "end" /\ status = "ok" /\ ~cut =>
    /\ long = DataRows(Root)
    /\ \A p \in Processes : shared \/ WorkloadOf[p] = 1 =>
         /\ Cardinality(RowsIn(p, csv[Root])) = appended[p]
         /\ \A i \in RowsIn(p, csv[Root]) :
              workload = 1 => csv[Root][i].bytes = Total(p, csv[Root][i].launch)

(***************************************************************************)
(* Analyzing again changes nothing: the root's file gets the lines that    *)
(* the last analysis that finished gave it, also when an analysis between  *)
(* the two cut the file and it was made again from those of the processes. *)
(***************************************************************************)
AnalysisIsRepeatable ==
  [][WriteLong /\ workload = 1 /\ finished # <<>> /\ ~cut => csv[Root] = finished]_mergeVars
=================================================================================
