--------------------------- MODULE HandleExchange ---------------------------
(***************************************************************************)
(* How the ranks of a run come to share their fabric buffers: the exchange *)
(* of handles in prepare_buffers_locked of latency.c, with MPI_Allgather   *)
(* or through files in FABRICPERF_EXCHANGE_DIR.                            *)
(*                                                                         *)
(* Every attempt of a rank creates new buffers; a buffer is named by the   *)
(* attempt that created it.  An attempt that fails leaves its buffers (and *)
(* its files) behind, and the rank's next launch tries again.  What an     *)
(* attempt does to the process's own resources is in FabricResources.      *)
(*                                                                         *)
(* Each rank chooses at its first preparation: MPI if the program has      *)
(* called MPI_Init by then, files otherwise.  The directory may hold the   *)
(* files of an earlier run of the same ranks; their buffers are gone.      *)
(*                                                                         *)
(* An MPI error ends the job (the default error handler), so an Allgather  *)
(* either completes on a rank or is never left.                            *)
(***************************************************************************)
EXTENDS Naturals, Sequences

CONSTANTS
  Ranks,        \* world_size
  Kinds,        \* the kinds of buffers, in the order they are exchanged
  Exchanges,    \* the exchanges a rank may choose, "mpi" or "files"
  Directories,  \* the states of the directory, "fresh" or "used"
  MaxSleeps,    \* naps of 10 ms before the exchange times out
  MaxAttempts   \* bound of the model: attempts of one rank

ASSUME ExchangeAssumption ==
  /\ Ranks \in Nat \ {0}
  /\ Kinds \in Seq(STRING) /\ Kinds # <<>>
  /\ Exchanges \subseteq {"mpi", "files"}
  /\ Directories \subseteq {"fresh", "used"}
  /\ MaxSleeps \in Nat
  /\ MaxAttempts \in Nat \ {0}

Rank    == 1..Ranks
Kind    == 1..Len(Kinds)
Attempt == 1..MaxAttempts
None    == 0
Earlier == MaxAttempts + 1     \* a buffer of an earlier run

VARIABLES
  directory,    \* the directory is fresh or has been used
  exchange,     \* exchange[r]: runtime_state.file_exchange, once mpi_prepared is set
  attempt,      \* attempt[r]: the buffers rank r has now, None if none
  pc,           \* pc[r]: where the rank is in prepare_buffers_locked
  peer,         \* peer[r]: whose file it reads next
  kind,         \* kind[r]: which kind of buffer it handles next
  sleeps,       \* sleeps[r]: naps so far, waited_ms / 10
  file,         \* file[k][r]: the published handle of r's buffer of kind k
  gathered,     \* gathered[r]: what r has passed to MPI_Allgather, in order
  view,         \* view[r][k][q]: the buffer of q that r received a handle of
  failed        \* the ranks that ever had an attempt fail (history)

vars == <<directory, exchange, attempt, pc, peer, kind, sleeps, file, gathered, view, failed>>

Init ==
  /\ directory \in Directories
  /\ exchange = [r \in Rank |-> "undecided"]
  /\ attempt = [r \in Rank |-> None]
  /\ pc = [r \in Rank |-> "idle"]
  /\ peer = [r \in Rank |-> 1]
  /\ kind = [r \in Rank |-> 1]
  /\ sleeps = [r \in Rank |-> 0]
  /\ file = [k \in Kind |-> [r \in Rank |-> IF directory = "used" THEN Earlier ELSE None]]
  /\ gathered = [r \in Rank |-> <<>>]
  /\ view = [r \in Rank |-> [k \in Kind |-> [q \in Rank |-> None]]]
  /\ failed = {}

(***************************************************************************)
(* prepare_mpi_locked: decided once.                                       *)
(***************************************************************************)
Decide(r) ==
  \E e \in Exchanges :
    /\ exchange[r] \in {"undecided", e}
    /\ exchange' = [exchange EXCEPT ![r] = e]

\* No MPI yet, and no directory or rank in the environment.
DecideFails(r) ==
  /\ pc[r] = "idle" /\ exchange[r] = "undecided"
  /\ failed' = failed \cup {r}
  /\ UNCHANGED <<exchange, attempt, pc, peer, kind, sleeps, file, gathered, view>>

(***************************************************************************)
(* A launch finds the buffers not prepared; the rank creates its own.      *)
(***************************************************************************)
ExchangeOnce(r) ==                  \* mutant: a retry keeps the old handles
  IF attempt[r] # None THEN "import"
  ELSE IF exchange'[r] = "files" THEN "publish" ELSE "gather"
FirstStep(r) == IF exchange'[r] = "files" THEN "publish" ELSE "gather"

Begin(r) ==
  /\ pc[r] = "idle"
  /\ attempt[r] < MaxAttempts
  /\ Decide(r)
  /\ attempt' = [attempt EXCEPT ![r] = @ + 1]
  /\ pc' = [pc EXCEPT ![r] = FirstStep(r)]
  /\ peer' = [peer EXCEPT ![r] = 1]
  /\ kind' = [kind EXCEPT ![r] = 1]
  /\ sleeps' = [sleeps EXCEPT ![r] = 0]
  /\ UNCHANGED <<file, gathered, view, failed>>

\* return -1: the rank may try again in its next launch.
Fail(r) ==
  /\ pc' = [pc EXCEPT ![r] = "idle"]
  /\ failed' = failed \cup {r}

(***************************************************************************)
(* The kinds are exchanged in the same order by every rank.                *)
(***************************************************************************)

\* Mutant: the root has no use for the last kind and does not exchange it.
RootSkipsOne(r) == kind[r] + (IF r = 1 THEN 1 ELSE 0) < Len(Kinds)

MoreKinds(r) == kind[r] < Len(Kinds)

(***************************************************************************)
(* File exchange: publish one kind after the other, each by a rename that  *)
(* replaces what an earlier attempt published ...                          *)
(***************************************************************************)
PublishedOnce(r) ==                 \* mutant: an existing file is kept
  IF file[kind[r]][r] = None THEN attempt[r] ELSE file[kind[r]][r]
Published(r) == attempt[r]

Publish(r) ==
  /\ pc[r] = "publish"
  /\ file' = [file EXCEPT ![kind[r]][r] = Published(r)]
  /\ IF MoreKinds(r)
     THEN kind' = [kind EXCEPT ![r] = @ + 1] /\ pc' = pc
     ELSE kind' = [kind EXCEPT ![r] = 1] /\ pc' = [pc EXCEPT ![r] = "read"]
  /\ UNCHANGED <<attempt, peer, sleeps, gathered, view, failed>>

\* Or the buffers could not be created, over MPI too.
PublishFails(r) ==
  /\ pc[r] = "publish" \/ (pc[r] = "gather" /\ kind[r] = 1)
  /\ Fail(r)
  /\ UNCHANGED <<attempt, peer, kind, sleeps, file, gathered, view>>

(***************************************************************************)
(* ... and read everybody's, starting over after a nap when one is not     *)
(* there yet.                                                              *)
(***************************************************************************)
Wanted(r) == file[kind[r]][peer[r]]

NextFile(r) ==
  IF MoreKinds(r)
  THEN /\ kind' = [kind EXCEPT ![r] = @ + 1]
       /\ UNCHANGED <<peer, pc>>
  ELSE /\ kind' = [kind EXCEPT ![r] = 1]
       /\ IF peer[r] < Ranks
          THEN peer' = [peer EXCEPT ![r] = @ + 1] /\ pc' = pc
          ELSE peer' = peer /\ pc' = [pc EXCEPT ![r] = "import"]

ReadFile(r) ==
  /\ pc[r] = "read"
  /\ Wanted(r) # None
  /\ view' = [view EXCEPT ![r][kind[r]][peer[r]] = Wanted(r)]
  /\ NextFile(r)
  /\ UNCHANGED <<attempt, sleeps, file, gathered, failed>>

SleepAgain(r) ==                    \* mutant: the wait is not bounded
  /\ pc[r] = "read"
  /\ Wanted(r) = None
  /\ peer' = [peer EXCEPT ![r] = 1]
  /\ kind' = [kind EXCEPT ![r] = 1]
  /\ UNCHANGED <<attempt, pc, sleeps, file, gathered, view, failed>>

Sleep(r) ==
  /\ pc[r] = "read"
  /\ Wanted(r) = None
  /\ sleeps[r] < MaxSleeps
  /\ sleeps' = [sleeps EXCEPT ![r] = @ + 1]
  /\ peer' = [peer EXCEPT ![r] = 1]
  /\ kind' = [kind EXCEPT ![r] = 1]
  /\ UNCHANGED <<attempt, pc, file, gathered, view, failed>>

TimeOut(r) ==
  /\ pc[r] = "read"
  /\ Wanted(r) = None
  /\ sleeps[r] >= MaxSleeps
  /\ Fail(r)
  /\ UNCHANGED <<attempt, peer, kind, sleeps, file, gathered, view>>

(***************************************************************************)
(* MPI exchange: one Allgather per kind.  The n-th call of a rank is       *)
(* matched with the n-th call of every other rank.                         *)
(***************************************************************************)
EnterAllgather(r) ==
  /\ pc[r] = "gather"
  /\ gathered' = [gathered EXCEPT ![r] = Append(@, attempt[r])]
  /\ pc' = [pc EXCEPT ![r] = "gathering"]
  /\ UNCHANGED <<attempt, peer, kind, sleeps, file, view, failed>>

Contribution(r, q) == gathered[q][Len(gathered[r])]

LeaveAllgather(r) ==
  /\ pc[r] = "gathering"
  /\ \A q \in Rank : Len(gathered[q]) >= Len(gathered[r])
  /\ view' = [view EXCEPT ![r][kind[r]] = [q \in Rank |-> Contribution(r, q)]]
  /\ IF MoreKinds(r)
     THEN kind' = [kind EXCEPT ![r] = @ + 1] /\ pc' = [pc EXCEPT ![r] = "gather"]
     ELSE kind' = kind /\ pc' = [pc EXCEPT ![r] = "import"]
  /\ UNCHANGED <<attempt, peer, sleeps, file, gathered, failed>>

(***************************************************************************)
(* Import the peers' buffers and build the device tables.                  *)
(***************************************************************************)
Import(r) ==
  /\ pc[r] = "import"
  /\ pc' = [pc EXCEPT ![r] = "prepared"]
  /\ UNCHANGED <<attempt, peer, kind, sleeps, file, gathered, view, failed>>

ImportFails(r) ==
  /\ pc[r] = "import"
  /\ Fail(r)
  /\ UNCHANGED <<attempt, peer, kind, sleeps, file, gathered, view>>

Exchange(r) ==
  \/ Publish(r)
  \/ PublishFails(r)
  \/ ReadFile(r)
  \/ Sleep(r)
  \/ TimeOut(r)
  \/ EnterAllgather(r)
  \/ LeaveAllgather(r)
  \/ Import(r)
  \/ ImportFails(r)

RankStep(r) == Exchange(r) /\ UNCHANGED <<directory, exchange>>

Start(r) == (Begin(r) \/ DecideFails(r)) /\ UNCHANGED directory

Next == \E r \in Rank : Start(r) \/ RankStep(r)

Spec == Init /\ [][Next]_vars

(***************************************************************************)
(* A rank that has begun keeps executing; no launch is owed.               *)
(***************************************************************************)
FairSpec == Spec /\ \A r \in Rank : WF_vars(RankStep(r))

------------------------------------------------------------------------------
Place == {"idle", "publish", "read", "gather", "gathering", "import", "prepared"}

TypeOK ==
  /\ directory \in Directories
  /\ exchange \in [Rank -> Exchanges \cup {"undecided"}]
  /\ attempt \in [Rank -> 0..MaxAttempts]
  /\ pc \in [Rank -> Place]
  /\ peer \in [Rank -> Rank]
  /\ kind \in [Rank -> Kind]
  /\ sleeps \in [Rank -> 0..MaxSleeps]
  /\ file \in [Kind -> [Rank -> 0..Earlier]]
  /\ gathered \in [Rank -> Seq(Attempt)]
  /\ view \in [Rank -> [Kind -> [Rank -> 0..Earlier]]]
  /\ failed \subseteq Rank

Prepared == {r \in Rank : pc[r] = "prepared"}

\* Rank r has mapped the buffers rank q uses.
SeesCurrent(r, q) == \A k \in Kind : view[r][k][q] = attempt[q]

(***************************************************************************)
(* What the exchange is for: ranks that are prepared have mapped each      *)
(* other's current buffers.                                                *)
(***************************************************************************)
SameAllocation == \A r, q \in Prepared : SeesCurrent(r, q)

(***************************************************************************)
(* Over MPI this holds whatever fails and is retried, because a rank that  *)
(* has prepared never gathers again; and who prepares over MPI knows that  *)
(* every rank has chosen MPI.                                              *)
(***************************************************************************)
SameAllocationOverMpi ==
  \A r \in Prepared : exchange[r] = "mpi" =>
    \A q \in Rank : exchange[q] = "mpi" /\ (q \in Prepared => SeesCurrent(r, q))

(***************************************************************************)
(* Two prepared ranks can disagree in one direction only, whatever was     *)
(* retried and whatever an earlier run left in the directory: one of the   *)
(* two has mapped the other's current buffers, of every kind, and each has *)
(* its own.  In a fresh directory a rank that never had an attempt fail is *)
(* seen by everyone, and none prepares unless all have chosen files.  (And *)
(* the state is well typed.)                                               *)
(***************************************************************************)
OneSideSees ==
  /\ TypeOK
  /\ \A r, q \in Prepared : SeesCurrent(r, q) \/ SeesCurrent(q, r)
  /\ directory = "fresh" =>
       \A r \in Prepared : /\ \A q \in Rank : exchange[q] = exchange[r]
                           /\ \A q \in Prepared \ failed : SeesCurrent(r, q)

(***************************************************************************)
(* An attempt over files ends, whatever the other ranks do and have        *)
(* chosen.                                                                 *)
(***************************************************************************)
AttemptEnds ==
  \A r \in Rank :
    pc[r] \in {"publish", "read", "import"} ~> pc[r] \in {"idle", "prepared"}

(***************************************************************************)
(* Every rank prepares if every rank begins an attempt, they have chosen   *)
(* the same exchange, and none fails.                                      *)
(***************************************************************************)
AllPrepare ==
  /\ [](failed = {} /\ \A r, q \in Rank : {exchange[r], exchange[q]} # {"mpi", "files"})
  /\ \A r \in Rank : <>(attempt[r] # None)
  => <>(Prepared = Rank)
=============================================================================
