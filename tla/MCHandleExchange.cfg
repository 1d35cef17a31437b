SPECIFICATION FairSpec
CONSTANTS
  Ranks = 2
  Kinds <- MCKinds
  Exchanges = {"mpi", "files"}
  Directories = {"fresh", "used"}
  MaxSleeps = 1
  MaxAttempts = 3
INVARIANTS
  SameAllocationOverMpi
  OneSideSees
PROPERTIES
  AttemptEnds
  AllPrepare
\* Prepared ranks and ranks out of attempts stop, and a retry after a peer
\* has prepared waits in MPI_Allgather for ever.
CHECK_DEADLOCK FALSE
