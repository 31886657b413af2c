--------------------------- MODULE MCComputations ---------------------------
(***************************************************************************)
(* Model-checking instance of the programs that compute something, in one  *)
(* thread or in several: the counter, the locks, the OpenMP regions, the   *)
(* MPI ranks, the allocator and the derivative.  As in MCProcesses, the    *)
(* first state chooses one of them and the others stand still.             *)
(***************************************************************************)
EXTENDS Counter, SmallAllocator

CONSTANTS
  Mutex, Spin, ReadLock, WriteLock,   \* of Locks
  Sums, Turns, MaxTeam,               \* of OpenMP, with the Word of SmallAllocator
  Ranks,                              \* of MpiExample
  Numbers, Powers, MaxTerms           \* of Derivative

VARIABLES
  program,
  thread, holders,
  region, team, at, iter, part, total, single, turn, holder, jj, crew, out,
  buffered, to, inbox, heard,
  terms, k, p

Lock == INSTANCE Locks
OMP == INSTANCE OpenMP
MPI == INSTANCE MpiExample
Poly == INSTANCE Derivative

lockVars == <<thread, holders>>
ompVars == <<region, team, at, iter, part, total, single, turn, holder, jj, crew, out>>
mpiVars == <<buffered, to, inbox, heard>>
polyVars == <<terms, k, p>>
all == <<program, vars, allocatorVars, lockVars, ompVars, mpiVars, polyVars>>

\* The programs that do not run start in one of their initial states.
AllInit ==
  /\ program \in {"counter", "allocator", "locks", "openmp", "mpi", "derivative"}
  /\ Init /\ AllocatorInit /\ Lock!Init
  /\ OMP!Init /\ (program # "openmp" => team = 1)
  /\ MPI!Init /\ (program # "mpi" => buffered)
  /\ IF program = "derivative" THEN Poly!Init ELSE terms = <<>> /\ k = 1 /\ p = <<>>

Runs(name) == program = name /\ UNCHANGED program

CounterNext == Next /\ Runs("counter")
               /\ UNCHANGED <<allocatorVars, lockVars, ompVars, mpiVars, polyVars>>
AllocNext == AllocatorNext /\ Runs("allocator")
             /\ UNCHANGED <<vars, lockVars, ompVars, mpiVars, polyVars>>
LockNext == Lock!Next /\ Runs("locks")
            /\ UNCHANGED <<vars, allocatorVars, ompVars, mpiVars, polyVars>>
OMPNext == OMP!Next /\ Runs("openmp")
           /\ UNCHANGED <<vars, allocatorVars, lockVars, mpiVars, polyVars>>
MPINext == MPI!Next /\ Runs("mpi")
           /\ UNCHANGED <<vars, allocatorVars, lockVars, ompVars, polyVars>>
PolyNext == Poly!Iteration /\ Runs("derivative")
            /\ UNCHANGED <<vars, allocatorVars, lockVars, ompVars, mpiVars>>

AllNext == CounterNext \/ AllocNext \/ LockNext \/ OMPNext \/ MPINext \/ PolyNext

\* The fairness that two of the programs have.
AllSpec == AllInit /\ [][AllNext]_all /\ WF_all(LockNext) /\ WF_all(MPINext)

\* Locks: one thread waits for the mutex and two for the spin lock.
EndsWithThreeWaiting == program = "locks" => Lock!EndsWithThreeWaiting

\* OpenMP: the sum and the counter of the sequential program.
ResultsAreSequential == OMP!ResultsAreSequential

\* OpenMP: the order that each construct promises.
OutputInOrder == OMP!OutputInOrder

\* MpiExample: buffering decides.
EverybodyOrNobody == program = "mpi" => MPI!EverybodyOrNobody

\* Derivative: right for every polynomial that is not misread.
DerivativeIsRight == Poly!DerivativeIsRight
=============================================================================
