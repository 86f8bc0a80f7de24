---------------------------- MODULE MCScheduler ----------------------------
(***************************************************************************)
(* Small instances of the thread scheduler for TLC.                        *)
(***************************************************************************)
EXTENDS Scheduler

CONSTANTS f, c, r   \* the threads init_threads creates

AllCreated == <<f, c, r>>
TaskOf == (f :> "fibonacci") @@ (c :> "collatz") @@ (r :> "max_subarray")

\* main 1 2 4 3: every task ends.
FiniteArg == (f :> 2) @@ (c :> 4) @@ (r :> 3)

\* main 1 2 0 3: collatz(0) stays at 0 for ever.
EndlessArg == (f :> 2) @@ (c :> 0) @@ (r :> 3)

FdOf == (f :> 3) @@ (c :> 4) @@ (r :> 5)

\* sample 3 of sample_execution.sh: no collatz thread.
SampleCreated == <<f, r>>
SampleFd == (f :> 3) @@ (r :> 4)
SampleTask == (f :> "fibonacci") @@ (r :> "max_subarray")
SampleArg == (f :> 4) @@ (r :> 2)
SampleNumber == {-1, 99}

MCNumber == {-2, 1, 3}

\* Below, at and above what select() needs for the descriptor 5.
ClobberNumber == {-2, 4, 9}
=============================================================================
