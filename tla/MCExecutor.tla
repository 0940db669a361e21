----------------------------- MODULE MCExecutor -----------------------------
(***************************************************************************)
(* Instances of Executor for TLC.                                          *)
(***************************************************************************)
EXTENDS Executor, TLC

CONSTANTS j1, j2, m1

Clean == [identity |-> None, policy |-> None, module |-> None]

\* Both jobs share one module, whose semaphore is narrower than the slots.
OneModule   == [j \in Jobs |-> m1]
LimitOne    == [m \in Modules |-> 1]
NoFaults    == [j \in Jobs |-> Clean]
\* The second envelope names a module this host cannot run.
OneBadModule == (j1 :> Clean @@ j2 :> [Clean EXCEPT !.module = "CAPABILITY_MISSING"])

JobSymmetry == Permutations(Jobs)
=============================================================================
