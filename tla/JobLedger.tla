------------------------------ MODULE JobLedger ------------------------------
(***************************************************************************)
(* What the agent promises about a job, with nothing of how: the states    *)
(* that an operator of the Control Plane sees, and how often the           *)
(* diagnostic really ran.                                                  *)
(***************************************************************************)
EXTENDS Integers

CONSTANT Jobs

VARIABLES
  state,      \* of each job, on the Control Plane
  executions  \* how often each job's module was entered

vars == <<state, executions>>

Init ==
  /\ state = [j \in Jobs |-> "QUEUED"]
  /\ executions = [j \in Jobs |-> 0]

Become(j, s) ==
  /\ state' = [state EXCEPT ![j] = s]
  /\ UNCHANGED executions

Assign(j) == state[j] = "QUEUED" /\ Become(j, "ASSIGNED")
Start(j)  == state[j] = "ASSIGNED" /\ Become(j, "RUNNING")

\* A diagnostic runs once at most, and only after its start was recorded.  The
\* job may have been concluded since: a cancellation or a rejection of a second
\* copy does not wait for the module.
Execute(j) ==
  /\ state[j] \notin {"QUEUED", "ASSIGNED"}
  /\ executions[j] = 0
  /\ executions' = [executions EXCEPT ![j] = 1]
  /\ UNCHANGED state

\* Success is recorded for a job that did run.
Succeed(j) == state[j] = "RUNNING" /\ executions[j] = 1 /\ Become(j, "SUCCEEDED")
Fail(j)    == state[j] \in {"ASSIGNED", "RUNNING"} /\ Become(j, "FAILED")
Cancel(j)  == state[j] \in {"QUEUED", "ASSIGNED", "RUNNING"} /\ Become(j, "CANCELLED")

Next ==
  \E j \in Jobs : \/ Assign(j) \/ Start(j) \/ Execute(j)
                  \/ Succeed(j) \/ Fail(j) \/ Cancel(j)

Spec == Init /\ [][Next]_vars
=============================================================================
