------------------------------ MODULE Executor ------------------------------
(***************************************************************************)
(* The job lifecycle of the agent: the poll/heartbeat loop of main.go, the *)
(* central Executor with one execution goroutine and one cancellation      *)
(* monitor per job, the module registry's semaphores, the result spool as  *)
(* a bounded queue, and the Control Plane's job states as the agent's      *)
(* calls can observe them.  Every Control Plane call may lose its request  *)
(* or its response; the process may be signalled, revoked or killed and    *)
(* restarted at any point.                                                 *)
(***************************************************************************)
EXTENDS Integers, Sequences, FiniteSets

CONSTANTS
  Jobs,              \* job envelopes; an envelope's nonce is its own
  Main,              \* the goroutine of main() and runLoop
  None,              \* the absence of a job, a code or a fault
  Modules,           \* compiled modules
  ModuleOf,          \* the module an envelope names
  ConcurrencyLimit,  \* per-module semaphore capacity
  MaxConcurrentJobs, \* capacity of the slots channel
  NonceLimit,        \* capacity of the nonce cache (4096 in the code)
  MaxSpoolItems,     \* how many reports fit in the spool
  Fault,             \* which check, if any, an envelope fails, and its code
  Redeliverable,     \* job states in which the Control Plane offers a job again
  Disturbances,      \* the environment events of this instance
  MaxRestarts        \* bound on process restarts

FailureCodes ==
  {"PROTOCOL_INCOMPATIBLE", "INVALID_JOB", "TARGET_REJECTED", "JOB_EXPIRED",
   "SIGNATURE_INVALID", "REPLAY_REJECTED", "MODULE_UNAVAILABLE",
   "CAPABILITY_MISSING", "INTERNAL_ERROR", "CANCELLED", "TIMEOUT",
   "PROCESS_FAILED"}
Codes == FailureCodes \cup {"SUCCEEDED"}

\* The codes that an envelope's own faults are rejected with, by Verify and by the
\* rest of Submit.
VerifyFaults ==
  {"PROTOCOL_INCOMPATIBLE", "INVALID_JOB", "TARGET_REJECTED", "SIGNATURE_INVALID"}
ModuleFaults == {"MODULE_UNAVAILABLE", "INVALID_JOB", "CAPABILITY_MISSING"}

JobStates == {"QUEUED", "ASSIGNED", "RUNNING", "SUCCEEDED", "FAILED", "CANCELLED"}
Terminal  == {"SUCCEEDED", "FAILED", "CANCELLED"}

ASSUME ExecutorAssumption ==
  /\ IsFiniteSet(Jobs)
  /\ Main \notin Jobs
  /\ None \notin Jobs
  /\ None \notin Codes
  /\ ModuleOf \in [Jobs -> Modules]
  /\ ConcurrencyLimit \in [Modules -> Nat \ {0}]
  /\ MaxConcurrentJobs \in Nat \ {0}
  /\ NonceLimit \in Nat \ {0}
  /\ MaxSpoolItems \in Nat
  /\ Fault \in [Jobs -> [identity : VerifyFaults \cup {None},
                         policy   : VerifyFaults \cup {None},
                         module   : ModuleFaults \cup {None}]]
  /\ Redeliverable \subseteq {"ASSIGNED", "RUNNING"}
  /\ Disturbances \subseteq {"signal", "revoke", "cancel", "expire"}
  /\ MaxRestarts \in Nat

\* None is no last result.
ASSUME NoneAssumption ==
  None \notin [job : Jobs, status : {"SUCCEEDED", "CANCELLED", "TIMED_OUT", "FAILED"}]

VARIABLES
  \* the Control Plane and the passage of time
  cp,          \* the state of each job on the Control Plane
  revoked,     \* the Control Plane answers every call with a terminal error
  expired,     \* envelopes whose expiresAt has passed
  \* the agent process
  thread,      \* program counter, job and report of every goroutine
  slots,       \* len(e.slots)
  sem,         \* len of each module's semaphore channel
  holds,       \* execution goroutines that registered "defer release()"
  ctx,         \* the execution context of each job
  monitor,     \* the monitorCancellation goroutine of each job
  cancelled,   \* jobs whose "cancelled" channel was written
  seen,        \* the verifier's nonce cache
  stopping,    \* the signal context of main() is done
  lastResult,  \* e.lastResult
  \* the data directory
  spool,       \* spooled reports, oldest first
  \* history
  reports,     \* kinds of report sent at least once for a job
  executed,    \* how often module.Execute was entered for a job
  lost,        \* jobs with a report the spool refused or aged out, or in hand at a kill
  restarts     \* process restarts so far

cpVars      == <<cp, revoked, expired>>
historyVars == <<reports, executed, lost, restarts>>
vars == <<cp, revoked, expired, thread, slots, sem, holds, ctx, monitor,
          cancelled, seen, stopping, lastResult, spool, reports, executed,
          lost, restarts>>

Threads == Jobs \cup {Main}

MainPCs   == {"select", "nextJob", "submit", "start", "flush", "drain", "exited"}
WorkerPCs == {"idle", "begin", "acquire", "check", "execute", "failed",
              "classify", "release", "leave"}
ReportPCs == {"report", "spool"}
\* A goroutine there has started its job, or has an outcome to deliver for it.
InHandPCs == {"begin", "acquire", "check", "execute", "failed", "classify"} \cup ReportPCs

Idle(p) == [pc |-> p, job |-> None, code |-> None]

Init ==
  /\ cp = [j \in Jobs |-> "QUEUED"]
  /\ revoked = FALSE
  /\ expired = {}
  /\ thread = [t \in Threads |-> IF t = Main THEN Idle("select") ELSE Idle("idle")]
  /\ slots = 0
  /\ sem = [m \in Modules |-> 0]
  /\ holds = {}
  /\ ctx = [j \in Jobs |-> "off"]
  /\ monitor = [j \in Jobs |-> "off"]
  /\ cancelled = {}
  /\ seen = {}
  /\ stopping = FALSE
  /\ lastResult = None
  /\ spool = <<>>
  /\ reports = [j \in Jobs |-> {}]
  /\ executed = [j \in Jobs |-> 0]
  /\ lost = {}
  /\ restarts = 0

-----------------------------------------------------------------------------
(* Control Plane calls.                                                     *)

\* One HTTP call about job j: the Control Plane moves j to state next and
\* accepts or refuses; ok is what the agent sees.  A request or a response may
\* be lost, and a revoked agent is refused before anything happens.
Call(j, next, accepts, ok) ==
  \/ /\ ~revoked
     /\ ok => accepts
     /\ cp' = [cp EXCEPT ![j] = next]
  \/ /\ ~ok
     /\ UNCHANGED cp

\* Where a report takes the Control Plane's job.
AfterReport(state, code) ==
  IF code = "SUCCEEDED" THEN IF state = "RUNNING" THEN "SUCCEEDED" ELSE state
  ELSE IF state \in {"ASSIGNED", "RUNNING"} THEN "FAILED" ELSE state

\* ReportResult succeeds for a running job and, by its receipt, for a repeated
\* result.  ReportFailure turns JOB_STATE_INVALID into success.
AcceptsReport(state, code) ==
  code = "SUCCEEDED" => state \in {"RUNNING", "SUCCEEDED"}

SendReport(j, code, ok) ==
  Call(j, AfterReport(cp[j], code), AcceptsReport(cp[j], code), ok)

\* A report is a result, a failure of the execution, or main's refusal of an offer.
Kind(t, code) ==
  IF code = "SUCCEEDED" THEN "result" ELSE IF t = Main THEN "refusal" ELSE "failure"

-----------------------------------------------------------------------------
(* runLoop and Submit: the main goroutine.                                  *)

Goto(t, p) == thread' = [thread EXCEPT ![t].pc = p]

\* Leave the current activity for reject(code), or for the delivery of a result.
Conclude(t, code) ==
  thread' = [thread EXCEPT ![t] = [pc |-> "report", job |-> @.job, code |-> code]]

\* cancel() of the signal context reaches every live execution context at once.
CancelAll == [j \in Jobs |-> IF ctx[j] = "live" THEN "canceled" ELSE ctx[j]]

\* A terminal error ends runLoop; main() calls stop() and waits.
Halt ==
  /\ Goto(Main, "drain")
  /\ stopping' = TRUE
  /\ ctx' = CancelAll

\* The guard of the poll timer: execution.Running() against the maximum.
MayPollOffByOne == slots <= MaxConcurrentJobs
MayPoll == slots < MaxConcurrentJobs

\* The poll timer fires: nothing is polled while every slot is taken.
Poll ==
  /\ thread[Main].pc = "select"
  /\ MayPoll
  /\ Goto(Main, "nextJob")
  /\ UNCHANGED <<cpVars, slots, sem, holds, ctx, monitor, cancelled, seen,
                 stopping, lastResult, spool, historyVars>>

\* api.NextJob answers with a job it assigns or offers again.
NextJob(j) ==
  /\ thread[Main].pc = "nextJob"
  /\ ~revoked /\ ~stopping
  /\ cp[j] \in {"QUEUED"} \cup Redeliverable
  /\ cp' = [cp EXCEPT ![j] = IF @ = "QUEUED" THEN "ASSIGNED" ELSE @]
  /\ thread' = [thread EXCEPT ![Main] = [pc |-> "submit", job |-> j, code |-> None]]
  /\ UNCHANGED <<revoked, expired, slots, sem, holds, ctx, monitor, cancelled,
                 seen, stopping, lastResult, spool, historyVars>>

\* api.NextJob fails or has no job; the assignment may have happened unseen.
NextJobNone ==
  /\ thread[Main].pc = "nextJob"
  /\ \/ UNCHANGED cp
     \/ ~revoked /\ \E j \in Jobs : cp[j] = "QUEUED" /\ cp' = [cp EXCEPT ![j] = "ASSIGNED"]
  /\ Goto(Main, "select")
  /\ UNCHANGED <<revoked, expired, slots, sem, holds, ctx, monitor, cancelled,
                 seen, stopping, lastResult, spool, historyVars>>

\* api.NextJob fails with AGENT_REVOKED or PROTOCOL_INCOMPATIBLE.
NextJobTerminal ==
  /\ thread[Main].pc = "nextJob"
  /\ revoked /\ ~stopping
  /\ Halt
  /\ UNCHANGED <<cpVars, slots, sem, holds, monitor, cancelled, seen,
                 lastResult, spool, historyVars>>

\* JobVerifier.Verify prunes expired nonces once the envelope's own checks pass.
Pruned == seen \ expired

PassesEnvelope(j) ==
  Fault[j].identity = None /\ j \notin expired /\ Fault[j].policy = None

\* The first check of Verify that fails, in the order of the code.
VerifyCode(j) ==
  IF Fault[j].identity # None THEN Fault[j].identity
  ELSE IF j \in expired THEN "JOB_EXPIRED"
  ELSE IF Fault[j].policy # None THEN Fault[j].policy
  ELSE IF j \in Pruned THEN "REPLAY_REJECTED"
  ELSE IF Cardinality(Pruned) >= NonceLimit THEN "INTERNAL_ERROR"
  ELSE None

\* The nonce cache after Verify, whatever becomes of the job afterwards.
SeenNeverWritten(j) == IF PassesEnvelope(j) THEN Pruned ELSE seen
SeenAfter(j) ==
  IF ~PassesEnvelope(j) THEN seen
  ELSE IF VerifyCode(j) = None THEN Pruned \cup {j} ELSE Pruned

\* Submit up to the slot reservation: the code to reject with, None to go on.
SubmitCode(j) ==
  IF VerifyCode(j) # None THEN VerifyCode(j)
  ELSE IF Fault[j].module # None THEN Fault[j].module
  ELSE IF slots >= MaxConcurrentJobs THEN "INTERNAL_ERROR"
  ELSE None

Submit ==
  LET j == thread[Main].job IN
  /\ thread[Main].pc = "submit"
  /\ seen' = SeenAfter(j)
  /\ IF SubmitCode(j) = None
     THEN Goto(Main, "start") /\ slots' = slots + 1
     ELSE Conclude(Main, SubmitCode(j)) /\ UNCHANGED slots
  /\ UNCHANGED <<cpVars, sem, holds, ctx, monitor, cancelled, stopping,
                 lastResult, spool, historyVars>>

\* The Control Plane starts an assigned job only, and only once.
StartAccepts(state) == state = "ASSIGNED"

\* StartJob is acknowledged: the execution goroutine takes over the slot.
StartAcknowledged ==
  LET j == thread[Main].job IN
  /\ thread[Main].pc = "start"
  /\ ~stopping
  /\ Call(j, "RUNNING", StartAccepts(cp[j]), TRUE)
  /\ thread' = [thread EXCEPT ![Main] = Idle("select"),
                              ![j] = [pc |-> "begin", job |-> j, code |-> None]]
  /\ UNCHANGED <<revoked, expired, slots, sem, holds, ctx, monitor, cancelled,
                 seen, stopping, lastResult, spool, historyVars>>

\* The failed start gives its slot back.
SlotKept == slots
SlotReturned == slots - 1

\* The execution starts although its start was not acknowledged.
StartFailedRuns ==
  LET j == thread[Main].job IN
  /\ thread[Main].pc = "start"
  /\ Call(j, IF StartAccepts(cp[j]) THEN "RUNNING" ELSE cp[j], FALSE, FALSE)
  /\ thread' = [thread EXCEPT ![Main] = Idle("select"),
                              ![j] = [pc |-> "begin", job |-> j, code |-> None]]
  /\ UNCHANGED <<revoked, expired, slots, sem, holds, ctx, monitor, cancelled,
                 seen, stopping, lastResult, spool, historyVars>>

\* StartJob fails, or its acknowledgement is lost: the slot is given back and
\* the job rejected.
StartFailed ==
  LET j == thread[Main].job IN
  /\ thread[Main].pc = "start"
  /\ Call(j, IF StartAccepts(cp[j]) THEN "RUNNING" ELSE cp[j], FALSE, FALSE)
  /\ slots' = SlotReturned
  /\ Conclude(Main, "INTERNAL_ERROR")
  /\ UNCHANGED <<revoked, expired, sem, holds, ctx, monitor, cancelled, seen,
                 stopping, lastResult, spool, historyVars>>

-----------------------------------------------------------------------------
(* reject, the delivery of a result, and recordLast: any goroutine.         *)

LastStatus(code) ==
  IF code \in {"SUCCEEDED", "CANCELLED"} THEN code
  ELSE IF code = "TIMEOUT" THEN "TIMED_OUT" ELSE "FAILED"

\* recordLast, after which main returns to its select and an execution to its
\* deferred calls.
RecordLast(t) ==
  /\ lastResult' = [job |-> thread[t].job, status |-> LastStatus(thread[t].code)]
  /\ thread' = [thread EXCEPT ![t] = IF t = Main THEN Idle("select")
                                     ELSE [@ EXCEPT !.pc = "release"]]

\* The first and only direct transmission of a job's outcome.  It runs under
\* WithoutCancel, so stopping does not matter.
Report(t, ok) ==
  LET j == thread[t].job IN
  /\ thread[t].pc = "report"
  /\ SendReport(j, thread[t].code, ok)
  /\ IF ok THEN RecordLast(t) ELSE Goto(t, "spool") /\ UNCHANGED lastResult
  /\ reports' = [reports EXCEPT ![j] = @ \cup {Kind(t, thread[t].code)}]
  /\ UNCHANGED <<revoked, expired, slots, sem, holds, ctx, monitor, cancelled,
                 seen, stopping, spool, executed, lost, restarts>>

\* The queue's mutex is held by main while it flushes.
SpoolFree == thread[Main].pc # "flush"

\* Spool.Enqueue leaves a complete file of the report.  Its error, if f.Sync fails
\* after that, is logged at most, and a later flush finds the file all the same.
SpoolReport(t) ==
  /\ thread[t].pc = "spool"
  /\ SpoolFree
  /\ Len(spool) < MaxSpoolItems
  /\ spool' = Append(spool, [job |-> thread[t].job, code |-> thread[t].code])
  /\ RecordLast(t)
  /\ UNCHANGED <<cpVars, slots, sem, holds, ctx, monitor, cancelled, seen,
                 stopping, historyVars>>

\* Spool.Enqueue fails without a complete file: the spool is full or the file
\* system fails.  The report is lost; at most a log line remains.
SpoolRefuses(t) ==
  /\ thread[t].pc = "spool"
  /\ SpoolFree
  /\ lost' = lost \cup {thread[t].job}
  /\ RecordLast(t)
  /\ UNCHANGED <<cpVars, slots, sem, holds, ctx, monitor, cancelled, seen,
                 stopping, spool, reports, executed, restarts>>

-----------------------------------------------------------------------------
(* execute: the goroutine of a started job.                                 *)

\* The deadline is computed; an envelope that expired meanwhile is rejected
\* before its context and its monitor exist.
Begin(j) ==
  /\ thread[j].pc = "begin"
  /\ IF j \in expired
     THEN Conclude(j, "JOB_EXPIRED") /\ UNCHANGED <<ctx, monitor>>
     ELSE /\ Goto(j, "acquire")
          /\ ctx' = [ctx EXCEPT ![j] = IF stopping THEN "canceled" ELSE "live"]
          /\ monitor' = [monitor EXCEPT ![j] = "on"]
  /\ UNCHANGED <<cpVars, slots, sem, holds, cancelled, seen, stopping,
                 lastResult, spool, historyVars>>

\* Registry.Acquire obtains the module's semaphore.
Acquire(j) ==
  LET m == ModuleOf[j] IN
  /\ thread[j].pc = "acquire"
  /\ sem[m] < ConcurrencyLimit[m]
  /\ sem' = [sem EXCEPT ![m] = @ + 1]
  /\ holds' = holds \cup {j}
  /\ Goto(j, "check")
  /\ UNCHANGED <<cpVars, slots, ctx, monitor, cancelled, seen, stopping,
                 lastResult, spool, historyVars>>

\* Registry.Acquire gives up because the context is done.
AcquireFails(j) ==
  /\ thread[j].pc = "acquire"
  /\ ctx[j] # "live"
  /\ Conclude(j, "INTERNAL_ERROR")
  /\ UNCHANGED <<cpVars, slots, sem, holds, ctx, monitor, cancelled, seen,
                 stopping, lastResult, spool, historyVars>>

\* The check before execution is answered: cancellation was requested.
CheckCancelled(j) ==
  /\ thread[j].pc = "check"
  /\ ctx[j] = "live" /\ ~revoked /\ cp[j] = "CANCELLED"
  /\ Conclude(j, "CANCELLED")
  /\ UNCHANGED <<cpVars, slots, sem, holds, ctx, monitor, cancelled, seen,
                 stopping, lastResult, spool, historyVars>>

\* The check before execution finds no request, or fails: execution starts.
Execute(j) ==
  /\ thread[j].pc = "check"
  /\ Goto(j, "execute")
  /\ executed' = [executed EXCEPT ![j] = @ + 1]
  /\ UNCHANGED <<cpVars, slots, sem, holds, ctx, monitor, cancelled, seen,
                 stopping, lastResult, spool, reports, lost, restarts>>

\* normalize makes the result to report, unless no identity can be drawn for it
\* or even its shortened form exceeds MaxResultBytes.
Normalized == {"SUCCEEDED", "INTERNAL_ERROR"}

\* module.Execute returns a result, possibly although the context is done.
ModuleSucceeds(j) ==
  /\ thread[j].pc = "execute"
  /\ \E code \in Normalized : Conclude(j, code)
  /\ UNCHANGED <<cpVars, slots, sem, holds, ctx, monitor, cancelled, seen,
                 stopping, lastResult, spool, historyVars>>

\* module.Execute returns an error, of its own or because the context is done.
ModuleFails(j) ==
  /\ thread[j].pc = "execute"
  /\ Goto(j, "failed")
  /\ UNCHANGED <<cpVars, slots, sem, holds, ctx, monitor, cancelled, seen,
                 stopping, lastResult, spool, historyVars>>

\* A failed module: the non-blocking receive from "cancelled" comes first ...
ClassifyCancelled(j) ==
  /\ thread[j].pc = "failed"
  /\ IF j \in cancelled THEN Conclude(j, "CANCELLED") ELSE Goto(j, "classify")
  /\ UNCHANGED <<cpVars, slots, sem, holds, ctx, monitor, cancelled, seen,
                 stopping, lastResult, spool, historyVars>>

\* ... and ctx.Err() is read after it.
ClassifyAnyEnd(j) ==
  /\ thread[j].pc = "classify"
  /\ Conclude(j, IF ctx[j] = "live" THEN "PROCESS_FAILED" ELSE "TIMEOUT")
  /\ UNCHANGED <<cpVars, slots, sem, holds, ctx, monitor, cancelled, seen,
                 stopping, lastResult, spool, historyVars>>
ClassifyContext(j) ==
  /\ thread[j].pc = "classify"
  /\ Conclude(j, IF ctx[j] = "deadline" THEN "TIMEOUT" ELSE "PROCESS_FAILED")
  /\ UNCHANGED <<cpVars, slots, sem, holds, ctx, monitor, cancelled, seen,
                 stopping, lastResult, spool, historyVars>>

\* release() is deferred only after Acquire has succeeded.
ReleasedUnheld(j) == [sem EXCEPT ![ModuleOf[j]] = @ - 1]
NeverReleased(j) == sem
Released(j) ==
  IF j \in holds THEN [sem EXCEPT ![ModuleOf[j]] = @ - 1] ELSE sem

\* The deferred release() and cancel() calls; the monitor ends with the context.
Release(j) ==
  /\ thread[j].pc = "release"
  /\ sem' = Released(j)
  /\ holds' = holds \ {j}
  /\ ctx' = [ctx EXCEPT ![j] = "off"]
  /\ monitor' = [monitor EXCEPT ![j] = "off"]
  /\ cancelled' = cancelled \ {j}
  /\ Goto(j, "leave")
  /\ UNCHANGED <<cpVars, slots, seen, stopping, lastResult, spool, historyVars>>

\* The outermost deferred call: the slot is freed, wg.Done().
Leave(j) ==
  /\ thread[j].pc = "leave"
  /\ slots' = slots - 1
  /\ thread' = [thread EXCEPT ![j] = Idle("idle")]
  /\ UNCHANGED <<cpVars, sem, holds, ctx, monitor, cancelled, seen, stopping,
                 lastResult, spool, historyVars>>

-----------------------------------------------------------------------------
(* monitorCancellation, deadlines.                                          *)

\* What the monitor leaves in the "cancelled" channel.
Signalled(j) == cancelled \cup {j}

\* A poll of the monitor is answered while the context is live: cancellation
\* was requested, and the channel is written.
MonitorObserves(j) ==
  /\ monitor[j] = "on"
  /\ ctx[j] = "live" /\ ~revoked /\ cp[j] = "CANCELLED"
  /\ cancelled' = Signalled(j)
  /\ monitor' = [monitor EXCEPT ![j] = "cancelling"]
  /\ UNCHANGED <<cpVars, thread, slots, sem, holds, ctx, seen, stopping,
                 lastResult, spool, historyVars>>

\* Then the monitor calls cancel() and returns.
MonitorCancels(j) ==
  /\ monitor[j] = "cancelling"
  /\ ctx' = [ctx EXCEPT ![j] = IF @ = "live" THEN "canceled" ELSE @]
  /\ monitor' = [monitor EXCEPT ![j] = "off"]
  /\ UNCHANGED <<cpVars, thread, slots, sem, holds, cancelled, seen, stopping,
                 lastResult, spool, historyVars>>

\* The monitor returns because the context is done.
MonitorEnds(j) ==
  /\ monitor[j] = "on"
  /\ ctx[j] # "live"
  /\ monitor' = [monitor EXCEPT ![j] = "off"]
  /\ UNCHANGED <<cpVars, thread, slots, sem, holds, ctx, cancelled, seen,
                 stopping, lastResult, spool, historyVars>>

\* An execution context without a timeout.
NoDeadline(j) ==
  /\ ctx[j] = "live"
  /\ FALSE
  /\ UNCHANGED vars

\* The execution deadline passes.
Deadline(j) ==
  /\ ctx[j] = "live"
  /\ ctx' = [ctx EXCEPT ![j] = "deadline"]
  /\ UNCHANGED <<cpVars, thread, slots, sem, holds, monitor, cancelled, seen,
                 stopping, lastResult, spool, historyVars>>

-----------------------------------------------------------------------------
(* Heartbeat, flush and shutdown: the main goroutine.                       *)

\* A heartbeat is answered: Queue.Flush takes the mutex.
Heartbeat ==
  /\ thread[Main].pc = "select"
  /\ ~revoked /\ ~stopping
  /\ Goto(Main, "flush")
  /\ UNCHANGED <<cpVars, slots, sem, holds, ctx, monitor, cancelled, seen,
                 stopping, lastResult, spool, historyVars>>

\* A heartbeat fails with a terminal error, or answers with another major.
HeartbeatTerminal ==
  /\ thread[Main].pc = "select"
  /\ revoked /\ ~stopping
  /\ Halt
  /\ UNCHANGED <<cpVars, slots, sem, holds, monitor, cancelled, seen,
                 lastResult, spool, historyVars>>

\* Flush sends the oldest report and, once it is accepted, removes its file.
FlushSend ==
  LET item == Head(spool) IN
  /\ thread[Main].pc = "flush"
  /\ spool # <<>> /\ ~stopping
  /\ SendReport(item.job, item.code, TRUE)
  /\ spool' = Tail(spool)
  /\ UNCHANGED <<revoked, expired, thread, slots, sem, holds, ctx, monitor,
                 cancelled, seen, stopping, lastResult, historyVars>>

\* Flush finds the oldest file older than MaxAge and removes it unsent.
FlushAged ==
  /\ thread[Main].pc = "flush"
  /\ spool # <<>>
  /\ lost' = lost \cup {Head(spool).job}
  /\ spool' = Tail(spool)
  /\ UNCHANGED <<cpVars, thread, slots, sem, holds, ctx, monitor, cancelled,
                 seen, stopping, lastResult, reports, executed, restarts>>

\* What a flush leaves behind at the report it cannot send.
SpoolDropped == Tail(spool)
SpoolKept == spool

\* Flush stops at the first report it cannot send (or cannot remove), keeping
\* it and everything behind it.
FlushStops ==
  LET item == Head(spool) IN
  /\ thread[Main].pc = "flush"
  /\ spool # <<>>
  /\ SendReport(item.job, item.code, FALSE)
  /\ spool' = SpoolKept
  /\ Goto(Main, "select")
  /\ UNCHANGED <<revoked, expired, slots, sem, holds, ctx, monitor, cancelled,
                 seen, stopping, lastResult, historyVars>>

FlushDone ==
  /\ thread[Main].pc = "flush"
  /\ spool = <<>>
  /\ Goto(Main, "select")
  /\ UNCHANGED <<cpVars, slots, sem, holds, ctx, monitor, cancelled, seen,
                 stopping, lastResult, spool, historyVars>>

\* Draining the spool before leaving the loop.
LoopEndsWhenDrained ==
  /\ thread[Main].pc = "select"
  /\ stopping /\ spool = <<>>
  /\ Goto(Main, "drain")
  /\ UNCHANGED <<cpVars, slots, sem, holds, ctx, monitor, cancelled, seen,
                 stopping, lastResult, spool, historyVars>>

\* runLoop returns because the signal context is done.
LoopEnds ==
  /\ thread[Main].pc = "select"
  /\ stopping
  /\ Goto(Main, "drain")
  /\ UNCHANGED <<cpVars, slots, sem, holds, ctx, monitor, cancelled, seen,
                 stopping, lastResult, spool, historyVars>>

\* Leaving without execution.Wait().
ExitEarly ==
  /\ thread[Main].pc = "drain"
  /\ Goto(Main, "exited")
  /\ UNCHANGED <<cpVars, slots, sem, holds, ctx, monitor, cancelled, seen,
                 stopping, lastResult, spool, historyVars>>
\* execution.Wait() returns; the final heartbeat changes nothing here.
Exit ==
  /\ thread[Main].pc = "drain"
  /\ \A j \in Jobs : thread[j].pc = "idle"
  /\ Goto(Main, "exited")
  /\ UNCHANGED <<cpVars, slots, sem, holds, ctx, monitor, cancelled, seen,
                 stopping, lastResult, spool, historyVars>>

-----------------------------------------------------------------------------
(* The environment.                                                         *)

\* SIGINT or SIGTERM.
Signal ==
  /\ "signal" \in Disturbances
  /\ ~stopping
  /\ thread[Main].pc # "exited"
  /\ stopping' = TRUE
  /\ ctx' = CancelAll
  /\ UNCHANGED <<cpVars, thread, slots, sem, holds, monitor, cancelled, seen,
                 lastResult, spool, historyVars>>

\* The process is killed, or has exited, and is started again: everything but
\* the spool is gone, and with it every trace of the jobs in hand.
Restart ==
  /\ restarts < MaxRestarts
  /\ restarts' = restarts + 1
  /\ lost' = lost \cup {thread[t].job : t \in {u \in Threads : thread[u].pc \in InHandPCs}}
  /\ thread' = [t \in Threads |-> IF t = Main THEN Idle("select") ELSE Idle("idle")]
  /\ slots' = 0
  /\ sem' = [m \in Modules |-> 0]
  /\ holds' = {}
  /\ ctx' = [j \in Jobs |-> "off"]
  /\ monitor' = [j \in Jobs |-> "off"]
  /\ cancelled' = {}
  /\ seen' = {}
  /\ stopping' = FALSE
  /\ lastResult' = None
  /\ UNCHANGED <<cpVars, spool, reports, executed>>

\* An operator cancels a job that is not finished.
CancelJob(j) ==
  /\ "cancel" \in Disturbances
  /\ cp[j] \notin Terminal
  /\ cp' = [cp EXCEPT ![j] = "CANCELLED"]
  /\ UNCHANGED <<revoked, expired, thread, slots, sem, holds, ctx, monitor,
                 cancelled, seen, stopping, lastResult, spool, historyVars>>

\* The agent's certificate is revoked or its protocol becomes incompatible.
Revoke ==
  /\ "revoke" \in Disturbances
  /\ ~revoked
  /\ revoked' = TRUE
  /\ UNCHANGED <<cp, expired, thread, slots, sem, holds, ctx, monitor,
                 cancelled, seen, stopping, lastResult, spool, historyVars>>

\* The expiresAt of an envelope passes.
Expire(j) ==
  /\ "expire" \in Disturbances
  /\ j \notin expired
  /\ expired' = expired \cup {j}
  /\ UNCHANGED <<cp, revoked, thread, slots, sem, holds, ctx, monitor,
                 cancelled, seen, stopping, lastResult, spool, historyVars>>

\* An exited process does nothing.
Exited ==
  /\ thread[Main].pc = "exited"
  /\ UNCHANGED vars

-----------------------------------------------------------------------------
MainStep ==
  \/ Poll \/ (\E j \in Jobs : NextJob(j)) \/ NextJobNone \/ NextJobTerminal
  \/ Submit \/ StartAcknowledged \/ StartFailed
  \/ Heartbeat \/ HeartbeatTerminal
  \/ FlushSend \/ FlushAged \/ FlushStops \/ FlushDone
  \/ LoopEnds \/ Exit

ReportStep(t) ==
  \/ \E ok \in BOOLEAN : Report(t, ok)
  \/ SpoolReport(t) \/ SpoolRefuses(t)

\* The steps of execute itself, and the return of the module it waits for.
OwnStep(j) ==
  \/ Begin(j) \/ Acquire(j) \/ AcquireFails(j)
  \/ CheckCancelled(j) \/ Execute(j)
  \/ ClassifyCancelled(j) \/ ClassifyContext(j)
  \/ Release(j) \/ Leave(j)

ModuleReturns(j) == ModuleSucceeds(j) \/ ModuleFails(j)

WorkerStep(j) == OwnStep(j) \/ ModuleReturns(j)

MonitorStep(j) ==
  MonitorObserves(j) \/ MonitorCancels(j) \/ MonitorEnds(j) \/ Deadline(j)

Environment ==
  \/ Signal \/ Restart \/ Revoke \/ Exited
  \/ \E j \in Jobs : CancelJob(j) \/ Expire(j)

Next ==
  \/ MainStep
  \/ \E t \in Threads : ReportStep(t)
  \/ \E j \in Jobs : WorkerStep(j) \/ MonitorStep(j)
  \/ Environment

Spec == Init /\ [][Next]_vars

\* Goroutines that can run do run, and timers fire.  A goroutine waiting for the
\* spool's mutex gets it although flushes recur (sync.Mutex hands itself over to
\* a starving waiter), and the select of runLoop, choosing at random among ready
\* cases, does not pass over ctx.Done() forever.  A module may hang as long as its
\* context is live; that it returns once the context is done is what the built-in
\* modules do and what a killed tool does, unless a process that the tool forked
\* keeps its pipes open (cmd.Run waits for them, see ToolRun).
Fairness ==
  /\ WF_vars(MainStep \/ ReportStep(Main))
  /\ SF_vars(LoopEnds)
  /\ \A j \in Jobs :
       /\ WF_vars(OwnStep(j) \/ ReportStep(j) \/ (ctx[j] # "live" /\ ModuleReturns(j)))
       /\ SF_vars(SpoolReport(j) \/ SpoolRefuses(j))
       /\ WF_vars(Deadline(j))

FairSpec == Spec /\ Fairness

-----------------------------------------------------------------------------
(* Properties.                                                              *)

PCs         == MainPCs \cup WorkerPCs \cup ReportPCs
ThreadState == [pc : PCs, job : Jobs \cup {None}, code : Codes \cup {None}]

\* Types but for the bounds of the counts.
Typed ==
  /\ cp \in [Jobs -> JobStates]
  /\ revoked \in BOOLEAN
  /\ expired \subseteq Jobs
  /\ thread \in [Threads -> ThreadState]
  /\ thread[Main].pc \in MainPCs \cup ReportPCs
  /\ \A j \in Jobs : thread[j].pc \in WorkerPCs \cup ReportPCs
  /\ slots \in Int
  /\ sem \in [Modules -> Int]
  /\ holds \subseteq Jobs
  /\ ctx \in [Jobs -> {"off", "live", "canceled", "deadline"}]
  /\ monitor \in [Jobs -> {"off", "on", "cancelling"}]
  /\ cancelled \subseteq Jobs
  /\ seen \subseteq Jobs
  /\ stopping \in BOOLEAN
  /\ lastResult \in {None} \cup
       [job : Jobs, status : {"SUCCEEDED", "CANCELLED", "TIMED_OUT", "FAILED"}]
  /\ spool \in Seq([job : Jobs, code : Codes])
  /\ reports \in [Jobs -> SUBSET {"result", "failure", "refusal"}]
  /\ executed \in [Jobs -> Nat]
  /\ lost \subseteq Jobs
  /\ restarts \in Nat

\* Every variable keeps its type: in particular no channel or semaphore count
\* goes negative, whichever of the early returns of execute was taken.
TypeOK == Typed /\ slots \in Nat /\ sem \in [Modules -> Nat]

\* A goroutine that owns one element of the slots channel.
HoldsSlot(t) ==
  \/ t \in Jobs /\ thread[t].pc # "idle"
  \/ t = Main /\ thread[t].pc = "start"
SlotHolders == {t \in Threads : HoldsSlot(t)}

\* Execution slots are neither leaked nor freed twice: the channel holds one
\* element per live execution plus the one of a start in progress, on every
\* path through Submit, reject and execute, and never more than its capacity.
SlotAccounting ==
  slots = Cardinality(SlotHolders) /\ slots <= MaxConcurrentJobs

\* The executions inside Acquire and release of a module.
HoldersOf(m) == {j \in holds : ModuleOf[j] = m}

\* Every semaphore counts its holders, within the module's limit.
SemaphoreCounts ==
  \A m \in Modules :
    sem[m] = Cardinality(HoldersOf(m)) /\ sem[m] <= ConcurrencyLimit[m]

\* A module's semaphore counts exactly the executions that acquired it and have
\* not released it, never more than its limit, and a module runs only in an
\* execution that holds it.
ModuleAccounting ==
  /\ SemaphoreCounts
  /\ \A j \in Jobs : thread[j].pc \in {"check", "execute"} => j \in holds

\* The slot count read before the NextJob call is still good when Submit uses
\* it: a polled job always finds a slot, so the rejection "no local execution
\* slot is available", which has already spent the job's nonce, never happens.
PollGate ==
  thread[Main].pc \in {"nextJob", "submit"} => slots < MaxConcurrentJobs

\* A job offered again while it runs is stopped by the nonce cache, before its
\* start: a process never has two execution goroutines for one job, even when
\* the envelope's nonce has been pruned meanwhile.
OneExecutionPerJob ==
  thread[Main].pc = "start" => thread[thread[Main].job].pc = "idle"

\* The parts of the inductive invariant behind the accounting properties.
\* A goroutine that needs a job has one, its own if it is an execution, and one
\* that reports has a code to report.
Bound ==
  /\ thread[Main].pc \in {"submit", "start"} \cup ReportPCs => thread[Main].job \in Jobs
  /\ \A j \in Jobs : thread[j].pc # "idle" => thread[j].job = j
  /\ \A t \in Threads : thread[t].pc \in ReportPCs => thread[t].code \in Codes

\* The nonce of a job in execution is cached unless its envelope has expired.
Spent(j) == j \in seen \cup expired
NonceSpent ==
  /\ \A j \in Jobs : thread[j].pc # "idle" => Spent(j)
  /\ thread[Main].pc = "start" => Spent(thread[Main].job)

\* Which steps of execute are inside Acquire and release.
HoldsByPC ==
  \A j \in Jobs :
    /\ thread[j].pc \in {"idle", "begin", "acquire", "leave"} => j \notin holds
    /\ thread[j].pc \in {"check", "execute", "failed", "classify"} => j \in holds

IndInv ==
  /\ Typed
  /\ Bound
  /\ NonceSpent
  /\ HoldsByPC
  /\ OneExecutionPerJob
  /\ PollGate
  /\ SlotAccounting
  /\ SemaphoreCounts

\* Its inductive form: a job the Control Plane has not seen started is not in
\* execution here and was never executed, and one on its way to its module was
\* not executed before.
Unstarted == {"QUEUED", "ASSIGNED"}
Early     == {"begin", "acquire", "check"}
StartedOnce ==
  \A j \in Jobs :
    /\ cp[j] \in Unstarted => thread[j].pc = "idle" /\ executed[j] = 0
    /\ thread[j].pc \in Early => executed[j] = 0
    /\ executed[j] <= 1

\* A module is entered at most once for a job, whatever the Control Plane
\* offers again, whichever acknowledgements are lost, and although the nonce
\* cache does not survive a restart.
ExecutedAtMostOnce == \A j \in Jobs : executed[j] <= 1

\* The Control Plane hears one verdict of a job's execution: whatever is offered
\* again, lost or forgotten by a restart, an execution that sent a result sends no
\* failure, and no second execution contradicts it.  What may contradict it is the
\* refusal of an offer: Submit reports one for a copy of a job that runs here.
OneVerdict == \A j \in Jobs : ~({"result", "failure"} \subseteq reports[j])

\* Its inductive form: no verdict before the start of the job and none before the
\* execution's outcome, then only that one, and main reports refusals only.
Verdicts(j) == reports[j] \cap {"result", "failure"}
VerdictAtEnd ==
  /\ \A j \in Jobs :
       /\ cp[j] \in Unstarted => Verdicts(j) = {}
       /\ thread[j].pc \in InHandPCs \ ReportPCs => Verdicts(j) = {}
       /\ thread[j].pc \in ReportPCs => Verdicts(j) \subseteq {Kind(j, thread[j].code)}
  /\ thread[Main].pc \in ReportPCs => thread[Main].code # "SUCCEEDED"

\* A goroutine is on its way to an outcome of j or is delivering one.
InHand(j)  == \E t \in Threads : thread[t].pc \in InHandPCs /\ thread[t].job = j
Spooled(j) == \E i \in DOMAIN spool : spool[i].job = j

\* A job that the Control Plane believes to be running, or that was reported and
\* is still not concluded there, is not forgotten here: a goroutine has it in
\* hand, its report is spooled, or it is one of the losses the code accepts (a
\* full spool, age, a kill).
NoJobOrphaned ==
  \A j \in Jobs :
    cp[j] = "RUNNING" \/ (reports[j] # {} /\ cp[j] \notin Terminal) =>
      InHand(j) \/ Spooled(j) \/ j \in lost

\* What execute is about to report is what happened: CANCELLED for a job that
\* an operator cancelled, TIMEOUT for one whose own deadline passed (and not
\* because the agent is shutting down), JOB_EXPIRED for an expired envelope and
\* SUCCEEDED for a job whose module ran.  And a context that the monitor ended
\* can be told from one that the shutdown ended: the "cancelled" channel is
\* written first, or execute would report a cancellation as PROCESS_FAILED.
OutcomeJustified ==
  /\ \A j \in Jobs : ctx[j] = "canceled" => stopping \/ j \in cancelled
  /\ \A t \in Threads : thread[t].pc \in ReportPCs =>
       LET j == thread[t].job
           code == thread[t].code
       IN  /\ code = "CANCELLED" => cp[j] = "CANCELLED"
           /\ code = "TIMEOUT" => ctx[j] = "deadline"
           /\ code = "JOB_EXPIRED" => j \in expired
           /\ code = "SUCCEEDED" => executed[j] = 1

\* The inductive form of its last conjunct, spooled results included.
Ran(j) == executed[j] = 1
ResultsRan ==
  /\ \A j \in Jobs : thread[j].pc = "execute" => Ran(j)
  /\ \A t \in Threads :
       thread[t].pc \in ReportPCs /\ thread[t].code = "SUCCEEDED" => Ran(thread[t].job)
  /\ \A i \in DOMAIN spool : spool[i].code = "SUCCEEDED" => Ran(spool[i].job)

\* The last result that a heartbeat shows is one that was sent, with the outcome
\* it was sent with, although goroutines overwrite each other's; and the last
\* heartbeat of a process that reported anything has one to show (the latest to
\* reach recordLast, whichever that was).
KindsOf(status) == IF status = "SUCCEEDED" THEN {"result"} ELSE {"failure", "refusal"}
LastResultSent ==
  /\ lastResult # None => KindsOf(lastResult.status) \cap reports[lastResult.job] # {}
  /\ thread[Main].pc = "exited" /\ restarts = 0 /\ (\E j \in Jobs : reports[j] # {}) =>
       lastResult # None

\* Seen from the Control Plane, whatever is lost, repeated or restarted, a job
\* goes through the states of JobLedger: its diagnostic runs at most once and
\* only after its start was recorded, and only one that ran succeeds.
Ledger == INSTANCE JobLedger WITH state <- cp, executions <- executed
ImplementsLedger == Ledger!Spec

\* Every execution ends and frees its slot, through contended semaphores, an
\* unreachable Control Plane, a busy spool and modules that hang until their
\* deadline or the shutdown ends their context (but not beyond it).
ExecutionEnds == \A j \in Jobs : []<>(thread[j].pc = "idle")

\* A signalled agent exits: the loop notices, and the wait for running jobs ends,
\* given that a module whose context is done returns.
StopLeadsToExit == stopping ~> thread[Main].pc = "exited"

\* "Cancellation and timeout report terminal CANCELLED/TIMED_OUT failures and
\* cannot later become SUCCEEDED": once the agent has observed the cancellation
\* of a job, or its deadline has passed, execute concludes with one of the two.
CancellationOutcome ==
  [][\A j \in Jobs :
       thread[j].pc \notin ReportPCs /\ thread'[j].pc = "report"
         /\ (j \in cancelled \/ ctx[j] = "deadline")
         => thread'[j].code \in {"CANCELLED", "TIMEOUT"}]_vars
=============================================================================
