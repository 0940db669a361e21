--------------------------- MODULE ExecutorProofs ---------------------------
(***************************************************************************)
(* Proofs about Executor, for every finite set of jobs, every limit and    *)
(* every choice of faults, redeliveries and environment events.            *)
(***************************************************************************)
EXTENDS Executor, FiniteSetTheorems, SequenceTheorems, TLAPS

-----------------------------------------------------------------------------
(* Types of the operators.                                                  *)

\* Where the goroutines' program counters and the failure codes belong.
LEMMA Membership ==
  /\ MainPCs \subseteq PCs /\ WorkerPCs \subseteq PCs /\ ReportPCs \subseteq PCs
  /\ Main \in Threads
  /\ \A j \in Jobs : j \in Threads /\ j # Main
  /\ FailureCodes \subseteq Codes
BY ExecutorAssumption DEF PCs, Threads, Codes

\* Goto keeps the type of the goroutines, and so does Conclude.
LEMMA ThreadType ==
  ASSUME thread \in [Threads -> ThreadState], NEW t \in Threads
  PROVE  /\ \A p \in PCs : Goto(t, p) => thread' \in [Threads -> ThreadState]
         /\ \A c \in Codes : Conclude(t, c) => thread' \in [Threads -> ThreadState]
<1>1. ASSUME NEW p \in PCs, Goto(t, p) PROVE thread' \in [Threads -> ThreadState]
  <2>1. [thread[t] EXCEPT !.pc = p] \in ThreadState
    BY DEF ThreadState
  <2>2. QED
    BY <1>1, <2>1 DEF Goto
<1>2. ASSUME NEW c \in Codes, Conclude(t, c) PROVE thread' \in [Threads -> ThreadState]
  <2>1. [pc |-> "report", job |-> thread[t].job, code |-> c] \in ThreadState
    BY DEF ThreadState, PCs, ReportPCs
  <2>2. QED
    BY <1>2, <2>1 DEF Conclude
<1>3. QED
  BY <1>1, <1>2

\* A goroutine without a job.
LEMMA IdleType == ASSUME NEW p \in PCs PROVE Idle(p) \in ThreadState
BY DEF ThreadState, Idle

\* The codes that Verify and Submit reject with.
LEMMA SubmitCodeType ==
  ASSUME NEW j \in Jobs
  PROVE  VerifyCode(j) \in FailureCodes \cup {None} /\ SubmitCode(j) \in FailureCodes \cup {None}
<1>1. VerifyCode(j) \in FailureCodes \cup {None}
  BY ExecutorAssumption DEF VerifyCode, FailureCodes, VerifyFaults
<1>2. QED
  BY <1>1, ExecutorAssumption DEF SubmitCode, FailureCodes, ModuleFaults

\* A Control Plane call leaves every job in a job state.
LEMMA CallType ==
  ASSUME cp \in [Jobs -> JobStates], NEW j \in Jobs, NEW n \in JobStates,
         NEW accepts, NEW ok, Call(j, n, accepts, ok)
  PROVE  cp' \in [Jobs -> JobStates]
BY DEF Call

\* So does the transmission of a report.
LEMMA SendReportType ==
  ASSUME cp \in [Jobs -> JobStates], NEW j \in Jobs, NEW code, NEW ok,
         SendReport(j, code, ok)
  PROVE  cp' \in [Jobs -> JobStates]
<1>1. AfterReport(cp[j], code) \in JobStates
  BY DEF AfterReport, JobStates
<1>2. QED
  BY <1>1, CallType DEF SendReport

\* The envelope of a job that Submit starts had neither expired nor spent its
\* nonce, and has spent it now.
LEMMA SubmitAccepts ==
  ASSUME NEW j \in Jobs, seen \subseteq Jobs, slots \in Int, SubmitCode(j) = None
  PROVE  j \notin seen \cup expired /\ j \in SeenAfter(j) /\ slots < MaxConcurrentJobs
BY ExecutorAssumption DEF SubmitCode, VerifyCode, SeenAfter, PassesEnvelope, Pruned, FailureCodes,
   VerifyFaults, ModuleFaults, Codes

\* Verify forgets only nonces of expired envelopes.
LEMMA SeenAfterKeeps ==
  ASSUME NEW j \in Jobs, seen \subseteq Jobs
  PROVE  SeenAfter(j) \subseteq Jobs /\ seen \subseteq SeenAfter(j) \cup expired
BY DEF SeenAfter, Pruned

\* recordLast keeps the types and leaves the goroutine past its report.
LEMMA RecordLastType ==
  ASSUME Typed, Bound, NEW t \in Threads, thread[t].pc \in ReportPCs, RecordLast(t)
  PROVE  /\ thread' \in [Threads -> ThreadState]
         /\ lastResult' \in [job : Jobs, status : {"SUCCEEDED", "CANCELLED", "TIMED_OUT", "FAILED"}]
         /\ thread'[t].pc = IF t = Main THEN "select" ELSE "release"
         /\ \A u \in Threads : u # t => thread'[u] = thread[u]
         /\ t # Main => thread'[t].job = t
<1>1. thread[t].job \in Jobs /\ (t # Main => t \in Jobs /\ thread[t].job = t)
  BY DEF Bound, Threads, ReportPCs
<1>2. lastResult' \in [job : Jobs, status : {"SUCCEEDED", "CANCELLED", "TIMED_OUT", "FAILED"}]
  BY <1>1 DEF RecordLast, LastStatus
<1>3. CASE t = Main
  <2>1. thread' = [thread EXCEPT ![t] = Idle("select")]
    BY <1>3 DEF RecordLast
  <2>2. Idle("select") \in ThreadState /\ Idle("select").pc = "select"
    BY IdleType, Membership DEF MainPCs, Idle
  <2>3. QED
    BY <1>1, <1>2, <1>3, <2>1, <2>2 DEF Typed
<1>4. CASE t # Main
  <2>1. thread' = [thread EXCEPT ![t].pc = "release"]
    BY <1>4 DEF RecordLast
  <2>2. thread' \in [Threads -> ThreadState]
    BY <2>1, ThreadType, Membership DEF Typed, WorkerPCs, Goto
  <2>3. QED
    BY <1>1, <1>2, <1>4, <2>1, <2>2 DEF Typed, ThreadState
<1>5. QED
  BY <1>3, <1>4

\* Head and Tail of a nonempty sequence.
LEMMA HeadTail ==
  ASSUME NEW R, NEW s \in Seq(R), s # <<>>
  PROVE  Head(s) \in R /\ Tail(s) \in Seq(R)
BY HeadTailProperties

\* The oldest spooled report is a report, and so are the others.
LEMMA SpoolHead ==
  ASSUME spool \in Seq([job : Jobs, code : Codes]), spool # <<>>
  PROVE  /\ Head(spool).job \in Jobs /\ Head(spool).code \in Codes
         /\ Tail(spool) \in Seq([job : Jobs, code : Codes])
<1>1. Head(spool) \in [job : Jobs, code : Codes]
  BY HeadTail
<1>2. QED
  BY <1>1, HeadTail

\* The goroutine of main holds the job that NextJob answered with.
LEMMA NextJobType ==
  ASSUME thread \in [Threads -> ThreadState], NEW j \in Jobs, NextJob(j)
  PROVE  thread' \in [Threads -> ThreadState]
<1>1. [pc |-> "submit", job |-> j, code |-> None] \in ThreadState
  BY DEF ThreadState, PCs, MainPCs
<1>2. QED
  BY <1>1, Membership DEF NextJob

-----------------------------------------------------------------------------
(* The part of the inductive invariant without counts.                      *)

NoCounts == Typed /\ Bound /\ NonceSpent /\ HoldsByPC /\ OneExecutionPerJob

\* A step that ends in recordLast: the goroutine is past its report, and of the
\* rest only cp, the spool and the history change.
LEMMA RecordedNoCounts ==
  ASSUME NoCounts, NEW t \in Threads, thread[t].pc \in ReportPCs, RecordLast(t),
         UNCHANGED <<revoked, expired, slots, sem, holds, ctx, monitor, cancelled, seen,
                     stopping, executed, restarts>>,
         cp' \in [Jobs -> JobStates],
         spool' \in Seq([job : Jobs, code : Codes]),
         reports' \in [Jobs -> SUBSET {"result", "failure", "refusal"}],
         lost' \subseteq Jobs
  PROVE  NoCounts'
<1> USE ExecutorAssumption, Membership DEF NoCounts
<1>1. /\ thread' \in [Threads -> ThreadState]
      /\ lastResult' \in [job : Jobs, status : {"SUCCEEDED", "CANCELLED", "TIMED_OUT", "FAILED"}]
      /\ thread'[t].pc = IF t = Main THEN "select" ELSE "release"
      /\ \A u \in Threads : u # t => thread'[u] = thread[u]
      /\ t # Main => thread'[t].job = t
  BY RecordLastType
<1>2. CASE t = Main
  <2>1. thread'[Main].pc = "select" /\ \A j \in Jobs : thread'[j] = thread[j]
    BY <1>1, <1>2
  <2>2. Typed'
    BY <1>1, <2>1 DEF Typed, MainPCs
  <2>3. Bound' /\ NonceSpent' /\ HoldsByPC' /\ OneExecutionPerJob'
    BY <2>1 DEF Bound, NonceSpent, Spent, HoldsByPC, OneExecutionPerJob, ReportPCs, Threads
  <2>4. QED
    BY <2>2, <2>3
<1>3. CASE t # Main
  <2>1. /\ t \in Jobs /\ thread'[Main] = thread[Main]
        /\ thread'[t].pc = "release" /\ thread'[t].job = t
        /\ \A j \in Jobs : j # t => thread'[j] = thread[j]
    BY <1>1, <1>3 DEF Threads
  <2>2. Typed'
    BY <1>1, <2>1 DEF Typed, WorkerPCs
  <2>3. Bound'
    <3>1. \A u \in Threads : thread'[u].pc \in ReportPCs => thread'[u].code \in Codes
      BY <1>1, <2>1 DEF Bound, ReportPCs
    <3>2. thread'[Main].pc \in {"submit", "start"} \cup ReportPCs => thread'[Main].job \in Jobs
      BY <2>1 DEF Bound
    <3>3. \A j \in Jobs : thread'[j].pc # "idle" => thread'[j].job = j
      BY <2>1 DEF Bound
    <3>4. QED
      BY <3>1, <3>2, <3>3 DEF Bound
  <2>4. NonceSpent' /\ HoldsByPC'
    BY <2>1 DEF NonceSpent, Spent, HoldsByPC, ReportPCs
  <2>5. OneExecutionPerJob'
    BY <2>1 DEF OneExecutionPerJob, Bound, ReportPCs
  <2>6. QED
    BY <2>2, <2>3, <2>4, <2>5
<1>4. QED
  BY <1>2, <1>3

\* Steps of reject, the delivery of a result and recordLast.
LEMMA ReportNoCounts ==
  ASSUME NoCounts, NEW t \in Threads, ReportStep(t)
  PROVE  NoCounts'
<1> USE ExecutorAssumption, Membership DEF NoCounts
<1>1. ASSUME NEW ok \in BOOLEAN, Report(t, ok) PROVE NoCounts'
  <2>1. /\ thread[t].job \in Jobs
        /\ UNCHANGED <<revoked, expired, slots, sem, holds, ctx, monitor, cancelled, seen,
                       stopping, spool, executed, lost, restarts>>
    BY <1>1 DEF Typed, Bound, Report, ReportPCs, Threads
  <2>2. cp' \in [Jobs -> JobStates] /\ reports' \in [Jobs -> SUBSET {"result", "failure", "refusal"}]
    BY <1>1, <2>1, SendReportType DEF Typed, Report, Kind
  <2>3. CASE ok
    <3>1. RecordLast(t) /\ thread[t].pc \in ReportPCs
      BY <1>1, <2>3 DEF Report, ReportPCs
    <3>2. QED
      BY <2>1, <2>2, <3>1, RecordedNoCounts DEF Typed
  <2>4. CASE ~ok
    <3>1. Goto(t, "spool") /\ lastResult' = lastResult
      BY <1>1, <2>4 DEF Report
    <3>2. thread' \in [Threads -> ThreadState]
      BY <3>1, ThreadType DEF Typed, ReportPCs
    <3>3. /\ thread[t].pc = "report" /\ thread'[t].pc = "spool"
          /\ thread'[t].job = thread[t].job /\ thread'[t].code = thread[t].code
          /\ \A u \in Threads : u # t => thread'[u] = thread[u]
      BY <1>1, <3>1 DEF Typed, Report, Goto, ThreadState
    <3>4. Typed'
      <4>1. /\ thread'[Main].pc \in MainPCs \cup ReportPCs
            /\ \A j \in Jobs : thread'[j].pc \in WorkerPCs \cup ReportPCs
        BY <3>3 DEF Typed, ReportPCs
      <4>2. QED
        BY <2>1, <2>2, <3>1, <3>2, <4>1 DEF Typed
    <3>5. Bound'
      BY <2>1, <3>3 DEF Bound, ReportPCs, Threads
    <3>6. NonceSpent' /\ HoldsByPC' /\ OneExecutionPerJob'
      BY <2>1, <3>3 DEF Bound, NonceSpent, Spent, HoldsByPC, OneExecutionPerJob, ReportPCs, Threads
    <3>7. QED
      BY <3>4, <3>5, <3>6
  <2>5. QED
    BY <2>3, <2>4
<1>2. CASE SpoolReport(t)
  <2>1. thread[t].job \in Jobs /\ thread[t].code \in Codes
    BY <1>2 DEF Typed, Bound, SpoolReport, ReportPCs, Threads
  <2>2. spool' \in Seq([job : Jobs, code : Codes])
    BY <1>2, <2>1 DEF Typed, SpoolReport
  <2>3. QED
    BY <1>2, <2>2, RecordedNoCounts DEF Typed, SpoolReport, cpVars, historyVars, ReportPCs
<1>3. CASE SpoolRefuses(t)
  <2>1. thread[t].job \in Jobs
    BY <1>3 DEF Typed, Bound, SpoolRefuses, ReportPCs, Threads
  <2>2. lost' \subseteq Jobs
    BY <1>3, <2>1 DEF Typed, SpoolRefuses
  <2>3. QED
    BY <1>3, <2>2, RecordedNoCounts DEF Typed, SpoolRefuses, cpVars, ReportPCs
<1>4. QED
  BY <1>1, <1>2, <1>3 DEF ReportStep

\* Steps of execute.
LEMMA WorkerNoCounts ==
  ASSUME NoCounts, NEW j \in Jobs, WorkerStep(j)
  PROVE  NoCounts'
<1> USE ExecutorAssumption, Membership DEF NoCounts
<1>1. CASE Begin(j)
  <2>1. UNCHANGED <<cp, revoked, expired, slots, sem, holds, cancelled, seen, stopping,
                    lastResult, spool, reports, executed, lost, restarts>>
    BY <1>1 DEF Begin, cpVars, historyVars
  <2>2. CASE j \in expired
    <3>1. Conclude(j, "JOB_EXPIRED") /\ UNCHANGED <<ctx, monitor>>
      BY <1>1, <2>2 DEF Begin
    <3>2. thread' \in [Threads -> ThreadState]
      BY <3>1, ThreadType DEF Typed, Codes, FailureCodes
    <3>3. Typed'
      BY <2>1, <3>1, <3>2 DEF Typed, Conclude, WorkerPCs, ReportPCs
    <3>4. Bound' /\ NonceSpent' /\ HoldsByPC' /\ OneExecutionPerJob'
      BY <1>1, <2>1, <3>1 DEF Typed, Bound, NonceSpent, Spent, HoldsByPC, OneExecutionPerJob,
         Begin, Conclude, ReportPCs, Threads, Codes, FailureCodes
    <3>5. QED
      BY <3>3, <3>4
  <2>3. CASE ~(j \in expired)
    <3>1. /\ Goto(j, "acquire")
          /\ ctx' \in [Jobs -> {"off", "live", "canceled", "deadline"}]
          /\ monitor' \in [Jobs -> {"off", "on", "cancelling"}]
      <4>1. /\ Goto(j, "acquire")
            /\ ctx' = [ctx EXCEPT ![j] = IF stopping THEN "canceled" ELSE "live"]
            /\ monitor' = [monitor EXCEPT ![j] = "on"]
        BY <1>1, <2>3 DEF Begin
      <4>2. (IF stopping THEN "canceled" ELSE "live") \in {"off", "live", "canceled", "deadline"}
        OBVIOUS
      <4>3. QED
        BY <4>1, <4>2 DEF Typed
    <3>2. thread' \in [Threads -> ThreadState]
      BY <3>1, ThreadType DEF Typed, WorkerPCs
    <3>3. Typed'
      BY <2>1, <3>1, <3>2 DEF Typed, Goto, WorkerPCs, ReportPCs
    <3>4. Bound' /\ NonceSpent' /\ HoldsByPC' /\ OneExecutionPerJob'
      BY <1>1, <2>1, <3>1 DEF Typed, Bound, NonceSpent, Spent, HoldsByPC, OneExecutionPerJob,
         Begin, Goto, ReportPCs, Threads
    <3>5. QED
      BY <3>3, <3>4
  <2>4. QED
    BY <2>2, <2>3
<1>2. CASE Acquire(j)
  <2>1. thread' \in [Threads -> ThreadState]
    BY <1>2, ThreadType DEF Typed, Acquire, WorkerPCs, ReportPCs
  <2>2. Typed'
    <3>1. UNCHANGED <<cp, revoked, expired, slots, ctx, monitor, cancelled, seen, stopping,
                      lastResult, spool, reports, executed, lost, restarts>>
      BY <1>2 DEF Acquire, cpVars, historyVars
    <3>2. sem' \in [Modules -> Int] /\ holds' \subseteq Jobs
      BY <1>2 DEF Typed, Acquire
    <3>3. /\ thread'[Main].pc \in MainPCs \cup ReportPCs
          /\ \A k \in Jobs : thread'[k].pc \in WorkerPCs \cup ReportPCs
      BY <1>2 DEF Typed, Acquire, Goto, WorkerPCs
    <3>4. QED
      BY <2>1, <3>1, <3>2, <3>3 DEF Typed
  <2>3. Bound' /\ NonceSpent' /\ HoldsByPC' /\ OneExecutionPerJob'
    BY <1>2, <2>1 DEF Typed, Bound, NonceSpent, Spent, HoldsByPC, OneExecutionPerJob, Acquire, Goto, cpVars, historyVars,
       WorkerPCs, ReportPCs, Threads, Codes, FailureCodes
  <2>4. QED
    BY <2>2, <2>3
<1>3. CASE AcquireFails(j)
  <2>1. thread' \in [Threads -> ThreadState]
    BY <1>3, ThreadType DEF Typed, AcquireFails, WorkerPCs, ReportPCs, FailureCodes, Codes
  <2>2. Typed'
    BY <1>3, <2>1 DEF Typed, AcquireFails, Conclude, cpVars, historyVars, WorkerPCs, ReportPCs
  <2>3. Bound' /\ NonceSpent' /\ HoldsByPC' /\ OneExecutionPerJob'
    BY <1>3, <2>1 DEF Typed, Bound, NonceSpent, Spent, HoldsByPC, OneExecutionPerJob, AcquireFails, Conclude, cpVars, historyVars,
       WorkerPCs, ReportPCs, Threads, Codes, FailureCodes
  <2>4. QED
    BY <2>2, <2>3
<1>4. CASE CheckCancelled(j)
  <2>1. thread' \in [Threads -> ThreadState]
    BY <1>4, ThreadType DEF Typed, CheckCancelled, WorkerPCs, ReportPCs, FailureCodes, Codes
  <2>2. Typed'
    BY <1>4, <2>1 DEF Typed, CheckCancelled, Conclude, cpVars, historyVars, WorkerPCs, ReportPCs
  <2>3. Bound' /\ NonceSpent' /\ HoldsByPC' /\ OneExecutionPerJob'
    BY <1>4, <2>1 DEF Typed, Bound, NonceSpent, Spent, HoldsByPC, OneExecutionPerJob, CheckCancelled, Conclude, cpVars, historyVars,
       WorkerPCs, ReportPCs, Threads, Codes, FailureCodes
  <2>4. QED
    BY <2>2, <2>3
<1>5. CASE Execute(j)
  <2>1. thread' \in [Threads -> ThreadState]
    BY <1>5, ThreadType DEF Typed, Execute, WorkerPCs, ReportPCs
  <2>2. Typed'
    BY <1>5, <2>1 DEF Typed, Execute, Goto, cpVars, historyVars, WorkerPCs, ReportPCs
  <2>3. Bound' /\ NonceSpent' /\ HoldsByPC' /\ OneExecutionPerJob'
    BY <1>5, <2>1 DEF Typed, Bound, NonceSpent, Spent, HoldsByPC, OneExecutionPerJob, Execute, Goto, cpVars, historyVars,
       WorkerPCs, ReportPCs, Threads, Codes, FailureCodes
  <2>4. QED
    BY <2>2, <2>3
<1>6. CASE ModuleSucceeds(j)
  <2>1. thread' \in [Threads -> ThreadState]
    BY <1>6, ThreadType DEF Typed, ModuleSucceeds, Normalized, WorkerPCs, ReportPCs, FailureCodes, Codes
  <2>2. Typed'
    BY <1>6, <2>1 DEF Typed, ModuleSucceeds, Normalized, Conclude, cpVars, historyVars, WorkerPCs, ReportPCs
  <2>3. Bound' /\ NonceSpent' /\ HoldsByPC' /\ OneExecutionPerJob'
    BY <1>6, <2>1 DEF Typed, Bound, NonceSpent, Spent, HoldsByPC, OneExecutionPerJob, ModuleSucceeds, Normalized, Conclude, cpVars, historyVars,
       WorkerPCs, ReportPCs, Threads, Codes, FailureCodes
  <2>4. QED
    BY <2>2, <2>3
<1>7. CASE ModuleFails(j)
  <2>1. thread' \in [Threads -> ThreadState]
    BY <1>7, ThreadType DEF Typed, ModuleFails, WorkerPCs, ReportPCs
  <2>2. Typed'
    BY <1>7, <2>1 DEF Typed, ModuleFails, Goto, cpVars, historyVars, WorkerPCs, ReportPCs
  <2>3. Bound' /\ NonceSpent' /\ HoldsByPC' /\ OneExecutionPerJob'
    BY <1>7, <2>1 DEF Typed, Bound, NonceSpent, Spent, HoldsByPC, OneExecutionPerJob, ModuleFails, Goto, cpVars, historyVars,
       WorkerPCs, ReportPCs, Threads, Codes, FailureCodes
  <2>4. QED
    BY <2>2, <2>3
<1>8. CASE ClassifyCancelled(j)
  <2>1. UNCHANGED <<cp, revoked, expired, slots, sem, holds, ctx, monitor, cancelled, seen,
                    stopping, lastResult, spool, reports, executed, lost, restarts>>
    BY <1>8 DEF ClassifyCancelled, cpVars, historyVars
  <2>2. CASE j \in cancelled
    <3>1. Conclude(j, "CANCELLED")
      BY <1>8, <2>2 DEF ClassifyCancelled
    <3>2. thread' \in [Threads -> ThreadState]
      BY <3>1, ThreadType DEF Typed, Codes, FailureCodes
    <3>3. Typed'
      BY <2>1, <3>1, <3>2 DEF Typed, Conclude, WorkerPCs, ReportPCs
    <3>4. Bound' /\ NonceSpent' /\ HoldsByPC' /\ OneExecutionPerJob'
      BY <1>8, <2>1, <3>1 DEF Typed, Bound, NonceSpent, Spent, HoldsByPC, OneExecutionPerJob,
         ClassifyCancelled, Conclude, ReportPCs, Threads, Codes, FailureCodes
    <3>5. QED
      BY <3>3, <3>4
  <2>3. CASE ~(j \in cancelled)
    <3>1. Goto(j, "classify")
      BY <1>8, <2>3 DEF ClassifyCancelled, Typed
    <3>2. thread' \in [Threads -> ThreadState]
      BY <3>1, ThreadType DEF Typed, WorkerPCs
    <3>3. Typed'
      BY <2>1, <3>1, <3>2 DEF Typed, Goto, WorkerPCs, ReportPCs
    <3>4. Bound' /\ NonceSpent' /\ HoldsByPC' /\ OneExecutionPerJob'
      BY <1>8, <2>1, <3>1 DEF Typed, Bound, NonceSpent, Spent, HoldsByPC, OneExecutionPerJob,
         ClassifyCancelled, Goto, ReportPCs, Threads
    <3>5. QED
      BY <3>3, <3>4
  <2>4. QED
    BY <2>2, <2>3
<1>9. CASE ClassifyContext(j)
  <2>1. thread' \in [Threads -> ThreadState]
    BY <1>9, ThreadType DEF Typed, ClassifyContext, WorkerPCs, ReportPCs, FailureCodes, Codes
  <2>2. Typed'
    BY <1>9, <2>1 DEF Typed, ClassifyContext, Conclude, cpVars, historyVars, WorkerPCs, ReportPCs
  <2>3. Bound' /\ NonceSpent' /\ HoldsByPC' /\ OneExecutionPerJob'
    BY <1>9, <2>1 DEF Typed, Bound, NonceSpent, Spent, HoldsByPC, OneExecutionPerJob, ClassifyContext, Conclude, cpVars, historyVars,
       WorkerPCs, ReportPCs, Threads, Codes, FailureCodes
  <2>4. QED
    BY <2>2, <2>3
<1>10. CASE Release(j)
  <2>1. thread' \in [Threads -> ThreadState]
    BY <1>10, ThreadType DEF Typed, Release, WorkerPCs, ReportPCs
  <2>2. sem' \in [Modules -> Int]
    BY <1>10 DEF Typed, Release, Released
  <2>3. Typed'
    BY <1>10, <2>1, <2>2 DEF Typed, Release, Goto, cpVars, historyVars, WorkerPCs, ReportPCs
  <2>4. Goto(j, "leave") /\ holds' = holds \ {j} /\ UNCHANGED <<seen, expired>>
        /\ thread[j].pc = "release"
    BY <1>10 DEF Release, cpVars
  <2>5. Bound' /\ NonceSpent' /\ OneExecutionPerJob'
    BY <2>4 DEF Typed, Bound, NonceSpent, Spent, OneExecutionPerJob, Goto, ReportPCs, Threads
  <2>6. HoldsByPC'
    BY <2>4 DEF Typed, HoldsByPC, Goto
  <2>7. QED
    BY <2>3, <2>5, <2>6
<1>11. CASE Leave(j)
  <2>1. thread' \in [Threads -> ThreadState]
    BY <1>11, IdleType DEF Typed, Leave, WorkerPCs
  <2>2. Typed'
    BY <1>11, <2>1 DEF Typed, Leave, Idle, cpVars, historyVars, WorkerPCs, ReportPCs
  <2>3. Bound' /\ NonceSpent' /\ HoldsByPC' /\ OneExecutionPerJob'
    BY <1>11, <2>1 DEF Typed, Bound, NonceSpent, Spent, HoldsByPC, OneExecutionPerJob, Leave, Idle, cpVars, historyVars,
       WorkerPCs, ReportPCs, Threads, Codes, FailureCodes
  <2>4. QED
    BY <2>2, <2>3
<1>12. QED
  BY <1>1, <1>2, <1>3, <1>4, <1>5, <1>6, <1>7, <1>8, <1>9, <1>10, <1>11
     DEF WorkerStep, OwnStep, ModuleReturns

\* Steps of monitorCancellation, and the deadline.
LEMMA MonitorNoCounts ==
  ASSUME NoCounts, NEW j \in Jobs, MonitorStep(j)
  PROVE  NoCounts'
<1> USE ExecutorAssumption, Membership DEF NoCounts
<1>1. CASE MonitorObserves(j)
  <2>1. UNCHANGED thread
    BY <1>1 DEF MonitorObserves, Signalled
  <2>2. Typed'
    BY <1>1, <2>1 DEF Typed, MonitorObserves, Signalled, cpVars, historyVars, WorkerPCs, ReportPCs, MainPCs
  <2>3. Bound' /\ NonceSpent' /\ HoldsByPC' /\ OneExecutionPerJob'
    BY <1>1, <2>1 DEF Typed, Bound, NonceSpent, Spent, HoldsByPC, OneExecutionPerJob, MonitorObserves, Signalled, cpVars, historyVars,
       WorkerPCs, ReportPCs, MainPCs, Threads, Codes, FailureCodes
  <2>4. QED
    BY <2>2, <2>3
<1>2. CASE MonitorCancels(j)
  <2>1. UNCHANGED thread
    BY <1>2 DEF MonitorCancels
  <2>2. Typed'
    BY <1>2, <2>1 DEF Typed, MonitorCancels, cpVars, historyVars, WorkerPCs, ReportPCs, MainPCs
  <2>3. Bound' /\ NonceSpent' /\ HoldsByPC' /\ OneExecutionPerJob'
    BY <1>2, <2>1 DEF Typed, Bound, NonceSpent, Spent, HoldsByPC, OneExecutionPerJob, MonitorCancels, cpVars, historyVars,
       WorkerPCs, ReportPCs, MainPCs, Threads, Codes, FailureCodes
  <2>4. QED
    BY <2>2, <2>3
<1>3. CASE MonitorEnds(j)
  <2>1. UNCHANGED thread
    BY <1>3 DEF MonitorEnds
  <2>2. Typed'
    BY <1>3, <2>1 DEF Typed, MonitorEnds, cpVars, historyVars, WorkerPCs, ReportPCs, MainPCs
  <2>3. Bound' /\ NonceSpent' /\ HoldsByPC' /\ OneExecutionPerJob'
    BY <1>3, <2>1 DEF Typed, Bound, NonceSpent, Spent, HoldsByPC, OneExecutionPerJob, MonitorEnds, cpVars, historyVars,
       WorkerPCs, ReportPCs, MainPCs, Threads, Codes, FailureCodes
  <2>4. QED
    BY <2>2, <2>3
<1>4. CASE Deadline(j)
  <2>1. UNCHANGED thread
    BY <1>4 DEF Deadline
  <2>2. Typed'
    BY <1>4, <2>1 DEF Typed, Deadline, cpVars, historyVars, WorkerPCs, ReportPCs, MainPCs
  <2>3. Bound' /\ NonceSpent' /\ HoldsByPC' /\ OneExecutionPerJob'
    BY <1>4, <2>1 DEF Typed, Bound, NonceSpent, Spent, HoldsByPC, OneExecutionPerJob, Deadline, cpVars, historyVars,
       WorkerPCs, ReportPCs, MainPCs, Threads, Codes, FailureCodes
  <2>4. QED
    BY <2>2, <2>3
<1>5. QED
  BY <1>1, <1>2, <1>3, <1>4 DEF MonitorStep

\* Steps of runLoop, Submit and Flush.
LEMMA MainNoCounts ==
  ASSUME NoCounts, MainStep
  PROVE  NoCounts'
<1> USE ExecutorAssumption, Membership DEF NoCounts
<1>1. CASE Poll
  <2>1. thread' \in [Threads -> ThreadState]
    BY <1>1, ThreadType DEF Typed, Poll, MainPCs, ReportPCs
  <2>2. Typed'
    BY <1>1, <2>1 DEF Typed, Poll, Goto, cpVars, historyVars, MainPCs, ReportPCs
  <2>3. Bound' /\ NonceSpent' /\ HoldsByPC' /\ OneExecutionPerJob'
    BY <1>1, <2>1 DEF Typed, Bound, NonceSpent, Spent, HoldsByPC, OneExecutionPerJob, Poll, Goto, cpVars, historyVars,
       MainPCs, ReportPCs, Threads, Codes, FailureCodes
  <2>4. QED
    BY <2>2, <2>3
<1>2. CASE \E j \in Jobs : NextJob(j)
  <2>1. thread' \in [Threads -> ThreadState]
    BY <1>2, NextJobType DEF Typed
  <2>2. Typed'
    BY <1>2, <2>1 DEF Typed, NextJob, JobStates, cpVars, historyVars, MainPCs, ReportPCs
  <2>3. Bound' /\ NonceSpent' /\ HoldsByPC' /\ OneExecutionPerJob'
    BY <1>2, <2>1 DEF Typed, Bound, NonceSpent, Spent, HoldsByPC, OneExecutionPerJob, NextJob, JobStates, cpVars, historyVars,
       MainPCs, ReportPCs, Threads, Codes, FailureCodes
  <2>4. QED
    BY <2>2, <2>3
<1>3. CASE NextJobNone
  <2>1. thread' \in [Threads -> ThreadState]
    BY <1>3, ThreadType DEF Typed, NextJobNone, MainPCs, ReportPCs
  <2>2. cp' \in [Jobs -> JobStates]
    <3>1. CASE UNCHANGED cp
      BY <3>1 DEF Typed
    <3>2. CASE \E j \in Jobs : cp' = [cp EXCEPT ![j] = "ASSIGNED"]
      BY <3>2 DEF Typed, JobStates
    <3>3. QED
      BY <1>3, <3>1, <3>2 DEF NextJobNone
  <2>3. Typed'
    BY <1>3, <2>1, <2>2 DEF Typed, NextJobNone, Goto, cpVars, historyVars, MainPCs, ReportPCs
  <2>4. Bound' /\ NonceSpent' /\ HoldsByPC' /\ OneExecutionPerJob'
    BY <1>3, <2>1, <2>2 DEF Typed, Bound, NonceSpent, Spent, HoldsByPC, OneExecutionPerJob, NextJobNone, Goto, cpVars, historyVars,
       MainPCs, ReportPCs, Threads, Codes, FailureCodes
  <2>5. QED
    BY <2>3, <2>4
<1>4. CASE NextJobTerminal
  <2>1. thread' \in [Threads -> ThreadState]
    BY <1>4, ThreadType DEF Typed, NextJobTerminal, Halt, CancelAll, MainPCs, ReportPCs
  <2>2. Typed'
    BY <1>4, <2>1 DEF Typed, NextJobTerminal, Halt, CancelAll, Goto, cpVars, historyVars, MainPCs, ReportPCs
  <2>3. Bound' /\ NonceSpent' /\ HoldsByPC' /\ OneExecutionPerJob'
    BY <1>4, <2>1 DEF Typed, Bound, NonceSpent, Spent, HoldsByPC, OneExecutionPerJob, NextJobTerminal, Halt, CancelAll, Goto, cpVars, historyVars,
       MainPCs, ReportPCs, Threads, Codes, FailureCodes
  <2>4. QED
    BY <2>2, <2>3
<1>5. CASE Submit
  <2> DEFINE j == thread[Main].job
  <2>1. j \in Jobs /\ seen' = SeenAfter(j) /\ seen' \subseteq Jobs /\ seen \subseteq seen' \cup expired
    BY <1>5, SeenAfterKeeps DEF Typed, Bound, Submit
  <2>2. UNCHANGED <<cp, revoked, expired, sem, holds, ctx, monitor, cancelled, stopping,
                    lastResult, spool, reports, executed, lost, restarts>>
    BY <1>5 DEF Submit, cpVars, historyVars
  <2>3. CASE SubmitCode(j) = None
    <3>1. Goto(Main, "start") /\ slots' = slots + 1
      BY <1>5, <2>3 DEF Submit
    <3>2. thread' \in [Threads -> ThreadState]
      BY <3>1, ThreadType DEF Typed, MainPCs
    <3>3. Typed'
      BY <2>1, <2>2, <3>1, <3>2 DEF Typed, Goto, MainPCs, ReportPCs
    <3>4. j \notin seen \cup expired /\ j \in seen'
      BY <2>1, <2>3, SubmitAccepts DEF Typed
    <3>5. Bound' /\ NonceSpent' /\ HoldsByPC' /\ OneExecutionPerJob'
      BY <2>1, <2>2, <3>1, <3>4 DEF Typed, Bound, NonceSpent, Spent, HoldsByPC,
         OneExecutionPerJob, Goto, ReportPCs, Threads
    <3>6. QED
      BY <3>3, <3>5
  <2>4. CASE SubmitCode(j) # None
    <3>1. Conclude(Main, SubmitCode(j)) /\ slots' = slots
      BY <1>5, <2>4 DEF Submit
    <3>2. SubmitCode(j) \in Codes
      BY <2>1, <2>4, SubmitCodeType
    <3>3. thread' \in [Threads -> ThreadState]
      BY <3>1, <3>2, ThreadType DEF Typed
    <3>4. Typed'
      BY <2>1, <2>2, <3>1, <3>3 DEF Typed, Conclude, MainPCs, ReportPCs
    <3>5. Bound' /\ NonceSpent' /\ HoldsByPC' /\ OneExecutionPerJob'
      BY <2>1, <2>2, <3>1, <3>2 DEF Typed, Bound, NonceSpent, Spent, HoldsByPC,
         OneExecutionPerJob, Conclude, ReportPCs, Threads
    <3>6. QED
      BY <3>4, <3>5
  <2>5. QED
    BY <2>3, <2>4
<1>6. CASE StartAcknowledged
  <2> DEFINE j == thread[Main].job
             started == [pc |-> "begin", job |-> j, code |-> None]
  <2>1. j \in Jobs
    BY <1>6 DEF Typed, Bound, StartAcknowledged
  <2>2. thread' = [thread EXCEPT ![Main] = Idle("select"), ![j] = started]
    BY <1>6 DEF StartAcknowledged
  <2>3. cp' \in [Jobs -> JobStates]
    BY <1>6, <2>1, CallType DEF Typed, StartAcknowledged, JobStates
  <2>4. UNCHANGED <<revoked, expired, slots, sem, holds, ctx, monitor, cancelled, seen,
                    stopping, lastResult, spool, reports, executed, lost, restarts>>
    BY <1>6 DEF StartAcknowledged, historyVars
  <2>5. started \in ThreadState /\ Idle("select") \in ThreadState
    BY <2>1, IdleType DEF ThreadState, PCs, WorkerPCs, MainPCs
  <2>6. /\ thread' \in [Threads -> ThreadState]
        /\ thread'[Main].pc = "select"
        /\ thread'[j].pc = "begin" /\ thread'[j].job = j
        /\ \A i \in Jobs : i # j => thread'[i] = thread[i]
    <3> DEFINE mid == [thread EXCEPT ![Main] = Idle("select")]
    <3>1. mid \in [Threads -> ThreadState]
      BY <2>5 DEF Typed
    <3>2. thread' = [mid EXCEPT ![j] = started]
      BY <2>1, <2>2
    <3>3. Idle("select").pc = "select" /\ started.pc = "begin" /\ started.job = j
      BY DEF Idle
    <3> HIDE DEF started, j
    <3>4. thread' \in [Threads -> ThreadState]
      BY <2>1, <2>5, <3>1, <3>2
    <3>5. thread'[Main] = Idle("select") /\ thread'[j] = started
          /\ \A i \in Jobs : i # j => thread'[i] = thread[i]
      BY <2>1, <3>1, <3>2 DEF Typed
    <3>6. QED
      BY <3>3, <3>4, <3>5
  <2>7. Typed'
    BY <2>1, <2>3, <2>4, <2>6 DEF Typed, MainPCs, WorkerPCs
  <2>8. Bound'
    <3>1. thread'[Main].pc \notin {"submit", "start"} \cup ReportPCs
      BY <2>6 DEF ReportPCs
    <3>2. \A i \in Jobs : thread'[i].pc # "idle" => thread'[i].job = i
      BY <2>1, <2>6 DEF Bound
    <3>3. ASSUME NEW i \in Threads, thread'[i].pc \in ReportPCs PROVE thread'[i].code \in Codes
      BY <2>1, <2>6, <3>1, <3>3 DEF Bound, ReportPCs, Threads
    <3>4. QED
      BY <3>1, <3>2, <3>3 DEF Bound
  <2>9. NonceSpent' /\ HoldsByPC' /\ OneExecutionPerJob'
    BY <1>6, <2>1, <2>4, <2>6 DEF NonceSpent, Spent, HoldsByPC, OneExecutionPerJob, StartAcknowledged
  <2>10. QED
    BY <2>7, <2>8, <2>9
<1>7. CASE StartFailed
  <2>1. thread' \in [Threads -> ThreadState]
    BY <1>7, ThreadType DEF Typed, StartFailed, SlotReturned, MainPCs, ReportPCs, FailureCodes, Codes
  <2>2. cp' \in [Jobs -> JobStates]
    <3>1. thread[Main].job \in Jobs
      BY <1>7 DEF Bound, StartFailed
    <3>2. (IF StartAccepts(cp[thread[Main].job]) THEN "RUNNING" ELSE cp[thread[Main].job]) \in JobStates
      BY <3>1 DEF Typed, JobStates
    <3>3. QED
      BY <1>7, <3>1, <3>2, CallType DEF Typed, StartFailed
  <2>3. Typed'
    BY <1>7, <2>1, <2>2 DEF Typed, StartFailed, SlotReturned, Conclude, cpVars, historyVars, MainPCs, ReportPCs
  <2>4. Bound' /\ NonceSpent' /\ HoldsByPC' /\ OneExecutionPerJob'
    BY <1>7, <2>1, <2>2 DEF Typed, Bound, NonceSpent, Spent, HoldsByPC, OneExecutionPerJob, StartFailed, SlotReturned, Conclude, cpVars, historyVars,
       MainPCs, ReportPCs, Threads, Codes, FailureCodes
  <2>5. QED
    BY <2>3, <2>4
<1>8. CASE Heartbeat
  <2>1. thread' \in [Threads -> ThreadState]
    BY <1>8, ThreadType DEF Typed, Heartbeat, MainPCs, ReportPCs
  <2>2. Typed'
    BY <1>8, <2>1 DEF Typed, Heartbeat, Goto, cpVars, historyVars, MainPCs, ReportPCs
  <2>3. Bound' /\ NonceSpent' /\ HoldsByPC' /\ OneExecutionPerJob'
    BY <1>8, <2>1 DEF Typed, Bound, NonceSpent, Spent, HoldsByPC, OneExecutionPerJob, Heartbeat, Goto, cpVars, historyVars,
       MainPCs, ReportPCs, Threads, Codes, FailureCodes
  <2>4. QED
    BY <2>2, <2>3
<1>9. CASE HeartbeatTerminal
  <2>1. thread' \in [Threads -> ThreadState]
    BY <1>9, ThreadType DEF Typed, HeartbeatTerminal, Halt, CancelAll, MainPCs, ReportPCs
  <2>2. Typed'
    BY <1>9, <2>1 DEF Typed, HeartbeatTerminal, Halt, CancelAll, Goto, cpVars, historyVars, MainPCs, ReportPCs
  <2>3. Bound' /\ NonceSpent' /\ HoldsByPC' /\ OneExecutionPerJob'
    BY <1>9, <2>1 DEF Typed, Bound, NonceSpent, Spent, HoldsByPC, OneExecutionPerJob, HeartbeatTerminal, Halt, CancelAll, Goto, cpVars, historyVars,
       MainPCs, ReportPCs, Threads, Codes, FailureCodes
  <2>4. QED
    BY <2>2, <2>3
<1>10. CASE FlushSend
  <2>1. UNCHANGED thread
    BY <1>10 DEF FlushSend
  <2>2. cp' \in [Jobs -> JobStates] /\ spool' \in Seq([job : Jobs, code : Codes])
    BY <1>10, SpoolHead, SendReportType DEF Typed, FlushSend
  <2>3. Typed'
    BY <1>10, <2>1, <2>2 DEF Typed, FlushSend, cpVars, historyVars, MainPCs, ReportPCs
  <2>4. Bound' /\ NonceSpent' /\ HoldsByPC' /\ OneExecutionPerJob'
    BY <1>10, <2>1, <2>2 DEF Typed, Bound, NonceSpent, Spent, HoldsByPC, OneExecutionPerJob, FlushSend, cpVars, historyVars,
       MainPCs, ReportPCs, Threads, Codes, FailureCodes
  <2>5. QED
    BY <2>3, <2>4
<1>11. CASE FlushAged
  <2>1. UNCHANGED thread
    BY <1>11 DEF FlushAged
  <2>2. lost' \subseteq Jobs /\ spool' \in Seq([job : Jobs, code : Codes])
    BY <1>11, SpoolHead DEF Typed, FlushAged
  <2>3. Typed'
    BY <1>11, <2>1, <2>2 DEF Typed, FlushAged, cpVars, historyVars, MainPCs, ReportPCs
  <2>4. Bound' /\ NonceSpent' /\ HoldsByPC' /\ OneExecutionPerJob'
    BY <1>11, <2>1, <2>2 DEF Typed, Bound, NonceSpent, Spent, HoldsByPC, OneExecutionPerJob, FlushAged, cpVars, historyVars,
       MainPCs, ReportPCs, Threads, Codes, FailureCodes
  <2>5. QED
    BY <2>3, <2>4
<1>12. CASE FlushStops
  <2>1. thread' \in [Threads -> ThreadState]
    BY <1>12, ThreadType DEF Typed, FlushStops, SpoolKept, MainPCs, ReportPCs
  <2>2. cp' \in [Jobs -> JobStates]
    BY <1>12, SpoolHead, SendReportType DEF Typed, FlushStops
  <2>3. Typed'
    BY <1>12, <2>1, <2>2 DEF Typed, FlushStops, SpoolKept, Goto, cpVars, historyVars, MainPCs, ReportPCs
  <2>4. Bound' /\ NonceSpent' /\ HoldsByPC' /\ OneExecutionPerJob'
    BY <1>12, <2>1, <2>2 DEF Typed, Bound, NonceSpent, Spent, HoldsByPC, OneExecutionPerJob, FlushStops, SpoolKept, Goto, cpVars, historyVars,
       MainPCs, ReportPCs, Threads, Codes, FailureCodes
  <2>5. QED
    BY <2>3, <2>4
<1>13. CASE FlushDone
  <2>1. thread' \in [Threads -> ThreadState]
    BY <1>13, ThreadType DEF Typed, FlushDone, MainPCs, ReportPCs
  <2>2. Typed'
    BY <1>13, <2>1 DEF Typed, FlushDone, Goto, cpVars, historyVars, MainPCs, ReportPCs
  <2>3. Bound' /\ NonceSpent' /\ HoldsByPC' /\ OneExecutionPerJob'
    BY <1>13, <2>1 DEF Typed, Bound, NonceSpent, Spent, HoldsByPC, OneExecutionPerJob, FlushDone, Goto, cpVars, historyVars,
       MainPCs, ReportPCs, Threads, Codes, FailureCodes
  <2>4. QED
    BY <2>2, <2>3
<1>14. CASE LoopEnds
  <2>1. thread' \in [Threads -> ThreadState]
    BY <1>14, ThreadType DEF Typed, LoopEnds, MainPCs, ReportPCs
  <2>2. Typed'
    BY <1>14, <2>1 DEF Typed, LoopEnds, Goto, cpVars, historyVars, MainPCs, ReportPCs
  <2>3. Bound' /\ NonceSpent' /\ HoldsByPC' /\ OneExecutionPerJob'
    BY <1>14, <2>1 DEF Typed, Bound, NonceSpent, Spent, HoldsByPC, OneExecutionPerJob, LoopEnds, Goto, cpVars, historyVars,
       MainPCs, ReportPCs, Threads, Codes, FailureCodes
  <2>4. QED
    BY <2>2, <2>3
<1>15. CASE Exit
  <2>1. thread' \in [Threads -> ThreadState]
    BY <1>15, ThreadType DEF Typed, Exit, MainPCs, ReportPCs
  <2>2. Typed'
    BY <1>15, <2>1 DEF Typed, Exit, Goto, cpVars, historyVars, MainPCs, ReportPCs
  <2>3. Bound' /\ NonceSpent' /\ HoldsByPC' /\ OneExecutionPerJob'
    BY <1>15, <2>1 DEF Typed, Bound, NonceSpent, Spent, HoldsByPC, OneExecutionPerJob, Exit, Goto, cpVars, historyVars,
       MainPCs, ReportPCs, Threads, Codes, FailureCodes
  <2>4. QED
    BY <2>2, <2>3
<1>16. QED
  BY <1>1, <1>2, <1>3, <1>4, <1>5, <1>6, <1>7, <1>8, <1>9, <1>10, <1>11, <1>12, <1>13, <1>14, <1>15 DEF MainStep

\* Steps of the environment.
LEMMA EnvironmentNoCounts ==
  ASSUME NoCounts, Environment
  PROVE  NoCounts'
<1> USE ExecutorAssumption, Membership DEF NoCounts
<1>1. CASE Signal
  <2>1. UNCHANGED thread
    BY <1>1 DEF Signal, CancelAll
  <2>2. Typed'
    BY <1>1, <2>1 DEF Typed, Signal, CancelAll, cpVars, historyVars, WorkerPCs, ReportPCs, MainPCs
  <2>3. Bound' /\ NonceSpent' /\ HoldsByPC' /\ OneExecutionPerJob'
    BY <1>1, <2>1 DEF Typed, Bound, NonceSpent, Spent, HoldsByPC, OneExecutionPerJob, Signal, CancelAll, cpVars, historyVars,
       WorkerPCs, ReportPCs, MainPCs, Threads, Codes, FailureCodes
  <2>4. QED
    BY <2>2, <2>3
<1>2. CASE Revoke
  <2>1. UNCHANGED thread
    BY <1>2 DEF Revoke
  <2>2. Typed'
    BY <1>2, <2>1 DEF Typed, Revoke, cpVars, historyVars, WorkerPCs, ReportPCs, MainPCs
  <2>3. Bound' /\ NonceSpent' /\ HoldsByPC' /\ OneExecutionPerJob'
    BY <1>2, <2>1 DEF Typed, Bound, NonceSpent, Spent, HoldsByPC, OneExecutionPerJob, Revoke, cpVars, historyVars,
       WorkerPCs, ReportPCs, MainPCs, Threads, Codes, FailureCodes
  <2>4. QED
    BY <2>2, <2>3
<1>3. CASE \E j \in Jobs : CancelJob(j)
  <2>1. UNCHANGED thread
    BY <1>3 DEF CancelJob, JobStates
  <2>2. Typed'
    BY <1>3, <2>1 DEF Typed, CancelJob, JobStates, cpVars, historyVars, WorkerPCs, ReportPCs, MainPCs
  <2>3. Bound' /\ NonceSpent' /\ HoldsByPC' /\ OneExecutionPerJob'
    BY <1>3, <2>1 DEF Typed, Bound, NonceSpent, Spent, HoldsByPC, OneExecutionPerJob, CancelJob, JobStates, cpVars, historyVars,
       WorkerPCs, ReportPCs, MainPCs, Threads, Codes, FailureCodes
  <2>4. QED
    BY <2>2, <2>3
<1>4. CASE \E j \in Jobs : Expire(j)
  <2>1. UNCHANGED thread
    BY <1>4 DEF Expire
  <2>2. Typed'
    BY <1>4, <2>1 DEF Typed, Expire, cpVars, historyVars, WorkerPCs, ReportPCs, MainPCs
  <2>3. Bound' /\ NonceSpent' /\ HoldsByPC' /\ OneExecutionPerJob'
    BY <1>4, <2>1 DEF Typed, Bound, NonceSpent, Spent, HoldsByPC, OneExecutionPerJob, Expire, cpVars, historyVars,
       WorkerPCs, ReportPCs, MainPCs, Threads, Codes, FailureCodes
  <2>4. QED
    BY <2>2, <2>3
<1>5. CASE Exited
  <2>1. UNCHANGED thread
    BY <1>5 DEF Exited, vars
  <2>2. Typed'
    BY <1>5, <2>1 DEF Typed, Exited, vars, cpVars, historyVars, WorkerPCs, ReportPCs, MainPCs
  <2>3. Bound' /\ NonceSpent' /\ HoldsByPC' /\ OneExecutionPerJob'
    BY <1>5, <2>1 DEF Typed, Bound, NonceSpent, Spent, HoldsByPC, OneExecutionPerJob, Exited, vars, cpVars, historyVars,
       WorkerPCs, ReportPCs, MainPCs, Threads, Codes, FailureCodes
  <2>4. QED
    BY <2>2, <2>3
<1>6. CASE Restart
  <2>1. thread' \in [Threads -> ThreadState]
    BY <1>6, IdleType DEF Restart, MainPCs, WorkerPCs
  <2>2. lost' \subseteq Jobs
    <3>1. \A t \in Threads : thread[t].pc \in InHandPCs => thread[t].job \in Jobs
      BY DEF Typed, Bound, Threads, MainPCs, InHandPCs, ReportPCs
    <3>2. lost' = lost \cup {thread[t].job : t \in {u \in Threads : thread[u].pc \in InHandPCs}}
      BY <1>6 DEF Restart
    <3>3. QED
      BY <3>1, <3>2 DEF Typed
  <2>3. Typed'
    <3>1. thread'[Main].pc \in MainPCs /\ \A j \in Jobs : thread'[j].pc \in WorkerPCs
      BY <1>6 DEF Restart, Idle, MainPCs, WorkerPCs
    <3>2. /\ UNCHANGED <<cp, revoked, expired, spool, reports, executed>>
          /\ restarts' \in Nat
      BY <1>6 DEF Typed, Restart, cpVars
    <3>3. /\ slots' = 0 /\ holds' = {} /\ cancelled' = {}
          /\ seen' = {} /\ stopping' = FALSE /\ lastResult' = None
      BY <1>6 DEF Restart
    <3>4. /\ sem' \in [Modules -> Int]
          /\ ctx' \in [Jobs -> {"off", "live", "canceled", "deadline"}]
          /\ monitor' \in [Jobs -> {"off", "on", "cancelling"}]
      BY <1>6 DEF Restart
    <3>5. stopping' \in BOOLEAN
      BY <3>3
    <3>6. QED
      BY <2>1, <2>2, <3>1, <3>2, <3>3, <3>4, <3>5 DEF Typed
  <2>4. Bound' /\ NonceSpent' /\ HoldsByPC' /\ OneExecutionPerJob'
    BY <1>6, <2>1, <2>2 DEF Typed, Bound, NonceSpent, Spent, HoldsByPC, OneExecutionPerJob, Restart, Idle, cpVars, historyVars,
       WorkerPCs, ReportPCs, MainPCs, Threads, Codes, FailureCodes
  <2>5. QED
    BY <2>3, <2>4
<1>7. QED
  BY <1>1, <1>2, <1>3, <1>4, <1>5, <1>6 DEF Environment

-----------------------------------------------------------------------------
(* The slots channel.                                                       *)

\* A step that takes and frees no slot, and enters a poll only through the gate.
Quiet ==
  /\ slots' = slots
  /\ \A j \in Jobs : thread'[j].pc = "idle" <=> thread[j].pc = "idle"
  /\ thread'[Main].pc = "start" <=> thread[Main].pc = "start"
  /\ thread'[Main].pc \in {"nextJob", "submit"} =>
       thread[Main].pc \in {"nextJob", "submit"} \/ slots < MaxConcurrentJobs

\* Such a step keeps the accounting.
LEMMA QuietStep ==
  ASSUME SlotAccounting, PollGate, Quiet
  PROVE  SlotAccounting' /\ PollGate'
<1>1. SlotHolders' = SlotHolders
  BY DEF Quiet, SlotHolders, HoldsSlot
<1>2. SlotAccounting'
  BY <1>1 DEF Quiet, SlotAccounting
<1>3. PollGate'
  BY DEF Quiet, PollGate
<1>4. QED
  BY <1>2, <1>3

\* Goroutines that may hold a slot are finitely many.
LEMMA SlotHoldersFinite == IsFiniteSet(SlotHolders)
<1>1. IsFiniteSet(Threads)
  BY ExecutorAssumption, FS_AddElement DEF Threads
<1>2. QED
  BY <1>1, FS_Subset DEF SlotHolders

\* A report step takes and frees no slot.
LEMMA ReportQuiet ==
  ASSUME NoCounts, NEW t \in Threads, ReportStep(t)
  PROVE  Quiet
<1> USE Membership
<1>1. slots' = slots /\ thread[t].pc \in ReportPCs
  BY DEF ReportStep, Report, SpoolReport, SpoolRefuses, ReportPCs
<1>2. CASE RecordLast(t)
  <2>1. /\ thread'[t].pc = IF t = Main THEN "select" ELSE "release"
        /\ \A u \in Threads : u # t => thread'[u] = thread[u]
    BY <1>1, <1>2, RecordLastType DEF NoCounts
  <2>2. QED
    BY <1>1, <2>1 DEF Quiet, ReportPCs
<1>3. CASE Goto(t, "spool")
  <2>1. thread'[t].pc = "spool" /\ \A u \in Threads : u # t => thread'[u] = thread[u]
    BY <1>3 DEF NoCounts, Typed, Goto, ThreadState
  <2>2. QED
    BY <1>1, <2>1 DEF Quiet, ReportPCs
<1>4. QED
  BY <1>2, <1>3 DEF ReportStep, Report, SpoolReport, SpoolRefuses

\* An execution keeps its slot until it leaves.
LEMMA WorkerQuiet ==
  ASSUME NoCounts, NEW j \in Jobs, WorkerStep(j), ~Leave(j)
  PROVE  Quiet
<1> USE Membership DEF NoCounts
<1>1. slots' = slots /\ thread[j].pc # "idle"
  BY DEF WorkerStep, OwnStep, ModuleReturns,
     Begin, Acquire, AcquireFails, CheckCancelled, Execute, ModuleSucceeds,
     ModuleFails, ClassifyCancelled, ClassifyContext, Release
<1>2. CASE \E p \in WorkerPCs \ {"idle"} : Goto(j, p)
  BY <1>1, <1>2 DEF Typed, Quiet, Goto
<1>3. CASE \E code : Conclude(j, code)
  BY <1>1, <1>3 DEF Typed, Quiet, Conclude
<1>4. QED
  BY <1>2, <1>3 DEF WorkerStep, OwnStep, ModuleReturns,
     Begin, Acquire, AcquireFails, CheckCancelled, Execute,
     ModuleSucceeds, ModuleFails, ClassifyCancelled, ClassifyContext, Release, WorkerPCs

\* Main takes a slot in Submit, passes it on or gives it back after StartJob,
\* and otherwise leaves the channel alone.
LEMMA MainQuiet ==
  ASSUME NoCounts, PollGate, MainStep, ~Submit, ~StartAcknowledged, ~StartFailed
  PROVE  Quiet
<1> USE Membership DEF NoCounts
<1>1. CASE Poll
  BY <1>1 DEF Typed, Quiet, Poll, MayPoll, Goto
<1>2. CASE \E j \in Jobs : NextJob(j)
  BY <1>2 DEF Typed, Quiet, NextJob
<1>3. CASE NextJobNone
  BY <1>3 DEF Typed, Quiet, NextJobNone, Goto
<1>4. CASE NextJobTerminal
  BY <1>4 DEF Typed, Quiet, NextJobTerminal, Halt, Goto
<1>5. CASE Heartbeat
  BY <1>5 DEF Typed, Quiet, Heartbeat, Goto
<1>6. CASE HeartbeatTerminal
  BY <1>6 DEF Typed, Quiet, HeartbeatTerminal, Halt, Goto
<1>7. CASE FlushSend
  BY <1>7 DEF Quiet, FlushSend
<1>8. CASE FlushAged
  BY <1>8 DEF Quiet, FlushAged
<1>9. CASE FlushStops
  BY <1>9 DEF Typed, Quiet, FlushStops, Goto
<1>10. CASE FlushDone
  BY <1>10 DEF Typed, Quiet, FlushDone, Goto
<1>11. CASE LoopEnds
  BY <1>11 DEF Typed, Quiet, LoopEnds, Goto
<1>12. CASE Exit
  BY <1>12 DEF Typed, Quiet, Exit, Goto
<1>13. QED
  BY <1>1, <1>2, <1>3, <1>4, <1>5, <1>6, <1>7, <1>8, <1>9, <1>10, <1>11, <1>12 DEF MainStep

\* Submit takes a free slot for main; the gate says there is one.
LEMMA SubmitSlots ==
  ASSUME NoCounts, SlotAccounting, PollGate, Submit
  PROVE  SlotAccounting' /\ PollGate'
<1> USE Membership DEF NoCounts
<1>1. thread[Main].job \in Jobs /\ slots < MaxConcurrentJobs /\ slots \in Int /\ MaxConcurrentJobs \in Nat
  BY ExecutorAssumption DEF Typed, Bound, Submit, PollGate
<1>2. CASE SubmitCode(thread[Main].job) = None
  <2>1. Goto(Main, "start") /\ slots' = slots + 1
    BY <1>2 DEF Submit
  <2>2. Main \notin SlotHolders /\ SlotHolders' = SlotHolders \cup {Main}
        /\ thread'[Main].pc = "start"
    BY <2>1 DEF Typed, SlotHolders, HoldsSlot, Goto, Submit, Threads
  <2>3. Cardinality(SlotHolders') = Cardinality(SlotHolders) + 1
    BY <2>2, SlotHoldersFinite, FS_AddElement
  <2>4. QED
    BY <1>1, <2>1, <2>2, <2>3 DEF SlotAccounting, PollGate
<1>3. CASE SubmitCode(thread[Main].job) # None
  <2>1. Conclude(Main, SubmitCode(thread[Main].job)) /\ slots' = slots /\ thread[Main].pc = "submit"
    BY <1>3 DEF Submit
  <2>2. Quiet
    BY <2>1 DEF Typed, Quiet, Conclude
  <2>3. QED
    BY <2>2, QuietStep
<1>4. QED
  BY <1>2, <1>3

\* StartJob acknowledged: the slot of main becomes the slot of the execution.
LEMMA StartAcknowledgedSlots ==
  ASSUME NoCounts, SlotAccounting, StartAcknowledged
  PROVE  SlotAccounting' /\ PollGate'
<1> DEFINE j == thread[Main].job
           mid == [thread EXCEPT ![Main] = Idle("select")]
           started == [pc |-> "begin", job |-> j, code |-> None]
           rest == SlotHolders \ {Main}
<1> USE Membership DEF NoCounts
<1>1. j \in Jobs /\ thread[j].pc = "idle" /\ thread[Main].pc = "start" /\ slots' = slots
  BY DEF Bound, OneExecutionPerJob, StartAcknowledged
<1>2. thread' = [mid EXCEPT ![j] = started]
  BY DEF StartAcknowledged
<1>3. Idle("select").pc = "select" /\ started.pc = "begin"
  BY DEF Idle
<1>4. thread'[Main].pc = "select" /\ thread'[j].pc = "begin"
      /\ \A i \in Jobs : i # j => thread'[i] = thread[i]
  <2> HIDE DEF started, j
  <2>1. mid \in [Threads -> {mid[u] : u \in Threads}] /\ mid[Main] = Idle("select")
        /\ \A i \in Jobs : mid[i] = thread[i]
    BY DEF Typed
  <2> HIDE DEF mid
  <2>2. QED
    BY <1>1, <1>2, <1>3, <2>1
<1>5. Main \in SlotHolders /\ j \notin rest /\ SlotHolders' = rest \cup {j}
  <2> HIDE DEF j
  <2>1. QED
    BY <1>1, <1>4 DEF SlotHolders, HoldsSlot, Threads
<1> HIDE DEF j, rest
<1>6. IsFiniteSet(rest) /\ Cardinality(rest) = Cardinality(SlotHolders) - 1
  BY <1>5, SlotHoldersFinite, FS_RemoveElement DEF rest
<1>7. Cardinality(rest \cup {j}) = Cardinality(rest) + 1
  BY <1>5, <1>6, FS_AddElement
<1>8. Cardinality(SlotHolders') = Cardinality(SlotHolders)
  BY <1>5, <1>6, <1>7, SlotHoldersFinite, FS_CardinalityType
<1>9. QED
  BY <1>1, <1>4, <1>8 DEF SlotAccounting, PollGate

\* A goroutine that gives its slot back takes one element from the channel.
LEMMA SlotFreed ==
  ASSUME SlotAccounting, NEW t \in SlotHolders, SlotHolders' = SlotHolders \ {t},
         slots \in Int, slots' = slots - 1,
         PollGate, thread'[Main].pc \in {"nextJob", "submit"} => thread[Main].pc \in {"nextJob", "submit"}
  PROVE  SlotAccounting' /\ PollGate'
<1>1. Cardinality(SlotHolders') = Cardinality(SlotHolders) - 1
  BY SlotHoldersFinite, FS_RemoveElement
<1>2. MaxConcurrentJobs \in Nat
  BY ExecutorAssumption
<1>3. QED
  BY <1>1, <1>2 DEF SlotAccounting, PollGate

\* Every step keeps the slots channel in step with its holders, and the gate.
LEMMA SlotsStep ==
  ASSUME NoCounts, SlotAccounting, PollGate, [Next]_vars
  PROVE  SlotAccounting' /\ PollGate'
<1> USE Membership
<1>1. CASE MainStep
  <2>1. CASE StartFailed
    <3>1. Conclude(Main, "INTERNAL_ERROR") /\ slots' = slots - 1 /\ thread[Main].pc = "start"
      BY <2>1 DEF StartFailed, SlotReturned
    <3>2. /\ Main \in SlotHolders /\ SlotHolders' = SlotHolders \ {Main}
          /\ thread'[Main].pc = "report" /\ slots \in Int
      BY <3>1 DEF NoCounts, Typed, Conclude, SlotHolders, HoldsSlot, Threads
    <3>3. QED
      BY <3>1, <3>2, SlotFreed
  <2>2. QED
    BY <1>1, <2>1, MainQuiet, QuietStep, SubmitSlots, StartAcknowledgedSlots
<1>2. CASE \E t \in Threads : ReportStep(t)
  BY <1>2, ReportQuiet, QuietStep
<1>3. ASSUME NEW j \in Jobs, WorkerStep(j) PROVE SlotAccounting' /\ PollGate'
  <2>1. CASE Leave(j)
    <3>1. thread' = [thread EXCEPT ![j] = Idle("idle")] /\ slots' = slots - 1 /\ thread[j].pc = "leave"
      BY <2>1 DEF Leave
    <3>2. Idle("idle").pc = "idle"
      BY DEF Idle
    <3>3. /\ j \in SlotHolders /\ SlotHolders' = SlotHolders \ {j}
          /\ thread'[Main] = thread[Main] /\ slots \in Int
      BY <3>1, <3>2 DEF NoCounts, Typed, SlotHolders, HoldsSlot, Threads
    <3>4. QED
      BY <3>1, <3>3, SlotFreed
  <2>2. QED
    BY <1>3, <2>1, WorkerQuiet, QuietStep
<1>4. ASSUME NEW j \in Jobs, MonitorStep(j) PROVE SlotAccounting' /\ PollGate'
  <2>1. UNCHANGED <<thread, slots>>
    BY <1>4 DEF MonitorStep, MonitorObserves, MonitorCancels, MonitorEnds, Deadline
  <2>2. QED
    BY <2>1, QuietStep DEF Quiet
<1>5. CASE Environment
  <2>1. CASE Restart
    <3>1. slots' = 0 /\ thread'[Main].pc = "select" /\ \A j \in Jobs : thread'[j].pc = "idle"
      BY <2>1 DEF Restart, Idle
    <3>2. SlotHolders' = {}
      BY <3>1 DEF SlotHolders, HoldsSlot, Threads
    <3>3. QED
      BY <3>1, <3>2, FS_EmptySet, ExecutorAssumption DEF SlotAccounting, PollGate
  <2>2. CASE UNCHANGED <<thread, slots>>
    BY <2>2, QuietStep DEF Quiet
  <2>3. QED
    BY <1>5, <2>1, <2>2 DEF Environment, Signal, Revoke, Exited, vars, CancelJob, Expire
<1>6. CASE UNCHANGED vars
  BY <1>6, QuietStep DEF Quiet, vars
<1>7. QED
  BY <1>1, <1>2, <1>3, <1>4, <1>5, <1>6 DEF Next

-----------------------------------------------------------------------------
(* The module semaphores.                                                   *)

\* The executions that hold a module's semaphore are finitely many.
LEMMA HoldersFinite ==
  ASSUME holds \subseteq Jobs, NEW m \in Modules
  PROVE  IsFiniteSet(HoldersOf(m)) /\ Cardinality(HoldersOf(m)) \in Nat
<1>1. IsFiniteSet(HoldersOf(m))
  BY ExecutorAssumption, FS_Subset DEF HoldersOf
<1>2. QED
  BY <1>1, FS_CardinalityType

\* Acquire counts one more holder, in its module only.
LEMMA AcquireSemaphore ==
  ASSUME NoCounts, SemaphoreCounts, NEW j \in Jobs, Acquire(j)
  PROVE  SemaphoreCounts'
<1> DEFINE n == ModuleOf[j]
<1>1. /\ n \in Modules /\ j \notin holds /\ holds' = holds \cup {j} /\ holds \subseteq Jobs
      /\ sem \in [Modules -> Int] /\ sem' = [sem EXCEPT ![n] = @ + 1]
      /\ sem[n] < ConcurrencyLimit[n] /\ ConcurrencyLimit[n] \in Nat
  BY ExecutorAssumption DEF NoCounts, Typed, HoldsByPC, Acquire
<1>2. SUFFICES ASSUME NEW m \in Modules
               PROVE  sem'[m] = Cardinality(HoldersOf(m)') /\ sem'[m] <= ConcurrencyLimit[m]
  BY DEF SemaphoreCounts
<1>3. CASE m = n
  <2>1. HoldersOf(m)' = HoldersOf(m) \cup {j} /\ j \notin HoldersOf(m)
    BY <1>1, <1>3 DEF HoldersOf
  <2>2. Cardinality(HoldersOf(m)') = Cardinality(HoldersOf(m)) + 1
    BY <1>1, <2>1, HoldersFinite, FS_AddElement
  <2>3. QED
    BY <1>1, <1>3, <2>2 DEF SemaphoreCounts
<1>4. CASE m # n
  <2>1. HoldersOf(m)' = HoldersOf(m)
    BY <1>1, <1>4 DEF HoldersOf
  <2>2. QED
    BY <1>1, <1>4, <2>1 DEF SemaphoreCounts
<1>5. QED
  BY <1>3, <1>4

\* The deferred release gives back exactly what Acquire took, and nothing on the
\* paths where Acquire had failed or was not reached.
LEMMA ReleaseSemaphore ==
  ASSUME NoCounts, SemaphoreCounts, NEW j \in Jobs, Release(j)
  PROVE  SemaphoreCounts'
<1> DEFINE n == ModuleOf[j]
<1>1. /\ n \in Modules /\ holds' = holds \ {j} /\ holds \subseteq Jobs
      /\ sem \in [Modules -> Int] /\ sem' = Released(j)
      /\ ConcurrencyLimit \in [Modules -> Nat \ {0}]
  BY ExecutorAssumption DEF NoCounts, Typed, Release
<1>2. CASE j \notin holds
  <2>1. holds' = holds /\ sem' = sem
    BY <1>1, <1>2 DEF Released
  <2>2. QED
    BY <2>1 DEF SemaphoreCounts, HoldersOf
<1>3. CASE j \in holds
  <2>1. sem' = [sem EXCEPT ![n] = @ - 1]
    BY <1>1, <1>3 DEF Released
  <2>2. SUFFICES ASSUME NEW m \in Modules
                 PROVE  sem'[m] = Cardinality(HoldersOf(m)') /\ sem'[m] <= ConcurrencyLimit[m]
    BY DEF SemaphoreCounts
  <2>3. CASE m = n
    <3>1. HoldersOf(m)' = HoldersOf(m) \ {j} /\ j \in HoldersOf(m)
      BY <1>1, <1>3, <2>3 DEF HoldersOf
    <3>2. Cardinality(HoldersOf(m)') = Cardinality(HoldersOf(m)) - 1
      BY <1>1, <3>1, HoldersFinite, FS_RemoveElement
    <3>3. QED
      BY <1>1, <2>1, <2>3, <3>2 DEF SemaphoreCounts
  <2>4. CASE m # n
    <3>1. HoldersOf(m)' = HoldersOf(m)
      BY <1>1, <2>4 DEF HoldersOf
    <3>2. QED
      BY <1>1, <2>1, <2>4, <3>1 DEF SemaphoreCounts
  <2>5. QED
    BY <2>3, <2>4
<1>4. QED
  BY <1>2, <1>3

\* Every step keeps the semaphores in step with their holders.
LEMMA SemaphoresStep ==
  ASSUME NoCounts, SemaphoreCounts, [Next]_vars
  PROVE  SemaphoreCounts'
<1>1. CASE UNCHANGED <<sem, holds>>
  BY <1>1 DEF SemaphoreCounts, HoldersOf
<1>2. CASE Restart
  <2>1. sem' = [m \in Modules |-> 0] /\ holds' = {}
    BY <1>2 DEF Restart
  <2>2. \A m \in Modules : HoldersOf(m)' = {}
    BY <2>1 DEF HoldersOf
  <2>3. Cardinality({}) = 0 /\ \A m \in Modules : 0 <= ConcurrencyLimit[m]
    BY FS_EmptySet, ExecutorAssumption
  <2>4. QED
    BY <2>1, <2>2, <2>3 DEF SemaphoreCounts
<1>3. CASE MainStep
  BY <1>1, <1>3 DEF MainStep, Poll, NextJob, NextJobNone, NextJobTerminal, Submit,
     StartAcknowledged, StartFailed, Heartbeat, HeartbeatTerminal, FlushSend, FlushAged,
     FlushStops, FlushDone, LoopEnds, Exit
<1>4. CASE \E t \in Threads : ReportStep(t)
  BY <1>1, <1>4 DEF ReportStep, Report, SpoolReport, SpoolRefuses
<1>5. CASE \E j \in Jobs : WorkerStep(j)
  BY <1>1, <1>5, AcquireSemaphore, ReleaseSemaphore DEF WorkerStep, OwnStep, ModuleReturns,
     Begin, AcquireFails,
     CheckCancelled, Execute, ModuleSucceeds, ModuleFails, ClassifyCancelled,
     ClassifyContext, Leave
<1>6. CASE \E j \in Jobs : MonitorStep(j)
  BY <1>1, <1>6 DEF MonitorStep, MonitorObserves, MonitorCancels, MonitorEnds, Deadline
<1>7. CASE Environment
  BY <1>1, <1>2, <1>7 DEF Environment, Signal, Revoke, Exited, vars, CancelJob, Expire
<1>8. CASE UNCHANGED vars
  BY <1>1, <1>8 DEF vars
<1>9. QED
  BY <1>3, <1>4, <1>5, <1>6, <1>7, <1>8 DEF Next

-----------------------------------------------------------------------------
(* The inductive invariant and what follows from it.                        *)

\* The agent starts in the inductive invariant.
LEMMA InitInv == Init => IndInv
<1> SUFFICES ASSUME Init PROVE IndInv
  OBVIOUS
<1> USE ExecutorAssumption, Membership
<1>1. thread \in [Threads -> ThreadState]
  BY IdleType DEF Init, MainPCs, WorkerPCs
<1>2. thread[Main].pc = "select" /\ \A j \in Jobs : thread[j].pc = "idle"
  BY DEF Init, Idle
<1>3. cp \in [Jobs -> JobStates] /\ reports \in [Jobs -> SUBSET {"result", "failure", "refusal"}]
      /\ executed \in [Jobs -> Nat]
  BY DEF Init, JobStates
<1>4. /\ sem \in [Modules -> Int]
      /\ ctx \in [Jobs -> {"off", "live", "canceled", "deadline"}]
      /\ monitor \in [Jobs -> {"off", "on", "cancelling"}]
  BY DEF Init
<1>5. /\ revoked \in BOOLEAN /\ stopping \in BOOLEAN /\ slots = 0 /\ holds = {} /\ spool = <<>>
      /\ expired = {} /\ cancelled = {} /\ seen = {} /\ lastResult = None /\ lost = {}
      /\ restarts = 0
  BY DEF Init
<1>6. Typed
  BY <1>1, <1>2, <1>3, <1>4, <1>5 DEF Typed, MainPCs, WorkerPCs
<1>7. Bound /\ NonceSpent /\ HoldsByPC /\ OneExecutionPerJob /\ PollGate
  BY <1>2, <1>5 DEF Bound, NonceSpent, HoldsByPC, OneExecutionPerJob, PollGate, ReportPCs, Threads
<1>8. SlotAccounting
  <2>1. SlotHolders = {}
    BY <1>2 DEF SlotHolders, HoldsSlot, Threads
  <2>2. QED
    BY <1>5, <2>1, FS_EmptySet DEF SlotAccounting
<1>9. SemaphoreCounts
  <2>1. sem = [m \in Modules |-> 0] /\ \A m \in Modules : HoldersOf(m) = {}
    BY <1>5 DEF Init, HoldersOf
  <2>2. Cardinality({}) = 0 /\ \A m \in Modules : 0 <= ConcurrencyLimit[m]
    BY FS_EmptySet
  <2>3. QED
    BY <2>1, <2>2 DEF SemaphoreCounts
<1>10. QED
  BY <1>6, <1>7, <1>8, <1>9 DEF IndInv

\* Every step of the agent, the Control Plane or the environment keeps it.
LEMMA NextInv == IndInv /\ [Next]_vars => IndInv'
<1> SUFFICES ASSUME IndInv, [Next]_vars PROVE IndInv'
  OBVIOUS
<1>1. NoCounts
  BY DEF IndInv, NoCounts
<1>2. NoCounts'
  <2>1. CASE UNCHANGED vars
    BY <1>1, <2>1 DEF vars, NoCounts, Typed, Bound, NonceSpent, Spent, HoldsByPC, OneExecutionPerJob
  <2>2. CASE Next
    BY <1>1, <2>2, MainNoCounts, ReportNoCounts, WorkerNoCounts, MonitorNoCounts,
       EnvironmentNoCounts DEF Next
  <2>3. QED
    BY <2>1, <2>2
<1>3. SlotAccounting' /\ PollGate'
  BY <1>1, SlotsStep DEF IndInv
<1>4. SemaphoreCounts'
  BY <1>1, SemaphoresStep DEF IndInv
<1>5. QED
  BY <1>2, <1>3, <1>4 DEF IndInv, NoCounts

\* The inductive invariant is an invariant of the agent.
THEOREM Invariance == Spec => []IndInv
BY InitInv, NextInv, PTL DEF Spec

\* What the inductive invariant says of the counts: they are natural numbers.
LEMMA InvTypeOK == IndInv => TypeOK
<1> SUFFICES ASSUME IndInv PROVE TypeOK
  OBVIOUS
<1>1. slots \in Nat
  BY SlotHoldersFinite, FS_CardinalityType DEF IndInv, SlotAccounting
<1>2. sem \in [Modules -> Nat]
  <2>1. \A m \in Modules : sem[m] \in Nat
    BY HoldersFinite DEF IndInv, Typed, SemaphoreCounts
  <2>2. QED
    BY <2>1 DEF IndInv, Typed
<1>3. QED
  BY <1>1, <1>2 DEF IndInv, TypeOK

\* Every variable keeps its type; no count ever goes negative, on any of the
\* early returns of Submit and execute.
THEOREM TypeCorrect == Spec => []TypeOK
BY Invariance, InvTypeOK, PTL

\* Slots are neither leaked nor freed twice, for every number of jobs and slots.
THEOREM SlotsAccounted == Spec => []SlotAccounting
<1>1. IndInv => SlotAccounting
  BY DEF IndInv
<1>2. QED
  BY <1>1, Invariance, PTL

\* The slot count that the poll timer compared is still good when Submit
\* reserves the slot.
THEOREM PollGateHolds == Spec => []PollGate
<1>1. IndInv => PollGate
  BY DEF IndInv
<1>2. QED
  BY <1>1, Invariance, PTL

\* A job offered again while it runs in this process is not started again,
\* although nonces of expired envelopes are forgotten.
THEOREM NoDoubleExecution == Spec => []OneExecutionPerJob
<1>1. IndInv => OneExecutionPerJob
  BY DEF IndInv
<1>2. QED
  BY <1>1, Invariance, PTL

\* Module semaphores count their holders, never exceed the module's limit, and
\* guard every execution of the module.
THEOREM ModulesAccounted == Spec => []ModuleAccounting
<1>1. IndInv => ModuleAccounting
  BY DEF IndInv, ModuleAccounting, HoldsByPC
<1>2. QED
  BY <1>1, Invariance, PTL

-----------------------------------------------------------------------------
(* At most one execution of a job, across restarts.                         *)

\* No call takes a job back to where it could be started.
LEMMA CallForward ==
  ASSUME cp \in [Jobs -> JobStates], NEW j \in Jobs, NEW n, NEW accepts, NEW ok,
         Call(j, n, accepts, ok), n \in Unstarted => cp[j] \in Unstarted
  PROVE  \A i \in Jobs : cp'[i] \in Unstarted => cp[i] \in Unstarted
BY DEF Call

\* Nor does a report.
LEMMA SendReportForward ==
  ASSUME cp \in [Jobs -> JobStates], NEW j \in Jobs, NEW code, NEW ok, SendReport(j, code, ok)
  PROVE  \A i \in Jobs : cp'[i] \in Unstarted => cp[i] \in Unstarted
<1>1. AfterReport(cp[j], code) \in Unstarted => cp[j] \in Unstarted
  BY DEF AfterReport, Unstarted
<1>2. QED
  BY <1>1, CallForward DEF SendReport

\* A step that starts and executes nothing keeps the invariant.
LEMMA StartsNothing ==
  ASSUME StartedOnce, executed' = executed,
         \A j \in Jobs : cp'[j] \in Unstarted => cp[j] \in Unstarted,
         \A j \in Jobs : thread[j].pc = "idle" => thread'[j].pc = "idle",
         \A j \in Jobs : thread'[j].pc \in Early => thread[j].pc \in Early
  PROVE  StartedOnce'
BY DEF StartedOnce

\* Steps of the main goroutine.
LEMMA MainStartedOnce ==
  ASSUME NoCounts, StartedOnce, MainStep
  PROVE  StartedOnce'
<1> USE Membership DEF NoCounts
<1>1. CASE StartAcknowledged
  <2> DEFINE j == thread[Main].job
             mid == [thread EXCEPT ![Main] = Idle("select")]
             started == [pc |-> "begin", job |-> j, code |-> None]
  <2>1. /\ j \in Jobs /\ executed' = executed
        /\ cp[j] = "ASSIGNED" /\ cp' = [cp EXCEPT ![j] = "RUNNING"]
    BY <1>1 DEF Bound, StartAcknowledged, Call, StartAccepts, historyVars
  <2>2. thread' = [mid EXCEPT ![j] = started]
    BY <1>1 DEF StartAcknowledged
  <2> HIDE DEF j, started
  <2>3. mid \in [Threads -> {mid[u] : u \in Threads}] /\ \A i \in Jobs : mid[i] = thread[i]
    BY DEF Typed
  <2> HIDE DEF mid
  <2>4. \A i \in Jobs : i # j => thread'[i] = thread[i]
    BY <2>1, <2>2, <2>3
  <2>5. executed[j] = 0
    BY <2>1 DEF StartedOnce, Unstarted
  <2>6. cp'[j] = "RUNNING" /\ \A i \in Jobs : i # j => cp'[i] = cp[i]
    BY <2>1 DEF Typed
  <2>7. QED
    BY <2>1, <2>4, <2>5, <2>6 DEF StartedOnce, Unstarted
<1>2. CASE ~StartAcknowledged
  <2>1. executed' = executed
    BY <1>2 DEF MainStep, Poll, NextJob, NextJobNone, NextJobTerminal, Submit, StartFailed,
       Heartbeat, HeartbeatTerminal, FlushSend, FlushAged, FlushStops, FlushDone, LoopEnds,
       Exit, historyVars
  <2>2. \A j \in Jobs : thread'[j] = thread[j]
    <3>1. CASE \E p : Goto(Main, p)
      BY <3>1 DEF Typed, Goto
    <3>2. CASE \E code : Conclude(Main, code)
      BY <3>2 DEF Typed, Conclude
    <3>3. CASE \E j \in Jobs : NextJob(j)
      BY <3>3 DEF Typed, NextJob
    <3>4. CASE UNCHANGED thread
      BY <3>4
    <3>5. QED
      BY <1>2, <3>1, <3>2, <3>3, <3>4 DEF MainStep, Poll, NextJobNone, NextJobTerminal, Halt,
         Submit, StartFailed, Heartbeat, HeartbeatTerminal, FlushSend, FlushAged, FlushStops,
         FlushDone, LoopEnds, Exit
  <2>3. \A j \in Jobs : cp'[j] \in Unstarted => cp[j] \in Unstarted
    <3>1. CASE UNCHANGED cp
      BY <3>1
    <3>2. CASE \E j \in Jobs : NextJob(j)
      BY <3>2 DEF Typed, NextJob, Unstarted
    <3>3. CASE NextJobNone
      BY <3>3 DEF Typed, NextJobNone, Unstarted
    <3>4. CASE StartFailed
      <4>1. thread[Main].job \in Jobs
        BY <3>4 DEF Bound, StartFailed
      <4>2. (IF StartAccepts(cp[thread[Main].job]) THEN "RUNNING" ELSE cp[thread[Main].job])
              \in Unstarted => cp[thread[Main].job] \in Unstarted
        BY DEF Unstarted
      <4>3. QED
        BY <3>4, <4>1, <4>2, CallForward DEF Typed, StartFailed
    <3>5. CASE FlushSend \/ FlushStops
      BY <3>5, SpoolHead, SendReportForward DEF Typed, FlushSend, FlushStops
    <3>6. QED
      BY <1>2, <3>1, <3>2, <3>3, <3>4, <3>5 DEF MainStep, Poll, NextJobTerminal, Submit,
         Heartbeat, HeartbeatTerminal, FlushAged, FlushDone, LoopEnds, Exit, cpVars
  <2>4. QED
    BY <2>1, <2>2, <2>3, StartsNothing
<1>3. QED
  BY <1>1, <1>2

\* Steps of reject, of the delivery of a result and of recordLast.
LEMMA ReportStartedOnce ==
  ASSUME NoCounts, StartedOnce, NEW t \in Threads, ReportStep(t)
  PROVE  StartedOnce'
<1> USE Membership DEF NoCounts
<1>1. executed' = executed /\ thread[t].pc \in ReportPCs
  BY DEF ReportStep, Report, SpoolReport, SpoolRefuses, ReportPCs, historyVars
<1>2. \A j \in Jobs : cp'[j] \in Unstarted => cp[j] \in Unstarted
  <2>1. thread[t].job \in Jobs
    BY <1>1 DEF Bound, Threads, ReportPCs
  <2>2. QED
    BY <2>1, SendReportForward DEF Typed, ReportStep, Report, SpoolReport, SpoolRefuses, cpVars
<1>3. /\ thread'[t].pc \in {"select", "release", "spool"}
      /\ \A u \in Threads : u # t => thread'[u] = thread[u]
  <2>1. CASE RecordLast(t)
    BY <1>1, <2>1, RecordLastType
  <2>2. CASE Goto(t, "spool")
    BY <2>2 DEF Typed, Goto, ThreadState
  <2>3. QED
    BY <2>1, <2>2 DEF ReportStep, Report, SpoolReport, SpoolRefuses
<1>4. QED
  BY <1>1, <1>2, <1>3, StartsNothing DEF ReportPCs, Early

\* Steps of execute: the module is entered from the last of the early steps.
LEMMA WorkerStartedOnce ==
  ASSUME NoCounts, StartedOnce, NEW j \in Jobs, WorkerStep(j)
  PROVE  StartedOnce'
<1> USE Membership DEF NoCounts
<1>1. UNCHANGED cp
  BY DEF WorkerStep, OwnStep, ModuleReturns,
     Begin, Acquire, AcquireFails, CheckCancelled, Execute, ModuleSucceeds,
     ModuleFails, ClassifyCancelled, ClassifyContext, Release, Leave, cpVars
<1>2. CASE Execute(j)
  <2>1. /\ executed[j] = 0 /\ executed' = [executed EXCEPT ![j] = @ + 1]
        /\ executed \in [Jobs -> Nat]
        /\ thread' = [thread EXCEPT ![j].pc = "execute"] /\ thread[j].pc = "check"
    BY <1>2 DEF Typed, StartedOnce, Execute, Goto, Early
  <2>2. executed'[j] = 1 /\ \A i \in Jobs : i # j => executed'[i] = executed[i]
    BY <2>1
  <2>3. thread'[j].pc = "execute" /\ \A i \in Jobs : i # j => thread'[i] = thread[i]
    BY <2>1 DEF Typed, ThreadState
  <2>4. cp[j] \notin Unstarted
    BY <2>1 DEF StartedOnce
  <2>5. QED
    BY <1>1, <2>2, <2>3, <2>4 DEF StartedOnce, Early
<1>3. CASE ~Execute(j)
  <2>1. executed' = executed /\ thread[j].pc # "idle"
    BY <1>3 DEF WorkerStep, OwnStep, ModuleReturns,
       Begin, Acquire, AcquireFails, CheckCancelled, ModuleSucceeds,
       ModuleFails, ClassifyCancelled, ClassifyContext, Release, Leave, historyVars
  <2>2. /\ thread'[j].pc \in Early => thread[j].pc \in Early
        /\ \A i \in Jobs : i # j => thread'[i] = thread[i]
    <3>1. CASE Goto(j, "acquire") /\ thread[j].pc = "begin"
      BY <3>1 DEF Typed, Goto, Early
    <3>2. CASE Goto(j, "check") /\ thread[j].pc = "acquire"
      BY <3>2 DEF Typed, Goto, Early
    <3>3. CASE \E p \in {"failed", "classify", "leave"} : Goto(j, p)
      BY <3>3 DEF Typed, Goto, ThreadState, Early
    <3>4. CASE \E code : Conclude(j, code)
      BY <3>4 DEF Typed, Conclude, Early
    <3>5. CASE thread' = [thread EXCEPT ![j] = Idle("idle")]
      BY <3>5 DEF Typed, Idle, Early
    <3>6. QED
      BY <1>3, <3>1, <3>2, <3>3, <3>4, <3>5 DEF WorkerStep, OwnStep, ModuleReturns,
         Begin, Acquire, AcquireFails,
         CheckCancelled, ModuleSucceeds, ModuleFails, ClassifyCancelled, ClassifyContext,
         Release, Leave
  <2>3. QED
    BY <1>1, <2>1, <2>2, StartsNothing
<1>4. QED
  BY <1>2, <1>3

\* Every step keeps the invariant.
LEMMA StartedOnceStep == IndInv /\ StartedOnce /\ [Next]_vars => StartedOnce'
<1> SUFFICES ASSUME IndInv, StartedOnce, [Next]_vars PROVE StartedOnce'
  OBVIOUS
<1>1. NoCounts
  BY DEF IndInv, NoCounts
<1>2. CASE UNCHANGED <<cp, thread, executed>>
  BY <1>2 DEF StartedOnce
<1>3. ASSUME NEW j \in Jobs, MonitorStep(j) PROVE StartedOnce'
  BY <1>2, <1>3 DEF MonitorStep, MonitorObserves, MonitorCancels, MonitorEnds, Deadline, cpVars,
     historyVars
<1>4. CASE Environment
  <2>1. CASE Restart
    <3>1. UNCHANGED <<cp, executed>> /\ \A j \in Jobs : thread'[j].pc = "idle"
      BY <2>1, Membership DEF Restart, Idle, cpVars
    <3>2. QED
      BY <3>1, StartsNothing DEF Early
  <2>2. CASE \E j \in Jobs : CancelJob(j)
    <3>1. UNCHANGED <<thread, executed>>
      BY <2>2 DEF CancelJob, historyVars
    <3>2. \A j \in Jobs : cp'[j] \in Unstarted => cp[j] \in Unstarted
      BY <1>1, <2>2 DEF NoCounts, Typed, CancelJob, Unstarted
    <3>3. QED
      BY <3>1, <3>2, StartsNothing
  <2>3. QED
    BY <1>2, <1>4, <2>1, <2>2 DEF Environment, Signal, Revoke, Exited, vars, Expire, cpVars,
       historyVars
<1>5. QED
  BY <1>1, <1>2, <1>3, <1>4, MainStartedOnce, ReportStartedOnce, WorkerStartedOnce DEF Next, vars

\* A module is entered at most once for a job, for every number of restarts,
\* redeliveries and lost acknowledgements, and although a restart empties the
\* nonce cache: the acknowledged start is what counts.
THEOREM AtMostOneExecution == Spec => []ExecutedAtMostOnce
<1>1. Init => StartedOnce
  <2>1. ASSUME Init PROVE \A j \in Jobs : thread[j].pc = "idle" /\ executed[j] = 0
    BY <2>1, Membership DEF Init, Idle
  <2>2. QED
    BY <2>1 DEF StartedOnce, Early
<1>2. StartedOnce => ExecutedAtMostOnce
  BY DEF StartedOnce, ExecutedAtMostOnce
<1>3. QED
  BY <1>1, <1>2, StartedOnceStep, Invariance, PTL DEF Spec

=============================================================================
