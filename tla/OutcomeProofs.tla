---------------------------- MODULE OutcomeProofs ----------------------------
(***************************************************************************)
(* What becomes of a job: Executor implements JobLedger, what is reported  *)
(* is what happened and what a heartbeat shows, no job is forgotten, and   *)
(* its execution has one verdict.  For every finite set of jobs, every     *)
(* limit, every redelivery and every number of restarts.                   *)
(***************************************************************************)
EXTENDS ExecutorProofs

-----------------------------------------------------------------------------
(* Only a job whose module ran has a result to report.                      *)

\* The module of a job that ran has not run again.
LEMMA RanStays ==
  ASSUME NoCounts, StartedOnce, [Next]_vars
  PROVE  \A j \in Jobs : Ran(j) => Ran(j)'
<1> USE Membership DEF NoCounts
<1>1. CASE \E j \in Jobs : Execute(j)
  <2>1. PICK j \in Jobs : Execute(j)
    BY <1>1
  <2>2. executed[j] = 0 /\ executed' = [executed EXCEPT ![j] = @ + 1]
    BY <2>1 DEF StartedOnce, Execute, Early
  <2>3. QED
    BY <2>2 DEF Typed, Ran
<1>2. CASE UNCHANGED executed
  BY <1>2 DEF Ran
<1>3. QED
  <2>1. MainStep => UNCHANGED executed
    BY DEF MainStep, Poll, NextJob, NextJobNone, NextJobTerminal, Submit, StartAcknowledged,
       StartFailed, Heartbeat, HeartbeatTerminal, FlushSend, FlushAged, FlushStops, FlushDone,
       LoopEnds, Exit, historyVars
  <2>2. \A t \in Threads : ReportStep(t) => UNCHANGED executed
    BY DEF ReportStep, Report, SpoolReport, SpoolRefuses, historyVars
  <2>3. \A j \in Jobs : WorkerStep(j) => Execute(j) \/ UNCHANGED executed
    BY DEF WorkerStep, OwnStep, ModuleReturns,
       Begin, Acquire, AcquireFails, CheckCancelled, ModuleSucceeds,
       ModuleFails, ClassifyCancelled, ClassifyContext, Release, Leave, historyVars
  <2>4. \A j \in Jobs : MonitorStep(j) => UNCHANGED executed
    BY DEF MonitorStep, MonitorObserves, MonitorCancels, MonitorEnds, Deadline, historyVars
  <2>5. Environment => UNCHANGED executed
    BY DEF Environment, Signal, Restart, Revoke, Exited, CancelJob, Expire, historyVars, vars
  <2>6. QED
    BY <1>1, <1>2, <2>1, <2>2, <2>3, <2>4, <2>5 DEF Next, vars

\* What is spooled is the report of a job.
LEMMA SpoolElement ==
  ASSUME Typed, NEW k \in DOMAIN spool
  PROVE  spool[k] \in [job : Jobs, code : Codes]
<1>1. spool \in Seq([job : Jobs, code : Codes])
  BY DEF Typed
<1>2. k \in 1 .. Len(spool)
  BY <1>1, LenProperties
<1>3. QED
  BY <1>1, <1>2, ElementOfSeq

\* A step that makes no result, in a goroutine or in the spool, keeps the
\* invariant.
LEMMA MakesNoResult ==
  ASSUME NoCounts, StartedOnce, ResultsRan, [Next]_vars,
         \A j \in Jobs : thread'[j].pc = "execute" => thread[j].pc = "execute",
         \A t \in Threads :
           \/ thread'[t] = thread[t]
           \/ thread'[t].pc \notin ReportPCs
           \/ thread'[t].code # "SUCCEEDED"
           \/ /\ thread[t].pc \in ReportPCs
              /\ thread'[t].code = thread[t].code /\ thread'[t].job = thread[t].job,
         \A i \in DOMAIN spool' : \E k \in DOMAIN spool : spool'[i] = spool[k]
  PROVE  ResultsRan'
<1>1. \A j \in Jobs : Ran(j) => Ran(j)'
  BY RanStays
<1>2. \A j \in Jobs : thread'[j].pc = "execute" => Ran(j)'
  BY <1>1 DEF ResultsRan
<1>3. ASSUME NEW t \in Threads, thread'[t].pc \in ReportPCs, thread'[t].code = "SUCCEEDED"
      PROVE  Ran(thread[t].job)' /\ thread'[t].job = thread[t].job
  <2>1. /\ thread[t].pc \in ReportPCs /\ thread[t].code = "SUCCEEDED"
        /\ thread'[t].job = thread[t].job
    BY <1>3
  <2>2. thread[t].job \in Jobs
    BY <2>1, Membership DEF NoCounts, Bound, Threads, ReportPCs
  <2>3. QED
    BY <1>1, <2>1, <2>2 DEF ResultsRan
<1>4. ASSUME NEW i \in DOMAIN spool', spool'[i].code = "SUCCEEDED"
      PROVE  executed'[spool'[i].job] = 1
  <2>1. PICK k \in DOMAIN spool : spool'[i] = spool[k]
    OBVIOUS
  <2>2. spool[k].job \in Jobs
    BY SpoolElement DEF NoCounts
  <2>3. QED
    BY <1>1, <1>4, <2>1, <2>2 DEF ResultsRan, Ran
<1>5. QED
  BY <1>2, <1>3, <1>4 DEF ResultsRan, Ran

\* A flush only takes from the head of the spool.
LEMMA SpoolTail ==
  ASSUME Typed, spool # <<>>, NEW i \in DOMAIN Tail(spool)
  PROVE  \E k \in DOMAIN spool : Tail(spool)[i] = spool[k]
<1>1. spool \in Seq([job : Jobs, code : Codes])
  BY DEF Typed
<1>2. /\ Len(spool) \in Nat /\ DOMAIN spool = 1 .. Len(spool)
      /\ Len(Tail(spool)) = Len(spool) - 1 /\ DOMAIN Tail(spool) = 1 .. Len(spool) - 1
      /\ \A k \in 1 .. Len(spool) - 1 : Tail(spool)[k] = spool[k + 1]
  BY <1>1, LenProperties, HeadTailProperties
<1>3. QED
  BY <1>2

\* Steps of the main goroutine: it rejects with failure codes only.
LEMMA MainResults ==
  ASSUME NoCounts, StartedOnce, ResultsRan, MainStep
  PROVE  ResultsRan'
<1> USE Membership DEF NoCounts
<1>1. ASSUME NEW j \in Jobs PROVE thread'[j] = thread[j] \/ thread'[j].pc = "begin"
  <2>1. CASE \E p : Goto(Main, p)
    BY <2>1 DEF Typed, Goto
  <2>2. CASE \E code : Conclude(Main, code)
    BY <2>2 DEF Typed, Conclude
  <2>3. CASE \E i \in Jobs : NextJob(i)
    BY <2>3 DEF Typed, NextJob
  <2>4. CASE UNCHANGED thread
    BY <2>4
  <2>5. CASE StartAcknowledged
    <3> DEFINE mid == [thread EXCEPT ![Main] = Idle("select")]
               started == [pc |-> "begin", job |-> thread[Main].job, code |-> None]
    <3>1. thread' = [mid EXCEPT ![thread[Main].job] = started]
      BY <2>5 DEF StartAcknowledged
    <3>2. mid[j] = thread[j] /\ j \in DOMAIN mid /\ started.pc = "begin"
      BY DEF Typed
    <3> HIDE DEF mid, started
    <3>3. thread'[j] = IF j = thread[Main].job THEN started ELSE mid[j]
      BY <3>1, <3>2
    <3>4. QED
      BY <3>2, <3>3
  <2>6. QED
    BY <2>1, <2>2, <2>3, <2>4, <2>5 DEF MainStep, Poll, NextJobNone, NextJobTerminal, Halt,
       Submit, StartFailed, Heartbeat, HeartbeatTerminal, FlushSend, FlushAged, FlushStops,
       FlushDone, LoopEnds, Exit
<1>2. \/ thread'[Main] = thread[Main]
      \/ thread'[Main].pc \notin ReportPCs
      \/ thread'[Main].code # "SUCCEEDED"
  <2>1. CASE \E p \in MainPCs : Goto(Main, p)
    BY <2>1 DEF Typed, Goto, MainPCs, ReportPCs, ThreadState
  <2>2. CASE \E code \in FailureCodes : Conclude(Main, code)
    BY <2>2 DEF Typed, Conclude, FailureCodes
  <2>3. CASE \E i \in Jobs : NextJob(i)
    BY <2>3 DEF Typed, NextJob, ReportPCs
  <2>4. CASE UNCHANGED thread
    BY <2>4
  <2>5. CASE StartAcknowledged
    <3>1. thread[Main].job \in Jobs
      BY <2>5 DEF Bound, StartAcknowledged
    <3>2. thread'[Main] = Idle("select")
      BY <2>5, <3>1 DEF Typed, StartAcknowledged
    <3>3. QED
      BY <3>2 DEF Idle, ReportPCs
  <2>6. CASE Submit
    <3>1. thread[Main].job \in Jobs
      BY <2>6 DEF Bound, Submit
    <3>2. CASE Goto(Main, "start")
      BY <2>1, <3>2 DEF MainPCs
    <3>3. CASE SubmitCode(thread[Main].job) # None /\ Conclude(Main, SubmitCode(thread[Main].job))
      BY <2>2, <3>1, <3>3, SubmitCodeType
    <3>4. QED
      BY <2>6, <3>2, <3>3 DEF Submit
  <2>7. CASE StartFailed
    BY <2>2, <2>7 DEF StartFailed, FailureCodes
  <2>8. QED
    BY <2>1, <2>3, <2>4, <2>5, <2>6, <2>7 DEF MainStep, Poll, NextJobNone, NextJobTerminal,
       Halt, Heartbeat, HeartbeatTerminal, FlushSend, FlushAged, FlushStops, FlushDone,
       LoopEnds, Exit, MainPCs
<1>3. \A i \in DOMAIN spool' : \E k \in DOMAIN spool : spool'[i] = spool[k]
  <2>1. CASE UNCHANGED spool
    BY <2>1
  <2>2. CASE spool # <<>> /\ spool' = Tail(spool)
    BY <2>2, SpoolTail
  <2>3. QED
    BY <2>1, <2>2 DEF MainStep, Poll, NextJob, NextJobNone, NextJobTerminal, Submit,
       StartAcknowledged, StartFailed, Heartbeat, HeartbeatTerminal, FlushSend, FlushAged,
       FlushStops, SpoolKept, FlushDone, LoopEnds, Exit
<1>4. [Next]_vars
  BY DEF Next
<1>5. QED
  BY <1>1, <1>2, <1>3, <1>4, MakesNoResult DEF Threads, ReportPCs

\* Steps of reject, of the delivery of a result and of recordLast: a result is
\* spooled as it was to be delivered.
LEMMA ReportResults ==
  ASSUME NoCounts, StartedOnce, ResultsRan, NEW t \in Threads, ReportStep(t)
  PROVE  ResultsRan'
<1> USE Membership DEF NoCounts
<1>1. thread[t].pc \in ReportPCs /\ thread[t].job \in Jobs /\ thread[t].code \in Codes
  BY DEF ReportStep, Report, SpoolReport, SpoolRefuses, ReportPCs, Bound, Threads
<1>2. /\ \A u \in Threads : u # t => thread'[u] = thread[u]
      /\ \/ thread'[t].pc \in {"select", "release"}
         \/ /\ thread'[t].pc = "spool"
            /\ thread'[t].code = thread[t].code /\ thread'[t].job = thread[t].job
  <2>1. CASE RecordLast(t)
    BY <1>1, <2>1, RecordLastType
  <2>2. CASE Goto(t, "spool")
    BY <2>2 DEF Typed, Goto, ThreadState
  <2>3. QED
    BY <2>1, <2>2 DEF ReportStep, Report, SpoolReport, SpoolRefuses
<1>3. [Next]_vars
  BY DEF Next
<1>4. CASE UNCHANGED spool
  BY <1>1, <1>2, <1>3, <1>4, MakesNoResult DEF ReportPCs
<1>5. CASE SpoolReport(t)
  <2> DEFINE item == [job |-> thread[t].job, code |-> thread[t].code]
  <2>1. spool' = Append(spool, item) /\ UNCHANGED executed /\ RecordLast(t)
    BY <1>5 DEF SpoolReport, historyVars
  <2>2. spool \in Seq([job : Jobs, code : Codes]) /\ item \in [job : Jobs, code : Codes]
    BY <1>1 DEF Typed
  <2>3. item.code = "SUCCEEDED" => executed'[item.job] = 1
    BY <1>1, <2>1 DEF ResultsRan, Ran
  <2> HIDE DEF item
  <2>4. /\ DOMAIN spool = 1 .. Len(spool) /\ DOMAIN spool' = 1 .. Len(spool) + 1
        /\ Len(spool) \in Nat
        /\ \A i \in 1 .. Len(spool) : spool'[i] = spool[i]
        /\ spool'[Len(spool) + 1] = item
    BY <2>1, <2>2, LenProperties, AppendProperties
  <2>5. \A i \in DOMAIN spool' : spool'[i].code = "SUCCEEDED" => executed'[spool'[i].job] = 1
    <3>1. \A i \in 1 .. Len(spool) : spool[i].code = "SUCCEEDED" => executed'[spool[i].job] = 1
      BY <2>1, <2>4 DEF ResultsRan, Ran
    <3>2. QED
      BY <2>3, <2>4, <3>1
  <2>6. thread'[t].pc \in {"select", "release"}
    BY <1>1, <2>1, RecordLastType
  <2>7. QED
    BY <1>2, <2>1, <2>5, <2>6 DEF ResultsRan, Ran, ReportPCs
<1>6. QED
  BY <1>4, <1>5 DEF ReportStep, Report, SpoolRefuses

\* Steps of execute: only a module that was entered makes a result.
LEMMA WorkerResults ==
  ASSUME NoCounts, StartedOnce, ResultsRan, NEW j \in Jobs, WorkerStep(j)
  PROVE  ResultsRan'
<1> USE Membership DEF NoCounts
<1>1. [Next]_vars
  BY DEF Next
<1>2. UNCHANGED spool
  BY DEF WorkerStep, OwnStep, ModuleReturns,
     Begin, Acquire, AcquireFails, CheckCancelled, Execute, ModuleSucceeds,
     ModuleFails, ClassifyCancelled, ClassifyContext, Release, Leave
<1>3. CASE Execute(j)
  <2>1. /\ executed[j] = 0 /\ executed' = [executed EXCEPT ![j] = @ + 1]
        /\ thread' = [thread EXCEPT ![j].pc = "execute"]
    BY <1>3 DEF StartedOnce, Execute, Goto, Early
  <2>2. Ran(j)'
    BY <2>1 DEF Typed, Ran
  <2>3. thread'[j].pc = "execute" /\ \A u \in Threads : u # j => thread'[u] = thread[u]
    BY <2>1 DEF Typed, ThreadState
  <2>4. \A i \in Jobs : Ran(i) => Ran(i)'
    BY <1>1, RanStays
  <2>5. \A u \in Threads : thread[u].pc \in ReportPCs => thread[u].job \in Jobs
    BY DEF Bound, Threads, ReportPCs
  <2>6. \A i \in DOMAIN spool : spool[i].job \in Jobs
    BY SpoolElement
  <2>7. QED
    BY <1>2, <2>2, <2>3, <2>4, <2>5, <2>6 DEF ResultsRan, Ran, ReportPCs
<1>4. CASE ModuleSucceeds(j)
  <2>1. /\ thread[j].pc = "execute" /\ thread[j].job = j /\ UNCHANGED executed
        /\ \E code \in Normalized : Conclude(j, code)
    BY <1>4 DEF Bound, ModuleSucceeds, historyVars
  <2>2. /\ thread'[j].pc = "report" /\ thread'[j].job = j
        /\ \A u \in Threads : u # j => thread'[u] = thread[u]
    BY <2>1 DEF Typed, Conclude
  <2>3. QED
    BY <1>2, <2>1, <2>2 DEF ResultsRan, Ran, ReportPCs
<1>5. CASE ~Execute(j) /\ ~ModuleSucceeds(j)
  <2>1. /\ thread'[j].pc = "execute" => thread[j].pc = "execute"
        /\ thread'[j].pc \notin ReportPCs \/ thread'[j].code # "SUCCEEDED"
        /\ \A u \in Threads : u # j => thread'[u] = thread[u]
    <3>1. CASE \E p \in WorkerPCs \ {"execute"} : Goto(j, p)
      BY <3>1 DEF Typed, Goto, ThreadState, WorkerPCs, ReportPCs
    <3>2. CASE \E code \in FailureCodes : Conclude(j, code)
      BY <3>2 DEF Typed, Conclude, FailureCodes
    <3>3. CASE thread' = [thread EXCEPT ![j] = Idle("idle")]
      BY <3>3 DEF Typed, Idle, ReportPCs
    <3>4. QED
      BY <1>5, <3>1, <3>2, <3>3 DEF WorkerStep, OwnStep, ModuleReturns,
         Begin, Acquire, AcquireFails, CheckCancelled,
         ModuleFails, ClassifyCancelled, ClassifyContext, Release, Leave, WorkerPCs,
         FailureCodes
  <2>2. QED
    BY <1>1, <1>2, <2>1, MakesNoResult
<1>6. QED
  BY <1>3, <1>4, <1>5

\* Every step keeps the invariant.
LEMMA ResultsStep == IndInv /\ StartedOnce /\ ResultsRan /\ [Next]_vars => ResultsRan'
<1> SUFFICES ASSUME IndInv, StartedOnce, ResultsRan, [Next]_vars PROVE ResultsRan'
  OBVIOUS
<1>1. NoCounts
  BY DEF IndInv, NoCounts
<1>2. CASE UNCHANGED <<thread, spool, executed>>
  BY <1>2 DEF ResultsRan, Ran
<1>3. CASE Restart
  <2>1. /\ UNCHANGED <<spool, executed>>
        /\ \A t \in Threads : thread'[t].pc \in {"select", "idle"}
    BY <1>3 DEF Restart, Idle
  <2>2. QED
    BY <2>1, Membership DEF ResultsRan, Ran, ReportPCs
<1>4. ASSUME NEW j \in Jobs, MonitorStep(j) PROVE ResultsRan'
  BY <1>2, <1>4 DEF MonitorStep, MonitorObserves, MonitorCancels, MonitorEnds, Deadline,
     historyVars
<1>5. CASE Environment
  BY <1>2, <1>3, <1>5 DEF Environment, Signal, Revoke, Exited, vars, CancelJob, Expire,
     historyVars
<1>6. QED
  BY <1>1, <1>2, <1>4, <1>5, MainResults, ReportResults, WorkerResults DEF Next, vars

\* Only a job whose module ran, and ran once, has a result on its way, in a
\* goroutine or in the spool that outlives the process.
THEOREM ResultsInvariance == Spec => [](StartedOnce /\ ResultsRan)
<1>1. Init => StartedOnce
  <2>1. ASSUME Init PROVE \A j \in Jobs : thread[j].pc = "idle" /\ executed[j] = 0
    BY <2>1, Membership DEF Init, Idle
  <2>2. QED
    BY <2>1 DEF StartedOnce, Early
<1>2. Init => ResultsRan
  <2>1. ASSUME Init PROVE spool = <<>> /\ \A t \in Threads : thread[t].pc \in {"idle", "select"}
    BY <2>1 DEF Init, Idle
  <2>2. QED
    BY <2>1, Membership DEF ResultsRan, ReportPCs
<1>3. QED
  BY <1>1, <1>2, StartedOnceStep, ResultsStep, Invariance, PTL DEF Spec

-----------------------------------------------------------------------------
(* Every step is one of the ledger's, or none.                              *)

Started == IndInv /\ StartedOnce /\ ResultsRan

\* A report of a job moves it as the ledger allows.
LEMMA ReportRefines ==
  ASSUME Typed, NEW j \in Jobs, NEW code, NEW ok, SendReport(j, code, ok),
         UNCHANGED executed, code = "SUCCEEDED" => Ran(j)
  PROVE  [Ledger!Next]_<<cp, executed>>
<1>1. CASE UNCHANGED cp
  BY <1>1
<1>2. CASE cp' = [cp EXCEPT ![j] = AfterReport(cp[j], code)]
  <2>1. CASE code = "SUCCEEDED" /\ cp[j] = "RUNNING"
    BY <1>2, <2>1 DEF AfterReport, Ran, Ledger!Next, Ledger!Succeed, Ledger!Become
  <2>2. CASE code # "SUCCEEDED" /\ cp[j] \in {"ASSIGNED", "RUNNING"}
    BY <1>2, <2>2 DEF AfterReport, Ledger!Next, Ledger!Fail, Ledger!Become
  <2>3. CASE AfterReport(cp[j], code) = cp[j]
    BY <1>1, <1>2, <2>3 DEF Typed
  <2>4. QED
    BY <2>1, <2>2, <2>3 DEF AfterReport
<1>3. QED
  BY <1>1, <1>2 DEF SendReport, Call

\* So do the steps of the main goroutine.
LEMMA MainRefines ==
  ASSUME Started, MainStep
  PROVE  [Ledger!Next]_<<cp, executed>>
<1>1. NoCounts /\ Typed /\ Bound
  BY DEF Started, IndInv, NoCounts
<1>2. UNCHANGED executed
  BY DEF MainStep, Poll, NextJob, NextJobNone, NextJobTerminal, Submit, StartAcknowledged,
     StartFailed, Heartbeat, HeartbeatTerminal, FlushSend, FlushAged, FlushStops, FlushDone,
     LoopEnds, Exit, historyVars
<1>3. CASE UNCHANGED cp
  BY <1>2, <1>3
<1>4. ASSUME NEW j \in Jobs, cp[j] = "QUEUED", cp' = [cp EXCEPT ![j] = "ASSIGNED"]
      PROVE  [Ledger!Next]_<<cp, executed>>
  BY <1>2, <1>4 DEF Ledger!Next, Ledger!Assign, Ledger!Become
<1>5. ASSUME NEW j \in Jobs, NextJob(j) PROVE [Ledger!Next]_<<cp, executed>>
  <2>1. CASE cp[j] = "QUEUED"
    BY <1>4, <1>5, <2>1 DEF NextJob
  <2>2. CASE cp[j] # "QUEUED"
    BY <1>1, <1>3, <1>5, <2>2 DEF Typed, NextJob
  <2>3. QED
    BY <2>1, <2>2
<1>6. CASE NextJobNone
  BY <1>3, <1>4, <1>6 DEF NextJobNone
<1>7. CASE StartAcknowledged \/ StartFailed
  <2> DEFINE j == thread[Main].job
  <2>1. j \in Jobs
    BY <1>1, <1>7 DEF Bound, StartAcknowledged, StartFailed
  <2>2. \/ UNCHANGED cp
        \/ cp[j] = "ASSIGNED" /\ cp' = [cp EXCEPT ![j] = "RUNNING"]
        \/ cp' = [cp EXCEPT ![j] = cp[j]]
    BY <1>7 DEF StartAcknowledged, StartFailed, Call, StartAccepts
  <2> HIDE DEF j
  <2>3. QED
    BY <1>1, <1>2, <2>1, <2>2 DEF Typed, Ledger!Next, Ledger!Start, Ledger!Become
<1>8. CASE FlushSend \/ FlushStops
  <2> DEFINE item == Head(spool)
  <2>1. spool # <<>> /\ \E ok \in BOOLEAN : SendReport(item.job, item.code, ok)
    BY <1>8 DEF FlushSend, FlushStops
  <2>2. item = spool[1] /\ 1 \in DOMAIN spool
    BY <1>1, <2>1, LenProperties, EmptySeq DEF Typed
  <2>3. item.job \in Jobs /\ (item.code = "SUCCEEDED" => Ran(item.job))
    BY <1>1, <2>2, SpoolElement DEF Started, ResultsRan
  <2> HIDE DEF item
  <2>4. QED
    BY <1>1, <1>2, <2>1, <2>3, ReportRefines
<1>9. QED
  BY <1>3, <1>5, <1>6, <1>7, <1>8 DEF MainStep, Poll, NextJobTerminal, Submit, Heartbeat,
     HeartbeatTerminal, FlushAged, FlushDone, LoopEnds, Exit, cpVars

\* And the steps of the other goroutines and of the environment.
LEMMA StepRefines == Started /\ [Next]_vars => [Ledger!Next]_<<cp, executed>>
<1> SUFFICES ASSUME Started, [Next]_vars PROVE [Ledger!Next]_<<cp, executed>>
  OBVIOUS
<1>1. NoCounts /\ Typed /\ Bound
  BY DEF Started, IndInv, NoCounts
<1>2. CASE UNCHANGED <<cp, executed>>
  BY <1>2
<1>3. ASSUME NEW t \in Threads, ReportStep(t) PROVE [Ledger!Next]_<<cp, executed>>
  <2>1. CASE \E ok \in BOOLEAN : Report(t, ok)
    <3>1. PICK ok \in BOOLEAN : Report(t, ok)
      BY <2>1
    <3>2. thread[t].job \in Jobs /\ (thread[t].code = "SUCCEEDED" => Ran(thread[t].job))
      BY <1>1, <3>1 DEF Report, ReportPCs, Bound, Threads, Started, ResultsRan
    <3>3. SendReport(thread[t].job, thread[t].code, ok) /\ UNCHANGED executed
      BY <3>1 DEF Report
    <3>4. QED
      BY <1>1, <3>2, <3>3, ReportRefines
  <2>2. QED
    BY <1>2, <1>3, <2>1 DEF ReportStep, SpoolReport, SpoolRefuses, cpVars, historyVars
<1>4. ASSUME NEW j \in Jobs, WorkerStep(j) PROVE [Ledger!Next]_<<cp, executed>>
  <2>1. CASE Execute(j)
    <3>1. /\ cp[j] \notin {"QUEUED", "ASSIGNED"} /\ executed[j] = 0 /\ UNCHANGED cp
          /\ executed' = [executed EXCEPT ![j] = @ + 1]
      BY <2>1 DEF Started, StartedOnce, Unstarted, Execute, Early, cpVars
    <3>2. executed' = [executed EXCEPT ![j] = 1]
      BY <1>1, <3>1 DEF Typed
    <3>3. QED
      BY <3>1, <3>2 DEF Ledger!Next, Ledger!Execute
  <2>2. QED
    BY <1>2, <1>4, <2>1 DEF WorkerStep, OwnStep, ModuleReturns,
       Begin, Acquire, AcquireFails, CheckCancelled,
       ModuleSucceeds, ModuleFails, ClassifyCancelled, ClassifyContext, Release, Leave,
       cpVars, historyVars
<1>5. ASSUME NEW j \in Jobs, MonitorStep(j) PROVE [Ledger!Next]_<<cp, executed>>
  BY <1>2, <1>5 DEF MonitorStep, MonitorObserves, MonitorCancels, MonitorEnds, Deadline,
     cpVars, historyVars
<1>6. CASE Environment
  <2>1. ASSUME NEW j \in Jobs, CancelJob(j) PROVE [Ledger!Next]_<<cp, executed>>
    <3>1. cp[j] \in {"QUEUED", "ASSIGNED", "RUNNING"}
      BY <1>1, <2>1 DEF Typed, CancelJob, JobStates, Terminal
    <3>2. QED
      BY <2>1, <3>1 DEF CancelJob, historyVars, Ledger!Next, Ledger!Cancel, Ledger!Become
  <2>2. QED
    BY <1>2, <1>6, <2>1 DEF Environment, Signal, Restart, Revoke, Exited, vars, Expire,
       cpVars, historyVars
<1>7. QED
  BY <1>2, <1>3, <1>4, <1>5, <1>6, MainRefines DEF Next, vars

\* The agent implements the ledger, for every set of jobs, every limit and every
\* number of redeliveries, losses and restarts: at most one execution per job,
\* never before its recorded start, and no success without one.
THEOREM AgentImplementsLedger == Spec => ImplementsLedger
<1>1. Init => Ledger!Init
  BY DEF Init, Ledger!Init
<1>2. Started /\ [Next]_vars => [Ledger!Next]_(Ledger!vars)
  BY StepRefines DEF Ledger!vars
<1>3. QED
  BY <1>1, <1>2, Invariance, ResultsInvariance, PTL
     DEF Spec, Started, ImplementsLedger, Ledger!Spec

-----------------------------------------------------------------------------
(* What every step leaves alone, and where reports come from.               *)

\* What never goes back: a job's end, its assignment, the expiry of an envelope,
\* the losses and, for the life of the agent, what was sent.
Forward ==
  /\ expired \subseteq expired' /\ lost \subseteq lost'
  /\ \A j \in Jobs : /\ cp[j] \in Terminal => cp'[j] = cp[j]
                     /\ cp'[j] = "QUEUED" => cp[j] = "QUEUED"
                     /\ reports[j] \subseteq reports'[j]

\* A goroutine goes on with the report it has.
Continues(t) ==
  /\ thread[t].pc \in ReportPCs
  /\ thread'[t].job = thread[t].job /\ thread'[t].code = thread[t].code

\* Main rejects the job it was offered.
Rejects ==
  /\ thread'[Main].pc = "report" /\ thread'[Main].job = thread[Main].job
  /\ thread[Main].job \in Jobs
  /\ \/ /\ Submit
        /\ thread'[Main].code = SubmitCode(thread[Main].job)
        /\ SubmitCode(thread[Main].job) # None
     \/ StartFailed /\ thread'[Main].code = "INTERNAL_ERROR"

\* An execution comes to its outcome.
Concludes(j) ==
  /\ thread'[j].pc = "report" /\ thread'[j].job = j
  /\ thread[j].pc \in InHandPCs \ ReportPCs
  /\ \/ thread'[j].code = "JOB_EXPIRED" /\ j \in expired
     \/ thread'[j].code = "CANCELLED" /\ (cp[j] = "CANCELLED" \/ j \in cancelled)
     \/ thread'[j].code = "TIMEOUT" /\ thread[j].pc = "classify" /\ ctx[j] = "deadline"
     \/ thread'[j].code = "SUCCEEDED" /\ thread[j].pc = "execute"
     \/ thread'[j].code \in {"INTERNAL_ERROR", "PROCESS_FAILED"}

\* One goroutine moves.
LEMMA GotoEffect ==
  ASSUME Typed, NEW t \in Threads, NEW p, Goto(t, p)
  PROVE  /\ thread'[t].pc = p
         /\ thread'[t].job = thread[t].job /\ thread'[t].code = thread[t].code
         /\ \A u \in Threads : u # t => thread'[u] = thread[u]
BY DEF Typed, Goto, ThreadState

LEMMA ConcludeEffect ==
  ASSUME Typed, NEW t \in Threads, NEW c, Conclude(t, c)
  PROVE  /\ thread'[t].pc = "report" /\ thread'[t].job = thread[t].job /\ thread'[t].code = c
         /\ \A u \in Threads : u # t => thread'[u] = thread[u]
BY DEF Typed, Conclude

\* The start of an execution.
LEMMA StartEffect ==
  ASSUME NoCounts, StartAcknowledged
  PROVE  LET j == thread[Main].job IN
         /\ j \in Jobs /\ thread[j].pc = "idle"
         /\ thread'[Main] = Idle("select")
         /\ thread'[j].pc = "begin" /\ thread'[j].job = j
         /\ \A u \in Threads : u # j /\ u # Main => thread'[u] = thread[u]
<1> USE Membership DEF NoCounts
<1> DEFINE j == thread[Main].job
           mid == [thread EXCEPT ![Main] = Idle("select")]
           started == [pc |-> "begin", job |-> j, code |-> None]
<1>1. j \in Jobs /\ thread[j].pc = "idle"
  BY DEF Bound, StartAcknowledged, OneExecutionPerJob
<1>2. thread' = [mid EXCEPT ![j] = started]
  BY DEF StartAcknowledged
<1>3. /\ DOMAIN mid = Threads /\ mid[Main] = Idle("select")
      /\ \A u \in Threads : u # Main => mid[u] = thread[u]
  BY DEF Typed
<1>4. started.pc = "begin" /\ started.job = j
  OBVIOUS
<1> HIDE DEF mid, started, j
<1>5. /\ thread'[j] = started
      /\ \A u \in Threads : u # j => thread'[u] = mid[u]
  BY <1>1, <1>2, <1>3
<1>6. QED
  BY <1>1, <1>3, <1>4, <1>5 DEF j

LEMMA SendReportKeeps ==
  ASSUME Typed, NEW j \in Jobs, NEW code, NEW ok, SendReport(j, code, ok)
  PROVE  /\ \A i \in Jobs : cp[i] \in Terminal => cp'[i] = cp[i]
         /\ \A i \in Jobs : cp'[i] = "QUEUED" => cp[i] = "QUEUED"
         /\ \A i \in Jobs : cp'[i] = "RUNNING" => cp[i] = "RUNNING"
         /\ \A i \in Jobs : cp'[i] \notin Terminal => cp[i] \notin Terminal
         /\ ok /\ cp[j] # "QUEUED" => cp'[j] \in Terminal
<1>1. CASE UNCHANGED cp /\ ~ok
  BY <1>1
<1>2. CASE cp' = [cp EXCEPT ![j] = AfterReport(cp[j], code)] /\ (ok => AcceptsReport(cp[j], code))
  <2>1. cp'[j] = AfterReport(cp[j], code) /\ \A i \in Jobs : i # j => cp'[i] = cp[i]
    BY <1>2 DEF Typed
  <2>2. cp[j] \in JobStates
    BY DEF Typed
  <2>3. QED
    BY <1>2, <2>1, <2>2 DEF AfterReport, AcceptsReport, Terminal, JobStates
<1>3. QED
  BY <1>1, <1>2 DEF SendReport, Call

\* The calls that change a job's state on the Control Plane.
LEMMA CallsForward ==
  ASSUME NoCounts, Next, NEW j \in Jobs
  PROVE  /\ cp[j] \in Terminal => cp'[j] = cp[j]
         /\ cp'[j] = "QUEUED" => cp[j] = "QUEUED"
<1> USE Membership DEF NoCounts
<1> DEFINE P == (cp[j] \in Terminal => cp'[j] = cp[j]) /\ (cp'[j] = "QUEUED" => cp[j] = "QUEUED")
<1>1. CASE UNCHANGED cp
  BY <1>1
<1>2. ASSUME NEW i \in Jobs, cp[i] \notin Terminal, NEW s \in JobStates, s # "QUEUED",
             cp' = [cp EXCEPT ![i] = s]
      PROVE  P
  BY <1>2 DEF Typed
<1>3. ASSUME MainStep PROVE P
  <2>1. ASSUME NEW i \in Jobs, NextJob(i) PROVE P
    <3>1. CASE cp[i] = "QUEUED"
      BY <1>2, <2>1, <3>1 DEF NextJob, Terminal, JobStates
    <3>2. CASE cp[i] # "QUEUED"
      BY <1>1, <2>1, <3>2 DEF NextJob, Typed
    <3>3. QED
      BY <3>1, <3>2
  <2>2. CASE NextJobNone
    BY <1>1, <1>2, <2>2 DEF NextJobNone, Terminal, JobStates
  <2>3. CASE StartAcknowledged \/ StartFailed
    <3> DEFINE i == thread[Main].job
    <3>1. i \in Jobs
      BY <2>3 DEF Bound, StartAcknowledged, StartFailed
    <3>2. \/ UNCHANGED cp
          \/ cp[i] = "ASSIGNED" /\ cp' = [cp EXCEPT ![i] = "RUNNING"]
          \/ cp' = [cp EXCEPT ![i] = cp[i]]
      BY <2>3 DEF StartAcknowledged, StartFailed, Call, StartAccepts
    <3> HIDE DEF i
    <3>3. CASE cp[i] = "ASSIGNED" /\ cp' = [cp EXCEPT ![i] = "RUNNING"]
      BY <1>2, <3>1, <3>3 DEF Terminal, JobStates
    <3>4. QED
      BY <1>1, <3>1, <3>2, <3>3 DEF Typed
  <2>4. CASE FlushSend \/ FlushStops
    <3>1. spool # <<>> /\ \E ok \in BOOLEAN : SendReport(Head(spool).job, Head(spool).code, ok)
      BY <2>4 DEF FlushSend, FlushStops
    <3>2. Head(spool).job \in Jobs
      BY <3>1, SpoolHead DEF Typed
    <3>3. QED
      BY <3>1, <3>2, SendReportKeeps
  <2>5. QED
    BY <1>1, <1>3, <2>1, <2>2, <2>3, <2>4 DEF MainStep, Poll, NextJobTerminal, Submit, Heartbeat,
       HeartbeatTerminal, FlushAged, FlushDone, LoopEnds, Exit, cpVars
<1>4. ASSUME NEW t \in Threads, ReportStep(t) PROVE P
  <2>1. ASSUME NEW ok \in BOOLEAN, Report(t, ok) PROVE P
    <3>1. thread[t].job \in Jobs /\ SendReport(thread[t].job, thread[t].code, ok)
      BY <2>1 DEF Report, ReportPCs, Bound, Threads
    <3>2. QED
      BY <3>1, SendReportKeeps
  <2>2. QED
    BY <1>1, <1>4, <2>1 DEF ReportStep, SpoolReport, SpoolRefuses, cpVars
<1>5. ASSUME NEW i \in Jobs, WorkerStep(i) \/ MonitorStep(i) PROVE P
  BY <1>1, <1>5 DEF WorkerStep, OwnStep, ModuleReturns,
     Begin, Acquire, AcquireFails, CheckCancelled, Execute,
     ModuleSucceeds, ModuleFails, ClassifyCancelled, ClassifyContext, Release, Leave,
     MonitorStep, MonitorObserves, MonitorCancels, MonitorEnds, Deadline, cpVars
<1>6. ASSUME Environment PROVE P
  <2>1. ASSUME NEW i \in Jobs, CancelJob(i) PROVE P
    BY <2>1 DEF CancelJob, Typed, Terminal
  <2>2. QED
    BY <1>1, <1>6, <2>1 DEF Environment, Signal, Restart, Revoke, Exited, vars, Expire, cpVars
<1>7. QED
  BY <1>3, <1>4, <1>5, <1>6 DEF Next

\* Only a transmission adds to what was sent.
LEMMA SentSteps ==
  ASSUME NoCounts, Next
  PROVE  UNCHANGED reports \/ \E t \in Threads, ok \in BOOLEAN : Report(t, ok)
<1>1. MainStep => UNCHANGED reports
  BY DEF MainStep, Poll, NextJob, NextJobNone, NextJobTerminal, Submit, StartAcknowledged,
     StartFailed, Heartbeat, HeartbeatTerminal, FlushSend, FlushAged, FlushStops, FlushDone,
     LoopEnds, Exit, historyVars
<1>2. \A t \in Threads : ReportStep(t) => UNCHANGED reports \/ \E ok \in BOOLEAN : Report(t, ok)
  BY DEF ReportStep, SpoolReport, SpoolRefuses, historyVars
<1>3. \A j \in Jobs : WorkerStep(j) \/ MonitorStep(j) => UNCHANGED reports
  BY DEF WorkerStep, OwnStep, ModuleReturns,
     Begin, Acquire, AcquireFails, CheckCancelled, Execute, ModuleSucceeds,
     ModuleFails, ClassifyCancelled, ClassifyContext, Release, Leave, MonitorStep,
     MonitorObserves, MonitorCancels, MonitorEnds, Deadline, historyVars
<1>4. Environment => UNCHANGED reports
  BY DEF Environment, Signal, Restart, Revoke, Exited, CancelJob, Expire, historyVars, vars
<1>5. QED
  BY <1>1, <1>2, <1>3, <1>4 DEF Next

LEMMA ForwardStep ==
  ASSUME NoCounts, Next
  PROVE  Forward
<1>1. expired \subseteq expired' /\ lost \subseteq lost'
  <2>1. MainStep => UNCHANGED expired /\ lost \subseteq lost'
    BY DEF MainStep, Poll, NextJob, NextJobNone, NextJobTerminal, Submit, StartAcknowledged,
       StartFailed, Heartbeat, HeartbeatTerminal, FlushSend, FlushAged, FlushStops, FlushDone,
       LoopEnds, Exit, historyVars, cpVars
  <2>2. \A t \in Threads : ReportStep(t) => UNCHANGED expired /\ lost \subseteq lost'
    BY DEF ReportStep, Report, SpoolReport, SpoolRefuses, historyVars, cpVars
  <2>3. \A j \in Jobs : WorkerStep(j) \/ MonitorStep(j) => UNCHANGED <<expired, lost>>
    BY DEF WorkerStep, OwnStep, ModuleReturns,
       Begin, Acquire, AcquireFails, CheckCancelled, Execute, ModuleSucceeds,
       ModuleFails, ClassifyCancelled, ClassifyContext, Release, Leave, MonitorStep,
       MonitorObserves, MonitorCancels, MonitorEnds, Deadline, historyVars, cpVars
  <2>4. Environment => expired \subseteq expired' /\ lost \subseteq lost'
    BY DEF Environment, Signal, Restart, Revoke, Exited, CancelJob, Expire, historyVars, cpVars,
       vars
  <2>5. QED
    BY <2>1, <2>2, <2>3, <2>4 DEF Next
<1>2. \A j \in Jobs : reports[j] \subseteq reports'[j]
  BY SentSteps DEF NoCounts, Typed, Report
<1>3. QED
  BY <1>1, <1>2, CallsForward DEF Forward

\* Where a report comes from.
LEMMA ReportsBegin ==
  ASSUME NoCounts, Next, NEW t \in Threads, thread'[t].pc \in ReportPCs
  PROVE  Continues(t) \/ (t = Main /\ Rejects) \/ (t \in Jobs /\ Concludes(t))
<1> USE Membership DEF NoCounts
<1> DEFINE P == Continues(t) \/ (t = Main /\ Rejects) \/ (t \in Jobs /\ Concludes(t))
<1>1. CASE thread'[t] = thread[t]
  BY <1>1 DEF Continues
<1>2. ASSUME NEW u \in Threads, NEW p, Goto(u, p), p \notin ReportPCs PROVE P
  BY <1>1, <1>2, GotoEffect
<1>3. ASSUME MainStep PROVE P
  <2>1. ASSUME NEW j \in Jobs, NextJob(j) PROVE P
    BY <1>1, <2>1 DEF NextJob, Typed, ReportPCs
  <2>2. CASE StartAcknowledged
    BY <1>1, <2>2, StartEffect DEF Idle, ReportPCs
  <2>3. CASE Submit
    <3>1. thread[Main].job \in Jobs
      BY <2>3 DEF Bound, Submit
    <3>2. CASE Goto(Main, "start")
      BY <1>2, <3>2 DEF ReportPCs
    <3>3. CASE SubmitCode(thread[Main].job) # None /\ Conclude(Main, SubmitCode(thread[Main].job))
      BY <1>1, <2>3, <3>1, <3>3, ConcludeEffect DEF Rejects
    <3>4. QED
      BY <2>3, <3>2, <3>3 DEF Submit
  <2>4. CASE StartFailed
    <3>1. thread[Main].job \in Jobs /\ Conclude(Main, "INTERNAL_ERROR")
      BY <2>4 DEF Bound, StartFailed
    <3>2. QED
      BY <1>1, <2>4, <3>1, ConcludeEffect DEF Rejects
  <2>5. CASE \E p \in MainPCs : Goto(Main, p)
    BY <1>2, <2>5 DEF MainPCs, ReportPCs
  <2>6. CASE UNCHANGED thread
    BY <1>1, <2>6
  <2>7. QED
    BY <1>3, <2>1, <2>2, <2>3, <2>4, <2>5, <2>6 DEF MainStep, Poll, NextJobNone, NextJobTerminal,
       Halt, Heartbeat, HeartbeatTerminal, FlushSend, FlushAged, FlushStops, FlushDone, LoopEnds,
       Exit, MainPCs
<1>4. ASSUME NEW u \in Threads, ReportStep(u) PROVE P
  <2>1. thread[u].pc \in ReportPCs
    BY <1>4 DEF ReportStep, Report, SpoolReport, SpoolRefuses, ReportPCs
  <2>2. CASE RecordLast(u)
    BY <1>1, <2>1, <2>2, RecordLastType DEF ReportPCs
  <2>3. CASE Goto(u, "spool")
    BY <1>1, <2>1, <2>3, GotoEffect DEF Continues
  <2>4. QED
    BY <1>4, <2>2, <2>3 DEF ReportStep, Report, SpoolReport, SpoolRefuses
<1>5. ASSUME NEW j \in Jobs, WorkerStep(j) PROVE P
  <2>1. ASSUME NEW c, Conclude(j, c), thread[j].pc \in InHandPCs \ ReportPCs,
               \/ c = "JOB_EXPIRED" /\ j \in expired
               \/ c = "CANCELLED" /\ (cp[j] = "CANCELLED" \/ j \in cancelled)
               \/ c = "TIMEOUT" /\ thread[j].pc = "classify" /\ ctx[j] = "deadline"
               \/ c = "SUCCEEDED" /\ thread[j].pc = "execute"
               \/ c \in {"INTERNAL_ERROR", "PROCESS_FAILED"}
        PROVE  P
    <3>1. thread[j].job = j
      BY <2>1 DEF Bound, InHandPCs
    <3>2. QED
      BY <1>1, <2>1, <3>1, ConcludeEffect DEF Concludes
  <2>2. CASE \E p \in WorkerPCs : Goto(j, p)
    BY <1>2, <2>2 DEF WorkerPCs, ReportPCs
  <2>3. CASE Leave(j)
    BY <1>1, <2>3 DEF Leave, Idle, Typed, ReportPCs
  <2>4. CASE Begin(j)
    BY <2>1, <2>2, <2>4 DEF Begin, InHandPCs, ReportPCs, WorkerPCs
  <2>5. CASE AcquireFails(j) \/ CheckCancelled(j)
    BY <2>1, <2>5 DEF AcquireFails, CheckCancelled, InHandPCs, ReportPCs
  <2>6. CASE ModuleSucceeds(j)
    BY <2>1, <2>6 DEF ModuleSucceeds, Normalized, InHandPCs, ReportPCs
  <2>7. CASE ClassifyCancelled(j) \/ ClassifyContext(j)
    BY <2>1, <2>2, <2>7 DEF ClassifyCancelled, ClassifyContext, InHandPCs, ReportPCs, WorkerPCs
  <2>8. QED
    BY <1>5, <2>2, <2>3, <2>4, <2>5, <2>6, <2>7 DEF WorkerStep, OwnStep, ModuleReturns,
       Acquire, Execute, ModuleFails,
       Release, WorkerPCs
<1>6. ASSUME NEW j \in Jobs, MonitorStep(j) PROVE P
  BY <1>1, <1>6 DEF MonitorStep, MonitorObserves, MonitorCancels, MonitorEnds, Deadline
<1>7. ASSUME Environment PROVE P
  <2>1. CASE Restart
    BY <2>1 DEF Restart, Idle, ReportPCs
  <2>2. QED
    BY <1>1, <1>7, <2>1 DEF Environment, Signal, Revoke, Exited, vars, CancelJob, Expire
<1>8. QED
  BY <1>3, <1>4, <1>5, <1>6, <1>7 DEF Next

-----------------------------------------------------------------------------
(* What is reported is what happened.                                       *)

\* The "cancelled" channel is written for jobs that an operator cancelled, before
\* the monitor ends their context.
Observed ==
  /\ \A j \in cancelled : cp[j] = "CANCELLED"
  /\ \A j \in Jobs : monitor[j] = "cancelling" => j \in cancelled
  /\ \A j \in Jobs : ctx[j] = "canceled" => stopping \/ j \in cancelled

\* A cancellation, a timeout or an expiry on its way is one.  Only an execution
\* reports a timeout, and keeps its context until it has done so.
CodeSound(t) ==
  thread[t].pc \in ReportPCs =>
    /\ thread[t].code = "CANCELLED" => cp[thread[t].job] = "CANCELLED"
    /\ thread[t].code = "TIMEOUT" => t # Main /\ ctx[t] = "deadline"
    /\ thread[t].code = "JOB_EXPIRED" => thread[t].job \in expired
CodesSound == \A t \in Threads : CodeSound(t)

LEMMA ObservedStep ==
  ASSUME NoCounts, Observed, Next
  PROVE  Observed'
<1> USE Membership DEF NoCounts
<1>1. \A j \in cancelled : cp'[j] = "CANCELLED"
  BY CallsForward DEF Typed, Observed, Terminal
<1>2. CASE UNCHANGED <<cancelled, monitor, ctx, stopping>>
  BY <1>1, <1>2 DEF Observed
<1>3. CASE ctx' = CancelAll /\ stopping' = TRUE /\ UNCHANGED <<cancelled, monitor>>
  BY <1>1, <1>3 DEF Observed
<1>4. ASSUME NEW j \in Jobs, WorkerStep(j) PROVE Observed'
  <2>1. CASE Begin(j)
    <3>1. UNCHANGED <<cancelled, stopping>>
      BY <2>1 DEF Begin
    <3>2. CASE UNCHANGED <<ctx, monitor>>
      BY <1>2, <3>1, <3>2
    <3>3. CASE /\ ctx' = [ctx EXCEPT ![j] = IF stopping THEN "canceled" ELSE "live"]
               /\ monitor' = [monitor EXCEPT ![j] = "on"]
      BY <1>1, <3>1, <3>3 DEF Observed, Typed
    <3>4. QED
      BY <2>1, <3>2, <3>3 DEF Begin
  <2>2. CASE Release(j)
    BY <1>1, <2>2 DEF Release, Observed, Typed
  <2>3. QED
    BY <1>2, <1>4, <2>1, <2>2 DEF WorkerStep, OwnStep, ModuleReturns,
       Acquire, AcquireFails, CheckCancelled, Execute,
       ModuleSucceeds, ModuleFails, ClassifyCancelled, ClassifyContext, Leave
<1>5. ASSUME NEW j \in Jobs, MonitorStep(j) PROVE Observed'
  <2>1. CASE MonitorObserves(j)
    <3>1. /\ cp[j] = "CANCELLED" /\ cancelled' = cancelled \cup {j} /\ UNCHANGED <<cp, ctx, stopping>>
          /\ monitor' = [monitor EXCEPT ![j] = "cancelling"]
      BY <2>1 DEF MonitorObserves, Signalled, cpVars
    <3>2. QED
      BY <1>1, <3>1 DEF Observed, Typed
  <2>2. CASE MonitorCancels(j)
    BY <1>1, <2>2 DEF MonitorCancels, Observed, Typed
  <2>3. CASE MonitorEnds(j)
    BY <1>1, <2>3 DEF MonitorEnds, Observed, Typed
  <2>4. CASE Deadline(j)
    BY <1>1, <2>4 DEF Deadline, Observed, Typed
  <2>5. QED
    BY <1>5, <2>1, <2>2, <2>3, <2>4 DEF MonitorStep
<1>6. ASSUME MainStep PROVE Observed'
  BY <1>2, <1>3, <1>6 DEF MainStep, Poll, NextJob, NextJobNone, NextJobTerminal, Halt, Submit,
     StartAcknowledged, StartFailed, Heartbeat, HeartbeatTerminal, FlushSend, FlushAged,
     FlushStops, FlushDone, LoopEnds, Exit
<1>7. ASSUME NEW t \in Threads, ReportStep(t) PROVE Observed'
  BY <1>2, <1>7 DEF ReportStep, Report, SpoolReport, SpoolRefuses
<1>8. ASSUME Environment PROVE Observed'
  <2>1. CASE Restart
    BY <2>1 DEF Restart, Observed
  <2>2. CASE Signal
    BY <1>3, <2>2 DEF Signal
  <2>3. QED
    BY <1>2, <1>8, <2>1, <2>2 DEF Environment, Revoke, Exited, vars, CancelJob, Expire
<1>9. QED
  BY <1>4, <1>5, <1>6, <1>7, <1>8 DEF Next

\* A context that has met its deadline is replaced only past the report.
LEMMA DeadlineStays ==
  ASSUME NoCounts, Next, NEW j \in Jobs, ctx[j] = "deadline",
         thread[j].pc \in InHandPCs \ {"begin"}, thread'[j].pc \in ReportPCs
  PROVE  ctx'[j] = "deadline"
<1> USE Membership DEF NoCounts
<1>1. CASE UNCHANGED ctx \/ ctx' = CancelAll
  BY <1>1 DEF CancelAll
<1>2. ASSUME NEW i \in Jobs, WorkerStep(i) PROVE ctx'[j] = "deadline"
  <2>1. CASE Begin(i) \/ Release(i)
    BY <2>1 DEF Begin, Release, Typed, InHandPCs, ReportPCs
  <2>2. QED
    BY <1>1, <1>2, <2>1 DEF WorkerStep, OwnStep, ModuleReturns,
       Acquire, AcquireFails, CheckCancelled, Execute,
       ModuleSucceeds, ModuleFails, ClassifyCancelled, ClassifyContext, Leave
<1>3. ASSUME NEW i \in Jobs, MonitorStep(i) PROVE ctx'[j] = "deadline"
  BY <1>1, <1>3 DEF MonitorStep, MonitorObserves, MonitorCancels, MonitorEnds, Deadline, Typed
<1>4. ASSUME MainStep PROVE ctx'[j] = "deadline"
  BY <1>1, <1>4 DEF MainStep, Poll, NextJob, NextJobNone, NextJobTerminal, Halt, Submit,
     StartAcknowledged, StartFailed, Heartbeat, HeartbeatTerminal, FlushSend, FlushAged,
     FlushStops, FlushDone, LoopEnds, Exit
<1>5. ASSUME NEW t \in Threads, ReportStep(t) PROVE ctx'[j] = "deadline"
  BY <1>1, <1>5 DEF ReportStep, Report, SpoolReport, SpoolRefuses
<1>6. ASSUME Environment PROVE ctx'[j] = "deadline"
  <2>1. ~Restart
    BY DEF Restart, Idle, ReportPCs
  <2>2. QED
    BY <1>1, <1>6, <2>1 DEF Environment, Signal, Revoke, Exited, vars, CancelJob, Expire
<1>7. QED
  BY <1>2, <1>3, <1>4, <1>5, <1>6 DEF Next

\* What Submit rejects with is none of the outcomes of an execution, and
\* JOB_EXPIRED only if the envelope has expired.
LEMMA RejectionCode ==
  ASSUME NEW j \in Jobs
  PROVE  /\ SubmitCode(j) \notin {"CANCELLED", "TIMEOUT", "SUCCEEDED"}
         /\ SubmitCode(j) = "JOB_EXPIRED" => j \in expired
<1>1. /\ VerifyCode(j) \notin {"CANCELLED", "TIMEOUT", "SUCCEEDED"}
      /\ VerifyCode(j) = "JOB_EXPIRED" => j \in expired
  BY ExecutorAssumption DEF VerifyCode, VerifyFaults, Codes, FailureCodes
<1>2. QED
  BY <1>1, ExecutorAssumption DEF SubmitCode, ModuleFaults, Codes, FailureCodes

LEMMA CodesStep ==
  ASSUME NoCounts, Observed, CodesSound, Next
  PROVE  CodesSound'
<1> USE Membership DEF NoCounts
<1> SUFFICES ASSUME NEW t \in Threads, thread'[t].pc \in ReportPCs PROVE CodeSound(t)'
  BY DEF CodesSound, CodeSound
<1>1. Forward
  BY ForwardStep
<1>2. CASE Continues(t)
  <2>1. thread[t].job \in Jobs /\ CodeSound(t) /\ (t # Main => t \in Jobs)
    BY <1>2 DEF Continues, Bound, Threads, ReportPCs, CodesSound
  <2>2. thread[t].code = "TIMEOUT" => ctx'[t] = "deadline"
    BY <1>2, <2>1, DeadlineStays DEF Continues, CodeSound, InHandPCs, ReportPCs
  <2>3. QED
    BY <1>1, <1>2, <2>1, <2>2 DEF Continues, CodeSound, Forward, Terminal
<1>3. CASE t = Main /\ Rejects
  <2>1. /\ thread[Main].job \in Jobs /\ thread'[Main].job = thread[Main].job
        /\ thread'[Main].code \notin {"CANCELLED", "TIMEOUT"}
        /\ thread'[Main].code = "JOB_EXPIRED" => thread[Main].job \in expired
    BY <1>3, RejectionCode DEF Rejects
  <2>2. QED
    BY <1>1, <1>3, <2>1 DEF CodeSound, Forward
<1>4. CASE t \in Jobs /\ Concludes(t)
  <2>1. thread'[t].code = "CANCELLED" => cp[t] = "CANCELLED"
    BY <1>4 DEF Concludes, Observed
  <2>2. thread'[t].code = "TIMEOUT" => ctx'[t] = "deadline"
    BY <1>4, DeadlineStays DEF Concludes, InHandPCs, ReportPCs
  <2>3. QED
    BY <1>1, <1>4, <2>1, <2>2 DEF Concludes, CodeSound, Forward, Terminal
<1>5. QED
  BY <1>2, <1>3, <1>4, ReportsBegin

\* What execute reports is what happened, for any jobs and any order in which
\* monitors, deadlines, signals and executions take their steps; and a context
\* that the monitor ended can be told from one that a shutdown ended.
THEOREM OutcomesJustified == Spec => []OutcomeJustified
<1>1. Init => Observed /\ CodesSound
  <2>1. ASSUME Init
        PROVE  /\ cancelled = {} /\ \A j \in Jobs : monitor[j] = "off" /\ ctx[j] = "off"
               /\ \A t \in Threads : thread[t].pc \in {"idle", "select"}
    BY <2>1 DEF Init, Idle
  <2>2. QED
    BY <2>1 DEF Observed, CodesSound, CodeSound, ReportPCs
<1>2. IndInv /\ Observed /\ CodesSound /\ [Next]_vars => (Observed /\ CodesSound)'
  <2>1. ASSUME IndInv, Observed, CodesSound, Next PROVE (Observed /\ CodesSound)'
    <3>1. NoCounts
      BY <2>1 DEF IndInv, NoCounts
    <3>2. QED
      BY <2>1, <3>1, ObservedStep, CodesStep
  <2>2. ASSUME Observed, CodesSound, UNCHANGED vars PROVE (Observed /\ CodesSound)'
    BY <2>2 DEF Observed, CodesSound, CodeSound, vars
  <2>3. QED
    BY <2>1, <2>2
<1>3. IndInv /\ ResultsRan /\ Observed /\ CodesSound => OutcomeJustified
  <2> SUFFICES ASSUME IndInv, ResultsRan, Observed, CodesSound PROVE OutcomeJustified
    OBVIOUS
  <2>1. ASSUME NEW t \in Threads, thread[t].pc \in ReportPCs
        PROVE  t # Main => thread[t].job = t
    BY <2>1, Membership DEF IndInv, Bound, Threads, ReportPCs
  <2>2. QED
    BY <2>1 DEF OutcomeJustified, Observed, CodesSound, CodeSound, ResultsRan, Ran
<1>4. QED
  BY <1>1, <1>2, <1>3, Invariance, ResultsInvariance, PTL DEF Spec

-----------------------------------------------------------------------------
(* The last result shown was sent.                                          *)

\* A report that could not be delivered was sent once before it is spooled.
SpooledSent ==
  \A t \in Threads : thread[t].pc = "spool" => Kind(t, thread[t].code) \in reports[thread[t].job]

LastSent ==
  lastResult # None => KindsOf(lastResult.status) \cap reports[lastResult.job] # {}

\* A process that has sent a report has a last result, or a goroutine about to
\* record one.
Shown ==
  restarts = 0 /\ (\E j \in Jobs : reports[j] # {}) =>
    lastResult # None \/ \E t \in Threads : thread[t].pc = "spool"

\* main() leaves after the last execution.
Quiesced == thread[Main].pc = "exited" => \A j \in Jobs : thread[j].pc = "idle"

LastInv == SpooledSent /\ LastSent /\ Shown /\ Quiesced

\* recordLast shows an outcome of the kind that was sent.
LEMMA RecordedKind ==
  ASSUME NoCounts, NEW t \in Threads, thread[t].pc \in ReportPCs, RecordLast(t)
  PROVE  /\ lastResult' # None
         /\ lastResult'.job = thread[t].job
         /\ Kind(t, thread[t].code) \in KindsOf(lastResult'.status)
<1>1. lastResult' = [job |-> thread[t].job, status |-> LastStatus(thread[t].code)]
  BY DEF RecordLast
<1>2. Kind(t, thread[t].code) \in KindsOf(LastStatus(thread[t].code))
  BY DEF Kind, KindsOf, LastStatus
<1>3. lastResult' # None
  BY RecordLastType, NoneAssumption DEF NoCounts
<1>4. QED
  BY <1>1, <1>2, <1>3

\* A step that records and sends nothing.
LEMMA LastQuiet ==
  ASSUME NoCounts, LastInv, UNCHANGED <<lastResult, reports, restarts>>,
         \A t \in Threads : thread'[t].pc = "spool" <=> thread[t].pc = "spool",
         \A t \in Threads : thread'[t].pc = "spool" => thread'[t] = thread[t],
         Quiesced'
  PROVE  LastInv'
BY DEF LastInv, SpooledSent, LastSent, Shown

LEMMA LastReport ==
  ASSUME NoCounts, LastInv, NEW t \in Threads, ReportStep(t)
  PROVE  LastInv'
<1> USE Membership DEF NoCounts
<1> DEFINE j == thread[t].job
           k == Kind(t, thread[t].code)
<1>1. thread[t].pc \in ReportPCs /\ j \in Jobs /\ UNCHANGED restarts
  BY DEF ReportStep, Report, SpoolReport, SpoolRefuses, ReportPCs, Bound, Threads, historyVars
<1>2. Quiesced'
  <2>1. thread[Main].pc # "exited"
    BY <1>1 DEF LastInv, Quiesced, Threads, ReportPCs
  <2>2. thread'[Main].pc = thread[Main].pc \/ thread'[Main].pc \in {"select", "spool"}
    BY <1>1, RecordLastType, GotoEffect DEF ReportStep, Report, SpoolReport, SpoolRefuses
  <2>3. QED
    BY <2>1, <2>2 DEF Quiesced
<1>3. /\ \A i \in Jobs : reports[i] \subseteq reports'[i]
      /\ k \in reports'[j]
      /\ ~RecordLast(t) => Goto(t, "spool") /\ UNCHANGED lastResult
  <2>1. CASE \E ok \in BOOLEAN : Report(t, ok)
    BY <1>1, <2>1 DEF Report, Typed
  <2>2. CASE SpoolReport(t) \/ SpoolRefuses(t)
    BY <1>1, <2>2 DEF SpoolReport, SpoolRefuses, historyVars, LastInv, SpooledSent
  <2>3. QED
    BY <2>1, <2>2 DEF ReportStep
<1>4. CASE RecordLast(t)
  <2>1. lastResult' # None /\ lastResult'.job = j /\ k \in KindsOf(lastResult'.status)
    BY <1>1, <1>4, RecordedKind
  <2>2. /\ thread'[t].pc # "spool"
        /\ \A u \in Threads : u # t => thread'[u] = thread[u]
    BY <1>1, <1>4, RecordLastType
  <2>3. SpooledSent'
    <3> SUFFICES ASSUME NEW u \in Threads, thread'[u].pc = "spool"
                 PROVE  Kind(u, thread'[u].code) \in reports'[thread'[u].job]
      BY DEF SpooledSent
    <3>1. u # t /\ thread'[u] = thread[u]
      BY <2>2
    <3>2. thread[u].job \in Jobs /\ Kind(u, thread[u].code) \in reports[thread[u].job]
      BY <3>1 DEF Bound, Threads, ReportPCs, LastInv, SpooledSent
    <3>3. QED
      BY <1>3, <3>1, <3>2
  <2>4. LastSent' /\ Shown'
    BY <1>3, <2>1 DEF LastSent, Shown
  <2>5. QED
    BY <1>2, <2>3, <2>4 DEF LastInv
<1>5. CASE Goto(t, "spool") /\ UNCHANGED lastResult
  <2>1. /\ thread'[t].pc = "spool" /\ thread'[t].job = j /\ thread'[t].code = thread[t].code
        /\ \A u \in Threads : u # t => thread'[u] = thread[u]
    BY <1>5, GotoEffect
  <2>2. SpooledSent'
    <3> SUFFICES ASSUME NEW u \in Threads, thread'[u].pc = "spool"
                 PROVE  Kind(u, thread'[u].code) \in reports'[thread'[u].job]
      BY DEF SpooledSent
    <3>1. CASE u = t
      BY <1>3, <2>1, <3>1
    <3>2. CASE u # t
      <4>1. thread'[u] = thread[u]
        BY <2>1, <3>2
      <4>2. thread[u].job \in Jobs /\ Kind(u, thread[u].code) \in reports[thread[u].job]
        BY <4>1 DEF Bound, Threads, ReportPCs, LastInv, SpooledSent
      <4>3. QED
        BY <1>3, <4>1, <4>2
    <3>3. QED
      BY <3>1, <3>2
  <2>3. LastSent'
    <3>1. lastResult # None => lastResult.job \in Jobs
      BY DEF Typed
    <3>2. QED
      BY <1>3, <1>5, <3>1 DEF LastInv, LastSent
  <2>4. Shown'
    BY <2>1 DEF Shown
  <2>5. QED
    BY <1>2, <2>2, <2>3, <2>4 DEF LastInv
<1>6. QED
  BY <1>3, <1>4, <1>5

LEMMA LastStep ==
  ASSUME NoCounts, LastInv, Next
  PROVE  LastInv'
<1> USE Membership DEF NoCounts
<1>1. ASSUME NEW t \in Threads, NEW p, Goto(t, p), thread[t].pc # "spool", p # "spool",
             p # "exited", thread[t].pc # "idle", UNCHANGED <<lastResult, reports, restarts>>
      PROVE  LastInv'
  <2>1. thread'[t].pc = p /\ \A u \in Threads : u # t => thread'[u] = thread[u]
    BY <1>1, GotoEffect
  <2>2. thread'[Main].pc = "exited" => t = Main \/ thread[Main].pc = "exited"
    BY <2>1
  <2>3. Quiesced'
    BY <1>1, <2>1, <2>2 DEF LastInv, Quiesced, Threads
  <2>4. QED
    BY <1>1, <2>1, <2>3, LastQuiet
<1>2. ASSUME NEW t \in Threads, NEW c, Conclude(t, c), thread[t].pc \notin {"spool", "idle"},
             UNCHANGED <<lastResult, reports, restarts>>
      PROVE  LastInv'
  <2>1. thread'[t].pc = "report" /\ \A u \in Threads : u # t => thread'[u] = thread[u]
    BY <1>2, ConcludeEffect
  <2>2. Quiesced'
    BY <1>2, <2>1 DEF LastInv, Quiesced, Threads
  <2>3. QED
    BY <1>2, <2>1, <2>2, LastQuiet
<1>3. CASE UNCHANGED <<thread, lastResult, reports, restarts>>
  BY <1>3 DEF LastInv, SpooledSent, LastSent, Shown, Quiesced
<1>4. ASSUME MainStep PROVE LastInv'
  <2>1. UNCHANGED <<lastResult, reports, restarts>>
    BY <1>4 DEF MainStep, Poll, NextJob, NextJobNone, NextJobTerminal, Submit, StartAcknowledged,
       StartFailed, Heartbeat, HeartbeatTerminal, FlushSend, FlushAged, FlushStops, FlushDone,
       LoopEnds, Exit, historyVars
  <2>2. ASSUME NEW j \in Jobs, NextJob(j) PROVE LastInv'
    <3>1. /\ thread[Main].pc = "nextJob" /\ thread'[Main].pc = "submit"
          /\ \A u \in Threads : u # Main => thread'[u] = thread[u]
      BY <2>2 DEF NextJob, Typed
    <3>2. QED
      BY <2>1, <3>1, LastQuiet DEF Quiesced
  <2>3. CASE StartAcknowledged
    <3> DEFINE j == thread[Main].job
    <3>1. /\ j \in Jobs /\ thread[j].pc = "idle" /\ thread'[j].pc = "begin"
          /\ thread'[Main] = Idle("select")
          /\ \A u \in Threads : u # j /\ u # Main => thread'[u] = thread[u]
      BY <2>3, StartEffect
    <3>2. thread[Main].pc = "start" /\ thread'[Main].pc = "select"
      BY <2>3, <3>1 DEF StartAcknowledged, Idle
    <3> HIDE DEF j
    <3>3. QED
      BY <2>1, <3>1, <3>2, LastQuiet DEF Quiesced
  <2>4. CASE Submit
    BY <1>1, <1>2, <2>1, <2>4 DEF Submit
  <2>5. CASE StartFailed
    BY <1>2, <2>1, <2>5 DEF StartFailed
  <2>6. CASE Exit
    <3>1. /\ \A j \in Jobs : thread[j].pc = "idle"
          /\ thread[Main].pc = "drain" /\ thread'[Main].pc = "exited"
          /\ \A u \in Threads : u # Main => thread'[u] = thread[u]
      BY <2>6, GotoEffect DEF Exit
    <3>2. QED
      BY <2>1, <3>1, LastQuiet DEF Quiesced
  <2>7. CASE UNCHANGED thread
    BY <1>3, <2>1, <2>7
  <2>8. CASE \E p \in {"nextJob", "select", "flush", "drain"} :
               Goto(Main, p) /\ thread[Main].pc \notin {"spool", "idle"}
    BY <1>1, <2>1, <2>8
  <2>9. QED
    BY <1>4, <2>2, <2>3, <2>4, <2>5, <2>6, <2>7, <2>8 DEF MainStep, Poll, NextJobNone,
       NextJobTerminal, Halt, Heartbeat, HeartbeatTerminal, FlushSend, FlushAged, FlushStops,
       FlushDone, LoopEnds
<1>5. ASSUME NEW j \in Jobs, WorkerStep(j) PROVE LastInv'
  <2>1. UNCHANGED <<lastResult, reports, restarts>> /\ thread[j].pc \notin {"spool", "idle"}
    BY <1>5 DEF WorkerStep, OwnStep, ModuleReturns,
       Begin, Acquire, AcquireFails, CheckCancelled, Execute, ModuleSucceeds,
       ModuleFails, ClassifyCancelled, ClassifyContext, Release, Leave, historyVars
  <2>2. CASE \E c : Conclude(j, c)
    BY <1>2, <2>1, <2>2
  <2>3. CASE \E p \in WorkerPCs : Goto(j, p)
    BY <1>1, <2>1, <2>3 DEF WorkerPCs
  <2>4. CASE Leave(j)
    <3>1. thread'[j].pc = "idle" /\ \A u \in Threads : u # j => thread'[u] = thread[u]
      BY <2>4 DEF Leave, Idle, Typed
    <3>2. QED
      BY <2>1, <3>1, LastQuiet DEF LastInv, Quiesced
  <2>5. QED
    BY <1>5, <2>2, <2>3, <2>4 DEF WorkerStep, OwnStep, ModuleReturns,
       Begin, Acquire, AcquireFails, CheckCancelled,
       Execute, ModuleSucceeds, ModuleFails, ClassifyCancelled, ClassifyContext, Release, WorkerPCs
<1>6. ASSUME NEW j \in Jobs, MonitorStep(j) PROVE LastInv'
  BY <1>3, <1>6 DEF MonitorStep, MonitorObserves, MonitorCancels, MonitorEnds, Deadline,
     historyVars
<1>7. ASSUME Environment PROVE LastInv'
  <2>1. CASE Restart
    <3>1. /\ lastResult' = None /\ restarts' # 0 /\ thread'[Main].pc = "select"
          /\ \A t \in Threads : thread'[t].pc \in {"select", "idle"}
      BY <2>1 DEF Restart, Idle, Typed
    <3>2. QED
      BY <3>1 DEF LastInv, SpooledSent, LastSent, Shown, Quiesced
  <2>2. QED
    BY <1>3, <1>7, <2>1 DEF Environment, Signal, Revoke, Exited, vars, CancelJob, Expire,
       historyVars
<1>8. QED
  BY <1>4, <1>5, <1>6, <1>7, LastReport DEF Next

\* The last result that a heartbeat shows was sent with that outcome, although
\* goroutines overwrite each other's, and the last heartbeat has one to show.
THEOREM LastResultWasSent == Spec => []LastResultSent
<1>1. Init => LastInv
  <2>1. ASSUME Init
        PROVE  /\ lastResult = None /\ \A j \in Jobs : reports[j] = {}
               /\ \A t \in Threads : thread[t].pc \in {"idle", "select"}
    BY <2>1 DEF Init, Idle
  <2>2. QED
    BY <2>1, Membership DEF LastInv, SpooledSent, LastSent, Shown, Quiesced
<1>2. IndInv /\ LastInv /\ [Next]_vars => LastInv'
  <2>1. ASSUME IndInv, LastInv, Next PROVE LastInv'
    BY <2>1, LastStep DEF IndInv, NoCounts
  <2>2. ASSUME LastInv, UNCHANGED vars PROVE LastInv'
    BY <2>2 DEF LastInv, SpooledSent, LastSent, Shown, Quiesced, vars
  <2>3. QED
    BY <2>1, <2>2
<1>3. LastInv => LastResultSent
  <2> SUFFICES ASSUME LastInv PROVE LastResultSent
    OBVIOUS
  <2>1. thread[Main].pc = "exited" => \A t \in Threads : thread[t].pc # "spool"
    BY DEF LastInv, Quiesced, Threads
  <2>2. QED
    BY <2>1 DEF LastInv, LastSent, Shown, LastResultSent
<1>4. QED
  BY <1>1, <1>2, <1>3, Invariance, PTL DEF Spec

-----------------------------------------------------------------------------
(* No job is forgotten.                                                     *)

\* What the agent has to do with a job it has from the Control Plane, which then
\* no longer has it queued.
Assigned ==
  \A j \in Jobs : cp[j] = "QUEUED" =>
    /\ reports[j] = {} /\ ~InHand(j) /\ ~Spooled(j)
    /\ thread[Main].pc \in {"submit", "start"} => thread[Main].job # j

\* The steps after which a goroutine no longer has an outcome in hand.
HandsOver(t) == Report(t, TRUE) \/ SpoolReport(t) \/ SpoolRefuses(t)

\* A goroutine keeps the job it has in hand until its outcome is delivered,
\* spooled or lost.
LEMMA HandKept ==
  ASSUME NoCounts, Next, NEW t \in Threads, thread[t].pc \in InHandPCs, ~Restart, ~HandsOver(t)
  PROVE  thread'[t].pc \in InHandPCs /\ thread'[t].job = thread[t].job
<1> USE Membership DEF NoCounts
<1> DEFINE P == thread'[t].pc \in InHandPCs /\ thread'[t].job = thread[t].job
<1>1. CASE thread'[t] = thread[t]
  BY <1>1
<1>2. ASSUME NEW u \in Threads, NEW p, Goto(u, p), p \in InHandPCs \/ u # t PROVE P
  BY <1>1, <1>2, GotoEffect
<1>3. ASSUME NEW u \in Threads, NEW c, Conclude(u, c) PROVE P
  BY <1>1, <1>3, ConcludeEffect DEF InHandPCs, ReportPCs
<1>4. ASSUME MainStep PROVE P
  <2>1. CASE t = Main
    <3>1. MainStep => thread[Main].pc \notin InHandPCs \/ UNCHANGED thread
      BY DEF MainStep, Poll, NextJob, NextJobNone, NextJobTerminal, Submit, StartAcknowledged,
         StartFailed, Heartbeat, HeartbeatTerminal, FlushSend, FlushAged, FlushStops, FlushDone,
         LoopEnds, Exit, InHandPCs, ReportPCs
    <3>2. QED
      BY <1>1, <1>4, <2>1, <3>1
  <2>2. CASE t # Main
    <3>1. CASE \E p : Goto(Main, p)
      BY <1>2, <2>2, <3>1
    <3>2. CASE \E c : Conclude(Main, c)
      BY <1>3, <3>2
    <3>3. CASE \E j \in Jobs : NextJob(j)
      BY <1>1, <2>2, <3>3 DEF NextJob, Typed
    <3>4. CASE StartAcknowledged
      BY <1>1, <2>2, <3>4, StartEffect DEF InHandPCs, ReportPCs
    <3>5. CASE UNCHANGED thread
      BY <1>1, <3>5
    <3>6. QED
      BY <1>4, <3>1, <3>2, <3>3, <3>4, <3>5 DEF MainStep, Poll, NextJobNone, NextJobTerminal,
         Halt, Submit, StartFailed, Heartbeat, HeartbeatTerminal, FlushSend, FlushAged,
         FlushStops, FlushDone, LoopEnds, Exit
  <2>3. QED
    BY <2>1, <2>2
<1>5. ASSUME NEW u \in Threads, ReportStep(u) PROVE P
  <2>1. thread[u].pc \in ReportPCs
    BY <1>5 DEF ReportStep, Report, SpoolReport, SpoolRefuses, ReportPCs
  <2>2. CASE u = t
    <3>1. Report(t, FALSE)
      BY <1>5, <2>2 DEF ReportStep, HandsOver
    <3>2. QED
      BY <1>2, <3>1 DEF Report, InHandPCs, ReportPCs
  <2>3. CASE u # t
    BY <1>1, <1>5, <2>1, <2>3, GotoEffect, RecordLastType DEF ReportStep, Report, SpoolReport,
       SpoolRefuses
  <2>4. QED
    BY <2>2, <2>3
<1>6. ASSUME NEW j \in Jobs, WorkerStep(j) PROVE P
  <2>1. CASE Release(j) \/ Leave(j)
    <3>1. j # t
      BY <2>1 DEF Release, Leave, InHandPCs, ReportPCs
    <3>2. QED
      BY <1>1, <1>2, <2>1, <3>1 DEF Release, Leave, Typed
  <2>2. CASE \E c : Conclude(j, c)
    BY <1>3, <2>2
  <2>3. CASE \E p \in {"acquire", "check", "execute", "failed", "classify"} : Goto(j, p)
    BY <1>2, <2>3 DEF InHandPCs
  <2>4. QED
    BY <1>6, <2>1, <2>2, <2>3 DEF WorkerStep, OwnStep, ModuleReturns,
       Begin, Acquire, AcquireFails, CheckCancelled,
       Execute, ModuleSucceeds, ModuleFails, ClassifyCancelled, ClassifyContext
<1>7. ASSUME NEW j \in Jobs, MonitorStep(j) PROVE P
  BY <1>1, <1>7 DEF MonitorStep, MonitorObserves, MonitorCancels, MonitorEnds, Deadline
<1>8. ASSUME Environment PROVE P
  BY <1>1, <1>8 DEF Environment, Signal, Revoke, Exited, vars, CancelJob, Expire
<1>9. QED
  BY <1>4, <1>5, <1>6, <1>7, <1>8 DEF Next

\* Where the job that a goroutine has in hand comes from.
LEMMA HandTaken ==
  ASSUME NoCounts, Next, NEW t \in Threads, thread'[t].pc \in InHandPCs
  PROVE  \/ /\ thread[t].pc \in InHandPCs /\ thread'[t].job = thread[t].job
            /\ thread[t].pc \in ReportPCs => thread'[t].pc \in ReportPCs
         \/ t = Main /\ Rejects
         \/ StartAcknowledged /\ t = thread[Main].job /\ thread'[t].job = t
<1> USE Membership DEF NoCounts
<1>1. CASE thread'[t].pc \in ReportPCs
  <2>1. CASE Continues(t)
    BY <1>1, <2>1 DEF Continues, InHandPCs
  <2>2. CASE t \in Jobs /\ Concludes(t)
    BY <1>1, <2>2 DEF Concludes, Bound, InHandPCs
  <2>3. QED
    BY <1>1, <2>1, <2>2, ReportsBegin
<1>2. CASE StartAcknowledged
  BY <1>2, StartEffect DEF Idle, InHandPCs, ReportPCs
<1>3. CASE thread'[t].pc \notin ReportPCs /\ ~StartAcknowledged
  <2>1. CASE thread'[t] = thread[t]
    BY <2>1
  <2>2. ASSUME MainStep PROVE thread'[t] = thread[t]
    <3>1. CASE \E p \in MainPCs : Goto(Main, p)
      BY <3>1, GotoEffect DEF MainPCs, InHandPCs, ReportPCs
    <3>2. CASE \E c : Conclude(Main, c)
      BY <1>3, <3>2, ConcludeEffect DEF ReportPCs
    <3>3. CASE \E j \in Jobs : NextJob(j)
      BY <3>3 DEF NextJob, Typed, InHandPCs, ReportPCs
    <3>4. CASE UNCHANGED thread
      BY <3>4
    <3>5. QED
      BY <1>3, <2>2, <3>1, <3>2, <3>3, <3>4 DEF MainStep, Poll, NextJobNone, NextJobTerminal,
         Halt, Submit, StartFailed, Heartbeat, HeartbeatTerminal, FlushSend, FlushAged,
         FlushStops, FlushDone, LoopEnds, Exit, MainPCs
  <2>3. ASSUME NEW u \in Threads, ReportStep(u) PROVE thread'[t] = thread[t]
    <3>1. thread[u].pc \in ReportPCs
      BY <2>3 DEF ReportStep, Report, SpoolReport, SpoolRefuses, ReportPCs
    <3>2. CASE RecordLast(u)
      BY <3>1, <3>2, RecordLastType DEF InHandPCs, ReportPCs
    <3>3. CASE Goto(u, "spool")
      BY <1>3, <3>3, GotoEffect DEF ReportPCs
    <3>4. QED
      BY <2>3, <3>2, <3>3 DEF ReportStep, Report, SpoolReport, SpoolRefuses
  <2>4. ASSUME NEW j \in Jobs, WorkerStep(j)
        PROVE  \/ thread'[t] = thread[t]
               \/ thread[t].pc \in InHandPCs \ ReportPCs /\ thread'[t].job = thread[t].job
    <3>1. CASE j # t
      <4>1. thread'[t] = thread[t]
        BY <2>4, <3>1 DEF WorkerStep, OwnStep, ModuleReturns,
           Begin, Acquire, AcquireFails, CheckCancelled, Execute,
           ModuleSucceeds, ModuleFails, ClassifyCancelled, ClassifyContext, Release, Leave, Goto,
           Conclude, Typed
      <4>2. QED
        BY <4>1
    <3>2. CASE Release(t) \/ Leave(t)
      BY <3>2, GotoEffect DEF Release, Leave, Idle, Typed, InHandPCs, ReportPCs
    <3>3. CASE j = t /\ ~Release(t) /\ ~Leave(t)
      <4>1. thread[t].pc \in InHandPCs \ ReportPCs
        BY <2>4, <3>3 DEF WorkerStep, OwnStep, ModuleReturns,
           Begin, Acquire, AcquireFails, CheckCancelled, Execute,
           ModuleSucceeds, ModuleFails, ClassifyCancelled, ClassifyContext, InHandPCs, ReportPCs
      <4>2. (\E c : Conclude(t, c)) \/ (\E p : Goto(t, p))
        BY <2>4, <3>3 DEF WorkerStep, OwnStep, ModuleReturns,
           Begin, Acquire, AcquireFails, CheckCancelled, Execute,
           ModuleSucceeds, ModuleFails, ClassifyCancelled, ClassifyContext
      <4>3. QED
        BY <4>1, <4>2, GotoEffect, ConcludeEffect
    <3>4. QED
      BY <3>1, <3>2, <3>3
  <2>5. ASSUME NEW j \in Jobs, MonitorStep(j) PROVE thread'[t] = thread[t]
    BY <2>5 DEF MonitorStep, MonitorObserves, MonitorCancels, MonitorEnds, Deadline
  <2>6. ASSUME Environment PROVE thread'[t] = thread[t]
    <3>1. ~Restart
      BY DEF Restart, Idle, InHandPCs, ReportPCs
    <3>2. QED
      BY <2>6, <3>1 DEF Environment, Signal, Revoke, Exited, vars, CancelJob, Expire
  <2>7. QED
    BY <2>1, <2>2, <2>3, <2>4, <2>5, <2>6 DEF Next
<1>4. QED
  BY <1>1, <1>2, <1>3

\* The steps that change the spool.
LEMMA SpoolSteps ==
  ASSUME Next
  PROVE  \/ UNCHANGED spool
         \/ FlushSend \/ FlushAged
         \/ \E t \in Threads : SpoolReport(t)
<1>1. MainStep => UNCHANGED spool \/ FlushSend \/ FlushAged
  BY DEF MainStep, Poll, NextJob, NextJobNone, NextJobTerminal, Submit, StartAcknowledged,
     StartFailed, Heartbeat, HeartbeatTerminal, FlushStops, SpoolKept, FlushDone, LoopEnds, Exit
<1>2. \A t \in Threads : ReportStep(t) => UNCHANGED spool \/ SpoolReport(t)
  BY DEF ReportStep, Report, SpoolRefuses
<1>3. \A j \in Jobs : WorkerStep(j) \/ MonitorStep(j) => UNCHANGED spool
  BY DEF WorkerStep, OwnStep, ModuleReturns,
     Begin, Acquire, AcquireFails, CheckCancelled, Execute, ModuleSucceeds,
     ModuleFails, ClassifyCancelled, ClassifyContext, Release, Leave, MonitorStep,
     MonitorObserves, MonitorCancels, MonitorEnds, Deadline
<1>4. Environment => UNCHANGED spool
  BY DEF Environment, Signal, Restart, Revoke, Exited, CancelJob, Expire, vars
<1>5. QED
  BY <1>1, <1>2, <1>3, <1>4 DEF Next

\* A report at the end of the spool.
LEMMA SpoolAppended ==
  ASSUME NoCounts, NEW t \in Threads, SpoolReport(t), NEW j \in Jobs
  PROVE  Spooled(j)' <=> Spooled(j) \/ j = thread[t].job
<1> DEFINE item == [job |-> thread[t].job, code |-> thread[t].code]
<1>1. thread[t].job \in Jobs /\ thread[t].code \in Codes
  BY DEF SpoolReport, NoCounts, Bound, Threads, ReportPCs
<1>2. spool \in Seq([job : Jobs, code : Codes]) /\ item \in [job : Jobs, code : Codes]
  BY <1>1 DEF NoCounts, Typed
<1>3. spool' = Append(spool, item) /\ item.job = thread[t].job
  BY DEF SpoolReport
<1> HIDE DEF item
<1>4. /\ DOMAIN spool = 1 .. Len(spool) /\ DOMAIN spool' = 1 .. Len(spool) + 1
      /\ Len(spool) \in Nat
      /\ \A i \in 1 .. Len(spool) : spool'[i] = spool[i]
      /\ spool'[Len(spool) + 1] = item
  BY <1>2, <1>3, LenProperties, AppendProperties
<1>5. ASSUME Spooled(j) PROVE Spooled(j)'
  BY <1>4, <1>5 DEF Spooled
<1>6. ASSUME j = thread[t].job PROVE Spooled(j)'
  BY <1>3, <1>4, <1>6 DEF Spooled
<1>7. ASSUME Spooled(j)' PROVE Spooled(j) \/ j = thread[t].job
  <2>1. PICK i \in DOMAIN spool' : spool'[i].job = j
    BY <1>7 DEF Spooled
  <2>2. i \in 1 .. Len(spool) \/ i = Len(spool) + 1
    BY <1>4, <2>1
  <2>3. QED
    BY <1>3, <1>4, <2>1, <2>2 DEF Spooled
<1>8. QED
  BY <1>5, <1>6, <1>7

\* The oldest report leaves the spool.
LEMMA SpoolShortened ==
  ASSUME NoCounts, spool # <<>>, spool' = Tail(spool), NEW j \in Jobs
  PROVE  /\ Spooled(j) => Spooled(j)' \/ j = Head(spool).job
         /\ Spooled(j)' => Spooled(j)
         /\ Head(spool).job \in Jobs /\ Spooled(Head(spool).job)
<1>1. spool \in Seq([job : Jobs, code : Codes])
  BY DEF NoCounts, Typed
<1>2. /\ Len(spool) \in Nat /\ DOMAIN spool = 1 .. Len(spool) /\ Len(spool) # 0
      /\ DOMAIN spool' = 1 .. Len(spool) - 1
      /\ \A k \in 1 .. Len(spool) - 1 : spool'[k] = spool[k + 1]
      /\ Head(spool) = spool[1]
  BY <1>1, LenProperties, HeadTailProperties, EmptySeq
<1>3. ASSUME Spooled(j), j # Head(spool).job PROVE Spooled(j)'
  <2>1. PICK i \in DOMAIN spool : spool[i].job = j
    BY <1>3 DEF Spooled
  <2>2. i - 1 \in DOMAIN spool' /\ spool'[i - 1] = spool[i]
    BY <1>2, <1>3, <2>1
  <2>3. QED
    BY <2>1, <2>2 DEF Spooled
<1>4. ASSUME Spooled(j)' PROVE Spooled(j)
  BY <1>2, <1>4 DEF Spooled
<1>5. Spooled(Head(spool).job)
  BY <1>2 DEF Spooled
<1>6. QED
  BY <1>3, <1>4, <1>5, SpoolHead DEF NoCounts, Typed

\* Where the job that the main goroutine considers comes from.
LEMMA MainOffered ==
  ASSUME NoCounts, Next, thread'[Main].pc \in {"submit", "start"}
  PROVE  \/ thread'[Main] = thread[Main]
         \/ \E i \in Jobs : NextJob(i) /\ cp'[i] # "QUEUED" /\ thread'[Main].job = i
                            /\ thread'[Main].pc = "submit"
         \/ /\ Submit /\ SubmitCode(thread[Main].job) = None
            /\ thread'[Main].job = thread[Main].job
<1> USE Membership DEF NoCounts
<1> DEFINE P == \/ thread'[Main] = thread[Main]
                \/ \E i \in Jobs : NextJob(i) /\ cp'[i] # "QUEUED" /\ thread'[Main].job = i
                                   /\ thread'[Main].pc = "submit"
                \/ /\ Submit /\ SubmitCode(thread[Main].job) = None
                   /\ thread'[Main].job = thread[Main].job
<1>1. ASSUME NEW i \in Jobs, NextJob(i) PROVE P
  <2>1. cp'[i] # "QUEUED" /\ thread'[Main].job = i /\ thread'[Main].pc = "submit"
    BY <1>1, ExecutorAssumption DEF NextJob, Typed
  <2>2. QED
    BY <1>1, <2>1
<1>2. ASSUME Submit PROVE P
  BY <1>2, GotoEffect, ConcludeEffect DEF Submit
<1>3. ASSUME NEW p \in MainPCs \ {"submit", "start"}, Goto(Main, p) PROVE FALSE
  BY <1>3, GotoEffect
<1>4. ASSUME MainStep PROVE P
  <2>1. CASE StartAcknowledged
    BY <2>1, StartEffect DEF Idle
  <2>2. CASE StartFailed
    BY <2>2, ConcludeEffect DEF StartFailed
  <2>3. CASE UNCHANGED thread
    BY <2>3
  <2>4. CASE \E p \in MainPCs \ {"submit", "start"} : Goto(Main, p)
    BY <1>3, <2>4
  <2>5. QED
    BY <1>1, <1>2, <1>4, <2>1, <2>2, <2>3, <2>4 DEF MainStep, Poll, NextJobNone,
       NextJobTerminal, Halt, Heartbeat, HeartbeatTerminal, FlushSend, FlushAged, FlushStops,
       FlushDone, LoopEnds, Exit, MainPCs
<1>5. ASSUME NEW t \in Threads, ReportStep(t) PROVE thread'[Main] = thread[Main]
  BY <1>5, GotoEffect, RecordLastType DEF ReportStep, Report, SpoolReport, SpoolRefuses,
     ReportPCs
<1>6. ASSUME NEW i \in Jobs, WorkerStep(i) \/ MonitorStep(i) PROVE thread'[Main] = thread[Main]
  BY <1>6 DEF WorkerStep, OwnStep, ModuleReturns,
     Begin, Acquire, AcquireFails, CheckCancelled, Execute,
     ModuleSucceeds, ModuleFails, ClassifyCancelled, ClassifyContext, Release, Leave, Goto,
     Conclude, MonitorStep, MonitorObserves, MonitorCancels, MonitorEnds, Deadline, Typed
<1>7. ASSUME Environment PROVE thread'[Main] = thread[Main]
  <2>1. ~Restart
    BY DEF Restart, Idle
  <2>2. QED
    BY <1>7, <2>1 DEF Environment, Signal, Revoke, Exited, vars, CancelJob, Expire
<1>8. QED
  BY <1>4, <1>5, <1>6, <1>7 DEF Next

LEMMA AssignedStep ==
  ASSUME NoCounts, Assigned, Next
  PROVE  Assigned'
<1> USE Membership DEF NoCounts
<1> SUFFICES ASSUME NEW j \in Jobs, cp'[j] = "QUEUED"
             PROVE  /\ reports'[j] = {} /\ ~InHand(j)' /\ ~Spooled(j)'
                    /\ thread'[Main].pc \in {"submit", "start"} => thread'[Main].job # j
  BY DEF Assigned
<1>1. /\ cp[j] = "QUEUED" /\ reports[j] = {} /\ ~InHand(j) /\ ~Spooled(j)
      /\ thread[Main].pc \in {"submit", "start"} => thread[Main].job # j
  BY CallsForward DEF Assigned
<1>2. \A t \in Threads : thread[t].pc \in InHandPCs => thread[t].job # j
  BY <1>1 DEF InHand
<1>3. reports'[j] = {}
  <2>1. ASSUME NEW t \in Threads, NEW ok \in BOOLEAN, Report(t, ok) PROVE reports'[j] = {}
    <3>1. thread[t].job # j /\ thread[t].job \in Jobs
      BY <1>2, <2>1 DEF Report, InHandPCs, ReportPCs, Bound, Threads
    <3>2. QED
      BY <1>1, <2>1, <3>1 DEF Report, Typed
  <2>2. QED
    BY <1>1, <2>1, SentSteps
<1>4. ~InHand(j)'
  <2> SUFFICES ASSUME NEW t \in Threads, thread'[t].pc \in InHandPCs PROVE thread'[t].job # j
    BY DEF InHand
  <2>1. CASE t = Main /\ Rejects
    BY <1>1, <2>1 DEF Rejects, Submit, StartFailed
  <2>2. CASE StartAcknowledged /\ t = thread[Main].job /\ thread'[t].job = t
    BY <1>1, <2>2 DEF StartAcknowledged
  <2>3. QED
    BY <1>2, <2>1, <2>2, HandTaken
<1>5. ~Spooled(j)'
  <2>1. CASE UNCHANGED spool
    BY <1>1, <2>1 DEF Spooled
  <2>2. CASE FlushSend \/ FlushAged
    BY <1>1, <2>2, SpoolShortened DEF FlushSend, FlushAged
  <2>3. ASSUME NEW t \in Threads, SpoolReport(t) PROVE ~Spooled(j)'
    BY <1>1, <1>2, <2>3, SpoolAppended DEF SpoolReport, InHandPCs, ReportPCs
  <2>4. QED
    BY <2>1, <2>2, <2>3, SpoolSteps
<1>6. ASSUME thread'[Main].pc \in {"submit", "start"} PROVE thread'[Main].job # j
  BY <1>1, <1>6, MainOffered DEF Submit
<1>7. QED
  BY <1>3, <1>4, <1>5, <1>6

\* Only a start makes a job run.
LEMMA RunningSteps ==
  ASSUME NoCounts, Next, NEW j \in Jobs, cp'[j] = "RUNNING", cp[j] # "RUNNING"
  PROVE  (StartAcknowledged \/ StartFailed) /\ j = thread[Main].job
<1> USE Membership DEF NoCounts
<1> DEFINE P == (StartAcknowledged \/ StartFailed) /\ j = thread[Main].job
<1>1. ~UNCHANGED cp
  OBVIOUS
<1>2. ASSUME NEW i \in Jobs, NEW s, s # "RUNNING", cp' = [cp EXCEPT ![i] = s] PROVE FALSE
  BY <1>2 DEF Typed
<1>3. ASSUME NEW i \in Jobs, NEW code, NEW ok, SendReport(i, code, ok) PROVE FALSE
  BY <1>3, SendReportKeeps
<1>4. ASSUME MainStep PROVE P
  <2>1. ASSUME NEW i \in Jobs, NextJob(i) PROVE FALSE
    BY <2>1, <1>2 DEF NextJob, Typed
  <2>2. ~NextJobNone
    BY <1>1, <1>2 DEF NextJobNone
  <2>3. CASE StartAcknowledged \/ StartFailed
    <3>1. thread[Main].job \in Jobs
      BY <2>3 DEF Bound, StartAcknowledged, StartFailed
    <3>2. \E s : cp' = [cp EXCEPT ![thread[Main].job] = s]
      BY <1>1, <2>3 DEF StartAcknowledged, StartFailed, Call
    <3>3. QED
      BY <2>3, <3>1, <3>2 DEF Typed
  <2>4. ~FlushSend /\ ~FlushStops
    <3>1. ASSUME FlushSend \/ FlushStops PROVE FALSE
      <4>1. spool # <<>> /\ \E ok \in BOOLEAN : SendReport(Head(spool).job, Head(spool).code, ok)
        BY <3>1 DEF FlushSend, FlushStops
      <4>2. QED
        BY <1>3, <4>1, SpoolHead DEF Typed
    <3>2. QED
      BY <3>1
  <2>5. QED
    BY <1>1, <1>4, <2>1, <2>2, <2>3, <2>4 DEF MainStep, Poll, NextJobTerminal, Submit, Heartbeat,
       HeartbeatTerminal, FlushAged, FlushDone, LoopEnds, Exit, cpVars
<1>5. ASSUME NEW t \in Threads, ReportStep(t) PROVE FALSE
  <2>1. ASSUME NEW ok \in BOOLEAN, Report(t, ok) PROVE FALSE
    <3>1. thread[t].job \in Jobs /\ SendReport(thread[t].job, thread[t].code, ok)
      BY <2>1 DEF Report, ReportPCs, Bound, Threads
    <3>2. QED
      BY <1>3, <3>1
  <2>2. QED
    BY <1>1, <1>5, <2>1 DEF ReportStep, SpoolReport, SpoolRefuses, cpVars
<1>6. ASSUME NEW i \in Jobs, WorkerStep(i) \/ MonitorStep(i) PROVE FALSE
  BY <1>1, <1>6 DEF WorkerStep, OwnStep, ModuleReturns,
     Begin, Acquire, AcquireFails, CheckCancelled, Execute,
     ModuleSucceeds, ModuleFails, ClassifyCancelled, ClassifyContext, Release, Leave,
     MonitorStep, MonitorObserves, MonitorCancels, MonitorEnds, Deadline, cpVars
<1>7. ASSUME Environment PROVE FALSE
  BY <1>1, <1>2, <1>7 DEF Environment, Signal, Restart, Revoke, Exited, vars, CancelJob, Expire,
     cpVars
<1>8. QED
  BY <1>4, <1>5, <1>6, <1>7 DEF Next

LEMMA OrphanStep ==
  ASSUME NoCounts, Assigned, NoJobOrphaned, Next
  PROVE  NoJobOrphaned'
<1> USE Membership DEF NoCounts
<1> SUFFICES ASSUME NEW j \in Jobs,
                    cp'[j] = "RUNNING" \/ (reports'[j] # {} /\ cp'[j] \notin Terminal)
             PROVE  InHand(j)' \/ Spooled(j)' \/ j \in lost'
  BY DEF NoJobOrphaned
<1> DEFINE Due == cp[j] = "RUNNING" \/ (reports[j] # {} /\ cp[j] \notin Terminal)
<1>1. Forward
  BY ForwardStep
<1>2. Due => InHand(j) \/ Spooled(j) \/ j \in lost
  BY DEF NoJobOrphaned
<1>3. j \in lost => j \in lost'
  BY <1>1 DEF Forward
<1>4. UNCHANGED reports => Due \/ ((StartAcknowledged \/ StartFailed) /\ j = thread[Main].job)
  BY <1>1, RunningSteps DEF Forward
<1>5. CASE Restart
  <2>1. InHand(j) => j \in lost'
    BY <1>5 DEF Restart, InHand
  <2>2. Due /\ UNCHANGED spool
    BY <1>5 DEF Restart, cpVars
  <2>3. QED
    BY <1>2, <1>3, <2>1, <2>2 DEF Spooled
<1>6. ASSUME NEW t \in Threads, SpoolReport(t) \/ SpoolRefuses(t)
      PROVE  InHand(j)' \/ Spooled(j)' \/ j \in lost'
  <2>1. Due
    BY <1>6 DEF SpoolReport, SpoolRefuses, cpVars, historyVars
  <2>2. j = thread[t].job => Spooled(j)' \/ j \in lost'
    BY <1>6, SpoolAppended DEF SpoolRefuses
  <2>3. Spooled(j) => Spooled(j)'
    BY <1>6, SpoolAppended DEF SpoolRefuses, Spooled
  <2>4. \A u \in Threads : u # t => thread'[u] = thread[u]
    BY <1>6, RecordLastType DEF SpoolReport, SpoolRefuses, ReportPCs
  <2>5. InHand(j) /\ j # thread[t].job => InHand(j)'
    BY <2>4 DEF InHand
  <2>6. QED
    BY <1>2, <1>3, <2>1, <2>2, <2>3, <2>5
<1>7. ASSUME NEW t \in Threads, NEW ok \in BOOLEAN, Report(t, ok)
      PROVE  InHand(j)' \/ Spooled(j)' \/ j \in lost'
  <2> DEFINE i == thread[t].job
  <2>1. i \in Jobs /\ thread[t].pc = "report" /\ SendReport(i, thread[t].code, ok)
    BY <1>7 DEF Report, Bound, Threads, ReportPCs
  <2>2. \A u \in Threads : u # t => thread'[u] = thread[u]
    BY <1>7, <2>1, RecordLastType, GotoEffect DEF Report, ReportPCs
  <2>3. CASE j = i
    <3>1. cp[j] # "QUEUED"
      BY <2>1, <2>3 DEF Assigned, InHand, InHandPCs, ReportPCs
    <3>2. ~ok
      BY <2>1, <2>3, <3>1, SendReportKeeps DEF Terminal
    <3>3. thread'[t].pc = "spool" /\ thread'[t].job = j
      BY <1>7, <2>3, <3>2, GotoEffect DEF Report
    <3>4. QED
      BY <3>3 DEF InHand, InHandPCs, ReportPCs
  <2>4. CASE j # i
    <3>1. cp'[j] = cp[j] /\ reports'[j] = reports[j] /\ UNCHANGED <<spool, lost>>
      BY <1>7, <2>1, <2>4 DEF Report, SendReport, Call, Typed
    <3>2. InHand(j) => InHand(j)'
      BY <2>2, <2>4 DEF InHand
    <3>3. QED
      BY <1>2, <3>1, <3>2 DEF Spooled
  <2>5. QED
    BY <2>3, <2>4
<1>8. ASSUME ~Restart, \A t \in Threads : ~HandsOver(t), UNCHANGED reports
      PROVE  InHand(j)' \/ Spooled(j)' \/ j \in lost'
  <2>1. InHand(j) => InHand(j)'
    BY <1>8, HandKept DEF InHand
  <2>2. CASE (StartAcknowledged \/ StartFailed) /\ j = thread[Main].job
    <3>1. CASE StartAcknowledged
      BY <2>2, <3>1, StartEffect DEF InHand, InHandPCs
    <3>2. CASE StartFailed
      BY <2>2, <3>2, ConcludeEffect DEF StartFailed, InHand, InHandPCs, ReportPCs
    <3>3. QED
      BY <2>2, <3>1, <3>2
  <2>3. CASE Due
    <3>1. CASE UNCHANGED spool
      BY <1>2, <1>3, <2>1, <2>3, <3>1 DEF Spooled
    <3>2. CASE FlushSend
      <4>1. /\ spool # <<>> /\ spool' = Tail(spool)
            /\ SendReport(Head(spool).job, Head(spool).code, TRUE)
        BY <3>2 DEF FlushSend
      <4>2. /\ Spooled(j) => Spooled(j)' \/ j = Head(spool).job
            /\ Head(spool).job \in Jobs /\ Spooled(Head(spool).job)
        BY <4>1, SpoolShortened
      <4>3. j # Head(spool).job
        BY <4>1, <4>2, SendReportKeeps DEF Assigned, Terminal
      <4>4. QED
        BY <1>2, <1>3, <2>1, <2>3, <4>2, <4>3
    <3>3. CASE FlushAged
      BY <1>2, <1>3, <2>1, <2>3, <3>3, SpoolShortened DEF FlushAged
    <3>4. QED
      BY <1>8, <3>1, <3>2, <3>3, SpoolSteps DEF HandsOver
  <2>4. QED
    BY <1>4, <1>8, <2>2, <2>3
<1>9. QED
  BY <1>5, <1>6, <1>7, <1>8, SentSteps DEF HandsOver

\* A job that the Control Plane believes to be running, or to which a report was
\* sent that it did not act on, is in hand, spooled or a loss that the code
\* accepts, for any number of jobs, restarts, redeliveries and lost calls.
THEOREM NoJobForgotten == Spec => []NoJobOrphaned
<1>1. Init => Assigned /\ NoJobOrphaned
  <2>1. ASSUME Init
        PROVE  /\ spool = <<>> /\ \A j \in Jobs : reports[j] = {} /\ cp[j] = "QUEUED"
               /\ \A t \in Threads : thread[t].pc \in {"idle", "select"}
    BY <2>1 DEF Init, Idle
  <2>2. QED
    BY <2>1, Membership DEF Assigned, NoJobOrphaned, InHand, Spooled, InHandPCs, ReportPCs
<1>2. IndInv /\ Assigned /\ NoJobOrphaned /\ [Next]_vars => (Assigned /\ NoJobOrphaned)'
  <2>1. ASSUME IndInv, Assigned, NoJobOrphaned, Next PROVE (Assigned /\ NoJobOrphaned)'
    <3>1. NoCounts
      BY <2>1 DEF IndInv, NoCounts
    <3>2. QED
      BY <2>1, <3>1, AssignedStep, OrphanStep
  <2>2. ASSUME Assigned, NoJobOrphaned, UNCHANGED vars PROVE (Assigned /\ NoJobOrphaned)'
    BY <2>2 DEF Assigned, NoJobOrphaned, InHand, Spooled, vars
  <2>3. QED
    BY <2>1, <2>2
<1>3. QED
  BY <1>1, <1>2, Invariance, PTL DEF Spec

-----------------------------------------------------------------------------
(* The Control Plane hears one verdict of an execution.                     *)

VerdictInv == VerdictAtEnd /\ OneVerdict

\* A started job does not become unstarted again.
LEMMA StartedStays ==
  ASSUME Started, Next, NEW j \in Jobs, cp'[j] \in Unstarted
  PROVE  cp[j] \in Unstarted
<1>1. [Ledger!Next]_<<cp, executed>> /\ cp \in [Jobs -> JobStates]
  BY StepRefines DEF Started, IndInv, Typed
<1>2. ASSUME NEW i \in Jobs, NEW c, Ledger!Become(i, c)
      PROVE  cp'[j] = IF i = j THEN c ELSE cp[j]
  BY <1>1, <1>2 DEF Ledger!Become
<1>3. ASSUME NEW i \in Jobs,
             \/ Ledger!Start(i) \/ Ledger!Succeed(i) \/ Ledger!Fail(i) \/ Ledger!Cancel(i)
      PROVE  i # j
  BY <1>2, <1>3 DEF Ledger!Start, Ledger!Succeed, Ledger!Fail, Ledger!Cancel, Unstarted
<1>4. QED
  BY <1>1, <1>2, <1>3 DEF Ledger!Next, Ledger!Assign, Ledger!Start, Ledger!Execute,
     Ledger!Succeed, Ledger!Fail, Ledger!Cancel, Unstarted

\* Who sends a report of job j: main, or the execution of j.
LEMMA Reporters ==
  ASSUME NoCounts, Next, NEW j \in Jobs
  PROVE  \/ reports'[j] = reports[j]
         \/ /\ thread[Main].pc = "report" /\ thread[Main].job = j
            /\ reports'[j] = reports[j] \cup {Kind(Main, thread[Main].code)}
         \/ /\ thread[j].pc = "report"
            /\ reports'[j] = reports[j] \cup {Kind(j, thread[j].code)}
<1> USE Membership DEF NoCounts
<1>1. CASE UNCHANGED reports
  BY <1>1
<1>2. ASSUME NEW t \in Threads, NEW ok \in BOOLEAN, Report(t, ok), thread[t].job # j
      PROVE  reports'[j] = reports[j]
  BY <1>2 DEF Report, Typed
<1>3. ASSUME NEW t \in Threads, NEW ok \in BOOLEAN, Report(t, ok), thread[t].job = j
      PROVE  /\ t = Main \/ t = j
             /\ thread[t].pc = "report"
             /\ reports'[j] = reports[j] \cup {Kind(t, thread[t].code)}
  BY <1>3 DEF Report, Typed, Bound, Threads
<1>4. QED
  BY <1>1, <1>2, <1>3, SentSteps

\* Only the execution of a job sends a verdict on it.
LEMMA VerdictSteps ==
  ASSUME NoCounts, VerdictAtEnd, Next, NEW j \in Jobs
  PROVE  \/ Verdicts(j)' = Verdicts(j)
         \/ /\ thread[j].pc = "report"
            /\ Verdicts(j)' = Verdicts(j) \cup {Kind(j, thread[j].code)}
<1>1. thread[Main].pc = "report" => Kind(Main, thread[Main].code) = "refusal"
  BY DEF VerdictAtEnd, ReportPCs, Kind
<1>2. Kind(j, thread[j].code) \in {"result", "failure"}
  BY Membership DEF Kind
<1>3. QED
  BY <1>1, <1>2, Reporters DEF Verdicts

LEMMA VerdictStep ==
  ASSUME NoCounts, Started, VerdictInv, Next
  PROVE  VerdictInv'
<1> USE Membership DEF NoCounts, VerdictInv
<1>1. \A j \in Jobs : cp'[j] \in Unstarted => Verdicts(j)' = {}
  <2> SUFFICES ASSUME NEW j \in Jobs, cp'[j] \in Unstarted PROVE Verdicts(j)' = {}
    OBVIOUS
  <2>1. cp[j] \in Unstarted
    BY StartedStays
  <2>2. thread[j].pc = "idle" /\ Verdicts(j) = {}
    BY <2>1 DEF Started, StartedOnce, VerdictAtEnd
  <2>3. QED
    BY <2>2, VerdictSteps
<1>2. ASSUME NEW j \in Jobs
      PROVE  /\ thread'[j].pc \in InHandPCs \ ReportPCs => Verdicts(j)' = {}
             /\ thread'[j].pc \in ReportPCs => Verdicts(j)' \subseteq {Kind(j, thread'[j].code)}
  <2> SUFFICES ASSUME thread'[j].pc \in InHandPCs
               PROVE  /\ thread'[j].pc \notin ReportPCs => Verdicts(j)' = {}
                      /\ thread'[j].pc \in ReportPCs =>
                           Verdicts(j)' \subseteq {Kind(j, thread'[j].code)}
    BY DEF InHandPCs
  <2>1. CASE thread[j].pc \in InHandPCs \ ReportPCs
    BY <2>1, VerdictSteps DEF VerdictAtEnd, ReportPCs
  <2>2. CASE thread[j].pc \in ReportPCs
    <3>1. Verdicts(j)' \subseteq {Kind(j, thread[j].code)}
      BY <2>2, VerdictSteps DEF VerdictAtEnd
    <3>2. thread'[j].pc \in ReportPCs
      BY <2>2, HandTaken, StartEffect DEF InHandPCs, ReportPCs
    <3>3. Continues(j)
      BY <2>2, <3>2, ReportsBegin DEF Concludes
    <3>4. QED
      BY <3>1, <3>2, <3>3 DEF Continues
  <2>3. CASE thread[j].pc \notin InHandPCs
    <3>1. StartAcknowledged /\ j = thread[Main].job
      BY <2>3, HandTaken
    <3>2. cp[j] \in Unstarted /\ UNCHANGED reports
      BY <3>1 DEF StartAcknowledged, Call, StartAccepts, Unstarted, historyVars
    <3>3. QED
      BY <3>2 DEF VerdictAtEnd, Verdicts
  <2>4. QED
    BY <2>1, <2>2, <2>3
<1>3. thread'[Main].pc \in ReportPCs => thread'[Main].code # "SUCCEEDED"
  BY ReportsBegin, RejectionCode DEF Continues, Rejects, VerdictAtEnd
<1>4. OneVerdict'
  <2> SUFFICES ASSUME NEW j \in Jobs PROVE ~({"result", "failure"} \subseteq Verdicts(j)')
    BY DEF OneVerdict, Verdicts
  <2>1. ~({"result", "failure"} \subseteq Verdicts(j))
    BY DEF OneVerdict, Verdicts
  <2>2. thread[j].pc = "report" => Verdicts(j) \subseteq {Kind(j, thread[j].code)}
    BY DEF VerdictAtEnd, ReportPCs
  <2>3. QED
    BY <2>1, <2>2, VerdictSteps
<1>5. VerdictAtEnd'
  BY <1>1, <1>2, <1>3 DEF VerdictAtEnd
<1>6. QED
  BY <1>4, <1>5

\* An execution that sent a result sends no failure and no second execution of
\* the job contradicts it: for any number of jobs and restarts, any redelivery
\* of running jobs, any nonce cache and whatever is lost, spooled or cancelled.
THEOREM ExecutionHasOneVerdict == Spec => []OneVerdict
<1>1. Init => VerdictInv
  <2>1. ASSUME Init
        PROVE  /\ \A j \in Jobs : reports[j] = {}
               /\ \A t \in Threads : thread[t].pc \in {"idle", "select"}
    BY <2>1 DEF Init, Idle
  <2>2. QED
    BY <2>1, Membership DEF VerdictInv, VerdictAtEnd, OneVerdict, Verdicts, InHandPCs, ReportPCs
<1>2. IndInv /\ (StartedOnce /\ ResultsRan) /\ VerdictInv /\ [Next]_vars => VerdictInv'
  <2>1. ASSUME IndInv, StartedOnce, ResultsRan, VerdictInv, Next PROVE VerdictInv'
    <3>1. NoCounts /\ Started
      BY <2>1 DEF IndInv, NoCounts, Started
    <3>2. QED
      BY <2>1, <3>1, VerdictStep
  <2>2. ASSUME VerdictInv, UNCHANGED vars PROVE VerdictInv'
    BY <2>2 DEF VerdictInv, VerdictAtEnd, OneVerdict, Verdicts, vars
  <2>3. QED
    BY <2>1, <2>2
<1>3. VerdictInv => OneVerdict
  BY DEF VerdictInv
<1>4. QED
  BY <1>1, <1>2, <1>3, Invariance, ResultsInvariance, PTL DEF Spec
=============================================================================
