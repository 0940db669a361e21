---------------------------- MODULE ToolRunProofs ----------------------------
(***************************************************************************)
(* Proofs about ToolRun, for buffers, pipes and outputs of any size, words *)
(* and addresses of any width, and any order in which the tool, the        *)
(* processes it forks, exec's goroutines and the context take their steps. *)
(***************************************************************************)
EXTENDS ToolRun, TLAPS

-----------------------------------------------------------------------------
(* The inductive invariant.                                                 *)

\* TypeOK with the counters as functions; Write always returns the full count,
\* so no copier has failed.
Typed ==
  /\ job \in Requests
  /\ pc \in {"validate", "execute", "running", "returned", "normalize", "done"}
  /\ ctx \in {"live", "done"}
  /\ child \in {"none", "alive", "succeeded", "failed", "killed"}
  /\ helper \in BOOLEAN
  /\ written \in [Streams -> Nat] /\ pipe \in [Streams -> Nat]
  /\ taken \in [Streams -> Nat] /\ kept \in [Streams -> Nat]
  /\ copier \in [Streams -> {"off", "copying", "ended"}]
  /\ truncated \in [Streams -> BOOLEAN]
  /\ runErr \in BOOLEAN

\* Every byte that was written is in the pipe or was given to the buffer, and a
\* copier ends with an empty pipe.
Flow ==
  \A s \in Streams :
    /\ written[s] = pipe[s] + taken[s]
    /\ written[s] <= job.prints[s]
    /\ pipe[s] <= PipeSize
    /\ copier[s] = "ended" => pipe[s] = 0

\* What holds of the tool, its copiers and the error at each step of the module.
Phases ==
  /\ pc \in {"validate", "execute"} => child = "none" /\ \A s \in Streams : copier[s] = "off"
  /\ pc \in {"validate", "execute", "running", "normalize"} => ~runErr
  /\ pc \in {"returned", "normalize", "done"} =>
       child # "alive" /\ \A s \in Streams : copier[s] # "copying"
  /\ pc \in {"returned", "normalize"} /\ ~runErr /\ job.kind \in External =>
       \A s \in Streams : copier[s] = "ended"
  /\ child = "killed" => ctx = "done"

\* An unmarked result was made from the whole output.
UnmarkedComplete == pc = "normalize" /\ ~result.truncated => Complete

\* nmap goes on with a network that passed cidrWithinLimit.
Checked ==
  pc \notin {"validate", "done"} /\ job.target = "cidr" =>
    CidrWithinLimit(job.hostBits, job.maxHosts)

ToolInv ==
  /\ Typed
  /\ Flow
  /\ BuffersExact
  /\ Phases
  /\ FailureJustified
  /\ UnmarkedComplete
  /\ TruncationTold
  /\ Checked

-----------------------------------------------------------------------------
(* Operators.                                                               *)

\* The smaller of two integers.
LEMMA MinOfPair ==
  ASSUME NEW a \in Int, NEW b \in Int
  PROVE  Min({a, b}) = IF a <= b THEN a ELSE b
<1>1. \E x \in {a, b} : \A y \in {a, b} : x =< y
  OBVIOUS
<1>2. \A x \in {a, b} : (\A y \in {a, b} : x =< y) => x = IF a <= b THEN a ELSE b
  OBVIOUS
<1>3. QED
  BY <1>1, <1>2 DEF Min

LEMMA LimitType ==
  ASSUME NEW s \in Streams
  PROVE  Limit[s] \in Nat \ {0}
BY ToolRunAssumption DEF Limit, Streams

\* boundedBuffer.Write: a buffer with the first bytes up to its limit has them
\* after n more, and the bytes beyond the limit are those that do not fit.
LEMMA WriteExact ==
  ASSUME NEW s \in Streams, NEW n \in Nat, kept[s] \in Nat, taken[s] \in Nat,
         kept[s] = Min({taken[s], Limit[s]})
  PROVE  /\ kept[s] + Stored(s, n) = Min({taken[s] + n, Limit[s]})
         /\ Stored(s, n) \in Nat
         /\ taken[s] > Limit[s] \/ Overflows(s, n) <=> taken[s] + n > Limit[s]
<1>1. Limit[s] \in Nat \ {0}
  BY LimitType
<1>2. kept[s] = IF taken[s] <= Limit[s] THEN taken[s] ELSE Limit[s]
  BY <1>1, MinOfPair
<1>3. Stored(s, n) = IF Limit[s] - kept[s] > 0
                     THEN IF n <= Limit[s] - kept[s] THEN n ELSE Limit[s] - kept[s] ELSE 0
  BY <1>1, MinOfPair DEF Stored, Remaining
<1>4. Min({taken[s] + n, Limit[s]}) = IF taken[s] + n <= Limit[s] THEN taken[s] + n ELSE Limit[s]
  BY <1>1, MinOfPair
<1>5. Overflows(s, n) <=> n > Limit[s] - kept[s]
  BY DEF Overflows, Remaining
<1>6. kept[s] + Stored(s, n) = Min({taken[s] + n, Limit[s]}) /\ Stored(s, n) \in Nat
  BY <1>1, <1>2, <1>3, <1>4
<1>7. taken[s] > Limit[s] \/ n > Limit[s] - kept[s] <=> taken[s] + n > Limit[s]
  BY <1>1, <1>2
<1>8. QED
  BY <1>5, <1>6, <1>7

\* A body is read past the limit exactly when it is longer.
LEMMA BodyRead ==
  ASSUME job \in Requests
  PROVE  BodyExceeds <=> job.body > MaxResponse
<1>1. job.body \in Nat /\ MaxResponse \in Nat
  BY ToolRunAssumption DEF Requests
<1>2. QED
  BY <1>1, MinOfPair DEF BodyExceeds, BytesRead

-----------------------------------------------------------------------------
(* Steps.                                                                   *)

\* Steps of the module leave the tool, its pipes and its buffers alone, the start
\* of the tool apart.
LEMMA ModuleKeepsBuffers ==
  ASSUME ToolInv, ModuleStep
  PROVE  /\ job' = job
         /\ Typed' /\ Flow' /\ BuffersExact'
<1> USE DEF ToolInv
<1>1. CASE RunStarts
  <2>1. UNCHANGED <<job, ctx, helper, written, pipe, taken, kept, truncated, runErr>>
        /\ child' = "alive" /\ pc' = "running" /\ copier' = [s \in Streams |-> "copying"]
    BY <1>1 DEF RunStarts
  <2>2. QED
    BY <2>1 DEF Typed, Flow, BuffersExact
<1>2. CASE ~RunStarts
  <2>1. UNCHANGED <<job, ctx, toolVars>>
    BY <1>2 DEF ModuleStep, Validate, HttpReturns, DnsReturns, TcpReturns, TlsReturns,
       BuiltinReturns, BuiltinFails, RunCannotStart, RunReturns, PingReturns, RouteReturns,
       NmapReturns, ToolSucceeds, ToolFails, Normalize
  <2>2. pc' \in {"validate", "execute", "running", "returned", "normalize", "done"}
    BY <1>2 DEF ModuleStep, Validate, HttpReturns, DnsReturns, TcpReturns, TlsReturns,
       BuiltinReturns, BuiltinFails, RunCannotStart, RunReturns, PingReturns, RouteReturns,
       NmapReturns, ToolSucceeds, ToolFails, Normalize
  <2>3. runErr' \in BOOLEAN
    BY <1>2 DEF Typed, ModuleStep, Validate, HttpReturns, DnsReturns, TcpReturns, TlsReturns,
       BuiltinReturns, BuiltinFails, RunCannotStart, RunReturns, PingReturns, RouteReturns,
       NmapReturns, ToolSucceeds, ToolFails, Normalize
  <2>4. QED
    BY <2>1, <2>2, <2>3 DEF Typed, Flow, BuffersExact, toolVars
<1>3. QED
  BY <1>1, <1>2

\* The rest of the invariant, which a step of the module may disturb.
Told == Phases /\ FailureJustified /\ UnmarkedComplete /\ TruncationTold /\ Checked

LEMMA ModuleTold ==
  ASSUME ToolInv, ModuleStep
  PROVE  Told'
<1> USE DEF ToolInv, Told
<1>1. CASE Validate
  <2>1. UNCHANGED <<job, ctx, child, copier, written, kept, runErr, result>>
    BY <1>1 DEF Validate, toolVars
  <2>2. pc = "validate" /\ child = "none" /\ ~runErr /\ \A s \in Streams : copier[s] = "off"
    BY <1>1 DEF Validate, Phases
  <2>3. CASE Valid(job)
    <3>1. pc' = "execute" /\ (job.target = "cidr" => CidrWithinLimit(job.hostBits, job.maxHosts))
      BY <1>1, <2>3 DEF Validate, Valid
    <3>2. QED
      BY <2>1, <2>2, <3>1 DEF Phases, FailureJustified, UnmarkedComplete, TruncationTold,
         Checked, CidrWithinLimit, Shl
  <2>4. CASE ~Valid(job)
    <3>1. pc' = "done" /\ outcome'.status = "INVALID_JOB"
      BY <1>1, <2>4 DEF Validate, Rejected
    <3>2. QED
      BY <2>1, <2>2, <3>1 DEF Phases, FailureJustified, UnmarkedComplete, TruncationTold, Checked
  <2>5. QED
    BY <2>3, <2>4
<1>2. CASE HttpReturns \/ DnsReturns \/ TcpReturns \/ TlsReturns
  <2>1. /\ UNCHANGED <<job, ctx, toolVars, runErr, outcome>>
        /\ pc = "execute" /\ pc' = "normalize" /\ job.kind \in Builtin
        /\ job.kind = "http" => result' = [truncated |-> BodyExceeds]
    BY <1>2 DEF HttpReturns, DnsReturns, TcpReturns, TlsReturns, BuiltinReturns, Builtin
  <2>2. UNCHANGED <<job, ctx, child, copier, written, kept, runErr, outcome>>
    BY <2>1 DEF toolVars
  <2>3. pc = "execute" /\ pc' = "normalize"
    BY <2>1
  <2>4. child = "none" /\ ~runErr /\ \A s \in Streams : copier[s] = "off"
    BY <2>3 DEF Phases
  <2>5. job.kind \notin External
    BY <2>1 DEF External, Builtin
  <2>6. ~result'.truncated => Complete
    <3>1. job.body \in Nat /\ MaxResponse \in Nat
      BY ToolRunAssumption DEF Typed, Requests
    <3>2. job.kind = "http" /\ ~result'.truncated => ~BodyExceeds
      BY <2>1
    <3>3. job.kind = "http" /\ ~result'.truncated => job.body <= MaxResponse
      BY <3>1, <3>2, BodyRead DEF Typed
    <3>4. QED
      BY <2>5, <3>3 DEF Complete
  <2>7. UnmarkedComplete'
    BY <2>2, <2>3, <2>6 DEF UnmarkedComplete, Complete
  <2>8. Checked'
    BY <2>2, <2>3 DEF Checked, CidrWithinLimit, Shl
  <2>9. QED
    BY <2>2, <2>3, <2>4, <2>5, <2>7, <2>8 DEF Phases, FailureJustified, TruncationTold
<1>3. CASE BuiltinFails \/ ToolFails
  <2>1. UNCHANGED <<job, ctx, child, copier, written, kept, runErr, result>>
    BY <1>3 DEF BuiltinFails, ToolFails, toolVars
  <2>2. pc \in {"execute", "returned"} /\ pc' = "done" /\ outcome'.status = "FAILED"
    BY <1>3 DEF BuiltinFails, ToolFails, Rejected
  <2>3. QED
    BY <2>1, <2>2 DEF Phases, FailureJustified, UnmarkedComplete, TruncationTold, Checked
<1>4. CASE RunStarts
  <2>1. /\ UNCHANGED <<job, ctx, written, kept, runErr, result, outcome>>
        /\ child' = "alive" /\ pc = "execute" /\ pc' = "running"
    BY <1>4 DEF RunStarts
  <2>2. Checked'
    BY <2>1 DEF Checked, CidrWithinLimit, Shl
  <2>3. QED
    BY <2>1, <2>2 DEF Phases, FailureJustified, UnmarkedComplete, TruncationTold
<1>5. CASE RunCannotStart
  <2>1. /\ UNCHANGED <<job, ctx, child, copier, written, kept, result, outcome>>
        /\ runErr' = TRUE /\ pc = "execute" /\ pc' = "returned"
    BY <1>5 DEF RunCannotStart, toolVars
  <2>2. Checked'
    BY <2>1 DEF Checked, CidrWithinLimit, Shl
  <2>3. QED
    BY <2>1, <2>2 DEF Phases, FailureJustified, UnmarkedComplete, TruncationTold
<1>6. CASE RunReturns
  <2>1. /\ UNCHANGED <<job, ctx, child, copier, written, kept, result, outcome>>
        /\ pc = "running" /\ pc' = "returned" /\ child # "alive"
        /\ \A s \in Streams : copier[s] \in {"ended", "failed"}
    BY <1>6 DEF RunReturns, toolVars
  <2>2. \A s \in Streams : copier[s] = "ended"
    BY <2>1 DEF Typed
  <2>3. runErr' \in BOOLEAN /\ (runErr' => child # "succeeded" \/ ctx = "done")
    BY <1>6, <2>2 DEF RunReturns
  <2>4. Phases' /\ FailureJustified'
    BY <2>1, <2>2, <2>3 DEF Phases, FailureJustified, Typed
  <2>5. Checked'
    BY <2>1 DEF Checked, CidrWithinLimit, Shl
  <2>6. QED
    BY <2>1, <2>4, <2>5 DEF UnmarkedComplete, TruncationTold
<1>7. CASE PingReturns \/ RouteReturns \/ NmapReturns
  <2>1. PICK kind \in External : ToolSucceeds(kind)
    BY <1>7 DEF PingReturns, RouteReturns, NmapReturns, External
  <2>2. /\ UNCHANGED <<job, ctx, child, copier, written, kept, runErr, outcome>>
        /\ pc = "returned" /\ pc' = "normalize" /\ ~runErr /\ job.kind = kind
        /\ result'.truncated = OutputTruncated
    BY <2>1 DEF ToolSucceeds, toolVars
  <2>3. \A s \in Streams : copier[s] = "ended"
    BY <2>1, <2>2 DEF Phases
  <2>4. ~OutputTruncated => kept = written
    <3>1. SUFFICES ASSUME ~OutputTruncated, NEW s \in Streams PROVE kept[s] = written[s]
      BY DEF Typed
    <3>2. taken[s] = written[s] /\ taken[s] \in Nat
      BY <2>3 DEF Flow, Typed
    <3>3. Limit[s] \in Nat /\ taken[s] <= Limit[s]
      BY <3>1, <3>2, LimitType DEF OutputTruncated, BuffersExact, Streams
    <3>4. kept[s] = Min({taken[s], Limit[s]})
      BY DEF BuffersExact
    <3>5. QED
      BY <3>2, <3>3, <3>4, MinOfPair
  <2>5. job.kind # "http"
    BY <2>1, <2>2 DEF External
  <2>6. UnmarkedComplete'
    BY <2>2, <2>4, <2>5 DEF UnmarkedComplete, Complete
  <2>7. Checked'
    BY <2>2 DEF Checked, CidrWithinLimit, Shl
  <2>8. QED
    BY <2>2, <2>3, <2>6, <2>7 DEF Phases, FailureJustified, TruncationTold
<1>8. CASE Normalize
  <2>1. /\ UNCHANGED <<job, ctx, child, copier, written, kept, runErr, result>>
        /\ pc = "normalize" /\ pc' = "done"
        /\ outcome' \in {Succeeded(TRUE, result.truncated), Shortened, Rejected("INTERNAL_ERROR")}
    BY <1>8 DEF Normalize, toolVars
  <2>2. outcome'.status = "SUCCEEDED" /\ ~outcome'.truncated =>
          outcome'.details /\ ~result.truncated
    BY <2>1 DEF Succeeded, Shortened, Rejected
  <2>3. ~result.truncated => Complete'
    BY <2>1 DEF UnmarkedComplete, Complete
  <2>4. TruncationTold'
    BY <2>2, <2>3 DEF TruncationTold
  <2>5. QED
    BY <2>1, <2>4 DEF Phases, FailureJustified, UnmarkedComplete, Checked
<1>9. QED
  BY <1>1, <1>2, <1>3, <1>4, <1>5, <1>6, <1>7, <1>8 DEF ModuleStep

\* A round of io.Copy: the buffer stays exact and Write reports the full count.
LEMMA CopyStep ==
  ASSUME ToolInv, NEW s \in Streams, CopyChunk(s)
  PROVE  ToolInv'
<1> USE DEF ToolInv
<1>1. PICK n \in 1 .. pipe[s] :
        /\ pipe' = [pipe EXCEPT ![s] = @ - n]
        /\ taken' = [taken EXCEPT ![s] = @ + n]
        /\ kept' = [kept EXCEPT ![s] = @ + Stored(s, n)]
        /\ truncated' = [truncated EXCEPT ![s] = @ \/ Overflows(s, n)]
        /\ copier' = [copier EXCEPT ![s] = IF Returned(s, n) < n THEN "failed" ELSE @]
  BY DEF CopyChunk
<1>2. copier[s] = "copying" /\ UNCHANGED <<job, pc, ctx, child, helper, written, runErr, result, outcome>>
  BY DEF CopyChunk
<1>3. n \in Nat /\ kept[s] \in Nat /\ taken[s] \in Nat /\ pipe[s] \in Nat
  BY DEF Typed
<1>4. /\ kept[s] + Stored(s, n) = Min({taken[s] + n, Limit[s]})
      /\ Stored(s, n) \in Nat
      /\ taken[s] > Limit[s] \/ Overflows(s, n) <=> taken[s] + n > Limit[s]
  BY <1>3, WriteExact DEF BuffersExact
<1>5. copier' = copier
  BY <1>1, <1>3 DEF Typed, Returned
<1>6. Typed'
  <2>1. (truncated[s] \/ Overflows(s, n)) \in BOOLEAN
    OBVIOUS
  <2>2. truncated' \in [Streams -> BOOLEAN]
    BY <1>1, <2>1 DEF Typed
  <2>3. QED
    BY <1>1, <1>2, <1>3, <1>4, <1>5, <2>2 DEF Typed
<1>7. Flow'
  <2>1. SUFFICES ASSUME NEW t \in Streams
                 PROVE  /\ written[t] = pipe'[t] + taken'[t]
                        /\ written[t] <= job.prints[t]
                        /\ pipe'[t] <= PipeSize
                        /\ copier[t] = "ended" => pipe'[t] = 0
    BY <1>2, <1>5 DEF Flow
  <2>2. CASE t # s
    BY <1>1, <2>2 DEF Typed, Flow
  <2>3. CASE t = s
    <3>1. pipe'[s] = pipe[s] - n /\ taken'[s] = taken[s] + n
      BY <1>1 DEF Typed
    <3>2. written[s] = pipe[s] + taken[s] /\ written[s] <= job.prints[s] /\ pipe[s] <= PipeSize
      BY DEF Flow
    <3>3. QED
      BY <1>2, <1>3, <2>3, <3>1, <3>2, ToolRunAssumption
  <2>4. QED
    BY <2>2, <2>3
<1>8. BuffersExact'
  <2>1. SUFFICES ASSUME NEW t \in Streams
                 PROVE  kept'[t] = Min({taken'[t], Limit[t]}) /\ (truncated'[t] <=> taken'[t] > Limit[t])
    BY DEF BuffersExact
  <2>2. CASE t # s
    BY <1>1, <2>2 DEF BuffersExact, Typed
  <2>3. CASE t = s
    <3>1. kept'[s] = kept[s] + Stored(s, n) /\ taken'[s] = taken[s] + n
          /\ (truncated'[s] <=> truncated[s] \/ Overflows(s, n))
      BY <1>1 DEF Typed
    <3>2. QED
      BY <1>4, <2>3, <3>1 DEF BuffersExact
  <2>4. QED
    BY <2>2, <2>3
<1>9. pc \notin {"normalize", "done"}
  BY <1>2 DEF Phases
<1>10. QED
  BY <1>2, <1>5, <1>6, <1>7, <1>8, <1>9 DEF Phases, FailureJustified, UnmarkedComplete,
     TruncationTold, Checked, CidrWithinLimit, Shl

\* The tool prints a byte into a pipe that has room.
LEMMA PrintStep ==
  ASSUME ToolInv, NEW s \in Streams, Prints(s)
  PROVE  ToolInv'
<1> USE DEF ToolInv
<1>1. /\ written' = [written EXCEPT ![s] = @ + 1] /\ pipe' = [pipe EXCEPT ![s] = @ + 1]
      /\ written[s] < job.prints[s] /\ pipe[s] < PipeSize /\ copier[s] = "copying"
      /\ UNCHANGED <<job, pc, ctx, child, helper, copier, taken, kept, truncated, runErr,
                     result, outcome>>
  BY DEF Prints
<1>2. Typed'
  BY <1>1 DEF Typed
<1>3. Flow'
  <2>1. SUFFICES ASSUME NEW t \in Streams
                 PROVE  /\ written'[t] = pipe'[t] + taken[t]
                        /\ written'[t] <= job.prints[t]
                        /\ pipe'[t] <= PipeSize
                        /\ copier[t] = "ended" => pipe'[t] = 0
    BY <1>1 DEF Flow
  <2>2. CASE t # s
    BY <1>1, <2>2 DEF Typed, Flow
  <2>3. CASE t = s
    <3>1. written'[s] = written[s] + 1 /\ pipe'[s] = pipe[s] + 1
      BY <1>1 DEF Typed
    <3>2. /\ written[s] \in Nat /\ pipe[s] \in Nat /\ taken[s] \in Nat
          /\ job.prints[s] \in Nat /\ PipeSize \in Nat
      BY ToolRunAssumption DEF Typed, Requests
    <3>3. written[s] = pipe[s] + taken[s]
      BY DEF Flow
    <3>4. QED
      BY <1>1, <2>3, <3>1, <3>2, <3>3
  <2>4. QED
    BY <2>2, <2>3
<1>4. pc \notin {"normalize", "done"}
  BY <1>1 DEF Phases
<1>5. QED
  BY <1>1, <1>2, <1>3, <1>4 DEF BuffersExact, Phases, FailureJustified, UnmarkedComplete,
     TruncationTold, Checked, CidrWithinLimit, Shl

\* A copier sees the end of its pipe.
LEMMA CopyEndStep ==
  ASSUME ToolInv, NEW s \in Streams, CopyEnds(s)
  PROVE  ToolInv'
<1> USE DEF ToolInv
<1>1. /\ copier' = [copier EXCEPT ![s] = "ended"] /\ copier[s] = "copying" /\ pipe[s] = 0
      /\ UNCHANGED <<job, pc, ctx, child, helper, written, pipe, taken, kept, truncated,
                     runErr, result, outcome>>
  BY DEF CopyEnds
<1>2. Typed' /\ Flow' /\ BuffersExact'
  BY <1>1 DEF Typed, Flow, BuffersExact
<1>3. pc = "running"
  BY <1>1 DEF Phases, Typed
<1>4. QED
  BY <1>1, <1>2, <1>3 DEF Phases, FailureJustified, UnmarkedComplete, TruncationTold, Checked,
     CidrWithinLimit, Shl

\* Steps of the tool's processes and of the context.
LEMMA ProcessStep ==
  ASSUME ToolInv, ToolForks \/ ToolExits \/ HelperExits \/ ContextDone \/ Kill
  PROVE  ToolInv'
<1> USE DEF ToolInv
<1>1. UNCHANGED <<job, pc, written, pipe, copier, taken, kept, truncated, runErr, result, outcome>>
  BY DEF ToolForks, ToolExits, HelperExits, ContextDone, Kill, toolVars
<1>2. helper' \in BOOLEAN
  BY DEF Typed, ToolForks, ToolExits, HelperExits, ContextDone, Kill, toolVars
<1>3. /\ ctx' \in {ctx, "done"}
      /\ \/ child' = child
         \/ child = "alive" /\ child' \in {"succeeded", "failed"}
         \/ child = "alive" /\ child' = "killed" /\ ctx = "done"
      /\ child' = "killed" => ctx' = "done"
  BY DEF Phases, ToolForks, ToolExits, HelperExits, ContextDone, Kill, toolVars
<1>4. Typed' /\ Flow' /\ BuffersExact'
  BY <1>1, <1>2, <1>3 DEF Typed, Flow, BuffersExact
<1>5. Phases'
  BY <1>1, <1>3 DEF Phases
<1>6. FailureJustified'
  BY <1>1, <1>3 DEF FailureJustified, Phases, Typed
<1>7. QED
  BY <1>1, <1>4, <1>5, <1>6 DEF UnmarkedComplete, TruncationTold, Complete, Checked,
     CidrWithinLimit, Shl

-----------------------------------------------------------------------------
(* Theorems.                                                                *)

\* The invariant of an execution: bytes are conserved from the tool to the
\* buffers, and at each step of the module it is known who still runs.
THEOREM ToolInvariance == Spec => []ToolInv
<1>1. Init => ToolInv
  <2> SUFFICES ASSUME Init PROVE ToolInv
    OBVIOUS
  <2>1. Typed
    BY DEF Init, Typed, Zero
  <2>2. Flow
    <3>1. \A s \in Streams : job.prints[s] \in Nat
      BY ToolRunAssumption, <2>1 DEF Typed, Requests
    <3>2. QED
      BY ToolRunAssumption, <3>1 DEF Init, Flow, Zero
  <2>3. BuffersExact
    <3>1. SUFFICES ASSUME NEW s \in Streams
                   PROVE  kept[s] = Min({taken[s], Limit[s]}) /\ (truncated[s] <=> taken[s] > Limit[s])
      BY DEF BuffersExact
    <3>2. kept[s] = 0 /\ taken[s] = 0 /\ ~truncated[s]
      BY DEF Init, Zero
    <3>3. Min({0, Limit[s]}) = 0
      BY LimitType, MinOfPair
    <3>4. QED
      BY <3>2, <3>3, LimitType
  <2>4. QED
    BY <2>1, <2>2, <2>3 DEF Init, ToolInv, Phases, FailureJustified, UnmarkedComplete,
       TruncationTold, Checked
<1>2. ToolInv /\ [Next]_vars => ToolInv'
  <2> SUFFICES ASSUME ToolInv, [Next]_vars PROVE ToolInv'
    OBVIOUS
  <2>1. CASE ModuleStep
    BY <2>1, ModuleKeepsBuffers, ModuleTold DEF ToolInv, Told
  <2>2. CASE \E s \in Streams : CopyChunk(s) \/ CopyEnds(s) \/ Prints(s)
    BY <2>2, CopyStep, CopyEndStep, PrintStep
  <2>3. CASE ToolForks \/ ToolExits \/ HelperExits \/ ContextDone \/ Kill
    BY <2>3, ProcessStep
  <2>4. CASE Finished \/ UNCHANGED vars
    <3>1. UNCHANGED <<job, pc, ctx, child, helper, written, pipe, copier, taken, kept,
                      truncated, runErr, result, outcome>>
      BY <2>4 DEF Finished, vars, toolVars
    <3>2. Typed' /\ Flow' /\ BuffersExact'
      BY <3>1 DEF ToolInv, Typed, Flow, BuffersExact
    <3>3. Phases' /\ FailureJustified' /\ Checked'
      BY <3>1 DEF ToolInv, Phases, FailureJustified, Checked, CidrWithinLimit, Shl
    <3>4. UnmarkedComplete' /\ TruncationTold'
      BY <3>1 DEF ToolInv, UnmarkedComplete, TruncationTold, Complete
    <3>5. QED
      BY <3>2, <3>3, <3>4 DEF ToolInv
  <2>5. QED
    BY <2>1, <2>2, <2>3, <2>4 DEF Next
<1>3. QED
  BY <1>1, <1>2, PTL DEF Spec

\* Every variable keeps its type, no pipe is overfilled and no buffer stores more
\* than its limit.
THEOREM TypeCorrect == Spec => []TypeOK
<1>1. ToolInv => TypeOK
  <2> SUFFICES ASSUME ToolInv PROVE TypeOK
    OBVIOUS
  <2>1. ASSUME NEW s \in Streams
        PROVE  /\ written[s] \in 0 .. job.prints[s]
               /\ pipe[s] \in 0 .. PipeSize
               /\ copier[s] \in {"off", "copying", "ended", "failed"}
               /\ kept[s] \in 0 .. Limit[s]
    <3>1. /\ written[s] \in Nat /\ pipe[s] \in Nat /\ taken[s] \in Nat /\ kept[s] \in Nat
          /\ written[s] <= job.prints[s] /\ pipe[s] <= PipeSize
          /\ job.prints[s] \in Nat /\ PipeSize \in Nat
      BY ToolRunAssumption DEF ToolInv, Typed, Flow, Requests
    <3>2. kept[s] = Min({taken[s], Limit[s]})
      BY DEF ToolInv, BuffersExact
    <3>3. kept[s] <= Limit[s] /\ Limit[s] \in Nat
      <4>1. Limit[s] \in Nat
        BY LimitType
      <4>2. Min({taken[s], Limit[s]}) = IF taken[s] <= Limit[s] THEN taken[s] ELSE Limit[s]
        BY <3>1, <4>1, MinOfPair
      <4>3. QED
        BY <3>1, <3>2, <4>1, <4>2
    <3>4. copier[s] \in {"off", "copying", "ended", "failed"}
      BY DEF ToolInv, Typed
    <3>5. written[s] \in 0 .. job.prints[s] /\ pipe[s] \in 0 .. PipeSize
      BY <3>1
    <3>6. kept[s] \in 0 .. Limit[s]
      BY <3>1, <3>3
    <3>7. QED
      BY <3>4, <3>5, <3>6
  <2>2. QED
    BY <2>1 DEF ToolInv, Typed, TypeOK
<1>2. QED
  BY <1>1, ToolInvariance, PTL

\* Each buffer holds the first bytes of its stream up to the limit and is marked
\* exactly when there were more, for every way the output is cut into chunks.
THEOREM BuffersAreExact == Spec => []BuffersExact
<1>1. ToolInv => BuffersExact
  BY DEF ToolInv
<1>2. QED
  BY <1>1, ToolInvariance, PTL

\* Long output never makes Run fail: an error is the tool's or the context's.
THEOREM FailuresJustified == Spec => []FailureJustified
<1>1. ToolInv => FailureJustified
  BY DEF ToolInv
<1>2. QED
  BY <1>1, ToolInvariance, PTL

\* A result sent without the mark is complete, through every limit that may cut it.
THEOREM TruncationIsTold == Spec => []TruncationTold
<1>1. ToolInv => TruncationTold
  BY DEF ToolInv
<1>2. QED
  BY <1>1, ToolInvariance, PTL

\* nmap is never started on more addresses than maxHosts, for addresses and words
\* of any width: the guard of cidrWithinLimit keeps the shift in range.
THEOREM ScansBounded == Spec => []ScanBounded
<1>1. ToolInv => ScanBounded
  <2> SUFFICES ASSUME ToolInv, pc \notin {"validate", "done"}, job.target = "cidr"
               PROVE  2 ^ job.hostBits <= job.maxHosts
    BY DEF ScanBounded
  <2>1. job.hostBits < MaxShift /\ Shl(job.hostBits) <= job.maxHosts
    BY DEF ToolInv, Checked, CidrWithinLimit
  <2>2. ~(job.hostBits >= WordBits) /\ job.hostBits # WordBits - 1
    BY <2>1, ToolRunAssumption DEF ToolInv, Typed, Requests
  <2>3. QED
    BY <2>1, <2>2 DEF Shl
<1>2. QED
  BY <1>1, ToolInvariance, PTL
=============================================================================
