------------------------------- MODULE ToolRun -------------------------------
(***************************************************************************)
(* One execution of a diagnostic module, from module.Validate to the       *)
(* result that normalize hands to the client: the external tool and the    *)
(* processes it forks, the pipes that exec copies into two bounded         *)
(* buffers, the context that kills the tool, the module's reading of the   *)
(* output and the limit on the encoded result.  Bytes are counted, not     *)
(* told apart.                                                             *)
(***************************************************************************)
EXTENDS Integers, FiniteSetsExt

CONSTANTS
  Kinds,        \* modules; "withheld" stands for tshark, zeek, suricata and iperf
  None,         \* no result
  MaxStdout,    \* Runner.MaxStdout
  MaxStderr,    \* Runner.MaxStderr
  MaxResponse,  \* maxResponseBytes of an HTTP job
  MaxPrinted,   \* bound: what a tool prints on a stream, a server in a body
  PipeSize,     \* capacity of a pipe
  Helpers,      \* whether a tool may fork a process that inherits its pipes
  AddressBits,  \* bits of an address (32 or 128)
  WordBits,     \* bits of an int (64)
  MaxShift,     \* host bits from which cidrWithinLimit refuses (31)
  HostLimits    \* values of maxHosts

External == {"ping", "route", "nmap"}
Builtin == {"http", "dns", "tcp", "tls"}

ASSUME ToolRunAssumption ==
  /\ Kinds \subseteq External \cup Builtin \cup {"withheld"}
  /\ MaxStdout \in Nat \ {0} /\ MaxStderr \in Nat \ {0} /\ MaxResponse \in Nat
  /\ MaxPrinted \in Nat /\ PipeSize \in Nat \ {0}
  /\ Helpers \in BOOLEAN
  /\ AddressBits \in Nat /\ WordBits \in Nat /\ MaxShift \in 0 .. WordBits - 1
  /\ HostLimits \subseteq Nat

Streams == {"stdout", "stderr"}
Limit == [s \in Streams |-> IF s = "stdout" THEN MaxStdout ELSE MaxStderr]
VARIABLES
  job,        \* the module, the target's host bits, and what the tool will print
  pc,         \* where the execution goroutine is
  ctx,        \* the execution context: "live" or "done"
  child,      \* the tool: "none", "alive", "succeeded", "failed" or "killed"
  helper,     \* a process forked by the tool holds the write ends of the pipes
  written,    \* bytes written to each pipe
  pipe,       \* bytes in each pipe
  copier,     \* exec's goroutine of each pipe: "off", "copying", "ended" or "failed"
  taken,      \* history: bytes given to each boundedBuffer
  kept,       \* w.b.Len() of each boundedBuffer
  truncated,  \* w.truncated
  runErr,     \* Run returned an error
  result,     \* the module's result
  outcome     \* status, and of a result whether it has its details and its mark

toolVars == <<child, helper, written, pipe, copier, taken, kept, truncated>>
vars == <<job, pc, ctx, toolVars, runErr, result, outcome>>

Zero == [s \in Streams |-> 0]

\* execute ends in reject, with a code classified from the context (Executor) or
\* given here, or with a result to deliver.
Rejected(code) == [status |-> code, details |-> FALSE, truncated |-> FALSE]
Succeeded(details, cut) == [status |-> "SUCCEEDED", details |-> details, truncated |-> cut]

Requests ==
  [kind : Kinds, valid : BOOLEAN, target : {"host", "cidr"},
   hostBits : 0 .. AddressBits, maxHosts : HostLimits,
   prints : [Streams -> 0 .. MaxPrinted], body : 0 .. MaxPrinted]

\* Only the fields a module looks at are varied.
Varied(r) ==
  /\ r.kind # "nmap" => r.target = "host"
  /\ r.target = "host" => r.hostBits = 0 /\ r.maxHosts = Max(HostLimits)
  /\ r.target = "cidr" => r.prints = Zero
  /\ r.kind \notin External \/ ~r.valid => r.prints = Zero
  /\ r.kind # "http" \/ ~r.valid => r.body = 0

Init ==
  /\ job \in {r \in Requests : Varied(r)}
  /\ pc = "validate"
  /\ ctx = "live"
  /\ child = "none" /\ helper = FALSE
  /\ written = Zero /\ pipe = Zero
  /\ copier = [s \in Streams |-> "off"]
  /\ taken = Zero /\ kept = Zero
  /\ truncated = [s \in Streams |-> FALSE]
  /\ runErr = FALSE
  /\ result = None /\ outcome = None

-----------------------------------------------------------------------------
(* Validation.                                                              *)

\* 1 << n in a signed int: the highest bit is the sign, and a bit shifted out is
\* lost.
Shl(n) == IF n >= WordBits THEN 0 ELSE IF n = WordBits - 1 THEN -(2 ^ n) ELSE 2 ^ n

CidrUnguarded(hostBits, maximum) == Shl(hostBits) <= maximum
\* cidrWithinLimit: the number of addresses, unless the shift is out of range.
CidrWithinLimit(hostBits, maximum) ==
  hostBits < MaxShift /\ Shl(hostBits) <= maximum

\* module.Validate: the parameters are within the module's profile; a withheld
\* module refuses every job.
Valid(j) ==
  /\ j.valid
  /\ j.kind # "withheld"
  /\ j.target = "cidr" => CidrWithinLimit(j.hostBits, j.maxHosts)

Validate ==
  /\ pc = "validate"
  /\ IF Valid(job) THEN pc' = "execute" /\ UNCHANGED outcome
     ELSE pc' = "done" /\ outcome' = Rejected("INVALID_JOB")
  /\ UNCHANGED <<job, ctx, toolVars, runErr, result>>

-----------------------------------------------------------------------------
(* Modules without a tool.                                                  *)

\* What is read of a response: io.LimitReader stops one byte past the limit.
BytesRead == Min({job.body, MaxResponse + 1})
BodyExceeds == BytesRead > MaxResponse

BuiltinReturns(kind, cut) ==
  /\ pc = "execute" /\ job.kind = kind
  /\ result' = [truncated |-> cut]
  /\ pc' = "normalize"
  /\ UNCHANGED <<job, ctx, toolVars, runErr, outcome>>

\* The HTTP module returns after the body was read as far as the limit allows,
\* the others after a lookup, a connection or a handshake.  What they return is
\* bounded by the protocol they speak and never cut.
HttpReturns == BuiltinReturns("http", BodyExceeds)
DnsReturns == BuiltinReturns("dns", FALSE)
TcpReturns == BuiltinReturns("tcp", FALSE)
TlsReturns == BuiltinReturns("tls", FALSE)

\* An error of the network or of the context; TCP's and DNS's result is dropped.
BuiltinFails ==
  /\ pc = "execute" /\ job.kind \in Builtin
  /\ pc' = "done" /\ outcome' = Rejected("FAILED")
  /\ UNCHANGED <<job, ctx, toolVars, runErr, result>>

-----------------------------------------------------------------------------
(* Runner.RunInDir.                                                         *)

\* The executable and its arguments are acceptable and the tool starts.
RunStarts ==
  /\ pc = "execute" /\ job.kind \in External
  /\ ctx = "live"
  /\ child' = "alive"
  /\ copier' = [s \in Streams |-> "copying"]
  /\ pc' = "running"
  /\ UNCHANGED <<job, ctx, helper, written, pipe, taken, kept, truncated, runErr, result, outcome>>

\* The tool is not found or cannot be started, or the context is done already.
RunCannotStart ==
  /\ pc = "execute" /\ job.kind \in External
  /\ runErr' = TRUE
  /\ pc' = "returned"
  /\ UNCHANGED <<job, ctx, toolVars, result, outcome>>

Remaining(s) == Limit[s] - kept[s]

\* boundedBuffer.Write: what of n bytes is stored, whether that is called a
\* truncation, and the count it returns.
StoredAll(s, n) == n
Stored(s, n) == IF Remaining(s) > 0 THEN Min({n, Remaining(s)}) ELSE 0
FillsUp(s, n) == n >= Remaining(s)
Overflows(s, n) == n > Remaining(s)
StoredCount(s, n) == Stored(s, n)
Returned(s, n) == n

\* One io.Copy round of exec's goroutine: any part of the pipe is read and given
\* to Write.  A short count makes io.Copy fail, and the read end is closed.
RetriesWithoutRoom(s) ==
  /\ copier[s] = "copying" /\ pipe[s] > 0
  /\ \E n \in 1 .. pipe[s] :
       /\ pipe' = [pipe EXCEPT ![s] = @ - Stored(s, n)]
       /\ taken' = [taken EXCEPT ![s] = @ + Stored(s, n)]
       /\ kept' = [kept EXCEPT ![s] = @ + Stored(s, n)]
  /\ UNCHANGED <<job, pc, ctx, child, helper, written, copier, truncated, runErr, result, outcome>>
CopyChunk(s) ==
  /\ copier[s] = "copying" /\ pipe[s] > 0
  /\ \E n \in 1 .. pipe[s] :
       /\ pipe' = [pipe EXCEPT ![s] = @ - n]
       /\ taken' = [taken EXCEPT ![s] = @ + n]
       /\ kept' = [kept EXCEPT ![s] = @ + Stored(s, n)]
       /\ truncated' = [truncated EXCEPT ![s] = @ \/ Overflows(s, n)]
       /\ copier' = [copier EXCEPT ![s] = IF Returned(s, n) < n THEN "failed" ELSE @]
  /\ UNCHANGED <<job, pc, ctx, child, helper, written, runErr, result, outcome>>

\* End of file: nobody holds the write end and the pipe is empty.
CopyEnds(s) ==
  /\ copier[s] = "copying" /\ pipe[s] = 0
  /\ child # "alive" /\ ~helper
  /\ copier' = [copier EXCEPT ![s] = "ended"]
  /\ UNCHANGED <<job, pc, ctx, child, helper, written, pipe, taken, kept, truncated,
                 runErr, result, outcome>>

\* cmd.Run returns once the tool has exited and both pipes are read to their
\* end.  The error is the tool's, a copier's or, if the context ended before
\* Wait, possibly the context's.
RunReturns ==
  /\ pc = "running"
  /\ child # "alive" /\ \A s \in Streams : copier[s] \in {"ended", "failed"}
  /\ runErr' \in IF child # "succeeded" \/ \E s \in Streams : copier[s] = "failed" THEN {TRUE}
                 ELSE IF ctx = "done" THEN BOOLEAN ELSE {FALSE}
  /\ pc' = "returned"
  /\ UNCHANGED <<job, ctx, toolVars, result, outcome>>

-----------------------------------------------------------------------------
(* The tool.                                                                *)

\* The tool, or a process it forked, writes a byte; it waits while the pipe is full.
Prints(s) ==
  /\ child = "alive" \/ helper
  /\ written[s] < job.prints[s]
  /\ copier[s] = "copying" /\ pipe[s] < PipeSize
  /\ written' = [written EXCEPT ![s] = @ + 1]
  /\ pipe' = [pipe EXCEPT ![s] = @ + 1]
  /\ UNCHANGED <<job, pc, ctx, child, helper, copier, taken, kept, truncated, runErr,
                 result, outcome>>

ToolForks ==
  /\ Helpers /\ child = "alive" /\ ~helper
  /\ helper' = TRUE
  /\ UNCHANGED <<job, pc, ctx, child, written, pipe, copier, taken, kept, truncated,
                 runErr, result, outcome>>

\* Everything is printed and the tool exits, with zero or not.
ToolExits ==
  /\ child = "alive" /\ written = job.prints
  /\ child' \in {"succeeded", "failed"}
  /\ UNCHANGED <<job, pc, ctx, helper, written, pipe, copier, taken, kept, truncated,
                 runErr, result, outcome>>

\* A forked process ends by itself: the kill reaches the tool only.
HelperExits ==
  /\ helper
  /\ written = job.prints \/ child # "alive"
  /\ helper' = FALSE
  /\ UNCHANGED <<job, pc, ctx, child, written, pipe, copier, taken, kept, truncated,
                 runErr, result, outcome>>

\* The deadline passes, or the job is cancelled.
ContextDone ==
  /\ pc # "done" /\ ctx = "live"
  /\ ctx' = "done"
  /\ UNCHANGED <<job, pc, toolVars, runErr, result, outcome>>

\* exec.CommandContext kills the tool.
Kill ==
  /\ ctx = "done" /\ child = "alive"
  /\ child' = "killed"
  /\ UNCHANGED <<job, pc, ctx, helper, written, pipe, copier, taken, kept, truncated,
                 runErr, result, outcome>>

-----------------------------------------------------------------------------
(* The module's result and its normalisation.                               *)

StdoutTruncated == truncated["stdout"]
OutputTruncated == truncated["stdout"] \/ truncated["stderr"]

ToolSucceeds(kind) ==
  /\ pc = "returned" /\ ~runErr /\ job.kind = kind
  /\ result' = [truncated |-> OutputTruncated]
  /\ pc' = "normalize"
  /\ UNCHANGED <<job, ctx, toolVars, runErr, outcome>>

\* Ping passes the output on, route reads the hops from it and nmap parses it as
\* XML, which a truncated document seldom is.
PingReturns == ToolSucceeds("ping")
RouteReturns == ToolSucceeds("route")
NmapReturns == ToolSucceeds("nmap")

\* The run failed, or nmap's XML does not parse.
ToolFails ==
  /\ pc = "returned"
  /\ runErr \/ job.kind = "nmap"
  /\ pc' = "done" /\ outcome' = Rejected("FAILED")
  /\ UNCHANGED <<job, ctx, toolVars, runErr, result>>

\* What is sent when the details do not fit MaxResultBytes.
ShortenedQuietly == Succeeded(FALSE, result.truncated)
Shortened == Succeeded(FALSE, TRUE)

\* normalize: the whole result fits, or only without observations and evidence,
\* or not even that; an identifier may not be had.
Normalize ==
  /\ pc = "normalize"
  /\ outcome' \in {Succeeded(TRUE, result.truncated), Shortened, Rejected("INTERNAL_ERROR")}
  /\ pc' = "done"
  /\ UNCHANGED <<job, ctx, toolVars, runErr, result>>

Finished ==
  /\ pc = "done"
  /\ UNCHANGED vars

ModuleStep ==
  \/ Validate \/ HttpReturns \/ DnsReturns \/ TcpReturns \/ TlsReturns \/ BuiltinFails
  \/ RunStarts \/ RunCannotStart \/ RunReturns
  \/ PingReturns \/ RouteReturns \/ NmapReturns \/ ToolFails \/ Normalize

Next ==
  \/ ModuleStep
  \/ \E s \in Streams : CopyChunk(s) \/ CopyEnds(s) \/ Prints(s)
  \/ ToolForks \/ ToolExits \/ HelperExits
  \/ ContextDone \/ Kill \/ Finished

Spec == Init /\ [][Next]_vars

\* Goroutines that can run do run, a tool that can go on printing or exit does,
\* and the processes it forked end.  Nothing is assumed of the context: a tool
\* must not need its deadline to come to its end.
Fairness ==
  /\ WF_vars(ModuleStep)
  /\ \A s \in Streams : WF_vars(CopyChunk(s)) /\ WF_vars(CopyEnds(s)) /\ WF_vars(Prints(s))
  /\ WF_vars(ToolExits) /\ WF_vars(HelperExits) /\ WF_vars(Kill)

FairSpec == Spec /\ Fairness

-----------------------------------------------------------------------------
(* Properties.                                                              *)

\* Every variable keeps its type; what is stored never exceeds the limit.
TypeOK ==
  /\ job \in Requests
  /\ pc \in {"validate", "execute", "running", "returned", "normalize", "done"}
  /\ ctx \in {"live", "done"}
  /\ child \in {"none", "alive", "succeeded", "failed", "killed"}
  /\ helper \in BOOLEAN
  /\ \A s \in Streams :
       /\ written[s] \in 0 .. job.prints[s]
       /\ pipe[s] \in 0 .. PipeSize
       /\ copier[s] \in {"off", "copying", "ended", "failed"}
       /\ kept[s] \in 0 .. Limit[s]
  /\ truncated \in [Streams -> BOOLEAN]
  /\ runErr \in BOOLEAN

\* Each buffer holds the first bytes it was given up to its limit, and says it
\* is truncated exactly when it was given more, however the output was cut
\* into chunks.
BuffersExact ==
  \A s \in Streams :
    /\ kept[s] = Min({taken[s], Limit[s]})
    /\ truncated[s] <=> taken[s] > Limit[s]

\* Output beyond the limits is no reason to fail: Run returns an error only if
\* the tool did not start or failed by itself, or if the context ended.
FailureJustified ==
  pc # "running" /\ runErr => ctx = "done" \/ child \in {"none", "failed"}

\* The tool's output, or the server's body, is in the result as far as the
\* module uses it.
Complete ==
  /\ job.kind \in External => kept = written
  /\ job.kind = "http" => job.body <= MaxResponse

\* "Consumers can distinguish truncation": a result that is sent without the
\* mark has its details and was made from everything the tool printed or the
\* server sent, whichever of the four limits might have cut it.
TruncationTold ==
  pc = "done" /\ outcome.status = "SUCCEEDED" /\ ~outcome.truncated =>
    outcome.details /\ Complete

\* A network that nmap is let loose on has no more addresses than maxHosts,
\* although the shift that counts them cannot represent every network.
ScanBounded ==
  pc \notin {"validate", "done"} /\ job.target = "cidr" =>
    2 ^ job.hostBits <= job.maxHosts

\* Every run of a tool returns, however much it prints on either stream and
\* without the help of its deadline.
RunEnds == pc = "running" ~> pc # "running"
=============================================================================
