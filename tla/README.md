# TLA+ models of the NetScope Agent

The agent polls a Control Plane for signed job envelopes, runs one diagnostic
module per job under local limits, and reports one outcome per job. These
modules model the parts of it that carry state: the process from start-up to
exit, the job lifecycle, the job verifier's nonce cache, the run of an external
tool, the result spool, the certificate rotation and the artifact transfer. TLC
checks them on small instances; TLAPS proves every invariant that the passing
runs check, and both refinements (the job lifecycle implements an abstract
ledger of jobs, the spool an at-least-once store), for every value of the
constants. `PROJECT.json` maps each
definition to source lines and lists runs, mutants, hazards, findings and
theorems.

## The system

| part | state it keeps | operations | talks to | what makes it correct |
|---|---|---|---|---|
| start-up and loop, `cmd/netscope-agent/main.go` | timers, back-off attempt, signal context | load, discover, report, poll, heartbeat, stop, drain, exit | client, executor, spool | online only with a manifest the Control Plane has; polls only with a free slot and at its pace; timers go on; a stopped agent exits |
| executor, `internal/executor` | slots channel, wait group, last result, one context, one `cancelled` channel and one monitor goroutine per job | `Submit`, `execute`, `monitorCancellation`, `reject`, `Wait` | verifier, registry, client, spool | no slot leaked or freed twice; a job runs at most once and has one outcome, which is not lost |
| module registry, `internal/modules` | one semaphore per module | `Acquire`, release | executor | counts its holders, within the limit, on every path |
| job verifier, `internal/security` | nonce cache | `Verify` | executor | no replay; bounded; no unjustified refusal |
| result spool, `internal/spool` | a directory of reports, a mutex | `Enqueue`, `Flush` | executor, loop, client | bounded in bytes; acknowledged reports survive; the queue drains |
| identity and rotation, `internal/identity`, `internal/enrollment` | `identity/`, `identity-rollback/`, `identity-rotation-failed/`, stages | `Load`, `Ensure`, stage, activate, confirm, commit, roll back | client | a complete, trusted identity stays on disk |
| client, `internal/client` | none | HTTPS calls, terminal errors, back-off | Control Plane | a terminal error stops the agent |
| capabilities, heartbeat, configuration | the discovered manifest, the settings | `Discover`, `Hash`, `Has`, `Build`, `Load` | loop, executor | what the Control Plane believes of the agent is so |
| process runner, diagnostic modules | one child process, two bounded buffers | `RunInDir`, `Write`, `Validate`, `Execute` | executor, external tools | bounded output, exact marks of truncation; no tool blocks on its output |
| artifact transfer, `internal/artifacts` | part files in a temporary directory | `Download`, `Upload` | file server, local files | hands out verified files only, leaves no part file, uploads the expected bytes |
| evidence, canonical JSON, target validation, protocol types | none that outlives a call | pure computation | executor | — |

Hard to test, and the reason for most of the properties: executions, monitors
and the loop interleave between any two calls or channel operations; every
HTTP call may take effect without its answer arriving; the process may die
between any two file system calls; caches hold readings taken before a lock;
failures happen in the handlers of other failures. Each is a hazard in
`PROJECT.json` at its line.

## Modules

### Executor

The whole job lifecycle. `thread` gives every goroutine a program counter, the
job it works for and the outcome it reports: `Main` is the goroutine of
`main()`/`runLoop` (with `Submit`, which runs in it), and each job has one
execution goroutine. `slots` and `sem` are the lengths of Go channels, `holds`
the executions whose `defer release()` is registered, `ctx`, `monitor` and
`cancelled` the context, monitor and channel of an execution. An action runs
from one call or channel operation at which another goroutine can intervene to
the next. In particular:

* `Poll`, `NextJob`, `Submit`, `StartAcknowledged`/`StartFailed` are separate,
  so the slot count read by the poll timer may be stale when `Submit` uses it;
* the non-blocking receive from `cancelled` and the reading of `ctx.Err()` are
  two steps (`ClassifyCancelled`, `ClassifyContext`), and so are the monitor's
  write to the channel and its `cancel()`;
* the deferred calls are `Release` (semaphore, `cancel`) and `Leave` (slot,
  wait group), reached from every early return of `execute`;
* `Report` is the only direct transmission of an outcome; on failure the
  report goes to the spool (`SpoolReport`, `SpoolRefuses`), which waits for the
  mutex that `Flush` holds across its calls.

The Control Plane is external: a state per job, changed by the agent's calls as
`src/` relies on it (`StartJob` succeeds once, for an assigned job;
`ReportFailure` treats `JOB_STATE_INVALID` as delivered, `ReportResult` does
not). `Call` lets every request and every answer be lost. `Redeliverable` says
in which states it may offer a job again: `docs` promise nothing here, so the
runs include redelivery of started jobs. `Restart` kills the process at any
point; only the spool and the Control Plane survive.

Data left out: an envelope is its nonce, its module and the check it fails
(`Fault`, with the codes that `Verify` and the rest of `Submit` reject with); a
result is a code. An envelope issued in the future, which `Verify` also calls
expired, is not among them (module JobVerifier has the times). The spool is a queue of `MaxSpoolItems` reports
(module Spool has the directory). Jitter and back-off are the arbitrary timing
of the steps (module AgentMain has the seconds).

### JobLedger

What the executor promises, without goroutines, channels, spool and lost
calls: the states of a job that an operator sees and how often its diagnostic
ran. `Executor!ImplementsLedger` maps the Control Plane's state and the history
of executions onto it; `redelivery` checks it through a kill and a restart,
`OutcomeProofs` proves it.

### JobVerifier

`Verify` in two steps: `Check` reads the clock and makes the stateless checks
in the order of the code; `RejectReplay`, `RejectFull` and `Accept` are the
part under the mutex, which still uses that reading. The clock is the wall
clock: `StepBack` sets it back by any amount, and `horizon` records the latest
time it has shown to the process. A target is its declared
type and what its value parses as; the signature, the timeout and the other
fields are verdicts carried by the envelope. `Executor` has the same
checks as one step, because the agent calls `Verify` from one goroutine and
nothing there depends on the clock moving within the call.

### Spool

`Queue.Enqueue` and `Queue.Flush` down to file system calls, with the mutex as
`busy`. `files` is the directory in name order; names begin with a timestamp,
so name order is age order (assumed: the clock is not set back). A file has
the bytes written so far: a crash or a failed write leaves any part of them,
and a flush removes such a file because it does not decode. Reading sizes and
ages of listed files is assumed not to fail: only this process removes files,
under the mutex. Crashes are of the process, not of the machine: what was
written stays.

### ReportStore

What the spool promises: an at-least-once store. A report is put in whole,
acknowledged only when it is in, and leaves with its delivery or by its age.
`Spool!ImplementsStore` takes the reports with a complete file as the store's
content.

### ToolRun

One execution of a module from `Validate` to the result of `normalize`. For a
tool it has the child process, a process the tool may fork and leave with its
pipes, the two pipes with a capacity, `os/exec`'s copying goroutines (external,
from how `cmd.Run` is documented to treat writers that are not files), the two
`boundedBuffer`s and the kill by the context; `cmd.WaitDelay` is not set, so
`RunReturns` waits for both ends of file. Output is counted in bytes and
arrives in chunks of any size. Host bits of an nmap target and the shift in an
int are modelled as they are, with a small word; the other parameters of a
module are one verdict. What a module makes of its output is its mark of
truncation and, for nmap, whether it parses.

### AgentMain

The process as `main()` sees it, in seconds: configuration with its defaults
and limits, discovery of what happens to be installed, the manifest whose hash
the Control Plane must return, the first heartbeat, and the loop with its two
timers, jitter and `Backoff`. A timer that has fired is `-1` until it is reset.
The Control Plane keeps the manifest and the last heartbeat across restarts,
and offers jobs for modules of the manifest it has. A job is only a slot here.

### Rotation

Enrollment and the rotation block of `main()`, one step per rename, removal
and Control Plane call. Directories are the certificate they hold. `issued` is
the Control Plane's view of each certificate (external). `RetireOnConfirm`
says whether confirming B makes it distrust A at once. Nothing in `src/`
settles that; the runs take `FALSE`. With `TRUE`, `TrustedIdentityKept` fails:
a confirmation that took effect while its answer was lost makes the agent roll
back to a distrusted A and delete B. The property's comment states the
assumption.

### ArtifactTransfer

`Download` and `Upload`, one step per call that can fail or be interleaved.
Bytes are a prefix of a content, and a digest tells contents apart. A server
sends any part of any content; the local file is rewritten at any time. What
net/http does with `ContentLength` is external: an announced length is sent
exactly, zero with a body means unknown, and when the file has grown, the
answer races with the transport's reading past the announced length, so the
hash may have seen more than was sent. The URL check and the early refusals
change nothing and are the guards of `Request` and `Stat`. Nothing in `main()`
calls the package yet.

### MC modules and proofs

`MCExecutor`, `MCJobVerifier`, `MCSpool`, `MCArtifactTransfer` and
`MCAgentMain` define the constants of the TLC instances; `Rotation` and
`ToolRun` need none. The theorems are in `ExecutorProofs` (accounts and the
single execution), `OutcomeProofs` (what becomes of a job, which extends it),
`JobVerifierProofs`, `SpoolProofs`, `RotationProofs`, `ToolRunProofs`,
`ArtifactTransferProofs` and `AgentMainProofs`. Definitions that nothing uses (`MayPollOffByOne`,
`SpoolDropped`, `BootUnchecked`, ...) are the plausible mistakes used as
mutants: with one in place of its neighbour, the property named in
`PROJECT.json` is violated, so no property holds vacuously.

## Runs

| run | instance | states | shows |
|---|---|---|---|
| core | 2 jobs, 1 module of width 1, 2 slots, 1 spool place; signal, revocation, cancellation; redelivery of assigned jobs | 1.0M | slots and semaphores account for their holders; the poll gate holds; the `cancelled` channel is written before the context ends; what is reported is what happened; no job is forgotten; the last result shown was sent (the clause of `OutcomeJustified` on `JOB_EXPIRED` is idle here, no envelope expires) |
| redelivery | the same, one envelope naming a module the host lacks; expiry, one kill and restart; redelivery of assigned and running jobs | 1.8M | a process never starts a job it is executing; no module is entered twice for a job; none is forgotten; an execution is heard with one verdict; JobLedger is implemented |
| shutdown | 2 jobs, signal; modules that hang until their context is done | 190k | every execution ends; a signalled agent exits |
| cancel | 1 job, cancellation | | finding 1 |
| verifier | 12 envelopes, 3 nonces, cache of 2, clock 0..5 that steps back, 1 caller | 38k | bounded cache, justified refusals, no replay |
| spool | 3 reports of sizes 1, 2, 1, one of them refused for good; 3 bytes | 88k | byte bound; ReportStore is implemented, so no acknowledged report is lost; every kept report is delivered, unless it ages out or the refused one is in the directory |
| spool_poison | 3 reports, the first refused for good | | finding 2 |
| tool_run | every kind of module; 0 to 4 bytes per stream against limits of 2 and 1, pipes of 2; 0 to 9 host bits in a word of 6 | 30k | buffers are exact; long output neither fails nor blocks a run; every cut is marked; nmap never gets more addresses than allowed |
| agent_life | 4 modules, 2 tools, 12 environments; 5 failed polls in a row, word of 4 bits; 1 restart | 143k | offers can be taken; heartbeat and manifest agree; polls keep their pace; polls and heartbeats go on |
| rotation | 4 certificates, failing file system | 13k | a complete and trusted identity on disk, the one in use among them; one of them still trusted |
| rotation_crash | 3 certificates | | finding 3 |
| artifacts | 5 contents of lengths 0 to 4; limits of 2; 5 manifests; 1 download, 1 upload | 3.0M | only verified files are handed out; no error return leaves a part file; an upload succeeds only with the expected bytes, or their beginning of the announced length; by how much each limit can be exceeded |

Why the bounds are enough. Two jobs are needed for contention on a semaphore,
a full spool and a second execution; the interactions in the code are pairwise
(through one channel, one mutex or one semaphore), and the accounting results
are proved for any number. A width below the number of slots makes `Acquire`
wait. A spool of one place is full after one report. One restart suffices to
empty the nonce cache; a second repeats the same state with fewer jobs left.
In `redelivery` only one job can run; the other spends a nonce and is
rejected. The results are proved for any number. Three reports leave one
before and one behind the entry a flush stops at, and any two of them fit
in the spool while all three do not. One download and one upload suffice
because calls share no state but the temporary directory, where names are
unique, and the results are proved for any number of both; the lengths lie
below, at, one past and two past each limit, so that a file can grow from one
to the next and a content ends exactly at the last byte the readers let through. Four certificates are
enrollment and three rotations: a leftover of one rotation can meet the next,
and its leftover the one after that. Clock 0..5 has room for a nonce to be
accepted, expire, be pruned and be accepted again under a later envelope, or
the same one after a step back. Four bytes lie two and three past the limits
of ToolRun and more than fill a pipe, so that a reader that stops would be
seen to block the tool; the host bits pass the guard, the word and the next
power after it. Five failed polls pass the clamp of the shift, the limit of
the delay and the word of AgentMain's instance, in that order; the
environments lie below, within and above each limit of the configuration.
Symmetry over jobs is used only for invariants and only where the instance
treats the jobs alike.

Deadlock is checked in every run: an exited agent (`Exited`, `Stopped`), one
that cannot start (`CannotStart`) and a finished execution (`Finished`) stutter
explicitly, and nothing else may stop.

### Fairness

`Executor!Fairness`: weak fairness of the loop and of each execution (Go runs
runnable goroutines; HTTP calls have a client timeout, so every call step
ends) and of `Deadline` (the context has a timer). The return of a module
(`ModuleReturns`) is fair only once its context is done: a module may hang for as
long as its context lives, and it is the deadline, a cancellation or the shutdown
that ends it. That a module returns then is assumed, and holds of modules that
watch their context and of tools that die when they are killed; a process that a
killed tool forked and that keeps its pipes open delays `cmd.Run` for as long as
it lives (`runner.go:70`, no `WaitDelay`; see ToolRun), which `ExecutionEnds` and
`StopLeadsToExit` leave out. Strong fairness of `LoopEnds`,
because `select` chooses at random among ready cases and so does not ignore
`ctx.Done()` for ever; strong fairness of obtaining the spool's mutex, because
`sync.Mutex` hands over to a starving waiter. Nothing is assumed of the Control
Plane. No fairness is given to the monitor: an execution ends without it.

`Spool!Fairness`: heartbeats keep starting flushes (strong, since enqueues also
take the mutex), a call in progress ends, and a report that is sent again and
again is eventually accepted, one that is to be discarded eventually removed
(strong per item). Acceptance is an assumption about the environment, the one
under which "retried after connectivity returns" can mean anything.

`ToolRun!Fairness`: goroutines and the tool go on when they can, a forked
process ends, and a kill arrives. The context gets none, so `RunEnds` says that
a run needs no deadline. It does need the forked process to end: the kill does
not reach it, and the run would wait for it past every deadline.

`AgentMain!Fairness`: calls return (`RequestTimeout`), jobs end, time passes;
strong fairness of the two timer cases, because `select` chooses at random.

## Proofs

**Executor** (`ExecutorProofs`, from `ExecutorAssumption` alone: finitely many
jobs, positive limits, any `Fault`, `Redeliverable`, `Disturbances` and number
of restarts). `IndInv` is inductive (`Invariance`). Its parts and why they are
needed:

* `SlotAccounting` alone is not inductive: `Leave(j)` must know that `j`, and
  `StartAcknowledged` that its job's goroutine was idle, or the set of holders
  changes by other than one. `OneExecutionPerJob` gives the latter.
* `OneExecutionPerJob` needs `NonceSpent`: an execution's nonce is cached or
  its envelope has expired, so `Verify` stops a second delivery. Pruning
  removes expired nonces only, and expiry is checked first.
* `PollGate` holds because only the main goroutine adds to `slots`; it is what
  makes the slot check in `Submit` redundant.
* `SemaphoreCounts` needs `HoldsByPC`, which relates `holds` to the program
  counter, so that `Released` subtracts exactly once.
* `Bound` names the job each goroutine works for; `Typed` is `TypeOK` without
  the lower bounds, which follow from the accounts.

From it: `TypeCorrect`, `SlotsAccounted`, `PollGateHolds`, `NoDoubleExecution`,
`ModulesAccounted`. `AtMostOneExecution` adds `StartedOnce`: a job that is
queued or assigned on the Control Plane has not been executed and is not in
execution, which survives restarts because the Control Plane starts a job
once. Local state alone would not give it.

**JobLedger** (`OutcomeProofs`). `AgentImplementsLedger`: initial states map to
initial states and each action to one of the ledger's or to a stutter. The
step needs `StartedOnce` (a module entered for the first time, after the
start) and `ResultsRan`: whatever is on its way as a success, in a goroutine
or in the spool that outlives the process, belongs to a job that ran. Both
hold for every behaviour (`ResultsInvariance`).

**Outcomes** (`OutcomeProofs`). Two lemmas carry the rest: `ReportsBegin` says
where a goroutine's report comes from (it had it, main rejected, or the
execution concluded, each with what was then known), and `ForwardStep` what is
never taken back (an end on the Control Plane, an assignment, an expiry, a loss,
what was sent).

* `OutcomesJustified` needs `Observed`, the order of the monitor's write and
  its `cancel()`, and `CodesSound`: a timeout on its way belongs to an execution
  that still has its context (`DeadlineStays`).
* `LastResultWasSent` needs `LastInv`: what is about to be spooled was sent
  before, and main leaves after the last execution. It also takes
  `NoneAssumption`, that None is not a last result.
* `NoJobForgotten` needs `Assigned`: the agent has nothing to do with a job
  that is still queued, so an accepted report always ends its job, and the
  hand-over from goroutine to spool to Control Plane has no gap (`HandKept`,
  `HandTaken`, `SpoolAppended`, `SpoolShortened`).
* `ExecutionHasOneVerdict` proves `OneVerdict` without conditions: started jobs
  may be offered again, the process may be killed and restarted any number of
  times and the nonce cache may be full. Its inductive form `VerdictAtEnd` says
  that nothing is heard of an execution before its outcome is known, then only
  that outcome, and that main sends refusals only; `StartedStays` carries it over
  restarts, because a job that was started once is not started again. What it
  does not say is that a job has one report: `Submit` also reports the refusal of
  a copy of a job that runs here (`executor.go:59`), and the Control Plane then
  takes the job for failed although it may still succeed here.

**JobVerifier** (`JobVerifierProofs`). Every theorem is for any number of
concurrent callers and any clock. `Remembered` with `ReadingsPast` is
inductive: an accepted envelope is cached, or expired at a time up to
`horizon`, since no call holds a reading beyond it. `NoReplayHolds` follows: a
nonce is accepted again only for envelopes that have expired at a time the
clock has shown. The stronger part, no envelope twice, needs `SingleCaller`,
which is how the agent uses the verifier, and a clock that has not stepped
back: with two callers a call with an old reading can re-accept what a call
with a newer one has pruned, and a step back does the same to one caller.

**Spool** (`SpoolProofs`). `ByteBound` is not inductive between the creation of
a file and its write: `Bounded` adds the bytes reserved for the file in
progress, which `InProgress` says is the newest and still empty. The bound is
about a sum over the directory; what appending, rewriting and removing a file
do to it (`Appended`, `RewrittenBytes`, `WithoutBytes`) is proved by induction
on prefixes, with an induction principle for sets of numbers derived from the
least element of a nonempty set (`NaturalInduction`), since the library's own
takes an operator. `SpoolIsReportStore` maps each file system step to a step of
ReportStore or a stutter; it needs `Known`: a file belongs to a report that was
offered, and no report has two.

**Rotation** (`RotationProofs`). `RotationInv` says at each step of `main()`
where the certificate in use (`CurrentPlace`) and the one being rotated in
(`NextPlace`) are, and that both were issued. `CurrentOnDisk` and
`OnlyCompleteActivated` follow for any number of certificates. `TrustKept` has
the hypothesis `~RetireOnConfirm`, without which the property is false (see
Rotation above), and adds `TrustPlace`: the old certificate is trusted until
the rotation is over.

**ToolRun** (`ToolRunProofs`). `Flow` conserves bytes from the tool through the
pipe to its buffer and `Phases` says who still runs at each step of the module,
which make `BuffersExact` inductive; `UnmarkedComplete` carries what a buffer's
mark says to the module's own, and from there to `TruncationTold`. `Checked`
keeps the verdict of `cidrWithinLimit` until nmap starts, from which `ScanBounded`
follows at any word width.

**ArtifactTransfer** (`ArtifactTransferProofs`). One record of facts per call:
`DownSound` (a part file at most one byte past the limit and, past `copyVerified`, equal to its
manifest) and `UpSound` (what the Control Plane took, tied to what was hashed
and to the announced length), with `LitterSound` for files no call knows of.
Calls are independent, so a step of one keeps the facts of the others.

**AgentMain** (`AgentMainProofs`). `Agreed` ties the manifests of the process,
the heartbeat and the Control Plane once main is online; `Paced` ties the poll
timer to the failed polls. `SharedCapability` is assumed because jobs are
offered by module and refused by capability; it is so of the modules compiled
in. `BackoffAssumption` states two facts of powers of two that the provers
cannot derive (`^` has no theory there): they are positive, and the limit of
the delay is reached where the shift is clamped (a minute, `2^8` s); TLC
evaluates it.

Only model-checked: liveness (`ExecutionEnds`, `StopLeadsToExit`,
`EventuallyDelivered`, `RunEnds`, `TimersRecur`), which is out of the prover's
reach, and the violations below. TLC has also checked the inductive invariants
on the instances above before they were proved.

## Findings

1. `cancel`: a job cancelled or timed out while it waits for its module's
   semaphore is reported as a retryable `INTERNAL_ERROR`, against
   `docs/job-lifecycle.md:4`; this is the trace TLC shows. The property also
   rules out a second path, which takes more steps and is not in the trace:
   `execute` consults the `cancelled` channel only if the module returned an error
   (`executor.go:142`), so a result after an observed cancellation is a success.
2. `spool_poison`: a report refused for good blocks the head of the queue: every
   flush stops before the reports behind it for up to `MaxAge`. The flush that
   finds it too old removes it (`spool.go:93`) and goes on, so younger reports are
   delayed, not lost; but those that have passed `MaxAge` by that flush as well,
   such as one spooled within the same heartbeat, are discarded without one
   attempt although the Control Plane answered every flush, against
   `docs/decisions/0010-local-result-spool.md:18`. Both reports of the trace were
   acknowledged by `Enqueue`.
3. `rotation_crash`: `ActivateRotation` is two renames; a crash between them
   leaves no active identity, and `Load` does not look at the rollback copy.
   `rotation.go:28` and `docs/certificate-rotation.md:5` speak of atomic
   renames.

Related, and kept out of harm's way by `CurrentOnDisk`: an
`identity-rotation-failed/` left by a crash makes a later rollback fail
unnoticed, and a leftover `identity-rollback/` blocks every later rotation;
the identity in use then stays on disk, though not always as the active one.
A divergence without a run of its own: `docs/artifacts.md:8` says that uploads
"enforce a local maximum". A file that is empty at `Lstat` and has grown to the
maximum plus one byte when it is read is sent in full, without an announced
length, and `Upload` returns nil if the digest matches: `transfer.go:94` lets that
byte through and, unlike `copyVerified` for downloads, nothing examines it.
`ExcessBounded` states exactly this much (one byte, and only for a file that was
empty), and the instance has a content of that length.
Met while proving `UploadTruthful`: a file that grows after `Lstat` into the
expected content is hashed whole, while only the announced length is sent. The
upload then succeeds with the beginning of the expected content, which the
property allows and the file server has to notice.

## Not modelled

Cryptography, canonical JSON, certificate validation and the parsers behind
target validation: pure functions of bytes, present as verdicts. The networks
and parsers of the diagnostic modules: to the executor a module returns a
result or an error. Evidence manifests and logging: no state. TLS transports
and connection pools. Machine crashes (unsynced directories): outside what the
code handles. Names of spool files under a clock that is set back.

## Plan

1. Done: Executor, JobVerifier, Spool, Rotation, ArtifactTransfer, ToolRun,
   AgentMain, their runs, the job ledger and the report store with their
   refinements, and proofs of every invariant that the passing runs check.
2. Left to prove: what the violated properties still guarantee (a cancellation
   observed before the module returned an error; the order in which a flush
   sends), as action properties.
3. The verifier step of `Submit` as an instance of JobVerifier; spool file
   names under a clock that is set back.
