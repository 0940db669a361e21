------------------------------ MODULE AgentMain ------------------------------
(***************************************************************************)
(* The life of the agent process as main() sees it: the configuration, the *)
(* discovery of capabilities, the manifest and the first heartbeat that    *)
(* the Control Plane has to accept, and runLoop with its two timers and    *)
(* the back-off.  Time passes in seconds.  The identity is Rotation's and  *)
(* the work on a job Executor's; here a job only occupies a slot.          *)
(***************************************************************************)
EXTENDS Integers, FiniteSetsExt

CONSTANTS
  Modules,         \* compiled modules
  Tools,           \* external programs looked for on the host
  RequiredTool,    \* Descriptor.RequiredTool, None for a built-in module
  Capability,      \* Descriptor.RequiredCapability
  Rank,            \* the place of a module's ID in the sorted descriptors
  Withheld,        \* modules that are compiled but never advertised
  Unsupported,     \* modules whose Platforms do not include this one
  None,
  Environments,    \* values of the environment's variables (0: not usable)
  Defaults,        \* the values Load falls back to
  MinHeartbeat, MaxHeartbeat, \* 10 s and 60 s
  MaxJobs,         \* 32
  JitterPart,      \* 10: a heartbeat is late by at most this part of its interval
  MaxShift,        \* 8: the back-off stops doubling there
  MaxDelay,        \* one minute
  WordBits,        \* bits of the doubled number
  MaxAttempts,     \* bound on consecutive failed polls
  MaxRestarts      \* bound on process restarts

Settings == {"jobs", "heartbeat", "poll"}

ASSUME AgentMainAssumption ==
  /\ RequiredTool \in [Modules -> Tools \cup {None}]
  /\ Modules = DOMAIN Capability /\ Rank \in [Modules -> Nat]
  /\ Withheld \subseteq Modules /\ Unsupported \subseteq Modules
  /\ None \notin Modules \cup Tools
  /\ Environments \subseteq [Settings -> Int]
  /\ Defaults \in [Settings -> Nat \ {0}]
  /\ JitterPart \in Nat \ {0}
  /\ MaxShift \in Nat /\ WordBits \in Nat /\ MaxShift < WordBits /\ MaxDelay \in Nat \ {0}
  /\ MinHeartbeat \in Nat /\ MaxHeartbeat \in Nat /\ MaxJobs \in Nat
  /\ MaxAttempts \in Nat /\ MaxRestarts \in Nat

\* Modules that share a capability need the same tool, on the same platforms, and
\* are withheld together: the two nmap modules differ in their ID alone.
ASSUME SharedCapability ==
  \A m, n \in Modules : Capability[m] = Capability[n] =>
    /\ RequiredTool[m] = RequiredTool[n]
    /\ m \in Withheld <=> n \in Withheld
    /\ m \in Unsupported <=> n \in Unsupported

\* The back-off has reached its limit where it stops doubling: a minute is less
\* than 2^8 s.
ASSUME BackoffAssumption ==
  /\ \A n \in 0 .. MaxAttempts : 2 ^ n \in Nat \ {0}
  /\ \A n \in MaxShift .. MaxAttempts : MaxDelay <= 2 ^ n

Manifests == [tools : SUBSET Tools, modules : SUBSET Modules]
Beats == [manifest : Manifests, running : Nat, slots : Nat]

ASSUME NoneAssumption == None \notin Beats

VARIABLES
  pc,          \* where main() is
  cfg,         \* the effective configuration
  report,      \* capabilities.Report: the manifest and the available capabilities
  stopping,    \* the signal context is done
  pollIn,      \* seconds until pollTimer fires
  heartbeatIn, \* seconds until heartbeatTimer fires
  attempt,     \* runLoop's attempt
  running,     \* len(e.slots)
  offered,     \* the module of the job in Submit
  stored,      \* the manifest the Control Plane has
  beat,        \* the heartbeat it saw last
  idle,        \* history: seconds since the last poll was answered or failed
  failures,    \* history: failed polls since the last answered one
  restarts

loopVars == <<pollIn, heartbeatIn, attempt, running, offered>>
cpVars   == <<stored, beat>>
history  == <<idle, failures, restarts>>
vars == <<pc, cfg, report, stopping, loopVars, cpVars, history>>

Starting == {"load", "discover", "identity", "manifest", "hello"}
InLoop   == {"select", "heartbeat", "nextJob", "submit"}
Ended    == {"exited", "failed"}

Init ==
  /\ pc = "load"
  /\ cfg = None /\ report = None
  /\ stopping = FALSE
  /\ pollIn = 0 /\ heartbeatIn = 0 /\ attempt = 0
  /\ running = 0 /\ offered = None
  /\ stored = None /\ beat = None
  /\ idle = 0 /\ failures = 0 /\ restarts = 0

-----------------------------------------------------------------------------
(* Configuration and capabilities.                                          *)

\* duration, integer and bytes: a value that does not parse or is not positive
\* is replaced by the default.
Setting(env, s) == IF env[s] > 0 THEN env[s] ELSE Defaults[s]

ValidNoMaximum(c) == c["jobs"] >= 1 /\ c["heartbeat"] \in MinHeartbeat .. MaxHeartbeat
\* Config.Validate, of the settings that the loop uses.
Valid(c) == c["jobs"] \in 1 .. MaxJobs /\ c["heartbeat"] \in MinHeartbeat .. MaxHeartbeat

\* config.Load; the URL, the platform or a directory may be unusable as well.
Load ==
  /\ pc = "load"
  /\ \E env \in Environments :
       LET c == [s \in Settings |-> Setting(env, s)] IN
       \/ Valid(c) /\ cfg' = c /\ pc' = "discover"
       \/ pc' = "failed" /\ UNCHANGED cfg
  /\ UNCHANGED <<report, stopping, loopVars, cpVars, history>>

\* Whether a module is available: its platform, its tool, and not withheld.
Available(m, installed) ==
  /\ m \notin Unsupported
  /\ RequiredTool[m] \in installed \cup {None}
  /\ m \notin Withheld

\* The capabilities of Report.available: of the modules that share one, the last
\* decides.
Capabilities(modules) ==
  {Capability[m] : m \in {n \in modules :
     \A o \in Modules \ modules : Capability[o] = Capability[n] => Rank[o] < Rank[n]}}

\* Discover: what is installed is looked at once, when the process starts.
Discover ==
  /\ pc = "discover"
  /\ \E installed \in SUBSET Tools :
       LET modules == {m \in Modules : Available(m, installed)} IN
       report' = [manifest |-> [tools |-> installed, modules |-> modules],
                  available |-> Capabilities(modules)]
  /\ pc' = "identity"
  /\ UNCHANGED <<cfg, stopping, loopVars, cpVars, history>>

\* The identity is loaded, enrolled or rotated (Rotation), or main() exits.
Identify ==
  /\ pc = "identity"
  /\ pc' \in {"manifest", "failed"}
  /\ UNCHANGED <<cfg, report, stopping, loopVars, cpVars, history>>

HashIgnored(answer) == answer # None
\* The hash in the answer is that of the manifest sent.
HashMatches(answer) == answer = report.manifest

\* ReportCapabilities: the Control Plane takes the manifest, or answers with the
\* one it had (None: none).
ReportCapabilities ==
  /\ pc = "manifest"
  /\ ~stopping
  /\ stored' \in {report.manifest, stored}
  /\ pc' = IF HashMatches(stored') THEN "hello" ELSE "failed"
  /\ UNCHANGED <<cfg, report, stopping, loopVars, beat, history>>

\* The manifest is refused, or the answer is lost.
ReportFails ==
  /\ pc = "manifest"
  /\ stored' \in {report.manifest, stored}
  /\ pc' = "failed"
  /\ UNCHANGED <<cfg, report, stopping, loopVars, beat, history>>

\* heartbeat.Build: the hash, the running jobs and the free slots.
Build ==
  [manifest |-> report.manifest, running |-> running,
   slots |-> IF running > cfg["jobs"] THEN 0 ELSE cfg["jobs"] - running]

\* A heartbeat is delayed by up to a tenth of its interval.
Jitter(interval) == interval .. interval + interval \div JitterPart

\* The first heartbeat is answered with a compatible version: runLoop begins.
Hello ==
  /\ pc = "hello"
  /\ ~stopping
  /\ beat' = Build
  /\ pc' = "select"
  /\ pollIn' = cfg["poll"]
  /\ heartbeatIn' \in Jitter(cfg["heartbeat"])
  /\ attempt' = 0
  /\ UNCHANGED <<cfg, report, stopping, running, offered, stored, history>>

HelloFails ==
  /\ pc = "hello"
  /\ beat' \in {Build, beat}
  /\ pc' = "failed"
  /\ UNCHANGED <<cfg, report, stopping, loopVars, stored, history>>

-----------------------------------------------------------------------------
(* runLoop.                                                                 *)

\* A timer that has fired stays silent until it is reset.
Fired == -1

HeartbeatDue ==
  /\ pc = "select" /\ heartbeatIn = 0
  /\ heartbeatIn' = Fired
  /\ pc' = "heartbeat"
  /\ UNCHANGED <<cfg, report, stopping, pollIn, attempt, running, offered, cpVars, history>>

\* The heartbeat is answered, and the spool flushed (Executor, Spool).
HeartbeatAnswered ==
  /\ pc = "heartbeat"
  /\ ~stopping
  /\ beat' = Build
  /\ heartbeatIn' \in Jitter(cfg["heartbeat"])
  /\ pc' = "select"
  /\ UNCHANGED <<cfg, report, stopping, pollIn, attempt, running, offered, stored, history>>

HeartbeatGivenUp ==
  /\ pc = "heartbeat"
  /\ beat' \in {Build, beat}
  /\ pc' = "select"
  /\ UNCHANGED <<cfg, report, stopping, loopVars, stored, history>>
\* It fails, seen or not by the Control Plane: the next one is on its timer.
HeartbeatFails ==
  /\ pc = "heartbeat"
  /\ beat' \in {Build, beat}
  /\ heartbeatIn' \in Jitter(cfg["heartbeat"])
  /\ pc' = "select"
  /\ UNCHANGED <<cfg, report, stopping, pollIn, attempt, running, offered, stored, history>>

\* The poll timer fires while every slot is taken: wait for another interval.
PollBusy ==
  /\ pc = "select" /\ pollIn = 0
  /\ running >= cfg["jobs"]
  /\ pollIn' = cfg["poll"]
  /\ UNCHANGED <<pc, cfg, report, stopping, heartbeatIn, attempt, running, offered, cpVars, history>>

PollDue ==
  /\ pc = "select" /\ pollIn = 0
  /\ running < cfg["jobs"]
  /\ pollIn' = Fired
  /\ pc' = "nextJob"
  /\ UNCHANGED <<cfg, report, stopping, heartbeatIn, attempt, running, offered, cpVars, history>>

\* NextJob is answered, with a job for a module of the manifest or with none.
NextJob ==
  /\ pc = "nextJob"
  /\ ~stopping
  /\ attempt' = 0 /\ failures' = 0
  /\ pollIn' = cfg["poll"] /\ idle' = 0
  /\ offered' \in stored.modules \cup {None}
  /\ pc' = IF offered' = None THEN "select" ELSE "submit"
  /\ UNCHANGED <<cfg, report, stopping, heartbeatIn, running, cpVars, restarts>>

\* 1 << n in a word, where a bit shifted out is lost; the sign bit counts as a bit,
\* since the clamp keeps every shift below it.
Shl(n) == IF n >= WordBits THEN 0 ELSE 2 ^ n
Delays(delay) == delay .. delay + delay \div 3

BackoffUnclamped(n) == Delays(Min({Shl(n), MaxDelay}))
\* client.Backoff: clamped before the shift, doubled, limited, and jittered.
Backoff(n) == Delays(Min({Shl(Min({n, MaxShift})), MaxDelay}))

NextJobFails ==
  /\ pc = "nextJob"
  /\ attempt < MaxAttempts
  /\ attempt' = attempt + 1 /\ failures' = failures + 1
  /\ pollIn' \in Backoff(attempt') /\ idle' = 0
  /\ pc' = "select"
  /\ UNCHANGED <<cfg, report, stopping, heartbeatIn, running, offered, cpVars, restarts>>

\* Report.Has for the module's capability.
Has(m) == Capability[m] \in report.available

\* Submit: a job whose capability is there may take a slot; any other check may
\* still refuse it.
Submit ==
  /\ pc = "submit"
  /\ running' \in {running} \cup (IF Has(offered) /\ running < cfg["jobs"] THEN {running + 1} ELSE {})
  /\ offered' = None
  /\ pc' = "select"
  /\ UNCHANGED <<cfg, report, stopping, pollIn, heartbeatIn, attempt, cpVars, history>>

\* A call is answered with a terminal error, or the signal context is done.
LoopReturns ==
  /\ pc \in {"heartbeat", "nextJob"} \/ (pc = "select" /\ stopping)
  /\ pc' = "drain"
  /\ stopping' = TRUE
  /\ UNCHANGED <<cfg, report, loopVars, cpVars, history>>

\* execution.Wait returns; the last heartbeat may be seen.
Exit ==
  /\ pc = "drain" /\ running = 0
  /\ beat' \in {Build, beat}
  /\ pc' = "exited"
  /\ UNCHANGED <<cfg, report, stopping, loopVars, stored, history>>

-----------------------------------------------------------------------------
(* The environment.                                                         *)

\* A job ends, in its own goroutine.
JobEnds ==
  /\ running > 0
  /\ running' = running - 1
  /\ UNCHANGED <<pc, cfg, report, stopping, pollIn, heartbeatIn, attempt, offered, cpVars, history>>

\* A second passes, whatever the loop is doing.
Down(timer) == IF timer > 0 THEN timer - 1 ELSE timer
Tick ==
  /\ pc \in InLoop
  /\ pollIn' = Down(pollIn) /\ heartbeatIn' = Down(heartbeatIn)
  /\ idle' = Min({idle + 1, Max({MaxDelay, cfg["poll"]})})
  /\ UNCHANGED <<pc, cfg, report, stopping, attempt, running, offered, cpVars, failures, restarts>>

Signal ==
  /\ ~stopping /\ pc \notin Ended
  /\ stopping' = TRUE
  /\ UNCHANGED <<pc, cfg, report, loopVars, cpVars, history>>

\* The process is killed or has ended, and is started again; other tools may be
\* installed by then.
Restart ==
  /\ restarts < MaxRestarts
  /\ restarts' = restarts + 1
  /\ pc' = "load"
  /\ cfg' = None /\ report' = None /\ stopping' = FALSE
  /\ pollIn' = 0 /\ heartbeatIn' = 0 /\ attempt' = 0
  /\ running' = 0 /\ offered' = None
  /\ idle' = 0 /\ failures' = 0
  /\ UNCHANGED cpVars

Stopped ==
  /\ pc \in Ended
  /\ UNCHANGED vars

MainStep ==
  \/ Load \/ Discover \/ Identify \/ ReportCapabilities \/ ReportFails \/ Hello \/ HelloFails
  \/ HeartbeatDue \/ HeartbeatAnswered \/ HeartbeatFails
  \/ PollBusy \/ PollDue \/ NextJob \/ NextJobFails \/ Submit \/ LoopReturns \/ Exit

Next == MainStep \/ JobEnds \/ Tick \/ Signal \/ Restart \/ Stopped

Spec == Init /\ [][Next]_vars

\* Calls return (RequestTimeout), jobs end (their deadline), time passes, and
\* select, which chooses at random, does not pass over a timer for ever.
Fairness ==
  /\ WF_vars(MainStep) /\ WF_vars(JobEnds) /\ WF_vars(Tick)
  /\ SF_vars(PollDue) /\ SF_vars(HeartbeatDue)

FairSpec == Spec /\ Fairness

-----------------------------------------------------------------------------
(* Properties.                                                              *)

MaxBeat == MaxHeartbeat + MaxHeartbeat \div JitterPart

\* Every variable keeps its type: the configuration that passed Load is within
\* its limits, and a process never runs more jobs than it allows.
TypeOK ==
  /\ pc \in Starting \cup InLoop \cup Ended \cup {"drain"}
  /\ cfg # None => /\ cfg["jobs"] \in 1 .. MaxJobs /\ running \in 0 .. cfg["jobs"]
                   /\ cfg["heartbeat"] \in MinHeartbeat .. MaxHeartbeat /\ cfg["poll"] > 0
  /\ report # None => report.manifest \in Manifests
  /\ stopping \in BOOLEAN
  /\ pollIn \in Nat \cup {Fired} /\ heartbeatIn \in Fired .. MaxBeat
  /\ attempt \in 0 .. MaxAttempts /\ failures \in 0 .. MaxAttempts
  /\ offered \in Modules \cup {None}
  /\ stored = None \/ stored \in Manifests
  /\ idle \in Nat /\ restarts \in 0 .. MaxRestarts

\* Whatever was installed, restarted or lost before, while the agent asks for
\* jobs the Control Plane's last heartbeat carries the hash of the manifest it
\* stored, and both are those of this process: a job offered on the ground of
\* the stored manifest is never turned away for a missing capability.
ManifestAgrees ==
  /\ pc \in InLoop =>
       /\ stored = report.manifest
       /\ beat # None /\ beat.manifest = stored
       /\ beat.running + beat.slots = cfg["jobs"]
  /\ pc = "submit" => Has(offered)

\* After k failed polls in a row the next one comes 2^k seconds later, or after
\* the longest delay, and at most a third of that later; after an answer it
\* comes at its interval.  The outage may be longer than a word has bits.
Wanted == IF failures = 0 THEN cfg["poll"] ELSE Min({2 ^ failures, MaxDelay})
PollsPaced ==
  /\ pc = "nextJob" => idle >= Wanted
  /\ pc = "select" /\ pollIn > 0 /\ idle = 0 => pollIn \in Delays(Wanted)

\* The agent goes on polling and sending heartbeats while it is in its loop:
\* through outages, slow calls, full slots, failed heartbeats and the rejections
\* that keep the loop busy.
TimersRecur ==
  /\ pc = "select" ~> pc = "nextJob" \/ pc \notin InLoop
  /\ pc = "select" ~> pc = "heartbeat" \/ pc \notin InLoop
=============================================================================
