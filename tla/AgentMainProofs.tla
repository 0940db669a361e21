--------------------------- MODULE AgentMainProofs ---------------------------
(***************************************************************************)
(* Proofs about AgentMain, for any set of modules, tools, environments and *)
(* limits, any number of restarts and any length of an outage.             *)
(***************************************************************************)
EXTENDS AgentMain, TLAPS

-----------------------------------------------------------------------------
(* The inductive invariant.                                                 *)

\* A configuration that passed Load.
Loaded(c) ==
  /\ c["jobs"] \in Int /\ c["heartbeat"] \in Int /\ c["poll"] \in Int
  /\ c["jobs"] \in 1 .. MaxJobs /\ c["heartbeat"] \in MinHeartbeat .. MaxHeartbeat
  /\ c["poll"] > 0

\* A report in which every module of the manifest has its capability.
Discovered(r) ==
  /\ r.manifest \in Manifests
  /\ \A m \in r.manifest.modules : Capability[m] \in r.available

\* Only a process in its loop, or draining, runs jobs, and never more than its slots.
Configured ==
  /\ pc \in Starting \cup InLoop \cup Ended \cup {"drain"}
  /\ pc \notin {"load", "failed"} => Loaded(cfg)
  /\ cfg # None => Loaded(cfg)
  /\ running \in Nat
  /\ pc \in Starting \cup {"failed"} => running = 0
  /\ pc \notin {"load", "failed"} => running <= cfg["jobs"]

Reported ==
  /\ pc \notin {"load", "discover", "failed"} => Discovered(report)
  /\ report # None => Discovered(report)
  /\ stored = None \/ stored \in Manifests

\* From the answer to the manifest on, the Control Plane has this process's; from
\* the first heartbeat on, that agrees with it.
Agreed ==
  /\ pc \in InLoop \cup {"hello"} => stored = report.manifest
  /\ pc \in InLoop => /\ beat \in Beats
                      /\ beat.manifest = stored
                      /\ beat.running + beat.slots = cfg["jobs"]
  /\ offered \in Modules \cup {None}
  /\ pc = "submit" => offered \in stored.modules

\* The counters, and attempt as the number of failures in a row.
Counted ==
  /\ stopping \in BOOLEAN
  /\ heartbeatIn \in Fired .. MaxBeat
  /\ pollIn \in Nat \cup {Fired}
  /\ attempt \in 0 .. MaxAttempts /\ failures = attempt
  /\ idle \in Nat /\ restarts \in 0 .. MaxRestarts
  /\ pc \in Starting => idle = 0 /\ failures = 0 /\ attempt = 0

\* The time since the last poll and the time left on its timer make up the delay
\* wanted; when the poll has just ended the timer has all of it.
Paced ==
  /\ pc = "nextJob" => idle >= Wanted
  /\ pc \in {"select", "heartbeat", "submit"} =>
       /\ pollIn \in Nat
       /\ pollIn + idle >= Wanted
       /\ pollIn > 0 /\ idle = 0 => pollIn \in Delays(Wanted)

MainInv == Configured /\ Reported /\ Agreed /\ Counted /\ Paced

-----------------------------------------------------------------------------
(* Operators.                                                               *)

LEMMA MinOfPair ==
  ASSUME NEW a \in Int, NEW b \in Int
  PROVE  Min({a, b}) = IF a <= b THEN a ELSE b
<1>1. \E x \in {a, b} : \A y \in {a, b} : x =< y
  OBVIOUS
<1>2. \A x \in {a, b} : (\A y \in {a, b} : x =< y) => x = IF a <= b THEN a ELSE b
  OBVIOUS
<1>3. QED
  BY <1>1, <1>2 DEF Min

LEMMA MaxOfPair ==
  ASSUME NEW a \in Int, NEW b \in Int
  PROVE  Max({a, b}) = IF a >= b THEN a ELSE b
<1>1. \E x \in {a, b} : \A y \in {a, b} : x >= y
  OBVIOUS
<1>2. \A x \in {a, b} : (\A y \in {a, b} : x >= y) => x = IF a >= b THEN a ELSE b
  OBVIOUS
<1>3. QED
  BY <1>1, <1>2 DEF Max

\* Division by a positive number is monotonic.
LEMMA DivMonotonic ==
  ASSUME NEW a \in Nat, NEW b \in Nat, a <= b, NEW k \in Nat \ {0}
  PROVE  a \div k \in Nat /\ b \div k \in Nat /\ a \div k <= b \div k
<1>1. a \div k \in Int /\ b \div k \in Int
  OBVIOUS
<1>2. k * (a \div k) <= a /\ a < k * (a \div k) + k
  OBVIOUS
<1>3. k * (b \div k) <= b /\ b < k * (b \div k) + k
  OBVIOUS
<1>4. \A p \in Int, q \in Int : k * p < k * q + k => p <= q
  OBVIOUS
<1>5. k * (a \div k) < k * (b \div k) + k
  BY <1>1, <1>2, <1>3
<1>6. a \div k <= b \div k
  BY <1>1, <1>4, <1>5
<1>7. \A p \in Int : a < k * p + k => p >= 0
  OBVIOUS
<1>8. a \div k >= 0
  BY <1>1, <1>2, <1>7
<1>9. QED
  BY <1>1, <1>6, <1>8

\* A heartbeat timer is set within MaxBeat.
LEMMA JitterType ==
  ASSUME NEW i \in MinHeartbeat .. MaxHeartbeat
  PROVE  Jitter(i) \subseteq Fired .. MaxBeat
<1>1. i \in Nat /\ MaxHeartbeat \in Nat /\ i <= MaxHeartbeat /\ JitterPart \in Nat \ {0}
  BY AgentMainAssumption
<1>2. i \div JitterPart \in Nat /\ MaxHeartbeat \div JitterPart \in Nat
      /\ i \div JitterPart <= MaxHeartbeat \div JitterPart
  BY <1>1, DivMonotonic
<1>3. QED
  BY <1>1, <1>2 DEF Jitter, MaxBeat, Fired

\* A timer set to a positive delay, jittered.
LEMMA DelaysType ==
  ASSUME NEW w \in Nat
  PROVE  w \in Delays(w) /\ \A p \in Delays(w) : p \in Nat /\ p >= w
BY DEF Delays

\* client.Backoff never overflows its word, and clamping the shift does not
\* shorten the delay.
LEMMA BackoffExact ==
  ASSUME NEW n \in 0 .. MaxAttempts
  PROVE  Backoff(n) = Delays(Min({2 ^ n, MaxDelay}))
<1>1. n \in Nat /\ MaxShift \in Nat /\ WordBits \in Nat /\ MaxShift < WordBits /\ MaxDelay \in Nat
  BY AgentMainAssumption
<1>2. 2 ^ n \in Nat
  BY BackoffAssumption
<1>3. CASE n <= MaxShift
  <2>1. Min({n, MaxShift}) = n
    BY <1>1, <1>3, MinOfPair
  <2>2. Shl(n) = 2 ^ n
    BY <1>1, <1>3, AgentMainAssumption DEF Shl
  <2>3. QED
    BY <2>1, <2>2 DEF Backoff
<1>4. CASE n > MaxShift
  <2>1. Min({n, MaxShift}) = MaxShift
    BY <1>1, <1>4, MinOfPair
  <2>2. MaxShift \in 0 .. MaxAttempts /\ MaxShift \in MaxShift .. MaxAttempts
        /\ n \in MaxShift .. MaxAttempts
    BY <1>1, <1>4, AgentMainAssumption
  <2>3. Shl(MaxShift) = 2 ^ MaxShift /\ 2 ^ MaxShift \in Nat
    BY <1>1, <2>2, AgentMainAssumption, BackoffAssumption DEF Shl
  <2>4. MaxDelay <= 2 ^ MaxShift /\ MaxDelay <= 2 ^ n
    BY <2>2, BackoffAssumption
  <2>5. Min({2 ^ MaxShift, MaxDelay}) = MaxDelay /\ Min({2 ^ n, MaxDelay}) = MaxDelay
    <3>1. Min({2 ^ MaxShift, MaxDelay})
            = IF 2 ^ MaxShift <= MaxDelay THEN 2 ^ MaxShift ELSE MaxDelay
      BY <1>1, <2>3, MinOfPair
    <3>2. Min({2 ^ n, MaxDelay}) = IF 2 ^ n <= MaxDelay THEN 2 ^ n ELSE MaxDelay
      BY <1>1, <1>2, MinOfPair
    <3>3. QED
      BY <1>1, <1>2, <2>3, <2>4, <3>1, <3>2
  <2>6. QED
    BY <2>1, <2>3, <2>5 DEF Backoff
<1>5. QED
  BY <1>1, <1>3, <1>4

\* The delay wanted is positive and within the limit at which idle stops counting.
LEMMA WantedType ==
  ASSUME Counted, Loaded(cfg)
  PROVE  Wanted \in Nat /\ Wanted >= 1 /\ Wanted <= Max({MaxDelay, cfg["poll"]})
         /\ Max({MaxDelay, cfg["poll"]}) \in Nat
<1>1. cfg["poll"] \in Nat /\ cfg["poll"] >= 1 /\ MaxDelay \in Nat /\ MaxDelay >= 1
  BY AgentMainAssumption DEF Loaded
<1>2. Max({MaxDelay, cfg["poll"]}) = IF MaxDelay >= cfg["poll"] THEN MaxDelay ELSE cfg["poll"]
  BY <1>1, MaxOfPair
<1>3. 2 ^ failures \in Nat \ {0}
  BY BackoffAssumption DEF Counted
<1>4. Min({2 ^ failures, MaxDelay}) = IF 2 ^ failures <= MaxDelay THEN 2 ^ failures ELSE MaxDelay
  BY <1>1, <1>3, MinOfPair
<1>5. CASE failures = 0
  BY <1>1, <1>2, <1>5 DEF Wanted
<1>6. CASE failures # 0
  <2>1. Wanted = IF 2 ^ failures <= MaxDelay THEN 2 ^ failures ELSE MaxDelay
    BY <1>4, <1>6 DEF Wanted
  <2>2. Wanted \in Nat /\ Wanted >= 1 /\ Wanted <= MaxDelay
    BY <1>1, <1>3, <2>1
  <2>3. QED
    BY <1>1, <1>2, <2>2
<1>7. QED
  BY <1>5, <1>6

\* What Build tells the Control Plane.
LEMMA BuildType ==
  ASSUME Configured, Discovered(report), Loaded(cfg), running <= cfg["jobs"]
  PROVE  /\ Build \in Beats /\ Build.manifest = report.manifest
         /\ Build.running + Build.slots = cfg["jobs"]
<1>1. running \in Nat /\ cfg["jobs"] \in Nat /\ ~(running > cfg["jobs"])
  BY AgentMainAssumption DEF Configured, Loaded
<1>2. Build = [manifest |-> report.manifest, running |-> running, slots |-> cfg["jobs"] - running]
  BY <1>1 DEF Build
<1>3. cfg["jobs"] - running \in Nat /\ running + (cfg["jobs"] - running) = cfg["jobs"]
  BY <1>1
<1>4. QED
  BY <1>1, <1>2, <1>3 DEF Beats, Discovered

\* Of the modules that share a capability the last decides, but all are available
\* or none is: every module of the manifest has its capability.
LEMMA SharedAvailable ==
  ASSUME NEW installed \in SUBSET Tools,
         NEW modules, modules = {m \in Modules : Available(m, installed)}
  PROVE  modules \subseteq Modules /\ \A m \in modules : Capability[m] \in Capabilities(modules)
<1>1. ASSUME NEW m \in modules, NEW o \in Modules \ modules
      PROVE  Capability[o] # Capability[m]
  <2>1. m \in Modules /\ Available(m, installed) /\ ~Available(o, installed)
    OBVIOUS
  <2>2. Capability[o] = Capability[m] =>
          /\ RequiredTool[o] = RequiredTool[m]
          /\ o \in Withheld <=> m \in Withheld
          /\ o \in Unsupported <=> m \in Unsupported
    BY <2>1, SharedCapability
  <2>3. QED
    BY <2>1, <2>2 DEF Available
<1>2. QED
  BY <1>1 DEF Capabilities

-----------------------------------------------------------------------------
(* Steps.                                                                   *)

\* What a step that is neither Load nor Restart does to the configuration.
LEMMA ConfiguredKept ==
  ASSUME MainInv, [Next]_vars
  PROVE  Configured'
<1> USE DEF MainInv
<1>1. CASE Load
  <2>1. running' = running /\ pc = "load" /\ running = 0
    BY <1>1 DEF Load, loopVars, Configured, Starting
  <2>2. PICK env \in Environments :
          LET c == [s \in Settings |-> Setting(env, s)] IN
          \/ Valid(c) /\ cfg' = c /\ pc' = "discover"
          \/ pc' = "failed" /\ UNCHANGED cfg
    BY <1>1 DEF Load
  <2> DEFINE c == [s \in Settings |-> Setting(env, s)]
  <2>3. \A s \in Settings : c[s] \in Int /\ c[s] > 0
    BY AgentMainAssumption DEF Setting
  <2>4. Valid(c) => Loaded(c)
    BY <2>3 DEF Valid, Loaded, Settings
  <2>5. CASE Valid(c) /\ cfg' = c /\ pc' = "discover"
    <3>1. Loaded(cfg') /\ running' = 0 /\ pc' = "discover"
      BY <2>1, <2>4, <2>5
    <3>2. 0 <= cfg'["jobs"]
      BY <3>1, AgentMainAssumption DEF Loaded
    <3>3. QED
      BY <3>1, <3>2 DEF Configured, Starting
  <2>6. CASE pc' = "failed" /\ UNCHANGED cfg
    BY <2>1, <2>6 DEF Configured, Ended
  <2>7. QED
    BY <2>2, <2>5, <2>6
<1>2. CASE Restart
  BY <1>2 DEF Restart, Configured, Starting
<1>3. CASE Submit
  <2>1. cfg' = cfg /\ pc' = "select" /\ pc = "submit"
    BY <1>3 DEF Submit
  <2>2. running \in Nat /\ running <= cfg["jobs"] /\ Loaded(cfg)
    BY <2>1 DEF Configured
  <2>3. running' \in Nat /\ running' <= cfg["jobs"]
    BY <1>3, <2>2 DEF Submit, Loaded
  <2>4. QED
    BY <2>1, <2>2, <2>3 DEF Configured, Starting, InLoop
<1>4. CASE JobEnds
  <2>1. cfg' = cfg /\ pc' = pc /\ running > 0 /\ running' = running - 1
    BY <1>4 DEF JobEnds
  <2>2. running \in Nat
    BY DEF Configured
  <2>3. pc \notin Starting \cup {"failed"} /\ running' \in Nat
    BY <2>1, <2>2 DEF Configured
  <2>4. pc \notin {"load", "failed"} /\ Loaded(cfg) /\ running <= cfg["jobs"]
    BY <2>3 DEF Configured, Starting
  <2>5. running' <= cfg["jobs"]
    BY <2>1, <2>2, <2>4 DEF Loaded
  <2>6. QED
    BY <2>1, <2>3, <2>4, <2>5 DEF Configured
<1>5. CASE ~(Load \/ Restart \/ Submit \/ JobEnds)
  <2>1. cfg' = cfg /\ running' = running
    BY <1>5 DEF Next, MainStep, Discover, Identify, ReportCapabilities, ReportFails, Hello,
       HelloFails, HeartbeatDue, HeartbeatAnswered, HeartbeatFails, PollBusy, PollDue, NextJob,
       NextJobFails, LoopReturns, Exit, Tick, Signal, Stopped, vars, loopVars
  <2>2. /\ pc' \in Starting \cup InLoop \cup Ended \cup {"drain"}
        /\ pc' \notin {"load", "failed"} => pc \notin {"load", "failed"}
        /\ pc' \in Starting \cup {"failed"} => pc \in Starting \cup {"failed"}
    BY <1>5 DEF Configured, Next, MainStep, Discover, Identify, ReportCapabilities, ReportFails,
       Hello, HelloFails, HeartbeatDue, HeartbeatAnswered, HeartbeatFails, PollBusy, PollDue,
       NextJob, NextJobFails, LoopReturns, Exit, Tick, Signal, Stopped, vars, Starting, InLoop,
       Ended
  <2>3. QED
    BY <2>1, <2>2 DEF Configured
<1>6. QED
  BY <1>1, <1>2, <1>3, <1>4, <1>5

LEMMA ReportedKept ==
  ASSUME MainInv, [Next]_vars
  PROVE  Reported'
<1> USE DEF MainInv
<1>1. CASE Discover
  <2>1. PICK installed \in SUBSET Tools :
          LET modules == {m \in Modules : Available(m, installed)} IN
          report' = [manifest |-> [tools |-> installed, modules |-> modules],
                     available |-> Capabilities(modules)]
    BY <1>1 DEF Discover
  <2> DEFINE modules == {m \in Modules : Available(m, installed)}
  <2>2. modules \subseteq Modules /\ \A m \in modules : Capability[m] \in Capabilities(modules)
    BY SharedAvailable
  <2> HIDE DEF modules
  <2>3. report'.manifest = [tools |-> installed, modules |-> modules]
        /\ report'.available = Capabilities(modules)
    BY <2>1 DEF modules
  <2>4. Discovered(report')
    BY <2>2, <2>3 DEF Discovered, Manifests
  <2>5. stored' = stored
    BY <1>1 DEF Discover, cpVars
  <2>6. QED
    BY <2>4, <2>5 DEF Reported
<1>2. CASE ReportCapabilities \/ ReportFails
  <2>1. report' = report /\ stored' \in {report.manifest, stored} /\ pc = "manifest"
    BY <1>2 DEF ReportCapabilities, ReportFails
  <2>2. Discovered(report) /\ (stored' = None \/ stored' \in Manifests)
    BY <2>1 DEF Reported, Discovered
  <2>3. QED
    BY <2>1, <2>2 DEF Reported
<1>3. CASE Restart
  BY <1>3 DEF Restart, Reported, cpVars
<1>4. CASE ~(Discover \/ ReportCapabilities \/ ReportFails \/ Restart)
  <2>1. report' = report /\ stored' = stored
    BY <1>4 DEF Next, MainStep, Load, Identify, Hello, HelloFails, HeartbeatDue,
       HeartbeatAnswered, HeartbeatFails, PollBusy, PollDue, NextJob, NextJobFails, Submit,
       LoopReturns, Exit, JobEnds, Tick, Signal, Stopped, vars, cpVars
  <2>2. pc' \notin {"load", "discover", "failed"} => pc \notin {"load", "discover", "failed"}
    BY <1>4 DEF Next, MainStep, Load, Identify, Hello, HelloFails, HeartbeatDue,
       HeartbeatAnswered, HeartbeatFails, PollBusy, PollDue, NextJob, NextJobFails, Submit,
       LoopReturns, Exit, JobEnds, Tick, Signal, Stopped, vars, InLoop
  <2>3. QED
    BY <2>1, <2>2 DEF Reported
<1>5. QED
  BY <1>1, <1>2, <1>3, <1>4

LEMMA AgreedKept ==
  ASSUME MainInv, [Next]_vars
  PROVE  Agreed'
<1> USE DEF MainInv
<1>1. CASE ReportCapabilities
  <2>1. /\ pc' = IF stored' = report.manifest THEN "hello" ELSE "failed"
        /\ report' = report /\ offered' = offered
    BY <1>1 DEF ReportCapabilities, HashMatches, loopVars
  <2>2. QED
    BY <2>1 DEF Agreed, InLoop
<1>2. CASE Hello \/ HeartbeatAnswered \/ HeartbeatFails
  <2>1. /\ UNCHANGED <<cfg, report, stored, offered>> /\ beat' \in {Build, beat}
        /\ pc \in {"hello", "heartbeat"} /\ pc' = "select" /\ (pc = "hello" => beat' = Build)
    BY <1>2 DEF Hello, HeartbeatAnswered, HeartbeatFails
  <2>2. stored = report.manifest /\ Discovered(report) /\ Loaded(cfg) /\ running <= cfg["jobs"]
    BY <2>1 DEF Agreed, Reported, Configured, InLoop
  <2>3. /\ Build \in Beats /\ Build.manifest = stored
        /\ Build.running + Build.slots = cfg["jobs"]
    BY <2>2, BuildType
  <2>4. pc = "heartbeat" => /\ beat \in Beats /\ beat.manifest = stored
                            /\ beat.running + beat.slots = cfg["jobs"]
    BY DEF Agreed, InLoop
  <2>5. QED
    BY <2>1, <2>2, <2>3, <2>4 DEF Agreed
<1>3. CASE NextJob
  <2>1. /\ UNCHANGED <<cfg, report, stored, beat>> /\ pc = "nextJob"
        /\ offered' \in stored.modules \cup {None}
        /\ pc' = IF offered' = None THEN "select" ELSE "submit"
    BY <1>3 DEF NextJob, cpVars
  <2>2. /\ stored = report.manifest /\ beat \in Beats /\ beat.manifest = stored
        /\ beat.running + beat.slots = cfg["jobs"]
    BY <2>1 DEF Agreed, InLoop
  <2>3. stored.modules \subseteq Modules
    BY <2>1, <2>2 DEF Reported, Discovered, Manifests
  <2>4. QED
    BY <2>1, <2>2, <2>3 DEF Agreed
<1>4. CASE Submit
  <2>1. UNCHANGED <<cfg, report, stored, beat>> /\ pc = "submit" /\ pc' = "select"
        /\ offered' = None
    BY <1>4 DEF Submit, cpVars
  <2>2. QED
    BY <2>1 DEF Agreed, InLoop
<1>5. CASE Restart \/ Load \/ Discover \/ Identify \/ ReportFails \/ HelloFails \/ Exit
  <2>1. pc' \notin InLoop \cup {"hello"} /\ offered' \in {offered, None}
    BY <1>5 DEF Restart, Load, Discover, Identify, ReportFails, HelloFails, Exit, InLoop, loopVars
  <2>2. QED
    BY <2>1 DEF Agreed, InLoop
<1>6. CASE HeartbeatDue \/ PollBusy \/ PollDue \/ NextJobFails \/ LoopReturns
           \/ JobEnds \/ Tick \/ Signal \/ Stopped \/ UNCHANGED vars
  <2>1. UNCHANGED <<cfg, report, stored, beat, offered>>
    BY <1>6 DEF HeartbeatDue, PollBusy, PollDue, NextJobFails, LoopReturns,
       JobEnds, Tick, Signal, Stopped, vars, loopVars, cpVars
  <2>2. /\ pc' \in InLoop => pc \in InLoop
        /\ pc' \in {"hello", "submit"} => pc' = pc
    BY <1>6 DEF HeartbeatDue, PollBusy, PollDue, NextJobFails, LoopReturns,
       JobEnds, Tick, Signal, Stopped, vars, InLoop
  <2>3. QED
    BY <2>1, <2>2 DEF Agreed, InLoop
<1>7. QED
  BY <1>1, <1>2, <1>3, <1>4, <1>5, <1>6 DEF Next, MainStep

LEMMA CountedKept ==
  ASSUME MainInv, [Next]_vars
  PROVE  Counted'
<1> USE DEF MainInv
<1>1. pc' \in Starting => pc \in Starting \/ Restart
  BY DEF Next, MainStep, Load, Discover, Identify, ReportCapabilities, ReportFails, Hello,
     HelloFails, HeartbeatDue, HeartbeatAnswered, HeartbeatFails, PollBusy, PollDue, NextJob,
     NextJobFails, Submit, LoopReturns, Exit, JobEnds, Tick, Signal, Stopped, vars, Starting,
     InLoop, Ended
<1>2. CASE Hello \/ HeartbeatAnswered \/ HeartbeatFails
  <2>1. /\ UNCHANGED <<stopping, idle, failures, restarts>> /\ pc \in {"hello", "heartbeat"}
        /\ pc' = "select"
        /\ heartbeatIn' \in Jitter(cfg["heartbeat"])
        /\ pollIn' \in {pollIn, cfg["poll"]}
        /\ attempt' \in {attempt, 0} /\ (attempt' # attempt => pc = "hello")
    BY <1>2 DEF Hello, HeartbeatAnswered, HeartbeatFails, history
  <2>2. Loaded(cfg)
    BY <2>1 DEF Configured
  <2>3. heartbeatIn' \in Fired .. MaxBeat /\ cfg["poll"] \in Nat
    BY <2>1, <2>2, JitterType DEF Loaded
  <2>4. attempt' = attempt
    BY <2>1 DEF Counted, Starting
  <2>5. pollIn' \in Nat \cup {Fired}
    BY <2>1, <2>3 DEF Counted
  <2>6. QED
    BY <2>1, <2>3, <2>4, <2>5 DEF Counted, Starting
<1>3. CASE HeartbeatDue \/ PollBusy \/ PollDue
  <2>1. /\ UNCHANGED <<stopping, attempt, idle, failures, restarts>> /\ pc = "select"
        /\ heartbeatIn' \in {heartbeatIn, Fired} /\ pollIn' \in {pollIn, Fired, cfg["poll"]}
        /\ pc' \in InLoop
    BY <1>3 DEF HeartbeatDue, PollBusy, PollDue, history, InLoop
  <2>2. cfg["poll"] \in Nat
    BY <2>1 DEF Configured, Loaded
  <2>3. heartbeatIn' \in Fired .. MaxBeat
    <3>1. heartbeatIn \in Fired .. MaxBeat
      BY DEF Counted
    <3>2. Fired \in Fired .. MaxBeat
      BY <3>1, JitterType, DivMonotonic, AgentMainAssumption DEF Fired, MaxBeat
    <3>3. QED
      BY <2>1, <3>1, <3>2
  <2>4. pc' \notin Starting
    BY <2>1 DEF InLoop, Starting
  <2>5. pollIn' \in Nat \cup {Fired}
    BY <2>1, <2>2 DEF Counted
  <2>6. QED
    BY <2>1, <2>3, <2>4, <2>5 DEF Counted
<1>4. CASE NextJob
  <2>1. /\ UNCHANGED <<stopping, heartbeatIn, restarts>> /\ pc = "nextJob"
        /\ attempt' = 0 /\ failures' = 0 /\ idle' = 0 /\ pollIn' = cfg["poll"]
        /\ pc' \in {"select", "submit"}
    BY <1>4 DEF NextJob
  <2>2. cfg["poll"] \in Nat
    BY <2>1 DEF Configured, Loaded
  <2>3. 0 \in 0 .. MaxAttempts
    BY AgentMainAssumption
  <2>4. QED
    BY <2>1, <2>2, <2>3 DEF Counted
<1>5. CASE NextJobFails
  <2>1. /\ UNCHANGED <<stopping, heartbeatIn, restarts>> /\ attempt < MaxAttempts
        /\ attempt' = attempt + 1 /\ failures' = failures + 1 /\ idle' = 0
        /\ pollIn' \in Backoff(attempt') /\ pc' = "select"
    BY <1>5 DEF NextJobFails
  <2>2. attempt' \in 0 .. MaxAttempts /\ failures' = attempt'
    BY <2>1, AgentMainAssumption DEF Counted
  <2>3. Min({2 ^ attempt', MaxDelay}) \in Nat
    <3>1. 2 ^ attempt' \in Nat /\ MaxDelay \in Nat
      BY <2>2, AgentMainAssumption, BackoffAssumption
    <3>2. QED
      BY <3>1, MinOfPair
  <2>4. pollIn' \in Nat
    BY <2>1, <2>2, <2>3, BackoffExact, DelaysType
  <2>5. QED
    BY <2>1, <2>2, <2>4 DEF Counted, Starting
<1>6. CASE Tick
  <2>1. /\ UNCHANGED <<pc, stopping, attempt, failures, restarts>> /\ pc \in InLoop
        /\ pollIn' = Down(pollIn) /\ heartbeatIn' = Down(heartbeatIn)
        /\ idle' = Min({idle + 1, Max({MaxDelay, cfg["poll"]})})
    BY <1>6 DEF Tick
  <2>2. Loaded(cfg)
    BY <2>1 DEF Configured, InLoop
  <2>3. Max({MaxDelay, cfg["poll"]}) \in Nat
    BY <2>2, WantedType
  <2>4. idle' \in Nat
    <3> DEFINE cap == Max({MaxDelay, cfg["poll"]})
    <3>1. cap \in Nat /\ idle + 1 \in Nat /\ idle' = Min({idle + 1, cap})
      BY <2>1, <2>3 DEF Counted
    <3> HIDE DEF cap
    <3>2. QED
      BY <3>1, MinOfPair
  <2>5. heartbeatIn' \in Fired .. MaxBeat /\ pollIn' \in Nat \cup {Fired}
    <3>1. MaxBeat \in Nat
      BY DivMonotonic, AgentMainAssumption DEF MaxBeat
    <3>2. QED
      BY <2>1, <3>1 DEF Counted, Down, Fired
  <2>6. QED
    BY <2>1, <2>4, <2>5 DEF Counted, InLoop, Starting
<1>7. CASE Restart
  <2>1. /\ stopping' = FALSE /\ pollIn' = 0 /\ heartbeatIn' = 0 /\ attempt' = 0
        /\ idle' = 0 /\ failures' = 0 /\ restarts' = restarts + 1 /\ restarts < MaxRestarts
    BY <1>7 DEF Restart
  <2>2. 0 \in Fired .. MaxBeat /\ 0 \in 0 .. MaxAttempts
    BY DivMonotonic, AgentMainAssumption DEF MaxBeat, Fired
  <2>3. restarts' \in 0 .. MaxRestarts
    BY <2>1, AgentMainAssumption DEF Counted
  <2>4. QED
    BY <2>1, <2>2, <2>3 DEF Counted
<1>8. CASE ~(Hello \/ HeartbeatAnswered \/ HeartbeatFails \/ HeartbeatDue \/ PollBusy \/ PollDue
             \/ NextJob \/ NextJobFails \/ Tick \/ Restart)
  <2>1. UNCHANGED <<heartbeatIn, pollIn, attempt, failures, idle, restarts>>
        /\ stopping' \in {stopping, TRUE}
    BY <1>8 DEF Next, MainStep, Load, Discover, Identify, ReportCapabilities, ReportFails,
       HelloFails, Submit, LoopReturns, Exit, JobEnds, Signal, Stopped, vars, loopVars, history
  <2>2. QED
    BY <1>1, <1>8, <2>1 DEF Counted
<1>9. QED
  BY <1>2, <1>3, <1>4, <1>5, <1>6, <1>7, <1>8

\* A second passes: what the timer loses, idle gains, up to a limit that is enough.
LEMMA TickPaced ==
  ASSUME MainInv, Tick
  PROVE  Paced'
<1> USE DEF MainInv
<1> DEFINE cap == Max({MaxDelay, cfg["poll"]})
<1>1. /\ UNCHANGED <<pc, cfg, failures>> /\ pc \in InLoop
      /\ pollIn' = Down(pollIn) /\ idle' = Min({idle + 1, cap})
  BY DEF Tick
<1>2. Loaded(cfg) /\ idle \in Nat /\ pollIn \in Nat \cup {Fired}
  BY <1>1 DEF Configured, InLoop, Counted
<1>3. Wanted \in Nat /\ Wanted >= 1 /\ Wanted <= cap /\ cap \in Nat
  BY <1>2, WantedType
<1>4. Wanted' = Wanted
  BY <1>1 DEF Wanted
<1> HIDE DEF cap
<1>5. idle' = IF idle + 1 <= cap THEN idle + 1 ELSE cap
  BY <1>1, <1>2, <1>3, MinOfPair
<1>6. idle' >= 1
  BY <1>2, <1>3, <1>5
<1>7. idle >= Wanted => idle' >= Wanted
  BY <1>2, <1>3, <1>5
<1>8. ASSUME pollIn \in Nat, pollIn + idle >= Wanted
      PROVE  pollIn' \in Nat /\ pollIn' + idle' >= Wanted
  BY <1>1, <1>2, <1>3, <1>5, <1>8 DEF Down
<1>9. QED
  BY <1>1, <1>4, <1>6, <1>7, <1>8 DEF Paced

LEMMA PacedKept ==
  ASSUME MainInv, [Next]_vars
  PROVE  Paced'
<1> USE DEF MainInv
<1>1. CASE Hello
  <2>1. /\ UNCHANGED <<cfg, idle, failures>> /\ pc = "hello" /\ pc' = "select"
        /\ pollIn' = cfg["poll"]
    BY <1>1 DEF Hello, history
  <2>2. Loaded(cfg) /\ idle = 0 /\ failures = 0
    BY <2>1 DEF Configured, Counted, Starting
  <2>3. Wanted' = cfg["poll"] /\ cfg["poll"] \in Nat
    BY <2>1, <2>2 DEF Wanted, Loaded
  <2>4. QED
    BY <2>1, <2>2, <2>3, DelaysType DEF Paced
<1>2. CASE PollBusy
  <2>1. /\ UNCHANGED <<cfg, idle, failures, pc>> /\ pc = "select" /\ pollIn = 0
        /\ pollIn' = cfg["poll"]
    BY <1>2 DEF PollBusy, history
  <2>2. Loaded(cfg) /\ idle \in Nat /\ Wanted' = Wanted /\ cfg["poll"] \in Nat
    BY <2>1 DEF Configured, Counted, Wanted, Loaded
  <2>3. Wanted \in Nat /\ Wanted >= 1
    BY <2>2, WantedType
  <2>4. idle >= Wanted
    BY <2>1, <2>2, <2>3 DEF Paced
  <2>5. pollIn' + idle' >= Wanted /\ idle' # 0
    BY <2>1, <2>2, <2>3, <2>4
  <2>6. QED
    BY <2>1, <2>2, <2>5 DEF Paced
<1>3. CASE PollDue
  <2>1. UNCHANGED <<cfg, idle, failures>> /\ pc = "select" /\ pollIn = 0 /\ pc' = "nextJob"
    BY <1>3 DEF PollDue, history
  <2>2. Loaded(cfg) /\ idle \in Nat /\ Wanted' = Wanted
    BY <2>1 DEF Configured, Counted, Wanted
  <2>3. idle >= Wanted
    BY <2>1, <2>2, WantedType DEF Paced
  <2>4. QED
    BY <2>1, <2>2, <2>3 DEF Paced
<1>4. CASE NextJob
  <2>1. /\ cfg' = cfg /\ failures' = 0 /\ idle' = 0 /\ pollIn' = cfg["poll"] /\ pc = "nextJob"
        /\ pc' \in {"select", "submit"}
    BY <1>4 DEF NextJob
  <2>2. Wanted' = cfg["poll"] /\ cfg["poll"] \in Nat
    BY <2>1 DEF Wanted, Configured, Loaded
  <2>3. QED
    BY <2>1, <2>2, DelaysType DEF Paced
<1>5. CASE NextJobFails
  <2>1. /\ cfg' = cfg /\ failures' = failures + 1 /\ idle' = 0 /\ attempt < MaxAttempts
        /\ attempt' = attempt + 1 /\ pollIn' \in Backoff(attempt') /\ pc' = "select"
    BY <1>5 DEF NextJobFails
  <2>2. attempt' \in 0 .. MaxAttempts /\ failures' = attempt' /\ attempt' # 0
    BY <2>1, AgentMainAssumption DEF Counted
  <2>3. Wanted' = Min({2 ^ attempt', MaxDelay})
    BY <2>2 DEF Wanted
  <2>4. Wanted' \in Nat
    <3>1. 2 ^ attempt' \in Nat /\ MaxDelay \in Nat
      BY <2>2, AgentMainAssumption, BackoffAssumption
    <3>2. QED
      BY <2>3, <3>1, MinOfPair
  <2>5. pollIn' \in Delays(Wanted')
    BY <2>1, <2>2, <2>3, BackoffExact
  <2>6. pollIn' \in Nat /\ pollIn' >= Wanted'
    BY <2>4, <2>5, DelaysType
  <2>7. pollIn' + idle' >= Wanted'
    <3>1. idle' = 0
      BY <2>1
    <3>2. \A p \in Nat, w \in Nat : p >= w => p + 0 >= w
      OBVIOUS
    <3>3. QED
      BY <2>4, <2>6, <3>1, <3>2
  <2>8. QED
    BY <2>1, <2>5, <2>6, <2>7 DEF Paced
<1>6. CASE Tick
  BY <1>6, TickPaced
<1>7. CASE Load \/ Discover \/ Identify \/ ReportCapabilities \/ ReportFails \/ HelloFails
           \/ LoopReturns \/ Exit \/ Restart
  <2>1. pc' \notin {"nextJob", "select", "heartbeat", "submit"}
    BY <1>7 DEF Load, Discover, Identify, ReportCapabilities, ReportFails, HelloFails,
       LoopReturns, Exit, Restart
  <2>2. QED
    BY <2>1 DEF Paced
<1>8. CASE HeartbeatDue \/ HeartbeatAnswered \/ HeartbeatFails \/ Submit
           \/ JobEnds \/ Signal \/ Stopped \/ UNCHANGED vars
  <2>1. UNCHANGED <<cfg, idle, failures, pollIn>>
    BY <1>8 DEF HeartbeatDue, HeartbeatAnswered, HeartbeatFails, Submit, JobEnds, Signal,
       Stopped, vars, loopVars, history
  <2>2. /\ pc' = "nextJob" => pc = "nextJob"
        /\ pc' \in {"select", "heartbeat", "submit"} => pc \in {"select", "heartbeat", "submit"}
    BY <1>8 DEF HeartbeatDue, HeartbeatAnswered, HeartbeatFails, Submit, JobEnds, Signal,
       Stopped, vars
  <2>3. Wanted' = Wanted
    BY <2>1 DEF Wanted
  <2>4. QED
    BY <2>1, <2>2, <2>3 DEF Paced
<1>9. QED
  BY <1>1, <1>2, <1>3, <1>4, <1>5, <1>6, <1>7, <1>8 DEF Next, MainStep

-----------------------------------------------------------------------------
(* The results.                                                             *)

LEMMA InitMain == Init => MainInv
<1> HAVE Init
<1>1. 0 \in Fired .. MaxBeat /\ 0 \in 0 .. MaxAttempts /\ 0 \in 0 .. MaxRestarts
  BY DivMonotonic, AgentMainAssumption DEF MaxBeat, Fired
<1>2. Counted
  BY <1>1 DEF Init, Counted
<1>3. Configured /\ Reported /\ Agreed /\ Paced
  BY DEF Init, Configured, Reported, Agreed, Paced, Starting, InLoop
<1>4. QED
  BY <1>2, <1>3 DEF MainInv

\* The inductive invariant: the configuration and the report of the process that
\* runs, the Control Plane's agreement with it, and the poll timer's account.
THEOREM MainInvariance == Spec => []MainInv
<1>1. MainInv /\ [Next]_vars => MainInv'
  BY ConfiguredKept, ReportedKept, AgreedKept, CountedKept, PacedKept DEF MainInv
<1>2. QED
  BY InitMain, <1>1, PTL DEF Spec

\* Every variable keeps its type: the configuration that passed Load is within its
\* limits, and the process never runs more jobs than it allows.
THEOREM TypeCorrect == Spec => []TypeOK
<1>1. MainInv => TypeOK
  <2> HAVE MainInv
  <2>1. cfg # None => running \in 0 .. cfg["jobs"]
    <3> HAVE cfg # None
    <3>1. Loaded(cfg) /\ running \in Nat
      BY DEF MainInv, Configured
    <3>2. running <= cfg["jobs"]
      <4>1. CASE pc \in {"load", "failed"}
        <5>1. running = 0
          BY <4>1 DEF MainInv, Configured, Starting
        <5>2. QED
          BY <3>1, <5>1, AgentMainAssumption DEF Loaded
      <4>2. CASE pc \notin {"load", "failed"}
        BY <4>2 DEF MainInv, Configured
      <4>3. QED
        BY <4>1, <4>2
    <3>3. QED
      BY <3>1, <3>2, AgentMainAssumption DEF Loaded
  <2>2. QED
    BY <2>1 DEF MainInv, Configured, Reported, Agreed, Counted, Loaded, Discovered, TypeOK
<1>2. QED
  BY <1>1, MainInvariance, PTL

\* While the agent polls, the manifest the Control Plane stored, the one its last
\* heartbeat named and the one of this process are the same, and no job offered on
\* its ground misses its capability.
THEOREM ManifestsAgree == Spec => []ManifestAgrees
<1>1. MainInv => ManifestAgrees
  <2> HAVE MainInv
  <2>1. pc \in InLoop => beat # None
    BY NoneAssumption DEF MainInv, Agreed
  <2>2. pc = "submit" => Has(offered)
    BY DEF MainInv, Agreed, Reported, Discovered, InLoop, Has
  <2>3. QED
    BY <2>1, <2>2 DEF MainInv, Agreed, ManifestAgrees
<1>2. QED
  BY <1>1, MainInvariance, PTL

\* After any number of failed polls the next one comes no earlier than the delay
\* client.Backoff doubles, and the timer is set to that delay and at most a third
\* more; the clamp of the shift never shortens it.
THEOREM PollsArePaced == Spec => []PollsPaced
<1>1. MainInv => PollsPaced
  BY DEF MainInv, Paced, PollsPaced
<1>2. QED
  BY <1>1, MainInvariance, PTL
=============================================================================
