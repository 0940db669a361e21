----------------------------- MODULE JobVerifier -----------------------------
(***************************************************************************)
(* security.JobVerifier: the checks a job envelope passes before anything  *)
(* else looks at it, and the in-memory nonce cache that refuses replays.   *)
(* Verify reads the clock once, outside the mutex, and uses that reading   *)
(* inside it, so a call is two steps with other calls and the clock in     *)
(* between.  The clock is the host's wall clock, which may step back.      *)
(***************************************************************************)
EXTENDS Integers, FiniteSets

CONSTANTS
  Envelopes,     \* the job envelopes the Control Plane may deliver, any number of times
  Nonces,        \* the nonces they carry
  Callers,       \* goroutines that call Verify
  Major,         \* the agent's protocol major version
  RequireSigned, \* local trust policy
  Skew,          \* tolerated lead of issuedAt (five minutes)
  NonceLimit,    \* capacity of the nonce cache (4096)
  MaxTime        \* bound on the clock

FieldCodes == {"INVALID_JOB", "TARGET_REJECTED"}
Verdicts == FieldCodes \cup
  {"OK", "PROTOCOL_INCOMPATIBLE", "JOB_EXPIRED", "SIGNATURE_INVALID",
   "REPLAY_REJECTED", "INTERNAL_ERROR"}

\* What a target is declared as and what its value parses as; "url" is an
\* absolute HTTP(S) URL without credentials and fragment.
Targets == [type : {"HOSTNAME", "IP", "CIDR", "URL", "other"},
            form : {"hostname", "ip", "cidr", "url", "malformed"}]

\* time.Time{}, the value of an absent field: a time before every clock reading.
ZeroTime == -1
Times == Nat \cup {ZeroTime}

ASSUME VerifierAssumption ==
  /\ Envelopes \subseteq
       [nonce : Nonces, issuedAt : Times, expiresAt : Times,
        major : Int,                        \* -1 when the version does not parse
        fields : FieldCodes \cup {"OK"},    \* identifiers, scope and risk class
        timeoutValid : BOOLEAN, target : Targets,
        signature : {"absent", "good", "bad"}]
  /\ Major \in Nat
  /\ RequireSigned \in BOOLEAN
  /\ Skew \in Nat
  /\ NonceLimit \in Nat \ {0}
  /\ MaxTime \in Nat

VARIABLES
  clock,     \* the host's clock
  seen,      \* v.seen: nonce and expiry of accepted envelopes
  call,      \* the call of Verify each caller is in, with its clock reading
  accepted,  \* history: nonce and expiry of every envelope this process accepted
  horizon,   \* history: the latest time the clock has shown to this process
  stepped    \* history: the clock has stepped back under this process

vars == <<clock, seen, call, accepted, horizon, stepped>>

Init ==
  /\ clock = 0
  /\ seen = {}
  /\ call = [c \in Callers |-> [pc |-> "idle"]]
  /\ accepted = {}
  /\ horizon = 0
  /\ stepped = FALSE

\* protocol.Compatible: only the major version counts.
Compatible(major) == major = Major

\* ValidateTarget: the value is what the type says; an IP address is not a
\* HOSTNAME.
ValidateTarget(t) ==
  \/ t.type = "HOSTNAME" /\ t.form = "hostname"
  \/ t.type = "IP"       /\ t.form = "ip"
  \/ t.type = "CIDR"     /\ t.form = "cidr"
  \/ t.type = "URL"      /\ t.form = "url"

\* The issue and expiry times, against one reading of the clock.
TimesValid(e, now) ==
  /\ e.issuedAt # ZeroTime
  /\ e.issuedAt <= now + Skew
  /\ e.expiresAt # ZeroTime
  /\ e.expiresAt > now
  /\ e.expiresAt > e.issuedAt

SignatureNotBad(e) == e.signature # "bad"
\* VerifyJobSignature for a signed envelope, the local policy for an unsigned one.
SignatureValid(e) ==
  e.signature = "good" \/ (e.signature = "absent" /\ ~RequireSigned)

\* The checks made before the mutex is taken, in the order of the code.
CheckEnvelope(e, now) ==
  IF ~Compatible(e.major) THEN "PROTOCOL_INCOMPATIBLE"
  ELSE IF e.fields # "OK" THEN e.fields
  ELSE IF ~TimesValid(e, now) THEN "JOB_EXPIRED"
  ELSE IF ~e.timeoutValid THEN "INVALID_JOB"
  ELSE IF ~ValidateTarget(e.target) THEN "TARGET_REJECTED"
  ELSE IF ~SignatureValid(e) THEN "SIGNATURE_INVALID"
  ELSE "OK"

Done(e, now, verdict) == [pc |-> "done", job |-> e, now |-> now, verdict |-> verdict]

\* Verify up to v.mu.Lock().
Check(c) ==
  /\ call[c].pc # "checked"
  /\ \E e \in Envelopes :
       LET code == CheckEnvelope(e, clock) IN
       call' = [call EXCEPT ![c] =
                  IF code = "OK" THEN [pc |-> "checked", job |-> e, now |-> clock]
                  ELSE Done(e, clock, code)]
  /\ UNCHANGED <<clock, seen, accepted, horizon, stepped>>

Entry(e) == [nonce |-> e.nonce, expiresAt |-> e.expiresAt]

\* The cache after its expired entries were deleted.
PrunedEarly(now) == {s \in seen : s.expiresAt > now + Skew}
NeverPruned(now) == seen
Pruned(now) == {s \in seen : s.expiresAt > now}

Cached(e, now) == \E s \in Pruned(now) : s.nonce = e.nonce

FullOffByOne(now) == Cardinality(Pruned(now)) > NonceLimit
Full(now) == Cardinality(Pruned(now)) >= NonceLimit

\* Verify from v.mu.Lock() on: the nonce was seen.
RejectReplay(c) ==
  LET e == call[c].job  now == call[c].now IN
  /\ call[c].pc = "checked"
  /\ Cached(e, now)
  /\ seen' = Pruned(now)
  /\ call' = [call EXCEPT ![c] = Done(e, now, "REPLAY_REJECTED")]
  /\ UNCHANGED <<clock, accepted, horizon, stepped>>

\* The nonce is new but the cache is at its limit: fail closed.
RejectFull(c) ==
  LET e == call[c].job  now == call[c].now IN
  /\ call[c].pc = "checked"
  /\ ~Cached(e, now) /\ Full(now)
  /\ seen' = Pruned(now)
  /\ call' = [call EXCEPT ![c] = Done(e, now, "INTERNAL_ERROR")]
  /\ UNCHANGED <<clock, accepted, horizon, stepped>>

\* The nonce is recorded and the envelope accepted.
Accept(c) ==
  LET e == call[c].job  now == call[c].now IN
  /\ call[c].pc = "checked"
  /\ ~Cached(e, now) /\ ~Full(now)
  /\ seen' = Pruned(now) \cup {Entry(e)}
  /\ call' = [call EXCEPT ![c] = Done(e, now, "OK")]
  /\ accepted' = accepted \cup {Entry(e)}
  /\ UNCHANGED <<clock, horizon, stepped>>

Tick ==
  /\ clock < MaxTime
  /\ clock' = clock + 1
  /\ horizon' = IF clock' > horizon THEN clock' ELSE horizon
  /\ UNCHANGED <<seen, call, accepted, stepped>>

\* The wall clock is set back; a parsed expiry is compared with the wall clock.
StepBack ==
  /\ clock' \in 0 .. clock - 1
  /\ stepped' = TRUE
  /\ UNCHANGED <<seen, call, accepted, horizon>>

\* The process is restarted: the cache is memory only.
Restart ==
  /\ seen' = {}
  /\ call' = [c \in Callers |-> [pc |-> "idle"]]
  /\ accepted' = {}
  /\ horizon' = clock
  /\ stepped' = FALSE
  /\ UNCHANGED clock

Next ==
  \/ Tick \/ StepBack
  \/ Restart
  \/ \E c \in Callers : Check(c) \/ RejectReplay(c) \/ RejectFull(c) \/ Accept(c)

Spec == Init /\ [][Next]_vars

-----------------------------------------------------------------------------
(* Properties.                                                              *)

Entries == [nonce : Nonces, expiresAt : Nat]

\* Envelopes the local policy lets near the nonce cache.
Acceptable ==
  {e \in Envelopes : /\ e.major = Major /\ e.fields = "OK"
                     /\ e.issuedAt # ZeroTime /\ e.expiresAt # ZeroTime
                     /\ e.timeoutValid /\ ValidateTarget(e.target)
                     /\ e.signature # "bad"
                     /\ RequireSigned => e.signature = "good"}

Calls == [pc : {"idle"}]
         \cup [pc : {"checked"}, job : Acceptable, now : Nat]
         \cup [pc : {"done"}, job : Envelopes, now : Nat, verdict : Verdicts]

\* Every variable keeps its type; in particular a call that reaches the nonce
\* cache holds an envelope that the local policy accepts, so no refused envelope
\* can spend a nonce.
TypeOK ==
  /\ clock \in Nat
  /\ seen \subseteq Entries
  /\ call \in [Callers -> Calls]
  /\ accepted \subseteq Entries
  /\ horizon \in Nat
  /\ stepped \in BOOLEAN

\* The nonce cache is a map (one entry per nonce) and never exceeds its limit,
\* however many calls are between their checks and the mutex.
CacheBounded ==
  /\ Cardinality(seen) <= NonceLimit
  /\ \A s, t \in seen : s.nonce = t.nonce => s = t

\* The agent calls Verify from one goroutine, the poll loop.
SingleCaller == \A c, d \in Callers : c = d

\* No replay: a nonce is accepted again by the same process only when every
\* envelope it was accepted with has expired at a time the clock has shown,
\* whoever calls and however the clock jumps: pruning opens no other window.
\* For the agent's single caller, while the clock does not step back, they have
\* expired at the reading of the call itself, so no envelope is accepted twice.
NoReplay ==
  [][\A c \in Callers :
       Accept(c) => \A a \in accepted :
         a.nonce = call[c].job.nonce =>
           /\ a.expiresAt <= horizon
           /\ SingleCaller /\ ~stepped => a.expiresAt <= call[c].now]_vars

\* The entries on which a verdict given at time now can rest.
Live(entries, now) == {a \in entries : a.expiresAt > now}

\* A refusal by the cache is justified: a replay verdict means the nonce was
\* accepted with an expiry still ahead, a full cache means that many accepted
\* envelopes are still live; expired entries never refuse a job.
RefusalJustified ==
  \A c \in Callers :
    call[c].pc = "done" =>
      /\ call[c].verdict = "REPLAY_REJECTED" =>
           \E a \in Live(accepted, call[c].now) : a.nonce = call[c].job.nonce
      /\ call[c].verdict = "INTERNAL_ERROR" =>
           Cardinality(Live(accepted, call[c].now)) >= NonceLimit

\* The inductive invariant behind NoReplay: an accepted envelope is in the cache
\* or has expired at a time the clock has shown, and, for a single caller and a
\* clock that does not step back, for the call that is past its checks.
Remembered ==
  \A a \in accepted :
    \/ a \in seen
    \/ /\ a.expiresAt <= horizon
       /\ SingleCaller /\ ~stepped =>
            \A c \in Callers : call[c].pc = "checked" => a.expiresAt <= call[c].now

\* No call holds a clock reading from beyond the horizon, and the clock is at it
\* unless it has stepped back.
ReadingsPast ==
  /\ \A c \in Callers : call[c].pc = "checked" => call[c].now <= horizon
  /\ clock <= horizon
  /\ ~stepped => clock = horizon
=============================================================================
