-------------------------- MODULE JobVerifierProofs --------------------------
(***************************************************************************)
(* Proofs about JobVerifier, for every set of envelopes, every number of   *)
(* callers, every capacity of the nonce cache and a clock that may step    *)
(* back at any time.                                                       *)
(***************************************************************************)
EXTENDS JobVerifier, FiniteSetTheorems, TLAPS

\* A cache entry of an envelope.
LEMMA EntryType ==
  ASSUME NEW e \in Acceptable
  PROVE  Entry(e) \in Entries /\ Entry(e).nonce = e.nonce /\ Entry(e).expiresAt = e.expiresAt
<1>1. e \in Envelopes /\ e.expiresAt # ZeroTime
  BY DEF Acceptable
<1>2. e.nonce \in Nonces /\ e.expiresAt \in Nat
  BY <1>1, VerifierAssumption DEF Times
<1>3. QED
  BY <1>2 DEF Entry, Entries

\* An envelope that passes the checks before the mutex is acceptable.
LEMMA CheckEnvelopeOK ==
  ASSUME NEW e \in Envelopes, NEW now \in Nat
  PROVE  /\ CheckEnvelope(e, now) \in Verdicts
         /\ CheckEnvelope(e, now) = "OK" => e \in Acceptable
         /\ CheckEnvelope(e, now) \notin {"REPLAY_REJECTED", "INTERNAL_ERROR"}
<1>1. /\ e.fields \in FieldCodes \cup {"OK"}
      /\ e.timeoutValid \in BOOLEAN
      /\ e.signature \in {"absent", "good", "bad"}
  BY VerifierAssumption
<1>2. SignatureValid(e) => e.signature # "bad" /\ (RequireSigned => e.signature = "good")
  BY <1>1, VerifierAssumption DEF SignatureValid
<1>3. CheckEnvelope(e, now) = "OK" =>
        /\ e.major = Major /\ e.fields = "OK" /\ e.timeoutValid
        /\ e.issuedAt # ZeroTime /\ e.expiresAt # ZeroTime
        /\ ValidateTarget(e.target) /\ SignatureValid(e)
  BY <1>1 DEF CheckEnvelope, FieldCodes, Compatible, TimesValid
<1>4. CheckEnvelope(e, now) \in Verdicts \ {"REPLAY_REJECTED", "INTERNAL_ERROR"}
  BY <1>1 DEF CheckEnvelope, Verdicts, FieldCodes
<1>5. QED
  BY <1>2, <1>3, <1>4 DEF Acceptable

\* The three ways the part of Verify under the mutex can end, and what a call in
\* it is like.
LEMMA UnderMutex ==
  ASSUME TypeOK, NEW c \in Callers, RejectReplay(c) \/ RejectFull(c) \/ Accept(c)
  PROVE  /\ call[c].pc = "checked" /\ call[c].now \in Nat
         /\ call[c].job \in Acceptable /\ call[c].job \in Envelopes
         /\ call'[c].pc = "done" /\ call'[c].job = call[c].job /\ call'[c].now = call[c].now
         /\ call'[c].verdict \in Verdicts
         /\ call'[c] \in Calls
         /\ \A d \in Callers : d # c => call'[d] = call[d]
         /\ call' \in [Callers -> Calls]
<1>1. call[c].pc = "checked"
  BY DEF RejectReplay, RejectFull, Accept
<1>2. call[c] \in Calls
  BY DEF TypeOK
<1>3. call[c].job \in Acceptable /\ call[c].job \in Envelopes /\ call[c].now \in Nat
  BY <1>1, <1>2 DEF Calls, Acceptable
<1>4. PICK v \in Verdicts : call' = [call EXCEPT ![c] = Done(call[c].job, call[c].now, v)]
  BY DEF RejectReplay, RejectFull, Accept, Verdicts
<1>5. Done(call[c].job, call[c].now, v) \in Calls
  BY <1>3 DEF Done, Calls
<1>6. call' \in [Callers -> Calls] /\ call'[c] = Done(call[c].job, call[c].now, v)
      /\ \A d \in Callers : d # c => call'[d] = call[d]
  BY <1>4, <1>5 DEF TypeOK
<1>7. QED
  BY <1>1, <1>3, <1>5, <1>6 DEF Done

\* The part of Verify before the mutex.
LEMMA BeforeMutex ==
  ASSUME TypeOK, NEW c \in Callers, Check(c)
  PROVE  /\ call' \in [Callers -> Calls]
         /\ \A d \in Callers : d # c => call'[d] = call[d]
         /\ call'[c].pc \in {"checked", "done"} /\ call'[c].now = clock
         /\ call'[c].pc = "done" => call'[c].verdict \notin {"REPLAY_REJECTED", "INTERNAL_ERROR"}
<1>1. PICK e \in Envelopes :
        call' = [call EXCEPT ![c] =
                   IF CheckEnvelope(e, clock) = "OK"
                   THEN [pc |-> "checked", job |-> e, now |-> clock]
                   ELSE Done(e, clock, CheckEnvelope(e, clock))]
  BY DEF Check
<1>2. clock \in Nat
  BY DEF TypeOK
<1>3. CASE CheckEnvelope(e, clock) = "OK"
  <2> DEFINE new == [pc |-> "checked", job |-> e, now |-> clock]
  <2>1. call' = [call EXCEPT ![c] = new]
    BY <1>1, <1>3
  <2>2. new \in Calls /\ new.pc = "checked" /\ new.now = clock
    BY <1>2, <1>3, CheckEnvelopeOK DEF Calls
  <2> HIDE DEF new
  <2>3. QED
    BY <2>1, <2>2 DEF TypeOK
<1>4. CASE CheckEnvelope(e, clock) # "OK"
  <2> DEFINE new == Done(e, clock, CheckEnvelope(e, clock))
  <2>1. call' = [call EXCEPT ![c] = new]
    BY <1>1, <1>4
  <2>2. new \in Calls /\ new.pc = "done" /\ new.now = clock
        /\ new.verdict \notin {"REPLAY_REJECTED", "INTERNAL_ERROR"}
    BY <1>2, CheckEnvelopeOK DEF Calls, Done
  <2> HIDE DEF new
  <2>3. QED
    BY <2>1, <2>2 DEF TypeOK
<1>5. QED
  BY <1>3, <1>4

\* Every step keeps the types.
LEMMA TypeStep == TypeOK /\ [Next]_vars => TypeOK'
<1> SUFFICES ASSUME TypeOK, [Next]_vars PROVE TypeOK'
  OBVIOUS
<1>1. CASE Tick \/ StepBack
  <2>1. clock \in Nat /\ horizon \in Nat /\ stepped \in BOOLEAN
    BY DEF TypeOK
  <2>2. clock' \in Nat /\ horizon' \in Nat
    BY <1>1, <2>1 DEF Tick, StepBack
  <2>3. stepped' \in BOOLEAN
    BY <1>1, <2>1, Zenon DEF Tick, StepBack
  <2>4. QED
    BY <1>1, <2>2, <2>3 DEF TypeOK, Tick, StepBack
<1>2. CASE Restart
  BY <1>2 DEF TypeOK, Restart, Calls
<1>3. ASSUME NEW c \in Callers, Check(c) PROVE TypeOK'
  <2>1. UNCHANGED <<clock, seen, accepted, horizon, stepped>>
    BY <1>3 DEF Check
  <2>2. QED
    BY <1>3, <2>1, BeforeMutex DEF TypeOK
<1>4. ASSUME NEW c \in Callers, RejectReplay(c) \/ RejectFull(c) PROVE TypeOK'
  <2>1. seen' \subseteq seen /\ UNCHANGED <<clock, accepted, horizon, stepped>>
    BY <1>4 DEF RejectReplay, RejectFull, Pruned
  <2>2. QED
    BY <1>4, <2>1, UnderMutex DEF TypeOK
<1>5. ASSUME NEW c \in Callers, Accept(c) PROVE TypeOK'
  <2>1. Entry(call[c].job) \in Entries
    BY <1>5, UnderMutex, EntryType
  <2>2. seen' \subseteq seen \cup {Entry(call[c].job)} /\ UNCHANGED <<clock, horizon, stepped>>
        /\ accepted' = accepted \cup {Entry(call[c].job)}
    BY <1>5 DEF Accept, Pruned
  <2>3. QED
    BY <1>5, <2>1, <2>2, UnderMutex DEF TypeOK
<1>6. CASE UNCHANGED vars
  BY <1>6 DEF TypeOK, vars
<1>7. QED
  BY <1>1, <1>2, <1>3, <1>4, <1>5, <1>6 DEF Next

\* Every variable keeps its type, and only acceptable envelopes reach the cache.
THEOREM TypeCorrect == Spec => []TypeOK
<1>1. Init => TypeOK
  <2> SUFFICES ASSUME Init PROVE TypeOK
    OBVIOUS
  <2>1. clock \in Nat /\ horizon \in Nat
    BY DEF Init
  <2>2. stepped \in BOOLEAN /\ seen \subseteq Entries /\ accepted \subseteq Entries
    BY Zenon DEF Init
  <2>3. call \in [Callers -> Calls]
    BY DEF Init, Calls
  <2>4. QED
    BY <2>1, <2>2, <2>3 DEF TypeOK
<1>2. QED
  BY <1>1, TypeStep, PTL DEF Spec

-----------------------------------------------------------------------------
(* The bound of the cache and the grounds of its refusals.                  *)

\* What the cache holds was accepted, and only finitely much was.
CacheInv == IsFiniteSet(accepted) /\ seen \subseteq accepted /\ CacheBounded

\* Every step keeps the cache bounded.
LEMMA CacheStep == TypeOK /\ CacheInv /\ [Next]_vars => CacheInv'
<1> SUFFICES ASSUME TypeOK, CacheInv, [Next]_vars PROVE CacheInv'
  OBVIOUS
<1>0. IsFiniteSet(seen) /\ Cardinality(seen) \in Nat /\ NonceLimit \in Nat
  BY FS_Subset, FS_CardinalityType, VerifierAssumption DEF CacheInv
<1>1. CASE UNCHANGED <<seen, accepted>>
  BY <1>1 DEF CacheInv, CacheBounded
<1>2. CASE Restart
  <2>1. seen' = {} /\ accepted' = {}
    BY <1>2 DEF Restart
  <2>2. QED
    BY <1>0, <2>1, FS_EmptySet DEF CacheInv, CacheBounded
<1>3. ASSUME NEW c \in Callers, RejectReplay(c) \/ RejectFull(c) PROVE CacheInv'
  <2>1. seen' \subseteq seen /\ accepted' = accepted
    BY <1>3 DEF RejectReplay, RejectFull, Pruned
  <2>2. Cardinality(seen') <= Cardinality(seen) /\ Cardinality(seen') \in Nat
    BY <1>0, <2>1, FS_Subset, FS_CardinalityType
  <2>3. QED
    BY <1>0, <2>1, <2>2 DEF CacheInv, CacheBounded
<1>4. ASSUME NEW c \in Callers, Accept(c) PROVE CacheInv'
  <2> DEFINE e == call[c].job
             rest == Pruned(call[c].now)
  <2>1. /\ rest \subseteq seen /\ seen' = rest \cup {Entry(e)}
        /\ accepted' = accepted \cup {Entry(e)}
        /\ ~(\E s \in rest : s.nonce = e.nonce) /\ ~(Cardinality(rest) >= NonceLimit)
    BY <1>4 DEF Accept, Pruned, Cached, Full
  <2>2. Entry(e).nonce = e.nonce
    BY <1>4, UnderMutex, EntryType
  <2> HIDE DEF e, rest
  <2>3. Entry(e) \notin rest
    BY <2>1, <2>2
  <2>4. IsFiniteSet(rest) /\ Cardinality(rest) \in Nat
    BY <1>0, <2>1, FS_Subset, FS_CardinalityType
  <2>5. Cardinality(seen') = Cardinality(rest) + 1
    BY <2>1, <2>3, <2>4, FS_AddElement
  <2>6. Cardinality(seen') <= NonceLimit
    BY <1>0, <2>1, <2>4, <2>5
  <2>7. \A s, t \in seen' : s.nonce = t.nonce => s = t
    BY <2>1, <2>2 DEF CacheInv, CacheBounded
  <2>8. IsFiniteSet(accepted') /\ seen' \subseteq accepted'
    BY <2>1, FS_AddElement DEF CacheInv
  <2>9. QED
    BY <2>6, <2>7, <2>8 DEF CacheInv, CacheBounded
<1>5. QED
  BY <1>1, <1>2, <1>3, <1>4 DEF Next, Tick, StepBack, Check, vars

\* The cache starts empty.
LEMMA CacheInit == Init => CacheInv
BY FS_EmptySet, VerifierAssumption DEF Init, CacheInv, CacheBounded

\* The nonce cache never exceeds its limit and has one entry per nonce, however
\* many calls run at once.
THEOREM CacheIsBounded == Spec => []CacheBounded
<1>1. CacheInv => CacheBounded
  BY DEF CacheInv
<1>2. QED
  BY <1>1, CacheInit, CacheStep, TypeCorrect, PTL DEF Spec

\* A refusal by the cache was justified when it was given.
LEMMA RefusalGiven ==
  ASSUME TypeOK, CacheInv, NEW c \in Callers, RejectReplay(c) \/ RejectFull(c) \/ Accept(c)
  PROVE  /\ call'[c].verdict = "REPLAY_REJECTED" =>
              \E a \in Live(accepted, call[c].now) : a.nonce = call[c].job.nonce
         /\ call'[c].verdict = "INTERNAL_ERROR" => Cardinality(Live(accepted, call[c].now)) >= NonceLimit
<1>0. call \in [Callers -> Calls]
  BY DEF TypeOK
<1>1. CASE RejectReplay(c)
  <2>1. call'[c].verdict = "REPLAY_REJECTED"
    BY <1>0, <1>1 DEF RejectReplay, Done
  <2>2. \E a \in Live(accepted, call[c].now) : a.nonce = call[c].job.nonce
    BY <1>1 DEF RejectReplay, Cached, Pruned, Live, CacheInv
  <2>3. QED
    BY <2>1, <2>2
<1>2. CASE RejectFull(c)
  <2>1. call'[c].verdict = "INTERNAL_ERROR"
    BY <1>0, <1>2 DEF RejectFull, Done
  <2>2. Pruned(call[c].now) \subseteq Live(accepted, call[c].now)
    BY DEF Pruned, Live, CacheInv
  <2>3. IsFiniteSet(Live(accepted, call[c].now))
    BY FS_Subset DEF Live, CacheInv
  <2>4. /\ Cardinality(Pruned(call[c].now)) <= Cardinality(Live(accepted, call[c].now))
        /\ Cardinality(Pruned(call[c].now)) \in Nat /\ Cardinality(Live(accepted, call[c].now)) \in Nat
    BY <2>2, <2>3, FS_Subset, FS_CardinalityType
  <2>5. Cardinality(Pruned(call[c].now)) >= NonceLimit /\ NonceLimit \in Nat
    BY <1>2, VerifierAssumption DEF RejectFull, Full
  <2>6. QED
    BY <2>1, <2>4, <2>5
<1>3. CASE Accept(c)
  <2>1. call'[c].verdict = "OK"
    BY <1>0, <1>3 DEF Accept, Done
  <2>2. QED
    BY <2>1
<1>4. QED
  BY <1>1, <1>2, <1>3

\* A refusal that was justified stays so while the process lives.
LEMMA RefusalKept ==
  ASSUME CacheInv', accepted \subseteq accepted', NEW now \in Nat, NEW n
  PROVE  /\ (\E a \in Live(accepted, now) : a.nonce = n) => \E a \in Live(accepted', now) : a.nonce = n
         /\ Cardinality(Live(accepted, now)) >= NonceLimit => Cardinality(Live(accepted', now)) >= NonceLimit
<1>1. Live(accepted, now) \subseteq Live(accepted', now)
  BY DEF Live
<1>2. IsFiniteSet(Live(accepted', now))
  BY FS_Subset DEF Live, CacheInv
<1>3. /\ Cardinality(Live(accepted, now)) <= Cardinality(Live(accepted', now))
      /\ Cardinality(Live(accepted, now)) \in Nat /\ Cardinality(Live(accepted', now)) \in Nat
  BY <1>1, <1>2, FS_Subset, FS_CardinalityType
<1>4. QED
  BY <1>1, <1>3, VerifierAssumption

\* Every step keeps the refusals justified.
LEMMA RefusalStep ==
  TypeOK /\ CacheInv /\ RefusalJustified /\ [Next]_vars => RefusalJustified'
<1> SUFFICES ASSUME TypeOK, CacheInv, RefusalJustified, [Next]_vars PROVE RefusalJustified'
  OBVIOUS
<1>1. CacheInv' /\ TypeOK'
  BY CacheStep, TypeStep
<1>2. CASE Restart
  <2>1. \A c \in Callers : call'[c].pc = "idle"
    BY <1>2 DEF Restart
  <2>2. QED
    BY <2>1 DEF RefusalJustified
<1>3. CASE ~Restart
  <2>1. accepted \subseteq accepted'
    BY <1>3 DEF Next, Tick, StepBack, Check, RejectReplay, RejectFull, Accept, vars
  <2>2. SUFFICES ASSUME NEW c \in Callers, call'[c].pc = "done"
                 PROVE  /\ call'[c].verdict = "REPLAY_REJECTED" =>
                             \E a \in Live(accepted', call'[c].now) : a.nonce = call'[c].job.nonce
                        /\ call'[c].verdict = "INTERNAL_ERROR" =>
                             Cardinality(Live(accepted', call'[c].now)) >= NonceLimit
    BY DEF RefusalJustified
  <2>3. call'[c].now \in Nat
    BY <1>1, <2>2 DEF TypeOK, Calls
  <2>4. CASE call'[c] = call[c]
    BY <1>1, <2>1, <2>2, <2>3, <2>4, RefusalKept DEF RefusalJustified
  <2>5. CASE RejectReplay(c) \/ RejectFull(c) \/ Accept(c)
    <3>1. call'[c].now = call[c].now /\ call'[c].job = call[c].job
      BY <2>5, UnderMutex
    <3>2. QED
      BY <1>1, <2>1, <2>3, <2>5, <3>1, RefusalGiven, RefusalKept
  <2>6. CASE Check(c)
    BY <2>2, <2>6, BeforeMutex
  <2>7. call'[c] = call[c] \/ RejectReplay(c) \/ RejectFull(c) \/ Accept(c) \/ Check(c)
    BY <1>3, UnderMutex, BeforeMutex DEF Next, Tick, StepBack, vars
  <2>8. QED
    BY <2>4, <2>5, <2>6, <2>7
<1>4. QED
  BY <1>2, <1>3

\* A job is refused as a replay or for a full cache only on the ground of
\* envelopes that are still live, however many calls run at once.
THEOREM RefusalsJustified == Spec => []RefusalJustified
<1>1. Init => RefusalJustified
  BY DEF Init, RefusalJustified
<1>2. QED
  BY <1>1, CacheInit, CacheStep, RefusalStep, TypeCorrect, PTL DEF Spec

-----------------------------------------------------------------------------
(* No replay.                                                               *)

\* Every step keeps accepted envelopes remembered.
LEMMA RememberedStep ==
  TypeOK /\ Remembered /\ ReadingsPast /\ [Next]_vars => (Remembered /\ ReadingsPast)'
<1> SUFFICES ASSUME TypeOK, Remembered, ReadingsPast, [Next]_vars
             PROVE  Remembered' /\ ReadingsPast'
  OBVIOUS
<1>0. /\ clock \in Nat /\ horizon \in Nat /\ clock <= horizon
      /\ \A a \in accepted : a.expiresAt \in Nat
      /\ \A c \in Callers : call[c].pc = "checked" => call[c].now \in Nat
  BY DEF TypeOK, Entries, Calls, ReadingsPast
<1>1. CASE Tick
  <2>1. /\ clock' = clock + 1 /\ UNCHANGED <<seen, call, accepted, stepped>>
        /\ horizon' \in Nat /\ horizon <= horizon' /\ clock' <= horizon'
        /\ clock = horizon => clock' = horizon'
    BY <1>0, <1>1 DEF Tick
  <2>2. Remembered'
    BY <1>0, <2>1 DEF Remembered
  <2>3. ReadingsPast'
    BY <1>0, <2>1 DEF ReadingsPast
  <2>4. QED
    BY <2>2, <2>3
<1>2. CASE StepBack
  <2>1. /\ clock' \in Nat /\ clock' <= clock /\ stepped'
        /\ UNCHANGED <<seen, call, accepted, horizon>>
    BY <1>0, <1>2 DEF StepBack
  <2>2. QED
    BY <1>0, <2>1 DEF Remembered, ReadingsPast
<1>3. CASE Restart
  <2>1. accepted' = {} /\ horizon' = clock /\ clock' = clock
        /\ \A c \in Callers : call'[c].pc = "idle"
    BY <1>3 DEF Restart
  <2>2. QED
    BY <1>0, <2>1 DEF Remembered, ReadingsPast
<1>4. ASSUME NEW c \in Callers, Check(c) PROVE Remembered' /\ ReadingsPast'
  <2>1. UNCHANGED <<clock, seen, accepted, horizon, stepped>>
    BY <1>4 DEF Check
  <2>2. call'[c].now = clock /\ \A d \in Callers : d # c => call'[d] = call[d]
    BY <1>4, BeforeMutex
  <2>3. ReadingsPast'
    BY <1>0, <2>1, <2>2 DEF ReadingsPast
  <2>4. SUFFICES ASSUME NEW a \in accepted', a \notin seen'
                 PROVE  /\ a.expiresAt <= horizon'
                        /\ SingleCaller /\ ~stepped' =>
                             \A d \in Callers : call'[d].pc = "checked" => a.expiresAt <= call'[d].now
    BY <2>3 DEF Remembered
  <2>5. a.expiresAt <= horizon
    BY <2>1, <2>4 DEF Remembered
  <2>6. ~stepped => a.expiresAt <= clock
    BY <2>5 DEF ReadingsPast
  <2>7. SingleCaller => \A d \in Callers : d = c
    BY DEF SingleCaller
  <2>8. QED
    BY <2>1, <2>2, <2>5, <2>6, <2>7
<1>5. ASSUME NEW c \in Callers, RejectReplay(c) \/ RejectFull(c) \/ Accept(c)
      PROVE  Remembered' /\ ReadingsPast'
  <2> DEFINE now == call[c].now
  <2>1. now \in Nat /\ now <= horizon /\ UNCHANGED <<clock, horizon, stepped>>
    BY <1>5, UnderMutex DEF ReadingsPast, RejectReplay, RejectFull, Accept
  <2>2. \A d \in Callers : call'[d].pc = "checked" => d # c /\ call'[d] = call[d]
    BY <1>5, UnderMutex
  <2>3. \A a \in accepted' : a \in accepted \/ a \in seen'
    BY <1>5 DEF RejectReplay, RejectFull, Accept
  <2>4. \A a \in seen : a \in seen' \/ ~(a.expiresAt > now)
    BY <1>5 DEF RejectReplay, RejectFull, Accept, Pruned
  <2> HIDE DEF now
  <2>5. \A a \in accepted' : a \in seen' \/ a.expiresAt <= horizon'
    BY <1>0, <2>1, <2>3, <2>4 DEF Remembered
  <2>6. SingleCaller => \A d \in Callers : call'[d].pc # "checked"
    BY <2>2 DEF SingleCaller
  <2>7. ReadingsPast'
    BY <2>1, <2>2 DEF ReadingsPast
  <2>8. QED
    BY <2>5, <2>6, <2>7 DEF Remembered
<1>6. CASE UNCHANGED vars
  BY <1>6 DEF vars, Remembered, ReadingsPast
<1>7. QED
  BY <1>1, <1>2, <1>3, <1>4, <1>5, <1>6 DEF Next

\* An accepted envelope is remembered until it has expired, for any number of
\* callers and any movement of the clock.
THEOREM AcceptedRemembered == Spec => [](Remembered /\ ReadingsPast)
<1>1. Init => Remembered /\ ReadingsPast
  BY DEF Init, Remembered, ReadingsPast
<1>2. TypeOK /\ (Remembered /\ ReadingsPast) /\ [Next]_vars => (Remembered /\ ReadingsPast)'
  BY RememberedStep
<1>3. QED
  BY <1>1, <1>2, TypeCorrect, PTL DEF Spec

\* A nonce is accepted again only when its earlier envelopes have expired at a
\* time the clock has shown; the agent, whose poll loop is the only caller of
\* Verify, accepts no envelope twice unless the clock steps back.
THEOREM NoReplayHolds == Spec => NoReplay
<1>1. TypeOK /\ Remembered /\ ReadingsPast /\ [Next]_vars =>
        [\A c \in Callers : Accept(c) => \A a \in accepted :
           a.nonce = call[c].job.nonce =>
             /\ a.expiresAt <= horizon
             /\ SingleCaller /\ ~stepped => a.expiresAt <= call[c].now]_vars
  <2> SUFFICES ASSUME TypeOK, Remembered, ReadingsPast, NEW c \in Callers, Accept(c),
                      NEW a \in accepted, a.nonce = call[c].job.nonce
               PROVE  /\ a.expiresAt <= horizon
                      /\ SingleCaller /\ ~stepped => a.expiresAt <= call[c].now
    OBVIOUS
  <2>1. call[c].pc = "checked" /\ call[c].now \in Nat /\ a.expiresAt \in Nat
        /\ horizon \in Nat /\ call[c].now <= horizon
    BY UnderMutex DEF TypeOK, Entries, ReadingsPast
  <2>2. CASE a \in seen
    <3>1. a.expiresAt <= call[c].now
      BY <2>1, <2>2 DEF Accept, Cached, Pruned
    <3>2. QED
      BY <2>1, <3>1
  <2>3. CASE a \notin seen
    BY <2>1, <2>3 DEF Remembered
  <2>4. QED
    BY <2>2, <2>3
<1>2. QED
  BY <1>1, TypeCorrect, AcceptedRemembered, PTL DEF Spec, NoReplay
=============================================================================
