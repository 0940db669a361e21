-------------------------------- MODULE Spool --------------------------------
(***************************************************************************)
(* spool.Queue: the directory that keeps reports the Control Plane did not *)
(* accept.  One mutex serialises Enqueue and Flush, so one of them is in   *)
(* progress at a time; Flush holds it across the calls it makes.  The      *)
(* process may die between any two file system calls, and every call that  *)
(* changes the directory or reads a file may fail; the sizes and ages of   *)
(* listed files can always be read, because only this process, under the   *)
(* mutex, removes any.  The directory outlives the process.                *)
(***************************************************************************)
EXTENDS Integers, Sequences, SequencesExt

CONSTANTS
  Items,     \* encoded reports, each enqueued once by its goroutine
  Size,      \* the length of an encoded report
  Refused,   \* reports the Control Plane will never accept
  MaxBytes,  \* q.MaxBytes
  MaxAge     \* q.MaxAge, in ticks

ASSUME SpoolAssumption ==
  /\ Size \in [Items -> Nat \ {0}]
  /\ Refused \subseteq Items
  /\ MaxBytes \in Nat
  /\ MaxAge \in Nat

VARIABLES
  files,      \* the directory in the order of file names, which is their age order
  busy,       \* who holds q.mu: "free", "create" or "sync" in Enqueue, "flush"
  cursor,     \* the entry Flush looks at next
  offered,    \* history: items Enqueue was called with
  kept,       \* history: items for which Enqueue returned nil
  attempted,  \* history: items sent at least once by a Flush
  delivered,  \* history: items the Control Plane accepted
  aged,       \* history: items removed whole because of their age
  passedOver  \* history: items a Flush left behind because the Control Plane
              \* refused an older one

vars == <<files, busy, cursor, offered, kept, attempted, delivered, aged, passedOver>>

File == [item : Items, size : Nat, age : 0..(MaxAge + 1)]

Init ==
  /\ files = <<>>
  /\ busy = "free"
  /\ cursor = 0
  /\ offered = {} /\ kept = {} /\ attempted = {} /\ delivered = {}
  /\ aged = {} /\ passedOver = {}

\* healthUnlocked: the bytes in the directory, whatever the files contain.
Bytes(s) ==
  LET sum[k \in 0 .. Len(s)] == IF k = 0 THEN 0 ELSE sum[k - 1] + s[k].size
  IN  sum[Len(s)]
BytesUsed == Bytes(files)

Whole(f) == f.size = Size[f.item]

-----------------------------------------------------------------------------
(* Enqueue.                                                                 *)

\* The item and what the directory holds stay within the limit.
FitsAlone(i) == Size[i] <= MaxBytes
Fits(i) == BytesUsed + Size[i] <= MaxBytes

\* The mutex is taken, the limits are checked and CreateTemp makes an empty file.
EnqueueCreates(i) ==
  /\ busy = "free"
  /\ i \notin offered
  /\ Fits(i)
  /\ offered' = offered \cup {i}
  /\ files' = Append(files, [item |-> i, size |-> 0, age |-> 0])
  /\ busy' = "create"
  /\ UNCHANGED <<cursor, kept, attempted, delivered, aged, passedOver>>

\* The item does not fit, or reading the directory or CreateTemp fails.
EnqueueRefuses(i) ==
  /\ busy = "free"
  /\ i \notin offered
  /\ offered' = offered \cup {i}
  /\ UNCHANGED <<files, busy, cursor, kept, attempted, delivered, aged, passedOver>>

Newest == Len(files)

\* f.Write puts the whole item into the file.
EnqueueWrites ==
  /\ busy = "create"
  /\ files' = [files EXCEPT ![Newest].size = Size[files[Newest].item]]
  /\ busy' = "sync"
  /\ UNCHANGED <<cursor, offered, kept, attempted, delivered, aged, passedOver>>

\* Chmod or Write fails, possibly after some bytes; so may the os.Remove that
\* follows, whose error is ignored.
EnqueueWriteFails ==
  /\ busy = "create"
  /\ \/ files' = Front(files)
     \/ \E n \in 0 .. Size[files[Newest].item] - 1 :
          files' = [files EXCEPT ![Newest].size = n]
  /\ busy' = "free"
  /\ UNCHANGED <<cursor, offered, kept, attempted, delivered, aged, passedOver>>

\* f.Sync succeeds and Enqueue returns nil.
EnqueueReturns ==
  /\ busy = "sync"
  /\ kept' = kept \cup {files[Newest].item}
  /\ busy' = "free"
  /\ UNCHANGED <<files, cursor, offered, attempted, delivered, aged, passedOver>>

\* f.Sync fails: Enqueue returns the error and leaves the file.
EnqueueSyncFails ==
  /\ busy = "sync"
  /\ busy' = "free"
  /\ UNCHANGED <<files, cursor, offered, kept, attempted, delivered, aged, passedOver>>

-----------------------------------------------------------------------------
(* Flush.                                                                   *)

FirstEntrySkipped == 2
FirstEntry == 1

FlushStarts ==
  /\ busy = "free"
  /\ busy' = "flush"
  /\ cursor' = FirstEntry
  /\ UNCHANGED <<files, offered, kept, attempted, delivered, aged, passedOver>>

Current == files[cursor]
TooOld(f) == f.age > MaxAge
Unusable(f) == f.size < 1 \/ f.size > MaxBytes \/ ~Whole(f)

Unlocks == busy' = "free" /\ cursor' = 0

\* Where the next entry is once the current one is removed.
AfterRemovalSkips == cursor + 1
AfterRemoval == cursor

\* A file past its age, of an impossible size or not decodable is removed; the
\* error of os.Remove is ignored and Flush goes on to the next entry.
FlushDiscards ==
  /\ busy = "flush" /\ cursor \in DOMAIN files
  /\ TooOld(Current) \/ Unusable(Current)
  /\ \/ /\ files' = RemoveAt(files, cursor)
        /\ aged' = IF Whole(Current) THEN aged \cup {Current.item} ELSE aged
        /\ cursor' = AfterRemoval
     \/ cursor' = cursor + 1 /\ UNCHANGED <<files, aged>>
  /\ UNCHANGED <<busy, offered, kept, attempted, delivered, passedOver>>

Sendable == busy = "flush" /\ cursor \in DOMAIN files
            /\ ~TooOld(Current) /\ ~Unusable(Current)

\* Send succeeds and the file is removed.
FlushDelivers ==
  /\ Sendable
  /\ Current.item \notin Refused
  /\ attempted' = attempted \cup {Current.item}
  /\ delivered' = delivered \cup {Current.item}
  /\ files' = RemoveAt(files, cursor)
  /\ cursor' = AfterRemoval
  /\ UNCHANGED <<busy, offered, kept, aged, passedOver>>

\* Send succeeds, os.Remove does not: Flush stops, the report will be repeated.
FlushCannotRemove ==
  /\ Sendable
  /\ Current.item \notin Refused
  /\ attempted' = attempted \cup {Current.item}
  /\ delivered' = delivered \cup {Current.item}
  /\ Unlocks
  /\ UNCHANGED <<files, offered, kept, aged, passedOver>>

\* What a failed Send leaves in the directory.
DroppedUnsent == RemoveAt(files, cursor)
KeptUnsent == files

\* The request or its answer is lost, or the context ended: Flush stops.
FlushLosesCall ==
  /\ Sendable
  /\ attempted' = attempted \cup {Current.item}
  /\ \/ UNCHANGED delivered
     \/ Current.item \notin Refused /\ delivered' = delivered \cup {Current.item}
  /\ files' = KeptUnsent
  /\ Unlocks
  /\ UNCHANGED <<offered, kept, aged, passedOver>>

\* The Control Plane answers with a refusal: Flush stops here as well.
FlushRefused ==
  /\ Sendable
  /\ Current.item \in Refused
  /\ attempted' = attempted \cup {Current.item}
  /\ passedOver' = passedOver \cup {files[k].item : k \in (cursor + 1) .. Len(files)}
  /\ files' = KeptUnsent
  /\ Unlocks
  /\ UNCHANGED <<offered, kept, delivered, aged>>

\* os.ReadFile fails: Flush stops without a call.
FlushCannotRead ==
  /\ busy = "flush" /\ cursor \in DOMAIN files
  /\ ~TooOld(Current) /\ Current.size \in 1 .. MaxBytes
  /\ Unlocks
  /\ UNCHANGED <<files, offered, kept, attempted, delivered, aged, passedOver>>

\* Every entry was looked at.
FlushEnds ==
  /\ busy = "flush" /\ cursor \notin DOMAIN files
  /\ Unlocks
  /\ UNCHANGED <<files, offered, kept, attempted, delivered, aged, passedOver>>

-----------------------------------------------------------------------------
(* Time and crashes.                                                        *)

\* File ages are told apart up to MaxAge + 1.
Tick ==
  /\ files' = [k \in DOMAIN files |->
                 [files[k] EXCEPT !.age = IF @ > MaxAge THEN @ ELSE @ + 1]]
  /\ UNCHANGED <<busy, cursor, offered, kept, attempted, delivered, aged, passedOver>>

\* The process dies and is started again: a file being written keeps any part
\* of its bytes, and a finished one that was not yet acknowledged is complete.
Crash ==
  /\ \E n \in 0 .. IF busy = "create" THEN Size[files[Newest].item] ELSE 0 :
       files' = IF busy = "create" THEN [files EXCEPT ![Newest].size = n] ELSE files
  /\ Unlocks
  /\ UNCHANGED <<offered, kept, attempted, delivered, aged, passedOver>>

EnqueueStep ==
  \/ \E i \in Items : EnqueueCreates(i) \/ EnqueueRefuses(i)
  \/ EnqueueWrites \/ EnqueueWriteFails \/ EnqueueReturns \/ EnqueueSyncFails

FlushStep ==
  \/ FlushDiscards \/ FlushDelivers \/ FlushCannotRemove \/ FlushLosesCall
  \/ FlushRefused \/ FlushCannotRead \/ FlushEnds

Next == EnqueueStep \/ FlushStarts \/ FlushStep \/ Tick \/ Crash

Spec == Init /\ [][Next]_vars

\* Heartbeats keep starting flushes, a call in progress ends, and a report
\* that is sent again and again is accepted at last unless it is refused.
Fairness ==
  /\ WF_vars(EnqueueWrites \/ EnqueueWriteFails \/ EnqueueReturns \/ EnqueueSyncFails)
  /\ SF_vars(FlushStarts)
  /\ WF_vars(FlushStep)
  /\ \A i \in Items : SF_vars(FlushDelivers /\ Current.item = i)
  /\ \A i \in Items : SF_vars(FlushDiscards /\ files' # files /\ Current.item = i)

FairSpec == Spec /\ Fairness

-----------------------------------------------------------------------------
(* Properties.                                                              *)

\* Every variable keeps its type, and a file in progress is the newest one.
TypeOK ==
  /\ files \in Seq(File)
  /\ busy \in {"free", "create", "sync", "flush"}
  /\ busy \in {"create", "sync"} => files # <<>>
  /\ cursor \in 0 .. Len(files) + 1
  /\ offered \subseteq Items /\ kept \subseteq offered
  /\ attempted \subseteq offered /\ delivered \subseteq attempted
  /\ aged \subseteq offered /\ passedOver \subseteq offered

\* The directory never holds more than MaxBytes, the remains of failed and
\* interrupted writes included, whatever order of enqueues, crashes and
\* flushes led there.
ByteBound == BytesUsed <= MaxBytes

\* The spool seen as ReportStore: a report is in the store when a complete file
\* of it is in the directory.
InDirectory == {i \in Items : \E k \in DOMAIN files : files[k].item = i /\ Whole(files[k])}

Store == INSTANCE ReportStore WITH stored <- InDirectory, acknowledged <- kept, expired <- aged

\* The directory implements an at-least-once store: no partial file is ever
\* delivered, nothing is acknowledged before it is complete, and no crash,
\* failed removal or lost answer takes a report out before its delivery.
ImplementsStore == Store!Spec

\* A report that is refused for good is in the directory.
Obstructed == \E k \in DOMAIN files : files[k].item \in Refused

\* Once the Control Plane answers again, every spooled report is delivered in
\* the end, unless its age overtakes it or the directory is obstructed: nothing
\* else that Flush meets stops the queue for ever.
EventuallyDelivered ==
  \A i \in Items \ Refused :
    i \in kept ~> i \in delivered \cup aged \/ Obstructed

\* "Results can be retried after connectivity returns": while every Enqueue was
\* acknowledged, a report that waited while the Control Plane answered a flush is
\* not discarded for its age without one attempt to send it.  A report refused
\* for good stops every flush before the ones behind it until it is past MaxAge;
\* the flush that then removes it sends the ones behind it that are still young
\* and discards, unsent, those that have passed MaxAge as well.
AgedOnlyAfterAttempt == offered = kept => aged \cap passedOver \subseteq attempted
=============================================================================
