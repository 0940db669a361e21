----------------------------- MODULE ReportStore -----------------------------
(***************************************************************************)
(* What the result spool promises, without directory, mutex, cursor or     *)
(* crashes: an at-least-once store.  A report is put in whole and once; an *)
(* acknowledgement is given only for a report that is in; a report leaves  *)
(* only with or after its delivery, or because it expired; and what is     *)
(* delivered is what was put in, perhaps more than once.                   *)
(***************************************************************************)
CONSTANT Items

VARIABLES stored, acknowledged, delivered, expired

vars == <<stored, acknowledged, delivered, expired>>

Init == stored = {} /\ acknowledged = {} /\ delivered = {} /\ expired = {}

Put(i) ==
  /\ i \notin stored \cup delivered \cup expired
  /\ stored' = stored \cup {i}
  /\ UNCHANGED <<acknowledged, delivered, expired>>

Acknowledge(i) ==
  /\ i \in stored
  /\ acknowledged' = acknowledged \cup {i}
  /\ UNCHANGED <<stored, delivered, expired>>

\* The report may stay, and is then delivered again or expires.
Deliver(i) ==
  /\ i \in stored
  /\ delivered' = delivered \cup {i}
  /\ stored' \in {stored, stored \ {i}}
  /\ UNCHANGED <<acknowledged, expired>>

Expire(i) ==
  /\ i \in stored
  /\ stored' = stored \ {i}
  /\ expired' = expired \cup {i}
  /\ UNCHANGED <<acknowledged, delivered>>

Next == \E i \in Items : Put(i) \/ Acknowledge(i) \/ Deliver(i) \/ Expire(i)

Spec == Init /\ [][Next]_vars
=============================================================================
