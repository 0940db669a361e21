--------------------------- MODULE RotationProofs ---------------------------
(***************************************************************************)
(* Proofs about Rotation, for any number of certificates, with a file      *)
(* system that may fail at every call and a process that may die between   *)
(* any two of them.                                                        *)
(***************************************************************************)
EXTENDS Rotation, TLAPS

-----------------------------------------------------------------------------
(* The inductive invariant.                                                 *)

\* Where main() is between the request for B and the end of the rotation, the
\* commit apart.
Rotating == {"stage", "staging", "activate", "activate2", "discard", "unstage",
             "reload", "confirm", "undo", "undo2", "undo3", "abandon"}

\* What is on disk, and what is on its way there, was issued: a certificate that
\* is issued next is none of it.
IssuedKnown ==
  \A c \in Certs : c \in {active, rollback, next} \cup partial => issued[c] # "unissued"

\* Where the certificate of the running process is, for every step of main().
CurrentPlace ==
  /\ pc \in {"loaded", "stage", "staging", "activate", "commit", "undo3"} => current = active
  /\ pc \in {"activate2", "reload", "confirm", "undo", "undo2"} => current = rollback

\* Where the certificate that is enrolled or rotated in is.
NextPlace ==
  /\ pc \in Rotating \cup {"save"} => next \in Certs
  /\ pc \in Rotating => next # current
  /\ pc \in {"stage", "staging"} => next \notin {active, rollback}
  /\ pc \in {"save", "activate", "activate2", "reload", "confirm", "undo", "undo2"} =>
       next \notin partial
  /\ pc \in {"reload", "confirm", "undo"} => next = active
  /\ pc = "undo2" => next = failed

RotationInv ==
  /\ TypeOK
  /\ IssuedKnown
  /\ CurrentPlace
  /\ NextPlace
  /\ CurrentOnDisk
  /\ OnlyCompleteActivated

\* While a rotation is under way the Control Plane trusts A, and what is enrolled
\* or committed.
TrustPlace ==
  /\ pc \in Rotating \cup {"commit"} => issued[current] = "active"
  /\ pc = "save" => issued[next] = "active"

-----------------------------------------------------------------------------

\* Every step of main(), every fault and every death keeps the invariant.
LEMMA RotationStep ==
  ASSUME RotationInv, [Next]_vars
  PROVE  RotationInv'
<1> USE RotationAssumption DEF RotationInv, TypeOK, PCs, IssuedKnown, CurrentPlace, NextPlace,
        Rotating, CurrentOnDisk, OnlyCompleteActivated, disk
<1>1. CASE Boot
  BY <1>1 DEF Boot
<1>2. CASE Enroll
  BY <1>2 DEF Enroll, Fresh, Dies
<1>3. CASE SaveEnrollment
  BY <1>3 DEF SaveEnrollment
<1>4. CASE GoOnline
  BY <1>4 DEF GoOnline
<1>5. CASE RequestRotation
  BY <1>5 DEF RequestRotation, Fresh, Dies
<1>6. CASE StageBegins
  BY <1>6 DEF StageBegins
<1>7. CASE StageEnds
  BY <1>7 DEF StageEnds
<1>8. CASE StageFails
  BY <1>8 DEF StageFails, OnStageFailure
<1>9. CASE ActivateMovesActive
  BY <1>9 DEF ActivateMovesActive, CopyKept
<1>10. CASE ActivateRefused
  BY <1>10 DEF ActivateRefused
<1>11. CASE ActivateMovesStage
  BY <1>11 DEF ActivateMovesStage
<1>12. CASE ActivateUndone
  BY <1>12 DEF ActivateUndone
<1>13. CASE Reload
  BY <1>13 DEF Reload
<1>14. CASE Confirm
  BY <1>14 DEF Confirm, Confirmed
<1>15. CASE ConfirmUnanswered
  BY <1>15 DEF ConfirmUnanswered, Confirmed, OnConfirmFailure
<1>16. CASE Commit
  BY <1>16 DEF Commit
<1>17. CASE UndoMovesActive
  BY <1>17 DEF UndoMovesActive
<1>18. CASE UndoRefused
  BY <1>18 DEF UndoRefused
<1>19. CASE UndoRestores
  BY <1>19 DEF UndoRestores
<1>20. CASE UndoUndone
  BY <1>20 DEF UndoUndone
<1>21. CASE UndoRemoves
  BY <1>21 DEF UndoRemoves
<1>22. CASE Abandon
  BY <1>22 DEF Abandon
<1>23. CASE Unstage
  BY <1>23 DEF Unstage
<1>24. CASE Crash
  BY <1>24 DEF Crash, Dies
<1>25. CASE CannotStart \/ UNCHANGED vars
  BY <1>25 DEF CannotStart, vars
<1>26. QED
  BY <1>1, <1>2, <1>3, <1>4, <1>5, <1>6, <1>7, <1>8, <1>9, <1>10, <1>11, <1>12, <1>13, <1>14, <1>15, <1>16, <1>17, <1>18, <1>19, <1>20, <1>21, <1>22, <1>23, <1>24, <1>25 DEF Next

\* Trust is lost by revocation only, and main() has only B revoked while A is
\* the certificate it goes back to.
LEMMA TrustStep ==
  ASSUME ~RetireOnConfirm, RotationInv, TrustPlace, TrustedIdentityKept, [Next]_vars
  PROVE  TrustPlace' /\ TrustedIdentityKept'
<1> USE RotationAssumption DEF RotationInv, TypeOK, PCs, IssuedKnown, CurrentPlace, NextPlace,
        Rotating, CurrentOnDisk, TrustPlace, TrustedIdentityKept, disk
<1>1. CASE Boot
  BY <1>1 DEF Boot
<1>2. CASE Enroll
  BY <1>2 DEF Enroll, Fresh, Dies
<1>3. CASE SaveEnrollment
  BY <1>3 DEF SaveEnrollment
<1>4. CASE GoOnline
  BY <1>4 DEF GoOnline
<1>5. CASE RequestRotation
  BY <1>5 DEF RequestRotation, Fresh, Dies
<1>6. CASE StageBegins
  BY <1>6 DEF StageBegins
<1>7. CASE StageEnds
  BY <1>7 DEF StageEnds
<1>8. CASE StageFails
  BY <1>8 DEF StageFails, OnStageFailure
<1>9. CASE ActivateMovesActive
  BY <1>9 DEF ActivateMovesActive, CopyKept
<1>10. CASE ActivateRefused
  BY <1>10 DEF ActivateRefused
<1>11. CASE ActivateMovesStage
  BY <1>11 DEF ActivateMovesStage
<1>12. CASE ActivateUndone
  BY <1>12 DEF ActivateUndone
<1>13. CASE Reload
  BY <1>13 DEF Reload
<1>14. CASE Confirm
  BY <1>14 DEF Confirm, Confirmed
<1>15. CASE ConfirmUnanswered
  BY <1>15 DEF ConfirmUnanswered, Confirmed, OnConfirmFailure
<1>16. CASE Commit
  BY <1>16 DEF Commit
<1>17. CASE UndoMovesActive
  BY <1>17 DEF UndoMovesActive
<1>18. CASE UndoRefused
  BY <1>18 DEF UndoRefused
<1>19. CASE UndoRestores
  BY <1>19 DEF UndoRestores
<1>20. CASE UndoUndone
  BY <1>20 DEF UndoUndone
<1>21. CASE UndoRemoves
  BY <1>21 DEF UndoRemoves
<1>22. CASE Abandon
  BY <1>22 DEF Abandon
<1>23. CASE Unstage
  BY <1>23 DEF Unstage
<1>24. CASE Crash
  BY <1>24 DEF Crash, Dies
<1>25. CASE CannotStart \/ UNCHANGED vars
  BY <1>25 DEF CannotStart, vars
<1>26. QED
  BY <1>1, <1>2, <1>3, <1>4, <1>5, <1>6, <1>7, <1>8, <1>9, <1>10, <1>11, <1>12, <1>13, <1>14, <1>15, <1>16, <1>17, <1>18, <1>19, <1>20, <1>21, <1>22, <1>23, <1>24, <1>25 DEF Next

-----------------------------------------------------------------------------
(* Theorems.                                                                *)

\* The invariant of enrollment and rotation: types, where the certificate in use
\* and the one being rotated in are at every step of main(), and what was issued.
THEOREM RotationInvariance == Spec => []RotationInv
<1>1. Init => RotationInv
  BY RotationAssumption DEF Init, RotationInv, TypeOK, PCs, IssuedKnown, CurrentPlace,
     NextPlace, Rotating, CurrentOnDisk, OnlyCompleteActivated
<1>2. RotationInv /\ [Next]_vars => RotationInv'
  BY RotationStep
<1>3. QED
  BY <1>1, <1>2, PTL DEF Spec

\* Every variable keeps its type, and a process past its start has a certificate.
THEOREM TypeCorrect == Spec => []TypeOK
<1>1. RotationInv => TypeOK
  BY DEF RotationInv
<1>2. QED
  BY <1>1, RotationInvariance, PTL

\* The identity that the process calls the Control Plane with is on disk, active
\* or as the rollback copy, through refused, half done and undone rotations.
THEOREM CurrentStaysOnDisk == Spec => []CurrentOnDisk
<1>1. RotationInv => CurrentOnDisk
  BY DEF RotationInv
<1>2. QED
  BY <1>1, RotationInvariance, PTL

\* What StageRotation did not finish is never the active or the rollback identity,
\* although its removal may fail and ActivateRotation and its undoing move
\* directories back and forth.
THEOREM PartialNeverActivated == Spec => []OnlyCompleteActivated
<1>1. RotationInv => OnlyCompleteActivated
  BY DEF RotationInv
<1>2. QED
  BY <1>1, RotationInvariance, PTL

\* Unless the confirmation of B by itself ends the trust in A, an enrolled agent
\* has at every instant, between renames and after a lost confirmation too, an
\* identity on disk that the Control Plane trusts.
THEOREM TrustKept == ~RetireOnConfirm => (Spec => []TrustedIdentityKept)
<1> SUFFICES ASSUME ~RetireOnConfirm
             PROVE  Spec => []TrustedIdentityKept
  OBVIOUS
<1>1. Init => TrustPlace /\ TrustedIdentityKept
  BY DEF Init, TrustPlace, TrustedIdentityKept, Rotating
<1>2. RotationInv /\ (TrustPlace /\ TrustedIdentityKept) /\ [Next]_vars
        => (TrustPlace /\ TrustedIdentityKept)'
  BY TrustStep
<1>3. QED
  BY <1>1, <1>2, RotationInvariance, PTL DEF Spec
=============================================================================
